-------------------------- MODULE AlgorithmProofs ---------------------------
(***************************************************************************)
(* What the pure parts compute, for inputs of any length: which entries    *)
(* and pages become items, with any number of links, text elements, meta   *)
(* tags and canonical links; which images an item has; which links have    *)
(* one canonical form; what topics and entities are ranked by; which keys  *)
(* have a job id of their own.                                             *)
(***************************************************************************)
EXTENDS Inputs, JobKeys, WellFoundedInduction, FiniteSetTheorems, TLAPS

\* What the scanner hands to buildEntry and to the page adapter: any number of tags, and
\* in them whatever the document says.
IsSequence(s) == \E T : s \in Seq(T)

IsEntry(entry) == IsSequence(entry.links) /\ IsSequence(entry.texts)

IsPage(page) == IsSequence(page.links) /\ IsSequence(page.metas)

HasMedia(entry) == IsSequence(entry.enclosures) /\ IsSequence(entry.media) /\ IsSequence(entry.inline)

Usable(reference) == reference \in {"page", "page#part", "other"}

\* A link an entry may be known by.
Linked(entry) ==
    \/ Usable(entry.linkText)
    \/ \E n \in DOMAIN entry.links :
          entry.links[n].rel \in {"absent", "alternate"} /\ Usable(entry.links[n].href)

Written(entry) == entry.title # "" \/ \E n \in DOMAIN entry.texts : entry.texts[n] # ""

\* A page says something about itself under one of these names.
Says(page, names) ==
    \E m \in DOMAIN page.metas : page.metas[m].key \in names /\ page.metas[m].content # ""

-----------------------------------------------------------------------------
(***************************************************************************)
(* Sequences.                                                              *)
(***************************************************************************)
\* A sequence is a function on its positions.
LEMMA Elements ==
    ASSUME NEW T, NEW s \in Seq(T)
    PROVE  DOMAIN s = 1 .. Len(s) /\ Len(s) \in Nat /\ \A n \in DOMAIN s : s[n] \in T
    OBVIOUS

\* A function on the positions 1 to n is a sequence of that length.
LEMMA IndexedBy ==
    ASSUME NEW T, NEW n \in Nat, NEW f \in [1 .. n -> T]
    PROVE  f \in Seq(T) /\ Len(f) = n /\ DOMAIN f = 1 .. n
    OBVIOUS

\* A sequence has a length and places.
LEMMA Lengths ==
    ASSUME NEW s, IsSequence(s)
    PROVE  DOMAIN s = 1 .. Len(s) /\ Len(s) \in Nat
    BY DEF IsSequence

\* Whatever is read at each place, a sequence of it is a sequence.
LEMMA SequenceOf ==
    ASSUME NEW n \in Nat, NEW f, DOMAIN f = 1 .. n, f = [m \in 1 .. n |-> f[m]]
    PROVE  f \in Seq({f[m] : m \in 1 .. n})
OBVIOUS

\* Sequences in a row are one.
LEMMA InARow ==
    ASSUME NEW a, NEW b, IsSequence(a), IsSequence(b)
    PROVE  IsSequence(a \o b)
<1>1. PICK S : a \in Seq(S)
    BY DEF IsSequence
<1>2. PICK T : b \in Seq(T)
    BY DEF IsSequence
<1>3. a \in Seq(S \cup T) /\ b \in Seq(S \cup T)
    BY <1>1, <1>2
<1>4. a \o b \in Seq(S \cup T)
    BY <1>3
<1> QED BY <1>4 DEF IsSequence

\* Where the elements of two joined sequences are found.
LEMMA Joined ==
    ASSUME NEW T, NEW a \in Seq(T), NEW b \in Seq(T)
    PROVE  /\ Len(a \o b) = Len(a) + Len(b)
           /\ \A m \in 1 .. Len(a) : (a \o b)[m] = a[m]
           /\ \A m \in 1 .. Len(b) : (a \o b)[Len(a) + m] = b[m]
    OBVIOUS

-----------------------------------------------------------------------------
(***************************************************************************)
(* Searching.                                                              *)
(***************************************************************************)
Less == OpToRel(<, Nat)

\* The relation holds for the numbers it is named after.
LEMMA LessDef == \A x, y \in Nat : x < y => <<x, y>> \in Less
    BY Zenon DEF Less, OpToRel

\* It is well founded.
LEMMA LessWellFounded == IsWellFoundedOn(Less, Nat)
    BY Zenon, NatLessThanWellFounded DEF Less

\* A set of positions that has an element has a least one, which Min finds.
LEMMA LeastPosition ==
    ASSUME NEW T, T \subseteq Nat, T # {}
    PROVE  Min(T) \in T /\ \A y \in T : Min(T) <= y
<1>1. PICK x \in T : \A y \in T : ~ (<<y, x>> \in Less)
    BY LessWellFounded, WFMin, Zenon
<1>2. ASSUME NEW y \in T PROVE x <= y
    <2>1. ~ (y < x)
        BY <1>1, LessDef
    <2> QED BY <2>1
<1> QED BY <1>2 DEF Min

\* The position a search for anything that is of use finds.
LEMMA FirstPosition ==
    ASSUME NEW useless, NEW S, NEW candidates \in Seq(S)
    PROVE  LET I == {i \in 1 .. Len(candidates) : candidates[i] \notin useless}
               n == IF I # {} THEN Min(I) ELSE 0
           IN  \/ n = 0 /\ \A m \in DOMAIN candidates : candidates[m] \in useless
               \/ n # 0 /\ IsFirst(n, candidates, useless)
<1> DEFINE I == {i \in 1 .. Len(candidates) : candidates[i] \notin useless}
           n == IF I # {} THEN Min(I) ELSE 0
<1>1. n = IF I # {} THEN Min(I) ELSE 0
    OBVIOUS
<1>2. DOMAIN candidates = 1 .. Len(candidates) /\ Len(candidates) \in Nat
    OBVIOUS
<1>3. CASE I = {}
    BY <1>1, <1>2, <1>3
<1>4. CASE I # {}
    <2>1. I \subseteq Nat
        BY <1>2
    <2> HIDE DEF I
    <2>2. Min(I) \in I /\ \A i \in I : Min(I) <= i
        BY <1>4, <2>1, LeastPosition
    <2>3. n = Min(I)
        BY <1>1, <1>4
    <2> HIDE DEF n
    <2>4. n \in I /\ \A i \in I : n <= i
        BY <2>2, <2>3
    <2>5. IsFirst(n, candidates, useless) /\ n # 0
        BY <1>2, <2>4 DEF I, IsFirst
    <2> QED BY <2>5 DEF n, I
<1> QED BY <1>3, <1>4

\* The first usable address of some.
LEMMA FirstAddress ==
    ASSUME NEW S, NEW urls \in Seq(S)
    PROVE  IsFirstOf(FirstUsable(urls, LAMBDA url : url # NoUrl, NoUrl), urls, {NoUrl}, NoUrl)
<1> DEFINE I == {i \in 1 .. Len(urls) : urls[i] \notin {NoUrl}}
           n == IF I # {} THEN Min(I) ELSE 0
<1>1. \/ n = 0 /\ \A m \in DOMAIN urls : urls[m] \in {NoUrl}
      \/ n # 0 /\ IsFirst(n, urls, {NoUrl})
    BY FirstPosition
<1>2. SelectInSeq(urls, LAMBDA url : url # NoUrl) = n
    <2>1. I = {i \in 1 .. Len(urls) : urls[i] # NoUrl}
        OBVIOUS
    <2> QED BY <2>1 DEF SelectInSeq
<1>3. FirstUsable(urls, LAMBDA url : url # NoUrl, NoUrl) = IF n = 0 THEN NoUrl ELSE urls[n]
    BY <1>2 DEF FirstUsable
<1> HIDE DEF n
<1> QED BY <1>1, <1>3 DEF IsFirstOf, IsFirst

\* pickText: the first text of some.
LEMMA FirstText ==
    ASSUME NEW S, NEW texts \in Seq(S)
    PROVE  IsFirstOf(PickText(texts), texts, {""}, "")
<1> DEFINE I == {i \in 1 .. Len(texts) : texts[i] \notin {""}}
           n == IF I # {} THEN Min(I) ELSE 0
<1>1. \/ n = 0 /\ \A m \in DOMAIN texts : texts[m] \in {""}
      \/ n # 0 /\ IsFirst(n, texts, {""})
    BY FirstPosition
<1>2. SelectInSeq(texts, LAMBDA t : t # "") = n
    <2>1. I = {i \in 1 .. Len(texts) : texts[i] # ""}
        OBVIOUS
    <2> QED BY <2>1 DEF SelectInSeq
<1>3. PickText(texts) = IF n = 0 THEN "" ELSE texts[n]
    BY <1>2 DEF PickText, FirstUsable
<1> HIDE DEF n
<1> QED BY <1>1, <1>3 DEF IsFirstOf, IsFirst

\* entryPublishedAt: the first date that can be read.
LEMMA FirstDate ==
    ASSUME NEW entry, IsSequence(entry.dates)
    PROVE  IsFirstOf(EntryPublishedAt(entry), entry.dates, {"", "bad"}, "")
<1> DEFINE dates == entry.dates
           I == {i \in 1 .. Len(dates) : dates[i] \notin {"", "bad"}}
           n == IF I # {} THEN Min(I) ELSE 0
<1>1. PICK S : dates \in Seq(S)
    BY DEF IsSequence
<1>2. \/ n = 0 /\ \A m \in DOMAIN dates : dates[m] \in {"", "bad"}
      \/ n # 0 /\ IsFirst(n, dates, {"", "bad"})
    <2> HIDE DEF dates
    <2> QED BY <1>1, FirstPosition
<1>3. SelectInSeq(dates, LAMBDA d : d \notin {"", "bad"}) = n
    BY DEF SelectInSeq
<1>4. EntryPublishedAt(entry) = IF n = 0 THEN "" ELSE dates[n]
    BY <1>3 DEF EntryPublishedAt, FirstUsable
<1> HIDE DEF n
<1> QED BY <1>2, <1>4 DEF IsFirstOf, IsFirst

\* Of two texts the second stands in for a missing first.
LEMMA EitherText ==
    ASSUME NEW a, NEW b
    PROVE  PickText(<<a, b>>) = IF a # "" THEN a ELSE b
<1> DEFINE pair == <<a, b>>
<1>1. pair \in Seq({a, b}) /\ Len(pair) = 2 /\ pair[1] = a /\ pair[2] = b
    OBVIOUS
<1> HIDE DEF pair
<1>2. 1 \in DOMAIN pair /\ 2 \in DOMAIN pair /\ \A n \in DOMAIN pair : n = 1 \/ n = 2
    BY <1>1
<1>3. IsFirstOf(PickText(pair), pair, {""}, "")
    BY <1>1, FirstText
<1>4. CASE a # ""
    <2>1. PICK n \in DOMAIN pair : IsFirst(n, pair, {""}) /\ PickText(pair) = pair[n]
        BY <1>1, <1>2, <1>3, <1>4 DEF IsFirstOf
    <2>2. \A m \in DOMAIN pair : m < n => pair[m] = ""
        BY <2>1 DEF IsFirst
    <2>3. n # 2
        <3>1. ~(1 < n)
            BY <1>1, <1>2, <1>4, <2>2
        <3>2. 1 < 2
            OBVIOUS
        <3> QED BY <3>1, <3>2
    <2> QED BY <1>1, <1>2, <1>4, <2>1, <2>3 DEF pair
<1>5. CASE a = ""
    <2>1. CASE b = ""
        BY <1>1, <1>2, <1>3, <1>5, <2>1 DEF IsFirstOf, IsFirst, pair
    <2>2. CASE b # ""
        <3>1. PICK n \in DOMAIN pair : IsFirst(n, pair, {""}) /\ PickText(pair) = pair[n]
            BY <1>1, <1>2, <1>3, <2>2 DEF IsFirstOf
        <3>2. n = 2
            BY <1>1, <1>2, <1>5, <3>1 DEF IsFirst
        <3> QED BY <1>1, <1>5, <3>1, <3>2 DEF pair
    <2> QED BY <2>1, <2>2
<1> QED BY <1>4, <1>5

\* An address comes of what is usable and of nothing else.
LEMMA SafeAddress ==
    ASSUME NEW reference
    PROVE  /\ Usable(reference) => SafeAbsoluteUrl(reference) \in {"page", "other"}
           /\ ~Usable(reference) => SafeAbsoluteUrl(reference) = NoUrl
           /\ SafeAbsoluteUrl(reference) # NoUrl <=> Usable(reference)
<1>1. CASE reference \in {"page", "page#part"}
    BY <1>1 DEF SafeAbsoluteUrl, Usable, NoUrl
<1>2. CASE reference = "other"
    BY <1>2 DEF SafeAbsoluteUrl, Usable, NoUrl
<1>3. CASE ~Usable(reference)
    BY <1>3 DEF SafeAbsoluteUrl, Usable, NoUrl
<1> QED BY <1>1, <1>2, <1>3 DEF Usable
-----------------------------------------------------------------------------
(***************************************************************************)
(* Entries of a feed.                                                      *)
(***************************************************************************)

\* entryLink finds an address exactly when one of the links is usable.
LEMMA LinkOfEntry ==
    ASSUME NEW entry, IsEntry(entry)
    PROVE  /\ Linked(entry) => EntryLink(entry) \in {"page", "other"}
           /\ ~Linked(entry) => EntryLink(entry) = NoUrl
<1> DEFINE fromText == SafeAbsoluteUrl(entry.linkText)
           Meant(n) == entry.links[n].rel \in {"absent", "alternate"}
           fromTags == [n \in DOMAIN entry.links |->
                           IF Meant(n) THEN SafeAbsoluteUrl(entry.links[n].href) ELSE NoUrl]
           first == FirstUsable(fromTags, LAMBDA url : url # NoUrl, NoUrl)
<1>1. EntryLink(entry) = IF fromText # NoUrl THEN fromText ELSE first
    BY DEF EntryLink
<1>2. DOMAIN entry.links = 1 .. Len(entry.links) /\ Len(entry.links) \in Nat
    BY Lengths DEF IsEntry
<1>3. ASSUME NEW n \in DOMAIN entry.links
      PROVE  /\ Meant(n) /\ Usable(entry.links[n].href) => fromTags[n] \in {"page", "other"}
             /\ ~(Meant(n) /\ Usable(entry.links[n].href)) => fromTags[n] = NoUrl
    BY SafeAddress
<1>4. fromTags \in Seq({"page", "other", NoUrl}) /\ DOMAIN fromTags = DOMAIN entry.links
    <2>1. \A n \in DOMAIN fromTags : fromTags[n] \in {"page", "other", NoUrl}
        BY <1>3
    <2>2. fromTags \in [1 .. Len(entry.links) -> {"page", "other", NoUrl}]
        BY <1>2, <2>1
    <2> HIDE DEF fromTags
    <2> QED BY <1>2, <2>2
<1>5. IsFirstOf(first, fromTags, {NoUrl}, NoUrl)
    <2> HIDE DEF fromTags
    <2> QED BY <1>4, FirstAddress
<1>6. /\ Usable(entry.linkText) => fromText \in {"page", "other"}
      /\ ~Usable(entry.linkText) => fromText = NoUrl
    BY SafeAddress
<1>7. "page" # NoUrl /\ "other" # NoUrl
    BY DEF NoUrl
<1>8. CASE Linked(entry)
    <2>1. CASE Usable(entry.linkText)
        BY <1>1, <1>6, <1>7, <1>8, <2>1
    <2>2. CASE \E n \in DOMAIN entry.links : Meant(n) /\ Usable(entry.links[n].href)
        <3>1. first \in {"page", "other"}
            <4> HIDE DEF fromTags, first
            <4> QED BY <1>3, <1>4, <1>5, <1>7, <2>2 DEF IsFirstOf, IsFirst
        <3> QED BY <1>1, <1>6, <1>7, <1>8, <3>1
    <2> QED BY <1>8, <2>1, <2>2 DEF Linked
<1>9. CASE ~Linked(entry)
    <2>1. first = NoUrl
        <3>1. \A n \in DOMAIN entry.links : fromTags[n] = NoUrl
            BY <1>3, <1>9 DEF Linked
        <3> HIDE DEF fromTags, first
        <3> QED BY <1>4, <1>5, <3>1 DEF IsFirstOf, IsFirst
    <2> QED BY <1>1, <1>6, <1>9, <2>1 DEF Linked
<1> QED BY <1>8, <1>9

\* pickText of an entry has a text exactly when some element has.
LEMMA TextOfEntry ==
    ASSUME NEW entry, IsEntry(entry)
    PROVE  PickText(entry.texts) # "" <=> \E n \in DOMAIN entry.texts : entry.texts[n] # ""
<1>1. PICK T : entry.texts \in Seq(T)
    BY DEF IsEntry, IsSequence
<1>2. IsFirstOf(PickText(entry.texts), entry.texts, {""}, "")
    BY <1>1, FirstText
<1> QED BY <1>2 DEF IsFirstOf, IsFirst

\* An entry becomes an item exactly when one of its links is a usable address and there is
\* any text in it, however many links and texts it has: nothing that can be read is
\* quarantined, and nothing else gets through.
THEOREM ItemIffLinkedAndWritten ==
    ASSUME NEW entry, IsEntry(entry), NEW maxImages
    PROVE  ~BuildEntry(entry, maxImages).quarantined <=> Linked(entry) /\ Written(entry)
<1> DEFINE url  == EntryLink(entry)
           text == PickText(entry.texts)
           built == BuildEntry(entry, maxImages)
<1>1. url # NoUrl <=> Linked(entry)
    BY LinkOfEntry DEF NoUrl
<1>2. text # "" <=> \E n \in DOMAIN entry.texts : entry.texts[n] # ""
    BY TextOfEntry
<1>3. built.quarantined <=> url = NoUrl \/ (entry.title = "" /\ text = "")
    BY DEF BuildEntry
<1> QED BY <1>1, <1>2, <1>3 DEF Written

\* What becomes an item has an address, a title, a text and an id, and the id is the feed's
\* own whenever the feed gives one: which of the links was usable then does not matter to
\* the upsert by external id.
THEOREM ItemsAreComplete ==
    ASSUME NEW entry, IsEntry(entry), NEW maxImages,
           ~BuildEntry(entry, maxImages).quarantined
    PROVE  LET item == BuildEntry(entry, maxImages)
           IN  /\ item.url \in {"page", "other"}
               /\ item.title # "" /\ item.text # "" /\ item.id # ""
               /\ entry.guid # "" => item.id = entry.guid
               /\ entry.guid = "" /\ entry.id # "" => item.id = entry.id
               /\ entry.guid = "" /\ entry.id = "" => item.id = item.url
<1> DEFINE url   == EntryLink(entry)
           text  == PickText(entry.texts)
           title == entry.title
           id    == IF Guid(entry) = "" THEN url ELSE Guid(entry)
           item  == BuildEntry(entry, maxImages)
<1>1. url # NoUrl /\ ~(title = "" /\ text = "")
    BY DEF BuildEntry
<1>2. item = [quarantined  |-> FALSE, id |-> id, url |-> url,
              title        |-> PickText(<<title, text>>),
              text         |-> PickText(<<text, title>>),
              author       |-> EntryAuthor(entry),
              publishedAt  |-> EntryPublishedAt(entry),
              images       |-> EntryImages(entry, maxImages)]
    BY <1>1 DEF BuildEntry
<1>3. url \in {"page", "other"}
    BY <1>1, LinkOfEntry
<1>4. PickText(<<title, text>>) # "" /\ PickText(<<text, title>>) # ""
    <2>1. PickText(<<title, text>>) = IF title # "" THEN title ELSE text
        BY EitherText
    <2>2. PickText(<<text, title>>) = IF text # "" THEN text ELSE title
        BY EitherText
    <2> DEFINE either == PickText(<<title, text>>)
               other  == PickText(<<text, title>>)
    <2>3. /\ ~(title = "" /\ text = "")
          /\ either = IF title # "" THEN title ELSE text
          /\ other = IF text # "" THEN text ELSE title
        BY <1>1, <2>1, <2>2
    <2> HIDE DEF text, title, either, other
    <2>4. either # "" /\ other # ""
        BY <2>3
    <2> QED BY <2>4 DEF either, other
<1>5. Guid(entry) = IF entry.guid # "" THEN entry.guid ELSE entry.id
    BY EitherText DEF Guid
<1>6. item.url = url /\ item.id = id /\ item.title # "" /\ item.text # ""
    <2> HIDE DEF url, text, id, item
    <2> QED BY <1>2, <1>4
<1>7. id # "" /\ (entry.guid # "" => id = entry.guid)
      /\ (entry.guid = "" /\ entry.id # "" => id = entry.id)
      /\ (entry.guid = "" /\ entry.id = "" => id = url)
    BY <1>3, <1>5
<1> QED BY <1>3, <1>6, <1>7
-----------------------------------------------------------------------------
(***************************************************************************)
(* Pages.                                                                  *)
(***************************************************************************)

\* Two names are those two.
LEMMA TwoNames ==
    ASSUME NEW a, NEW b
    PROVE  <<a, b>> \in Seq({a, b}) /\ {<<a, b>>[n] : n \in DOMAIN <<a, b>>} = {a, b}
<1> DEFINE pair == <<a, b>>
<1>1. pair \in Seq({a, b}) /\ Len(pair) = 2 /\ pair[1] = a /\ pair[2] = b
    OBVIOUS
<1> HIDE DEF pair
<1>2. 1 \in DOMAIN pair /\ 2 \in DOMAIN pair /\ \A n \in DOMAIN pair : n = 1 \/ n = 2
    BY <1>1
<1>3. {pair[n] : n \in DOMAIN pair} = {a, b}
    BY <1>1, <1>2
<1> QED BY <1>1, <1>3 DEF pair

\* metaContent finds something exactly when a tag of one of the names says it.
LEMMA MetaIsFound ==
    ASSUME NEW page, IsPage(page), NEW S, NEW names \in Seq(S)
    PROVE  MetaContent(page, names) # "" <=> Says(page, {names[n] : n \in DOMAIN names})
<1> DEFINE Contents(n) == [m \in DOMAIN page.metas |->
                              IF page.metas[m].key = names[n] THEN page.metas[m].content ELSE ""]
           found == [n \in DOMAIN names |-> PickText(Contents(n))]
<1>1. /\ DOMAIN page.metas = 1 .. Len(page.metas) /\ Len(page.metas) \in Nat
      /\ DOMAIN names = 1 .. Len(names) /\ Len(names) \in Nat
    <2>1. IsSequence(page.metas)
        BY DEF IsPage
    <2>2. DOMAIN page.metas = 1 .. Len(page.metas) /\ Len(page.metas) \in Nat
        BY <2>1, Lengths
    <2>3. DOMAIN names = 1 .. Len(names) /\ Len(names) \in Nat
        BY Elements
    <2> QED BY <2>2, <2>3
<1>2. ASSUME NEW n \in DOMAIN names
      PROVE  found[n] # "" <=>
                \E m \in DOMAIN page.metas : page.metas[m].key = names[n] /\ page.metas[m].content # ""
    <2> DEFINE contents == Contents(n)
    <2>1. contents \in Seq({contents[m] : m \in 1 .. Len(page.metas)})
        BY <1>1, SequenceOf
    <2>2. found[n] = PickText(contents)
        OBVIOUS
    <2>3. /\ DOMAIN contents = DOMAIN page.metas
          /\ \A m \in DOMAIN page.metas :
                contents[m] = IF page.metas[m].key = names[n] THEN page.metas[m].content ELSE ""
        OBVIOUS
    <2> HIDE DEF contents, found
    <2>4. IsFirstOf(found[n], contents, {""}, "")
        BY <2>1, <2>2, FirstText
    <2> QED BY <2>3, <2>4 DEF IsFirstOf, IsFirst
<1>3. found \in Seq({found[n] : n \in 1 .. Len(names)}) /\ DOMAIN found = DOMAIN names
    BY <1>1, SequenceOf
<1>4. MetaContent(page, names) = PickText(found)
    BY DEF MetaContent, PickText
<1> HIDE DEF found
<1>5. IsFirstOf(PickText(found), found, {""}, "")
    BY <1>3, FirstText
<1>6. PickText(found) # "" <=> \E n \in DOMAIN names : found[n] # ""
    BY <1>3, <1>5 DEF IsFirstOf, IsFirst
<1> QED BY <1>2, <1>4, <1>6 DEF Says

\* What metaContent finds is what a tag says.
LEMMA MetaIsSaid ==
    ASSUME NEW page, IsPage(page), NEW S, NEW names \in Seq(S), MetaContent(page, names) # ""
    PROVE  \E m \in DOMAIN page.metas : page.metas[m].content = MetaContent(page, names)
<1> DEFINE Contents(n) == [m \in DOMAIN page.metas |->
                              IF page.metas[m].key = names[n] THEN page.metas[m].content ELSE ""]
           found == [n \in DOMAIN names |-> PickText(Contents(n))]
<1>1. /\ DOMAIN page.metas = 1 .. Len(page.metas) /\ Len(page.metas) \in Nat
      /\ DOMAIN names = 1 .. Len(names) /\ Len(names) \in Nat
    <2>1. IsSequence(page.metas)
        BY DEF IsPage
    <2>2. DOMAIN page.metas = 1 .. Len(page.metas) /\ Len(page.metas) \in Nat
        BY <2>1, Lengths
    <2>3. DOMAIN names = 1 .. Len(names) /\ Len(names) \in Nat
        BY Elements
    <2> QED BY <2>2, <2>3
<1>2. ASSUME NEW n \in DOMAIN names, found[n] # ""
      PROVE  \E m \in DOMAIN page.metas : page.metas[m].content = found[n]
    <2> DEFINE contents == Contents(n)
    <2>1. contents \in Seq({contents[m] : m \in 1 .. Len(page.metas)})
        BY <1>1, SequenceOf
    <2>2. found[n] = PickText(contents)
        OBVIOUS
    <2>3. /\ DOMAIN contents = DOMAIN page.metas
          /\ \A m \in DOMAIN page.metas : contents[m] \in {page.metas[m].content, ""}
        OBVIOUS
    <2> HIDE DEF contents, found
    <2>4. IsFirstOf(found[n], contents, {""}, "")
        BY <2>1, <2>2, FirstText
    <2>5. \E m \in DOMAIN page.metas : contents[m] = found[n]
        BY <1>2, <2>3, <2>4 DEF IsFirstOf, IsFirst
    <2> QED BY <1>2, <2>3, <2>5
<1>3. found \in Seq({found[n] : n \in 1 .. Len(names)}) /\ DOMAIN found = DOMAIN names
    BY <1>1, SequenceOf
<1>4. MetaContent(page, names) = PickText(found)
    BY DEF MetaContent, PickText
<1> HIDE DEF found
<1>5. IsFirstOf(PickText(found), found, {""}, "")
    BY <1>3, FirstText
<1>6. \E n \in DOMAIN names : found[n] # "" /\ found[n] = PickText(found)
    BY <1>3, <1>4, <1>5 DEF IsFirstOf, IsFirst
<1> QED BY <1>2, <1>4, <1>6

\* canonicalFrom finds an address exactly when a canonical link has a usable one, and it
\* is that of a link.
LEMMA CanonicalIsFound ==
    ASSUME NEW page, IsPage(page)
    PROVE  /\ CanonicalFrom(page) \in {"page", "other", NoUrl}
           /\ CanonicalFrom(page) # NoUrl <=>
                \E n \in DOMAIN page.links : page.links[n].rel = "canonical" /\ Usable(page.links[n].href)
           /\ CanonicalFrom(page) # NoUrl =>
                \E n \in DOMAIN page.links : CanonicalFrom(page) = SafeAbsoluteUrl(page.links[n].href)
<1> DEFINE Meant(n) == page.links[n].rel = "canonical"
           urls == [n \in DOMAIN page.links |->
                       IF Meant(n) THEN SafeAbsoluteUrl(page.links[n].href) ELSE NoUrl]
<1>1. DOMAIN page.links = 1 .. Len(page.links) /\ Len(page.links) \in Nat
    BY Lengths DEF IsPage
<1>2. ASSUME NEW n \in DOMAIN page.links
      PROVE  /\ urls[n] \in {"page", "other", NoUrl}
             /\ urls[n] # NoUrl <=> Meant(n) /\ Usable(page.links[n].href)
             /\ urls[n] # NoUrl => urls[n] = SafeAbsoluteUrl(page.links[n].href)
    BY SafeAddress DEF NoUrl
<1>3. urls \in Seq({"page", "other", NoUrl}) /\ DOMAIN urls = DOMAIN page.links
    <2>1. urls \in [1 .. Len(page.links) -> {"page", "other", NoUrl}]
        BY <1>1, <1>2
    <2>2. DOMAIN urls = DOMAIN page.links
        OBVIOUS
    <2> HIDE DEF urls
    <2> QED BY <1>1, <2>1, <2>2
<1>4. CanonicalFrom(page) = FirstUsable(urls, LAMBDA url : url # NoUrl, NoUrl)
    BY DEF CanonicalFrom
<1> HIDE DEF urls
<1>5. IsFirstOf(CanonicalFrom(page), urls, {NoUrl}, NoUrl)
    BY <1>3, <1>4, FirstAddress
<1> QED BY <1>2, <1>3, <1>5 DEF IsFirstOf, IsFirst

\* A page becomes an item unless it has neither title nor text nor description; it is
\* known by a canonical link when one is usable and else by the address it was read from,
\* and an item is never without a title or a text.
THEOREM PageIsItemUnlessEmpty ==
    ASSUME NEW page, IsPage(page), NEW address, address # "", NEW maxImages
    PROVE  LET built     == BuildPage(page, address, maxImages)
               described == Says(page, {"og:description", "description"})
               canonical == \E n \in DOMAIN page.links :
                               page.links[n].rel = "canonical" /\ Usable(page.links[n].href)
           IN  /\ built.quarantined <=> page.title = "" /\ page.article = "" /\ ~described
               /\ canonical => built.id \in {"page", "other"}
               /\ ~canonical => built.id = address
               /\ ~built.quarantined =>
                     built.title # "" /\ built.text # "" /\ built.url = built.id
<1> DEFINE url   == IF CanonicalFrom(page) = NoUrl THEN address ELSE CanonicalFrom(page)
           names == <<"og:description", "description">>
           says  == MetaContent(page, names)
           text  == PickText(<<page.article, says>>)
           built == BuildPage(page, address, maxImages)
           described == Says(page, {"og:description", "description"})
<1>1. says # "" <=> described
    <2>1. /\ names \in Seq({"og:description", "description"})
          /\ {names[n] : n \in DOMAIN names} = {"og:description", "description"}
        BY TwoNames
    <2> HIDE DEF names
    <2> QED BY <2>1, MetaIsFound
<1> HIDE DEF says
<1>2. text = IF page.article # "" THEN page.article ELSE says
    BY EitherText
<1>3. url # ""
    <2>1. CanonicalFrom(page) \in {"page", "other", NoUrl}
        BY CanonicalIsFound
    <2>2. "page" # "" /\ "other" # ""
        OBVIOUS
    <2> QED BY <2>1, <2>2
<1>4. CASE page.title = "" /\ text = ""
    <2>1. built = [quarantined |-> TRUE, id |-> url]
        BY <1>4 DEF BuildPage, says
    <2> HIDE DEF built, text, url
    <2>2. built.quarantined /\ built.id = url
        BY <2>1
    <2>3. built.quarantined /\ page.title = "" /\ page.article = "" /\ ~described
        BY <1>1, <1>2, <1>4, <2>2
    <2> QED BY <2>2, <2>3, CanonicalIsFound DEF built, url
<1>5. CASE ~(page.title = "" /\ text = "")
    <2>1. built = [quarantined |-> FALSE, id |-> url, url |-> url,
                   title       |-> PickText(<<page.title, url>>),
                   text        |-> PickText(<<text, page.title>>),
                   images      |-> WebImages(page, maxImages)]
        BY <1>5 DEF BuildPage, says
    <2>2. /\ PickText(<<page.title, url>>) = IF page.title # "" THEN page.title ELSE url
          /\ PickText(<<text, page.title>>) = IF text # "" THEN text ELSE page.title
        <3> HIDE DEF url, text
        <3> QED BY EitherText
    <2> HIDE DEF built, text, url
    <2>3. /\ built.quarantined = FALSE /\ built.id = url /\ built.url = url
          /\ built.title = PickText(<<page.title, url>>)
          /\ built.text = PickText(<<text, page.title>>)
        BY <2>1
    <2>4. built.title # "" /\ built.text # ""
        BY <1>3, <1>5, <2>2, <2>3
    <2>5. ~(page.title = "" /\ page.article = "" /\ ~described)
        BY <1>1, <1>2, <1>5
    <2> QED BY <2>4, <2>5, <2>3, CanonicalIsFound DEF built, url
<1> QED BY <1>4, <1>5
-----------------------------------------------------------------------------
(***************************************************************************)
(* Folds. The library takes some function of sets of positions that folds  *)
(* what is at the last of them onto the rest. There is one for any number  *)
(* of positions, and what it gives is proved position by position.         *)
(***************************************************************************)

\* Max finds the last of some positions.
LEMMA LastPosition ==
    ASSUME NEW k \in Nat, NEW S, S \subseteq 1 .. k, S # {}
    PROVE  Max(S) \in S /\ \A y \in S : y <= Max(S)
<1> DEFINE D == {k - x : x \in S}
<1>1. D \subseteq Nat /\ D # {}
    <2>1. \A x \in S : x \in 1 .. k /\ k - x \in Nat
        OBVIOUS
    <2> QED BY <2>1
<1>2. PICK d \in D : \A y \in D : d <= y
    <2> HIDE DEF D
    <2> QED BY <1>1, LeastPosition
<1>3. PICK z \in S : d = k - z
    OBVIOUS
<1>4. ASSUME NEW y \in S PROVE z >= y
    <2>1. k - y \in D
        OBVIOUS
    <2>2. d <= k - y
        <3> HIDE DEF D
        <3> QED BY <1>2, <2>1
    <2> QED BY <1>3, <2>2
<1>5. \E x \in S : \A y \in S : x >= y
    BY <1>4
<1> QED BY <1>5 DEF Max

\* What is left without the last is further ahead.
LEMMA WithoutLast ==
    ASSUME NEW k \in Nat, NEW S, S \subseteq 1 .. k, S # {}
    PROVE  S \ {Max(S)} \subseteq 1 .. k - 1
<1>1. Max(S) \in 1 .. k /\ \A y \in S : y <= Max(S)
    BY LastPosition
<1>2. ASSUME NEW y \in S, y # Max(S) PROVE y \in 1 .. k - 1
    <2>1. y \in 1 .. k /\ y <= Max(S)
        BY <1>1
    <2> QED BY <1>1, <1>2, <2>1
<1> QED BY <1>2

\* What holds at the start, and at each position if at the one before, holds at the end.
LEMMA PositionByPosition ==
    ASSUME NEW N \in Nat, NEW V, 0 \in V, \A k \in 1 .. N : k - 1 \in V => k \in V
    PROVE  N \in V
<1> DEFINE U == (0 .. N) \ V
<1>1. ASSUME U # {} PROVE FALSE
    <2>1. PICK k \in U : \A j \in U : k <= j
        <3>1. U \subseteq Nat
            OBVIOUS
        <3> HIDE DEF U
        <3> QED BY <1>1, <3>1, LeastPosition
    <2>2. k \in 1 .. N /\ k - 1 \in 0 .. N /\ ~ k <= k - 1
        OBVIOUS
    <2>3. k - 1 \in V
        BY <2>1, <2>2
    <2> QED BY <2>2, <2>3
<1> QED BY <1>1

\* The positions 1 to k end with k.
LEMMA FirstPositions ==
    ASSUME NEW N \in Nat, NEW k \in 1 .. N
    PROVE  /\ 1 .. k \in SUBSET (1 .. N) /\ 1 .. k # {}
           /\ Max(1 .. k) = k /\ (1 .. k) \ {Max(1 .. k)} = 1 .. k - 1
<1>1. k \in 1 .. k /\ 1 .. k \subseteq 1 .. N /\ 1 .. k # {}
    <2>1. k \in Nat /\ k \in 1 .. k
        OBVIOUS
    <2>2. \A y \in 1 .. k : y \in 1 .. N
        BY <2>1
    <2> QED BY <2>1, <2>2
<1>2. Max(1 .. k) \in 1 .. k /\ k <= Max(1 .. k)
    BY <1>1, LastPosition
<1>3. Max(1 .. k) = k
    BY <1>2
<1>4. (1 .. k) \ {k} = 1 .. k - 1
    OBVIOUS
<1> QED BY <1>1, <1>3, <1>4

\* What is folded last, and before.
LEMMA LastTaken ==
    ASSUME NEW A, NEW T, NEW s, NEW N \in Nat, \A n \in 1 .. N : s[n] \in T,
           NEW f \in [SUBSET (1 .. N) -> A], NEW S \in SUBSET (1 .. N), S # {}
    PROVE  f[S \ {Max(S)}] \in A /\ s[Max(S)] \in T
<1>1. Max(S) \in 1 .. N
    BY LastPosition
<1>2. S \ {Max(S)} \in SUBSET (1 .. N)
    OBVIOUS
<1> QED BY <1>1, <1>2

\* G folds what is at each set of positions, taking the last of them last.
Folds(f, G, base, s, P) ==
    f = [S \in SUBSET P |-> IF S = {} THEN base ELSE G[<<f[S \ {Max(S)}], s[Max(S)]>>]]

\* Some function to A does so up to position N.
Foldable(G, base, s, A, N) ==
    \E f \in [SUBSET (1 .. N) -> A] : Folds(f, G, base, s, 1 .. N)

\* There is such a function for any number of positions.
LEMMA FoldIsThere ==
    ASSUME NEW A, NEW T, NEW base \in A, NEW G \in [A \X T -> A], NEW s, NEW N \in Nat,
           \A n \in 1 .. N : s[n] \in T
    PROVE  Foldable(G, base, s, A, N)
<1> DEFINE V == {k \in 0 .. N : \E f \in [SUBSET (1 .. k) -> A] : Folds(f, G, base, s, 1 .. k)}
<1>1. 0 \in V
    <2> DEFINE f == [S \in SUBSET (1 .. 0) |-> base]
    <2>1. \A S \in SUBSET (1 .. 0) : S = {}
        OBVIOUS
    <2>2. Folds(f, G, base, s, 1 .. 0) /\ f \in [SUBSET (1 .. 0) -> A]
        BY <2>1 DEF Folds
    <2> QED BY <2>2
<1>2. ASSUME NEW k \in 1 .. N, k - 1 \in V PROVE k \in V
    <2>1. PICK f \in [SUBSET (1 .. k - 1) -> A] : Folds(f, G, base, s, 1 .. k - 1)
        BY <1>2
    <2> DEFINE Extended(a, S) == IF S = {} THEN base ELSE G[<<a[S \ {Max(S)}], s[Max(S)]>>]
               g == [S \in SUBSET (1 .. k) |-> Extended(f, S)]
    <2>2. \A S \in SUBSET (1 .. k - 1) : f[S] = Extended(f, S)
        BY <2>1 DEF Folds
    <2>3. 1 .. k - 1 \subseteq 1 .. k /\ k \in Nat
        OBVIOUS
    <2>4. \A S \in SUBSET (1 .. k - 1) : g[S] = f[S]
        <3> HIDE DEF Extended
        <3> QED BY <2>2, <2>3
    <2>5. ASSUME NEW S \in SUBSET (1 .. k), S # {}
          PROVE  /\ S \ {Max(S)} \in SUBSET (1 .. k - 1) /\ Max(S) \in 1 .. N
                 /\ f[S \ {Max(S)}] \in A /\ g[S \ {Max(S)}] = f[S \ {Max(S)}]
        <3>1. S \ {Max(S)} \in SUBSET (1 .. k - 1)
            BY <2>3, <2>5, WithoutLast
        <3>2. Max(S) \in S
            BY <2>3, <2>5, LastPosition
        <3>3. Max(S) \in 1 .. N
            <4>1. \A x \in 1 .. k : x \in 1 .. N
                OBVIOUS
            <4> QED BY <3>2, <4>1
        <3> HIDE DEF g
        <3> QED BY <2>4, <3>1, <3>3
    <2>6. ASSUME NEW S \in SUBSET (1 .. k) PROVE Extended(f, S) = Extended(g, S) /\ Extended(f, S) \in A
        <3>1. CASE S = {}
            BY <3>1
        <3>2. CASE S # {}
            <4>1. f[S \ {Max(S)}] \in A /\ s[Max(S)] \in T /\ g[S \ {Max(S)}] = f[S \ {Max(S)}]
                <5> HIDE DEF g
                <5> QED BY <2>5, <3>2
            <4>2. G[<<f[S \ {Max(S)}], s[Max(S)]>>] \in A
                BY <4>1
            <4> HIDE DEF g
            <4> QED BY <3>2, <4>1, <4>2
        <3> QED BY <3>1, <3>2
    <2>7. g = [S \in SUBSET (1 .. k) |-> Extended(g, S)] /\ g \in [SUBSET (1 .. k) -> A]
        <3> HIDE DEF Extended
        <3> QED BY <2>6
    <2>8. Folds(g, G, base, s, 1 .. k)
        <3> HIDE DEF g
        <3> QED BY <2>7 DEF Folds
    <2>9. k \in 0 .. N
        OBVIOUS
    <2> HIDE DEF g
    <2> QED BY <2>7, <2>8, <2>9
<1>3. N \in V
    <2> HIDE DEF V
    <2> QED BY <1>1, <1>2, PositionByPosition
<1> QED BY <1>3 DEF Foldable
-----------------------------------------------------------------------------
(***************************************************************************)
(* Images.                                                                 *)
(***************************************************************************)

\* f gives the images of the references at each set of positions, from those of the set
\* without its last.
IsImagesOf(f, refs, maxImages, P) ==
    f = [S \in SUBSET P |-> IF S = {} THEN <<>>
                            ELSE AddImage(f[S \ {Max(S)}], refs[Max(S)], maxImages)]

\* The library defines the fold as some function of this kind.
LEMMA FoldUnfolds ==
    ASSUME NEW refs, NEW maxImages
    PROVE  Images(refs, maxImages) = (CHOOSE f : IsImagesOf(f, refs, maxImages, DOMAIN refs))[DOMAIN refs]
    BY DEF Images, FoldLeft, MapThenFoldSet, IsImagesOf

\* An address is usable or none at all.
LEMMA Addresses ==
    ASSUME NEW r
    PROVE  SafeAbsoluteUrl(r) \in Urls \cup {NoUrl} /\ NoUrl \notin Urls
    BY DEF SafeAbsoluteUrl, Urls, NoUrl

\* add keeps what is listed and lists the next reference.
LEMMA AddOne ==
    ASSUME NEW T, NEW refs \in Seq(T), NEW k \in 1 .. Len(refs), NEW maxImages \in Nat, NEW images,
           Listed(images, refs, k - 1, maxImages)
    PROVE  Listed(AddImage(images, refs[k], maxImages), refs, k, maxImages)
<1> DEFINE url == SafeAbsoluteUrl(refs[k])
           more == Append(images, url)
<1>1. /\ url \in Urls \cup {NoUrl} /\ NoUrl \notin Urls /\ k \in Nat
      /\ images \in Seq(Urls) /\ Len(images) \in Nat /\ DOMAIN images = 1 .. Len(images)
      /\ Len(images) <= maxImages
    BY Addresses DEF Listed
<1>2. CASE Len(images) >= maxImages \/ url = NoUrl \/ Contains(images, url)
    <2>1. AddImage(images, refs[k], maxImages) = images
        BY <1>2 DEF AddImage
    <2>2. ASSUME NEW n \in DOMAIN images
          PROVE  \E m \in 1 .. k :
                    /\ SafeAbsoluteUrl(refs[m]) = images[n]
                    /\ \A l \in 1 .. m - 1 : \/ SafeAbsoluteUrl(refs[l]) = NoUrl
                                             \/ \E i \in 1 .. n - 1 : images[i] = SafeAbsoluteUrl(refs[l])
        BY 1 .. k - 1 \subseteq 1 .. k DEF Listed
    <2>3. \/ Len(images) = maxImages
          \/ \A l \in 1 .. k : \/ SafeAbsoluteUrl(refs[l]) = NoUrl
                               \/ Contains(images, SafeAbsoluteUrl(refs[l]))
        <3>1. CASE Len(images) >= maxImages
            <4>1. Len(images) \in Nat /\ Len(images) <= maxImages
                BY <1>1
            <4>2. Len(images) = maxImages
                <5> HIDE DEF url
                <5> QED BY <3>1, <4>1
            <4> QED BY <4>2
        <3>2. CASE url = NoUrl \/ Contains(images, url)
            <4>1. ASSUME NEW l \in 1 .. k, Len(images) # maxImages
                  PROVE  \/ SafeAbsoluteUrl(refs[l]) = NoUrl
                         \/ Contains(images, SafeAbsoluteUrl(refs[l]))
                <5>1. CASE l = k
                    BY <3>2, <5>1
                <5>2. CASE l \in 1 .. k - 1
                    BY <4>1, <5>2 DEF Listed
                <5> QED BY <5>1, <5>2
            <4> QED BY <4>1
        <3> QED BY <1>2, <3>1, <3>2
    <2> QED BY <2>1, <2>2, <2>3 DEF Listed
<1>3. CASE ~ (Len(images) >= maxImages \/ url = NoUrl \/ Contains(images, url))
    <2>1. AddImage(images, refs[k], maxImages) = more
        BY <1>3 DEF AddImage
    <2>2. /\ more \in Seq(Urls) /\ Len(more) = Len(images) + 1 /\ Len(more) <= maxImages
          /\ DOMAIN more = 1 .. Len(images) + 1
          /\ more[Len(images) + 1] = url /\ \A n \in DOMAIN images : more[n] = images[n]
        BY <1>1, <1>3
    <2>3. \A n \in DOMAIN images : images[n] # url
        BY <1>1, <1>3 DEF Contains
    <2> HIDE DEF more
    <2>4. ASSUME NEW n \in DOMAIN more
          PROVE  \E m \in 1 .. k :
                    /\ SafeAbsoluteUrl(refs[m]) = more[n]
                    /\ \A l \in 1 .. m - 1 : \/ SafeAbsoluteUrl(refs[l]) = NoUrl
                                             \/ \E i \in 1 .. n - 1 : more[i] = SafeAbsoluteUrl(refs[l])
        <3>1. CASE n \in DOMAIN images
            <4>1. PICK m \in 1 .. k - 1 :
                      /\ SafeAbsoluteUrl(refs[m]) = images[n]
                      /\ \A l \in 1 .. m - 1 : \/ SafeAbsoluteUrl(refs[l]) = NoUrl
                                               \/ \E i \in 1 .. n - 1 : images[i] = SafeAbsoluteUrl(refs[l])
                BY <3>1 DEF Listed
            <4>2. \A i \in 1 .. n - 1 : more[i] = images[i]
                BY <1>1, <2>2, <3>1
            <4>3. m \in 1 .. k /\ more[n] = images[n]
                BY <1>1, <2>2, <3>1
            <4> QED BY <4>1, <4>2, <4>3
        <3>2. CASE n = Len(images) + 1
            <4>1. ASSUME NEW l \in 1 .. k - 1
                  PROVE  \/ SafeAbsoluteUrl(refs[l]) = NoUrl
                         \/ \E i \in 1 .. n - 1 : more[i] = SafeAbsoluteUrl(refs[l])
                <5>1. SafeAbsoluteUrl(refs[l]) = NoUrl \/ Contains(images, SafeAbsoluteUrl(refs[l]))
                    BY <1>1, <1>3 DEF Listed
                <5>2. n - 1 = Len(images)
                    BY <1>1, <3>2
                <5> QED BY <1>1, <2>2, <5>1, <5>2 DEF Contains
            <4>2. k \in 1 .. k /\ SafeAbsoluteUrl(refs[k]) = more[n]
                BY <2>2, <3>2
            <4> QED BY <4>1, <4>2
        <3> QED BY <1>1, <2>2, <3>1, <3>2
    <2>5. ASSUME NEW m \in DOMAIN more, NEW n \in DOMAIN more, more[m] = more[n] PROVE m = n
        <3>1. \A i \in DOMAIN more : i \in DOMAIN images \/ i = Len(images) + 1
            BY <1>1, <2>2
        <3>2. \A i, j \in DOMAIN images : images[i] = images[j] => i = j
            BY DEF Listed
        <3> QED BY <2>2, <2>3, <2>5, <3>1, <3>2
    <2>6. ASSUME NEW l \in 1 .. k, Len(more) # maxImages
          PROVE  \/ SafeAbsoluteUrl(refs[l]) = NoUrl
                 \/ Contains(more, SafeAbsoluteUrl(refs[l]))
        <3>1. CASE l = k
            BY <1>1, <2>2, <3>1 DEF Contains
        <3>2. CASE l \in 1 .. k - 1
            <4>1. SafeAbsoluteUrl(refs[l]) = NoUrl \/ Contains(images, SafeAbsoluteUrl(refs[l]))
                BY <1>1, <1>3, <3>2 DEF Listed
            <4> QED BY <1>1, <2>2, <4>1 DEF Contains
        <3> QED BY <3>1, <3>2
    <2> QED BY <2>1, <2>2, <2>4, <2>5, <2>6 DEF Listed
<1> QED BY <1>2, <1>3

\* The fold lists the images of all references.
LEMMA FoldListsImages ==
    ASSUME NEW T, NEW refs \in Seq(T), NEW maxImages \in Nat
    PROVE  Listed(Images(refs, maxImages), refs, Len(refs), maxImages)
<1> DEFINE N == Len(refs)
           A == Seq(Urls)
           G == [ir \in A \X T |-> AddImage(ir[1], ir[2], maxImages)]
           h == CHOOSE f : IsImagesOf(f, refs, maxImages, 1 .. N)
           V == {k \in 0 .. N : Listed(h[1 .. k], refs, k, maxImages)}
<1>1. DOMAIN refs = 1 .. N /\ N \in Nat /\ \A k \in 1 .. N : refs[k] \in T
    BY Elements
<1>2. ASSUME NEW images \in A, NEW r \in T PROVE AddImage(images, r, maxImages) \in A
    <2>1. SafeAbsoluteUrl(r) = NoUrl \/ SafeAbsoluteUrl(r) \in Urls
        BY Addresses
    <2> QED BY <2>1 DEF AddImage
<1>3. Images(refs, maxImages) = h[1 .. N]
    BY <1>1, FoldUnfolds
<1>4. \E f : IsImagesOf(f, refs, maxImages, 1 .. N)
    <2>1. <<>> \in A /\ G \in [A \X T -> A]
        BY <1>2
    <2>2. PICK f \in [SUBSET (1 .. N) -> A] : Folds(f, G, <<>>, refs, 1 .. N)
        <3> HIDE DEF A, G, N
        <3>1. Foldable(G, <<>>, refs, A, N)
            BY <1>1, <2>1, FoldIsThere
        <3> QED BY <3>1 DEF Foldable
    <2>3. ASSUME NEW S \in SUBSET (1 .. N), S # {}
          PROVE  G[<<f[S \ {Max(S)}], refs[Max(S)]>>] = AddImage(f[S \ {Max(S)}], refs[Max(S)], maxImages)
        <3>1. f[S \ {Max(S)}] \in A /\ refs[Max(S)] \in T
            <4> HIDE DEF A, N
            <4> QED BY <1>1, <2>3, LastTaken
        <3> QED BY <3>1
    <2>4. f = [S \in SUBSET (1 .. N) |->
                  IF S = {} THEN <<>> ELSE G[<<f[S \ {Max(S)}], refs[Max(S)]>>]]
        BY <2>2 DEF Folds
    <2>5. IsImagesOf(f, refs, maxImages, 1 .. N)
        <3> HIDE DEF A, G, N
        <3> QED BY <2>3, <2>4 DEF IsImagesOf
    <2> QED BY <2>5
<1>5. h = [S \in SUBSET (1 .. N) |->
              IF S = {} THEN <<>> ELSE AddImage(h[S \ {Max(S)}], refs[Max(S)], maxImages)]
    BY <1>4 DEF IsImagesOf
<1> HIDE DEF h
<1>6. 0 \in V
    <2>1. h[1 .. 0] = <<>> /\ 1 .. 0 = {}
        <3>1. 1 .. 0 = {} /\ {} \in SUBSET (1 .. N)
            OBVIOUS
        <3> QED BY <1>5, <3>1
    <2>2. Listed(<<>>, refs, 0, maxImages)
        BY <2>1 DEF Listed
    <2> QED BY <1>1, <2>1, <2>2
<1>7. ASSUME NEW k \in 1 .. N, k - 1 \in V PROVE k \in V
    <2>1. h[1 .. k] = AddImage(h[1 .. k - 1], refs[k], maxImages)
        <3>1. /\ 1 .. k \in SUBSET (1 .. N) /\ 1 .. k # {}
              /\ Max(1 .. k) = k /\ (1 .. k) \ {Max(1 .. k)} = 1 .. k - 1
            BY <1>1, FirstPositions
        <3>2. h[1 .. k] = AddImage(h[(1 .. k) \ {Max(1 .. k)}], refs[Max(1 .. k)], maxImages)
            <4> HIDE DEF N
            <4> QED BY <1>5, <3>1
        <3> QED BY <3>1, <3>2
    <2>2. Listed(h[1 .. k - 1], refs, k - 1, maxImages)
        BY <1>7
    <2>3. Listed(h[1 .. k], refs, k, maxImages)
        BY <2>1, <2>2, AddOne
    <2> QED BY <1>1, <2>3
<1>8. N \in V
    <2> HIDE DEF V, N
    <2> QED BY <1>1, <1>6, <1>7, PositionByPosition
<1> QED BY <1>3, <1>8

\* What a page refers to, in the order in which it is looked at.
PageReferences(page) ==
    <<IF MetaContent(page, <<"og:image">>) = "" THEN "absent" ELSE MetaContent(page, <<"og:image">>)>>
        \o page.inline

\* The images of an item are the usable addresses its entry or page refers to, each once,
\* in the order of their first appearance (enclosures, media and inline images; the Open
\* Graph image first of all), and none is left out before the limit.
THEOREM ImagesAreListed ==
    ASSUME NEW maxImages \in Nat
    PROVE  /\ \A entry : HasMedia(entry) =>
                 Listed(EntryImages(entry, maxImages), EntryReferences(entry),
                        Len(EntryReferences(entry)), maxImages)
           /\ \A page : IsSequence(page.inline) =>
                 Listed(WebImages(page, maxImages), PageReferences(page),
                        Len(PageReferences(page)), maxImages)
<1>1. ASSUME NEW refs, IsSequence(refs)
      PROVE  Listed(Images(refs, maxImages), refs, Len(refs), maxImages)
    BY <1>1, FoldListsImages DEF IsSequence
<1>2. ASSUME NEW entry, HasMedia(entry)
      PROVE  Listed(EntryImages(entry, maxImages), EntryReferences(entry),
                    Len(EntryReferences(entry)), maxImages)
    <2> DEFINE a == [n \in DOMAIN entry.enclosures |->
                        IF entry.enclosures[n].image THEN entry.enclosures[n].url ELSE "absent"]
               b == [n \in DOMAIN entry.media |->
                        IF entry.media[n].thumbnail \/ entry.media[n].image
                        THEN entry.media[n].url ELSE "absent"]
    <2>1. /\ DOMAIN a = 1 .. Len(entry.enclosures) /\ Len(entry.enclosures) \in Nat
          /\ DOMAIN b = 1 .. Len(entry.media) /\ Len(entry.media) \in Nat
        BY <1>2, Lengths DEF HasMedia
    <2>2. a = [n \in DOMAIN a |-> a[n]] /\ b = [n \in DOMAIN b |-> b[n]]
        OBVIOUS
    <2>3. EntryReferences(entry) = a \o b \o entry.inline
        BY DEF EntryReferences
    <2>4. EntryImages(entry, maxImages) = Images(EntryReferences(entry), maxImages)
        BY DEF EntryImages, EntryReferences
    <2> HIDE DEF a, b
    <2>5. IsSequence(a) /\ IsSequence(b)
        BY <2>1, <2>2, SequenceOf DEF IsSequence
    <2>6. IsSequence(EntryReferences(entry))
        BY <1>2, <2>3, <2>5, InARow DEF HasMedia
    <2> QED BY <1>1, <2>4, <2>6
<1>3. ASSUME NEW page, IsSequence(page.inline)
      PROVE  Listed(WebImages(page, maxImages), PageReferences(page),
                    Len(PageReferences(page)), maxImages)
    <2> DEFINE first == IF MetaContent(page, <<"og:image">>) = "" THEN "absent"
                        ELSE MetaContent(page, <<"og:image">>)
    <2>1. WebImages(page, maxImages) = Images(PageReferences(page), maxImages)
        BY DEF WebImages, PageReferences
    <2>2. PageReferences(page) = <<first>> \o page.inline
        BY DEF PageReferences
    <2> HIDE DEF first
    <2>3. IsSequence(<<first>>)
        <3>1. <<first>> \in Seq({first})
            OBVIOUS
        <3> QED BY <3>1 DEF IsSequence
    <2>4. IsSequence(PageReferences(page))
        BY <1>3, <2>2, <2>3, InARow
    <2> QED BY <1>1, <2>1, <2>4
<1> QED BY <1>2, <1>3
-----------------------------------------------------------------------------
(***************************************************************************)
(* Elements of a sequence, counted.                                        *)
(***************************************************************************)

\* Where p is in s.
Places(s, p) == {n \in DOMAIN s : s[n] = p}

\* Places can be counted.
LEMMA PlacesFinite ==
    ASSUME NEW T, NEW s \in Seq(T), NEW p
    PROVE  /\ IsFiniteSet(Places(s, p)) /\ Occurrences(s, p) \in Nat
           /\ Occurrences(s, p) = Cardinality(Places(s, p))
<1>1. Places(s, p) \in SUBSET (1 .. Len(s)) /\ Len(s) \in Nat
    BY DEF Places
<1>2. IsFiniteSet(1 .. Len(s))
    BY <1>1, FS_Interval
<1>3. Occurrences(s, p) = Cardinality(Places(s, p))
    BY DEF Occurrences, Places
<1> QED BY <1>1, <1>2, <1>3, FS_Subset, FS_CardinalityType

\* Where one sequence has an element at fewer places, it has it less often.
LEMMA FewerTimes ==
    ASSUME NEW T, NEW s \in Seq(T), NEW t \in Seq(T), NEW n \in DOMAIN s,
           \A m \in Places(t, s[n]) : m # n /\ m \in Places(s, s[n])
    PROVE  Occurrences(t, s[n]) # Occurrences(s, s[n])
<1>1. Places(t, s[n]) \in SUBSET Places(s, s[n]) /\ Places(t, s[n]) # Places(s, s[n])
    BY DEF Places
<1>2. /\ IsFiniteSet(Places(s, s[n])) /\ Occurrences(s, s[n]) = Cardinality(Places(s, s[n]))
      /\ Occurrences(t, s[n]) = Cardinality(Places(t, s[n]))
    BY PlacesFinite
<1> QED BY <1>1, <1>2, FS_Subset

\* How often p is among the first k.
Seen(s, k, p) == Cardinality({n \in 1 .. k : s[n] = p})

\* The next is one more of its kind.
LEMMA SeenNext ==
    ASSUME NEW s, NEW k \in Nat \ {0}, NEW p
    PROVE  /\ Seen(s, k - 1, p) \in Nat
           /\ Seen(s, k, p) = IF s[k] = p THEN Seen(s, k - 1, p) + 1 ELSE Seen(s, k - 1, p)
<1> DEFINE P == {m \in 1 .. k - 1 : s[m] = p}
<1>1. IsFiniteSet(P) /\ k \notin P /\ Cardinality(P) \in Nat
    <2>1. P \in SUBSET (1 .. k - 1) /\ k - 1 \in Nat /\ k \notin P
        OBVIOUS
    <2>2. IsFiniteSet(1 .. k - 1)
        BY <2>1, FS_Interval
    <2> HIDE DEF P
    <2> QED BY <2>1, <2>2, FS_Subset, FS_CardinalityType
<1>2. {m \in 1 .. k : s[m] = p} = IF s[k] = p THEN P \cup {k} ELSE P
    <2>1. \A m \in 1 .. k : m = k \/ m \in 1 .. k - 1
        OBVIOUS
    <2>2. k \in 1 .. k /\ \A m \in 1 .. k - 1 : m \in 1 .. k
        OBVIOUS
    <2> QED BY <2>1, <2>2
<1> HIDE DEF P
<1>3. Cardinality(P \cup {k}) = Cardinality(P) + 1
    BY <1>1, FS_AddElement
<1>4. Seen(s, k - 1, p) = Cardinality(P) /\ Seen(s, k, p) = Cardinality(IF s[k] = p THEN P \cup {k} ELSE P)
    BY <1>2 DEF Seen, P
<1> QED BY <1>1, <1>3, <1>4

\* None is in nothing.
LEMMA NothingCounts ==
    ASSUME NEW s, NEW p
    PROVE  Occurrences(<<>>, p) = 0 /\ Seen(s, 0, p) = 0
<1>1. {n \in DOMAIN <<>> : <<>>[n] = p} = {} /\ {n \in 1 .. 0 : s[n] = p} = {}
    OBVIOUS
<1> QED BY <1>1, FS_EmptySet DEF Occurrences, Seen

\* At first none, at last all.
LEMMA SeenAll ==
    ASSUME NEW T, NEW s \in Seq(T), NEW p
    PROVE  Seen(s, 0, p) = 0 /\ Seen(s, Len(s), p) = Occurrences(s, p)
<1>1. {n \in 1 .. 0 : s[n] = p} = {} /\ DOMAIN s = 1 .. Len(s)
    OBVIOUS
<1> QED BY <1>1, FS_EmptySet DEF Seen, Occurrences

\* Append adds one.
LEMMA AppendCounts ==
    ASSUME NEW T, NEW r \in Seq(T), NEW e \in T, NEW p
    PROVE  Occurrences(Append(r, e), p) = IF e = p THEN Occurrences(r, p) + 1 ELSE Occurrences(r, p)
<1> DEFINE q == Append(r, e)
           k == Len(r) + 1
<1>1. q \in Seq(T) /\ Len(q) = k /\ q[k] = e /\ k \in Nat \ {0} /\ k - 1 = Len(r)
      /\ \A n \in 1 .. Len(r) : q[n] = r[n]
    OBVIOUS
<1>2. Seen(q, Len(r), p) = Seen(r, Len(r), p)
    <2>1. {n \in 1 .. Len(r) : q[n] = p} = {n \in 1 .. Len(r) : r[n] = p}
        BY <1>1
    <2> QED BY <2>1 DEF Seen
<1> HIDE DEF q, k
<1>3. Occurrences(q, p) = Seen(q, k, p) /\ Occurrences(r, p) = Seen(r, Len(r), p)
    BY <1>1, SeenAll
<1>4. Seen(q, k, p) = IF q[k] = p THEN Seen(q, k - 1, p) + 1 ELSE Seen(q, k - 1, p)
    BY <1>1, SeenNext
<1> QED BY <1>1, <1>2, <1>3, <1>4 DEF q
-----------------------------------------------------------------------------
(***************************************************************************)
(* Sorting.                                                                *)
(***************************************************************************)

\* R is a strict total order of T.
Orders(R, T) ==
    \A p, q, r \in T :
        /\ p # q => <<p, q>> \in R \/ <<q, p>> \in R
        /\ ~ (<<p, q>> \in R /\ <<q, p>> \in R)
        /\ <<p, q>> \in R /\ <<q, r>> \in R => <<p, r>> \in R

\* No element is before one that precedes it.
InOrder(s, R) == \A m, n \in DOMAIN s : m < n => <<s[n], s[m]>> \notin R

\* Of two sequences in order with the same elements, one begins as the other does.
LEMMA OrderDecides ==
    ASSUME NEW T, NEW R, Orders(R, T), NEW s \in Seq(T), NEW t \in Seq(T), InOrder(s, R), InOrder(t, R),
           \A p \in T : Occurrences(s, p) = Occurrences(t, p)
    PROVE  \A n \in DOMAIN s : n \in DOMAIN t /\ s[n] = t[n]
<1> DEFINE U == {n \in DOMAIN s : ~ (n \in DOMAIN t /\ s[n] = t[n])}
<1>1. /\ DOMAIN s = 1 .. Len(s) /\ Len(s) \in Nat /\ \A m \in DOMAIN s : s[m] \in T
      /\ DOMAIN t = 1 .. Len(t) /\ Len(t) \in Nat /\ \A m \in DOMAIN t : t[m] \in T
    BY Elements
<1>2. ASSUME U # {} PROVE FALSE
    <2>1. PICK n \in U : \A m \in U : n <= m
        <3>1. U \subseteq Nat
            BY <1>1
        <3> HIDE DEF U
        <3> QED BY <1>2, <3>1, LeastPosition
    <2>2. n \in DOMAIN s /\ n \in Nat /\ ~ (n \in DOMAIN t /\ s[n] = t[n]) /\ s[n] \in T
        BY <1>1
    <2>3. ASSUME NEW m \in Nat, m < n, m \in DOMAIN s \/ m \in DOMAIN t
          PROVE  m \in DOMAIN s /\ m \in DOMAIN t /\ s[m] = t[m]
        <3>1. m \in DOMAIN s
            BY <1>1, <2>2, <2>3
        <3>2. ~ n <= m
            BY <2>2, <2>3
        <3>3. m \notin U
            BY <2>1, <3>2
        <3> QED BY <3>1, <3>3
    <2>4. ASSUME \A m \in DOMAIN t : n <= m => t[m] # s[n] PROVE FALSE
        <3>1. ASSUME NEW m \in Places(t, s[n]) PROVE m # n /\ m \in Places(s, s[n])
            <4>1. m \in DOMAIN t /\ t[m] = s[n] /\ m \in Nat
                BY <1>1, <3>1 DEF Places
            <4>2. m < n
                BY <2>2, <2>4, <4>1
            <4> QED BY <2>2, <2>3, <4>1, <4>2 DEF Places
        <3>2. Occurrences(t, s[n]) # Occurrences(s, s[n])
            BY <2>2, <3>1, FewerTimes
        <3> QED BY <2>2, <3>2
    <2>5. CASE n \notin DOMAIN t
        <3>1. \A m \in DOMAIN t : ~ n <= m
            BY <1>1, <2>2, <2>5
        <3> QED BY <2>4, <3>1
    <2>6. CASE n \in DOMAIN t /\ <<s[n], t[n]>> \in R
        <3>1. ASSUME NEW m \in DOMAIN t, n <= m PROVE t[m] # s[n]
            <4>1. m = n \/ n < m
                BY <1>1, <2>2, <3>1
            <4>2. m = n \/ <<t[m], t[n]>> \notin R
                BY <2>6, <4>1 DEF InOrder
            <4>3. <<s[n], s[n]>> \notin R
                BY <2>2 DEF Orders
            <4> QED BY <2>6, <4>2, <4>3, <2>2
        <3> QED BY <2>4, <3>1
    <2>7. CASE n \in DOMAIN t /\ <<t[n], s[n]>> \in R
        <3>1. ASSUME NEW m \in Places(s, t[n]) PROVE m # n /\ m \in Places(t, t[n])
            <4>1. m \in DOMAIN s /\ s[m] = t[n] /\ m \in Nat
                BY <1>1, <3>1 DEF Places
            <4>2. <<s[n], s[n]>> \notin R
                BY <2>2 DEF Orders
            <4>3. m # n
                BY <2>7, <4>1, <4>2
            <4>4. ~ n < m
                BY <2>2, <2>7, <4>1 DEF InOrder
            <4>5. m < n
                BY <2>2, <4>1, <4>3, <4>4
            <4> QED BY <2>3, <4>1, <4>5 DEF Places
        <3>2. Occurrences(s, t[n]) # Occurrences(t, t[n])
            BY <2>7, <3>1, FewerTimes
        <3> QED BY <1>1, <2>7, <3>2
    <2>8. n \in DOMAIN t => <<s[n], t[n]>> \in R \/ <<t[n], s[n]>> \in R
        BY <1>1, <2>2 DEF Orders
    <2> QED BY <2>5, <2>6, <2>7, <2>8
<1> QED BY <1>2

\* So there is only one way to put them in order.
LEMMA OneOrder ==
    ASSUME NEW T, NEW R, Orders(R, T), NEW s \in Seq(T), NEW t \in Seq(T), InOrder(s, R), InOrder(t, R),
           \A p \in T : Occurrences(s, p) = Occurrences(t, p)
    PROVE  s = t
<1>1. \A n \in DOMAIN s : n \in DOMAIN t /\ s[n] = t[n]
    BY OrderDecides
<1>2. \A n \in DOMAIN t : n \in DOMAIN s /\ t[n] = s[n]
    BY OrderDecides
<1>3. s = [n \in DOMAIN s |-> s[n]] /\ t = [n \in DOMAIN t |-> t[n]]
    OBVIOUS
<1> QED BY <1>1, <1>2, <1>3

\* What Array.sort does with the next element.
Inserted(sorted, e, R) ==
    LET n == SelectInSeq(sorted, LAMBDA other : <<e, other>> \in R)
    IN  IF n = 0 THEN Append(sorted, e) ELSE InsertAt(sorted, n, e)

\* It goes to position n, before the first it precedes.
GoesTo(q, r, e, n, R) ==
    /\ Len(q) = Len(r) + 1 /\ q[n] = e
    /\ \A i \in 1 .. n - 1 : q[i] = r[i] /\ <<e, r[i]>> \notin R
    /\ \A i \in n .. Len(r) : q[i + 1] = r[i]
    /\ n <= Len(r) => <<e, r[n]>> \in R

\* A sequence with an element put in.
LEMMA PutIn ==
    ASSUME NEW T, NEW r \in Seq(T), NEW e \in T, NEW n \in 1 .. Len(r)
    PROVE  /\ InsertAt(r, n, e) \in Seq(T) /\ Len(InsertAt(r, n, e)) = Len(r) + 1
           /\ \A i \in 1 .. n - 1 : InsertAt(r, n, e)[i] = r[i]
           /\ InsertAt(r, n, e)[n] = e
           /\ \A i \in n .. Len(r) : InsertAt(r, n, e)[i + 1] = r[i]
<1> DEFINE a == SubSeq(r, 1, n - 1)
           c == SubSeq(r, n, Len(r))
           b == a \o <<e>>
<1>1. Len(r) \in Nat /\ n \in Nat
    OBVIOUS
<1>2. a \in Seq(T) /\ Len(a) = n - 1 /\ \A i \in 1 .. n - 1 : a[i] = r[i]
    OBVIOUS
<1>3. c \in Seq(T) /\ Len(c) = Len(r) - n + 1 /\ \A i \in 1 .. Len(r) - n + 1 : c[i] = r[n + i - 1]
    OBVIOUS
<1>4. InsertAt(r, n, e) = b \o c
    BY DEF InsertAt
<1> HIDE DEF a, c
<1>5. b \in Seq(T) /\ Len(b) = n /\ b[n] = e /\ \A i \in 1 .. n - 1 : b[i] = r[i]
    BY <1>1, <1>2
<1> HIDE DEF b
<1>6. b \o c \in Seq(T) /\ Len(b \o c) = Len(r) + 1
    <2>1. b \o c \in Seq(T)
        BY <1>3, <1>5
    <2>2. Len(b \o c) = Len(b) + Len(c)
        BY <1>3, <1>5, Joined
    <2>3. Len(b) + Len(c) = Len(r) + 1
        BY <1>1, <1>3, <1>5
    <2> QED BY <2>1, <2>2, <2>3
<1>7. \A i \in 1 .. n : (b \o c)[i] = b[i]
    BY <1>1, <1>3, <1>5
<1>8. ASSUME NEW i \in n .. Len(r) PROVE (b \o c)[i + 1] = r[i]
    <2>1. i - n + 1 \in 1 .. Len(c) /\ Len(b) + (i - n + 1) = i + 1 /\ n + (i - n + 1) - 1 = i
        BY <1>1, <1>3, <1>5
    <2>2. (b \o c)[Len(b) + (i - n + 1)] = c[i - n + 1]
        BY <1>3, <1>5, <2>1
    <2> QED BY <1>3, <2>1, <2>2
<1> DEFINE q == b \o c
<1>9. q \in Seq(T) /\ Len(q) = Len(r) + 1 /\ (\A i \in 1 .. n : q[i] = b[i])
      /\ \A i \in n .. Len(r) : q[i + 1] = r[i]
    BY <1>6, <1>7, <1>8
<1> HIDE DEF q
<1>10. q[n] = e /\ \A i \in 1 .. n - 1 : q[i] = r[i]
    <2>1. n \in 1 .. n /\ \A i \in 1 .. n - 1 : i \in 1 .. n
        BY <1>1
    <2> QED BY <1>5, <1>9, <2>1
<1>11. InsertAt(r, n, e) = q
    BY <1>4 DEF q
<1> QED BY <1>9, <1>10, <1>11

\* Array.sort puts the next element before the first it precedes, or last.
LEMMA InsertedGoes ==
    ASSUME NEW T, NEW R, NEW r \in Seq(T), NEW e \in T
    PROVE  \E n \in 1 .. Len(r) + 1 : GoesTo(Inserted(r, e, R), r, e, n, R) /\ Inserted(r, e, R) \in Seq(T)
<1> DEFINE I == {i \in 1 .. Len(r) : <<e, r[i]>> \in R}
           n == IF I # {} THEN Min(I) ELSE 0
<1>1. Inserted(r, e, R) = IF n = 0 THEN Append(r, e) ELSE InsertAt(r, n, e)
    BY DEF Inserted, SelectInSeq
<1>2. Len(r) \in Nat /\ I \subseteq Nat
    OBVIOUS
<1>3. CASE I = {}
    <2>1. Inserted(r, e, R) = Append(r, e)
        BY <1>1, <1>3
    <2>2. /\ Append(r, e) \in Seq(T) /\ Len(Append(r, e)) = Len(r) + 1
          /\ Append(r, e)[Len(r) + 1] = e /\ \A i \in 1 .. Len(r) : Append(r, e)[i] = r[i]
        OBVIOUS
    <2>3. \A i \in 1 .. Len(r) : <<e, r[i]>> \notin R
        BY <1>3
    <2>4. GoesTo(Inserted(r, e, R), r, e, Len(r) + 1, R)
        BY <1>2, <2>1, <2>2, <2>3 DEF GoesTo
    <2> QED BY <1>2, <2>1, <2>2, <2>4
<1>4. CASE I # {}
    <2>1. n \in I /\ \A y \in I : n <= y
        <3>1. Min(I) \in I /\ \A y \in I : Min(I) <= y
            <4> HIDE DEF I
            <4> QED BY <1>2, <1>4, LeastPosition
        <3> QED BY <1>4, <3>1
    <2>2. n \in 1 .. Len(r) /\ <<e, r[n]>> \in R /\ n # 0
        BY <2>1
    <2>3. Inserted(r, e, R) = InsertAt(r, n, e)
        BY <1>1, <2>2
    <2>4. ASSUME NEW i \in 1 .. n - 1 PROVE <<e, r[i]>> \notin R
        <3>1. i \in 1 .. Len(r) /\ ~ n <= i
            BY <1>2, <2>2
        <3> QED BY <2>1, <3>1
    <2> HIDE DEF n
    <2>5. GoesTo(Inserted(r, e, R), r, e, n, R) /\ Inserted(r, e, R) \in Seq(T)
        <3> DEFINE q == InsertAt(r, n, e)
        <3>1. /\ q \in Seq(T) /\ Len(q) = Len(r) + 1 /\ q[n] = e
              /\ \A i \in 1 .. n - 1 : q[i] = r[i]
              /\ \A i \in n .. Len(r) : q[i + 1] = r[i]
            BY <2>2, PutIn
        <3> HIDE DEF q
        <3>2. GoesTo(q, r, e, n, R)
            BY <2>2, <2>4, <3>1 DEF GoesTo
        <3> QED BY <2>3, <3>1, <3>2 DEF q
    <2>6. n \in 1 .. Len(r) + 1
        BY <1>2, <2>2
    <2> QED BY <2>5, <2>6
<1> QED BY <1>3, <1>4

\* An element put there leaves the others in order.
LEMMA InsertedInOrder ==
    ASSUME NEW T, NEW R, Orders(R, T), NEW r \in Seq(T), NEW e \in T, InOrder(r, R),
           NEW q \in Seq(T), NEW n \in 1 .. Len(r) + 1,
           GoesTo(q, r, e, n, R)
    PROVE  InOrder(q, R)
<1>1. /\ Len(r) \in Nat /\ n \in Nat /\ DOMAIN r = 1 .. Len(r) /\ DOMAIN q = 1 .. Len(r) + 1
      /\ \A i \in 1 .. Len(r) : r[i] \in T
    BY Elements DEF GoesTo
<1>2. ASSUME NEW i \in DOMAIN q PROVE i = n \/ i \in 1 .. n - 1 \/ i - 1 \in n .. Len(r)
    BY <1>1
<1>3. \A i \in 1 .. n - 1 : i \in DOMAIN r /\ q[i] = r[i] /\ <<e, r[i]>> \notin R
    BY <1>1 DEF GoesTo
<1>4. ASSUME NEW i \in DOMAIN q, i - 1 \in n .. Len(r)
      PROVE  i - 1 \in DOMAIN r /\ q[i] = r[i - 1] /\ <<r[i - 1], e>> \notin R
    <2>1. i - 1 \in DOMAIN r /\ q[i] = r[i - 1] /\ n \in DOMAIN r
        <3>1. (i - 1) + 1 = i
            BY <1>1
        <3>2. q[(i - 1) + 1] = r[i - 1]
            BY <1>4 DEF GoesTo
        <3> QED BY <1>1, <1>4, <3>1, <3>2
    <2>2. <<e, r[n]>> \in R
        BY <1>1, <1>4 DEF GoesTo
    <2>3. n = i - 1 \/ <<r[i - 1], r[n]>> \notin R
        BY <1>1, <1>4, <2>1 DEF InOrder
    <2>4. r[n] \in T /\ r[i - 1] \in T
        BY <1>1, <2>1
    <2> QED BY <2>1, <2>2, <2>3, <2>4 DEF Orders
<1>5. q[n] = e
    BY DEF GoesTo
<1> SUFFICES ASSUME NEW i \in DOMAIN q, NEW j \in DOMAIN q, i < j PROVE <<q[j], q[i]>> \notin R
    BY DEF InOrder
<1>6. CASE i = n
    <2>1. j - 1 \in n .. Len(r)
        BY <1>1, <1>6
    <2> QED BY <1>4, <1>5, <1>6, <2>1
<1>7. CASE i \in 1 .. n - 1
    <2>1. CASE j = n
        BY <1>3, <1>5, <1>7, <2>1
    <2>2. CASE j \in 1 .. n - 1
        BY <1>3, <1>7, <2>2 DEF InOrder
    <2>3. CASE j - 1 \in n .. Len(r)
        <3>1. i < j - 1
            BY <1>1, <1>7, <2>3
        <3> QED BY <1>3, <1>4, <1>7, <2>3, <3>1 DEF InOrder
    <2> QED BY <1>2, <2>1, <2>2, <2>3
<1>8. CASE i - 1 \in n .. Len(r)
    <2>1. j - 1 \in n .. Len(r) /\ i - 1 < j - 1
        BY <1>1, <1>8
    <2> QED BY <1>4, <1>8, <2>1 DEF InOrder
<1> QED BY <1>2, <1>6, <1>7, <1>8

\* It adds one place of that element, and moves the others without losing any.
LEMMA InsertedCounts ==
    ASSUME NEW T, NEW R, NEW r \in Seq(T), NEW e \in T, NEW q \in Seq(T), NEW n \in 1 .. Len(r) + 1,
           GoesTo(q, r, e, n, R), NEW p
    PROVE  Occurrences(q, p) = Occurrences(r, p) + (IF p = e THEN 1 ELSE 0)
<1>1. /\ Len(r) \in Nat /\ n \in Nat /\ DOMAIN r = 1 .. Len(r) /\ DOMAIN q = 1 .. Len(r) + 1
      /\ q \in Seq(T) /\ q[n] = e
    BY Elements DEF GoesTo
<1> DEFINE P == Places(r, p)
           Q == Places(q, p) \ {n}
           f == [i \in P |-> IF i < n THEN i ELSE i + 1]
<1>2. ASSUME NEW i \in P PROVE f[i] \in Q /\ i \in Nat /\ f[i] \in Nat
    <2>1. i \in 1 .. Len(r) /\ r[i] = p /\ i \in Nat
        BY <1>1 DEF Places
    <2>2. CASE i < n
        <3>1. q[i] = r[i] /\ f[i] = i
            <4>1. i \in 1 .. n - 1
                BY <1>1, <2>1, <2>2
            <4>2. q[i] = r[i]
                BY <4>1 DEF GoesTo
            <4> QED BY <2>2, <4>2
        <3> QED BY <1>1, <2>1, <2>2, <3>1 DEF Places
    <2>3. CASE ~ i < n
        <3>1. i \in n .. Len(r) /\ f[i] = i + 1
            BY <1>1, <2>1, <2>3
        <3>2. q[i + 1] = r[i]
            BY <3>1 DEF GoesTo
        <3> QED BY <1>1, <2>1, <2>3, <3>1, <3>2 DEF Places
    <2> QED BY <2>2, <2>3
<1>3. ASSUME NEW i \in P, NEW j \in P, f[i] = f[j] PROVE i = j
    BY <1>1, <1>2, <1>3
<1>4. ASSUME NEW k \in Q PROVE \E i \in P : f[i] = k
    <2>1. k \in 1 .. Len(r) + 1 /\ q[k] = p /\ k # n
        BY <1>1 DEF Places
    <2>2. CASE k < n
        <3>1. k \in 1 .. n - 1 /\ k \in 1 .. Len(r)
            BY <1>1, <2>1, <2>2
        <3>2. q[k] = r[k]
            BY <3>1 DEF GoesTo
        <3>3. k \in P
            BY <1>1, <2>1, <3>1, <3>2 DEF Places
        <3> QED BY <2>2, <3>3
    <2>3. CASE ~ k < n
        <3>1. k - 1 \in n .. Len(r) /\ k - 1 \in 1 .. Len(r) /\ (k - 1) + 1 = k /\ ~ k - 1 < n
            BY <1>1, <2>1, <2>3
        <3>2. q[(k - 1) + 1] = r[k - 1]
            BY <3>1 DEF GoesTo
        <3>3. k - 1 \in P
            BY <1>1, <2>1, <3>1, <3>2 DEF Places
        <3> QED BY <3>1, <3>3
    <2> QED BY <2>2, <2>3
<1>5. f \in [P -> Q]
    BY <1>2
<1> HIDE DEF f
<1>6. f \in Bijection(P, Q)
    BY <1>3, <1>4, <1>5 DEF Bijection, Injection, Surjection, IsInjective
<1>7. Cardinality(Q) = Cardinality(P) /\ IsFiniteSet(Q)
    <2>1. IsFiniteSet(P) /\ ExistsBijection(P, Q)
        BY <1>6, PlacesFinite DEF ExistsBijection
    <2> HIDE DEF P, Q
    <2> QED BY <2>1, FS_Bijection
<1>8. CASE p = e
    <2>1. Places(q, p) = Q \cup {n} /\ n \notin Q
        BY <1>1, <1>8 DEF Places
    <2>2. Cardinality(Q \cup {n}) = Cardinality(Q) + 1
        <3> HIDE DEF Q
        <3> QED BY <1>7, <2>1, FS_AddElement
    <2>3. Occurrences(r, p) = Cardinality(P) /\ Occurrences(q, p) = Cardinality(Q \cup {n})
        BY <2>1, PlacesFinite
    <2>4. Occurrences(q, p) = Occurrences(r, p) + 1
        <3> HIDE DEF P, Q
        <3> QED BY <1>7, <2>2, <2>3
    <2> QED BY <1>8, <2>4
<1>9. CASE p # e
    <2>1. Places(q, p) = Q
        BY <1>1, <1>9 DEF Places
    <2>2. Occurrences(r, p) = Cardinality(P) /\ Occurrences(q, p) = Cardinality(Q) /\ Occurrences(r, p) \in Nat
        BY <2>1, PlacesFinite
    <2>3. Occurrences(q, p) = Occurrences(r, p) + 0
        <3> HIDE DEF P, Q
        <3> QED BY <1>7, <2>2
    <2> QED BY <1>9, <2>3
<1> QED BY <1>8, <1>9

\* t has the first k elements of s, in order.
SortedUpTo(t, s, k, R, T) ==
    /\ t \in Seq(T) /\ InOrder(t, R)
    /\ \A p \in T : Occurrences(t, p) = Seen(s, k, p)

\* Element by element put in, all are there and in order.
LEMMA SortSorts ==
    ASSUME NEW T, NEW R, Orders(R, T), NEW s \in Seq(T), NEW h, h[{}] = <<>>,
           \A k \in 1 .. Len(s) :
              h[1 .. k - 1] \in Seq(T) => h[1 .. k] = Inserted(h[1 .. k - 1], s[k], R)
    PROVE  /\ h[1 .. Len(s)] \in Seq(T) /\ InOrder(h[1 .. Len(s)], R)
           /\ \A p \in T : Occurrences(h[1 .. Len(s)], p) = Occurrences(s, p)
<1> DEFINE N == Len(s)
           V == {k \in 0 .. N : SortedUpTo(h[1 .. k], s, k, R, T)}
<1>1. N \in Nat /\ \A k \in 1 .. N : s[k] \in T
    BY Elements
<1>2. 0 \in V
    <2>1. <<>> \in Seq(T) /\ InOrder(<<>>, R) /\ 1 .. 0 = {}
        BY DEF InOrder
    <2>3. SortedUpTo(<<>>, s, 0, R, T)
        BY <2>1, NothingCounts DEF SortedUpTo
    <2> QED BY <1>1, <2>1, <2>3
<1>3. ASSUME NEW k \in 1 .. N, k - 1 \in V PROVE k \in V
    <2> DEFINE t == h[1 .. k - 1]
               q == h[1 .. k]
    <2>1. t \in Seq(T) /\ InOrder(t, R) /\ \A p \in T : Occurrences(t, p) = Seen(s, k - 1, p)
        BY <1>3 DEF SortedUpTo
    <2>2. q = Inserted(t, s[k], R)
        BY <2>1
    <2> HIDE DEF t, q
    <2>3. PICK n \in 1 .. Len(t) + 1 : GoesTo(q, t, s[k], n, R) /\ q \in Seq(T)
        BY <1>1, <2>1, <2>2, InsertedGoes
    <2>4. InOrder(q, R)
        BY <1>1, <2>1, <2>3, InsertedInOrder
    <2>5. ASSUME NEW p \in T PROVE Occurrences(q, p) = Seen(s, k, p)
        <3>1. Occurrences(q, p) = Occurrences(t, p) + (IF p = s[k] THEN 1 ELSE 0)
            BY <1>1, <2>1, <2>3, InsertedCounts
        <3>2. /\ Seen(s, k - 1, p) \in Nat
              /\ Seen(s, k, p) = IF s[k] = p THEN Seen(s, k - 1, p) + 1 ELSE Seen(s, k - 1, p)
            BY <1>1, SeenNext
        <3>3. Occurrences(t, p) = Seen(s, k - 1, p)
            BY <2>1
        <3> QED BY <3>1, <3>2, <3>3
    <2>6. SortedUpTo(h[1 .. k], s, k, R, T)
        BY <2>3, <2>4, <2>5 DEF SortedUpTo, q
    <2> QED BY <1>1, <2>6
<1>4. N \in V
    <2> HIDE DEF V, N
    <2> QED BY <1>1, <1>2, <1>3, PositionByPosition
<1>5. SortedUpTo(h[1 .. N], s, N, R, T)
    BY <1>4
<1> QED BY <1>5, SeenAll DEF SortedUpTo
-----------------------------------------------------------------------------
(***************************************************************************)
(* Filtering.                                                              *)
(***************************************************************************)

\* t has those of the first k elements of s that are in K.
HasKept(t, s, k, K, T) ==
    /\ t \in Seq(T)
    /\ \A p \in T : Occurrences(t, p) = IF p \in K THEN Seen(s, k, p) ELSE 0

\* h keeps, at each number of positions, the elements of s that are in K.
Keeping(h, s, K, T) ==
    /\ h[{}] = <<>>
    /\ \A k \in 1 .. Len(s) :
          h[1 .. k - 1] \in Seq(T) =>
              h[1 .. k] = IF s[k] \in K THEN Append(h[1 .. k - 1], s[k]) ELSE h[1 .. k - 1]

\* Element by element kept or not, those in K are there as often as before, and no others.
LEMMA KeepKeeps ==
    ASSUME NEW T, NEW K, NEW s \in Seq(T), NEW h, Keeping(h, s, K, T)
    PROVE  /\ h[1 .. Len(s)] \in Seq(T)
           /\ \A p \in T : Occurrences(h[1 .. Len(s)], p) = IF p \in K THEN Occurrences(s, p) ELSE 0
<1> DEFINE N == Len(s)
           V == {k \in 0 .. N : HasKept(h[1 .. k], s, k, K, T)}
<1>1. N \in Nat /\ \A k \in 1 .. N : s[k] \in T
    BY Elements
<1>2. 0 \in V
    <2>1. <<>> \in Seq(T) /\ 1 .. 0 = {}
        OBVIOUS
    <2>2. HasKept(<<>>, s, 0, K, T)
        BY <2>1, NothingCounts DEF HasKept
    <2>3. h[1 .. 0] = <<>>
        BY <2>1 DEF Keeping
    <2> QED BY <1>1, <2>2, <2>3
<1>3. ASSUME NEW k \in 1 .. N, k - 1 \in V PROVE k \in V
    <2> DEFINE t == h[1 .. k - 1]
               q == h[1 .. k]
    <2>1. t \in Seq(T) /\ \A p \in T : Occurrences(t, p) = IF p \in K THEN Seen(s, k - 1, p) ELSE 0
        BY <1>3 DEF HasKept
    <2>2. q = IF s[k] \in K THEN Append(t, s[k]) ELSE t
        BY <2>1 DEF Keeping
    <2> HIDE DEF t, q
    <2>3. s[k] \in T /\ k \in Nat \ {0}
        BY <1>1
    <2>4. q \in Seq(T)
        BY <2>1, <2>2, <2>3
    <2>5. ASSUME NEW p \in T PROVE Occurrences(q, p) = IF p \in K THEN Seen(s, k, p) ELSE 0
        <3>1. Occurrences(Append(t, s[k]), p) = IF s[k] = p THEN Occurrences(t, p) + 1 ELSE Occurrences(t, p)
            BY <2>1, <2>3, AppendCounts
        <3>2. /\ Seen(s, k - 1, p) \in Nat
              /\ Seen(s, k, p) = IF s[k] = p THEN Seen(s, k - 1, p) + 1 ELSE Seen(s, k - 1, p)
            BY <2>3, SeenNext
        <3>3. Occurrences(t, p) = IF p \in K THEN Seen(s, k - 1, p) ELSE 0
            BY <2>1
        <3> QED BY <2>2, <3>1, <3>2, <3>3
    <2>6. HasKept(h[1 .. k], s, k, K, T)
        BY <2>4, <2>5 DEF HasKept, q
    <2> QED BY <1>1, <2>6
<1>4. N \in V
    <2> HIDE DEF V, N
    <2> QED BY <1>1, <1>2, <1>3, PositionByPosition
<1>5. HasKept(h[1 .. N], s, N, K, T)
    BY <1>4
<1>6. \A p : Seen(s, N, p) = Occurrences(s, p)
    BY SeenAll
<1> HIDE DEF N
<1>7. /\ h[1 .. N] \in Seq(T)
      /\ \A p \in T : Occurrences(h[1 .. N], p) = IF p \in K THEN Occurrences(s, p) ELSE 0
    BY <1>5, <1>6 DEF HasKept
<1> QED BY <1>7 DEF N
-----------------------------------------------------------------------------
(***************************************************************************)
(* Links.                                                                  *)
(***************************************************************************)

\* Query parameters: a name and a value, numbers in codepoint order.
Pairs == Nat \X Nat

PairOrder == {pq \in Pairs \X Pairs : PairPrecedes(pq[1], pq[2])}

\* Names and then values order them totally.
LEMMA PairsAreOrdered == Orders(PairOrder, Pairs)
<1> SUFFICES ASSUME NEW p \in Pairs, NEW q \in Pairs, NEW r \in Pairs
             PROVE  /\ p # q => PairPrecedes(p, q) \/ PairPrecedes(q, p)
                    /\ ~ (PairPrecedes(p, q) /\ PairPrecedes(q, p))
                    /\ PairPrecedes(p, q) /\ PairPrecedes(q, r) => PairPrecedes(p, r)
    BY DEF Orders, PairOrder
<1>1. /\ p = <<p[1], p[2]>> /\ q = <<q[1], q[2]>>
      /\ {p[1], p[2], q[1], q[2], r[1], r[2]} \subseteq Nat
    BY DEF Pairs
<1> QED BY <1>1 DEF PairPrecedes

\* The next parameter of a query, put in its place.
PutPair(sorted, e) ==
    LET n == SelectInSeq(sorted, LAMBDA other : PairPrecedes(e, other))
    IN  IF n = 0 THEN Append(sorted, e) ELSE InsertAt(sorted, n, e)

\* f sorts the parameters at each set of positions, as the fold of Sorted does.
SortsPairs(f, s, P) ==
    f = [S \in SUBSET P |-> IF S = {} THEN <<>> ELSE PutPair(f[S \ {Max(S)}], s[Max(S)])]

\* Sorted orders the parameters of a query and loses and adds none.
LEMMA PairsAreSorted ==
    ASSUME NEW s \in Seq(Pairs)
    PROVE  /\ Sorted(s, PairPrecedes) \in Seq(Pairs) /\ InOrder(Sorted(s, PairPrecedes), PairOrder)
           /\ \A p \in Pairs : Occurrences(Sorted(s, PairPrecedes), p) = Occurrences(s, p)
<1> DEFINE N == Len(s)
           A == Seq(Pairs)
           G == [ae \in A \X Pairs |-> PutPair(ae[1], ae[2])]
           h == CHOOSE f : SortsPairs(f, s, 1 .. N)
<1>1. DOMAIN s = 1 .. N /\ N \in Nat /\ \A k \in 1 .. N : s[k] \in Pairs
    BY Elements
<1>2. ASSUME NEW t \in A, NEW e \in Pairs
      PROVE  PutPair(t, e) = Inserted(t, e, PairOrder) /\ PutPair(t, e) \in A
    <2>1. {i \in 1 .. Len(t) : PairPrecedes(e, t[i])} = {i \in 1 .. Len(t) : <<e, t[i]>> \in PairOrder}
        BY DEF PairOrder
    <2>2. PutPair(t, e) = Inserted(t, e, PairOrder)
        BY <2>1 DEF PutPair, Inserted, SelectInSeq
    <2> QED BY <2>2, InsertedGoes
<1>3. Sorted(s, PairPrecedes) = h[1 .. N]
    <2>1. Sorted(s, PairPrecedes) = (CHOOSE f : SortsPairs(f, s, DOMAIN s))[DOMAIN s]
        BY DEF Sorted, FoldLeft, MapThenFoldSet, SortsPairs, PutPair
    <2> QED BY <1>1, <2>1
<1>4. \E f : SortsPairs(f, s, 1 .. N)
    <2>1. <<>> \in A /\ G \in [A \X Pairs -> A]
        BY <1>2
    <2>2. PICK f \in [SUBSET (1 .. N) -> A] : Folds(f, G, <<>>, s, 1 .. N)
        <3> HIDE DEF A, G, N
        <3>1. Foldable(G, <<>>, s, A, N)
            BY <1>1, <2>1, FoldIsThere
        <3> QED BY <3>1 DEF Foldable
    <2>3. ASSUME NEW S \in SUBSET (1 .. N), S # {}
          PROVE  G[<<f[S \ {Max(S)}], s[Max(S)]>>] = PutPair(f[S \ {Max(S)}], s[Max(S)])
        <3>1. f[S \ {Max(S)}] \in A /\ s[Max(S)] \in Pairs
            <4> HIDE DEF A, N
            <4> QED BY <1>1, <2>3, LastTaken
        <3> QED BY <3>1
    <2>4. f = [S \in SUBSET (1 .. N) |->
                  IF S = {} THEN <<>> ELSE G[<<f[S \ {Max(S)}], s[Max(S)]>>]]
        BY <2>2 DEF Folds
    <2>5. SortsPairs(f, s, 1 .. N)
        <3> HIDE DEF A, G, N
        <3> QED BY <2>3, <2>4 DEF SortsPairs
    <2> QED BY <2>5
<1>5. h = [S \in SUBSET (1 .. N) |-> IF S = {} THEN <<>> ELSE PutPair(h[S \ {Max(S)}], s[Max(S)])]
    BY <1>4 DEF SortsPairs
<1> HIDE DEF h
<1>6. h[{}] = <<>>
    BY <1>5
<1>7. ASSUME NEW k \in 1 .. N, h[1 .. k - 1] \in Seq(Pairs)
      PROVE  h[1 .. k] = Inserted(h[1 .. k - 1], s[k], PairOrder)
    <2>1. /\ 1 .. k \in SUBSET (1 .. N) /\ 1 .. k # {}
          /\ Max(1 .. k) = k /\ (1 .. k) \ {Max(1 .. k)} = 1 .. k - 1
        BY <1>1, FirstPositions
    <2>2. h[1 .. k] = PutPair(h[(1 .. k) \ {Max(1 .. k)}], s[Max(1 .. k)])
        <3> HIDE DEF N
        <3> QED BY <1>5, <2>1
    <2> QED BY <1>1, <1>2, <1>7, <2>1, <2>2
<1>8. /\ h[1 .. N] \in Seq(Pairs) /\ InOrder(h[1 .. N], PairOrder)
      /\ \A p \in Pairs : Occurrences(h[1 .. N], p) = Occurrences(s, p)
    BY <1>6, <1>7, PairsAreOrdered, SortSorts
<1> QED BY <1>3, <1>8

\* What does not track, of the parameters at each set of positions.
Taken(kept, e) == IF e[1] \notin Tracking THEN Append(kept, e) ELSE kept

KeepsPairs(f, s, P) ==
    f = [S \in SUBSET P |-> IF S = {} THEN <<>> ELSE Taken(f[S \ {Max(S)}], s[Max(S)])]

\* Kept keeps every parameter that does not track as often as it is there, and no other.
LEMMA PairsAreKept ==
    ASSUME NEW s \in Seq(Pairs)
    PROVE  LET kept == Kept(s, LAMBDA p : p[1] \notin Tracking)
           IN  /\ kept \in Seq(Pairs)
               /\ \A p \in Pairs :
                     Occurrences(kept, p) = IF p[1] \in Tracking THEN 0 ELSE Occurrences(s, p)
<1> DEFINE N == Len(s)
           A == Seq(Pairs)
           G == [ae \in A \X Pairs |-> Taken(ae[1], ae[2])]
           h == CHOOSE f : KeepsPairs(f, s, 1 .. N)
           kept == Kept(s, LAMBDA p : p[1] \notin Tracking)
           K == {p \in Pairs : p[1] \notin Tracking}
<1>1. DOMAIN s = 1 .. N /\ N \in Nat /\ \A k \in 1 .. N : s[k] \in Pairs
    BY Elements
<1>2. ASSUME NEW t \in A, NEW e \in Pairs PROVE Taken(t, e) \in A
    BY DEF Taken
<1>3. kept = h[1 .. N]
    <2>1. kept = (CHOOSE f : KeepsPairs(f, s, DOMAIN s))[DOMAIN s]
        BY DEF Kept, FoldLeft, MapThenFoldSet, KeepsPairs, Taken
    <2> QED BY <1>1, <2>1
<1>4. \E f : KeepsPairs(f, s, 1 .. N)
    <2>1. <<>> \in A /\ G \in [A \X Pairs -> A]
        BY <1>2
    <2>2. PICK f \in [SUBSET (1 .. N) -> A] : Folds(f, G, <<>>, s, 1 .. N)
        <3> HIDE DEF A, G, N
        <3>1. Foldable(G, <<>>, s, A, N)
            BY <1>1, <2>1, FoldIsThere
        <3> QED BY <3>1 DEF Foldable
    <2>3. ASSUME NEW S \in SUBSET (1 .. N), S # {}
          PROVE  G[<<f[S \ {Max(S)}], s[Max(S)]>>] = Taken(f[S \ {Max(S)}], s[Max(S)])
        <3>1. f[S \ {Max(S)}] \in A /\ s[Max(S)] \in Pairs
            <4> HIDE DEF A, N
            <4> QED BY <1>1, <2>3, LastTaken
        <3> QED BY <3>1
    <2>4. f = [S \in SUBSET (1 .. N) |->
                  IF S = {} THEN <<>> ELSE G[<<f[S \ {Max(S)}], s[Max(S)]>>]]
        BY <2>2 DEF Folds
    <2>5. KeepsPairs(f, s, 1 .. N)
        <3> HIDE DEF A, G, N
        <3> QED BY <2>3, <2>4 DEF KeepsPairs
    <2> QED BY <2>5
<1>5. h = [S \in SUBSET (1 .. N) |-> IF S = {} THEN <<>> ELSE Taken(h[S \ {Max(S)}], s[Max(S)])]
    BY <1>4 DEF KeepsPairs
<1> HIDE DEF h
<1>6. h[{}] = <<>>
    BY <1>5
<1>7. ASSUME NEW k \in 1 .. N, h[1 .. k - 1] \in Seq(Pairs)
      PROVE  h[1 .. k] = IF s[k] \in K THEN Append(h[1 .. k - 1], s[k]) ELSE h[1 .. k - 1]
    <2>1. /\ 1 .. k \in SUBSET (1 .. N) /\ 1 .. k # {}
          /\ Max(1 .. k) = k /\ (1 .. k) \ {Max(1 .. k)} = 1 .. k - 1
        BY <1>1, FirstPositions
    <2>2. h[1 .. k] = Taken(h[(1 .. k) \ {Max(1 .. k)}], s[Max(1 .. k)])
        <3> HIDE DEF N
        <3> QED BY <1>5, <2>1
    <2> QED BY <1>1, <2>1, <2>2 DEF Taken
<1>8. Keeping(h, s, K, Pairs)
    <2> HIDE DEF K
    <2> QED BY <1>6, <1>7 DEF Keeping
<1>9. /\ h[1 .. N] \in Seq(Pairs)
      /\ \A p \in Pairs : Occurrences(h[1 .. N], p) = IF p \in K THEN Occurrences(s, p) ELSE 0
    <2> HIDE DEF K
    <2> QED BY <1>8, KeepKeeps
<1>10. /\ kept \in Seq(Pairs)
       /\ \A p \in Pairs : Occurrences(kept, p) = IF p[1] \in Tracking THEN 0 ELSE Occurrences(s, p)
    <2> HIDE DEF kept
    <2> QED BY <1>3, <1>9
<1> QED BY <1>10

\* An element is in a sequence when it occurs.
LEMMA InIffOccurs ==
    ASSUME NEW T, NEW s \in Seq(T), NEW p
    PROVE  /\ p \in ToSet(s) <=> Occurrences(s, p) # 0
           /\ p \in ToSet(s) => p \in T
<1>1. p \in ToSet(s) <=> Places(s, p) # {}
    BY DEF ToSet, Places
<1>2. Places(s, p) = {} <=> Occurrences(s, p) = 0
    BY PlacesFinite, FS_EmptySet
<1>3. p \in ToSet(s) => p \in T
    BY DEF ToSet
<1> QED BY <1>1, <1>2, <1>3

\* Two links agree in canonical form exactly when they have one meaning.
LEMMA SameAddress ==
    ASSUME NEW a \in Links, NEW b \in Links
    PROVE  CanonicalizeUrl(a) = CanonicalizeUrl(b) <=> Meaning(a) = Meaning(b)
<1> DEFINE K(url) == Kept(url.params, LAMBDA p : p[1] \notin Tracking)
           S(url) == Sorted(K(url), PairPrecedes)
           Tell(url) == {q \in ToSet(url.params) : q[1] \notin Tracking}
           M(url) == [p \in Tell(url) |-> Occurrences(url.params, p)]
<1>1. ASSUME NEW url \in Links
      PROVE  /\ url.params \in Seq(Pairs)
             /\ url.parses \/ url = NoLink
             /\ url.parses => url = [parses |-> TRUE, www |-> url.www, slashes |-> url.slashes,
                                     fragment |-> url.fragment, params |-> url.params]
    <2>1. CASE url = NoLink
        <3>1. <<>> \in Seq(Pairs) /\ ~ NoLink.parses
            BY DEF NoLink
        <3> QED BY <2>1, <3>1 DEF NoLink
    <2>2. CASE url # NoLink
        <3>1. url \in [parses : {TRUE}, www : BOOLEAN, slashes : 0 .. 2, fragment : BOOLEAN,
                       params : BoundedSeq(Parameters, MaxParams)]
            BY <1>1, <2>2 DEF Links
        <3>2. url.parses /\ url.params \in BoundedSeq(Parameters, MaxParams)
            BY <3>1
        <3>3. url.params \in Seq(Pairs)
            <4>1. PICK n \in 0 .. MaxParams : url.params \in [1 .. n -> Parameters]
                BY <3>2 DEF BoundedSeq, SeqOf
            <4>2. Parameters \subseteq Pairs /\ n \in Nat
                BY InputsAssumption DEF Parameters, Pairs
            <4>3. url.params \in [1 .. n -> Pairs]
                BY <4>1, <4>2
            <4> QED BY <4>2, <4>3, IndexedBy
        <3> QED BY <3>1, <3>2, <3>3
    <2> QED BY <2>1, <2>2
<1>2. ASSUME NEW url \in Links
      PROVE  /\ S(url) \in Seq(Pairs) /\ InOrder(S(url), PairOrder)
             /\ \A p \in Pairs : Occurrences(S(url), p) =
                                 IF p[1] \in Tracking THEN 0 ELSE Occurrences(url.params, p)
    <2>1. /\ K(url) \in Seq(Pairs)
          /\ \A p \in Pairs : Occurrences(K(url), p) =
                              IF p[1] \in Tracking THEN 0 ELSE Occurrences(url.params, p)
        BY <1>1, PairsAreKept
    <2> HIDE DEF K
    <2> QED BY <2>1, PairsAreSorted
<1>3. S(a) = S(b) <=> \A p \in Pairs : Occurrences(S(a), p) = Occurrences(S(b), p)
    <2> HIDE DEF S
    <2> QED BY <1>2, PairsAreOrdered, OneOrder
<1>4. ASSUME NEW url \in Links, NEW p
      PROVE  p \in Tell(url) <=> p \in Pairs /\ p[1] \notin Tracking /\ Occurrences(url.params, p) # 0
    BY <1>1, InIffOccurs
<1>5. M(a) = M(b) <=> \A p \in Pairs : Occurrences(S(a), p) = Occurrences(S(b), p)
    <2> HIDE DEF S
    <2>1. ASSUME M(a) = M(b), NEW p \in Pairs PROVE Occurrences(S(a), p) = Occurrences(S(b), p)
        <3>1. Tell(a) = Tell(b)
            <4>1. DOMAIN M(a) = DOMAIN M(b)
                BY <2>1
            <4> HIDE DEF Tell
            <4> QED BY <4>1
        <3>2. p \in Tell(a) => M(a)[p] = Occurrences(a.params, p) /\ M(b)[p] = Occurrences(b.params, p)
            <4> HIDE DEF Tell
            <4> QED BY <3>1
        <3>3. p \in Tell(a) => Occurrences(a.params, p) = Occurrences(b.params, p)
            <4> HIDE DEF Tell, M
            <4> QED BY <2>1, <3>2
        <3> HIDE DEF Tell, M
        <3> QED BY <1>2, <1>4, <3>1, <3>3
    <2>2. ASSUME \A p \in Pairs : Occurrences(S(a), p) = Occurrences(S(b), p) PROVE M(a) = M(b)
        <3>1. ASSUME NEW p \in Pairs, p[1] \notin Tracking
              PROVE  Occurrences(a.params, p) = Occurrences(b.params, p)
            <4>1. Occurrences(S(a), p) = Occurrences(S(b), p)
                BY <2>2
            <4> QED BY <1>2, <3>1, <4>1
        <3>2. \A p : p \in Tell(a) <=> p \in Tell(b)
            <4> HIDE DEF Tell, M
            <4> QED BY <1>4, <3>1
        <3>3. \A p \in Tell(a) : Occurrences(a.params, p) = Occurrences(b.params, p)
            <4> HIDE DEF Tell, M
            <4> QED BY <1>4, <3>1
        <3>4. Tell(a) = Tell(b)
            <4> HIDE DEF Tell
            <4> QED BY <3>2
        <3> HIDE DEF Tell
        <3> QED BY <3>3, <3>4
    <2> QED BY <2>1, <2>2
<1>6. ASSUME NEW url \in Links, url.parses
      PROVE  CanonicalizeUrl(url) = [parses |-> TRUE, www |-> FALSE, slashes |-> 0,
                                     fragment |-> FALSE, params |-> S(url)]
    <2> DEFINE w == url.www
               n == url.slashes
               f == url.fragment
               q == url.params
    <2>1. url = [parses |-> TRUE, www |-> w, slashes |-> n, fragment |-> f, params |-> q]
        BY <1>1, <1>6
    <2>2. CanonicalizeUrl(url) = [url EXCEPT !.www = FALSE, !.slashes = 0, !.fragment = FALSE,
                                             !.params = S(url)]
        BY <1>6 DEF CanonicalizeUrl
    <2> HIDE DEF S, w, n, f, q
    <2> QED BY <2>1, <2>2
<1>7. Meaning(a) = <<a.parses, M(a)>> /\ Meaning(b) = <<b.parses, M(b)>>
    BY DEF Meaning
<1>8. Meaning(a) = Meaning(b) <=> a.parses = b.parses /\ M(a) = M(b)
    <2> HIDE DEF M
    <2> QED BY <1>7
<1>9. ASSUME NEW url \in Links, ~ url.parses PROVE CanonicalizeUrl(url) = NoLink /\ url = NoLink
    BY <1>1, <1>9 DEF CanonicalizeUrl
<1> HIDE DEF M, S
<1>10. CASE a.parses /\ b.parses
    <2>1. CanonicalizeUrl(a) = CanonicalizeUrl(b) <=> S(a) = S(b)
        <3> DEFINE C(params) == [parses |-> TRUE, www |-> FALSE, slashes |-> 0,
                                 fragment |-> FALSE, params |-> params]
        <3>1. CanonicalizeUrl(a) = C(S(a)) /\ CanonicalizeUrl(b) = C(S(b))
            BY <1>6, <1>10
        <3>2. C(S(a)).params = S(a) /\ C(S(b)).params = S(b)
            OBVIOUS
        <3> HIDE DEF C
        <3> QED BY <3>1, <3>2
    <2>2. a.parses = b.parses
        BY <1>1, <1>10
    <2> QED BY <1>3, <1>5, <1>8, <2>1, <2>2
<1>11. CASE ~ a.parses /\ ~ b.parses
    <2>1. a = b
        BY <1>9, <1>11
    <2> QED BY <2>1
<1>12. CASE a.parses /\ ~ b.parses
    <2>1. CanonicalizeUrl(a).parses = TRUE /\ CanonicalizeUrl(b).parses = FALSE
        BY <1>6, <1>9, <1>12 DEF NoLink
    <2> QED BY <1>8, <1>12, <2>1
<1>13. CASE ~ a.parses /\ b.parses
    <2>1. CanonicalizeUrl(b).parses = TRUE /\ CanonicalizeUrl(a).parses = FALSE
        BY <1>6, <1>9, <1>13 DEF NoLink
    <2> QED BY <1>8, <1>13, <2>1
<1> QED BY <1>10, <1>11, <1>12, <1>13

\* Links with one canonical form are those that mean the same.
THEOREM CanonicalFormsAgree == InputSpec => []CanonicalIffSameAddress
<1> DEFINE Inv == kind = "link" => input \in Links
<1>1. InputInit => Inv
    BY DEF InputInit
<1>2. Inv /\ [AddPiece]_<<kind, input>> => Inv'
    BY DEF AddPiece
<1>3. Inv => CanonicalIffSameAddress
    BY SameAddress DEF CanonicalIffSameAddress
<1> QED BY <1>1, <1>2, <1>3, PTL DEF InputSpec
-----------------------------------------------------------------------------
(***************************************************************************)
(* Rankings.                                                               *)
(***************************************************************************)

\* A token and how often it was counted.
Tallies == [token : Nat, count : Nat]

\* What rankByCount compares.
RankPrecedes(a, b) == a.count > b.count \/ (a.count = b.count /\ a.token < b.token)

TallyOrder == {pq \in Tallies \X Tallies : RankPrecedes(pq[1], pq[2])}

\* Counts and then tokens order them totally.
LEMMA TalliesAreOrdered == Orders(TallyOrder, Tallies)
<1> SUFFICES ASSUME NEW p \in Tallies, NEW q \in Tallies, NEW r \in Tallies
             PROVE  /\ p # q => RankPrecedes(p, q) \/ RankPrecedes(q, p)
                    /\ ~ (RankPrecedes(p, q) /\ RankPrecedes(q, p))
                    /\ RankPrecedes(p, q) /\ RankPrecedes(q, r) => RankPrecedes(p, r)
    BY DEF Orders, TallyOrder
<1>1. /\ p = [token |-> p.token, count |-> p.count] /\ q = [token |-> q.token, count |-> q.count]
      /\ {p.token, p.count, q.token, q.count, r.token, r.count} \subseteq Nat
    BY DEF Tallies
<1> QED BY <1>1 DEF RankPrecedes

\* The counts in the order of rankByCount.
Ranked(counts) ==
    Sorted(counts, LAMBDA a, b : a.count > b.count \/ (a.count = b.count /\ a.token < b.token))

\* The next count, put in its place.
PutTally(sorted, e) ==
    LET n == SelectInSeq(sorted, LAMBDA other :
                 e.count > other.count \/ (e.count = other.count /\ e.token < other.token))
    IN  IF n = 0 THEN Append(sorted, e) ELSE InsertAt(sorted, n, e)

\* f sorts the counts at each set of positions, as the fold of Sorted does.
SortsTallies(f, s, P) ==
    f = [S \in SUBSET P |-> IF S = {} THEN <<>> ELSE PutTally(f[S \ {Max(S)}], s[Max(S)])]

\* Ranked orders the counts and loses and adds none.
LEMMA TalliesAreRanked ==
    ASSUME NEW s \in Seq(Tallies)
    PROVE  /\ Ranked(s) \in Seq(Tallies) /\ InOrder(Ranked(s), TallyOrder)
           /\ \A p \in Tallies : Occurrences(Ranked(s), p) = Occurrences(s, p)
<1> DEFINE N == Len(s)
           A == Seq(Tallies)
           G == [ae \in A \X Tallies |-> PutTally(ae[1], ae[2])]
           h == CHOOSE f : SortsTallies(f, s, 1 .. N)
<1>1. DOMAIN s = 1 .. N /\ N \in Nat /\ \A k \in 1 .. N : s[k] \in Tallies
    BY Elements
<1>2. ASSUME NEW t \in A, NEW e \in Tallies
      PROVE  PutTally(t, e) = Inserted(t, e, TallyOrder) /\ PutTally(t, e) \in A
    <2>1. {i \in 1 .. Len(t) : e.count > t[i].count \/ (e.count = t[i].count /\ e.token < t[i].token)}
              = {i \in 1 .. Len(t) : <<e, t[i]>> \in TallyOrder}
        BY DEF TallyOrder, RankPrecedes
    <2>2. PutTally(t, e) = Inserted(t, e, TallyOrder)
        BY <2>1 DEF PutTally, Inserted, SelectInSeq
    <2> QED BY <2>2, InsertedGoes
<1>3. Ranked(s) = h[1 .. N]
    <2>1. Ranked(s) = (CHOOSE f : SortsTallies(f, s, DOMAIN s))[DOMAIN s]
        BY DEF Ranked, Sorted, FoldLeft, MapThenFoldSet, SortsTallies, PutTally
    <2> QED BY <1>1, <2>1
<1>4. \E f : SortsTallies(f, s, 1 .. N)
    <2>1. <<>> \in A /\ G \in [A \X Tallies -> A]
        BY <1>2
    <2>2. PICK f \in [SUBSET (1 .. N) -> A] : Folds(f, G, <<>>, s, 1 .. N)
        <3> HIDE DEF A, G, N
        <3>1. Foldable(G, <<>>, s, A, N)
            BY <1>1, <2>1, FoldIsThere
        <3> QED BY <3>1 DEF Foldable
    <2>3. ASSUME NEW S \in SUBSET (1 .. N), S # {}
          PROVE  G[<<f[S \ {Max(S)}], s[Max(S)]>>] = PutTally(f[S \ {Max(S)}], s[Max(S)])
        <3>1. f[S \ {Max(S)}] \in A /\ s[Max(S)] \in Tallies
            <4> HIDE DEF A, N
            <4> QED BY <1>1, <2>3, LastTaken
        <3> QED BY <3>1
    <2>4. f = [S \in SUBSET (1 .. N) |->
                  IF S = {} THEN <<>> ELSE G[<<f[S \ {Max(S)}], s[Max(S)]>>]]
        BY <2>2 DEF Folds
    <2>5. SortsTallies(f, s, 1 .. N)
        <3> HIDE DEF A, G, N
        <3> QED BY <2>3, <2>4 DEF SortsTallies
    <2> QED BY <2>5
<1>5. h = [S \in SUBSET (1 .. N) |-> IF S = {} THEN <<>> ELSE PutTally(h[S \ {Max(S)}], s[Max(S)])]
    BY <1>4 DEF SortsTallies
<1> HIDE DEF h
<1>6. h[{}] = <<>>
    BY <1>5
<1>7. ASSUME NEW k \in 1 .. N, h[1 .. k - 1] \in Seq(Tallies)
      PROVE  h[1 .. k] = Inserted(h[1 .. k - 1], s[k], TallyOrder)
    <2>1. /\ 1 .. k \in SUBSET (1 .. N) /\ 1 .. k # {}
          /\ Max(1 .. k) = k /\ (1 .. k) \ {Max(1 .. k)} = 1 .. k - 1
        BY <1>1, FirstPositions
    <2>2. h[1 .. k] = PutTally(h[(1 .. k) \ {Max(1 .. k)}], s[Max(1 .. k)])
        <3> HIDE DEF N
        <3> QED BY <1>5, <2>1
    <2> QED BY <1>1, <1>2, <1>7, <2>1, <2>2
<1>8. /\ h[1 .. N] \in Seq(Tallies) /\ InOrder(h[1 .. N], TallyOrder)
      /\ \A p \in Tallies : Occurrences(h[1 .. N], p) = Occurrences(s, p)
    BY <1>6, <1>7, TalliesAreOrdered, SortSorts
<1> QED BY <1>3, <1>8

\* So what is ranked first does not depend on the order of the counts.
LEMMA SameRanking ==
    ASSUME NEW c \in Seq(Tallies), NEW d \in Seq(Tallies), NEW limit,
           \A p \in Tallies : Occurrences(c, p) = Occurrences(d, p)
    PROVE  RankByCount(c, limit) = RankByCount(d, limit)
<1>1. ASSUME NEW s
      PROVE  RankByCount(s, limit) = SubSeq(Tokens(Ranked(s)), 1,
                                            IF Len(Ranked(s)) < limit THEN Len(Ranked(s)) ELSE limit)
    BY DEF RankByCount, Ranked
<1>2. Ranked(c) = Ranked(d)
    BY TalliesAreRanked, TalliesAreOrdered, OneOrder
<1> QED BY <1>1, <1>2

\* A tally is its token and its count.
LEMMA TallyParts ==
    ASSUME NEW p \in Tallies
    PROVE  /\ p = [token |-> p.token, count |-> p.count]
           /\ p.token \in Nat /\ p.count \in Nat
    BY DEF Tallies

\* The next token, counted.
CountIn(counts, t) ==
    IF \E n \in DOMAIN counts : counts[n].token = t
    THEN [n \in DOMAIN counts |-> IF counts[n].token = t
                                 THEN [counts[n] EXCEPT !.count = @ + 1] ELSE counts[n]]
    ELSE Append(counts, [token |-> t, count |-> 1])

\* f counts the tokens at each set of positions, as the fold of Counts does.
CountsTokens(f, s, P) ==
    f = [S \in SUBSET P |-> IF S = {} THEN <<>> ELSE CountIn(f[S \ {Max(S)}], s[Max(S)])]

\* c has one tally of every token among the first k, and it is right.
CountedUpTo(c, s, k) ==
    /\ c \in Seq(Tallies)
    /\ \A m, n \in DOMAIN c : c[m].token = c[n].token => m = n
    /\ \A n \in DOMAIN c : c[n].count > 0 /\ c[n].count = Seen(s, k, c[n].token)
    /\ \A p \in Nat : Seen(s, k, p) > 0 => \E n \in DOMAIN c : c[n].token = p

\* One more token counted.
LEMMA CountedNext ==
    ASSUME NEW s \in Seq(Nat), NEW k \in 1 .. Len(s), NEW c, CountedUpTo(c, s, k - 1)
    PROVE  CountedUpTo(CountIn(c, s[k]), s, k)
<1> DEFINE t == s[k]
           d == CountIn(c, t)
           one == [token |-> t, count |-> 1]
<1>1. t \in Nat /\ k \in Nat \ {0} /\ one \in Tallies /\ one.token = t /\ one.count = 1
    <2>1. k \in DOMAIN s /\ k \in Nat \ {0}
        BY Elements
    <2>2. t \in Nat
        BY <2>1, Elements
    <2> QED BY <2>1, <2>2 DEF Tallies
<1>2. /\ c \in Seq(Tallies)
      /\ \A m, n \in DOMAIN c : c[m].token = c[n].token => m = n
      /\ \A n \in DOMAIN c : c[n].count > 0 /\ c[n].count = Seen(s, k - 1, c[n].token)
      /\ \A p \in Nat : Seen(s, k - 1, p) > 0 => \E n \in DOMAIN c : c[n].token = p
    BY DEF CountedUpTo
<1>3. /\ DOMAIN c = 1 .. Len(c) /\ Len(c) \in Nat
      /\ \A n \in DOMAIN c : c[n] \in Tallies /\ c[n].token \in Nat /\ c[n].count \in Nat
    <2>1. DOMAIN c = 1 .. Len(c) /\ Len(c) \in Nat /\ \A n \in DOMAIN c : c[n] \in Tallies
        BY <1>2, Elements
    <2> QED BY <2>1, TallyParts
<1>4. ASSUME NEW p
      PROVE  /\ Seen(s, k - 1, p) \in Nat
             /\ p # t => Seen(s, k, p) = Seen(s, k - 1, p)
             /\ Seen(s, k, t) = Seen(s, k - 1, t) + 1
    BY <1>1, SeenNext
<1> HIDE DEF t, one
<1>5. CASE \E n \in DOMAIN c : c[n].token = t
    <2> DEFINE OneMore(n) == IF c[n].token = t THEN [c[n] EXCEPT !.count = @ + 1] ELSE c[n]
    <2>1. d = [n \in DOMAIN c |-> OneMore(n)]
        BY <1>5 DEF CountIn
    <2>2. ASSUME NEW n \in DOMAIN c
          PROVE  /\ OneMore(n) \in Tallies /\ OneMore(n).token = c[n].token
                 /\ OneMore(n).count = IF c[n].token = t THEN c[n].count + 1 ELSE c[n].count
        <3>1. c[n] \in [token : Nat, count : Nat] /\ c[n].count + 1 \in Nat
            BY <1>3 DEF Tallies
        <3> QED BY <3>1 DEF Tallies
    <2> HIDE DEF d, OneMore
    <2>3. DOMAIN d = DOMAIN c /\ d \in Seq(Tallies)
        <3>1. d \in [1 .. Len(c) -> Tallies]
            BY <1>3, <2>1, <2>2
        <3> QED BY <1>3, <3>1, IndexedBy
    <2>4. \A n \in DOMAIN d :
              /\ d[n].token = c[n].token
              /\ d[n].count = IF c[n].token = t THEN c[n].count + 1 ELSE c[n].count
        BY <2>1, <2>2
    <2>5. \A m, n \in DOMAIN d : d[m].token = d[n].token => m = n
        BY <1>2, <2>3, <2>4
    <2>6. ASSUME NEW n \in DOMAIN d
          PROVE  d[n].count > 0 /\ d[n].count = Seen(s, k, d[n].token)
        <3>1. c[n].count > 0 /\ c[n].count = Seen(s, k - 1, c[n].token) /\ c[n].count \in Nat
            BY <1>2, <1>3, <2>3
        <3>2. Seen(s, k, c[n].token) = IF c[n].token = t THEN c[n].count + 1 ELSE c[n].count
            BY <1>4, <3>1
        <3>3. d[n].token = c[n].token /\ d[n].count = Seen(s, k, c[n].token)
            BY <2>4, <3>2
        <3> QED BY <3>1, <3>2, <3>3
    <2>7. ASSUME NEW p \in Nat, Seen(s, k, p) > 0 PROVE \E n \in DOMAIN d : d[n].token = p
        <3>1. \E n \in DOMAIN c : c[n].token = p
            BY <1>2, <1>4, <1>5, <2>7
        <3> QED BY <2>3, <2>4, <3>1
    <2> QED BY <2>3, <2>5, <2>6, <2>7 DEF CountedUpTo, d, t
<1>6. CASE ~ \E n \in DOMAIN c : c[n].token = t
    <2>1. d = Append(c, one)
        BY <1>6 DEF CountIn, one
    <2> HIDE DEF d
    <2>2. /\ d \in Seq(Tallies) /\ DOMAIN d = 1 .. Len(c) + 1 /\ d[Len(c) + 1] = one
          /\ \A n \in DOMAIN c : n \in DOMAIN d /\ d[n] = c[n]
        BY <1>1, <1>2, <1>3, <2>1
    <2>3. \A n \in DOMAIN d : n \in DOMAIN c \/ n = Len(c) + 1
        BY <1>3, <2>2
    <2>4. Seen(s, k - 1, t) = 0
        BY <1>1, <1>2, <1>4, <1>6
    <2>5. \A m, n \in DOMAIN d : d[m].token = d[n].token => m = n
        <3> SUFFICES ASSUME NEW m \in DOMAIN d, NEW n \in DOMAIN d, d[m].token = d[n].token PROVE m = n
            OBVIOUS
        <3>1. CASE m \in DOMAIN c /\ n \in DOMAIN c
            BY <1>2, <2>2, <3>1
        <3>2. CASE m \in DOMAIN c /\ n = Len(c) + 1
            BY <1>1, <1>6, <2>2, <3>2
        <3>3. CASE m = Len(c) + 1 /\ n \in DOMAIN c
            BY <1>1, <1>6, <2>2, <3>3
        <3> QED BY <2>3, <3>1, <3>2, <3>3
    <2>6. ASSUME NEW n \in DOMAIN d
          PROVE  d[n].count > 0 /\ d[n].count = Seen(s, k, d[n].token)
        <3>1. CASE n \in DOMAIN c
            BY <1>2, <1>4, <1>6, <2>2, <3>1
        <3>2. CASE n = Len(c) + 1
            BY <1>1, <1>4, <2>2, <2>4, <3>2
        <3> QED BY <2>3, <3>1, <3>2
    <2>7. ASSUME NEW p \in Nat, Seen(s, k, p) > 0 PROVE \E n \in DOMAIN d : d[n].token = p
        <3>1. CASE p = t
            <4>1. Len(c) + 1 \in DOMAIN d /\ d[Len(c) + 1].token = p
                BY <1>1, <1>3, <2>2, <3>1
            <4> QED BY <4>1
        <3>2. CASE p # t
            <4>1. PICK n \in DOMAIN c : c[n].token = p
                BY <1>2, <1>4, <2>7, <3>2
            <4> QED BY <2>2, <4>1
        <3> QED BY <3>1, <3>2
    <2> QED BY <2>2, <2>5, <2>6, <2>7 DEF CountedUpTo, d, t
<1> QED BY <1>5, <1>6

\* Counts has one tally of every token, with how often it is there.
LEMMA TokensAreCounted ==
    ASSUME NEW s \in Seq(Nat)
    PROVE  CountedUpTo(Counts(s), s, Len(s))
<1> DEFINE N == Len(s)
           A == Seq(Tallies)
           G == [ct \in A \X Nat |-> CountIn(ct[1], ct[2])]
           h == CHOOSE f : CountsTokens(f, s, 1 .. N)
           V == {k \in 0 .. N : CountedUpTo(h[1 .. k], s, k)}
<1>1. DOMAIN s = 1 .. N /\ N \in Nat /\ \A k \in 1 .. N : s[k] \in Nat
    BY Elements
<1>2. ASSUME NEW c \in A, NEW t \in Nat PROVE CountIn(c, t) \in A
    <2>1. CASE \E n \in DOMAIN c : c[n].token = t
        <3> DEFINE OneMore(n) == IF c[n].token = t THEN [c[n] EXCEPT !.count = @ + 1] ELSE c[n]
        <3>1. CountIn(c, t) = [n \in DOMAIN c |-> OneMore(n)]
            BY <2>1 DEF CountIn
        <3>2. DOMAIN c = 1 .. Len(c) /\ Len(c) \in Nat /\ \A n \in DOMAIN c : c[n] \in Tallies
            BY Elements
        <3>3. ASSUME NEW n \in DOMAIN c PROVE OneMore(n) \in Tallies
            <4>1. c[n] \in [token : Nat, count : Nat] /\ c[n].count + 1 \in Nat
                BY <3>2 DEF Tallies
            <4> QED BY <4>1 DEF Tallies
        <3> HIDE DEF OneMore
        <3>4. [n \in DOMAIN c |-> OneMore(n)] \in [1 .. Len(c) -> Tallies]
            BY <3>2, <3>3
        <3> QED BY <3>1, <3>2, <3>4, IndexedBy
    <2>2. CASE ~ \E n \in DOMAIN c : c[n].token = t
        <3>1. CountIn(c, t) = Append(c, [token |-> t, count |-> 1]) /\ [token |-> t, count |-> 1] \in Tallies
            BY <2>2 DEF CountIn, Tallies
        <3> QED BY <3>1
    <2> QED BY <2>1, <2>2
<1>3. Counts(s) = h[1 .. N]
    <2>1. Counts(s) = (CHOOSE f : CountsTokens(f, s, DOMAIN s))[DOMAIN s]
        BY DEF Counts, FoldLeft, MapThenFoldSet, CountsTokens, CountIn
    <2> QED BY <1>1, <2>1
<1>4. \E f : CountsTokens(f, s, 1 .. N)
    <2>1. <<>> \in A /\ G \in [A \X Nat -> A]
        BY <1>2
    <2>2. PICK f \in [SUBSET (1 .. N) -> A] : Folds(f, G, <<>>, s, 1 .. N)
        <3> HIDE DEF A, G, N
        <3>1. Foldable(G, <<>>, s, A, N)
            BY <1>1, <2>1, FoldIsThere
        <3> QED BY <3>1 DEF Foldable
    <2>3. ASSUME NEW S \in SUBSET (1 .. N), S # {}
          PROVE  G[<<f[S \ {Max(S)}], s[Max(S)]>>] = CountIn(f[S \ {Max(S)}], s[Max(S)])
        <3>1. f[S \ {Max(S)}] \in A /\ s[Max(S)] \in Nat
            <4> HIDE DEF A, N
            <4> QED BY <1>1, <2>3, LastTaken
        <3> QED BY <3>1
    <2>4. f = [S \in SUBSET (1 .. N) |->
                  IF S = {} THEN <<>> ELSE G[<<f[S \ {Max(S)}], s[Max(S)]>>]]
        BY <2>2 DEF Folds
    <2>5. CountsTokens(f, s, 1 .. N)
        <3> HIDE DEF A, G, N
        <3> QED BY <2>3, <2>4 DEF CountsTokens
    <2> QED BY <2>5
<1>5. h = [S \in SUBSET (1 .. N) |-> IF S = {} THEN <<>> ELSE CountIn(h[S \ {Max(S)}], s[Max(S)])]
    BY <1>4 DEF CountsTokens
<1> HIDE DEF h
<1>6. 0 \in V
    <2>1. h[1 .. 0] = <<>> /\ <<>> \in Seq(Tallies) /\ DOMAIN <<>> = {}
        <3>1. 1 .. 0 = {} /\ {} \in SUBSET (1 .. N)
            OBVIOUS
        <3> QED BY <1>5, <3>1
    <2>2. CountedUpTo(<<>>, s, 0)
        BY <2>1, NothingCounts DEF CountedUpTo
    <2> QED BY <1>1, <2>1, <2>2
<1>7. ASSUME NEW k \in 1 .. N, k - 1 \in V PROVE k \in V
    <2>1. h[1 .. k] = CountIn(h[1 .. k - 1], s[k])
        <3>1. /\ 1 .. k \in SUBSET (1 .. N) /\ 1 .. k # {}
              /\ Max(1 .. k) = k /\ (1 .. k) \ {Max(1 .. k)} = 1 .. k - 1
            BY <1>1, FirstPositions
        <3>2. h[1 .. k] = CountIn(h[(1 .. k) \ {Max(1 .. k)}], s[Max(1 .. k)])
            <4> HIDE DEF N
            <4> QED BY <1>5, <3>1
        <3> QED BY <3>1, <3>2
    <2>2. CountedUpTo(h[1 .. k], s, k)
        BY <1>7, <2>1, CountedNext
    <2> QED BY <1>1, <2>2
<1>8. N \in V
    <2> HIDE DEF V, N
    <2> QED BY <1>1, <1>6, <1>7, PositionByPosition
<1> QED BY <1>3, <1>8

\* So a tally is there, once, exactly when it is of a token that is there as often.
LEMMA TalliesOfTokens ==
    ASSUME NEW s \in Seq(Nat), NEW p \in Tallies
    PROVE  Occurrences(Counts(s), p) =
               IF p.count > 0 /\ p.count = Occurrences(s, p.token) THEN 1 ELSE 0
<1> DEFINE c == Counts(s)
<1>1. /\ c \in Seq(Tallies)
      /\ \A m, n \in DOMAIN c : c[m].token = c[n].token => m = n
      /\ \A n \in DOMAIN c : c[n].count > 0 /\ c[n].count = Occurrences(s, c[n].token)
      /\ \A q \in Nat : Occurrences(s, q) > 0 => \E n \in DOMAIN c : c[n].token = q
    BY TokensAreCounted, SeenAll DEF CountedUpTo
<1> HIDE DEF c
<1>2. Occurrences(c, p) = Cardinality(Places(c, p))
    BY <1>1, PlacesFinite
<1>3. CASE p.count > 0 /\ p.count = Occurrences(s, p.token)
    <2>1. p.token \in Nat /\ p.count \in Nat /\ p = [token |-> p.token, count |-> p.count]
        BY DEF Tallies
    <2>2. PICK n \in DOMAIN c : c[n].token = p.token
        BY <1>1, <1>3, <2>1
    <2>3. c[n] = p
        <3>1. c[n] = [token |-> c[n].token, count |-> c[n].count]
            <4>1. c[n] \in Tallies
                BY <1>1, Elements
            <4> QED BY <4>1, TallyParts
        <3>2. c[n].count = p.count
            BY <1>1, <1>3, <2>2
        <3> QED BY <2>1, <2>2, <3>1, <3>2
    <2>4. Places(c, p) = {n}
        BY <1>1, <2>3 DEF Places
    <2>5. Cardinality({n}) = 1
        BY FS_Singleton
    <2>6. Occurrences(c, p) = 1
        BY <1>2, <2>4, <2>5
    <2> QED BY <1>3, <2>6 DEF c
<1>4. CASE ~ (p.count > 0 /\ p.count = Occurrences(s, p.token))
    <2>1. Places(c, p) = {}
        BY <1>1, <1>4 DEF Places
    <2>2. Occurrences(c, p) = 0
        BY <1>2, <2>1, FS_EmptySet
    <2> QED BY <1>4, <2>2 DEF c
<1> QED BY <1>3, <1>4
-----------------------------------------------------------------------------
\* A sequence in another order.
Shuffled(s, order) == [n \in DOMAIN s |-> s[order[n]]]

\* Another order loses and adds nothing.
LEMMA ShuffledAlike ==
    ASSUME NEW T, NEW s \in Seq(T), NEW order \in Bijection(DOMAIN s, DOMAIN s)
    PROVE  /\ Shuffled(s, order) \in Seq(T) /\ DOMAIN Shuffled(s, order) = DOMAIN s
           /\ \A n \in DOMAIN s : order[n] \in DOMAIN s
           /\ \A m \in DOMAIN s : \E n \in DOMAIN s : order[n] = m
           /\ \A p : Occurrences(Shuffled(s, order), p) = Occurrences(s, p)
<1> DEFINE D == DOMAIN s
           r == Shuffled(s, order)
<1>1. D = 1 .. Len(s) /\ Len(s) \in Nat /\ \A n \in D : s[n] \in T
    BY Elements
<1>2. /\ order \in [D -> D] /\ \A m \in D : \E n \in D : order[n] = m
      /\ \A m, n \in D : order[m] = order[n] => m = n
    BY DEF Bijection, Injection, Surjection, IsInjective
<1>3. r \in Seq(T) /\ DOMAIN r = D
    <2>1. r \in [1 .. Len(s) -> T]
        BY <1>1, <1>2 DEF Shuffled
    <2> QED BY <1>1, <2>1, IndexedBy
<1>4. ASSUME NEW p PROVE Occurrences(r, p) = Occurrences(s, p)
    <2> DEFINE P == Places(r, p)
               Q == Places(s, p)
               f == [n \in P |-> order[n]]
    <2>1. \A n \in P : n \in D /\ order[n] \in Q
        BY <1>2, <1>3 DEF Places, Shuffled
    <2>2. \A m \in Q : \E n \in P : order[n] = m
        BY <1>2, <1>3 DEF Places, Shuffled
    <2> HIDE DEF P, Q
    <2>3. f \in Bijection(P, Q)
        <3>1. f \in [P -> Q] /\ \A n \in P : f[n] = order[n]
            BY <2>1
        <3> HIDE DEF f
        <3>2. (\A m, n \in P : f[m] = f[n] => m = n) /\ \A m \in Q : \E n \in P : f[n] = m
            BY <1>2, <2>1, <2>2, <3>1
        <3> QED BY <3>1, <3>2 DEF Bijection, Injection, Surjection, IsInjective
    <2>4. IsFiniteSet(P) /\ Occurrences(r, p) = Cardinality(P) /\ Occurrences(s, p) = Cardinality(Q)
        BY <1>3, PlacesFinite DEF P, Q
    <2>5. ExistsBijection(P, Q)
        BY <2>3 DEF ExistsBijection
    <2> QED BY <2>4, <2>5, FS_Bijection
<1> HIDE DEF r
<1>5. r \in Seq(T) /\ DOMAIN r = D /\ \A p : Occurrences(r, p) = Occurrences(s, p)
    BY <1>3, <1>4
<1> QED BY <1>2, <1>5 DEF r
-----------------------------------------------------------------------------
\* The pieces of any text.
TextPieces == [kind : {"name", "word", "stop"}, token : Nat]

\* extractEntities keeps a name that is there in the middle of a sentence, or often.
IfNamed(kept, e, terms) ==
    IF MidSentence(terms, e.token) \/ e.count > 1 THEN Append(kept, e) ELSE kept

KeepsNames(f, s, P, terms) ==
    f = [S \in SUBSET P |-> IF S = {} THEN <<>> ELSE IfNamed(f[S \ {Max(S)}], s[Max(S)], terms)]

\* The tallies extractEntities ranks.
Names(tallies, terms) ==
    Kept(tallies, LAMBDA c : MidSentence(terms, c.token) \/ c.count > 1)

\* They are the tallies that pass that test, each as often as it was.
LEMMA NamesAreKept ==
    ASSUME NEW terms, NEW s \in Seq(Tallies)
    PROVE  /\ Names(s, terms) \in Seq(Tallies)
           /\ \A p \in Tallies :
                 Occurrences(Names(s, terms), p) =
                     IF MidSentence(terms, p.token) \/ p.count > 1 THEN Occurrences(s, p) ELSE 0
<1> DEFINE N == Len(s)
           A == Seq(Tallies)
           K == {p \in Tallies : MidSentence(terms, p.token) \/ p.count > 1}
           G == [ae \in A \X Tallies |-> IfNamed(ae[1], ae[2], terms)]
           h == CHOOSE f : KeepsNames(f, s, 1 .. N, terms)
<1>1. DOMAIN s = 1 .. N /\ N \in Nat /\ \A k \in 1 .. N : s[k] \in Tallies
    BY Elements
<1>2. ASSUME NEW t \in A, NEW e \in Tallies
      PROVE  IfNamed(t, e, terms) = (IF e \in K THEN Append(t, e) ELSE t) /\ IfNamed(t, e, terms) \in A
    BY DEF IfNamed
<1>3. Names(s, terms) = h[1 .. N]
    <2>1. Names(s, terms) = (CHOOSE f : KeepsNames(f, s, DOMAIN s, terms))[DOMAIN s]
        BY DEF Names, Kept, FoldLeft, MapThenFoldSet, KeepsNames, IfNamed
    <2> QED BY <1>1, <2>1
<1>4. \E f : KeepsNames(f, s, 1 .. N, terms)
    <2>1. <<>> \in A /\ G \in [A \X Tallies -> A]
        BY <1>2
    <2>2. PICK f \in [SUBSET (1 .. N) -> A] : Folds(f, G, <<>>, s, 1 .. N)
        <3> HIDE DEF A, G, N
        <3>1. Foldable(G, <<>>, s, A, N)
            BY <1>1, <2>1, FoldIsThere
        <3> QED BY <3>1 DEF Foldable
    <2>3. ASSUME NEW S \in SUBSET (1 .. N), S # {}
          PROVE  G[<<f[S \ {Max(S)}], s[Max(S)]>>] = IfNamed(f[S \ {Max(S)}], s[Max(S)], terms)
        <3>1. f[S \ {Max(S)}] \in A /\ s[Max(S)] \in Tallies
            <4> HIDE DEF A, N
            <4> QED BY <1>1, <2>3, LastTaken
        <3> QED BY <3>1
    <2>4. f = [S \in SUBSET (1 .. N) |->
                  IF S = {} THEN <<>> ELSE G[<<f[S \ {Max(S)}], s[Max(S)]>>]]
        BY <2>2 DEF Folds
    <2>5. KeepsNames(f, s, 1 .. N, terms)
        <3> HIDE DEF A, G, N
        <3> QED BY <2>3, <2>4 DEF KeepsNames
    <2> QED BY <2>5
<1>5. h = [S \in SUBSET (1 .. N) |->
              IF S = {} THEN <<>> ELSE IfNamed(h[S \ {Max(S)}], s[Max(S)], terms)]
    BY <1>4 DEF KeepsNames
<1> HIDE DEF h
<1>6. h[{}] = <<>>
    BY <1>5
<1>7. ASSUME NEW k \in 1 .. N, h[1 .. k - 1] \in Seq(Tallies)
      PROVE  h[1 .. k] = IF s[k] \in K THEN Append(h[1 .. k - 1], s[k]) ELSE h[1 .. k - 1]
    <2>1. /\ 1 .. k \in SUBSET (1 .. N) /\ 1 .. k # {}
          /\ Max(1 .. k) = k /\ (1 .. k) \ {Max(1 .. k)} = 1 .. k - 1
        BY <1>1, FirstPositions
    <2>2. h[1 .. k] = IfNamed(h[(1 .. k) \ {Max(1 .. k)}], s[Max(1 .. k)], terms)
        <3> HIDE DEF N
        <3> QED BY <1>5, <2>1
    <2>3. h[1 .. k] = IfNamed(h[1 .. k - 1], s[k], terms) /\ s[k] \in Tallies
        BY <1>1, <2>1, <2>2
    <2> HIDE DEF K, N
    <2> QED BY <1>2, <1>7, <2>3
<1>8. /\ h[1 .. N] \in Seq(Tallies)
      /\ \A p \in Tallies : Occurrences(h[1 .. N], p) = IF p \in K THEN Occurrences(s, p) ELSE 0
    <2> HIDE DEF K
    <2>1. Keeping(h, s, K, Tallies)
        BY <1>6, <1>7 DEF Keeping
    <2> QED BY <2>1, KeepKeeps
<1> QED BY <1>3, <1>8

\* Counted leaves out the tokens that are not counted.
IfCounted(kept, t) == IF t # 0 THEN Append(kept, t) ELSE kept

KeepsCounted(f, s, P) ==
    f = [S \in SUBSET P |-> IF S = {} THEN <<>> ELSE IfCounted(f[S \ {Max(S)}], s[Max(S)])]

\* Each other token is there as often as it was.
LEMMA CountedAreKept ==
    ASSUME NEW s \in Seq(Nat)
    PROVE  /\ Counted(s) \in Seq(Nat)
           /\ \A p \in Nat : Occurrences(Counted(s), p) = IF p # 0 THEN Occurrences(s, p) ELSE 0
<1> DEFINE N == Len(s)
           A == Seq(Nat)
           K == Nat \ {0}
           G == [ae \in A \X Nat |-> IfCounted(ae[1], ae[2])]
           h == CHOOSE f : KeepsCounted(f, s, 1 .. N)
<1>1. DOMAIN s = 1 .. N /\ N \in Nat /\ \A k \in 1 .. N : s[k] \in Nat
    BY Elements
<1>2. ASSUME NEW t \in A, NEW e \in Nat
      PROVE  IfCounted(t, e) = (IF e \in K THEN Append(t, e) ELSE t) /\ IfCounted(t, e) \in A
    BY DEF IfCounted
<1>3. Counted(s) = h[1 .. N]
    <2>1. Counted(s) = (CHOOSE f : KeepsCounted(f, s, DOMAIN s))[DOMAIN s]
        BY DEF Counted, Kept, FoldLeft, MapThenFoldSet, KeepsCounted, IfCounted
    <2> QED BY <1>1, <2>1
<1>4. \E f : KeepsCounted(f, s, 1 .. N)
    <2>1. <<>> \in A /\ G \in [A \X Nat -> A]
        BY <1>2
    <2>2. PICK f \in [SUBSET (1 .. N) -> A] : Folds(f, G, <<>>, s, 1 .. N)
        <3> HIDE DEF A, G, N
        <3>1. Foldable(G, <<>>, s, A, N)
            BY <1>1, <2>1, FoldIsThere
        <3> QED BY <3>1 DEF Foldable
    <2>3. ASSUME NEW S \in SUBSET (1 .. N), S # {}
          PROVE  G[<<f[S \ {Max(S)}], s[Max(S)]>>] = IfCounted(f[S \ {Max(S)}], s[Max(S)])
        <3>1. f[S \ {Max(S)}] \in A /\ s[Max(S)] \in Nat
            <4> HIDE DEF A, N
            <4> QED BY <1>1, <2>3, LastTaken
        <3> QED BY <3>1
    <2>4. f = [S \in SUBSET (1 .. N) |->
                  IF S = {} THEN <<>> ELSE G[<<f[S \ {Max(S)}], s[Max(S)]>>]]
        BY <2>2 DEF Folds
    <2>5. KeepsCounted(f, s, 1 .. N)
        <3> HIDE DEF A, G, N
        <3> QED BY <2>3, <2>4 DEF KeepsCounted
    <2> QED BY <2>5
<1>5. h = [S \in SUBSET (1 .. N) |-> IF S = {} THEN <<>> ELSE IfCounted(h[S \ {Max(S)}], s[Max(S)])]
    BY <1>4 DEF KeepsCounted
<1> HIDE DEF h
<1>6. h[{}] = <<>>
    BY <1>5
<1>7. ASSUME NEW k \in 1 .. N, h[1 .. k - 1] \in Seq(Nat)
      PROVE  h[1 .. k] = IF s[k] \in K THEN Append(h[1 .. k - 1], s[k]) ELSE h[1 .. k - 1]
    <2>1. /\ 1 .. k \in SUBSET (1 .. N) /\ 1 .. k # {}
          /\ Max(1 .. k) = k /\ (1 .. k) \ {Max(1 .. k)} = 1 .. k - 1
        BY <1>1, FirstPositions
    <2>2. h[1 .. k] = IfCounted(h[(1 .. k) \ {Max(1 .. k)}], s[Max(1 .. k)])
        <3> HIDE DEF N
        <3> QED BY <1>5, <2>1
    <2>3. h[1 .. k] = IfCounted(h[1 .. k - 1], s[k]) /\ s[k] \in Nat
        BY <1>1, <2>1, <2>2
    <2> HIDE DEF K, N
    <2> QED BY <1>2, <1>7, <2>3
<1>8. /\ h[1 .. N] \in Seq(Nat)
      /\ \A p \in Nat : Occurrences(h[1 .. N], p) = IF p \in K THEN Occurrences(s, p) ELSE 0
    <2> HIDE DEF K
    <2>1. Keeping(h, s, K, Nat)
        BY <1>6, <1>7 DEF Keeping
    <2> QED BY <2>1, KeepKeeps
<1> QED BY <1>3, <1>8

\* What is read off the pieces one by one is, in another order, the same in that order.
LEMMA ShuffledTokens ==
    ASSUME NEW text \in Seq(TextPieces), NEW order \in Bijection(DOMAIN text, DOMAIN text)
    PROVE  /\ Tokens(text) \in Seq(Nat) /\ DOMAIN Tokens(text) = DOMAIN text
           /\ Tokens(Shuffled(text, order)) = Shuffled(Tokens(text), order)
           /\ NameTokens(text) \in Seq(Nat) /\ DOMAIN NameTokens(text) = DOMAIN text
           /\ NameTokens(Shuffled(text, order)) = Shuffled(NameTokens(text), order)
<1> DEFINE D == DOMAIN text
           r == Shuffled(text, order)
           Name(piece) == IF piece.kind = "name" THEN piece.token ELSE 0
<1>1. /\ D = 1 .. Len(text) /\ Len(text) \in Nat
      /\ \A n \in D : text[n].token \in Nat /\ Name(text[n]) \in Nat
    <2>1. D = 1 .. Len(text) /\ Len(text) \in Nat /\ \A n \in D : text[n] \in TextPieces
        BY Elements
    <2> QED BY <2>1 DEF TextPieces
<1>2. r = [n \in D |-> text[order[n]]] /\ \A n \in D : order[n] \in D
    BY ShuffledAlike DEF Shuffled
<1>3. DOMAIN r = D /\ \A n \in D : r[n] = text[order[n]]
    BY <1>2
<1>4. /\ Tokens(text) = [n \in D |-> text[n].token]
      /\ NameTokens(text) = [n \in D |-> Name(text[n])]
    BY DEF Tokens, NameTokens
<1> HIDE DEF r
<1>5. /\ Tokens(r) = [n \in D |-> text[order[n]].token]
      /\ NameTokens(r) = [n \in D |-> Name(text[order[n]])]
    BY <1>3 DEF Tokens, NameTokens
<1> HIDE DEF Name, D
<1>6. /\ Tokens(text) \in [1 .. Len(text) -> Nat] /\ DOMAIN Tokens(text) = D
      /\ NameTokens(text) \in [1 .. Len(text) -> Nat] /\ DOMAIN NameTokens(text) = D
    BY <1>1, <1>4
<1>7. Tokens(text) \in Seq(Nat) /\ NameTokens(text) \in Seq(Nat)
    BY <1>1, <1>6, IndexedBy
<1>8. /\ Shuffled(Tokens(text), order) = [n \in D |-> text[order[n]].token]
      /\ Shuffled(NameTokens(text), order) = [n \in D |-> Name(text[order[n]])]
    BY <1>2, <1>4 DEF Shuffled
<1> QED BY <1>5, <1>6, <1>7, <1>8 DEF r, D

\* Where the names open sentences as before, the same ones are found in the middle of one.
LEMMA ShuffledNames ==
    ASSUME NEW text \in Seq(TextPieces), NEW order \in Bijection(DOMAIN text, DOMAIN text), NEW t,
           \A n \in DOMAIN text : Shuffled(text, order)[n].kind = "name" =>
               (OpensSentence(Shuffled(text, order), n) <=> OpensSentence(text, order[n]))
    PROVE  MidSentence(Shuffled(text, order), t) <=> MidSentence(text, t)
<1> DEFINE D == DOMAIN text
           r == Shuffled(text, order)
           Mid(piece) == piece.kind = "name" /\ piece.token = t
<1>1. /\ DOMAIN r = D /\ \A n \in D : r[n] = text[order[n]] /\ order[n] \in D
      /\ \A m \in D : \E n \in D : order[n] = m
    <2>1. /\ r = [n \in D |-> text[order[n]]] /\ \A n \in D : order[n] \in D
          /\ \A m \in D : \E n \in D : order[n] = m
        BY ShuffledAlike DEF Shuffled
    <2> QED BY <2>1
<1>2. \A n \in D : r[n].kind = "name" => (OpensSentence(r, n) <=> OpensSentence(text, order[n]))
    OBVIOUS
<1>3. /\ MidSentence(r, t) <=> \E n \in DOMAIN r : Mid(r[n]) /\ ~ OpensSentence(r, n)
      /\ MidSentence(text, t) <=> \E n \in D : Mid(text[n]) /\ ~ OpensSentence(text, n)
    BY DEF MidSentence
<1>4. \A piece : Mid(piece) => piece.kind = "name"
    OBVIOUS
<1> HIDE DEF r, D, Mid
<1>5. ASSUME NEW n \in D, Mid(r[n]), ~ OpensSentence(r, n)
      PROVE  \E m \in D : Mid(text[m]) /\ ~ OpensSentence(text, m)
    BY <1>1, <1>2, <1>4, <1>5
<1>6. ASSUME NEW m \in D, Mid(text[m]), ~ OpensSentence(text, m)
      PROVE  \E n \in D : Mid(r[n]) /\ ~ OpensSentence(r, n)
    <2>1. PICK n \in D : order[n] = m
        BY <1>1
    <2>2. Mid(r[n]) /\ ~ OpensSentence(r, n)
        BY <1>1, <1>2, <1>4, <1>6, <2>1
    <2> QED BY <2>2
<1> QED BY <1>1, <1>3, <1>5, <1>6 DEF r

\* Tokens that are there as often are tallied as often.
LEMMA SameTallies ==
    ASSUME NEW s \in Seq(Nat), NEW order \in Bijection(DOMAIN s, DOMAIN s)
    PROVE  /\ Counts(Counted(s)) \in Seq(Tallies)
           /\ Counts(Counted(Shuffled(s, order))) \in Seq(Tallies)
           /\ \A p \in Tallies : Occurrences(Counts(Counted(Shuffled(s, order))), p) =
                                  Occurrences(Counts(Counted(s)), p)
<1> DEFINE a == Counted(s)
           b == Counted(Shuffled(s, order))
<1>1. Shuffled(s, order) \in Seq(Nat) /\ \A p : Occurrences(Shuffled(s, order), p) = Occurrences(s, p)
    BY ShuffledAlike
<1>2. a \in Seq(Nat) /\ \A p \in Nat : Occurrences(a, p) = IF p # 0 THEN Occurrences(s, p) ELSE 0
    BY CountedAreKept
<1>3. /\ b \in Seq(Nat)
      /\ \A p \in Nat : Occurrences(b, p) = IF p # 0 THEN Occurrences(s, p) ELSE 0
    <2> DEFINE r == Shuffled(s, order)
    <2>1. r \in Seq(Nat) /\ \A p : Occurrences(r, p) = Occurrences(s, p)
        BY <1>1
    <2>2. b = Counted(r)
        OBVIOUS
    <2> HIDE DEF r, b
    <2>3. Counted(r) \in Seq(Nat) /\ \A p \in Nat : Occurrences(Counted(r), p) = IF p # 0 THEN Occurrences(r, p) ELSE 0
        BY <2>1, CountedAreKept
    <2> QED BY <2>1, <2>2, <2>3
<1> HIDE DEF a, b
<1>4. Counts(a) \in Seq(Tallies) /\ Counts(b) \in Seq(Tallies)
    BY <1>2, <1>3, TokensAreCounted DEF CountedUpTo
<1>5. ASSUME NEW p \in Tallies PROVE Occurrences(Counts(b), p) = Occurrences(Counts(a), p)
    <2>1. Occurrences(Counts(a), p) = IF p.count > 0 /\ p.count = Occurrences(a, p.token) THEN 1 ELSE 0
        BY <1>2, TalliesOfTokens
    <2>2. Occurrences(Counts(b), p) = IF p.count > 0 /\ p.count = Occurrences(b, p.token) THEN 1 ELSE 0
        BY <1>3, TalliesOfTokens
    <2>3. Occurrences(a, p.token) = Occurrences(b, p.token)
        <3>1. p.token \in Nat
            BY TallyParts
        <3> QED BY <1>2, <1>3, <3>1
    <2> QED BY <2>1, <2>2, <2>3
<1> QED BY <1>4, <1>5 DEF a, b

\* Topics of a text in another order.
LEMMA SameTopics ==
    ASSUME NEW text \in Seq(TextPieces), NEW order \in Bijection(DOMAIN text, DOMAIN text), NEW limit
    PROVE  ExtractTopics(Shuffled(text, order), limit) = ExtractTopics(text, limit)
<1> DEFINE s == Tokens(text)
<1>1. s \in Seq(Nat) /\ order \in Bijection(DOMAIN s, DOMAIN s)
      /\ Tokens(Shuffled(text, order)) = Shuffled(s, order)
    BY ShuffledTokens
<1> HIDE DEF s
<1>2. RankByCount(Counts(Counted(Shuffled(s, order))), limit) = RankByCount(Counts(Counted(s)), limit)
    BY <1>1, SameTallies, SameRanking
<1> QED BY <1>1, <1>2 DEF ExtractTopics, s

\* Entities of a text in another order in which names open sentences as before.
LEMMA SameEntities ==
    ASSUME NEW text \in Seq(TextPieces), NEW order \in Bijection(DOMAIN text, DOMAIN text), NEW limit,
           \A n \in DOMAIN text : Shuffled(text, order)[n].kind = "name" =>
               (OpensSentence(Shuffled(text, order), n) <=> OpensSentence(text, order[n]))
    PROVE  ExtractEntities(Shuffled(text, order), limit) = ExtractEntities(text, limit)
<1> DEFINE r == Shuffled(text, order)
           s == NameTokens(text)
           c == Counts(Counted(s))
           d == Counts(Counted(Shuffled(s, order)))
<1>1. s \in Seq(Nat) /\ order \in Bijection(DOMAIN s, DOMAIN s) /\ NameTokens(r) = Shuffled(s, order)
    BY ShuffledTokens
<1>2. \A t : MidSentence(r, t) <=> MidSentence(text, t)
    BY ShuffledNames
<1>3. ASSUME NEW u
      PROVE  ExtractEntities(u, limit) = RankByCount(Names(Counts(Counted(NameTokens(u))), u), limit)
    BY DEF ExtractEntities, Names
<1>4. /\ ExtractEntities(text, limit) = RankByCount(Names(c, text), limit)
      /\ ExtractEntities(r, limit) = RankByCount(Names(d, r), limit)
    BY <1>1, <1>3
<1> HIDE DEF s, r
<1>5. /\ c \in Seq(Tallies) /\ d \in Seq(Tallies)
      /\ \A p \in Tallies : Occurrences(d, p) = Occurrences(c, p)
    BY <1>1, SameTallies
<1> HIDE DEF c, d
<1>6. /\ Names(c, text) \in Seq(Tallies)
      /\ \A p \in Tallies : Occurrences(Names(c, text), p) =
                             IF MidSentence(text, p.token) \/ p.count > 1 THEN Occurrences(c, p) ELSE 0
    BY <1>5, NamesAreKept
<1>7. /\ Names(d, r) \in Seq(Tallies)
      /\ \A p \in Tallies : Occurrences(Names(d, r), p) =
                             IF MidSentence(r, p.token) \/ p.count > 1 THEN Occurrences(d, p) ELSE 0
    BY <1>5, NamesAreKept
<1>8. \A p \in Tallies : Occurrences(Names(d, r), p) = Occurrences(Names(c, text), p)
    BY <1>2, <1>5, <1>6, <1>7
<1>9. RankByCount(Names(d, r), limit) = RankByCount(Names(c, text), limit)
    BY <1>6, <1>7, <1>8, SameRanking
<1> QED BY <1>4, <1>9 DEF r

\* The topics of a text do not depend on the order of its pieces, and its entities on no
\* more of it than which names open a sentence.
THEOREM RankingsAgree == InputSpec => []RankingIgnoresOrder
<1> DEFINE Inv == kind = "text" => input \in Seq(TextPieces)
<1>1. Pieces \subseteq TextPieces
    BY InputsAssumption DEF Pieces, TextPieces
<1>2. InputInit => Inv
    BY DEF InputInit
<1>3. Inv /\ [AddPiece]_<<kind, input>> => Inv'
    BY <1>1 DEF AddPiece
<1>4. Inv => RankingIgnoresOrder
    <2> SUFFICES ASSUME input \in Seq(TextPieces),
                        NEW order \in Bijection(DOMAIN input, DOMAIN input), NEW limit \in 0 .. MaxPieces
                 PROVE  LET shuffled == [n \in DOMAIN input |-> input[order[n]]]
                            opensAlike == \A n \in DOMAIN input : shuffled[n].kind = "name" =>
                                  (OpensSentence(shuffled, n) <=> OpensSentence(input, order[n]))
                        IN  /\ ExtractTopics(shuffled, limit) = ExtractTopics(input, limit)
                            /\ opensAlike => ExtractEntities(shuffled, limit) = ExtractEntities(input, limit)
        BY DEF RankingIgnoresOrder
    <2> DEFINE shuffled == [n \in DOMAIN input |-> input[order[n]]]
    <2>1. shuffled = Shuffled(input, order)
        BY DEF Shuffled
    <2>2. ExtractTopics(shuffled, limit) = ExtractTopics(input, limit)
        BY <2>1, SameTopics
    <2>3. ASSUME \A n \in DOMAIN input : shuffled[n].kind = "name" =>
                     (OpensSentence(shuffled, n) <=> OpensSentence(input, order[n]))
          PROVE  ExtractEntities(shuffled, limit) = ExtractEntities(input, limit)
        <3> HIDE DEF shuffled
        <3> QED BY <2>1, <2>3, SameEntities
    <2> QED BY <2>2, <2>3
<1> QED BY <1>2, <1>3, <1>4, PTL DEF InputSpec
-----------------------------------------------------------------------------
(***************************************************************************)
(* What becomes an item.                                                   *)
(***************************************************************************)

\* A bounded sequence is one.
LEMMA Bounded ==
    ASSUME NEW T, NEW n \in Nat, NEW s \in BoundedSeq(T, n)
    PROVE  s \in Seq(T)
<1>1. PICK m \in 0 .. n : s \in [1 .. m -> T]
    BY DEF BoundedSeq, SeqOf
<1>2. m \in Nat
    OBVIOUS
<1> QED BY <1>1, <1>2, IndexedBy

\* With room for two images, the first address that is usable is the first of them and the
\* first other one is the second.
LEMMA TwoImages ==
    ASSUME NEW refs, NEW k \in Nat, NEW images, Listed(images, refs, k, 2),
           NEW i \in 1 .. k, NEW j \in 1 .. k, i < j, NEW a \in Urls, NEW b \in Urls, a # b,
           SafeAbsoluteUrl(refs[i]) = a, SafeAbsoluteUrl(refs[j]) = b,
           \A l \in 1 .. j - 1 : SafeAbsoluteUrl(refs[l]) \in {NoUrl, a},
           \A l \in 1 .. i - 1 : SafeAbsoluteUrl(refs[l]) = NoUrl
    PROVE  images = <<a, b>>
<1>1. /\ images \in Seq(Urls) /\ Len(images) <= 2 /\ Len(images) \in Nat
      /\ DOMAIN images = 1 .. Len(images) /\ \A n \in DOMAIN images : images[n] \in Urls
    BY Elements DEF Listed
<1>2. NoUrl \notin Urls
    BY Addresses
<1>3. Len(images) = 2
    <2>1. ASSUME Len(images) # 2 PROVE FALSE
        <3>1. Contains(images, a) /\ Contains(images, b)
            BY <1>2, <2>1 DEF Listed
        <3>2. PICK m \in 1 .. Len(images) : images[m] = a
            BY <1>1, <3>1 DEF Contains
        <3>3. PICK n \in 1 .. Len(images) : images[n] = b
            BY <1>1, <3>1 DEF Contains
        <3>4. m # n
            BY <3>2, <3>3
        <3> QED BY <1>1, <2>1, <3>4
    <2> QED BY <2>1
<1>4. 1 \in DOMAIN images /\ 2 \in DOMAIN images
    BY <1>1, <1>3
<1>5. images[1] = a
    <2>1. PICK m \in 1 .. k :
              /\ SafeAbsoluteUrl(refs[m]) = images[1]
              /\ \A l \in 1 .. m - 1 : \/ SafeAbsoluteUrl(refs[l]) = NoUrl
                                       \/ \E x \in 1 .. 1 - 1 : images[x] = SafeAbsoluteUrl(refs[l])
        BY <1>4 DEF Listed
    <2>2. \A l \in 1 .. m - 1 : SafeAbsoluteUrl(refs[l]) = NoUrl
        BY <2>1
    <2>3. ~ i < m
        <3>1. i < m => i \in 1 .. m - 1
            OBVIOUS
        <3> QED BY <1>2, <2>2, <3>1
    <2>4. ~ m < i
        <3>1. m < i => m \in 1 .. i - 1
            OBVIOUS
        <3> QED BY <1>1, <1>2, <1>4, <2>1, <3>1
    <2>5. m = i
        BY <2>3, <2>4
    <2> QED BY <2>1, <2>5
<1>6. images[2] = b
    <2>1. PICK m \in 1 .. k :
              /\ SafeAbsoluteUrl(refs[m]) = images[2]
              /\ \A l \in 1 .. m - 1 : \/ SafeAbsoluteUrl(refs[l]) = NoUrl
                                       \/ \E x \in 1 .. 2 - 1 : images[x] = SafeAbsoluteUrl(refs[l])
        BY <1>4 DEF Listed
    <2>2. \A l \in 1 .. m - 1 : SafeAbsoluteUrl(refs[l]) \in {NoUrl, a}
        <3>1. \A x \in 1 .. 2 - 1 : x = 1
            OBVIOUS
        <3> QED BY <1>5, <2>1, <3>1
    <2>3. images[2] # a /\ images[2] # NoUrl
        <3>1. images[1] = images[2] => 1 = 2
            BY <1>4 DEF Listed
        <3> QED BY <1>1, <1>2, <1>4, <1>5, <3>1
    <2>4. ~ j < m
        <3>1. j < m => j \in 1 .. m - 1
            OBVIOUS
        <3> QED BY <1>2, <2>2, <3>1
    <2>5. ~ m < j
        <3>1. m < j => m \in 1 .. j - 1
            OBVIOUS
        <3> QED BY <2>1, <2>3, <3>1
    <2>6. m = j
        BY <2>4, <2>5
    <2> QED BY <2>1, <2>6
<1> QED BY <1>1, <1>3, <1>5, <1>6

\* The images, the author and the date of an entry that becomes an item.
LEMMA EntryParts ==
    ASSUME NEW entry, NEW maxImages, ~BuildEntry(entry, maxImages).quarantined
    PROVE  /\ BuildEntry(entry, maxImages).images = EntryImages(entry, maxImages)
           /\ BuildEntry(entry, maxImages).author = EntryAuthor(entry)
           /\ BuildEntry(entry, maxImages).publishedAt = EntryPublishedAt(entry)
<1>1. CASE EntryLink(entry) = NoUrl
    <2>1. BuildEntry(entry, maxImages).quarantined
        BY <1>1 DEF BuildEntry
    <2> QED BY <2>1
<1>2. CASE EntryLink(entry) # NoUrl
    <2> DEFINE either == PickText(<<entry.title, PickText(entry.texts)>>)
               other  == PickText(<<PickText(entry.texts), entry.title>>)
               images == EntryImages(entry, maxImages)
               id     == IF Guid(entry) = "" THEN EntryLink(entry) ELSE Guid(entry)
               author == EntryAuthor(entry)
               at     == EntryPublishedAt(entry)
               built  == BuildEntry(entry, maxImages)
               url    == EntryLink(entry)
    <2>1. built = IF entry.title = "" /\ PickText(entry.texts) = ""
                  THEN [quarantined |-> TRUE, id |-> id]
                  ELSE [quarantined |-> FALSE, id |-> id, url |-> url, title |-> either, text |-> other,
                        author |-> author, publishedAt |-> at, images |-> images]
        BY <1>2 DEF BuildEntry
    <2>2. ~ built.quarantined
        OBVIOUS
    <2> HIDE DEF either, other, images, id, author, at, url, built
    <2>3. built.images = images /\ built.author = author /\ built.publishedAt = at
        BY <2>1, <2>2
    <2> QED BY <2>3 DEF built, images, author, at
<1> QED BY <1>1, <1>2

\* The images and the text of a page that becomes an item.
LEMMA PageParts ==
    ASSUME NEW page, NEW address, NEW maxImages, ~BuildPage(page, address, maxImages).quarantined
    PROVE  LET says == MetaContent(page, <<"og:description", "description">>)
           IN  /\ BuildPage(page, address, maxImages).images = WebImages(page, maxImages)
               /\ BuildPage(page, address, maxImages).text =
                     IF page.article # "" THEN page.article ELSE IF says # "" THEN says ELSE page.title
<1> DEFINE says   == MetaContent(page, <<"og:description", "description">>)
           text   == PickText(<<page.article, says>>)
           url    == IF CanonicalFrom(page) = NoUrl THEN address ELSE CanonicalFrom(page)
           either == PickText(<<page.title, url>>)
           other  == PickText(<<text, page.title>>)
           images == WebImages(page, maxImages)
           built  == BuildPage(page, address, maxImages)
<1>1. built = IF page.title = "" /\ text = ""
              THEN [quarantined |-> TRUE, id |-> url]
              ELSE [quarantined |-> FALSE, id |-> url, url |-> url, title |-> either, text |-> other,
                    images |-> images]
    BY DEF BuildPage
<1>2. ~ built.quarantined
    OBVIOUS
<1>3. text = IF page.article # "" THEN page.article ELSE says
    <2> HIDE DEF says
    <2> QED BY EitherText
<1>4. other = IF text # "" THEN text ELSE page.title
    <2> HIDE DEF text
    <2> QED BY EitherText
<1> HIDE DEF says, text, url, either, other, images, built
<1>5. built.images = images /\ built.text = other
    BY <1>1, <1>2
<1>6. other = IF page.article # "" THEN page.article ELSE IF says # "" THEN says ELSE page.title
    BY <1>3, <1>4
<1> QED BY <1>5, <1>6 DEF built, images, says

\* Three references are a sequence, and so are four texts.
LEMMA ThreeAndFour ==
    ASSUME NEW a, NEW b, NEW c
    PROVE  /\ <<a, b, c>> \in Seq({a, b, c}) /\ Len(<<a, b, c>>) = 3
           /\ <<a, b, c>>[1] = a /\ <<a, b, c>>[2] = b /\ <<a, b, c>>[3] = c
           /\ \A d : <<a, b, c, d>> \in Seq({a, b, c, d})
    OBVIOUS

\* Four of them are one.
LEMMA FourTexts ==
    ASSUME NEW A, NEW B, NEW C, NEW D, NEW t \in A \X B \X C \X D
    PROVE  IsSequence(t)
<1>1. t = <<t[1], t[2], t[3], t[4]>>
    OBVIOUS
<1>2. <<t[1], t[2], t[3], t[4]>> \in Seq({t[1], t[2], t[3], t[4]})
    BY ThreeAndFour
<1> QED BY <1>1, <1>2 DEF IsSequence

\* The entries of the model are entries.
LEMMA EntriesAre ==
    ASSUME NEW entry \in Entries
    PROVE  /\ IsEntry(entry) /\ HasMedia(entry) /\ IsSequence(entry.dates)
           /\ entry.guid \in {"", "g"} /\ entry.id \in {"", "i"}
           /\ \A n \in DOMAIN entry.links : entry.links[n].rel \in {"absent", "alternate", "self"}
<1>1. MaxLinks \in Nat
    BY InputsAssumption
<1>2. IsSequence(<<>>) /\ <<>> \in Seq(EntryTags)
    <2>1. <<>> \in Seq({}) /\ <<>> \in Seq(EntryTags)
        OBVIOUS
    <2> QED BY <2>1 DEF IsSequence
<1>3. \A T : \A s \in BoundedSeq(T, MaxLinks) : s \in Seq(T) /\ IsSequence(s)
    BY <1>1, Bounded DEF IsSequence
<1>4. \A d : IsSequence(<<d>>)
    <2>1. \A d : <<d>> \in Seq({d})
        OBVIOUS
    <2> QED BY <2>1 DEF IsSequence
<1>5. ASSUME NEW authors, NEW dates, NEW enclosures, NEW media, NEW inline,
             entry \in Alike(authors, dates, enclosures, media, inline)
      PROVE  /\ entry.links \in Seq(EntryTags) /\ IsSequence(entry.texts)
             /\ entry.guid \in {"", "g"} /\ entry.id \in {"", "i"}
             /\ entry.dates \in dates /\ entry.enclosures \in enclosures
             /\ entry.media \in media /\ entry.inline \in inline
    <2>1. /\ entry.links = <<>> /\ entry.texts = <<"x", "", "", "">>
          /\ entry.guid = "g" /\ entry.id = ""
          /\ entry.dates \in dates /\ entry.enclosures \in enclosures
          /\ entry.media \in media /\ entry.inline \in inline
        BY <1>5 DEF Alike
    <2>2. <<"x", "", "", "">> \in Seq({"x", "", "", ""})
        BY ThreeAndFour
    <2>3. IsSequence(entry.texts)
        BY <2>1, <2>2 DEF IsSequence
    <2> QED BY <1>2, <2>1, <2>3
<1>6. /\ entry.links \in Seq(EntryTags) /\ IsSequence(entry.texts)
      /\ entry.guid \in {"", "g"} /\ entry.id \in {"", "i"}
      /\ IsSequence(entry.dates) /\ IsSequence(entry.enclosures)
      /\ IsSequence(entry.media) /\ IsSequence(entry.inline)
    <2>1. CASE entry \in PlainEntries
        <3>1. /\ entry.links \in BoundedSeq(EntryTags, MaxLinks)
              /\ entry.texts \in EntryTexts
              /\ entry.guid \in {"", "g"} /\ entry.id \in {"", "i"}
              /\ entry.dates = <<"d">> /\ entry.enclosures = <<>> /\ entry.media = <<>>
              /\ entry.inline = <<"other", "page", "page#part">>
            BY <2>1 DEF PlainEntries
        <3>2. IsSequence(entry.texts)
            BY <3>1, FourTexts DEF EntryTexts
        <3>3. IsSequence(<<"other", "page", "page#part">>)
            <4>1. <<"other", "page", "page#part">> \in Seq({"other", "page", "page#part"})
                BY ThreeAndFour
            <4> QED BY <4>1 DEF IsSequence
        <3>4. entry.links \in Seq(EntryTags)
            BY <1>3, <3>1
        <3> QED BY <1>2, <1>4, <3>1, <3>2, <3>3, <3>4
    <2>2. CASE entry \in SignedEntries
        <3> DEFINE dates == BoundedSeq({"", "bad", "d", "e"}, MaxLinks)
        <3>1. entry \in Alike({"", "n", "a", "c"}, dates, {<<>>}, {<<>>}, {<<>>})
            BY <2>2 DEF SignedEntries
        <3>2. \A s \in dates : IsSequence(s)
            BY <1>3
        <3> HIDE DEF dates
        <3>3. /\ entry.links \in Seq(EntryTags) /\ IsSequence(entry.texts)
              /\ entry.guid \in {"", "g"} /\ entry.id \in {"", "i"}
              /\ entry.dates \in dates /\ entry.enclosures \in {<<>>}
              /\ entry.media \in {<<>>} /\ entry.inline \in {<<>>}
            BY <1>5, <3>1
        <3> QED BY <1>2, <3>2, <3>3
    <2>3. CASE entry \in IllustratedEntries
        <3> DEFINE enclosures == BoundedSeq([image : BOOLEAN, url : {"page#part", "javascript"}], MaxLinks)
                   media      == BoundedSeq([thumbnail : BOOLEAN, image : BOOLEAN, url : {"other"}], MaxLinks)
                   inline     == BoundedSeq({"other", "page"}, MaxLinks)
        <3>1. entry \in Alike({""}, {<<"d">>}, enclosures, media, inline)
            BY <2>3 DEF IllustratedEntries
        <3>2. /\ \A s \in enclosures : IsSequence(s)
              /\ \A s \in media : IsSequence(s)
              /\ \A s \in inline : IsSequence(s)
            BY <1>3
        <3> HIDE DEF enclosures, media, inline
        <3>3. /\ entry.links \in Seq(EntryTags) /\ IsSequence(entry.texts)
              /\ entry.guid \in {"", "g"} /\ entry.id \in {"", "i"}
              /\ entry.dates \in {<<"d">>} /\ entry.enclosures \in enclosures
              /\ entry.media \in media /\ entry.inline \in inline
            BY <1>5, <3>1
        <3> QED BY <1>4, <3>2, <3>3
    <2> QED BY <2>1, <2>2, <2>3 DEF Entries
<1>7. IsEntry(entry) /\ HasMedia(entry)
    <2>1. IsSequence(entry.links)
        BY <1>6 DEF IsSequence
    <2> QED BY <1>6, <2>1 DEF IsEntry, HasMedia
<1>8. \A n \in DOMAIN entry.links : entry.links[n].rel \in {"absent", "alternate", "self"}
    <2>1. \A n \in DOMAIN entry.links : entry.links[n] \in EntryTags
        BY <1>6, Elements
    <2> QED BY <2>1 DEF EntryTags
<1> QED BY <1>6, <1>7, <1>8

\* An entry of the model becomes the item it should be, or none, with any room for images.
LEMMA EntriesBecomeItems ==
    ASSUME NEW entry \in Entries, NEW maxImages \in Nat
    PROVE  LET usable  == {"page", "page#part", "other"}
               linked  == \/ entry.linkText \in usable
                          \/ \E n \in DOMAIN entry.links :
                                entry.links[n].rel # "self" /\ entry.links[n].href \in usable
               written == entry.title # "" \/ \E n \in DOMAIN entry.texts : entry.texts[n] # ""
               built   == BuildEntry(entry, maxImages)
           IN  /\ ~built.quarantined <=> linked /\ written
               /\ ~built.quarantined =>
                    /\ built.id = IF entry.guid # "" THEN "g" ELSE IF entry.id # "" THEN "i" ELSE built.url
                    /\ built.url \in Urls /\ built.text # "" /\ built.title # ""
                    /\ IsFirstOf(built.author, <<entry.authorName, entry.authorText, entry.creator>>, {""}, "")
                    /\ IsFirstOf(built.publishedAt, entry.dates, {"", "bad"}, "")
                    /\ Listed(built.images, EntryReferences(entry), Len(EntryReferences(entry)), maxImages)
<1> DEFINE usable  == {"page", "page#part", "other"}
           linked  == \/ entry.linkText \in usable
                      \/ \E n \in DOMAIN entry.links :
                            entry.links[n].rel # "self" /\ entry.links[n].href \in usable
           written == entry.title # "" \/ \E n \in DOMAIN entry.texts : entry.texts[n] # ""
           built   == BuildEntry(entry, maxImages)
           authors == <<entry.authorName, entry.authorText, entry.creator>>
           refs    == EntryReferences(entry)
<1>1. Linked(entry) <=> linked
    BY EntriesAre DEF Linked, Usable
<1>2. Written(entry) <=> written
    BY DEF Written
<1>3. ~built.quarantined <=> Linked(entry) /\ Written(entry)
    BY EntriesAre, ItemIffLinkedAndWritten
<1>4. ASSUME ~built.quarantined
      PROVE  /\ built.url \in Urls /\ built.text # "" /\ built.title # ""
             /\ built.id = IF entry.guid # "" THEN "g" ELSE IF entry.id # "" THEN "i" ELSE built.url
    <2>1. /\ built.url \in {"page", "other"}
          /\ built.title # "" /\ built.text # "" /\ built.id # ""
          /\ entry.guid # "" => built.id = entry.guid
          /\ entry.guid = "" /\ entry.id # "" => built.id = entry.id
          /\ entry.guid = "" /\ entry.id = "" => built.id = built.url
        BY <1>4, EntriesAre, ItemsAreComplete
    <2> HIDE DEF built
    <2> QED BY <2>1, EntriesAre DEF Urls
<1>5. ASSUME ~built.quarantined
      PROVE  /\ IsFirstOf(built.author, authors, {""}, "")
             /\ IsFirstOf(built.publishedAt, entry.dates, {"", "bad"}, "")
             /\ Listed(built.images, refs, Len(refs), maxImages)
    <2>1. /\ built.images = EntryImages(entry, maxImages)
          /\ built.author = PickText(authors)
          /\ built.publishedAt = EntryPublishedAt(entry)
        BY <1>5, EntryParts DEF EntryAuthor
    <2>2. Listed(EntryImages(entry, maxImages), refs, Len(refs), maxImages)
        BY EntriesAre, ImagesAreListed
    <2>3. IsFirstOf(EntryPublishedAt(entry), entry.dates, {"", "bad"}, "")
        BY EntriesAre, FirstDate
    <2>4. authors \in Seq({entry.authorName, entry.authorText, entry.creator})
        BY ThreeAndFour
    <2> HIDE DEF built, authors, refs
    <2>5. IsFirstOf(PickText(authors), authors, {""}, "")
        BY <2>4, FirstText
    <2> QED BY <2>1, <2>2, <2>3, <2>5
<1> HIDE DEF built, linked, written, authors, refs
<1>6. /\ ~built.quarantined <=> linked /\ written
      /\ ~built.quarantined =>
            /\ built.id = IF entry.guid # "" THEN "g" ELSE IF entry.id # "" THEN "i" ELSE built.url
            /\ built.url \in Urls /\ built.text # "" /\ built.title # ""
            /\ IsFirstOf(built.author, authors, {""}, "")
            /\ IsFirstOf(built.publishedAt, entry.dates, {"", "bad"}, "")
            /\ Listed(built.images, refs, Len(refs), maxImages)
    BY <1>1, <1>2, <1>3, <1>4, <1>5
<1> QED BY <1>6 DEF built, linked, written, authors, refs

\* The pages of the model are pages, with the tags it gives them.
LEMMA PagesAre ==
    ASSUME NEW page \in Pages
    PROVE  /\ IsPage(page) /\ page.inline = <<"page", "other">>
           /\ page.title \in {"", "t"} /\ page.article \in {"", "x"}
           /\ \A n \in DOMAIN page.links :
                 page.links[n] \in PageTags
           /\ \A n \in DOMAIN page.metas : page.metas[n] \in PageMetas
<1>1. /\ page.links \in BoundedSeq(PageTags, MaxLinks) /\ page.metas \in BoundedSeq(PageMetas, MaxLinks)
      /\ page.title \in {"", "t"} /\ page.article \in {"", "x"} /\ page.inline = <<"page", "other">>
    BY DEF Pages
<1>3. page.links \in Seq(PageTags) /\ page.metas \in Seq(PageMetas)
    <2>1. MaxLinks \in Nat
        BY InputsAssumption
    <2> QED BY <1>1, <2>1, Bounded
<1>4. (\A n \in DOMAIN page.links : page.links[n] \in PageTags) /\ \A n \in DOMAIN page.metas : page.metas[n] \in PageMetas
    BY <1>3, Elements
<1>5. IsPage(page)
    BY <1>3 DEF IsPage, IsSequence
<1> QED BY <1>1, <1>4, <1>5

\* A page of the model says something under a name, and that is what is found.
LEMMA PagesSay ==
    ASSUME NEW page \in Pages, NEW S, NEW names \in Seq(S)
    PROVE  MetaContent(page, names) =
               IF \E m \in DOMAIN page.metas : \E n \in DOMAIN names :
                     page.metas[m] = [key |-> names[n], content |-> "other"]
               THEN "other" ELSE ""
<1> DEFINE said == \E m \in DOMAIN page.metas : \E n \in DOMAIN names :
                      page.metas[m] = [key |-> names[n], content |-> "other"]
           found == MetaContent(page, names)
           U == {names[n] : n \in DOMAIN names}
<1>1. IsPage(page)
    BY PagesAre
<1>2. ASSUME NEW m \in DOMAIN page.metas
      PROVE  /\ page.metas[m].content \in {"", "other"}
             /\ page.metas[m] = [key |-> page.metas[m].key, content |-> page.metas[m].content]
    <2>1. page.metas[m] \in PageMetas
        BY PagesAre
    <2> QED BY <2>1 DEF PageMetas
<1>3. found # "" <=> Says(page, U)
    BY <1>1, MetaIsFound
<1>4. Says(page, U) <=> said
    <2>1. ASSUME NEW m \in DOMAIN page.metas, page.metas[m].key \in U, page.metas[m].content # "" PROVE said
        <3>1. PICK n \in DOMAIN names : page.metas[m].key = names[n]
            BY <2>1
        <3>2. page.metas[m].content = "other"
            BY <1>2, <2>1
        <3>3. page.metas[m] = [key |-> names[n], content |-> "other"]
            BY <1>2, <3>1, <3>2
        <3> QED BY <3>3
    <2>2. ASSUME NEW m \in DOMAIN page.metas, NEW n \in DOMAIN names,
                 page.metas[m] = [key |-> names[n], content |-> "other"]
          PROVE  page.metas[m].key \in U /\ page.metas[m].content # ""
        BY <2>2
    <2> HIDE DEF U
    <2> QED BY <2>1, <2>2 DEF Says
<1>5. found # "" => found = "other"
    <2> SUFFICES ASSUME found # "" PROVE found = "other"
        OBVIOUS
    <2>1. \E m \in DOMAIN page.metas : page.metas[m].content = found
        BY <1>1, MetaIsSaid
    <2> HIDE DEF found
    <2> QED BY <1>2, <2>1
<1> HIDE DEF found, said, U
<1>6. found = IF said THEN "other" ELSE ""
    BY <1>3, <1>4, <1>5
<1> QED BY <1>6 DEF found, said

\* What a page of the model says under one name, and under the two of a description.
LEMMA PagesSayThis ==
    ASSUME NEW page \in Pages
    PROVE  LET Tells(key) == \E n \in DOMAIN page.metas : page.metas[n] = [key |-> key, content |-> "other"]
           IN  /\ MetaContent(page, <<"og:image">>) = IF Tells("og:image") THEN "other" ELSE ""
               /\ MetaContent(page, <<"og:description", "description">>) =
                     IF Tells("og:description") \/ Tells("description") THEN "other" ELSE ""
<1> DEFINE Tells(key) == \E n \in DOMAIN page.metas : page.metas[n] = [key |-> key, content |-> "other"]
           one == <<"og:image">>
           two == <<"og:description", "description">>
<1>1. one \in Seq({"og:image"}) /\ DOMAIN one = {1} /\ one[1] = "og:image"
    OBVIOUS
<1>2. two \in Seq({"og:description", "description"}) /\ DOMAIN two = {1, 2}
      /\ two[1] = "og:description" /\ two[2] = "description"
    <2>1. two \in Seq({"og:description", "description"})
        BY TwoNames
    <2>2. Len(two) = 2 /\ DOMAIN two = 1 .. 2 /\ two[1] = "og:description" /\ two[2] = "description"
        OBVIOUS
    <2>3. 1 .. 2 = {1, 2}
        OBVIOUS
    <2> QED BY <2>1, <2>2, <2>3
<1> HIDE DEF one, two
<1>3. MetaContent(page, one) = IF Tells("og:image") THEN "other" ELSE ""
    <2>1. MetaContent(page, one) =
              IF \E m \in DOMAIN page.metas : \E n \in DOMAIN one :
                    page.metas[m] = [key |-> one[n], content |-> "other"]
              THEN "other" ELSE ""
        BY <1>1, PagesSay
    <2> QED BY <1>1, <2>1
<1>4. MetaContent(page, two) = IF Tells("og:description") \/ Tells("description") THEN "other" ELSE ""
    <2>1. MetaContent(page, two) =
              IF \E m \in DOMAIN page.metas : \E n \in DOMAIN two :
                    page.metas[m] = [key |-> two[n], content |-> "other"]
              THEN "other" ELSE ""
        BY <1>2, PagesSay
    <2> QED BY <1>2, <2>1
<1> QED BY <1>3, <1>4 DEF one, two

\* A page of the model becomes the item it should be, or none.
LEMMA PagesBecomeItems ==
    ASSUME NEW page \in Pages
    PROVE  LET Tells(key) == \E n \in DOMAIN page.metas : page.metas[n] = [key |-> key, content |-> "other"]
               described  == Tells("og:description") \/ Tells("description")
               canonical  == \E n \in DOMAIN page.links :
                                page.links[n] = [rel |-> "canonical", href |-> "page"]
               built      == BuildPage(page, "address", 2)
           IN  /\ built.quarantined <=> page.title = "" /\ page.article = "" /\ ~described
               /\ built.id = IF canonical THEN "page" ELSE "address"
               /\ ~built.quarantined =>
                      /\ built.text = IF page.article # "" THEN "x" ELSE IF described THEN "other" ELSE "t"
                      /\ built.images = IF Tells("og:image") THEN <<"other", "page">> ELSE <<"page", "other">>
<1> DEFINE Tells(key) == \E n \in DOMAIN page.metas : page.metas[n] = [key |-> key, content |-> "other"]
           described  == Tells("og:description") \/ Tells("description")
           pictured   == Tells("og:image")
           canonical  == \E n \in DOMAIN page.links :
                            page.links[n] = [rel |-> "canonical", href |-> "page"]
           usable     == \E n \in DOMAIN page.links :
                            page.links[n].rel = "canonical" /\ Usable(page.links[n].href)
           said       == MetaContent(page, <<"og:description", "description">>)
           image      == MetaContent(page, <<"og:image">>)
           built      == BuildPage(page, "address", 2)
           url        == IF CanonicalFrom(page) = NoUrl THEN "address" ELSE CanonicalFrom(page)
<1>1. /\ image = IF pictured THEN "other" ELSE ""
      /\ said = IF described THEN "other" ELSE ""
    BY PagesSayThis
<1>2. /\ IsPage(page) /\ page.inline = <<"page", "other">>
      /\ page.title \in {"", "t"} /\ page.article \in {"", "x"}
    BY PagesAre
<1>3. canonical <=> usable
    <2>1. ASSUME NEW n \in DOMAIN page.links
          PROVE  page.links[n] = [rel |-> "canonical", href |-> "page"] <=>
                 page.links[n].rel = "canonical" /\ Usable(page.links[n].href)
        <3>1. page.links[n] \in [rel : {"canonical", "icon"}, href : {"page", "javascript"}]
            BY PagesAre DEF PageTags
        <3>2. /\ page.links[n] = [rel |-> page.links[n].rel, href |-> page.links[n].href]
              /\ page.links[n].href \in {"page", "javascript"}
            BY <3>1
        <3>3. Usable(page.links[n].href) <=> page.links[n].href = "page"
            BY <3>2 DEF Usable
        <3> QED BY <3>2, <3>3
    <2> QED BY <2>1
<1>4. CanonicalFrom(page) = IF canonical THEN "page" ELSE NoUrl
    <2>1. /\ CanonicalFrom(page) \in {"page", "other", NoUrl}
          /\ CanonicalFrom(page) # NoUrl <=> usable
          /\ CanonicalFrom(page) # NoUrl =>
                \E n \in DOMAIN page.links : CanonicalFrom(page) = SafeAbsoluteUrl(page.links[n].href)
        BY <1>2, CanonicalIsFound
    <2>2. ASSUME NEW n \in DOMAIN page.links
          PROVE  SafeAbsoluteUrl(page.links[n].href) \in {"page", NoUrl}
        <3>1. page.links[n].href \in {"page", "javascript"}
            BY PagesAre DEF PageTags
        <3> QED BY <3>1 DEF SafeAbsoluteUrl
    <2> HIDE DEF usable, canonical
    <2> QED BY <1>3, <2>1, <2>2
<1>5. built.id = url
    <2> DEFINE text   == PickText(<<page.article, said>>)
               either == PickText(<<page.title, url>>)
               other  == PickText(<<text, page.title>>)
               images == WebImages(page, 2)
    <2>1. built = IF page.title = "" /\ text = ""
                  THEN [quarantined |-> TRUE, id |-> url]
                  ELSE [quarantined |-> FALSE, id |-> url, url |-> url, title |-> either, text |-> other,
                        images |-> images]
        BY DEF BuildPage
    <2> HIDE DEF text, either, other, images, url, built
    <2> QED BY <2>1
<1>6. built.quarantined <=> page.title = "" /\ page.article = "" /\ ~described
    <2>1. built.quarantined <=> page.title = "" /\ page.article = ""
                                /\ ~Says(page, {"og:description", "description"})
        <3>1. "address" # ""
            OBVIOUS
        <3> QED BY <1>2, <3>1, PageIsItemUnlessEmpty
    <2>2. said # "" <=> Says(page, {"og:description", "description"})
        <3> DEFINE names == <<"og:description", "description">>
        <3>1. /\ names \in Seq({"og:description", "description"})
              /\ {names[n] : n \in DOMAIN names} = {"og:description", "description"}
            BY TwoNames
        <3> HIDE DEF names
        <3>2. MetaContent(page, names) # "" <=> Says(page, {names[n] : n \in DOMAIN names})
            BY <1>2, <3>1, MetaIsFound
        <3> QED BY <3>1, <3>2 DEF names
    <2> HIDE DEF described, said, built
    <2> QED BY <1>1, <2>1, <2>2
<1>7. ASSUME ~built.quarantined
      PROVE  /\ built.images = WebImages(page, 2)
             /\ built.text = IF page.article # "" THEN page.article ELSE IF said # "" THEN said ELSE page.title
    BY <1>7, PageParts
<1>8. WebImages(page, 2) = IF pictured THEN <<"other", "page">> ELSE <<"page", "other">>
    <2> DEFINE refs == PageReferences(page)
               first == IF image = "" THEN "absent" ELSE image
               images == WebImages(page, 2)
    <2>1. Listed(images, refs, Len(refs), 2)
        <3>1. IsSequence(page.inline)
            <4>1. <<"page", "other">> \in Seq({"page", "other"})
                BY TwoNames
            <4> QED BY <1>2, <4>1 DEF IsSequence
        <3> QED BY <3>1, ImagesAreListed
    <2>2. refs = <<first>> \o <<"page", "other">>
        BY <1>2 DEF PageReferences
    <2> HIDE DEF refs, images, first
    <2>3. Len(refs) = 3 /\ refs[1] = first /\ refs[2] = "page" /\ refs[3] = "other"
        <3> DEFINE a == <<first>>
                   b == <<"page", "other">>
                   T == {first, "page", "other"}
        <3>1. /\ Len(a) = 1 /\ a[1] = first /\ Len(b) = 2 /\ b[1] = "page" /\ b[2] = "other"
              /\ a \in Seq(T) /\ b \in Seq(T)
            OBVIOUS
        <3>2. refs = a \o b
            BY <2>2
        <3> HIDE DEF a, b, T
        <3>3. /\ Len(a \o b) = Len(a) + Len(b)
              /\ \A m \in 1 .. Len(a) : (a \o b)[m] = a[m]
              /\ \A m \in 1 .. Len(b) : (a \o b)[Len(a) + m] = b[m]
            BY <3>1, Joined
        <3>4. 1 \in 1 .. 1 /\ 1 \in 1 .. 2 /\ 2 \in 1 .. 2 /\ 1 + 1 = 2 /\ 1 + 2 = 3
            OBVIOUS
        <3> QED BY <3>1, <3>2, <3>3, <3>4
    <2>4. /\ SafeAbsoluteUrl("other") = "other" /\ SafeAbsoluteUrl("page") = "page"
          /\ SafeAbsoluteUrl("absent") = NoUrl
          /\ "other" \in Urls /\ "page" \in Urls /\ "other" # "page"
        BY DEF SafeAbsoluteUrl, Urls
    <2>5. /\ 3 \in Nat /\ 1 \in 1 .. 3 /\ 2 \in 1 .. 3 /\ 3 \in 1 .. 3 /\ 1 < 2 /\ 2 < 3
          /\ (\A l \in 1 .. 3 - 1 : l = 1 \/ l = 2) /\ (\A l \in 1 .. 2 - 1 : l = 1)
          /\ \A l \in 1 .. 1 - 1 : FALSE
        OBVIOUS
    <2>6. Listed(images, refs, 3, 2)
        BY <2>1, <2>3
    <2>7. CASE pictured
        <3>1. first = "other"
            BY <1>1, <2>7 DEF first
        <3>2. SafeAbsoluteUrl(refs[1]) = "other" /\ SafeAbsoluteUrl(refs[2]) = "page"
            BY <2>3, <2>4, <3>1
        <3>3. /\ \A l \in 1 .. 2 - 1 : SafeAbsoluteUrl(refs[l]) \in {NoUrl, "other"}
              /\ \A l \in 1 .. 1 - 1 : SafeAbsoluteUrl(refs[l]) = NoUrl
            BY <2>5, <3>2
        <3>4. images = <<"other", "page">>
            BY <2>4, <2>5, <2>6, <3>2, <3>3, TwoImages
        <3> QED BY <2>7, <3>4 DEF images
    <2>8. CASE ~ pictured
        <3>1. first = "absent"
            BY <1>1, <2>8 DEF first
        <3>2. SafeAbsoluteUrl(refs[1]) = NoUrl /\ SafeAbsoluteUrl(refs[2]) = "page"
              /\ SafeAbsoluteUrl(refs[3]) = "other"
            BY <2>3, <2>4, <3>1
        <3>3. /\ \A l \in 1 .. 3 - 1 : SafeAbsoluteUrl(refs[l]) \in {NoUrl, "page"}
              /\ \A l \in 1 .. 2 - 1 : SafeAbsoluteUrl(refs[l]) = NoUrl
            BY <2>5, <3>2
        <3>4. images = <<"page", "other">>
            BY <2>4, <2>5, <2>6, <3>2, <3>3, TwoImages
        <3> QED BY <2>8, <3>4 DEF images
    <2> QED BY <2>7, <2>8
<1> HIDE DEF built, described, canonical, pictured, said, image
<1>9. /\ built.quarantined <=> page.title = "" /\ page.article = "" /\ ~described
      /\ built.id = IF canonical THEN "page" ELSE "address"
      /\ ~built.quarantined =>
             /\ built.text = IF page.article # "" THEN "x" ELSE IF described THEN "other" ELSE "t"
             /\ built.images = IF pictured THEN <<"other", "page">> ELSE <<"page", "other">>
    <2>1. built.id = IF canonical THEN "page" ELSE "address"
        BY <1>4, <1>5 DEF NoUrl
    <2>2. ~built.quarantined =>
              built.text = IF page.article # "" THEN "x" ELSE IF described THEN "other" ELSE "t"
        BY <1>1, <1>2, <1>6, <1>7
    <2> QED BY <1>6, <1>7, <1>8, <2>1, <2>2
<1> QED BY <1>9 DEF built, described, canonical, pictured

\* What becomes an item, of a feed and of a page, with what author, date and images, and
\* what is quarantined.
THEOREM ItemsAreReadable == InputSpec => []ItemIffReadable
<1> DEFINE Inv == (kind = "entry" => input \in Entries) /\ (kind = "page" => input \in Pages)
<1>1. InputInit => Inv
    BY DEF InputInit
<1>2. Inv /\ [AddPiece]_<<kind, input>> => Inv'
    BY DEF AddPiece
<1>3. Inv => EntryIsItem
    <2> SUFFICES ASSUME Inv, kind = "entry" PROVE EntryIsItem
        BY DEF EntryIsItem
    <2>1. input \in Entries /\ \A maxImages \in 1 .. 2 : maxImages \in Nat
        OBVIOUS
    <2> QED BY <2>1, EntriesBecomeItems DEF EntryIsItem
<1>4. Inv => PageIsItem
    <2> SUFFICES ASSUME Inv, kind = "page" PROVE PageIsItem
        BY DEF PageIsItem
    <2>1. input \in Pages
        OBVIOUS
    <2> QED BY <2>1, PagesBecomeItems DEF PageIsItem
<1>5. Inv => ItemIffReadable
    BY <1>3, <1>4 DEF ItemIffReadable
<1> QED BY <1>1, <1>2, <1>5, PTL DEF InputSpec
-----------------------------------------------------------------------------
(***************************************************************************)
(* Job ids.                                                                *)
(***************************************************************************)

\* Single elements, put one after the other. The library flattens by a recursive function,
\* which takes the beginnings of the sequence one after the other.
LEMMA OneByOne ==
    ASSUME NEW T, NEW s \in Seq(T)
    PROVE  FlattenSeq([n \in 1 .. Len(s) |-> <<s[n]>>]) = s
<1> DEFINE seqs == [n \in 1 .. Len(s) |-> <<s[n]>>]
           N == Len(s)
           Upto(i) == [n \in 1 .. i |-> s[n]]
           g == [i \in 1 .. N |-> Upto(i)]
           Eq(f) == f = [i \in 1 .. N |-> IF i = 1 THEN seqs[i] ELSE f[i - 1] \o seqs[i]]
           h == CHOOSE f : Eq(f)
<1>1. N \in Nat /\ seqs \in Seq(Seq(T)) /\ Len(seqs) = N /\ \A n \in 1 .. N : seqs[n] = <<s[n]>> /\ s[n] \in T
    OBVIOUS
<1>2. CASE N = 0
    BY <1>1, <1>2 DEF FlattenSeq
<1>3. CASE N # 0
    <2>1. FlattenSeq(seqs) = h[N]
        <3> HIDE DEF seqs
        <3> QED BY <1>1, <1>3 DEF FlattenSeq
    <2>2. Eq(g)
        <3>1. \A i \in 1 .. N : g[i] = IF i = 1 THEN seqs[i] ELSE g[i - 1] \o seqs[i]
            <4> SUFFICES ASSUME NEW i \in 1 .. N
                         PROVE  Upto(i) = IF i = 1 THEN seqs[i] ELSE g[i - 1] \o seqs[i]
                OBVIOUS
            <4>1. CASE i = 1
                BY <1>1, <4>1
            <4>2. CASE i # 1
                <5>1. i - 1 \in 1 .. N /\ g[i - 1] = Upto(i - 1)
                    BY <1>1, <4>2
                <5>2. Upto(i - 1) \in Seq(T) /\ Len(Upto(i - 1)) = i - 1
                    BY <1>1, <4>2
                <5>3. Upto(i - 1) \o <<s[i]>> = Upto(i)
                    BY <1>1, <4>2, <5>2
                <5> QED BY <1>1, <4>2, <5>1, <5>3
            <4> QED BY <4>1, <4>2
        <3> QED BY <3>1
    <2>3. Eq(h)
        BY <2>2
    <2> HIDE DEF h, g
    <2>4. \A i \in 1 .. N : h[i] = IF i = 1 THEN seqs[i] ELSE h[i - 1] \o seqs[i]
        BY <2>3
    <2>5. \A i \in 1 .. N : h[i] = Upto(i)
        <3> DEFINE U == {i \in 1 .. N : h[i] # Upto(i)}
        <3>1. ASSUME U # {} PROVE FALSE
            <4>1. PICK i \in U : \A j \in U : i <= j
                <5>1. U \subseteq Nat
                    BY <1>1
                <5> HIDE DEF U
                <5> QED BY <3>1, <5>1, LeastPosition
            <4>2. i \in 1 .. N /\ h[i] # Upto(i)
                OBVIOUS
            <4>3. CASE i = 1
                <5>1. h[1] = seqs[1]
                    BY <1>1, <2>4, <4>2, <4>3
                <5>2. Upto(1) = <<s[1]>>
                    BY <1>1, <4>2, <4>3
                <5> QED BY <1>1, <4>2, <4>3, <5>1, <5>2
            <4>4. CASE i # 1
                <5>1. i - 1 \in 1 .. N /\ ~ i <= i - 1
                    BY <1>1, <4>2, <4>4
                <5>2. h[i - 1] = Upto(i - 1)
                    BY <4>1, <5>1
                <5>3. Upto(i - 1) \in Seq(T) /\ Len(Upto(i - 1)) = i - 1
                    BY <1>1, <5>1
                <5>4. Upto(i - 1) \o <<s[i]>> = Upto(i)
                    BY <1>1, <5>1, <5>3
                <5>5. h[i] = h[i - 1] \o seqs[i] /\ seqs[i] = <<s[i]>>
                    BY <1>1, <2>4, <4>2, <4>4
                <5> QED BY <4>2, <5>2, <5>4, <5>5
            <4> QED BY <4>3, <4>4
        <3> QED BY <3>1
    <2>6. Upto(N) = s
        BY <1>1
    <2>7. N \in 1 .. N
        BY <1>1, <1>3
    <2>8. h[N] = s
        <3> HIDE DEF Upto
        <3> QED BY <2>5, <2>6, <2>7
    <2> QED BY <2>1, <2>8
<1> QED BY <1>2, <1>3

\* No underscores.
Plain(key) == \A n \in DOMAIN key : key[n] # "_"

\* What becomes of a key without underscores: each of its colons is one.
LEMMA PlainKeys ==
    ASSUME NEW T, NEW key \in Seq(T), Plain(key)
    PROVE  ToJobId(key) = [n \in DOMAIN key |-> IF key[n] = ":" THEN "_" ELSE key[n]]
<1> DEFINE id == [n \in DOMAIN key |-> IF key[n] = ":" THEN "_" ELSE key[n]]
<1>1. id \in Seq(T \cup {"_"}) /\ DOMAIN id = 1 .. Len(id) /\ DOMAIN id = DOMAIN key
    <2>1. Len(key) \in Nat /\ DOMAIN key = 1 .. Len(key) /\ \A n \in DOMAIN key : key[n] \in T
        OBVIOUS
    <2>2. id \in [1 .. Len(key) -> T \cup {"_"}]
        BY <2>1
    <2> HIDE DEF id
    <2> QED BY <2>1, <2>2, IndexedBy
<1>2. \A n \in DOMAIN key : Encoded(key[n]) = <<id[n]>>
    BY DEF Plain, Encoded
<1>3. ToJobId(key) = FlattenSeq([n \in 1 .. Len(id) |-> <<id[n]>>])
    <2> HIDE DEF id
    <2>1. [n \in DOMAIN key |-> Encoded(key[n])] = [n \in 1 .. Len(id) |-> <<id[n]>>]
        BY <1>1, <1>2
    <2> QED BY <2>1 DEF ToJobId
<1>4. ToJobId(key) = id
    <2> HIDE DEF id
    <2> QED BY <1>1, <1>3, OneByOne
<1> QED BY <1>4

\* Two keys without underscores never share a job id.
THEOREM PlainKeysKeepApart ==
    ASSUME NEW T, NEW k \in Seq(T), NEW l \in Seq(T), Plain(k), Plain(l), ToJobId(k) = ToJobId(l)
    PROVE  k = l
<1> DEFINE Id(key) == [n \in DOMAIN key |-> IF key[n] = ":" THEN "_" ELSE key[n]]
<1>1. Id(k) = Id(l)
    BY PlainKeys
<1>2. DOMAIN k = DOMAIN l
    <2>1. DOMAIN Id(k) = DOMAIN k /\ DOMAIN Id(l) = DOMAIN l
        OBVIOUS
    <2> HIDE DEF Id
    <2> QED BY <1>1, <2>1
<1>3. ASSUME NEW n \in DOMAIN k PROVE k[n] = l[n]
    <2>1. Id(k)[n] = Id(l)[n]
        BY <1>1
    <2>2. k[n] # "_" /\ l[n] # "_"
        BY <1>2 DEF Plain
    <2> QED BY <1>2, <2>1, <2>2
<1> QED BY <1>2, <1>3

\* A probe is filed under the job id of its key, and every probe asked for has a job, be
\* it another's.
ProbesAreFiled ==
    /\ asked \subseteq ProbeIds
    /\ \A id \in DOMAIN held : held[id] \in asked /\ ToJobId(HealthProbeKey(held[id])) = id
    /\ \A probeId \in asked : ToJobId(HealthProbeKey(probeId)) \in DOMAIN held

\* Filing a probe keeps the others where they are.
LEMMA ProbesStayFiled ==
    ASSUME ProbesAreFiled, NEW probeId \in ProbeIds, EnqueueProbe(probeId)
    PROVE  ProbesAreFiled'
<1> DEFINE jobId == ToJobId(HealthProbeKey(probeId))
<1>1. asked' = asked \cup {probeId}
    BY DEF EnqueueProbe
<1>2. CASE jobId \in DOMAIN held
    <2>1. held' = held
        BY <1>2 DEF EnqueueProbe
    <2> QED BY <1>1, <1>2, <2>1 DEF ProbesAreFiled
<1>3. CASE jobId \notin DOMAIN held
    <2>1. held' = [id \in DOMAIN held \cup {jobId} |-> IF id = jobId THEN probeId ELSE held[id]]
        BY <1>3 DEF EnqueueProbe
    <2>2. jobId = ToJobId(HealthProbeKey(probeId))
        OBVIOUS
    <2> HIDE DEF jobId
    <2>3. DOMAIN held' = DOMAIN held \cup {jobId} /\ held'[jobId] = probeId
        BY <2>1
    <2>4. \A id \in DOMAIN held : held'[id] = held[id]
        BY <1>3, <2>1
    <2> QED BY <1>1, <2>2, <2>3, <2>4 DEF ProbesAreFiled
<1> QED BY <1>2, <1>3

\* Keys of probes differ where their probes do, and have underscores only where they have.
LEMMA ProbeKeys ==
    ASSUME MaxLength \in Nat, NEW p \in ProbeIds, Plain(p)
    PROVE  /\ HealthProbeKey(p) \in Seq(Characters \cup {"health-probe", ":"})
           /\ Plain(HealthProbeKey(p))
           /\ p \in Seq(Characters) /\ Len(HealthProbeKey(p)) = Len(p) + 2
           /\ \A n \in 1 .. Len(p) : HealthProbeKey(p)[n + 2] = p[n]
<1> DEFINE T == Characters \cup {"health-probe", ":"}
           key == HealthProbeKey(p)
<1>1. PICK n \in 1 .. MaxLength : p \in [1 .. n -> Characters]
    BY DEF ProbeIds
<1>2. p \in Seq(Characters) /\ p \in Seq(T) /\ DOMAIN p = 1 .. Len(p) /\ Len(p) \in Nat
    BY <1>1
<1>3. Prefix \in Seq(T) /\ Len(Prefix) = 2 /\ Prefix[1] = "health-probe" /\ Prefix[2] = ":"
    BY DEF Prefix
<1>4. /\ key \in Seq(T) /\ Len(key) = Len(p) + 2 /\ DOMAIN key = 1 .. Len(p) + 2
      /\ key[1] = "health-probe" /\ key[2] = ":" /\ \A m \in 1 .. Len(p) : key[m + 2] = p[m]
    <2> HIDE DEF T
    <2>1. key = Prefix \o p
        BY DEF HealthProbeKey
    <2>2. key \in Seq(T)
        BY <1>2, <1>3, <2>1
    <2>3. /\ Len(key) = Len(Prefix) + Len(p)
          /\ \A m \in 1 .. Len(Prefix) : key[m] = Prefix[m]
          /\ \A m \in 1 .. Len(p) : key[Len(Prefix) + m] = p[m]
        <3> HIDE DEF key
        <3>1. Prefix \in Seq(T) /\ p \in Seq(T)
            BY <1>2, <1>3
        <3>2. /\ Len(Prefix \o p) = Len(Prefix) + Len(p)
              /\ \A m \in 1 .. Len(Prefix) : (Prefix \o p)[m] = Prefix[m]
              /\ \A m \in 1 .. Len(p) : (Prefix \o p)[Len(Prefix) + m] = p[m]
            BY <3>1, Joined
        <3> QED BY <2>1, <3>2, Zenon
    <2> HIDE DEF key
    <2>4. Len(key) = Len(p) + 2 /\ DOMAIN key = 1 .. Len(p) + 2
        BY <1>2, <1>3, <2>2, <2>3
    <2>5. key[1] = Prefix[1] /\ key[2] = Prefix[2]
        BY <1>3, <2>3
    <2>6. ASSUME NEW m \in 1 .. Len(p) PROVE key[m + 2] = p[m]
        <3>1. Len(Prefix) + m = m + 2
            BY <1>2, <1>3
        <3> QED BY <2>3, <3>1
    <2> QED BY <1>3, <2>2, <2>4, <2>5, <2>6
<1> HIDE DEF key
<1>5. ASSUME NEW m \in DOMAIN key PROVE key[m] # "_"
    <2>1. CASE m = 1 \/ m = 2
        BY <1>4, <2>1
    <2>2. CASE ~ (m = 1 \/ m = 2)
        <3>1. m - 2 \in 1 .. Len(p) /\ (m - 2) + 2 = m
            BY <1>2, <1>4, <2>2
        <3>2. key[m] = p[m - 2]
            BY <1>4, <3>1
        <3> QED BY <1>2, <3>1, <3>2 DEF Plain
    <2> QED BY <2>1, <2>2
<1> QED BY <1>2, <1>4, <1>5 DEF key, Plain

\* DistinctKeysDistinctJobs for the probe ids that have no underscore: as long as no
\* other is asked for, every probe is the payload of the job its id names, in whatever
\* order and however often the probes are asked for. (Job ids of one and the same text
\* need an underscore in one of the keys; job_keys shows such a pair.)
THEOREM PlainProbesKeepTheirJobs ==
    ASSUME MaxLength \in Nat
    PROVE  Spec => []((\A probeId \in asked : Plain(probeId)) => DistinctKeysDistinctJobs)
<1>1. Init => ProbesAreFiled
    <2> SUFFICES ASSUME Init PROVE ProbesAreFiled
        OBVIOUS
    <2>1. asked = {} /\ DOMAIN held = {}
        BY DEF Init
    <2> QED BY <2>1 DEF ProbesAreFiled
<1>2. ProbesAreFiled /\ [Next]_vars => ProbesAreFiled'
    <2> SUFFICES ASSUME ProbesAreFiled, [Next]_vars PROVE ProbesAreFiled'
        OBVIOUS
    <2>1. CASE Next
        BY <2>1, ProbesStayFiled DEF Next
    <2>2. CASE UNCHANGED vars
        BY <2>2 DEF vars, ProbesAreFiled
    <2> QED BY <2>1, <2>2
<1>3. ProbesAreFiled => ((\A probeId \in asked : Plain(probeId)) => DistinctKeysDistinctJobs)
    <2> SUFFICES ASSUME ProbesAreFiled, \A probeId \in asked : Plain(probeId), NEW p \in asked
                 PROVE  held[ToJobId(HealthProbeKey(p))] = p
        BY DEF DistinctKeysDistinctJobs
    <2> DEFINE q == held[ToJobId(HealthProbeKey(p))]
    <2>1. /\ q \in asked /\ ToJobId(HealthProbeKey(q)) = ToJobId(HealthProbeKey(p))
          /\ p \in ProbeIds /\ q \in ProbeIds /\ Plain(p) /\ Plain(q)
        BY DEF ProbesAreFiled
    <2> HIDE DEF q
    <2>2. HealthProbeKey(p) = HealthProbeKey(q)
        <3>1. Plain(HealthProbeKey(p)) /\ Plain(HealthProbeKey(q))
            BY <2>1, ProbeKeys
        <3>2. /\ HealthProbeKey(p) \in Seq(Characters \cup {"health-probe", ":"})
              /\ HealthProbeKey(q) \in Seq(Characters \cup {"health-probe", ":"})
            BY <2>1, ProbeKeys
        <3> QED BY <2>1, <3>1, <3>2, PlainKeysKeepApart
    <2>3. p \in Seq(Characters) /\ q \in Seq(Characters) /\ Len(p) = Len(q)
        <3>1. Len(HealthProbeKey(p)) = Len(p) + 2 /\ Len(HealthProbeKey(q)) = Len(q) + 2
            BY <2>1, ProbeKeys
        <3>2. p \in Seq(Characters) /\ q \in Seq(Characters)
            BY <2>1, ProbeKeys
        <3>3. Len(p) \in Nat /\ Len(q) \in Nat
            BY <3>2
        <3> QED BY <2>2, <3>1, <3>2, <3>3
    <2>4. ASSUME NEW n \in 1 .. Len(p) PROVE p[n] = q[n]
        <3>1. HealthProbeKey(p)[n + 2] = p[n]
            BY <2>1, ProbeKeys
        <3>2. HealthProbeKey(q)[n + 2] = q[n]
            BY <2>1, <2>3, ProbeKeys
        <3> QED BY <2>2, <3>1, <3>2
    <2>5. p = q
        BY <2>3, <2>4
    <2> QED BY <2>5 DEF q
<1> QED BY <1>1, <1>2, <1>3, PTL DEF Spec
=============================================================================
