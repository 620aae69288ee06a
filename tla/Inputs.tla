------------------------------- MODULE Inputs -------------------------------
(***************************************************************************)
(* The inputs of the algorithms that take no markup, and what their        *)
(* results should be, by definitions that do not go through an input in    *)
(* order: an entry of a feed, a page, a link, or the pieces of a text,     *)
(* which come one by one.                                                  *)
(***************************************************************************)
EXTENDS FeedEntries, SharedText

CONSTANTS MaxLinks,    \* bound: link and meta tags of an entry or a page
          MaxNames,    \* bound: names of query parameters that do not track
          MaxValues,   \* bound: values of a query parameter
          MaxParams,   \* bound: query parameters of a link
          MaxTokens,   \* bound: different terms
          MaxPieces    \* bound: pieces of a text

ASSUME InputsAssumption ==
    {MaxLinks, MaxNames, MaxValues, MaxParams, MaxTokens, MaxPieces} \subseteq Nat

VARIABLES kind, input
-----------------------------------------------------------------------------
EntryTags == [rel : {"absent", "alternate", "self"}, href : {"absent", "page#part", "other", "garbage"}]

EntryTexts == {"", "x"} \X {""} \X {"", "y"} \X {""}

\* What there is besides its images, of one author and date.
PlainEntries ==
    [linkText : {"empty", "page", "javascript", "credentials"}, links : BoundedSeq(EntryTags, MaxLinks),
     title : {"", "t"}, texts : EntryTexts, guid : {"", "g"}, id : {"", "i"}, dates : {<<"d">>},
     authorName : {""}, authorText : {""}, creator : {"c"}, enclosures : {<<>>}, media : {<<>>},
     inline : {<<"other", "page", "page#part">>}]

\* The same link and text, and any authors and dates or any images.
Alike(authors, dates, enclosures, media, inline) ==
    [linkText : {"page"}, links : {<<>>}, title : {"t"}, texts : {<<"x", "", "", "">>}, guid : {"g"},
     id : {""}, dates : dates, authorName : {"", "n"} \cap authors, authorText : {"", "a"} \cap authors,
     creator : {"", "c"} \cap authors, enclosures : enclosures, media : media, inline : inline]

SignedEntries == Alike({"", "n", "a", "c"}, BoundedSeq({"", "bad", "d", "e"}, MaxLinks), {<<>>}, {<<>>}, {<<>>})

IllustratedEntries ==
    Alike({""}, {<<"d">>},
           BoundedSeq([image : BOOLEAN, url : {"page#part", "javascript"}], MaxLinks),
           BoundedSeq([thumbnail : BOOLEAN, image : BOOLEAN, url : {"other"}], MaxLinks),
           BoundedSeq({"other", "page"}, MaxLinks))

Entries == PlainEntries \cup SignedEntries \cup IllustratedEntries

PageTags == [rel : {"canonical", "icon"}, href : {"page", "javascript"}]

PageMetas == [key : {"og:description", "description", "og:image"}, content : {"", "other"}]

Pages == [title : {"", "t"}, article : {"", "x"}, inline : {<<"page", "other">>},
          links : BoundedSeq(PageTags, MaxLinks), metas : BoundedSeq(PageMetas, MaxLinks)]

\* The parameters of name 0 track.
Parameters == (0 .. MaxNames) \X (1 .. MaxValues)

NoLink == [parses |-> FALSE, www |-> FALSE, slashes |-> 0, fragment |-> FALSE, params |-> <<>>]

Links == [parses : {TRUE}, www : BOOLEAN, slashes : 0 .. 2, fragment : BOOLEAN,
          params : BoundedSeq(Parameters, MaxParams)] \cup {NoLink}

Pieces == [kind : {"name", "word"}, token : 0 .. MaxTokens] \cup {[kind |-> "stop", token |-> 0]}

InputInit == \/ kind = "entry" /\ input \in Entries
             \/ kind = "page" /\ input \in Pages
             \/ kind = "link" /\ input \in Links
             \/ kind = "text" /\ input = <<>>

AddPiece == /\ kind = "text" /\ Len(input) < MaxPieces
            /\ \E piece \in Pieces : input' = Append(input, piece)
            /\ UNCHANGED kind

InputSpec == InputInit /\ [][AddPiece]_<<kind, input>>
-----------------------------------------------------------------------------
(***************************************************************************)
(* Properties.                                                             *)
(***************************************************************************)

\* The addresses that are usable.
Urls == {"page", "other"}

\* The image list of the first k references: usable addresses in the order in which they
\* appear first, each once, none left out before the limit is reached.
Listed(images, refs, k, maxImages) ==
    /\ images \in Seq(Urls) /\ Len(images) <= maxImages
    /\ \A n \in DOMAIN images : \E m \in 1 .. k :
          /\ SafeAbsoluteUrl(refs[m]) = images[n]
          /\ \A l \in 1 .. m - 1 : \/ SafeAbsoluteUrl(refs[l]) = NoUrl
                                   \/ \E i \in 1 .. n - 1 : images[i] = SafeAbsoluteUrl(refs[l])
    /\ \A m, n \in DOMAIN images : images[m] = images[n] => m = n
    /\ \/ Len(images) = maxImages
       \/ \A l \in 1 .. k : \/ SafeAbsoluteUrl(refs[l]) = NoUrl
                            \/ Contains(images, SafeAbsoluteUrl(refs[l]))

\* What an entry refers to, in the order in which it is looked at.
EntryReferences(entry) ==
    [n \in DOMAIN entry.enclosures |->
        IF entry.enclosures[n].image THEN entry.enclosures[n].url ELSE "absent"] \o
    [n \in DOMAIN entry.media |->
        IF entry.media[n].thumbnail \/ entry.media[n].image THEN entry.media[n].url ELSE "absent"] \o
    entry.inline

\* position is that of the first of the candidates that is not among the useless ones.
IsFirst(position, candidates, useless) ==
    /\ position \in DOMAIN candidates /\ candidates[position] \notin useless
    /\ \A n \in DOMAIN candidates : n < position => candidates[n] \in useless

\* The answer of a search: the first that is of use, or the default.
IsFirstOf(answer, candidates, useless, default) ==
    \/ answer = default /\ \A n \in DOMAIN candidates : candidates[n] \in useless
    \/ \E n \in DOMAIN candidates : IsFirst(n, candidates, useless) /\ answer = candidates[n]

\* An entry becomes an item exactly when one of its links is a usable address
\* and there is any text in it, and its identity does not depend on which link
\* was used when it has an id of its own; its date is the first that can be read,
\* and its images are what it refers to, each once, as far as the limit goes.
EntryIsItem ==
    kind = "entry" => \A maxImages \in 1 .. 2 :
        LET usable  == {"page", "page#part", "other"}
            linked  == \/ input.linkText \in usable
                       \/ \E n \in DOMAIN input.links :
                             input.links[n].rel # "self" /\ input.links[n].href \in usable
            written == input.title # "" \/ \E n \in DOMAIN input.texts : input.texts[n] # ""
            built   == BuildEntry(input, maxImages)
        IN  /\ ~built.quarantined <=> linked /\ written
            /\ ~built.quarantined =>
                    /\ built.id = IF input.guid # "" THEN "g" ELSE IF input.id # "" THEN "i" ELSE built.url
                    /\ built.url \in Urls /\ built.text # "" /\ built.title # ""
                    /\ IsFirstOf(built.author, <<input.authorName, input.authorText, input.creator>>, {""}, "")
                    /\ IsFirstOf(built.publishedAt, input.dates, {"", "bad"}, "")
                    /\ Listed(built.images, EntryReferences(input), Len(EntryReferences(input)), maxImages)

\* A page becomes an item unless it has neither title nor text; its description
\* stands in for a missing text, the Open Graph one first wherever it is, and its
\* identity is a canonical link that is usable, or the address it was read from.
PageIsItem ==
    kind = "page" =>
        LET Says(key)  == \E n \in DOMAIN input.metas : input.metas[n] = [key |-> key, content |-> "other"]
            described  == Says("og:description") \/ Says("description")
            canonical  == \E n \in DOMAIN input.links :
                             input.links[n] = [rel |-> "canonical", href |-> "page"]
            built      == BuildPage(input, "address", 2)
        IN  /\ built.quarantined <=> input.title = "" /\ input.article = "" /\ ~described
            /\ built.id = IF canonical THEN "page" ELSE "address"
            /\ ~built.quarantined =>
                   /\ built.text = IF input.article # "" THEN "x" ELSE IF described THEN "other" ELSE "t"
                   /\ built.images = IF Says("og:image") THEN <<"other", "page">> ELSE <<"page", "other">>

\* What becomes an item, of a feed and of a page, with what author, date and images, and
\* what is quarantined.
ItemIffReadable == EntryIsItem /\ PageIsItem

\* How often an element is in a sequence.
Occurrences(sequence, e) == Cardinality({n \in DOMAIN sequence : sequence[n] = e})

\* What a link means: its parameters that do not track, and how often each is there.
Meaning(url) ==
    <<url.parses,
      [p \in {q \in ToSet(url.params) : q[1] \notin Tracking} |-> Occurrences(url.params, p)]>>

\* Two links have one canonical form exactly when they differ in nothing but
\* "www.", trailing slashes, the fragment, tracking parameters and the order of
\* the others.
CanonicalIffSameAddress ==
    kind = "link" =>
        \A other \in Links : CanonicalizeUrl(input) = CanonicalizeUrl(other)
                             <=> Meaning(input) = Meaning(other)

\* The topics of a text do not depend on the order of its pieces, whatever the limit
\* cuts off; nor do its entities, as long as a name still opens a sentence where it did.
RankingIgnoresOrder ==
    kind = "text" =>
        \A order \in Bijection(DOMAIN input, DOMAIN input), limit \in 0 .. MaxPieces :
            LET shuffled == [n \in DOMAIN input |-> input[order[n]]]
                opensAlike == \A n \in DOMAIN input : shuffled[n].kind = "name" =>
                                  (OpensSentence(shuffled, n) <=> OpensSentence(input, order[n]))
            IN  /\ ExtractTopics(shuffled, limit) = ExtractTopics(input, limit)
                /\ opensAlike => ExtractEntities(shuffled, limit) = ExtractEntities(input, limit)
=============================================================================
