---------------------------- MODULE FeedEntries ----------------------------
(***************************************************************************)
(* What the adapters make of the elements the scanner finds: the entry of  *)
(* a feed (rss-source.adapter.ts, buildEntry and its helpers) and the page *)
(* (web-source.adapter.ts). Texts are clean already ("" for no element or  *)
(* an empty one); a reference is one of References, absent attributes are  *)
(* "absent".                                                               *)
(***************************************************************************)
EXTENDS Naturals, SequencesExt

\* References as found in a document: two spellings of one address, addresses
\* of other schemes, with credentials, and what no URL parser takes.
References == {"absent", "empty", "page", "page#part", "other", "javascript", "credentials", "garbage"}

NoUrl == "none"

\* safeAbsoluteUrl: http and https without credentials, the fragment dropped.
SafeAbsoluteUrl(reference) ==
    CASE reference \in {"page", "page#part"} -> "page"
      [] reference = "other" -> "other"
      [] OTHER -> NoUrl

\* The first of some candidates that is usable, or a default.
FirstUsable(candidates, Usable(_), default) ==
    LET n == SelectInSeq(candidates, Usable)
    IN  IF n = 0 THEN default ELSE candidates[n]

\* Mutant: a link element with any text settles the matter.
EntryLinkFromText(entry) ==
    IF entry.linkText # "empty" THEN SafeAbsoluteUrl(entry.linkText)
    ELSE FirstUsable([n \in DOMAIN entry.links |->
                         IF entry.links[n].rel \in {"absent", "alternate"}
                         THEN SafeAbsoluteUrl(entry.links[n].href) ELSE NoUrl],
                     LAMBDA url : url # NoUrl, NoUrl)

\* entryLink: the text of the first link element, or else the first link tag
\* that is an alternate, or says nothing, and has a usable address.
EntryLink(entry) ==
    LET fromText == SafeAbsoluteUrl(entry.linkText)
        fromTags == [n \in DOMAIN entry.links |->
                        IF entry.links[n].rel \in {"absent", "alternate"}
                        THEN SafeAbsoluteUrl(entry.links[n].href) ELSE NoUrl]
    IN  IF fromText # NoUrl THEN fromText
        ELSE FirstUsable(fromTags, LAMBDA url : url # NoUrl, NoUrl)

\* pickText: the first of content:encoded, description, summary and content
\* that has any text.
PickText(texts) == FirstUsable(texts, LAMBDA t : t # "", "")

\* entryAuthor: the name in the author element, its text, or dc:creator.
EntryAuthor(entry) == PickText(<<entry.authorName, entry.authorText, entry.creator>>)

\* entryPublishedAt: the first date that can be read; "" and "bad" cannot.
EntryPublishedAt(entry) == FirstUsable(entry.dates, LAMBDA d : d \notin {"", "bad"}, "")

\* add, of entryImages and webImages: usable addresses, each once, up to a limit.
AddImage(images, reference, maxImages) ==
    LET url == SafeAbsoluteUrl(reference)
    IN  IF Len(images) >= maxImages \/ url = NoUrl \/ Contains(images, url)
        THEN images ELSE Append(images, url)

Images(references, maxImages) ==
    FoldLeft(LAMBDA images, r : AddImage(images, r, maxImages), <<>>, references)

\* entryImages: image enclosures, then media elements that are thumbnails or
\* images, then inline images, in the order of each.
EntryImages(entry, maxImages) ==
    Images([n \in DOMAIN entry.enclosures |->
               IF entry.enclosures[n].image THEN entry.enclosures[n].url ELSE "absent"] \o
           [n \in DOMAIN entry.media |->
               IF entry.media[n].thumbnail \/ entry.media[n].image THEN entry.media[n].url ELSE "absent"] \o
           entry.inline, maxImages)

Guid(entry) == PickText(<<entry.guid, entry.id>>)

\* buildEntry: quarantined without a usable link, and by the payload schema
\* when title and text are both empty; otherwise each stands in for the other,
\* and the link for the guid.
BuildEntry(entry, maxImages) ==
    LET url   == EntryLink(entry)
        text  == PickText(entry.texts)
        title == entry.title
        id    == IF Guid(entry) = "" THEN url ELSE Guid(entry)
    IN  IF url = NoUrl
        THEN [quarantined |-> TRUE, id |-> IF Guid(entry) = "" THEN "null" ELSE Guid(entry)]
        ELSE IF title = "" /\ text = ""
        THEN [quarantined |-> TRUE, id |-> id]
        ELSE [quarantined  |-> FALSE, id |-> id, url |-> url,
              title        |-> PickText(<<title, text>>),
              text         |-> PickText(<<text, title>>),
              author       |-> EntryAuthor(entry),
              publishedAt  |-> EntryPublishedAt(entry),
              images       |-> EntryImages(entry, maxImages)]
-----------------------------------------------------------------------------
(***************************************************************************)
(* A page.                                                                 *)
(***************************************************************************)

\* canonicalFrom: the first canonical link with a usable address.
CanonicalFrom(page) ==
    FirstUsable([n \in DOMAIN page.links |->
                    IF page.links[n].rel = "canonical" THEN SafeAbsoluteUrl(page.links[n].href) ELSE NoUrl],
                LAMBDA url : url # NoUrl, NoUrl)

\* metaContent: the wanted names in order, and for each the first tag of that
\* name with any content.
MetaContent(page, names) ==
    FirstUsable([n \in DOMAIN names |->
                    PickText([m \in DOMAIN page.metas |->
                                 IF page.metas[m].key = names[n] THEN page.metas[m].content ELSE ""])],
                LAMBDA c : c # "", "")

\* webImages: the Open Graph image, then those of the article or the page.
WebImages(page, maxImages) ==
    LET openGraph == MetaContent(page, <<"og:image">>)
    IN  Images(<<IF openGraph = "" THEN "absent" ELSE openGraph>> \o page.inline, maxImages)

\* fetch on a 200, up to the content hash: one item, or the page quarantined.
BuildPage(page, address, maxImages) ==
    LET url  == IF CanonicalFrom(page) = NoUrl THEN address ELSE CanonicalFrom(page)
        text == PickText(<<page.article, MetaContent(page, <<"og:description", "description">>)>>)
    IN  IF page.title = "" /\ text = ""
        THEN [quarantined |-> TRUE, id |-> url]
        ELSE [quarantined |-> FALSE, id |-> url, url |-> url,
              title       |-> PickText(<<page.title, url>>),
              text        |-> PickText(<<text, page.title>>),
              images      |-> WebImages(page, maxImages)]
=============================================================================
