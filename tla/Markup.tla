------------------------------- MODULE Markup -------------------------------
(***************************************************************************)
(* The markup scanner of the source adapters: safe-markup.ts.              *)
(*                                                                         *)
(* Markup is a sequence of lexemes, the pieces the scanner can tell apart: *)
(*   open   "<name"     close    "</name"   end    ">"     slash  "/"      *)
(*   comment "<!--"     uncomment "-->"     cdata "<![CDATA["              *)
(*   uncdata "]]>"      instruction "<?"    less  "<"      space   word    *)
(* A lexeme may be escaped once or more: "&lt;p" is text until it has been *)
(* decoded, "&amp;lt;p" until it has been decoded twice. Offsets in the    *)
(* code are positions here, 0 for -1.                                      *)
(***************************************************************************)
EXTENDS Naturals, SequencesExt

Lexeme(kind, name) == [kind |-> kind, name |-> name, escapes |-> 0]
Word(w)  == Lexeme("word", w)
Open(n)  == Lexeme("open", n)
Close(n) == Lexeme("close", n)
Mark(k)  == Lexeme(k, "")
Space    == Mark("space")

HiddenBlockTags == <<"script", "style", "noscript", "template", "svg", "iframe", "object", "embed">>

\* The names that begin with another: "<content" is found in "<content:encoded".
BeginsWith(name, prefix) ==
    name = prefix \/ <<name, prefix>> \in {<<"content:encoded", "content">>, <<"pre", "p">>,
                                           <<"scripting", "script">>}

Is(lexeme, kinds) == lexeme.escapes = 0 /\ lexeme.kind \in kinds

OpensAngle(lexeme)  == Is(lexeme, {"open", "close", "comment", "cdata", "instruction", "less"})
ClosesAngle(lexeme) == Is(lexeme, {"end", "uncomment", "uncdata"})

\* indexOf with a starting position.
FirstFrom(markup, from, Test(_)) == SelectInSubSeq(markup, from, Len(markup), Test)

From(markup, i) == SubSeq(markup, i, Len(markup))

\* isNameBoundary at the end of the name of an opening lexeme, when the name
\* looked for is the whole of it.
WholeName(markup, i, name) ==
    /\ markup[i].name = name
    /\ i = Len(markup) \/ Is(markup[i + 1], {"end", "slash", "space"})

-----------------------------------------------------------------------------
(***************************************************************************)
(* Scanning for elements.                                                  *)
(***************************************************************************)

\* Mutant: the shortest name wins.
MatchedShortest(lexeme, names) ==
    LET candidates == {n \in names : BeginsWith(lexeme.name, n)}
    IN  CHOOSE n \in candidates : \A other \in candidates : BeginsWith(other, n)

\* The longest of the names the lexeme begins with.
Matched(lexeme, names) ==
    LET candidates == {n \in names : BeginsWith(lexeme.name, n)}
    IN  CHOOSE n \in candidates : \A other \in candidates : BeginsWith(n, other)

\* scanOpenTags: the opening tags of these names in document order, the ones
\* inside other tags' content included. A tag without an end stops the scan.
RECURSIVE ScanOpenTags(_, _, _)
ScanOpenTags(markup, names, from) ==
    LET start == FirstFrom(markup, from,
                     LAMBDA l : Is(l, {"open"}) /\ \E n \in names : BeginsWith(l.name, n))
        name  == Matched(markup[start], names)
        end   == FirstFrom(markup, start + 1, ClosesAngle)
    IN  IF start = 0 THEN <<>>
        ELSE IF ~WholeName(markup, start, name) THEN ScanOpenTags(markup, names, start + 1)
        ELSE IF end = 0 THEN <<>>
        ELSE <<[name        |-> name, start |-> start, openEnd |-> end,
                selfClosing |-> Is(markup[end - 1], {"slash"}) /\ Is(markup[end], {"end"})]>>
             \o ScanOpenTags(markup, names, end + 1)

\* Where an element's content ends: the first closing tag whose name begins with
\* its own, nested elements of that name or not.
CloseOf(markup, tag) ==
    FirstFrom(markup, tag.openEnd + 1, LAMBDA l : Is(l, {"close"}) /\ BeginsWith(l.name, tag.name))

Inner(markup, tag) ==
    IF tag.selfClosing THEN <<>>
    ELSE IF CloseOf(markup, tag) = 0 THEN From(markup, tag.openEnd + 1)
    ELSE SubSeq(markup, tag.openEnd + 1, CloseOf(markup, tag) - 1)

Unclosed(markup, tag) == ~tag.selfClosing /\ CloseOf(markup, tag) = 0

\* extractElements: an element that is never closed takes the rest and is the last.
Extracted(markup, tags, limit) ==
    LET open == SelectInSeq(tags, LAMBDA t : Unclosed(markup, t))
        upTo == IF open = 0 THEN Len(tags) ELSE open
        kept == SubSeq(tags, 1, IF upTo < limit THEN upTo ELSE limit)
    IN  [n \in DOMAIN kept |-> [name |-> kept[n].name, inner |-> Inner(markup, kept[n])]]

ExtractElements(markup, names, limit) ==
    Extracted(markup, ScanOpenTags(markup, names, 1), limit)

\* findOpenTags: the tags themselves.
FindOpenTags(markup, names, limit) ==
    LET tags == ScanOpenTags(markup, names, 1)
        kept == SubSeq(tags, 1, IF Len(tags) < limit THEN Len(tags) ELSE limit)
    IN  [n \in DOMAIN kept |-> SubSeq(markup, kept[n].start, kept[n].openEnd)]
-----------------------------------------------------------------------------
(***************************************************************************)
(* From markup to text.                                                    *)
(***************************************************************************)

\* removeBlock: from "<tag" to the end of the first "</tag", or of everything.
RECURSIVE RemoveBlock(_, _)
RemoveBlock(markup, tag) ==
    LET start == FirstFrom(markup, 1, LAMBDA l : Is(l, {"open"}) /\ BeginsWith(l.name, tag))
        close == FirstFrom(markup, start + 1, LAMBDA l : Is(l, {"close"}) /\ BeginsWith(l.name, tag))
        end   == FirstFrom(markup, close + 1, ClosesAngle)
    IN  IF start = 0 THEN markup
        ELSE IF ~WholeName(markup, start, tag)
        THEN SubSeq(markup, 1, start) \o RemoveBlock(From(markup, start + 1), tag)
        ELSE IF close = 0 \/ end = 0 THEN SubSeq(markup, 1, start - 1)
        ELSE SubSeq(markup, 1, start - 1) \o RemoveBlock(From(markup, end + 1), tag)

\* stripHiddenBlocks: one tag after the other.
StripHiddenBlocks(markup) == FoldLeft(RemoveBlock, markup, HiddenBlockTags)

\* stripComments: one without an end hides the rest.
RECURSIVE StripComments(_)
StripComments(markup) ==
    LET start == FirstFrom(markup, 1, LAMBDA l : Is(l, {"comment"}))
        end   == FirstFrom(markup, start + 1, LAMBDA l : Is(l, {"uncomment"}))
    IN  IF start = 0 THEN markup
        ELSE SubSeq(markup, 1, start - 1) \o
             (IF end = 0 THEN <<>> ELSE StripComments(From(markup, end + 1)))

\* unwrapCdata: what is in the section stays.
RECURSIVE UnwrapCdata(_)
UnwrapCdata(markup) ==
    LET start == FirstFrom(markup, 1, LAMBDA l : Is(l, {"cdata"}))
        end   == FirstFrom(markup, start + 1, LAMBDA l : Is(l, {"uncdata"}))
    IN  IF start = 0 THEN markup
        ELSE SubSeq(markup, 1, start - 1) \o
             (IF end = 0 THEN From(markup, start + 1)
              ELSE SubSeq(markup, start + 1, end - 1) \o UnwrapCdata(From(markup, end + 1)))

\* TAG_START after a "<": a letter, a slash, a "!" or a "?".
StartsTag(markup, i) ==
    \/ markup[i].kind # "less"
    \/ i < Len(markup) /\ markup[i + 1].kind \in {"word", "slash"}

\* Mutant: a tag is replaced by nothing.
RECURSIVE StripTagsTight(_)
StripTagsTight(markup) ==
    LET start == FirstFrom(markup, 1, OpensAngle)
        end   == FirstFrom(markup, start + 1, ClosesAngle)
    IN  IF start = 0 THEN markup
        ELSE IF ~StartsTag(markup, start)
        THEN SubSeq(markup, 1, start) \o StripTagsTight(From(markup, start + 1))
        ELSE IF end = 0 THEN markup
        ELSE SubSeq(markup, 1, start - 1) \o StripTagsTight(From(markup, end + 1))

\* stripTags: every complete tag becomes a space, a "<" that opens none stays.
RECURSIVE StripTags(_)
StripTags(markup) ==
    LET start == FirstFrom(markup, 1, OpensAngle)
        end   == FirstFrom(markup, start + 1, ClosesAngle)
    IN  IF start = 0 THEN markup
        ELSE IF ~StartsTag(markup, start)
        THEN SubSeq(markup, 1, start) \o StripTags(From(markup, start + 1))
        ELSE IF end = 0 THEN markup
        ELSE SubSeq(markup, 1, start - 1) \o <<Space>> \o StripTags(From(markup, end + 1))

\* decodeEntities, one level of it.
DecodeEntities(markup) ==
    [i \in DOMAIN markup |-> [markup[i] EXCEPT !.escapes = IF @ = 0 THEN 0 ELSE @ - 1]]

\* collapseWhitespace: runs become one space, none at either end.
CollapseWhitespace(text) ==
    LET words == {i \in DOMAIN text : text[i].kind # "space"}
        Keep(i) == \/ i \in words
                   \/ i > 1 /\ i - 1 \in words /\ \E j \in words : j > i
    IN  FoldLeftDomain(LAMBDA kept, i : IF Keep(i) THEN Append(kept, text[i]) ELSE kept, <<>>, text)

\* Mutant: hidden blocks are only removed from what the first pass revealed.
CleanTextShown(markup) ==
    CollapseWhitespace(DecodeEntities(StripTags(StripComments(UnwrapCdata(markup)))))

\* cleanText: feeds ship markup escaped inside an element, so what decoding
\* reveals is stripped and decoded once more.
CleanText(markup) ==
    LET visible == StripHiddenBlocks(StripComments(UnwrapCdata(markup)))
        once    == DecodeEntities(StripTags(visible))
        twice   == IF \E i \in DOMAIN once : OpensAngle(once[i])
                   THEN DecodeEntities(StripTags(StripHiddenBlocks(once))) ELSE once
    IN  CollapseWhitespace(twice)

\* firstElement and elementText: no element is no text.
FirstElement(markup, names) == ExtractElements(markup, names, 1)
ElementText(markup, names) ==
    LET element == FirstElement(markup, names)
    IN  IF element = <<>> THEN <<>> ELSE CleanText(element[1].inner)

\* Mutant: an article without text is taken for the text of the page.
ArticleTextOfContainer(body, maxParagraphs) ==
    LET container  == FirstElement(body, {"article", "main"})
        paragraphs == ExtractElements(body, {"p"}, maxParagraphs)
    IN  IF container # <<>> THEN CleanText(container[1].inner)
        ELSE CleanText(FlattenSeq([n \in DOMAIN paragraphs |-> paragraphs[n].inner \o <<Space>>]))

\* articleText: the article, or else the first paragraphs joined by spaces.
ArticleText(body, maxParagraphs) ==
    LET container  == FirstElement(body, {"article", "main"})
        text       == IF container = <<>> THEN <<>> ELSE CleanText(container[1].inner)
        paragraphs == ExtractElements(body, {"p"}, maxParagraphs)
    IN  IF text # <<>> THEN text
        ELSE CleanText(FlattenSeq([n \in DOMAIN paragraphs |-> paragraphs[n].inner \o <<Space>>]))
=============================================================================
