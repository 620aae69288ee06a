----------------------------- MODULE Algorithms -----------------------------
(***************************************************************************)
(* The pure algorithms against reference definitions, over bounded inputs. *)
(* A behaviour builds one input, piece by piece: a well-formed document,   *)
(* raw markup, or one of Inputs.                                           *)
(*                                                                         *)
(* A document is a sequence of nodes, a reading of markup independent of   *)
(* the scanner: Render gives its lexemes, Visible what a reader sees.      *)
(***************************************************************************)
EXTENDS Markup, Inputs

CONSTANTS MaxNodes,     \* bound: nodes of a document
          MaxLexemes    \* bound: lexemes of raw markup

vars == <<kind, input>>
-----------------------------------------------------------------------------
Node(type, name, children) == [type |-> type, name |-> name, children |-> children]
WordNode(w) == Node("word", w, <<>>)
Element(name, children) == Node("element", name, children)

\* What a comment or a hidden block may hold: text, or an element with text.
Nested(w) == {<<WordNode(w)>>, <<Element("p", <<WordNode(w)>>)>>, <<Element("article", <<WordNode(w)>>)>>}

\* An "entity" is a tag the author writes about, as "&lt;p&gt;"; in a "quoted" element
\* an attribute of the opening tag holds a ">".
Leaves == {WordNode("a"), WordNode("b"), Node("space", "", <<>>), Node("less", "", <<>>),
           Node("void", "p", <<>>), Node("entity", "p", <<>>), Node("entity", "script", <<>>),
           Node("instruction", "", <<>>), Node("quoted", "p", <<WordNode("a")>>),
           Node("hidden", "script", <<WordNode("h"), Node("less", "", <<>>), WordNode("h")>>)}
          \cup {Node("hidden", "noscript", children) : children \in Nested("h")}
          \cup {Node("comment", "", children) :
                    children \in Nested("c") \cup {<<Node("hidden", "noscript", <<WordNode("h")>>)>>}}

Contents == {<<>>, <<WordNode("a")>>, <<WordNode("a"), Node("void", "br", <<>>), WordNode("b")>>,
             <<Node("hidden", "style", <<WordNode("h")>>), Node("space", "", <<>>)>>,
             <<WordNode("b"), Element("span", <<WordNode("a")>>)>>}

Elements == {Element(name, children) :
                name \in {"p", "pre", "article", "content", "content:encoded"}, children \in Contents}

Nodes == Leaves \cup Elements

\* What the scanner takes for the content of a node: a tag ends at its first ">".
Leak == <<WordNode("q"), Node("greater", "", <<>>)>>
Body(n) == IF n.type = "quoted" THEN Leak \o n.children ELSE n.children

Escape(markup) ==
    [i \in DOMAIN markup |->
        IF markup[i].kind \in {"word", "space", "slash"} THEN markup[i]
        ELSE [markup[i] EXCEPT !.escapes = @ + 1]]

RECURSIVE Render(_)
Render(nodes) ==
    IF nodes = <<>> THEN <<>>
    ELSE LET n == Head(nodes) IN
         (CASE n.type = "word"    -> <<Word(n.name)>>
            [] n.type = "space"   -> <<Space>>
            [] n.type = "less"    -> <<Mark("less"), Space>>
            [] n.type = "greater" -> <<Mark("end")>>
            [] n.type = "entity"  -> Escape(<<Open(n.name), Mark("end")>>)
            [] n.type = "instruction" -> <<Mark("instruction"), Word("xml"), Mark("end")>>
            [] n.type = "comment" -> <<Mark("comment")>> \o Render(n.children) \o <<Mark("uncomment")>>
            [] n.type = "hidden"  -> <<Open(n.name), Mark("end")>> \o Render(n.children) \o
                                     <<Close(n.name), Mark("end")>>
            [] n.type = "void"    -> <<Open(n.name), Space, Mark("slash"), Mark("end")>>
            [] n.type \in {"element", "quoted"} ->
                   <<Open(n.name), Space, Word("attribute"), Mark("end")>> \o Render(Body(n)) \o
                   <<Close(n.name), Mark("end")>>)
         \o Render(Tail(nodes))

\* How a document arrives: as it is ("plain"), or escaped, in which case the scanner
\* makes a second pass ("again") when the first has revealed a "<", or none ("once").
Escaped(nodes) ==
    IF \E n \in DOMAIN nodes : nodes[n].type \notin {"word", "space", "entity"} THEN "again" ELSE "once"

\* A comment is nothing. The second pass does not know comments: it takes one for a
\* tag, a gap that the first ">" ends.
OfComment(children, arrival) ==
    LET first == SelectInSeq(children, LAMBDA n : n.type = "element")
    IN  IF arrival = "plain" THEN <<>>
        ELSE IF first = 0 THEN <<Space>>
        ELSE <<Space>> \o Render(children[first].children) \o <<Space, Mark("uncomment")>>

\* A tag written about looks like markup once it is decoded: a gap, or the begin of a
\* hidden block. In an escaped document it stays, as it was written if no second pass.
OfEntity(name, arrival) ==
    CASE arrival = "again" -> <<Open(name), Mark("end")>>
      [] arrival = "once"  -> Escape(<<Open(name), Mark("end")>>)
      [] arrival = "plain" -> IF name = "script" THEN <<Open(name)>> ELSE <<Space>>

\* What is left to see of a document.
RECURSIVE Visible(_, _)
Visible(nodes, arrival) ==
    IF nodes = <<>> THEN <<>>
    ELSE LET n == Head(nodes) IN
         (CASE n.type = "word"    -> <<Word(n.name)>>
            [] n.type = "space"   -> <<Space>>
            [] n.type = "less"    -> <<Mark("less"), Space>>
            [] n.type = "greater" -> <<Mark("end")>>
            [] n.type = "entity"  -> OfEntity(n.name, arrival)
            [] n.type = "comment" -> OfComment(n.children, arrival)
            [] n.type = "hidden"  -> <<>>
            [] n.type \in {"void", "instruction"} -> <<Space>>
            [] n.type \in {"element", "quoted"} ->
                   <<Space>> \o Visible(Body(n), arrival) \o <<Space>>)
         \o Visible(Tail(nodes), arrival)

\* A hidden block that a tag written about begins has no end.
TextOf(nodes) ==
    LET shown == Visible(nodes, "plain")
        block == SelectInSeq(shown, LAMBDA l : l = Open("script"))
    IN  CollapseWhitespace(IF block = 0 THEN shown ELSE SubSeq(shown, 1, block - 1))

TextOfEscaped(nodes) == CollapseWhitespace(Visible(nodes, Escaped(nodes)))

\* The elements of these names, outer before inner. What is in a comment or in a
\* hidden block counts too.
RECURSIVE ElementsOf(_, _)
ElementsOf(nodes, names) ==
    IF nodes = <<>> THEN <<>>
    ELSE LET n == Head(nodes) IN
         (IF n.type \in {"element", "quoted", "void"} /\ n.name \in names THEN <<n>> ELSE <<>>)
         \o ElementsOf(n.children, names) \o ElementsOf(Tail(nodes), names)

UpTo(sequence, limit) == SubSeq(sequence, 1, IF Len(sequence) < limit THEN Len(sequence) ELSE limit)
-----------------------------------------------------------------------------
\* Lexemes in any order, opened and never closed, closed and never opened.
Lexemes == {Word("a"), Space, Mark("less"), Mark("end"), Mark("slash"), Open("p"), Close("p"),
            Mark("comment"), Mark("uncomment"), Mark("instruction")}

Init == \/ kind \in {"document", "markup"} /\ input = <<>>
        \/ InputInit

AddNode   == kind = "document" /\ Len(input) < MaxNodes /\ \E n \in Nodes : input' = Append(input, n)
AddLexeme == kind = "markup" /\ Len(input) < MaxLexemes /\ \E l \in Lexemes : input' = Append(input, l)

Next == \/ (AddNode \/ AddLexeme) /\ UNCHANGED kind
        \/ AddPiece

Spec == Init /\ [][Next]_vars
-----------------------------------------------------------------------------
(***************************************************************************)
(* Properties.                                                             *)
(***************************************************************************)

\* cleanText keeps what a reader sees of a document and no more, whether the markup
\* arrives as it is, in a CDATA section, escaped, or escaped in one, with these
\* exceptions: of a tag written about in a document that is not escaped nothing is
\* left, and a "<script>" takes what follows with it; a ">" in an attribute lets the
\* rest of the tag out; and of an escaped comment what follows its first ">" stays.
CleanTextIsVisible ==
    kind = "document" =>
        LET markup == Render(input)
            Wrapped(m) == <<Mark("cdata")>> \o m \o <<Mark("uncdata")>>
        IN  /\ CleanText(markup) = TextOf(input)
            /\ CleanText(Wrapped(markup)) = TextOf(input)
            /\ CleanText(Escape(markup)) = TextOfEscaped(input)
            /\ CleanText(Wrapped(Escape(markup))) = TextOfEscaped(input)

\* stripTags leaves no complete tag behind, in any markup: taking a tag out
\* never makes a new one of its neighbours.
StripTagsLeavesNone ==
    kind = "markup" => StripTags(StripTags(input)) = StripTags(input)

\* extractElements and findOpenTags find the elements of a document that have one of
\* the names, in document order and up to the limit, with their content, as long as
\* none is inside one of its own name or of one that its own begins with. They look
\* into comments and hidden blocks as well.
ElementsAreFound ==
    kind = "document" =>
        \A names \in {{"p"}, {"content"}, {"content", "content:encoded"}, {"p", "pre", "span"}},
           limit \in 1 .. 3 :
            LET elements == UpTo(ElementsOf(input, names), limit)
                tags     == FindOpenTags(Render(input), names, limit)
            IN  /\ ExtractElements(Render(input), names, limit) =
                       [n \in DOMAIN elements |->
                           [name |-> elements[n].name, inner |-> Render(Body(elements[n]))]]
                /\ [n \in DOMAIN tags |-> tags[n][1].name] = [n \in DOMAIN elements |-> elements[n].name]

\* The text of a page is the text of its first article, or else of its paragraphs,
\* when it has any. An article or paragraph in a comment or in a hidden block is one
\* like any other.
ArticleTextIsVisible ==
    kind = "document" =>
        LET articles   == ElementsOf(input, {"article"})
            paragraphs == ElementsOf(input, {"p"})
            first == IF articles = <<>> THEN <<>> ELSE TextOf(Body(articles[1]))
        IN  ArticleText(Render(input), MaxNodes) =
                IF first # <<>> THEN first
                ELSE TextOf(FlattenSeq([n \in DOMAIN paragraphs |->
                                           Append(Body(paragraphs[n]), Node("space", "", <<>>))]))

(* What a comment in the code promises. *)

\* safe-markup.ts:12: "Content that must never contribute text: script payloads,
\* styling, embeds." No word of a hidden block is in the text of a page.
HiddenNeverContributes ==
    kind = "document" => Word("h") \notin ToSet(ArticleText(Render(input), MaxNodes))
=============================================================================
