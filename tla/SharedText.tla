----------------------------- MODULE SharedText -----------------------------
(***************************************************************************)
(* The parts of packages/shared/src/text.ts that order and compare: the    *)
(* ranking of topics and entities, and the canonical form of a link.       *)
(* Tokens, parameter names and values are numbers in codepoint order.      *)
(***************************************************************************)
EXTENDS Integers, SequencesExt

\* Array.sort: stable, so an element goes behind those it does not precede.
Sorted(entries, Precedes(_, _)) ==
    LET Insert(sorted, e) ==
            LET n == SelectInSeq(sorted, LAMBDA other : Precedes(e, other))
            IN  IF n = 0 THEN Append(sorted, e) ELSE InsertAt(sorted, n, e)
    IN  FoldLeft(Insert, <<>>, entries)

\* Array.filter.
Kept(sequence, Test(_)) ==
    FoldLeft(LAMBDA kept, e : IF Test(e) THEN Append(kept, e) ELSE kept, <<>>, sequence)

\* A Map of counts keeps the order of first occurrence.
Counts(tokens) ==
    LET Count(counts, t) ==
            IF \E n \in DOMAIN counts : counts[n].token = t
            THEN [n \in DOMAIN counts |-> IF counts[n].token = t
                                         THEN [counts[n] EXCEPT !.count = @ + 1] ELSE counts[n]]
            ELSE Append(counts, [token |-> t, count |-> 1])
    IN  FoldLeft(Count, <<>>, tokens)

Tokens(counts) == [n \in DOMAIN counts |-> counts[n].token]

\* Mutant: ties keep the order of the text.
RankByCountOnly(counts, limit) ==
    LET ranked == Sorted(counts, LAMBDA a, b : a.count > b.count)
    IN  SubSeq(Tokens(ranked), 1, IF Len(ranked) < limit THEN Len(ranked) ELSE limit)

\* rankByCount: the most frequent first, ties in codepoint order.
RankByCount(counts, limit) ==
    LET ranked == Sorted(counts, LAMBDA a, b :
                             a.count > b.count \/ (a.count = b.count /\ a.token < b.token))
    IN  SubSeq(Tokens(ranked), 1, IF Len(ranked) < limit THEN Len(ranked) ELSE limit)

\* A text is a sequence of pieces: capitalized terms ("name") and other words, and
\* what ends a sentence ("stop"). A piece that is not counted, a stopword as well as a
\* stop, has token 0.
Counted(tokens) == Kept(tokens, LAMBDA t : t # 0)

NameTokens(text) == [n \in DOMAIN text |-> IF text[n].kind = "name" THEN text[n].token ELSE 0]

\* extractTopics: names are words as well.
ExtractTopics(text, limit) == RankByCount(Counts(Counted(Tokens(text))), limit)

\* opensSentence: what comes before decides.
OpensSentence(text, n) == n = 1 \/ text[n - 1].kind = "stop"

MidSentence(text, t) ==
    \E n \in DOMAIN text : text[n].kind = "name" /\ text[n].token = t /\ ~OpensSentence(text, n)

\* extractEntities: a term that only ever opens a sentence, and once, is no name.
ExtractEntities(text, limit) ==
    RankByCount(Kept(Counts(Counted(NameTokens(text))),
                     LAMBDA c : MidSentence(text, c.token) \/ c.count > 1), limit)
-----------------------------------------------------------------------------
\* A link is [parses, www, slashes, fragment, params]: whether new URL takes it,
\* a leading "www.", the slashes its path ends with, a fragment, and its query
\* as a sequence of <<name, value>>.
Tracking == {0}   \* the names TRACKING_PARAM matches

\* comparePairs.
PairPrecedes(p, q) == p[1] < q[1] \/ (p[1] = q[1] /\ p[2] < q[2])

\* Mutant: parameters are sorted by their names.
CanonicalizeByName(url) ==
    IF ~url.parses THEN url
    ELSE [url EXCEPT !.www = FALSE, !.slashes = 0, !.fragment = FALSE,
                     !.params = Sorted(Kept(@, LAMBDA p : p[1] \notin Tracking),
                                       LAMBDA p, q : p[1] < q[1])]

\* canonicalizeUrl: what no parser takes is only lowercased.
CanonicalizeUrl(url) ==
    IF ~url.parses THEN url
    ELSE [url EXCEPT !.www = FALSE, !.slashes = 0, !.fragment = FALSE,
                     !.params = Sorted(Kept(@, LAMBDA p : p[1] \notin Tracking), PairPrecedes)]
=============================================================================
