---------------------------- MODULE MCDiscovery -----------------------------
(* Small instances of Discovery for TLC. *)
EXTENDS Discovery, TLC

\* A feed with two items and a site that may carry the same story.
FeedAndSite == "i1" :> "feed" @@ "i2" :> "feed" @@ "i3" :> "site"
TwoSourceOf == "i1" :> "feed" @@ "i2" :> "site"
OneSourceOf == [i \in Items |-> "feed"]

\* a and b are one text, but for punctuation, under two URLs, c is an update of it under
\* a's URL, d another subject.
MCHashOf == "a" :> 1 @@ "b" :> 1 @@ "c" :> 2 @@ "d" :> 3
MCUrlOf == "a" :> 1 @@ "b" :> 2 @@ "c" :> 1 @@ "d" :> 3
MCTermsOf == [c \in Contents |-> CASE c \in {"a", "b"} -> {1, 2} [] c = "c" -> {1, 2, 3} [] c = "d" -> {4}]
MCSimilarity == [cd \in Contents \X Contents |->
  CASE "d" \in {cd[1], cd[2]} -> IF cd[1] = cd[2] THEN 100 ELSE 10
    [] "c" \in {cd[1], cd[2]} -> IF cd[1] = cd[2] THEN 100 ELSE 85
    [] OTHER -> 100]

\* The feed's second item updates the first, the site's is the first one's twin.
FeedCorpora == {"i1" :> "a" @@ "i2" :> "c" @@ "i3" :> "b"}

\* One item for each source, its twin or not stored yet.
TwinCorpora == {"i1" :> "a" @@ "i2" :> x : x \in {"b", None}}

\* A story that grows away from its first item: {1}, {1, 2}, {1, 2, 3}.
DriftTermsOf == "a" :> {1} @@ "b" :> {1, 2} @@ "c" :> {1, 2, 3}
DriftCorpora == {"i1" :> "a" @@ "i2" :> "b" @@ "i3" :> "c"}
DistinctHashOf == "a" :> 1 @@ "b" :> 2 @@ "c" :> 3
DistinctSimilarity == [cd \in Contents \X Contents |-> IF cd[1] = cd[2] THEN 100 ELSE 50]
=============================================================================
