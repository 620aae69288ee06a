----------------------------- MODULE MCIngestion -----------------------------
(***************************************************************************)
(* Instances of Ingestion for TLC: one source at a feed or at a page, two  *)
(* channels and two workers. Feeds have dated entries two of which share a *)
(* date, an undated one and one no item can be built from.                 *)
(***************************************************************************)
EXTENDS Ingestion, TLC

MCUrls    == {"feed", "feed2", "page"}
MCKindOf  == [u \in MCUrls |-> IF u = "page" THEN "WEB" ELSE "RSS"]
MCIds     == {"d1", "d2", "d1twin", "undated", "broken"}
MCDateOf  == [i \in MCIds |-> CASE i \in {"d1", "d1twin"} -> 1 [] i = "d2" -> 2 [] OTHER -> 0]
MCBroken  == {"broken"}
MCTexts   == {"text1", "text2"}
MCFirstText == [i \in MCIds |-> IF i \in {"d1", "undated"} THEN "text1" ELSE "text2"]
MCStartAt == [u \in MCUrls |-> CASE u = "feed" -> "d1" [] u = "feed2" -> "d2" [] u = "page" -> "undated"]

Interchangeable == Permutations(Workers) \cup Permutations(Channels)
=============================================================================
