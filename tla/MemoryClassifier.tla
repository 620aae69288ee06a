-------------------------- MODULE MemoryClassifier --------------------------
(***************************************************************************)
(* The decision rules of Smart Memory: what the distance to the nearest    *)
(* stored item and the overlap of entities and topics say about a          *)
(* candidate.  Similarities, overlaps and thresholds are percentages.      *)
(***************************************************************************)
EXTENDS Integers, FiniteSets

CONSTANTS
  Duplicate,      \* similarity from which a match blocks the candidate
  Update,         \* similarity from which it is new material on a known subject
  Related,        \* similarity from which it is worth mentioning
  EntityOverlap   \* the overlap that makes Duplicate and Update believable

\* The refinement of memoryThresholdsSchema: the cut-offs are ordered.
ASSUME ThresholdsAssumption ==
  /\ {Duplicate, Update, Related, EntityOverlap} \subseteq 0 .. 100
  /\ Duplicate >= Update
  /\ Update >= Related

Decisions == {"NEW", "RELATED", "UPDATE", "DUPLICATE"}

\* jaccard(left, right) >= percent / 100.  Two empty sets overlap by zero.
OverlapAtLeast(left, right, percent) ==
  /\ 100 * Cardinality(left \cap right) >= percent * Cardinality(left \cup right)
  /\ left \cup right = {} => percent = 0

\* jaccard(terms, left) >= jaccard(terms, right), with the fractions cleared.
OverlapsNoLess(terms, left, right) ==
  Cardinality(terms \cap left) * Cardinality(terms \cup right)
    >= Cardinality(terms \cap right) * Cardinality(terms \cup left)

\* The verdict on a candidate whose nearest neighbour has this similarity.
VerdictOnNearest(similarity, overlapAgrees) ==
  CASE overlapAgrees /\ similarity >= Duplicate -> "DUPLICATE"
    [] overlapAgrees /\ similarity \in Update .. Duplicate - 1 -> "UPDATE"
    [] similarity >= Related /\ (overlapAgrees => similarity < Update) -> "RELATED"
    [] similarity < Related -> "NEW"
=============================================================================
