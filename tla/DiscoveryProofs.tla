-------------------------- MODULE DiscoveryProofs ---------------------------
(***************************************************************************)
(* Discovery's safety for every number of sources, concurrent passes,      *)
(* items, edits and failures.  The invariant says of each pass what its    *)
(* place in the loop entitles it to; no pass can spoil it for another,     *)
(* because the tables only grow.                                           *)
(***************************************************************************)
EXTENDS Discovery, FiniteSetTheorems, WellFoundedInduction, TLAPS

Attaching == {"readStories", "attach", "point", "link"}
Logged == {"indexRow", "indexEmbedding"} \cup Attaching

\* A busy pass has an item in hand, its text, and the idea it upserted.
InHand(p) == pass[p].step \notin {"idle", "next"} =>
  /\ pass[p].item \in Items
  /\ pass[p].snapshot[pass[p].item] \in Contents
  /\ ideas[pass[p].item] # None

\* A pass that is about to reject has found the memory of another item.
DecisionReady(p) ==
  pass[p].step \in {"decide", "record"} /\ pass[p].decision = "DUPLICATE" =>
    /\ pass[p].match \in Items \ {pass[p].item}
    /\ memory[pass[p].match] # None

\* Past recordDecision, the log shows that the item was let through.
LoggedFirst(p) == pass[p].step \in Logged => Accepted(pass[p].item)

\* Past the memory writes, the memory of the item is there.
RowWritten(p) ==
  /\ pass[p].step \in {"indexEmbedding"} \cup Attaching => memory[pass[p].item] # None
  /\ pass[p].step \in Attaching => memory[pass[p].item].embedding # None

\* The story a pass is about to join, or has joined, exists.
TargetExists(p) ==
  /\ pass[p].target <= Len(stories)
  /\ pass[p].step \in {"point", "link"} => pass[p].target # 0

PassInv(p) ==
  InHand(p) /\ DecisionReady(p) /\ LoggedFirst(p) /\ RowWritten(p) /\ TargetExists(p)

Inv == TypeOK /\ \A p \in Passes : PassInv(p)

\* No step takes anything out of the tables.
Grows ==
  /\ \A i \in Items : ideas[i] # None => ideas'[i] # None
  /\ \A i \in Items : memory[i] # None =>
       memory'[i] # None /\ (memory[i].embedding # None => memory'[i].embedding # None)
  /\ log \subseteq log' /\ links \subseteq links' /\ torn \subseteq torn'
  /\ Len(stories) <= Len(stories')

Alone(p) == \A q \in Passes \ {p} : pass'[q] = pass[q]

\* What each action of a pass is shown to do.
GoodStep(p) == TypeOK' /\ Grows /\ Alone(p) /\ PassInv(p)'
-----------------------------------------------------------------------------
\* NULL is no item, text or number.
LEMMA NoneIsNoData == None \notin Items /\ None \notin Contents /\ None \notin Nat
  BY DiscoveryAssumption

\* The bounds are numbers.
LEMMA BoundsAreNat ==
  MaxStories \in Nat /\ MaxStarts \in Nat /\ MaxEdits \in Nat /\ MaxFailures \in Nat
  BY DiscoveryAssumption

\* The terms of a text are among all terms.
LEMMA TermsTyped == ASSUME NEW c \in Contents PROVE TermsOf[c] \in SUBSET Terms
  BY DEF Terms

\* A pass at rest has its type.
LEMMA IdlePassTyped == IdlePass \in Pass
  BY BoundsAreNat DEF IdlePass, Pass, Steps, SplitSteps, Corpora, Decisions

(* What the ways of moving a pass on do to it. *)

\* Goto changes one local of one pass.
LEMMA GotoEffect ==
  ASSUME NEW p \in Passes, pass \in [Passes -> Pass], NEW step \in Steps, Goto(p, step)
  PROVE  /\ pass' \in [Passes -> Pass]
         /\ Alone(p)
         /\ pass'[p].step = step
         /\ pass'[p].item = pass[p].item
         /\ pass'[p].snapshot = pass[p].snapshot
         /\ pass'[p].decision = pass[p].decision
         /\ pass'[p].match = pass[p].match
         /\ pass'[p].target = pass[p].target
         /\ pass'[p].seen = pass[p].seen
<1>1. pass[p] \in Pass
  OBVIOUS
<1> DEFINE next == [pass[p] EXCEPT !.step = step]
<1>2. pass' = [pass EXCEPT ![p] = next]
  BY DEF Goto
<1>3. /\ next \in Pass
      /\ next.step = step
      /\ next.item = pass[p].item
      /\ next.snapshot = pass[p].snapshot
      /\ next.decision = pass[p].decision
      /\ next.match = pass[p].match
      /\ next.target = pass[p].target
      /\ next.seen = pass[p].seen
  BY <1>1 DEF Pass
<1> HIDE DEF next
<1> QED
  BY <1>2, <1>3 DEF Alone

\* Decided leaves the item in hand and what it said.
LEMMA DecidedEffect ==
  ASSUME NEW p \in Passes, pass \in [Passes -> Pass],
         NEW decision \in Decisions, NEW match \in Items \cup {None},
         Decided(p, decision, match)
  PROVE  /\ pass' \in [Passes -> Pass]
         /\ Alone(p)
         /\ pass'[p].step = "decide"
         /\ pass'[p].item = pass[p].item
         /\ pass'[p].snapshot = pass[p].snapshot
         /\ pass'[p].decision = decision
         /\ pass'[p].match = match
         /\ pass'[p].target = pass[p].target
<1>1. pass[p] \in Pass
  OBVIOUS
<1> DEFINE next == [pass[p] EXCEPT !.step = "decide", !.decision = decision, !.match = match]
<1>2. pass' = [pass EXCEPT ![p] = next]
  BY <1>1 DEF Decided, Pass
<1>3. /\ next \in Pass
      /\ next.step = "decide"
      /\ next.item = pass[p].item
      /\ next.snapshot = pass[p].snapshot
      /\ next.decision = decision
      /\ next.match = match
      /\ next.target = pass[p].target
  BY <1>1 DEF Pass, Steps
<1> HIDE DEF next
<1> QED
  BY <1>2, <1>3 DEF Alone

\* FinishItem leaves the pass at rest or between items, and the other passes alone.
LEMMA FinishItemEffect ==
  ASSUME NEW p \in Passes, pass \in [Passes -> Pass], FinishItem(p)
  PROVE  /\ pass' \in [Passes -> Pass]
         /\ Alone(p)
         /\ pass'[p].step \in {"idle", "next"}
         /\ pass'[p].target = 0
<1> DEFINE left == [pass[p].snapshot EXCEPT ![pass[p].item] = None]
           next == [IdlePass EXCEPT !.step = "next", !.snapshot = left]
<1>1. left \in Corpora
  BY DEF Pass, Corpora
<1>2. next \in Pass /\ next.step = "next" /\ next.target = 0
  BY <1>1, IdlePassTyped DEF Pass, IdlePass, Steps
<1>3. IdlePass.step = "idle" /\ IdlePass.target = 0
  BY DEF IdlePass
<1>4. pass' = [pass EXCEPT ![p] = IF left = IdlePass.snapshot THEN IdlePass ELSE next]
  BY DEF FinishItem
<1> HIDE DEF left, next
<1> QED
  BY <1>2, <1>3, <1>4, IdlePassTyped DEF Alone

\* Between items nothing is owed.
LEMMA RestingPass ==
  ASSUME NEW p \in Passes, pass'[p].step \in {"idle", "next"}, pass'[p].target = 0,
         TypeOK'
  PROVE  PassInv(p)'
<1>1. Len(stories') \in Nat
  BY DEF TypeOK
<1> QED
  BY <1>1 DEF PassInv, InHand, DecisionReady, LoggedFirst, RowWritten, TargetExists,
         Logged, Attaching

\* What a pass is entitled to, it keeps while others move.
LEMMA Untouched ==
  ASSUME Inv, Grows, NEW q \in Passes, pass'[q] = pass[q], TypeOK'
  PROVE  PassInv(q)'
<1>1. /\ PassInv(q) /\ pass[q] \in Pass
      /\ Len(stories) \in Nat /\ Len(stories') \in Nat
      /\ pass[q].target \in 0 .. MaxStories
  BY BoundsAreNat DEF Inv, TypeOK, Pass
<1>2. InHand(q)'
  BY <1>1 DEF PassInv, InHand, Grows
<1>3. DecisionReady(q)'
  BY <1>1 DEF PassInv, DecisionReady, Grows
<1>4. LoggedFirst(q)'
  BY <1>1 DEF PassInv, LoggedFirst, Grows, Accepted
<1>5. RowWritten(q)'
  <2>1. pass[q].step \in {"indexEmbedding"} \cup Attaching => pass[q].item \in Items
    BY <1>1 DEF PassInv, InHand, Attaching
  <2> QED
    BY <1>1, <2>1 DEF PassInv, RowWritten, Grows, Attaching
<1>6. TargetExists(q)'
  BY <1>1, BoundsAreNat DEF PassInv, TargetExists, Grows
<1> QED
  BY <1>2, <1>3, <1>4, <1>5, <1>6 DEF PassInv

\* A step that is good for its own pass keeps the invariant.
LEMMA GoodStepKeepsInv ==
  ASSUME Inv, NEW p \in Passes, GoodStep(p)
  PROVE  Inv' /\ Grows
BY Untouched DEF GoodStep, Alone, Inv

\* Before any pass runs, nothing is owed.
LEMMA InitInv == Init => Inv
<1> SUFFICES ASSUME Init PROVE Inv
  OBVIOUS
<1>1. TypeOK
  <2>1. content \in Corpora /\ MaxStories \in Nat
    BY DiscoveryAssumption DEF Init
  <2>2. stories \in Seq(Story) /\ Len(stories) <= MaxStories
    BY <2>1 DEF Init
  <2>3. {starts, edits, failures} \subseteq Nat
    BY DEF Init
  <2>4. overlapped \in BOOLEAN
    BY DEF Init
  <2> QED
    BY <2>1, <2>2, <2>3, <2>4, IdlePassTyped DEF Init, TypeOK
<1>2. ASSUME NEW p \in Passes PROVE PassInv(p)
  BY DEF Init, PassInv, InHand, DecisionReady, LoggedFirst, RowWritten, TargetExists,
         IdlePass, Logged, Attaching
<1> QED
  BY <1>1, <1>2 DEF Inv

-----------------------------------------------------------------------------
(* The actions of a pass. *)

\* The parts of the invariant a proof about pass p starts from.
LEMMA PassFacts ==
  ASSUME Inv, NEW p \in Passes
  PROVE  /\ TypeOK
         /\ pass \in [Passes -> Pass]
         /\ pass[p] \in Pass
         /\ PassInv(p)
         /\ pass[p].step \notin {"idle", "next"} =>
              pass[p].item \in Items /\ Text(p) \in Contents /\ ideas[pass[p].item] \in Idea
         /\ pass[p].target \in 0 .. Len(stories)
         /\ Len(stories) \in Nat
<1>1. TypeOK /\ PassInv(p) /\ pass[p] \in Pass
  BY DEF Inv, TypeOK
<1>2. pass[p].target \in 0 .. Len(stories) /\ Len(stories) \in Nat
  BY <1>1, BoundsAreNat DEF TypeOK, Pass, PassInv, TargetExists
<1>3. pass[p].step \notin {"idle", "next"} =>
        pass[p].item \in Items /\ Text(p) \in Contents /\ ideas[pass[p].item] \in Idea
  BY <1>1 DEF TypeOK, PassInv, InHand, Text
<1> QED
  BY <1>1, <1>2, <1>3 DEF TypeOK

\* contentIdea.upsert: afterwards the item in hand has its idea.
LEMMA UpsertIdeaStep ==
  ASSUME Inv, NEW p \in Passes, NEW i \in Items, UpsertIdea(p, i)
  PROVE  GoodStep(p)
<1>1. /\ TypeOK /\ pass[p] \in Pass /\ pass[p].step = "next"
      /\ pass[p].snapshot[i] \in Contents
      /\ pass[p].target \in 0 .. Len(stories) /\ Len(stories) \in Nat
  BY PassFacts DEF UpsertIdea, Todo, Pass, Corpora
<1> DEFINE next == [pass[p] EXCEPT !.step = "byHash", !.item = i]
           idea == Upserted(ideas[i], pass[p].snapshot[i])
<1>2. /\ next \in Pass /\ next.step = "byHash" /\ next.item = i
      /\ next.snapshot = pass[p].snapshot /\ next.target = pass[p].target
  BY <1>1 DEF Pass, Steps
<1>3. pass' = [pass EXCEPT ![p] = next]
  BY <1>1 DEF UpsertIdea, Pass, TypeOK
<1>4. idea \in Idea
  BY <1>1 DEF Upserted, Idea, TypeOK, Decisions
<1>5. idea # None
  BY <1>4, NoneAssumption
<1>6. /\ ideas' = [ideas EXCEPT ![i] = idea]
      /\ UNCHANGED <<content, enabled, memory, log, stories, links, torn,
                     overlapped, starts, edits, failures>>
  BY DEF UpsertIdea, counters
<1> HIDE DEF next, idea
<1>7. pass' \in [Passes -> Pass] /\ pass'[p] = next /\ Alone(p)
  BY <1>1, <1>2, <1>3 DEF TypeOK, Alone
<1>8. TypeOK' /\ Grows /\ ideas'[i] = idea
  BY <1>1, <1>4, <1>5, <1>6, <1>7 DEF TypeOK, Grows
<1>9. PassInv(p)'
  BY <1>1, <1>2, <1>5, <1>6, <1>7, <1>8
     DEF PassInv, InHand, DecisionReady, LoggedFirst, RowWritten, TargetExists, Logged, Attaching
<1> QED
  BY <1>7, <1>8, <1>9 DEF GoodStep

\* A similarity is a number.
LEMMA SimilarityTyped ==
  ASSUME NEW c \in Contents, NEW d \in Contents
  PROVE  Similarity[<<c, d>>] \in Int
<1>1. <<c, d>> \in Contents \X Contents
  OBVIOUS
<1>2. Similarity \in [Contents \X Contents -> -100 .. 100]
  BY DiscoveryAssumption
<1>3. Similarity[<<c, d>>] \in -100 .. 100
  BY <1>1, <1>2
<1> QED
  BY <1>3

\* Each verdict in its own band of similarities, and no other.
LEMMA VerdictBands ==
  ASSUME NEW similarity \in Int, NEW agrees \in BOOLEAN
  PROVE  VerdictOnNearest(similarity, agrees) =
           IF similarity < Related THEN "NEW"
           ELSE IF ~agrees \/ similarity < Update THEN "RELATED"
           ELSE IF similarity < Duplicate THEN "UPDATE" ELSE "DUPLICATE"
<1>1. Duplicate \in Int /\ Update \in Int /\ Related \in Int /\ Duplicate >= Update /\ Update >= Related
  BY ThresholdsAssumption
<1>2. CASE similarity < Related
  BY <1>1, <1>2 DEF VerdictOnNearest
<1>3. CASE similarity >= Related /\ (~agrees \/ similarity < Update)
  BY <1>1, <1>3 DEF VerdictOnNearest
<1>4. CASE agrees /\ similarity >= Update /\ similarity < Duplicate
  BY <1>1, <1>4 DEF VerdictOnNearest
<1>5. CASE agrees /\ similarity >= Duplicate
  BY <1>1, <1>5 DEF VerdictOnNearest
<1> QED BY <1>1, <1>2, <1>3, <1>4, <1>5

\* The classifier always decides.
LEMMA VerdictTyped ==
  ASSUME NEW similarity \in Int, NEW agrees \in BOOLEAN
  PROVE  VerdictOnNearest(similarity, agrees) \in Decisions
BY VerdictBands DEF Decisions

\* A classification keeps the tables and notes a match it has seen.
LEMMA ClassifyStep ==
  ASSUME Inv, NEW p \in Passes, Classify(p)
  PROVE  GoodStep(p)
<1>1. /\ TypeOK /\ pass \in [Passes -> Pass] /\ PassInv(p)
      /\ pass[p].step \in {"byHash", "byUrl", "nearest"}
      /\ pass[p].item \in Items /\ Text(p) \in Contents
      /\ pass[p].target \in 0 .. Len(stories) /\ Len(stories) \in Nat
  BY PassFacts DEF Classify, FindByHash, FindByUrl, FindNearest, Prefilter
<1>2. /\ UNCHANGED <<content, enabled, ideas, memory, log, stories, links, torn,
                    overlapped, starts, edits, failures>>
      /\ Grows
  BY <1>1 DEF Classify, FindByHash, FindByUrl, FindNearest, Prefilter, rows, counters,
              Grows, TypeOK
<1>3. \/ \E decision \in Decisions, match \in Items \cup {None} :
           /\ decision = "DUPLICATE" =>
                match \in Items \ {pass[p].item} /\ memory[match] # None
           /\ Decided(p, decision, match)
      \/ \E step \in {"byUrl", "nearest"} : Goto(p, step)
  <2>1. CASE FindByHash(p)
    BY <2>1 DEF FindByHash, Prefilter, SameHash, Others, Decisions
  <2>2. CASE FindByUrl(p)
    BY <2>2 DEF FindByUrl, Prefilter, SameUrl, Others, Decisions
  <2>3. CASE FindNearest(p)
    <3>1. CASE Comparable(p) = {} /\ Decided(p, "NEW", None)
      BY <3>1 DEF Decisions
    <3>2. CASE \E j \in Comparable(p) : Decided(p, VerdictOn(p, j), j)
      <4>1. PICK j \in Comparable(p) : Decided(p, VerdictOn(p, j), j)
        BY <3>2
      <4>2. j \in Items \ {pass[p].item} /\ memory[j] # None /\ memory[j].embedding \in Contents
        BY <1>1 DEF Comparable, Others, TypeOK, MemoryRow
      <4>3. Closeness(p, j) \in Int
        BY <1>1, <4>2, SimilarityTyped DEF Closeness
      <4>4. VerdictOn(p, j) \in Decisions
        BY <4>3, VerdictTyped DEF VerdictOn, OverlapAtLeast
      <4> QED
        BY <4>1, <4>2, <4>4
    <3> QED
      BY <2>3, <3>1, <3>2 DEF FindNearest
  <2> QED
    BY <2>1, <2>2, <2>3 DEF Classify
<1>4. CASE \E step \in {"byUrl", "nearest"} : Goto(p, step)
  <2>1. PICK step \in {"byUrl", "nearest"} : Goto(p, step)
    BY <1>4
  <2>2. step \in Steps
    BY DEF Steps
  <2>3. /\ pass' \in [Passes -> Pass] /\ Alone(p) /\ pass'[p].step = step
        /\ pass'[p].item = pass[p].item /\ pass'[p].snapshot = pass[p].snapshot
        /\ pass'[p].target = pass[p].target
    BY <1>1, <2>1, <2>2, GotoEffect
  <2>4. PassInv(p)'
    BY <1>1, <1>2, <2>3
       DEF PassInv, InHand, DecisionReady, LoggedFirst, RowWritten, TargetExists, Logged, Attaching
  <2> QED
    BY <1>1, <1>2, <2>3, <2>4 DEF GoodStep, TypeOK
<1>5. CASE \E decision \in Decisions, match \in Items \cup {None} :
             /\ decision = "DUPLICATE" =>
                  match \in Items \ {pass[p].item} /\ memory[match] # None
             /\ Decided(p, decision, match)
  <2>1. PICK decision \in Decisions, match \in Items \cup {None} :
             /\ decision = "DUPLICATE" =>
                  match \in Items \ {pass[p].item} /\ memory[match] # None
             /\ Decided(p, decision, match)
    BY <1>5
  <2>2. /\ pass' \in [Passes -> Pass] /\ Alone(p) /\ pass'[p].step = "decide"
        /\ pass'[p].item = pass[p].item /\ pass'[p].snapshot = pass[p].snapshot
        /\ pass'[p].decision = decision /\ pass'[p].match = match
        /\ pass'[p].target = pass[p].target
    BY <1>1, <2>1, DecidedEffect
  <2>3. PassInv(p)'
    BY <1>1, <1>2, <2>1, <2>2
       DEF PassInv, InHand, DecisionReady, LoggedFirst, RowWritten, TargetExists, Logged, Attaching
  <2> QED
    BY <1>1, <1>2, <2>2, <2>3 DEF GoodStep, TypeOK
<1> QED
  BY <1>3, <1>4, <1>5

\* Recording the verdict on the idea keeps every pass entitled to its place.
LEMMA DecideStep ==
  ASSUME Inv, NEW p \in Passes, Decide(p)
  PROVE  GoodStep(p)
<1>1. /\ TypeOK /\ pass \in [Passes -> Pass] /\ pass[p] \in Pass /\ PassInv(p)
      /\ pass[p].step = "decide"
      /\ pass[p].item \in Items /\ ideas[pass[p].item] \in Idea
      /\ pass[p].target \in 0 .. Len(stories) /\ Len(stories) \in Nat
  BY PassFacts DEF Decide
<1> DEFINE idea == Verdict(ideas[pass[p].item], pass[p].decision, pass[p].match)
<1>2. idea \in Idea /\ idea # None
  BY ZenonT(40), <1>1, NoneAssumption DEF Verdict, Idea, Pass
<1>3. /\ ideas' = [ideas EXCEPT ![pass[p].item] = idea]
      /\ UNCHANGED <<content, enabled, memory, log, stories, links, torn,
                     overlapped, starts, edits, failures>>
  BY DEF Decide, counters
<1> HIDE DEF idea
<1>4. /\ pass' \in [Passes -> Pass] /\ Alone(p) /\ pass'[p].step = "record"
      /\ pass'[p].item = pass[p].item /\ pass'[p].snapshot = pass[p].snapshot
      /\ pass'[p].decision = pass[p].decision /\ pass'[p].match = pass[p].match
      /\ pass'[p].target = pass[p].target
  <2>1. Goto(p, "record") /\ "record" \in Steps
    BY DEF Decide, Steps, SplitSteps
  <2> QED
    BY <1>1, <2>1, GotoEffect
<1>5. TypeOK' /\ Grows
  BY <1>1, <1>2, <1>3, <1>4 DEF TypeOK, Grows
<1>6. PassInv(p)'
  BY <1>1, <1>2, <1>3, <1>4
     DEF PassInv, InHand, DecisionReady, LoggedFirst, RowWritten, TargetExists, Logged, Attaching, TypeOK
<1> QED
  BY <1>4, <1>5, <1>6 DEF GoodStep

\* After recordDecision an item that was let through is in the log.
LEMMA RecordDecisionStep ==
  ASSUME Inv, NEW p \in Passes, RecordDecision(p)
  PROVE  GoodStep(p)
<1>1. /\ TypeOK /\ pass \in [Passes -> Pass] /\ pass[p] \in Pass /\ PassInv(p)
      /\ pass[p].step = "record" /\ pass[p].item \in Items
      /\ pass[p].target \in 0 .. Len(stories) /\ Len(stories) \in Nat
  BY PassFacts DEF RecordDecision
<1>2. /\ log' = log \cup {Entry(p)}
      /\ UNCHANGED <<content, enabled, ideas, memory, stories, links, torn,
                     overlapped, starts, edits, failures>>
  BY DEF RecordDecision, counters
<1>3. Entry(p) \in LogRow /\ Entry(p).item = pass[p].item
      /\ Entry(p).decision = pass[p].decision
  BY <1>1 DEF Entry, LogRow, Pass
<1>4. CASE pass[p].decision = "DUPLICATE"
  <2>1. /\ pass' \in [Passes -> Pass] /\ Alone(p)
        /\ pass'[p].step \in {"idle", "next"} /\ pass'[p].target = 0
    BY <1>1, <1>4, FinishItemEffect DEF RecordDecision
  <2>2. TypeOK' /\ Grows
    BY <1>1, <1>2, <1>3, <2>1 DEF TypeOK, Grows
  <2> QED
    BY <2>1, <2>2, RestingPass DEF GoodStep
<1>5. CASE pass[p].decision # "DUPLICATE"
  <2>1. Goto(p, "indexRow") /\ "indexRow" \in Steps
    BY <1>5 DEF RecordDecision, Steps
  <2>2. /\ pass' \in [Passes -> Pass] /\ Alone(p) /\ pass'[p].step = "indexRow"
        /\ pass'[p].item = pass[p].item /\ pass'[p].snapshot = pass[p].snapshot
        /\ pass'[p].target = pass[p].target
    BY <1>1, <2>1, GotoEffect
  <2>3. TypeOK' /\ Grows
    BY <1>1, <1>2, <1>3, <2>2 DEF TypeOK, Grows
  <2>4. Accepted(pass[p].item)'
    BY <1>2, <1>3, <1>5, <2>2 DEF Accepted
  <2>5. PassInv(p)'
    BY <1>1, <1>2, <2>2, <2>4
       DEF PassInv, InHand, DecisionReady, LoggedFirst, RowWritten, TargetExists, Logged,
           Attaching, Accepted
  <2> QED
    BY <2>2, <2>3, <2>5 DEF GoodStep
<1> QED
  BY <1>4, <1>5

\* The memory row is there before its embedding is written.
LEMMA IndexRowStep ==
  ASSUME Inv, NEW p \in Passes, IndexRow(p)
  PROVE  GoodStep(p)
<1>1. /\ TypeOK /\ pass \in [Passes -> Pass] /\ PassInv(p)
      /\ pass[p].step = "indexRow" /\ pass[p].item \in Items /\ Text(p) \in Contents
      /\ pass[p].target \in 0 .. Len(stories) /\ Len(stories) \in Nat
  BY PassFacts DEF IndexRow
<1> DEFINE old == memory[pass[p].item]
           row == Indexed(old, Text(p))
<1>2. /\ row \in MemoryRow /\ row # None
      /\ old # None => row.embedding = old.embedding
  BY <1>1, NoneAssumption DEF Indexed, MemoryRow, TypeOK
<1>3. /\ memory' = [memory EXCEPT ![pass[p].item] = row]
      /\ UNCHANGED <<content, enabled, ideas, log, stories, links, torn,
                     overlapped, starts, edits, failures>>
  BY DEF IndexRow, counters
<1>4. /\ pass' \in [Passes -> Pass] /\ Alone(p) /\ pass'[p].step = "indexEmbedding"
      /\ pass'[p].item = pass[p].item /\ pass'[p].snapshot = pass[p].snapshot
      /\ pass'[p].target = pass[p].target
  <2>1. Goto(p, "indexEmbedding") /\ "indexEmbedding" \in Steps
    BY DEF IndexRow, Steps, SplitSteps
  <2> QED
    BY <1>1, <2>1, GotoEffect
<1> HIDE DEF row
<1>5. TypeOK' /\ Grows
  BY <1>1, <1>2, <1>3, <1>4 DEF TypeOK, Grows
<1>6. PassInv(p)'
  BY <1>1, <1>2, <1>3, <1>4
     DEF PassInv, InHand, DecisionReady, LoggedFirst, RowWritten, TargetExists, Logged,
         Attaching, Accepted, TypeOK
<1> QED
  BY <1>4, <1>5, <1>6 DEF GoodStep

\* After the embedding, memory can find the item in both ways.
LEMMA IndexEmbeddingStep ==
  ASSUME Inv, NEW p \in Passes, IndexEmbedding(p)
  PROVE  GoodStep(p)
<1>1. /\ TypeOK /\ pass \in [Passes -> Pass] /\ PassInv(p)
      /\ pass[p].step = "indexEmbedding" /\ pass[p].item \in Items /\ Text(p) \in Contents
      /\ memory[pass[p].item] \in MemoryRow
      /\ pass[p].target \in 0 .. Len(stories) /\ Len(stories) \in Nat
  BY PassFacts DEF IndexEmbedding, PassInv, RowWritten, TypeOK
<1> DEFINE row == [memory[pass[p].item] EXCEPT !.embedding = Text(p)]
<1>2. row \in MemoryRow /\ row # None /\ row.embedding # None
  BY <1>1, NoneAssumption, NoneIsNoData DEF MemoryRow
<1>3. /\ memory' = [memory EXCEPT ![pass[p].item] = row]
      /\ UNCHANGED <<content, enabled, ideas, log, stories, links, torn,
                     overlapped, starts, edits, failures>>
  BY DEF IndexEmbedding, counters
<1>4. /\ pass' \in [Passes -> Pass] /\ Alone(p) /\ pass'[p].step = "readStories"
      /\ pass'[p].item = pass[p].item /\ pass'[p].snapshot = pass[p].snapshot
      /\ pass'[p].target = pass[p].target
  <2>1. Goto(p, "readStories") /\ "readStories" \in Steps
    BY DEF IndexEmbedding, Steps
  <2> QED
    BY <1>1, <2>1, GotoEffect
<1> HIDE DEF row
<1>5. TypeOK' /\ Grows
  BY <1>1, <1>2, <1>3, <1>4 DEF TypeOK, Grows
<1>6. PassInv(p)'
  BY <1>1, <1>2, <1>3, <1>4
     DEF PassInv, InHand, DecisionReady, LoggedFirst, RowWritten, TargetExists, Logged,
         Attaching, Accepted, TypeOK
<1> QED
  BY <1>4, <1>5, <1>6 DEF GoodStep

\* A story of the list is a story.
LEMMA StoryTyped ==
  ASSUME TypeOK, NEW s \in DOMAIN stories
  PROVE  /\ s \in 1 .. Len(stories)
         /\ stories[s].terms \in SUBSET Terms
         /\ stories[s].itemCount \in Nat
<1>1. stories \in Seq(Story)
  BY DEF TypeOK
<1>2. s \in 1 .. Len(stories) /\ stories[s] \in Story
  BY <1>1
<1> QED
  BY <1>2 DEF Story

\* A pass only aims at a story it has read.
LEMMA ReadStoriesStep ==
  ASSUME Inv, NEW p \in Passes, ReadStories(p)
  PROVE  GoodStep(p)
<1>1. /\ TypeOK /\ pass \in [Passes -> Pass] /\ pass[p] \in Pass /\ PassInv(p)
      /\ pass[p].step = "readStories" /\ pass[p].item \in Items
      /\ Len(stories) \in Nat /\ Len(stories) <= MaxStories
  BY PassFacts DEF ReadStories, TypeOK
<1>2. UNCHANGED <<content, enabled, ideas, memory, log, stories, links, torn,
                  overlapped, starts, edits, failures>>
  BY DEF ReadStories, rows, counters
<1>3. PICK target \in 0 .. Len(stories), seen \in SUBSET Terms :
        pass' = [pass EXCEPT ![p].step = "attach", ![p].target = target, ![p].seen = seen]
  <2>1. \A s \in DOMAIN stories : s \in 0 .. Len(stories) /\ stories[s].terms \in SUBSET Terms
    BY <1>1, StoryTyped
  <2>2. PICK W \in Windows :
          \/ \E s \in W : pass' = [pass EXCEPT ![p].step = "attach", ![p].target = s,
                                               ![p].seen = stories[s].terms]
          \/ pass' = [pass EXCEPT ![p].step = "attach", ![p].target = 0, ![p].seen = {}]
    BY DEF ReadStories
  <2>3. W \subseteq DOMAIN stories
    BY <2>2 DEF Windows
  <2>4. CASE \E s \in W : pass' = [pass EXCEPT ![p].step = "attach", ![p].target = s,
                                                 ![p].seen = stories[s].terms]
    BY <2>1, <2>3, <2>4
  <2>5. CASE pass' = [pass EXCEPT ![p].step = "attach", ![p].target = 0, ![p].seen = {}]
    <3>1. 0 \in 0 .. Len(stories) /\ {} \in SUBSET Terms
      BY <1>1
    <3> QED
      BY <2>5, <3>1
  <2> QED
    BY <2>2, <2>4, <2>5
<1> DEFINE next == [pass[p] EXCEPT !.step = "attach", !.target = target, !.seen = seen]
<1>4. pass' = [pass EXCEPT ![p] = next]
  BY <1>1, <1>3 DEF Pass
<1>5. /\ next \in Pass /\ next.step = "attach" /\ next.target = target
      /\ next.item = pass[p].item /\ next.snapshot = pass[p].snapshot
  <2>1. target \in 0 .. MaxStories
    BY <1>1, <1>3, BoundsAreNat
  <2> QED
    BY <1>1, <2>1 DEF Pass, Steps
<1> HIDE DEF next
<1>6. pass' \in [Passes -> Pass] /\ pass'[p] = next /\ Alone(p)
  BY <1>1, <1>4, <1>5 DEF Alone
<1>7. TypeOK' /\ Grows
  BY <1>1, <1>2, <1>6 DEF TypeOK, Grows
<1>8. PassInv(p)'
  BY <1>1, <1>2, <1>3, <1>5, <1>6
     DEF PassInv, InHand, DecisionReady, LoggedFirst, RowWritten, TargetExists, Logged,
         Attaching, Accepted
<1> QED
  BY <1>6, <1>7, <1>8 DEF GoodStep

\* After the attach, the story the pass aims at exists, joined or new.
LEMMA AttachStoryStep ==
  ASSUME Inv, NEW p \in Passes, AttachStory(p)
  PROVE  GoodStep(p)
<1>1. /\ TypeOK /\ pass \in [Passes -> Pass] /\ pass[p] \in Pass /\ PassInv(p)
      /\ pass[p].step = "attach" /\ pass[p].item \in Items /\ Text(p) \in Contents
      /\ pass[p].target \in 0 .. Len(stories)
      /\ stories \in Seq(Story) /\ Len(stories) \in Nat
      /\ TermsOf[Text(p)] \in SUBSET Terms
  BY PassFacts, TermsTyped DEF AttachStory, TypeOK
<1>2. UNCHANGED <<content, enabled, ideas, memory, log, links, torn,
                  overlapped, starts, edits, failures>>
  BY DEF AttachStory, counters
<1>3. /\ pass' \in [Passes -> Pass] /\ Alone(p) /\ pass'[p].step = "point"
      /\ pass'[p].item = pass[p].item /\ pass'[p].snapshot = pass[p].snapshot
      /\ pass'[p].target \in 1 .. Len(stories')
      /\ stories' \in Seq(Story) /\ Len(stories) <= Len(stories') /\ Len(stories') <= MaxStories
  <2>1. CASE pass[p].target # 0
    <3> DEFINE t == pass[p].target
               story == Joined(stories[t], pass[p].seen, TermsOf[Text(p)])
    <3>1. t \in 1 .. Len(stories)
      BY <1>1, <2>1
    <3>2. story \in Story
      BY <1>1, <3>1, StoryTyped DEF Joined, Story, Pass
    <3>3. stories' = [stories EXCEPT ![t] = story] /\ Goto(p, "point")
      BY <2>1 DEF AttachStory
    <3>4. "point" \in Steps
      BY DEF Steps
    <3> HIDE DEF story
    <3>5. stories' \in Seq(Story) /\ Len(stories') = Len(stories)
      BY <1>1, <3>1, <3>2, <3>3
    <3>6. /\ pass' \in [Passes -> Pass] /\ Alone(p) /\ pass'[p].step = "point"
          /\ pass'[p].item = pass[p].item /\ pass'[p].snapshot = pass[p].snapshot
          /\ pass'[p].target = t
      BY <1>1, <3>3, <3>4, GotoEffect
    <3> QED
      BY <1>1, <3>1, <3>5, <3>6 DEF TypeOK
  <2>2. CASE pass[p].target = 0
    <3> DEFINE t == Len(stories) + 1
               story == [terms |-> TermsOf[Text(p)], itemCount |-> 1]
               next == [pass[p] EXCEPT !.step = "point", !.target = t]
    <3>1. /\ Len(stories) < MaxStories
          /\ stories' = Append(stories, story)
          /\ pass' = [pass EXCEPT ![p] = next]
      BY <1>1, <2>2 DEF AttachStory, Pass
    <3>2. story \in Story
      BY <1>1 DEF Story
    <3>3. t \in 0 .. MaxStories
      BY <1>1, <3>1, BoundsAreNat
    <3>4. /\ next \in Pass /\ next.step = "point" /\ next.target = t
          /\ next.item = pass[p].item /\ next.snapshot = pass[p].snapshot
      BY <1>1, <3>3 DEF Pass, Steps
    <3> HIDE DEF story, next
    <3>5. stories' \in Seq(Story) /\ Len(stories') = t
      BY <1>1, <3>1, <3>2
    <3> QED
      BY <1>1, <3>1, <3>3, <3>4, <3>5 DEF Alone
  <2> QED
    BY <2>1, <2>2
<1>4. TypeOK' /\ Grows
  <2>1. links' \subseteq (1 .. Len(stories')) \X Items
    BY <1>1, <1>2, <1>3 DEF TypeOK
  <2> QED
    BY <1>1, <1>2, <1>3, <2>1 DEF TypeOK, Grows
<1>5. PassInv(p)'
  <2>1. Len(stories') \in Nat
    BY <1>3
  <2> QED
    BY <1>1, <1>2, <1>3, <2>1
       DEF PassInv, InHand, DecisionReady, LoggedFirst, RowWritten, TargetExists, Logged,
           Attaching, Accepted
<1> QED
  BY <1>3, <1>4, <1>5 DEF GoodStep

\* The idea points at an existing story.
LEMMA PointIdeaStep ==
  ASSUME Inv, NEW p \in Passes, PointIdea(p)
  PROVE  GoodStep(p)
<1>1. /\ TypeOK /\ pass \in [Passes -> Pass] /\ PassInv(p)
      /\ pass[p].step = "point" /\ pass[p].item \in Items /\ ideas[pass[p].item] \in Idea
      /\ pass[p].target \in 1 .. Len(stories) /\ Len(stories) \in Nat
      /\ pass[p].target \in 1 .. MaxStories
  <2>1. /\ TypeOK /\ pass \in [Passes -> Pass] /\ PassInv(p)
        /\ pass[p].step = "point" /\ pass[p].item \in Items /\ ideas[pass[p].item] \in Idea
        /\ pass[p].target \in 0 .. Len(stories) /\ Len(stories) \in Nat
    BY PassFacts DEF PointIdea
  <2>2. pass[p].target # 0
    BY <2>1 DEF PassInv, TargetExists
  <2> QED
    BY <2>1, <2>2, BoundsAreNat DEF TypeOK
<1> DEFINE idea == [ideas[pass[p].item] EXCEPT !.story = pass[p].target]
<1>2. idea \in Idea /\ idea # None
  BY <1>1, NoneAssumption DEF Idea
<1>3. /\ ideas' = [ideas EXCEPT ![pass[p].item] = idea]
      /\ UNCHANGED <<content, enabled, memory, log, stories, links, torn,
                     overlapped, starts, edits, failures>>
  BY DEF PointIdea, counters
<1>4. /\ pass' \in [Passes -> Pass] /\ Alone(p) /\ pass'[p].step = "link"
      /\ pass'[p].item = pass[p].item /\ pass'[p].snapshot = pass[p].snapshot
      /\ pass'[p].target = pass[p].target
  <2>1. Goto(p, "link") /\ "link" \in Steps
    BY DEF PointIdea, Steps, SplitSteps
  <2> QED
    BY <1>1, <2>1, GotoEffect
<1> HIDE DEF idea
<1>5. TypeOK' /\ Grows
  BY <1>1, <1>2, <1>3, <1>4 DEF TypeOK, Grows
<1>6. PassInv(p)'
  BY <1>1, <1>2, <1>3, <1>4
     DEF PassInv, InHand, DecisionReady, LoggedFirst, RowWritten, TargetExists, Logged,
         Attaching, Accepted, TypeOK
<1> QED
  BY <1>4, <1>5, <1>6 DEF GoodStep

\* The link is of an existing story.
LEMMA LinkItemStep ==
  ASSUME Inv, NEW p \in Passes, LinkItem(p)
  PROVE  GoodStep(p)
<1>1. /\ TypeOK /\ pass \in [Passes -> Pass] /\ pass[p].item \in Items
      /\ pass[p].target \in 1 .. Len(stories) /\ Len(stories) \in Nat
  BY PassFacts DEF LinkItem, PassInv, TargetExists
<1>2. /\ links' = links \cup {<<pass[p].target, pass[p].item>>}
      /\ UNCHANGED <<content, enabled, ideas, memory, log, stories, torn,
                     overlapped, starts, edits, failures>>
  BY DEF LinkItem, counters
<1>3. /\ pass' \in [Passes -> Pass] /\ Alone(p)
      /\ pass'[p].step \in {"idle", "next"} /\ pass'[p].target = 0
  BY <1>1, FinishItemEffect DEF LinkItem
<1>4. TypeOK' /\ Grows
  BY <1>1, <1>2, <1>3 DEF TypeOK, Grows
<1> QED
  BY <1>3, <1>4, RestingPass DEF GoodStep

\* A failure takes the pass back to rest and the tables nowhere.
LEMMA FailStep ==
  ASSUME Inv, NEW p \in Passes, Fail(p)
  PROVE  GoodStep(p)
<1>1. /\ TypeOK /\ pass \in [Passes -> Pass]
      /\ IdlePass.step = "idle" /\ IdlePass.target = 0
  BY PassFacts DEF IdlePass
<1>2. /\ UNCHANGED <<content, enabled, ideas, memory, log, stories, links, overlapped, starts, edits>>
      /\ pass' = [pass EXCEPT ![p] = IdlePass]
      /\ torn \subseteq torn' /\ torn' \subseteq torn \cup (Items \X SplitSteps)
      /\ failures' = failures + 1
  BY DEF Fail, rows
<1>3. /\ pass' \in [Passes -> Pass] /\ Alone(p)
      /\ pass'[p].step = "idle" /\ pass'[p].target = 0
  BY <1>1, <1>2, IdlePassTyped DEF Alone
<1>4. TypeOK' /\ Grows
  BY <1>1, <1>2, <1>3 DEF TypeOK, Grows
<1> QED
  BY <1>3, <1>4, RestingPass DEF GoodStep

\* A pass that starts has texts in its list and nothing in hand.
LEMMA BeginStep ==
  ASSUME Inv, NEW p \in Passes, NEW batch \in SUBSET Items, Begin(p, batch)
  PROVE  GoodStep(p)
<1>1. TypeOK /\ pass \in [Passes -> Pass]
  BY PassFacts
<1>2. PICK found \in SUBSET Items :
        /\ \A i \in found : content[i] # None
        /\ pass' = [pass EXCEPT ![p] =
             [IdlePass EXCEPT !.step = "next",
                !.snapshot = [i \in Items |-> IF i \in found THEN content[i] ELSE None]]]
  BY DEF Begin
<1>3. /\ UNCHANGED <<content, enabled, ideas, memory, log, stories, links, torn, edits, failures>>
      /\ starts' = starts + 1 /\ overlapped' \in BOOLEAN
  BY <1>1 DEF Begin, rows, TypeOK
<1> DEFINE batchRead == [i \in Items |-> IF i \in found THEN content[i] ELSE None]
           next == [IdlePass EXCEPT !.step = "next", !.snapshot = batchRead]
<1>4. batchRead \in Corpora
  BY <1>1 DEF TypeOK, Corpora
<1>5. next \in Pass /\ next.step = "next" /\ next.target = 0
  BY <1>4, IdlePassTyped DEF Pass, IdlePass, Steps
<1>6. pass' = [pass EXCEPT ![p] = next]
  BY <1>2
<1> HIDE DEF batchRead, next
<1>7. /\ pass' \in [Passes -> Pass] /\ Alone(p)
      /\ pass'[p].step = "next" /\ pass'[p].target = 0
  BY <1>1, <1>5, <1>6 DEF Alone
<1>8. TypeOK' /\ Grows
  BY <1>1, <1>3, <1>7 DEF TypeOK, Grows
<1> QED
  BY <1>7, <1>8, RestingPass DEF GoodStep

-----------------------------------------------------------------------------
(* Every step. *)

\* An edit of the tables from outside moves no pass.
LEMMA EditKeepsInv ==
  ASSUME Inv, TypeOK', Grows, pass' = pass
  PROVE  Inv'
BY Untouched DEF Inv

\* Every step keeps the invariant.
LEMMA InvStep ==
  ASSUME Inv, [Next]_vars
  PROVE  Inv' /\ Grows
<1>1. ASSUME NEW p \in Passes, GoodStep(p) PROVE Inv' /\ Grows
  BY <1>1, GoodStepKeepsInv
<1>2. CASE \E p \in Passes : Step(p)
  BY <1>1, <1>2, UpsertIdeaStep, ClassifyStep, DecideStep, RecordDecisionStep, IndexRowStep,
     IndexEmbeddingStep, ReadStoriesStep, AttachStoryStep, PointIdeaStep, LinkItemStep
     DEF Step, Commit, AttachIdea
<1>3. CASE \E p \in Passes : Fail(p)
  BY <1>1, <1>3, FailStep
<1>4. CASE \E s \in Sources : StartWorker(s)
  BY <1>1, <1>4, BeginStep DEF StartWorker, Passes
<1>5. CASE \E i \in Items, r \in Requests : StartReprocess(r, i)
  BY <1>1, <1>5, BeginStep DEF StartReprocess, Passes
<1>6. CASE \E i \in Items, c \in Contents : PersistItem(i, c)
  <2>1. PICK i \in Items, c \in Contents : PersistItem(i, c)
    BY <1>6
  <2>2. TypeOK' /\ Grows /\ pass' = pass
    BY <2>1 DEF PersistItem, Inv, TypeOK, Grows, Corpora, rows
  <2> QED
    BY <2>2, EditKeepsInv
<1>7. CASE \E s \in Sources : ToggleBinding(s)
  <2>1. PICK s \in Sources : ToggleBinding(s)
    BY <1>7
  <2>2. TypeOK' /\ Grows /\ pass' = pass
    BY <2>1 DEF ToggleBinding, Inv, TypeOK, Grows, rows
  <2> QED
    BY <2>2, EditKeepsInv
<1>8. CASE \E i \in Items : ArchiveIdea(i)
  <2>1. PICK i \in Items : ArchiveIdea(i)
    BY <1>8
  <2>2. Archived(ideas[i]) \in Idea /\ Archived(ideas[i]) # None
    BY <2>1, NoneAssumption DEF ArchiveIdea, Archived, Inv, TypeOK, Idea
  <2>3. TypeOK' /\ Grows /\ pass' = pass
    BY <2>1, <2>2 DEF ArchiveIdea, Inv, TypeOK, Grows, counters
  <2> QED
    BY <2>3, EditKeepsInv
<1>9. CASE UNCHANGED vars
  <2>1. TypeOK' /\ Grows /\ pass' = pass
    BY <1>9 DEF vars, counters, Inv, TypeOK, Grows
  <2> QED
    BY <2>1, EditKeepsInv
<1> QED
  BY <1>2, <1>3, <1>4, <1>5, <1>6, <1>7, <1>8, <1>9 DEF Next, Environment

\* The invariant holds throughout.
LEMMA Invariance == Spec => []Inv
<1>1. Inv /\ [Next]_vars => Inv'
  BY InvStep
<1> QED
  BY InitInv, <1>1, PTL DEF Spec

\* Every value stays what the code's types and columns allow.
THEOREM TypeCorrect == Spec => []TypeOK
<1>1. Inv => TypeOK
  BY DEF Inv
<1> QED
  BY Invariance, <1>1, PTL

-----------------------------------------------------------------------------
(* Who writes what, and which pass moves. *)

\* Ideas are written by four actions.
LEMMA IdeaWriters ==
  ASSUME [Next]_vars
  PROVE  \/ ideas' = ideas
         \/ \E i \in Items : ArchiveIdea(i)
         \/ \E p \in Passes : Decide(p) \/ PointIdea(p) \/ \E i \in Items : UpsertIdea(p, i)
<1>1. CASE \E p \in Passes : Classify(p) \/ Commit(p)
  BY <1>1 DEF Classify, Commit, FindByHash, FindByUrl, FindNearest, Prefilter, RecordDecision,
              IndexRow, IndexEmbedding, rows
<1>2. CASE \E p \in Passes : AttachIdea(p) \/ Fail(p)
  BY <1>2 DEF AttachIdea, ReadStories, AttachStory, LinkItem, Fail, rows
<1>3. CASE \E p \in Passes, i \in Items : UpsertIdea(p, i)
  BY <1>3
<1>4. CASE Environment
  BY <1>4 DEF Environment, PersistItem, ToggleBinding, StartWorker, StartReprocess, Begin, rows
<1>5. CASE UNCHANGED vars
  BY <1>5 DEF vars
<1> QED
  BY <1>1, <1>2, <1>3, <1>4, <1>5 DEF Next, Step

\* Memory is written by two actions.
LEMMA MemoryWriters ==
  ASSUME [Next]_vars
  PROVE  memory' = memory \/ \E p \in Passes : IndexRow(p) \/ IndexEmbedding(p)
<1>1. CASE \E p \in Passes : Classify(p) \/ Commit(p)
  BY <1>1 DEF Classify, Commit, FindByHash, FindByUrl, FindNearest, Prefilter, Decide,
              RecordDecision, rows
<1>2. CASE \E p \in Passes : AttachIdea(p) \/ Fail(p)
  BY <1>2 DEF AttachIdea, ReadStories, AttachStory, PointIdea, LinkItem, Fail, rows
<1>3. CASE \E p \in Passes, i \in Items : UpsertIdea(p, i)
  BY <1>3 DEF UpsertIdea
<1>4. CASE Environment
  BY <1>4 DEF Environment, PersistItem, ToggleBinding, ArchiveIdea, StartWorker,
              StartReprocess, Begin, rows
<1>5. CASE UNCHANGED vars
  BY <1>5 DEF vars
<1> QED
  BY <1>1, <1>2, <1>3, <1>4, <1>5 DEF Next, Step

\* A pass that has just written an idea stays put, writes what belongs to it, or fails.
LEMMA HalfDoneMoves ==
  ASSUME Inv, [Next]_vars, NEW p \in Passes
  PROVE  /\ pass[p].step = "record" => pass'[p] = pass[p] \/ RecordDecision(p) \/ Fail(p)
         /\ pass[p].step = "link" => pass'[p] = pass[p] \/ LinkItem(p) \/ Fail(p)
<1>1. ASSUME NEW q \in Passes, GoodStep(q) PROVE q = p \/ pass'[p] = pass[p]
  BY <1>1 DEF GoodStep, Alone
<1>2. CASE \E q \in Passes, i \in Items : UpsertIdea(q, i)
  BY <1>1, <1>2, UpsertIdeaStep DEF UpsertIdea
<1>3. CASE \E q \in Passes : Classify(q)
  BY <1>1, <1>3, ClassifyStep DEF Classify, FindByHash, FindByUrl, FindNearest, Prefilter
<1>4. CASE \E q \in Passes : Commit(q)
  BY <1>1, <1>4, DecideStep, RecordDecisionStep, IndexRowStep, IndexEmbeddingStep
     DEF Commit, Decide, RecordDecision, IndexRow, IndexEmbedding
<1>5. CASE \E q \in Passes : AttachIdea(q)
  BY <1>1, <1>5, ReadStoriesStep, AttachStoryStep, PointIdeaStep, LinkItemStep
     DEF AttachIdea, ReadStories, AttachStory, PointIdea, LinkItem
<1>6. CASE \E q \in Passes : Fail(q)
  BY <1>1, <1>6, FailStep
<1>7. CASE \E s \in Sources : StartWorker(s)
  BY <1>1, <1>7, BeginStep DEF StartWorker, Begin, Passes
<1>8. CASE \E i \in Items, r \in Requests : StartReprocess(r, i)
  BY <1>1, <1>8, BeginStep DEF StartReprocess, Begin, Passes
<1>9. CASE \/ \E i \in Items, c \in Contents : PersistItem(i, c)
           \/ \E s \in Sources : ToggleBinding(s)
           \/ \E i \in Items : ArchiveIdea(i)
  BY <1>9 DEF PersistItem, ToggleBinding, ArchiveIdea
<1>10. CASE UNCHANGED vars
  BY <1>10 DEF vars
<1> QED
  BY <1>2, <1>3, <1>4, <1>5, <1>6, <1>7, <1>8, <1>9, <1>10 DEF Next, Step, Environment
-----------------------------------------------------------------------------
(* What is promised of ideas. *)

\* Each writer of an idea keeps status, decision and reason in step.
LEMMA ReasonIffRejectedStep ==
  ASSUME Inv, ReasonIffRejected, [Next]_vars
  PROVE  ReasonIffRejected'
<1> DEFINE Fine(idea) ==
      /\ idea.status = "REJECTED" <=> idea.reason # None
      /\ idea.status = "REJECTED" => idea.decision = "DUPLICATE"
      /\ idea.status = "CANDIDATE" => idea.decision # "DUPLICATE"
<1>1. TypeOK /\ TypeOK' /\ \A i \in Items : ideas[i] # None => ideas[i] \in Idea /\ Fine(ideas[i])
  BY InvStep DEF Inv, TypeOK, ReasonIffRejected
<1>2. ASSUME NEW i \in Items, NEW idea, ideas' = [ideas EXCEPT ![i] = idea], Fine(idea)
      PROVE  ReasonIffRejected'
  <2> HIDE DEF Fine
  <2>1. \A j \in Items : ideas'[j] # None => Fine(ideas'[j])
    BY <1>1, <1>2 DEF TypeOK
  <2> QED
    BY <2>1 DEF ReasonIffRejected, Fine
<1>3. CASE ideas' = ideas
  BY <1>3 DEF ReasonIffRejected
<1>4. CASE \E i \in Items : ArchiveIdea(i)
  <2>1. PICK i \in Items : ArchiveIdea(i)
    BY <1>4
  <2>2. ideas' = [ideas EXCEPT ![i] = Archived(ideas[i])] /\ ideas[i] \in Idea
    BY <1>1, <2>1 DEF ArchiveIdea
  <2>3. Fine(Archived(ideas[i]))
    BY <2>2 DEF Archived, Idea
  <2> QED
    BY <1>2, <2>2, <2>3
<1>5. CASE \E p \in Passes, i \in Items : UpsertIdea(p, i)
  <2>1. PICK p \in Passes, i \in Items : UpsertIdea(p, i)
    BY <1>5
  <2> DEFINE idea == Upserted(ideas[i], pass[p].snapshot[i])
  <2>2. ideas' = [ideas EXCEPT ![i] = idea]
    BY <2>1 DEF UpsertIdea
  <2>3. Fine(idea)
    BY <1>1 DEF Upserted, Idea
  <2> QED
    BY <1>2, <2>2, <2>3
<1>6. CASE \E p \in Passes : Decide(p)
  <2>1. PICK p \in Passes : Decide(p)
    BY <1>6
  <2> DEFINE i == pass[p].item
             idea == Verdict(ideas[i], pass[p].decision, pass[p].match)
  <2>2. /\ ideas' = [ideas EXCEPT ![i] = idea]
        /\ pass[p].step = "decide"
    BY <2>1 DEF Decide
  <2>3. /\ i \in Items /\ ideas[i] \in Idea /\ pass[p] \in Pass
        /\ pass[p].decision = "DUPLICATE" => pass[p].match \in Items
    BY <2>2, PassFacts DEF PassInv, DecisionReady
  <2>4. Fine(idea)
    BY <2>3, NoneIsNoData DEF Verdict, Idea, Pass
  <2> QED
    BY <1>2, <2>2, <2>3, <2>4
<1>7. CASE \E p \in Passes : PointIdea(p)
  <2>1. PICK p \in Passes : PointIdea(p)
    BY <1>7
  <2> DEFINE i == pass[p].item
             idea == [ideas[i] EXCEPT !.story = pass[p].target]
  <2>2. i \in Items /\ ideas[i] \in Idea /\ ideas[i] # None
    BY <2>1, PassFacts, NoneAssumption DEF PointIdea
  <2>3. ideas' = [ideas EXCEPT ![i] = idea]
    BY <2>1 DEF PointIdea
  <2>4. Fine(idea)
    BY <1>1, <2>2 DEF Idea
  <2> QED
    BY <1>2, <2>2, <2>3, <2>4
<1> QED
  BY <1>3, <1>4, <1>5, <1>6, <1>7, IdeaWriters

\* A rejected idea keeps its reason and no other idea has one, whichever of discovery,
\* reprocessing and archiving wrote the row last.
THEOREM RejectionHasReason == Spec => []ReasonIffRejected
<1>1. Init => ReasonIffRejected
  BY DEF Init, ReasonIffRejected
<1>2. Inv /\ ReasonIffRejected /\ [Next]_vars => ReasonIffRejected'
  BY ReasonIffRejectedStep
<1> QED
  BY Invariance, <1>1, <1>2, PTL DEF Spec

\* Memory holds only what the decision log shows was let through.
THEOREM ClassifyFirstIndexSecond == Spec => []IndexedWasAccepted
<1>1. Init => IndexedWasAccepted
  BY DEF Init, IndexedWasAccepted
<1>2. ASSUME Inv, IndexedWasAccepted, [Next]_vars PROVE IndexedWasAccepted'
  <2>1. \A i \in Items : Accepted(i) => Accepted(i)'
    BY <1>2, InvStep DEF Grows, Accepted
  <2>2. CASE memory' = memory
    BY <1>2, <2>1, <2>2 DEF IndexedWasAccepted
  <2>3. CASE \E p \in Passes : IndexRow(p) \/ IndexEmbedding(p)
    <3>1. PICK p \in Passes : IndexRow(p) \/ IndexEmbedding(p)
      BY <2>3
    <3>2. pass[p].step \in Logged /\ PassInv(p) /\ pass[p].item \in Items
      BY <1>2, <3>1, PassFacts DEF IndexRow, IndexEmbedding, Logged
    <3>3. Accepted(pass[p].item)
      BY <3>2 DEF PassInv, LoggedFirst
    <3>4. \A i \in Items \ {pass[p].item} : memory'[i] = memory[i]
      BY <1>2, <3>1 DEF IndexRow, IndexEmbedding, Inv, TypeOK
    <3> QED
      BY <1>2, <2>1, <3>3, <3>4 DEF IndexedWasAccepted
  <2> QED
    BY <1>2, <2>2, <2>3, MemoryWriters
<1> QED
  BY Invariance, <1>1, <1>2, PTL DEF Spec

\* Where an idea's reason and its story come from.
LEMMA IdeaFates ==
  ASSUME Inv, [Next]_vars, NEW i \in Items, ideas'[i] # None
  PROVE  /\ \/ ideas'[i].reason = None
            \/ ideas[i] # None /\ ideas'[i].reason = ideas[i].reason
            \/ \E p \in Passes : /\ Decide(p) /\ pass[p].item = i
                                 /\ pass[p].decision = "DUPLICATE"
                                 /\ ideas'[i].reason = pass[p].match
         /\ \/ ideas'[i].story = None
            \/ ideas[i] # None /\ ideas'[i].story = ideas[i].story
            \/ \E p \in Passes : /\ PointIdea(p) /\ pass[p].item = i
                                 /\ ideas'[i].story = pass[p].target
<1>1. TypeOK /\ (ideas[i] # None => ideas[i] \in Idea)
  BY DEF Inv, TypeOK
<1>2. CASE ideas'[i] = ideas[i]
  BY <1>2
<1>3. CASE \E j \in Items : ArchiveIdea(j)
  BY <1>1, <1>3 DEF ArchiveIdea, Archived, TypeOK, Idea
<1>4. CASE \E p \in Passes, j \in Items : UpsertIdea(p, j)
  <2>1. PICK p \in Passes, j \in Items : UpsertIdea(p, j)
    BY <1>4
  <2>2. CASE j = i
    <3>1. ideas'[i] = Upserted(ideas[i], pass[p].snapshot[i])
      BY <1>1, <2>1, <2>2 DEF UpsertIdea, TypeOK
    <3> QED
      BY <1>1, <3>1 DEF Upserted, Idea
  <2>3. CASE j # i
    BY <1>1, <1>2, <2>1, <2>3 DEF UpsertIdea, TypeOK
  <2> QED
    BY <2>2, <2>3
<1>5. CASE \E p \in Passes : Decide(p)
  <2>1. PICK p \in Passes : Decide(p)
    BY <1>5
  <2>2. CASE pass[p].item = i
    <3>1. ideas'[i] = Verdict(ideas[i], pass[p].decision, pass[p].match) /\ ideas[i] \in Idea
      BY <1>1, <2>1, <2>2, PassFacts DEF Decide, TypeOK
    <3>2. ideas[i] # None
      BY <3>1, NoneAssumption
    <3>3. /\ ideas'[i].story = ideas[i].story
          /\ ideas'[i].reason = IF pass[p].decision = "DUPLICATE" THEN pass[p].match ELSE None
      BY <3>1 DEF Verdict, Idea
    <3> QED
      BY <2>1, <2>2, <3>2, <3>3
  <2>3. CASE pass[p].item # i
    BY <1>1, <1>2, <2>1, <2>3 DEF Decide, TypeOK
  <2> QED
    BY <2>2, <2>3
<1>6. CASE \E p \in Passes : PointIdea(p)
  <2>1. PICK p \in Passes : PointIdea(p)
    BY <1>6
  <2>2. CASE pass[p].item = i
    <3>1. ideas'[i] = [ideas[i] EXCEPT !.story = pass[p].target] /\ ideas[i] \in Idea
      BY <1>1, <2>1, <2>2, PassFacts DEF PointIdea, TypeOK
    <3>2. ideas[i] # None
      BY <3>1, NoneAssumption
    <3>3. ideas'[i].story = pass[p].target /\ ideas'[i].reason = ideas[i].reason
      BY <3>1 DEF Idea
    <3> QED
      BY <2>1, <2>2, <3>2, <3>3
  <2>3. CASE pass[p].item # i
    BY <1>1, <1>2, <2>1, <2>3 DEF PointIdea, TypeOK
  <2> QED
    BY <2>2, <2>3
<1> QED
  BY <1>2, <1>3, <1>4, <1>5, <1>6, IdeaWriters

\* An idea is blocked by another idea, and by one that memory still holds.
THEOREM NeverBlockedByItself == Spec => []BlockedByAnother
<1>1. Init => BlockedByAnother
  BY DEF Init, BlockedByAnother
<1>2. ASSUME Inv, BlockedByAnother, [Next]_vars PROVE BlockedByAnother'
  <2> SUFFICES ASSUME NEW i \in Items, ideas'[i] # None, ideas'[i].reason # None
               PROVE  ideas'[i].reason # i /\ memory'[ideas'[i].reason] # None
    BY DEF BlockedByAnother
  <2>1. CASE ideas[i] # None /\ ideas'[i].reason = ideas[i].reason
    <3>1. ideas[i].reason \in Items
      BY <1>2, <2>1 DEF Inv, TypeOK, Idea
    <3> QED
      BY <1>2, <2>1, <3>1, InvStep DEF BlockedByAnother, Grows
  <2>2. CASE \E p \in Passes : /\ Decide(p) /\ pass[p].item = i
                               /\ pass[p].decision = "DUPLICATE"
                               /\ ideas'[i].reason = pass[p].match
    BY <1>2, <2>2, PassFacts, InvStep DEF Decide, PassInv, DecisionReady, Grows
  <2> QED
    BY <1>2, <2>1, <2>2, IdeaFates
<1> QED
  BY Invariance, <1>1, <1>2, PTL DEF Spec

\* Every rejection is in the decision log, or is about to be, or its pass failed there.
THEOREM RejectionsAreLogged == Spec => []RejectionIsLogged
<1> DEFINE Row(i, match) == [item |-> i, decision |-> "DUPLICATE", match |-> match]
           About(p, i, match) == /\ At(p, "record", i)
                                 /\ pass[p].decision = "DUPLICATE" /\ pass[p].match = match
           Traced(i, match) == \/ Row(i, match) \in log
                               \/ \E p \in Passes : About(p, i, match)
                               \/ <<i, "record">> \in torn
<1>1. Init => RejectionIsLogged
  BY DEF Init, RejectionIsLogged
<1>2. ASSUME Inv, RejectionIsLogged, [Next]_vars PROVE RejectionIsLogged'
  <2> SUFFICES ASSUME NEW i \in Items, NEW match, match # None,
                      ideas'[i] # None, match = ideas'[i].reason
               PROVE  Traced(i, match)'
    BY DEF RejectionIsLogged
  <2>1. ASSUME NEW p \in Passes, About(p, i, match) PROVE Traced(i, match)'
    <3>1. CASE pass'[p] = pass[p]
      BY <2>1, <3>1 DEF At
    <3>2. CASE RecordDecision(p)
      BY <2>1, <3>2 DEF At, RecordDecision, Entry
    <3>3. CASE Fail(p)
      BY <2>1, <3>3 DEF At, Fail, SplitSteps
    <3> QED
      BY <1>2, <2>1, <3>1, <3>2, <3>3, HalfDoneMoves DEF At
  <2>2. CASE ideas[i] # None /\ match = ideas[i].reason
    <3>1. Traced(i, match)
      BY <1>2, <2>2 DEF RejectionIsLogged
    <3>2. CASE Row(i, match) \in log \/ <<i, "record">> \in torn
      BY <1>2, <3>2, InvStep DEF Grows
    <3> QED
      BY <2>1, <3>1, <3>2
  <2>3. CASE \E p \in Passes : /\ Decide(p) /\ pass[p].item = i
                               /\ pass[p].decision = "DUPLICATE"
                               /\ match = pass[p].match
    <3>1. PICK p \in Passes : /\ Decide(p) /\ pass[p].item = i
                              /\ pass[p].decision = "DUPLICATE" /\ match = pass[p].match
      BY <2>3
    <3>2. Goto(p, "record") /\ "record" \in Steps /\ pass \in [Passes -> Pass]
      BY <1>2, <3>1, PassFacts DEF Decide, Steps, SplitSteps
    <3>3. /\ pass'[p].step = "record" /\ pass'[p].item = i
          /\ pass'[p].decision = "DUPLICATE" /\ pass'[p].match = match
      BY <3>1, <3>2, GotoEffect
    <3> QED
      BY <3>3 DEF At
  <2> QED
    BY <1>2, <2>2, <2>3, IdeaFates
<1> QED
  BY Invariance, <1>1, <1>2, PTL DEF Spec

\* Memory can find every idea that is part of a story.
THEOREM StoriesAreInMemory == Spec => []StoryMembersIndexed
<1>1. Init => StoryMembersIndexed
  BY DEF Init, StoryMembersIndexed
<1>2. ASSUME Inv, StoryMembersIndexed, [Next]_vars PROVE StoryMembersIndexed'
  <2> SUFFICES ASSUME NEW i \in Items, ideas'[i] # None, ideas'[i].story # None
               PROVE  memory'[i] # None /\ memory'[i].embedding # None
    BY DEF StoryMembersIndexed
  <2>1. CASE ideas[i] # None /\ ideas'[i].story = ideas[i].story
    BY <1>2, <2>1, InvStep DEF StoryMembersIndexed, Grows
  <2>2. CASE \E p \in Passes : /\ PointIdea(p) /\ pass[p].item = i
                               /\ ideas'[i].story = pass[p].target
    BY <1>2, <2>2, PassFacts, InvStep DEF PointIdea, PassInv, RowWritten, Attaching, Grows
  <2> QED
    BY <1>2, <2>1, <2>2, IdeaFates
<1> QED
  BY Invariance, <1>1, <1>2, PTL DEF Spec

\* The timeline of a story shows every idea that points at it, or is about to, or the
\* pass that moved the idea failed in between.
THEOREM TimelinesShowTheirIdeas == Spec => []StoryPointerLinked
<1> DEFINE About(p, i, s) == At(p, "link", i) /\ pass[p].target = s
           Shown(i, s) == \/ <<s, i>> \in links
                          \/ \E p \in Passes : About(p, i, s)
                          \/ <<i, "link">> \in torn
<1>1. Init => StoryPointerLinked
  BY DEF Init, StoryPointerLinked
<1>2. ASSUME Inv, StoryPointerLinked, [Next]_vars PROVE StoryPointerLinked'
  <2> SUFFICES ASSUME NEW i \in Items, NEW s, s # None,
                      ideas'[i] # None, s = ideas'[i].story
               PROVE  Shown(i, s)'
    BY DEF StoryPointerLinked
  <2>1. ASSUME NEW p \in Passes, About(p, i, s) PROVE Shown(i, s)'
    <3>1. CASE pass'[p] = pass[p]
      BY <2>1, <3>1 DEF At
    <3>2. CASE LinkItem(p)
      BY <2>1, <3>2 DEF At, LinkItem
    <3>3. CASE Fail(p)
      BY <2>1, <3>3 DEF At, Fail, SplitSteps
    <3> QED
      BY <1>2, <2>1, <3>1, <3>2, <3>3, HalfDoneMoves DEF At
  <2>2. CASE ideas[i] # None /\ s = ideas[i].story
    <3>1. Shown(i, s)
      BY <1>2, <2>2 DEF StoryPointerLinked
    <3>2. CASE <<s, i>> \in links \/ <<i, "link">> \in torn
      BY <1>2, <3>2, InvStep DEF Grows
    <3> QED
      BY <2>1, <3>1, <3>2
  <2>3. CASE \E p \in Passes : PointIdea(p) /\ pass[p].item = i /\ s = pass[p].target
    <3>1. PICK p \in Passes : PointIdea(p) /\ pass[p].item = i /\ s = pass[p].target
      BY <2>3
    <3>2. Goto(p, "link") /\ "link" \in Steps /\ pass \in [Passes -> Pass]
      BY <1>2, <3>1, PassFacts DEF PointIdea, Steps, SplitSteps
    <3>3. pass'[p].step = "link" /\ pass'[p].item = i /\ pass'[p].target = s
      BY <3>1, <3>2, GotoEffect
    <3> QED
      BY <3>3 DEF At
  <2> QED
    BY <1>2, <2>2, <2>3, IdeaFates
<1> QED
  BY Invariance, <1>1, <1>2, PTL DEF Spec
-----------------------------------------------------------------------------
(***************************************************************************)
(* A story's itemCount covers its timeline.  Two passes may link the same  *)
(* item and a pass may fail after it counted, so what is invariant is an   *)
(* inequality that also counts the passes that still owe a link.           *)
(***************************************************************************)

\* The passes that have counted their item in story s and not linked it yet.
Incoming(s) == {p \in Passes : pass[p].step \in {"point", "link"} /\ pass[p].target = s}

CountInv ==
  \A s \in DOMAIN stories :
    Cardinality(Members(s)) + Cardinality(Incoming(s)) <= stories[s].itemCount

\* The sets whose sizes are compared are finite.
LEMMA SmallSets ==
  ASSUME NEW s
  PROVE  /\ IsFiniteSet(Members(s)) /\ Cardinality(Members(s)) \in Nat
         /\ IsFiniteSet(Incoming(s)) /\ Cardinality(Incoming(s)) \in Nat
<1>1. Members(s) \in SUBSET Items /\ Incoming(s) \in SUBSET Passes
  BY DEF Members, Incoming
<1>2. IsFiniteSet(Members(s)) /\ IsFiniteSet(Incoming(s))
  BY <1>1, DiscoveryAssumption, FS_Subset
<1> QED
  BY <1>2, FS_CardinalityType

\* Only three actions change what a story counts, shows or is owed.
LEMMA CountMoves ==
  ASSUME Inv, [Next]_vars
  PROVE  \/ \E p \in Passes : AttachStory(p) \/ LinkItem(p)
         \/ /\ links' = links /\ stories' = stories
            /\ \A s \in Nat : Incoming(s)' \subseteq Incoming(s)
<1>1. ASSUME NEW p \in Passes, GoodStep(p), links' = links, stories' = stories,
             \/ pass'[p].step \notin {"point", "link"}
             \/ /\ pass[p].step \in {"point", "link"}
                /\ pass'[p].target = pass[p].target
      PROVE  /\ links' = links /\ stories' = stories
             /\ \A s \in Nat : Incoming(s)' \subseteq Incoming(s)
  BY <1>1 DEF GoodStep, Alone, Incoming
<1>2. CASE \E p \in Passes, i \in Items : UpsertIdea(p, i)
  <2>1. PICK p \in Passes, i \in Items : UpsertIdea(p, i)
    BY <1>2
  <2>2. pass'[p].step = "byHash"
    BY <2>1, PassFacts DEF UpsertIdea, Pass
  <2> QED
    BY <1>1, <2>1, <2>2, UpsertIdeaStep DEF UpsertIdea
<1>3. CASE \E p \in Passes : Classify(p)
  <2>1. PICK p \in Passes : Classify(p)
    BY <1>3
  <2>2. pass'[p].step \in {"byUrl", "nearest", "decide"}
    <3>1. ASSUME NEW step, Goto(p, step) PROVE pass'[p].step = step
      BY <3>1, PassFacts DEF Goto, Pass
    <3>2. ASSUME NEW decision, NEW match, Decided(p, decision, match)
          PROVE  pass'[p].step = "decide"
      BY <3>2, PassFacts DEF Decided, Pass
    <3> QED
      BY <2>1, <3>1, <3>2 DEF Classify, FindByHash, FindByUrl, FindNearest, Prefilter
  <2>3. links' = links /\ stories' = stories
    BY <2>1 DEF Classify, FindByHash, FindByUrl, FindNearest, Prefilter, rows
  <2> QED
    BY <1>1, <2>1, <2>2, <2>3, ClassifyStep
<1>4. CASE \E p \in Passes : Commit(p)
  <2>1. PICK p \in Passes : Commit(p)
    BY <1>4
  <2>2. pass'[p].step \notin {"point", "link"}
    <3>1. CASE RecordDecision(p) /\ pass[p].decision = "DUPLICATE"
      BY <3>1, PassFacts, FinishItemEffect DEF RecordDecision
    <3>2. CASE \E step \in {"record", "indexRow", "indexEmbedding", "readStories"} : Goto(p, step)
      BY <3>2, PassFacts DEF Goto, Pass
    <3> QED
      BY <2>1, <3>1, <3>2 DEF Commit, Decide, RecordDecision, IndexRow, IndexEmbedding
  <2>3. links' = links /\ stories' = stories
    BY <2>1 DEF Commit, Decide, RecordDecision, IndexRow, IndexEmbedding
  <2>4. GoodStep(p)
    BY <2>1, DecideStep, RecordDecisionStep, IndexRowStep, IndexEmbeddingStep DEF Commit
  <2> QED
    BY <1>1, <2>2, <2>3, <2>4
<1>5. CASE \E p \in Passes : ReadStories(p)
  <2>1. PICK p \in Passes : ReadStories(p)
    BY <1>5
  <2>2. PICK target, seen :
          pass' = [pass EXCEPT ![p].step = "attach", ![p].target = target, ![p].seen = seen]
    BY <2>1 DEF ReadStories
  <2>3. pass'[p].step = "attach"
    BY <2>1, <2>2, PassFacts DEF Pass
  <2> QED
    BY <1>1, <2>1, <2>3, ReadStoriesStep DEF ReadStories, rows
<1>6. CASE \E p \in Passes : PointIdea(p)
  <2>1. PICK p \in Passes : PointIdea(p)
    BY <1>6
  <2>2. pass[p].step = "point" /\ pass'[p].target = pass[p].target
    BY <2>1, PassFacts DEF PointIdea, Goto, Pass
  <2> QED
    BY <1>1, <2>1, <2>2, PointIdeaStep DEF PointIdea
<1>7. CASE \E p \in Passes : Fail(p)
  <2>1. PICK p \in Passes : Fail(p)
    BY <1>7
  <2>2. pass'[p].step = "idle"
    BY <2>1, PassFacts DEF Fail, IdlePass
  <2> QED
    BY <1>1, <2>1, <2>2, FailStep DEF Fail, rows
<1>8. ASSUME NEW p \in Passes, NEW batch \in SUBSET Items, Begin(p, batch)
      PROVE  /\ links' = links /\ stories' = stories
             /\ \A s \in Nat : Incoming(s)' \subseteq Incoming(s)
  <2>1. pass'[p].step = "next"
    BY <1>8, PassFacts DEF Begin, IdlePass
  <2> QED
    BY <1>1, <1>8, <2>1, BeginStep DEF Begin, rows
<1>9. CASE \/ \E s \in Sources : StartWorker(s)
           \/ \E i \in Items, r \in Requests : StartReprocess(r, i)
  BY <1>8, <1>9 DEF StartWorker, StartReprocess, Passes
<1>10. CASE \/ \E i \in Items, c \in Contents : PersistItem(i, c)
            \/ \E s \in Sources : ToggleBinding(s)
            \/ \E i \in Items : ArchiveIdea(i)
            \/ UNCHANGED vars
  BY <1>10 DEF PersistItem, ToggleBinding, ArchiveIdea, rows, vars, Incoming
<1> QED
  BY <1>2, <1>3, <1>4, <1>5, <1>6, <1>7, <1>9, <1>10
     DEF Next, Step, AttachIdea, Environment

\* Each step keeps the count ahead.
LEMMA CountStep ==
  ASSUME Inv, CountInv, [Next]_vars
  PROVE  CountInv'
<1>1. TypeOK /\ TypeOK' /\ Len(stories) \in Nat /\ Len(stories') \in Nat
      /\ DOMAIN stories = 1 .. Len(stories) /\ DOMAIN stories' = 1 .. Len(stories')
  BY InvStep DEF Inv, TypeOK
<1>2. \A s \in DOMAIN stories : s \in Nat /\ stories[s].itemCount \in Nat
  BY <1>1, StoryTyped
<1>3. CASE /\ links' = links /\ stories' = stories
           /\ \A s \in Nat : Incoming(s)' \subseteq Incoming(s)
  <2> SUFFICES ASSUME NEW s \in DOMAIN stories
               PROVE  Cardinality(Members(s)') + Cardinality(Incoming(s)') <= stories[s].itemCount
    BY <1>3 DEF CountInv
  <2>1. Members(s)' = Members(s)
    BY <1>3 DEF Members
  <2>2. Incoming(s)' \in SUBSET Incoming(s)
    BY <1>2, <1>3
  <2>3. /\ Cardinality(Incoming(s)') <= Cardinality(Incoming(s))
        /\ Cardinality(Incoming(s)') \in Nat
    BY <2>2, SmallSets, FS_Subset, FS_CardinalityType
  <2> QED
    BY <1>2, <2>1, <2>3, SmallSets DEF CountInv
<1>4. CASE \E p \in Passes : LinkItem(p)
  <2>1. PICK p \in Passes : LinkItem(p)
    BY <1>4
  <2>2. /\ pass[p].step = "link" /\ pass'[p].step \in {"idle", "next"} /\ Alone(p)
        /\ stories' = stories
        /\ links' = links \cup {<<pass[p].target, pass[p].item>>} /\ pass[p].item \in Items
    BY <2>1, PassFacts, FinishItemEffect DEF LinkItem
  <2> SUFFICES ASSUME NEW s \in DOMAIN stories
               PROVE  Cardinality(Members(s)') + Cardinality(Incoming(s)') <= stories[s].itemCount
    BY <2>2 DEF CountInv
  <2>3. CASE s = pass[p].target
    <3>1. Members(s)' = Members(s) \cup {pass[p].item}
      BY <2>2, <2>3 DEF Members
    <3>2. Incoming(s)' = Incoming(s) \ {p} /\ p \in Incoming(s)
      BY <2>2, <2>3 DEF Incoming, Alone
    <3>3. /\ Cardinality(Members(s)') \in Nat
          /\ Cardinality(Members(s)') <= Cardinality(Members(s)) + 1
      <4>1. /\ IsFiniteSet(Members(s)) /\ Cardinality(Members(s)) \in Nat
        BY SmallSets
      <4>2. Cardinality(Members(s) \cup {pass[p].item})
              \in {Cardinality(Members(s)), Cardinality(Members(s)) + 1}
        BY <4>1, FS_AddElement
      <4> QED
        BY <3>1, <4>1, <4>2
    <3>4. Cardinality(Incoming(s)') = Cardinality(Incoming(s)) - 1
      BY <3>2, SmallSets, FS_RemoveElement
    <3> QED
      BY <1>2, <3>3, <3>4, SmallSets DEF CountInv
  <2>4. CASE s # pass[p].target
    <3>1. Members(s)' = Members(s) /\ Incoming(s)' = Incoming(s)
      BY <2>2, <2>4 DEF Members, Incoming, Alone
    <3> QED
      BY <3>1 DEF CountInv
  <2> QED
    BY <2>3, <2>4
<1>5. CASE \E p \in Passes : AttachStory(p)
  <2>1. PICK p \in Passes : AttachStory(p)
    BY <1>5
  <2>2. /\ pass \in [Passes -> Pass] /\ pass[p] \in Pass /\ pass[p].step = "attach"
        /\ links' = links /\ Alone(p) /\ pass[p].target \in 0 .. Len(stories)
    BY <2>1, AttachStoryStep, PassFacts DEF AttachStory, GoodStep
  <2>3. \A s \in Nat : Members(s)' = Members(s)
    BY <2>2 DEF Members
  <2>4. CASE pass[p].target # 0
    <3> PICK t \in Nat : t = pass[p].target
      BY <1>1, <2>2
    <3> DEFINE story == Joined(stories[t], pass[p].seen, TermsOf[Text(p)])
    <3>1. t \in DOMAIN stories /\ stories' = [stories EXCEPT ![t] = story] /\ Goto(p, "point")
      <4>1. /\ stories' = [stories EXCEPT ![pass[p].target] =
                            Joined(stories[pass[p].target], pass[p].seen, TermsOf[Text(p)])]
            /\ Goto(p, "point")
        BY <2>1, <2>4 DEF AttachStory
      <4>2. t \in DOMAIN stories
        BY <1>1, <2>2, <2>4
      <4> QED
        BY <4>1, <4>2
    <3>2. story.itemCount = stories[t].itemCount + 1
      BY DEF Joined
    <3>3. pass'[p].step = "point" /\ pass'[p].target = t
      BY <2>2, <3>1, GotoEffect DEF Steps
    <3>4. DOMAIN stories' = DOMAIN stories /\ stories'[t] = story
          /\ \A s \in DOMAIN stories \ {t} : stories'[s] = stories[s]
      BY <1>1, <3>1
    <3>5. ASSUME NEW s \in DOMAIN stories, s # t
          PROVE  Cardinality(Members(s)') + Cardinality(Incoming(s)') <= stories'[s].itemCount
      <4>1. Incoming(s)' = Incoming(s)
        BY <2>2, <3>3, <3>5 DEF Incoming, Alone
      <4> QED
        BY <1>2, <2>3, <3>4, <3>5, <4>1 DEF CountInv
    <3>6. Cardinality(Members(t)') + Cardinality(Incoming(t)') <= stories'[t].itemCount
      <4>1. Incoming(t)' = Incoming(t) \cup {p} /\ p \notin Incoming(t)
        BY <2>2, <3>3 DEF Incoming, Alone
      <4>2. Cardinality(Incoming(t)') = Cardinality(Incoming(t)) + 1
        BY <4>1, SmallSets, FS_AddElement
      <4>3. /\ stories[t].itemCount \in Nat /\ Members(t)' = Members(t)
            /\ Cardinality(Members(t)) + Cardinality(Incoming(t)) <= stories[t].itemCount
        BY <1>2, <2>3, <3>1 DEF CountInv
      <4> HIDE DEF story
      <4> QED
        BY <3>2, <3>4, <4>2, <4>3, SmallSets
    <3> QED
      BY <3>4, <3>5, <3>6 DEF CountInv
  <2>5. CASE pass[p].target = 0
    <3> PICK t \in Nat : t = Len(stories) + 1
      BY <1>1
    <3> DEFINE story == [terms |-> TermsOf[Text(p)], itemCount |-> 1]
    <3>1. /\ stories' = Append(stories, story)
          /\ pass'[p].step = "point" /\ pass'[p].target = t
      BY <2>1, <2>2, <2>5 DEF AttachStory, Pass
    <3>2. /\ DOMAIN stories' = DOMAIN stories \cup {t} /\ t \notin DOMAIN stories
          /\ stories'[t] = story /\ \A s \in DOMAIN stories : stories'[s] = stories[s]
      BY <1>1, <3>1 DEF TypeOK
    <3>3. ASSUME NEW s \in DOMAIN stories
          PROVE  Cardinality(Members(s)') + Cardinality(Incoming(s)') <= stories'[s].itemCount
      <4>1. s # t
        BY <3>2, <3>3
      <4>2. Incoming(s)' = Incoming(s)
        BY <2>2, <3>1, <4>1 DEF Incoming, Alone
      <4> QED
        BY <1>2, <2>3, <3>2, <3>3, <4>2 DEF CountInv
    <3>4. Members(t)' = {}
      BY <1>1, <2>2 DEF Members, TypeOK
    <3>5. Incoming(t)' = {p}
      <4>1. \A q \in Passes : pass[q].target # t
        BY <1>1, PassFacts
      <4> QED
        BY <2>2, <3>1, <4>1 DEF Incoming, Alone
    <3>6. Cardinality(Members(t)') + Cardinality(Incoming(t)') <= stories'[t].itemCount
      <4>1. Cardinality(Members(t)') = 0
        BY <3>4, FS_EmptySet
      <4>2. Cardinality(Incoming(t)') = 1
        BY <3>5, FS_Singleton
      <4>3. stories'[t].itemCount = 1
        BY <3>2
      <4> QED
        BY <4>1, <4>2, <4>3
    <3> QED
      BY <3>2, <3>3, <3>6 DEF CountInv
  <2> QED
    BY <2>4, <2>5
<1> QED
  BY <1>3, <1>4, <1>5, CountMoves

\* itemCount never falls short of the items the timeline lists, however the passes that
\* count and link them interleave or fail.
THEOREM CountCoversTimeline == Spec => []ItemCountCoversMembers
<1>1. Init => CountInv
  BY DEF Init, CountInv
<1>2. Inv /\ CountInv /\ [Next]_vars => CountInv'
  BY CountStep
<1>3. Inv /\ CountInv => ItemCountCoversMembers
  <2> SUFFICES ASSUME Inv, CountInv, NEW s \in DOMAIN stories
               PROVE  Cardinality(Members(s)) <= stories[s].itemCount
    BY DEF ItemCountCoversMembers
  <2>1. stories[s].itemCount \in Nat
    BY StoryTyped DEF Inv
  <2> QED
    BY <2>1, SmallSets DEF CountInv
<1> QED
  BY Invariance, <1>1, <1>2, <1>3, PTL DEF Spec
-----------------------------------------------------------------------------
(* The verdicts of the classifier. *)

\* How much a verdict says: each one includes what those before it say.
Weight == [d \in Decisions |-> IF d = "NEW" THEN 0 ELSE IF d = "RELATED" THEN 1
                               ELSE IF d = "UPDATE" THEN 2 ELSE 3]

\* A candidate that is more similar to its nearest neighbour, or overlaps with it as well,
\* never gets a verdict that says less: what the order of the thresholds is for.
THEOREM VerdictsFollowSimilarity ==
  ASSUME NEW less \in Int, NEW more \in Int, less <= more,
         NEW agrees \in BOOLEAN, NEW agreesToo \in BOOLEAN, agrees => agreesToo
  PROVE  Weight[VerdictOnNearest(less, agrees)] <= Weight[VerdictOnNearest(more, agreesToo)]
<1>1. Duplicate \in Int /\ Update \in Int /\ Related \in Int /\ Duplicate >= Update /\ Update >= Related
  BY ThresholdsAssumption
<1>2. Weight["NEW"] = 0 /\ Weight["RELATED"] = 1 /\ Weight["UPDATE"] = 2 /\ Weight["DUPLICATE"] = 3
  BY DEF Weight, Decisions
<1> DEFINE WeightAt(s, a) == IF s < Related THEN 0 ELSE IF ~a \/ s < Update THEN 1
                             ELSE IF s < Duplicate THEN 2 ELSE 3
<1>3. ASSUME NEW s \in Int, NEW a \in BOOLEAN PROVE Weight[VerdictOnNearest(s, a)] = WeightAt(s, a)
  BY <1>2, VerdictBands
<1>4. WeightAt(less, agrees) <= WeightAt(more, agreesToo)
  BY <1>1
<1> QED BY <1>3, <1>4

-----------------------------------------------------------------------------
(* The choice of a story. *)

\* Both sides of a comparison may be multiplied.
LEMMA Scale ==
  ASSUME NEW a \in Nat, NEW b \in Nat, NEW c \in Nat, a >= b
  PROVE  a * c >= b * c
OBVIOUS

\* A common factor may be dropped.
LEMMA Cancel ==
  ASSUME NEW a \in Nat, NEW b \in Nat, NEW c \in Nat, c # 0, a * c >= b * c
  PROVE  a >= b
OBVIOUS

\* What two finite sets have in common and together can be counted.
LEMMA OverlapCounts ==
  ASSUME NEW S, NEW T, IsFiniteSet(S), IsFiniteSet(T)
  PROVE  /\ Cardinality(S \cap T) \in Nat /\ Cardinality(S \cup T) \in Nat
         /\ Cardinality(S \cup T) = 0 => Cardinality(S \cap T) = 0 /\ S = {}
         /\ S = {} => Cardinality(S \cap T) = 0
         /\ S \cup T = {} <=> Cardinality(S \cup T) = 0
<1>1. IsFiniteSet(S \cup T) /\ IsFiniteSet(S \cap T)
  BY FS_Union, FS_Intersection
<1>2. Cardinality(S \cup T) \in Nat /\ Cardinality(S \cap T) \in Nat
  BY <1>1, FS_CardinalityType
<1>3. (Cardinality(S \cup T) = 0 <=> S \cup T = {}) /\ (Cardinality(S \cap T) = 0 <=> S \cap T = {})
  BY <1>1, FS_EmptySet
<1>4. (S \cup T = {} => S \cap T = {} /\ S = {}) /\ (S = {} => S \cap T = {})
  OBVIOUS
<1> QED BY <1>2, <1>3, <1>4

\* Overlaps are compared as fractions: at least as much as what is at least as much as
\* a third is at least as much as the third, with nothing to divide by or not.
LEMMA OverlapsTransitive ==
  ASSUME NEW terms, NEW left, NEW mid, NEW right,
         IsFiniteSet(terms), IsFiniteSet(left), IsFiniteSet(mid), IsFiniteSet(right),
         OverlapsNoLess(terms, left, mid), OverlapsNoLess(terms, mid, right)
  PROVE  OverlapsNoLess(terms, left, right)
<1> DEFINE a == Cardinality(terms \cap left)   k == Cardinality(terms \cup left)
           b == Cardinality(terms \cap mid)    l == Cardinality(terms \cup mid)
           c == Cardinality(terms \cap right)  m == Cardinality(terms \cup right)
<1>1. a \in Nat /\ b \in Nat /\ c \in Nat /\ k \in Nat /\ l \in Nat /\ m \in Nat
  BY OverlapCounts
<1>5. l = 0 => c = 0
  <2>1. l = 0 => terms = {}
    BY OverlapCounts
  <2>2. terms = {} => c = 0
    BY OverlapCounts
  <2> QED BY <2>1, <2>2
<1>2. a * l >= b * k /\ b * m >= c * l
  BY DEF OverlapsNoLess
<1> SUFFICES a * m >= c * k
  BY DEF OverlapsNoLess
<1> HIDE DEF a, b, c, k, l, m
<1>3. CASE l = 0
  BY <1>1, <1>3, <1>5
<1>4. CASE l # 0
  <2>1. (a * l) * m >= (b * k) * m /\ (b * m) * k >= (c * l) * k
    BY <1>1, <1>2, Scale
  <2>2. (a * m) * l >= (c * k) * l
    BY <1>1, <2>1
  <2>3. a * m \in Nat /\ c * k \in Nat
    BY <1>1
  <2> QED BY <1>1, <1>4, <2>2, <2>3, Cancel
<1> QED BY <1>3, <1>4

\* Of two sets one overlaps no less than the other.
LEMMA OverlapsTotal ==
  ASSUME NEW terms, NEW left, NEW right,
         IsFiniteSet(terms), IsFiniteSet(left), IsFiniteSet(right)
  PROVE  OverlapsNoLess(terms, left, right) \/ OverlapsNoLess(terms, right, left)
<1> DEFINE a == Cardinality(terms \cap left)   k == Cardinality(terms \cup left)
           c == Cardinality(terms \cap right)  m == Cardinality(terms \cup right)
<1>1. a \in Nat /\ c \in Nat /\ k \in Nat /\ m \in Nat
  BY OverlapCounts
<1>2. a * m \in Nat /\ c * k \in Nat
  <2> HIDE DEF a, c, k, m
  <2> QED BY <1>1
<1> HIDE DEF a, c, k, m
<1>3. a * m >= c * k \/ c * k >= a * m
  BY <1>2
<1> QED BY <1>3 DEF OverlapsNoLess, a, c, k, m

\* What overlaps no less than something that reaches a percentage reaches it too.
LEMMA OverlapReaches ==
  ASSUME NEW terms, NEW left, NEW right, NEW percent \in 1 .. 100,
         IsFiniteSet(terms), IsFiniteSet(left), IsFiniteSet(right),
         OverlapsNoLess(terms, left, right), OverlapAtLeast(terms, right, percent)
  PROVE  OverlapAtLeast(terms, left, percent)
<1> DEFINE a == Cardinality(terms \cap left)   k == Cardinality(terms \cup left)
           c == Cardinality(terms \cap right)  m == Cardinality(terms \cup right)
<1>1. a \in Nat /\ c \in Nat /\ k \in Nat /\ m \in Nat
  BY OverlapCounts
<1>5. m # 0
  BY OverlapCounts DEF OverlapAtLeast
<1>6. terms = {} => c = 0
  BY OverlapCounts
<1>2. a * m >= c * k /\ 100 * c >= percent * m
  BY DEF OverlapsNoLess, OverlapAtLeast
<1>3. 100 * a >= percent * k
  <2> HIDE DEF a, c, k, m
  <2>1. (a * m) * 100 >= (c * k) * 100 /\ (100 * c) * k >= (percent * m) * k
    <3>1. a * m \in Nat /\ c * k \in Nat /\ 100 * c \in Nat /\ percent * m \in Nat
      BY <1>1
    <3> QED BY <1>1, <1>2, <3>1, Scale
  <2>2. (100 * a) * m >= (percent * k) * m
    BY <1>1, <2>1
  <2>3. 100 * a \in Nat /\ percent * k \in Nat
    BY <1>1
  <2> QED BY <1>1, <1>5, <2>2, <2>3, Cancel
<1>4. terms \cup left # {}
  <2>1. c # 0
    <3> HIDE DEF a, c, k, m
    <3> QED BY <1>1, <1>2, <1>5
  <2> QED BY <1>6, <2>1
<1> QED BY <1>3, <1>4 DEF OverlapAtLeast

Less == OpToRel(<, Nat)

\* The relation holds for the numbers it is named after.
LEMMA LessDef == \A x, y \in Nat : x < y => <<x, y>> \in Less
  BY Zenon DEF Less, OpToRel

\* It is well founded.
LEMMA LessWellFounded == IsWellFoundedOn(Less, Nat)
  BY Zenon, NatLessThanWellFounded DEF Less

\* Among finitely many sets one overlaps no less than any: the one that the fewest exceed.
LEMMA BestExists ==
  ASSUME NEW terms, NEW W, NEW f, IsFiniteSet(terms), IsFiniteSet(W), W # {},
         \A s \in W : IsFiniteSet(f[s])
  PROVE  \E s \in W : \A t \in W : OverlapsNoLess(terms, f[s], f[t])
<1> DEFINE Above(s) == {t \in W : ~ OverlapsNoLess(terms, f[s], f[t])}
           counts == {Cardinality(Above(s)) : s \in W}
<1>1. ASSUME NEW s \in W PROVE IsFiniteSet(Above(s)) /\ Cardinality(Above(s)) \in Nat
  BY FS_Subset, FS_CardinalityType
<1>2. counts \subseteq Nat /\ counts # {}
  BY <1>1
<1>3. PICK n \in counts : \A m \in counts : ~ (<<m, n>> \in Less)
  <2> HIDE DEF counts
  <2> QED BY <1>2, LessWellFounded, WFMin, Zenon
<1>4. PICK s \in W : n = Cardinality(Above(s))
  BY <1>3
<1>5. ASSUME NEW t \in Above(s) PROVE FALSE
  <2>1. t \in W /\ ~ OverlapsNoLess(terms, f[s], f[t])
    BY <1>5
  <2>2. OverlapsNoLess(terms, f[t], f[s]) /\ OverlapsNoLess(terms, f[t], f[t])
    BY <2>1, OverlapsTotal
  <2>3. ASSUME NEW u \in Above(t) PROVE u \in Above(s)
    <3>1. u \in W /\ ~ OverlapsNoLess(terms, f[t], f[u])
      BY <2>3
    <3> QED BY <2>1, <2>2, <3>1, OverlapsTransitive
  <2>4. Above(t) \subseteq Above(s) /\ Above(t) # Above(s)
    BY <2>2, <2>3, <1>5
  <2>5. Cardinality(Above(t)) < Cardinality(Above(s))
    <3> HIDE DEF Above
    <3>1. /\ Cardinality(Above(t)) <= Cardinality(Above(s))
          /\ Cardinality(Above(t)) # Cardinality(Above(s))
      BY <1>1, <2>4, FS_Subset
    <3> QED BY <1>1, <2>1, <3>1
  <2>6. Cardinality(Above(t)) \in counts /\ Cardinality(Above(t)) \in Nat
    BY <1>1, <2>1
  <2>7. <<Cardinality(Above(t)), n>> \in Less
    <3> HIDE DEF Above, counts
    <3> QED BY <1>2, <1>4, <2>5, <2>6, LessDef
  <2> QED BY <1>3, <2>6, <2>7
<1> QED BY <1>5

\* Stories have finitely many terms, and so have the answers passes hold.
FiniteTerms ==
  /\ \A s \in DOMAIN stories : IsFiniteSet(stories[s].terms)
  /\ \A p \in Passes : IsFiniteSet(pass[p].seen)

\* What a pass holds of a story's terms it had, read just now, or let go.
LEMMA SeenMoves ==
  ASSUME TypeOK, [Next]_vars, NEW q \in Passes
  PROVE  \/ pass'[q].seen \in {pass[q].seen, {}}
         \/ \E s \in DOMAIN stories : pass'[q].seen = stories[s].terms
<1>1. pass \in [Passes -> Pass] /\ IdlePass \in Pass /\ IdlePass.seen = {}
  BY IdlePassTyped DEF TypeOK, IdlePass
<1>2. ASSUME NEW p \in Passes, NEW step, Goto(p, step)
      PROVE  pass'[q].seen = pass[q].seen
  BY <1>1, <1>2 DEF Goto, Pass
<1>3. ASSUME NEW p \in Passes, FinishItem(p) PROVE pass'[q].seen \in {pass[q].seen, {}}
  BY <1>1, <1>3 DEF FinishItem, Pass
<1>4. CASE \E p \in Passes, i \in Items : UpsertIdea(p, i)
  BY <1>1, <1>4 DEF UpsertIdea, Pass
<1>5. CASE \E p \in Passes : Classify(p)
  <2>1. PICK p \in Passes : (\E decision, match : Decided(p, decision, match)) \/ \E step : Goto(p, step)
    BY <1>5 DEF Classify, FindByHash, FindByUrl, FindNearest, Prefilter
  <2>2. CASE \E decision, match : Decided(p, decision, match)
    BY <1>1, <2>2 DEF Decided, Pass
  <2> QED BY <1>2, <2>1, <2>2
<1>6. CASE \E p \in Passes : Commit(p) \/ PointIdea(p) \/ LinkItem(p)
  <2>1. PICK p \in Passes : FinishItem(p) \/ \E step : Goto(p, step)
    BY <1>6 DEF Commit, Decide, RecordDecision, IndexRow, IndexEmbedding, PointIdea, LinkItem
  <2> QED BY <1>2, <1>3, <2>1
<1>7. CASE \E p \in Passes : ReadStories(p)
  <2>1. \A W \in Windows : W \subseteq DOMAIN stories
    BY DEF Windows
  <2>2. PICK p \in Passes : ReadStories(p)
    BY <1>7
  <2>3. PICK W \in Windows :
             \/ \E s \in W : pass' = [pass EXCEPT ![p].step = "attach", ![p].target = s,
                                                 ![p].seen = stories[s].terms]
             \/ pass' = [pass EXCEPT ![p].step = "attach", ![p].target = 0, ![p].seen = {}]
    BY <2>2 DEF ReadStories
  <2>4. CASE \E s \in W : pass' = [pass EXCEPT ![p].step = "attach", ![p].target = s,
                                             ![p].seen = stories[s].terms]
    <3>1. PICK s \in W : pass'[q].seen \in {pass[q].seen, stories[s].terms}
      BY <1>1, <2>4 DEF Pass
    <3> QED BY <2>1, <3>1
  <2>5. CASE pass' = [pass EXCEPT ![p].step = "attach", ![p].target = 0, ![p].seen = {}]
    BY <1>1, <2>5 DEF Pass
  <2> QED BY <2>3, <2>4, <2>5
<1>8. CASE \E p \in Passes : AttachStory(p)
  <2>1. PICK p \in Passes : \/ Goto(p, "point")
                            \/ pass' = [pass EXCEPT ![p].step = "point", ![p].target = Len(stories) + 1]
    BY <1>8 DEF AttachStory
  <2>2. CASE pass' = [pass EXCEPT ![p].step = "point", ![p].target = Len(stories) + 1]
    BY <1>1, <2>2 DEF Pass
  <2> QED BY <1>2, <2>1, <2>2
<1>9. CASE \E p \in Passes : Fail(p)
  BY <1>1, <1>9 DEF Fail
<1>10. CASE Environment
  <2>1. pass' = pass \/ \E p \in Passes, batch \in SUBSET Items : Begin(p, batch)
    BY <1>10 DEF Environment, PersistItem, ToggleBinding, ArchiveIdea, StartWorker, StartReprocess, Passes
  <2>2. CASE \E p \in Passes, batch \in SUBSET Items : Begin(p, batch)
    BY <1>1, <2>2 DEF Begin, Pass
  <2> QED BY <2>1, <2>2
<1>11. CASE UNCHANGED vars
  BY <1>11 DEF vars
<1> QED
  BY <1>4, <1>5, <1>6, <1>7, <1>8, <1>9, <1>10, <1>11 DEF Next, Step, AttachIdea

\* Stories are written by one action.
LEMMA StoryWriters ==
  ASSUME [Next]_vars
  PROVE  stories' = stories \/ \E p \in Passes : AttachStory(p)
<1>1. CASE \E p \in Passes : Classify(p) \/ Commit(p)
  BY <1>1 DEF Classify, Commit, FindByHash, FindByUrl, FindNearest, Prefilter, Decide,
              RecordDecision, IndexRow, IndexEmbedding, rows
<1>2. CASE \E p \in Passes : AttachIdea(p) \/ Fail(p)
  BY <1>2 DEF AttachIdea, ReadStories, PointIdea, LinkItem, Fail, rows
<1>3. CASE \E p \in Passes, i \in Items : UpsertIdea(p, i)
  BY <1>3 DEF UpsertIdea
<1>4. CASE Environment
  BY <1>4 DEF Environment, PersistItem, ToggleBinding, ArchiveIdea, StartWorker,
              StartReprocess, Begin, rows
<1>5. CASE UNCHANGED vars
  BY <1>5 DEF vars
<1> QED
  BY <1>1, <1>2, <1>3, <1>4, <1>5 DEF Next, Step

\* Terms stay finite in number.
LEMMA FiniteTermsStep == Inv /\ FiniteTerms /\ [Next]_vars => FiniteTerms'
<1> SUFFICES ASSUME Inv, FiniteTerms, [Next]_vars PROVE FiniteTerms'
  OBVIOUS
<1>1. \A p \in Passes : IsFiniteSet(pass'[p].seen)
  BY SeenMoves, FS_EmptySet DEF FiniteTerms, Inv
<1>2. ASSUME NEW s \in DOMAIN stories' PROVE IsFiniteSet(stories'[s].terms)
  <2>1. CASE stories' = stories
    BY <1>2, <2>1 DEF FiniteTerms
  <2>2. CASE \E p \in Passes : AttachStory(p)
    <3>1. PICK p \in Passes : AttachStory(p)
      BY <2>2
    <3>2. /\ stories \in Seq(Story) /\ Len(stories) \in Nat /\ pass[p].target \in 0 .. Len(stories)
          /\ Text(p) \in Contents
      BY <3>1, PassFacts DEF AttachStory, TypeOK
    <3>3. IsFiniteSet(TermsOf[Text(p)]) /\ IsFiniteSet(pass[p].seen \cup TermsOf[Text(p)])
      BY <3>2, DiscoveryAssumption, FS_Union DEF FiniteTerms
    <3>4. PICK terms, count, t :
               /\ IsFiniteSet(terms)
               /\ \/ stories' = Append(stories, [terms |-> terms, itemCount |-> count])
                  \/ stories' = [stories EXCEPT ![t] = [terms |-> terms, itemCount |-> count]]
      BY <3>1, <3>3 DEF AttachStory, Joined
    <3>5. \/ s \in DOMAIN stories /\ stories'[s] = stories[s]
          \/ stories'[s] = [terms |-> terms, itemCount |-> count]
      BY <1>2, <3>2, <3>4
    <3> QED BY <3>4, <3>5 DEF FiniteTerms
  <2> QED BY <2>1, <2>2, StoryWriters
<1> QED BY <1>1, <1>2 DEF FiniteTerms

\* attachIdea's loop: when any of the stories read overlaps enough with a text, the one the
\* loop ends with does, so nothing that belongs to a story read starts another.
JoinsWhereItCan ==
  \A c \in Contents, W \in Windows :
    LET terms == TermsOf[c]
        Joins(s) == OverlapAtLeast(terms, stories[s].terms, StoryOverlap)
    IN  (\E s \in W : Joins(s)) =>
          \E s \in W : /\ Joins(s)
                       /\ \A t \in W : OverlapsNoLess(terms, stories[s].terms, stories[t].terms)

\* The choice of a story is never undecided, whatever the texts, the stories and the window.
THEOREM StoryChoiceIsMade == Spec => []JoinsWhereItCan
<1>1. Init => FiniteTerms
  <2> SUFFICES ASSUME Init PROVE FiniteTerms
    OBVIOUS
  <2>1. DOMAIN stories = {}
    BY DEF Init
  <2>2. ASSUME NEW p \in Passes PROVE pass[p].seen = {}
    BY DEF Init, IdlePass
  <2> QED BY <2>1, <2>2, FS_EmptySet DEF FiniteTerms
<1>2. TypeOK /\ FiniteTerms => JoinsWhereItCan
  <2> SUFFICES ASSUME TypeOK, FiniteTerms, NEW c \in Contents, NEW W \in Windows,
                      NEW r \in W, OverlapAtLeast(TermsOf[c], stories[r].terms, StoryOverlap)
               PROVE  \E s \in W :
                        /\ OverlapAtLeast(TermsOf[c], stories[s].terms, StoryOverlap)
                        /\ \A t \in W : OverlapsNoLess(TermsOf[c], stories[s].terms, stories[t].terms)
    BY DEF JoinsWhereItCan
  <2> DEFINE f == [s \in DOMAIN stories |-> stories[s].terms]
  <2>1. /\ W \subseteq DOMAIN stories /\ IsFiniteSet(TermsOf[c]) /\ StoryOverlap \in 1 .. 100
        /\ \A s \in DOMAIN stories : f[s] = stories[s].terms /\ IsFiniteSet(f[s])
    BY DiscoveryAssumption DEF Windows, FiniteTerms
  <2>2. IsFiniteSet(W)
    <3>1. DOMAIN stories = 1 .. Len(stories) /\ Len(stories) \in Nat
      BY DEF TypeOK
    <3>2. IsFiniteSet(1 .. Len(stories))
      BY <3>1, FS_Interval
    <3> QED BY <2>1, <3>1, <3>2, FS_Subset
  <2>3. PICK s \in W : \A t \in W : OverlapsNoLess(TermsOf[c], f[s], f[t])
    <3> HIDE DEF f
    <3> QED BY <2>1, <2>2, BestExists
  <2>4. \A t \in W : OverlapsNoLess(TermsOf[c], stories[s].terms, stories[t].terms)
    BY <2>1, <2>3
  <2>5. OverlapAtLeast(TermsOf[c], stories[s].terms, StoryOverlap)
    BY <2>1, <2>4, OverlapReaches DEF FiniteTerms
  <2> QED BY <2>4, <2>5
<1>3. Inv => TypeOK
  BY DEF Inv
<1> QED
  BY Invariance, FiniteTermsStep, <1>1, <1>2, <1>3, PTL DEF Spec
-----------------------------------------------------------------------------
(* A pass gets through its items: how many calls it still has to make is a number that
   its own steps make smaller and no other pass touches. *)

CallsToGo == [next |-> 12, byHash |-> 11, byUrl |-> 10, nearest |-> 9, decide |-> 8, record |-> 7,
              indexRow |-> 6, indexEmbedding |-> 5, readStories |-> 4, attach |-> 3, point |-> 2,
              link |-> 1]

\* Twelve calls for every item left, and the rest of those for the item in hand.
WorkLeft(p) ==
  IF pass[p].step = "idle" THEN 0 ELSE 12 * Cardinality(Todo(p)) + CallsToGo[pass[p].step]

MostWork == 12 * Cardinality(Items) + 12

\* The items left can be counted.
LEMMA TodoCounts ==
  ASSUME NEW p \in Passes
  PROVE  /\ IsFiniteSet(Todo(p)) /\ Cardinality(Todo(p)) \in 0 .. Cardinality(Items)
         /\ Cardinality(Items) \in Nat
<1>1. Todo(p) \subseteq Items /\ IsFiniteSet(Items)
  BY DiscoveryAssumption DEF Todo
<1>2. IsFiniteSet(Todo(p)) /\ Cardinality(Todo(p)) <= Cardinality(Items)
  BY <1>1, FS_Subset
<1>3. Cardinality(Todo(p)) \in Nat /\ Cardinality(Items) \in Nat
  BY <1>1, <1>2, FS_CardinalityType
<1> QED BY <1>2, <1>3

\* So can the calls.
LEMMA WorkCounts ==
  ASSUME TypeOK, NEW p \in Passes
  PROVE  /\ WorkLeft(p) \in 0 .. MostWork
         /\ pass[p].step # "idle" => WorkLeft(p) >= 1
<1>1. pass[p].step \in Steps
  BY DEF TypeOK, Pass
<1>2. pass[p].step # "idle" => CallsToGo[pass[p].step] \in 1 .. 12
  BY <1>1 DEF Steps, SplitSteps, CallsToGo
<1> QED BY <1>2, TodoCounts DEF WorkLeft, MostWork

\* A pass that ends or fails has nothing left to do.
LEMMA EndOfPass ==
  ASSUME TypeOK, NEW p \in Passes, pass[p].step # "idle", pass'[p].step = "idle"
  PROVE  WorkLeft(p)' < WorkLeft(p)
<1>1. WorkLeft(p)' = 0
  BY DEF WorkLeft
<1> QED BY <1>1, WorkCounts

\* A later call for the same item.
LEMMA NextCall ==
  ASSUME TypeOK, NEW p \in Passes, pass[p].step # "idle", pass'[p].step \in Steps \ {"idle"},
         pass'[p].snapshot = pass[p].snapshot,
         CallsToGo[pass'[p].step] < CallsToGo[pass[p].step]
  PROVE  WorkLeft(p)' < WorkLeft(p)
<1>1. Todo(p)' = Todo(p)
  BY DEF Todo
<1>2. pass[p].step \in Steps
  BY DEF TypeOK, Pass
<1>3. CallsToGo[pass[p].step] \in Nat /\ CallsToGo[pass'[p].step] \in Nat
  BY <1>2 DEF Steps, SplitSteps, CallsToGo
<1>4. Cardinality(Todo(p)) \in Nat
  BY TodoCounts
<1> QED BY <1>1, <1>3, <1>4 DEF WorkLeft

\* The item in hand is done, and is in the list no more.
LEMMA ItemDone ==
  ASSUME Inv, NEW p \in Passes, pass[p].step \notin {"idle", "next"}, FinishItem(p)
  PROVE  WorkLeft(p)' < WorkLeft(p)
<1> DEFINE i == pass[p].item
           left == [pass[p].snapshot EXCEPT ![i] = None]
           next == [IdlePass EXCEPT !.step = "next", !.snapshot = left]
<1>1. /\ TypeOK /\ pass \in [Passes -> Pass] /\ i \in Items /\ pass[p].snapshot \in Corpora
      /\ pass[p].snapshot[i] # None /\ pass[p].step \in Steps
  BY PassFacts, NoneIsNoData DEF Text, Pass
<1>2. pass' = [pass EXCEPT ![p] = IF left = IdlePass.snapshot THEN IdlePass ELSE next]
  BY DEF FinishItem
<1>3. IdlePass.step = "idle" /\ next.step = "next" /\ next.snapshot = left
  BY DEF IdlePass
<1> HIDE DEF next
<1>4. CASE left = IdlePass.snapshot
  <2>1. pass'[p].step = "idle"
    BY <1>1, <1>2, <1>3, <1>4
  <2> QED BY <1>1, <2>1, EndOfPass
<1>5. CASE left # IdlePass.snapshot
  <2>1. pass'[p].step = "next" /\ pass'[p].snapshot = left
    BY <1>1, <1>2, <1>3, <1>5
  <2>2. Todo(p)' = Todo(p) \ {i} /\ i \in Todo(p)
    BY <1>1, <2>1 DEF Todo, Corpora
  <2>3. Cardinality(Todo(p)') = Cardinality(Todo(p)) - 1
    <3>1. IsFiniteSet(Todo(p))
      BY TodoCounts
    <3>2. Cardinality(Todo(p) \ {i}) = Cardinality(Todo(p)) - 1
      BY <2>2, <3>1, FS_RemoveElement
    <3> QED BY <2>2, <3>2
  <2>4. CallsToGo[pass[p].step] \in 1 .. 12 /\ CallsToGo["next"] = 12
    BY <1>1 DEF Steps, SplitSteps, CallsToGo
  <2> QED BY <2>1, <2>3, <2>4, TodoCounts DEF WorkLeft
<1> QED BY <1>4, <1>5

\* A step of a pass is the next call for the item in hand, or the last.
LEMMA StepGetsOn ==
  ASSUME Inv, NEW p \in Passes, Step(p)
  PROVE  WorkLeft(p)' < WorkLeft(p) /\ Alone(p)
<1>1. TypeOK /\ pass \in [Passes -> Pass] /\ pass[p] \in Pass
  BY PassFacts
<1>2. ASSUME NEW step \in Steps \ {"idle"}, Goto(p, step), pass[p].step # "idle",
             CallsToGo[step] < CallsToGo[pass[p].step]
      PROVE  WorkLeft(p)' < WorkLeft(p) /\ Alone(p)
  BY <1>1, <1>2, GotoEffect, NextCall
<1>3. CASE \E i \in Items : UpsertIdea(p, i)
  <2>1. PICK i \in Items : UpsertIdea(p, i)
    BY <1>3
  <2>2. /\ pass'[p].step = "byHash" /\ pass'[p].snapshot = pass[p].snapshot /\ Alone(p)
        /\ pass[p].step = "next"
    BY <1>1, <2>1 DEF UpsertIdea, Pass, Alone
  <2> QED BY <1>1, <2>2, NextCall DEF CallsToGo, Steps
<1>4. CASE Classify(p)
  <2>1. pass[p].step \in {"byHash", "byUrl", "nearest"}
    BY <1>4 DEF Classify, FindByHash, FindByUrl, FindNearest, Prefilter
  <2>2. ASSUME NEW decision, NEW match, Decided(p, decision, match)
        PROVE  WorkLeft(p)' < WorkLeft(p) /\ Alone(p)
    <3>1. pass'[p].step = "decide" /\ pass'[p].snapshot = pass[p].snapshot /\ Alone(p)
      BY <1>1, <2>2 DEF Decided, Pass, Alone
    <3> QED BY <1>1, <2>1, <3>1, NextCall DEF CallsToGo, Steps
  <2>3. CASE FindByHash(p)
    BY <1>2, <2>2, <2>3 DEF FindByHash, Prefilter, CallsToGo, Steps
  <2>4. CASE FindByUrl(p)
    BY <1>2, <2>2, <2>4 DEF FindByUrl, Prefilter, CallsToGo, Steps
  <2>5. CASE FindNearest(p)
    BY <2>2, <2>5 DEF FindNearest
  <2> QED BY <1>4, <2>3, <2>4, <2>5 DEF Classify
<1>5. ASSUME FinishItem(p), pass[p].step \notin {"idle", "next"}
      PROVE  WorkLeft(p)' < WorkLeft(p) /\ Alone(p)
  BY <1>1, <1>5, ItemDone, FinishItemEffect
<1>6. CASE Commit(p)
  <2>1. CASE Decide(p)
    BY <1>2, <2>1 DEF Decide, CallsToGo, Steps, SplitSteps
  <2>2. CASE RecordDecision(p)
    BY <1>2, <1>5, <2>2 DEF RecordDecision, CallsToGo, Steps
  <2>3. CASE IndexRow(p)
    BY <1>2, <2>3 DEF IndexRow, CallsToGo, Steps, SplitSteps
  <2>4. CASE IndexEmbedding(p)
    BY <1>2, <2>4 DEF IndexEmbedding, CallsToGo, Steps
  <2> QED BY <1>6, <2>1, <2>2, <2>3, <2>4 DEF Commit
<1>7. CASE AttachIdea(p)
  <2>1. ASSUME NEW step \in {"attach", "point"}, pass'[p].step = step,
               pass'[p].snapshot = pass[p].snapshot, Alone(p),
               pass[p].step \in {"readStories", "attach"}, step # pass[p].step
        PROVE  WorkLeft(p)' < WorkLeft(p) /\ Alone(p)
    <3>1. CASE pass[p].step = "readStories"
      BY <1>1, <2>1, <3>1, NextCall DEF CallsToGo, Steps
    <3>2. CASE pass[p].step = "attach"
      BY <1>1, <2>1, <3>2, NextCall DEF CallsToGo, Steps
    <3> QED BY <2>1, <3>1, <3>2
  <2>2. CASE ReadStories(p)
    <3>1. PICK target, seen :
            pass' = [pass EXCEPT ![p].step = "attach", ![p].target = target, ![p].seen = seen]
      BY <2>2 DEF ReadStories
    <3> DEFINE next == [pass[p] EXCEPT !.step = "attach", !.target = target, !.seen = seen]
    <3>2. next.step = "attach" /\ next.snapshot = pass[p].snapshot
      BY <1>1 DEF Pass
    <3>3. pass' = [pass EXCEPT ![p] = next]
      BY <1>1, <3>1 DEF Pass
    <3> HIDE DEF next
    <3>4. pass'[p].step = "attach" /\ pass'[p].snapshot = pass[p].snapshot /\ Alone(p)
      BY <1>1, <3>2, <3>3 DEF Alone
    <3> QED BY <2>1, <2>2, <3>4 DEF ReadStories
  <2>3. CASE AttachStory(p)
    <3>1. \/ Goto(p, "point")
          \/ pass' = [pass EXCEPT ![p].step = "point", ![p].target = Len(stories) + 1]
      BY <2>3 DEF AttachStory
    <3>2. pass'[p].step = "point" /\ pass'[p].snapshot = pass[p].snapshot /\ Alone(p)
      BY <1>1, <3>1 DEF Goto, Pass, Alone
    <3> QED BY <2>1, <2>3, <3>2 DEF AttachStory
  <2>4. CASE PointIdea(p)
    BY <1>2, <2>4 DEF PointIdea, CallsToGo, Steps, SplitSteps
  <2>5. CASE LinkItem(p)
    BY <1>5, <2>5 DEF LinkItem
  <2> QED BY <1>7, <2>2, <2>3, <2>4, <2>5 DEF AttachIdea
<1> QED BY <1>3, <1>4, <1>6, <1>7 DEF Step

\* A pass that runs is moved by its own steps only, or fails.
PassGetsOn(p) ==
  /\ Step(p) => WorkLeft(p)' < WorkLeft(p)
  /\ pass[p].step # "idle" /\ pass'[p] # pass[p] => WorkLeft(p)' < WorkLeft(p)

\* A pass is a loop over a list read once: each of a pass's own steps brings it nearer to its end,
\* nothing that other passes, editors or ingestion do puts it back, and no pass has more
\* than MostWork to do. So a pass whose calls keep being answered gets through its items.
THEOREM PassesGetOn ==
  Spec => /\ [](\A p \in Passes : WorkLeft(p) \in 0 .. MostWork)
          /\ [][\A p \in Passes : PassGetsOn(p)]_vars
<1>1. Inv => \A p \in Passes : WorkLeft(p) \in 0 .. MostWork
  BY WorkCounts DEF Inv
<1>2. Inv /\ [Next]_vars => [\A p \in Passes : PassGetsOn(p)]_vars
  <2> SUFFICES ASSUME Inv, Next, NEW p \in Passes PROVE PassGetsOn(p)
    OBVIOUS
  <2>1. TypeOK /\ pass \in [Passes -> Pass]
    BY DEF Inv, TypeOK
  <2>2. ASSUME pass[p].step # "idle", pass'[p] # pass[p] PROVE WorkLeft(p)' < WorkLeft(p)
    <3>1. ASSUME NEW q \in Passes, Step(q) PROVE WorkLeft(p)' < WorkLeft(p)
      BY <2>2, <3>1, StepGetsOn DEF Alone
    <3>2. ASSUME NEW q \in Passes, Fail(q) PROVE WorkLeft(p)' < WorkLeft(p)
      <4>1. IdlePass.step = "idle"
        BY DEF IdlePass
      <4>2. pass'[p].step = "idle"
        BY <2>1, <2>2, <3>2, <4>1 DEF Fail
      <4> QED BY <2>1, <2>2, <4>2, EndOfPass
    <3>3. ASSUME Environment PROVE FALSE
      <4>1. ASSUME NEW q \in Passes, NEW next, pass[q].step = "idle", pass' = [pass EXCEPT ![q] = next]
            PROVE  FALSE
        BY <2>1, <2>2, <4>1
      <4>2. ASSUME NEW q \in Passes, NEW batch, Begin(q, batch) PROVE FALSE
        BY <4>1, <4>2 DEF Begin
      <4>3. CASE \E i \in Items, c \in Contents : PersistItem(i, c)
        BY <2>2, <4>3 DEF PersistItem
      <4>4. CASE \E s \in Sources : ToggleBinding(s) \/ StartWorker(s)
        BY <2>2, <4>2, <4>4 DEF ToggleBinding, StartWorker, Passes
      <4>5. CASE \E i \in Items : ArchiveIdea(i) \/ \E r \in Requests : StartReprocess(r, i)
        BY <2>2, <4>2, <4>5 DEF ArchiveIdea, StartReprocess, Passes
      <4> QED BY <3>3, <4>3, <4>4, <4>5 DEF Environment
    <3> QED BY <3>1, <3>2, <3>3 DEF Next
  <2> QED BY <2>2, StepGetsOn DEF PassGetsOn
<1> QED BY <1>1, <1>2, Invariance, PTL DEF Spec
=============================================================================
