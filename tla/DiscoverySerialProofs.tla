----------------------- MODULE DiscoverySerialProofs ------------------------
(***************************************************************************)
(* What holds of discovery while no two passes of a channel have           *)
(* overlapped.  The lookups of a pass and the writes that follow them are  *)
(* apart, and another pass in between can make an answer stale: the run    *)
(* discovery_twins shows what may then happen.  When no other pass runs    *)
(* the answers last, and the invariant says which of them a pass still     *)
(* relies on at each place of the loop.                                    *)
(***************************************************************************)
EXTENDS DiscoveryProofs

\* The backlog jobs and the reprocess calls of the channel do not overlap.
OneAtATime ==
  \A p, q \in Passes : pass[p].step # "idle" /\ pass[q].step # "idle" => p = q

\* The classifier has let the item through, or has not answered yet.
NotBlocked(p) ==
  \/ pass[p].step = "indexRow"
  \/ pass[p].step \in {"decide", "record"} /\ pass[p].decision # "DUPLICATE"

\* The prefilters passed so far would pass again.
FiltersLast(p) ==
  /\ pass[p].step \in {"byUrl", "nearest"} \/ NotBlocked(p) => SameHash(p) = {}
  /\ pass[p].step = "nearest" \/ NotBlocked(p) => SameUrl(p) = {}

\* Between the two statements of the upsert the row has the text in hand.
RowHasText(p) ==
  pass[p].step = "indexEmbedding" => memory[pass[p].item].content = Text(p)

\* The terms read of the story to join are still all it has.
SeenLasts(p) ==
  pass[p].step = "attach" /\ pass[p].target # 0 =>
    pass[p].seen = stories[pass[p].target].terms

AnswersLast(p) == FiltersLast(p) /\ RowHasText(p) /\ SeenLasts(p)
-----------------------------------------------------------------------------
\* Two passes are under way at once only when the history says so.
SerialInv ==
  ~overlapped => OneAtATime /\ \A p \in Passes : AnswersLast(p)

\* Only a pass that begins can overlap another, and what has overlapped is not forgotten.
LEMMA SerialityKept ==
  ASSUME Inv, ~overlapped => OneAtATime, [Next]_vars
  PROVE  ~overlapped' => ~overlapped /\ OneAtATime'
<1> DEFINE Kept == ~overlapped' => ~overlapped /\ OneAtATime'
<1>1. ASSUME NEW p \in Passes, pass[p].step # "idle", Alone(p), overlapped' = overlapped
      PROVE  Kept
  BY <1>1 DEF OneAtATime, Alone
<1>2. ASSUME NEW p \in Passes, NEW batch \in SUBSET Items, Begin(p, batch)
      PROVE  Kept
  <2>1. Alone(p)
    BY <1>2, BeginStep DEF GoodStep
  <2>2. ~overlapped' => ~overlapped /\ \A q \in Passes \ {p} : pass[q].step = "idle"
    BY <1>2 DEF Begin
  <2> QED
    BY <2>1, <2>2 DEF OneAtATime, Alone
<1>3. ASSUME NEW p \in Passes, Step(p)
      PROVE  Kept
  <2>1. pass[p].step # "idle" /\ overlapped' = overlapped
    BY <1>3 DEF Step, UpsertIdea, Classify, FindByHash, FindByUrl, FindNearest, Prefilter,
                Commit, Decide, RecordDecision, IndexRow, IndexEmbedding, AttachIdea,
                ReadStories, AttachStory, PointIdea, LinkItem, counters
  <2>2. GoodStep(p)
    BY <1>3, UpsertIdeaStep, ClassifyStep, DecideStep, RecordDecisionStep, IndexRowStep,
       IndexEmbeddingStep, ReadStoriesStep, AttachStoryStep, PointIdeaStep, LinkItemStep
       DEF Step, Commit, AttachIdea
  <2> QED
    BY <1>1, <2>1, <2>2 DEF GoodStep
<1>4. ASSUME NEW p \in Passes, Fail(p)
      PROVE  Kept
  BY <1>1, <1>4, FailStep DEF Fail, GoodStep
<1>5. ASSUME pass' = pass, overlapped' = overlapped
      PROVE  Kept
  BY <1>5 DEF OneAtATime
<1>6. CASE \/ \E i \in Items, c \in Contents : PersistItem(i, c)
           \/ \E s \in Sources : ToggleBinding(s)
           \/ \E i \in Items : ArchiveIdea(i)
           \/ UNCHANGED vars
  BY <1>5, <1>6 DEF PersistItem, ToggleBinding, ArchiveIdea, vars, counters
<1>7. CASE \/ \E s \in Sources : StartWorker(s)
           \/ \E i \in Items, q \in Requests : StartReprocess(q, i)
  BY <1>2, <1>7 DEF StartWorker, StartReprocess, Passes
<1> QED
  BY <1>3, <1>4, <1>6, <1>7 DEF Next, Environment

\* At rest, between items and in these steps, a pass relies on no answer.
LEMMA ReliesOnNothing ==
  ASSUME NEW p \in Passes,
         pass'[p].step \in {"idle", "next", "byHash", "readStories", "point", "link"}
  PROVE  AnswersLast(p)'
BY DEF AnswersLast, FiltersLast, NotBlocked, RowHasText, SeenLasts

\* While nobody writes memory or stories, a pass that stays has its answers.
LEMMA StillAnswered ==
  ASSUME NEW p \in Passes, memory' = memory, stories' = stories, pass'[p] = pass[p],
         AnswersLast(p)
  PROVE  AnswersLast(p)'
BY DEF AnswersLast, FiltersLast, NotBlocked, RowHasText, SeenLasts, SameHash, SameUrl,
       Others, Text

\* What the prefilters find depends on the item in hand, its text and memory.
LEMMA LookupsStay ==
  ASSUME NEW p \in Passes, memory' = memory, pass'[p].item = pass[p].item,
         pass'[p].snapshot = pass[p].snapshot
  PROVE  SameHash(p)' = SameHash(p) /\ SameUrl(p)' = SameUrl(p)
BY DEF SameHash, SameUrl, Others, Text

\* When the pass that moves is the only one, its answers are all there is to keep.
LEMMA OthersRest ==
  ASSUME OneAtATime, NEW p \in Passes, pass[p].step # "idle", Alone(p), AnswersLast(p)'
  PROVE  \A q \in Passes : AnswersLast(q)'
<1> SUFFICES ASSUME NEW q \in Passes, q # p PROVE AnswersLast(q)'
  OBVIOUS
<1>1. pass'[q].step = "idle"
  BY DEF OneAtATime, Alone
<1> QED
  BY <1>1, ReliesOnNothing

(* What each action of a pass leaves it to rely on. *)

\* A prefilter that finds nothing is one more answer; one that does blocks.
LEMMA ClassifyAnswers ==
  ASSUME Inv, NEW p \in Passes, AnswersLast(p), Classify(p)
  PROVE  AnswersLast(p)'
<1>1. /\ TypeOK /\ pass \in [Passes -> Pass] /\ memory' = memory
      /\ pass[p].item \in Items /\ Text(p) \in Contents
  BY PassFacts DEF Classify, FindByHash, FindByUrl, FindNearest, Prefilter, rows
<1>2. ASSUME NEW step \in {"byUrl", "nearest"}, Goto(p, step),
             SameHash(p) = {}, step = "nearest" => SameUrl(p) = {}
      PROVE  AnswersLast(p)'
  <2>1. step \in Steps
    BY DEF Steps
  <2>2. /\ pass'[p].step = step /\ pass'[p].item = pass[p].item
        /\ pass'[p].snapshot = pass[p].snapshot
    BY <1>1, <1>2, <2>1, GotoEffect
  <2>3. SameHash(p)' = {} /\ (step = "nearest" => SameUrl(p)' = {})
    BY <1>1, <1>2, <2>2, LookupsStay
  <2> QED
    BY <2>2, <2>3 DEF AnswersLast, FiltersLast, NotBlocked, RowHasText, SeenLasts
<1>3. ASSUME NEW decision \in Decisions, NEW match \in Items \cup {None},
             Decided(p, decision, match),
             decision # "DUPLICATE" => SameHash(p) = {} /\ SameUrl(p) = {}
      PROVE  AnswersLast(p)'
  <2>1. /\ pass'[p].step = "decide" /\ pass'[p].item = pass[p].item
        /\ pass'[p].snapshot = pass[p].snapshot /\ pass'[p].decision = decision
    BY <1>1, <1>3, DecidedEffect
  <2>2. decision # "DUPLICATE" => SameHash(p)' = {} /\ SameUrl(p)' = {}
    BY <1>1, <1>3, <2>1, LookupsStay
  <2> QED
    BY <2>1, <2>2 DEF AnswersLast, FiltersLast, NotBlocked, RowHasText, SeenLasts
<1>4. "DUPLICATE" \in Decisions /\ "NEW" \in Decisions
  BY DEF Decisions
<1>5. CASE FindByHash(p)
  <2>1. CASE \E j \in SameHash(p) : Decided(p, "DUPLICATE", j)
    BY <1>3, <1>4, <2>1 DEF SameHash, Others
  <2>2. CASE SameHash(p) = {} /\ Goto(p, "byUrl")
    BY <1>2, <2>2
  <2> QED
    BY <1>5, <2>1, <2>2 DEF FindByHash, Prefilter
<1>6. CASE FindByUrl(p)
  <2>1. SameHash(p) = {}
    BY <1>6 DEF FindByUrl, Prefilter, AnswersLast, FiltersLast
  <2>2. CASE \E j \in SameUrl(p) : Decided(p, "DUPLICATE", j)
    BY <1>3, <1>4, <2>2 DEF SameUrl, Others
  <2>3. CASE SameUrl(p) = {} /\ Goto(p, "nearest")
    BY <1>2, <2>1, <2>3
  <2> QED
    BY <1>6, <2>2, <2>3 DEF FindByUrl, Prefilter
<1>7. CASE FindNearest(p)
  <2>1. SameHash(p) = {} /\ SameUrl(p) = {}
    BY <1>7 DEF FindNearest, AnswersLast, FiltersLast
  <2>2. CASE Decided(p, "NEW", None)
    BY <1>3, <1>4, <2>1, <2>2
  <2>3. CASE \E j \in Comparable(p) : Decided(p, VerdictOn(p, j), j)
    <3>1. PICK j \in Comparable(p) : Decided(p, VerdictOn(p, j), j)
      BY <2>3
    <3>2. j \in Items /\ memory[j].embedding \in Contents
      BY <1>1, <3>1 DEF Comparable, Others, TypeOK, MemoryRow
    <3>3. Closeness(p, j) \in Int
      BY <1>1, <3>2, SimilarityTyped DEF Closeness
    <3>4. VerdictOn(p, j) \in Decisions
      BY <3>3, VerdictTyped DEF VerdictOn, OverlapAtLeast
    <3> QED
      BY <1>3, <2>1, <3>1, <3>2, <3>4
  <2> QED
    BY <1>7, <2>2, <2>3 DEF FindNearest
<1> QED
  BY <1>5, <1>6, <1>7 DEF Classify

\* The verdict of the filters is carried to the log and on to the memory.
LEMMA CommitAnswers ==
  ASSUME Inv, NEW p \in Passes, AnswersLast(p), Commit(p)
  PROVE  AnswersLast(p)'
<1>1. TypeOK /\ pass \in [Passes -> Pass]
  BY PassFacts
<1>2. CASE Decide(p)
  <2>1. Goto(p, "record") /\ "record" \in Steps /\ memory' = memory /\ pass[p].step = "decide"
    BY <1>2 DEF Decide, Steps, SplitSteps
  <2>2. /\ pass'[p].step = "record" /\ pass'[p].item = pass[p].item
        /\ pass'[p].snapshot = pass[p].snapshot /\ pass'[p].decision = pass[p].decision
    BY <1>1, <2>1, GotoEffect
  <2> QED
    BY <2>1, <2>2, LookupsStay DEF AnswersLast, FiltersLast, NotBlocked, RowHasText, SeenLasts
<1>3. CASE RecordDecision(p) /\ pass[p].decision = "DUPLICATE"
  BY <1>1, <1>3, FinishItemEffect, ReliesOnNothing DEF RecordDecision
<1>4. CASE RecordDecision(p) /\ pass[p].decision # "DUPLICATE"
  <2>1. Goto(p, "indexRow") /\ "indexRow" \in Steps /\ memory' = memory /\ pass[p].step = "record"
    BY <1>4 DEF RecordDecision, Steps
  <2>2. /\ pass'[p].step = "indexRow" /\ pass'[p].item = pass[p].item
        /\ pass'[p].snapshot = pass[p].snapshot
    BY <1>1, <2>1, GotoEffect
  <2> QED
    BY <1>4, <2>1, <2>2, LookupsStay
       DEF AnswersLast, FiltersLast, NotBlocked, RowHasText, SeenLasts
<1>5. CASE IndexRow(p)
  <2>1. /\ Goto(p, "indexEmbedding") /\ "indexEmbedding" \in Steps
        /\ pass[p].item \in Items
        /\ memory' = [memory EXCEPT ![pass[p].item] = Indexed(memory[pass[p].item], Text(p))]
    BY <1>5, PassFacts DEF IndexRow, Steps, SplitSteps
  <2>2. /\ pass'[p].step = "indexEmbedding" /\ pass'[p].item = pass[p].item
        /\ pass'[p].snapshot = pass[p].snapshot
    BY <1>1, <2>1, GotoEffect
  <2>3. Indexed(memory[pass[p].item], Text(p)).content = Text(p)
    BY <1>1, <2>1 DEF Indexed, TypeOK, MemoryRow
  <2>4. memory'[pass[p].item].content = Text(p)
    BY <1>1, <2>1, <2>3 DEF TypeOK
  <2> QED
    BY <2>2, <2>4 DEF AnswersLast, FiltersLast, NotBlocked, RowHasText, SeenLasts, Text
<1>6. CASE IndexEmbedding(p)
  <2>1. Goto(p, "readStories") /\ "readStories" \in Steps
    BY <1>6 DEF IndexEmbedding, Steps
  <2> QED
    BY <1>1, <2>1, GotoEffect, ReliesOnNothing
<1> QED
  BY <1>2, <1>3, <1>4, <1>5, <1>6 DEF Commit

\* The story to join is read once, and left once it has been written.
LEMMA AttachAnswers ==
  ASSUME Inv, NEW p \in Passes, AttachIdea(p)
  PROVE  AnswersLast(p)'
<1>1. TypeOK /\ pass \in [Passes -> Pass] /\ pass[p] \in Pass
  BY PassFacts
<1>2. CASE ReadStories(p)
  <2>1. stories' = stories
    BY <1>2 DEF ReadStories, rows
  <2>2. PICK target, seen :
          /\ pass' = [pass EXCEPT ![p].step = "attach", ![p].target = target, ![p].seen = seen]
          /\ target = 0 \/ seen = stories[target].terms
    BY <1>2 DEF ReadStories
  <2>3. pass'[p].step = "attach" /\ pass'[p].target = target /\ pass'[p].seen = seen
    BY <1>1, <2>2 DEF Pass
  <2> QED
    BY <2>1, <2>2, <2>3 DEF AnswersLast, FiltersLast, NotBlocked, RowHasText, SeenLasts
<1>3. CASE AttachStory(p)
  <2>1. pass'[p].step = "point"
    BY <1>1, <1>3, GotoEffect DEF AttachStory, Steps, Pass
  <2> QED
    BY <2>1, ReliesOnNothing
<1>4. CASE PointIdea(p)
  <2>1. pass'[p].step = "link"
    BY <1>1, <1>4, GotoEffect DEF PointIdea, Steps, SplitSteps
  <2> QED
    BY <2>1, ReliesOnNothing
<1>5. CASE LinkItem(p)
  BY <1>1, <1>5, FinishItemEffect, ReliesOnNothing DEF LinkItem
<1> QED
  BY <1>2, <1>3, <1>4, <1>5 DEF AttachIdea

\* Every step of the only pass, and every change around it, leaves the answers good.
LEMMA AnswersStep ==
  ASSUME Inv, OneAtATime, \A p \in Passes : AnswersLast(p), [Next]_vars
  PROVE  \A p \in Passes : AnswersLast(p)'
<1> DEFINE Good == \A q \in Passes : AnswersLast(q)'
<1>1. ASSUME NEW p \in Passes, pass[p].step # "idle", GoodStep(p), AnswersLast(p)'
      PROVE  Good
  BY <1>1, OthersRest DEF GoodStep
<1>2. ASSUME NEW p \in Passes, GoodStep(p), memory' = memory, stories' = stories,
             AnswersLast(p)'
      PROVE  Good
  <2> SUFFICES ASSUME NEW q \in Passes, q # p PROVE AnswersLast(q)'
    BY <1>2
  <2>1. pass'[q] = pass[q]
    BY <1>2 DEF GoodStep, Alone
  <2> QED
    BY <1>2, <2>1, StillAnswered
<1>3. CASE \E p \in Passes, i \in Items : UpsertIdea(p, i)
  <2>1. PICK p \in Passes, i \in Items : UpsertIdea(p, i)
    BY <1>3
  <2>2. pass'[p].step = "byHash" /\ pass[p].step # "idle"
    BY <2>1, PassFacts DEF UpsertIdea, Pass
  <2> QED
    BY <1>1, <2>1, <2>2, UpsertIdeaStep, ReliesOnNothing
<1>4. CASE \E p \in Passes : Classify(p)
  <2>1. PICK p \in Passes : Classify(p)
    BY <1>4
  <2>2. pass[p].step # "idle"
    BY <2>1 DEF Classify, FindByHash, FindByUrl, FindNearest, Prefilter
  <2>3. AnswersLast(p)'
    BY <2>1, ClassifyAnswers
  <2> QED
    BY <1>1, <2>1, <2>2, <2>3, ClassifyStep
<1>5. CASE \E p \in Passes : Commit(p)
  <2>1. PICK p \in Passes : Commit(p)
    BY <1>5
  <2>2. pass[p].step # "idle"
    BY <2>1 DEF Commit, Decide, RecordDecision, IndexRow, IndexEmbedding
  <2>3. AnswersLast(p)'
    BY <2>1, CommitAnswers
  <2>4. GoodStep(p)
    BY <2>1, DecideStep, RecordDecisionStep, IndexRowStep, IndexEmbeddingStep DEF Commit
  <2> QED
    BY <1>1, <2>2, <2>3, <2>4
<1>6. CASE \E p \in Passes : AttachIdea(p)
  <2>1. PICK p \in Passes : AttachIdea(p)
    BY <1>6
  <2>2. pass[p].step # "idle"
    BY <2>1 DEF AttachIdea, ReadStories, AttachStory, PointIdea, LinkItem
  <2>3. AnswersLast(p)'
    BY <2>1, AttachAnswers
  <2>4. GoodStep(p)
    BY <2>1, ReadStoriesStep, AttachStoryStep, PointIdeaStep, LinkItemStep DEF AttachIdea
  <2> QED
    BY <1>1, <2>2, <2>3, <2>4
<1>7. CASE \E p \in Passes : Fail(p)
  <2>1. PICK p \in Passes : Fail(p)
    BY <1>7
  <2>2. pass'[p].step = "idle" /\ pass[p].step # "idle"
    BY <2>1, PassFacts DEF Fail, IdlePass
  <2>3. AnswersLast(p)'
    BY <2>2, ReliesOnNothing
  <2> QED
    BY <1>1, <2>1, <2>2, <2>3, FailStep
<1>8. ASSUME NEW p \in Passes, NEW batch \in SUBSET Items, Begin(p, batch)
      PROVE  Good
  <2>1. pass'[p].step = "next" /\ memory' = memory /\ stories' = stories
    BY <1>8, PassFacts DEF Begin, IdlePass, rows
  <2>2. AnswersLast(p)'
    BY <2>1, ReliesOnNothing
  <2> QED
    BY <1>2, <1>8, <2>1, <2>2, BeginStep
<1>9. CASE \E s \in Sources : StartWorker(s)
  BY <1>8, <1>9 DEF StartWorker, Passes
<1>10. CASE \E i \in Items, r \in Requests : StartReprocess(r, i)
  BY <1>8, <1>10 DEF StartReprocess, Passes
<1>11. CASE /\ memory' = memory /\ stories' = stories /\ pass' = pass
  BY <1>11, StillAnswered
<1>12. CASE \/ \E i \in Items, c \in Contents : PersistItem(i, c)
            \/ \E s \in Sources : ToggleBinding(s)
            \/ \E i \in Items : ArchiveIdea(i)
            \/ UNCHANGED vars
  BY <1>11, <1>12 DEF PersistItem, ToggleBinding, ArchiveIdea, rows, vars
<1> QED
  BY <1>3, <1>4, <1>5, <1>6, <1>7, <1>9, <1>10, <1>12 DEF Next, Step, Environment

\* While no two passes have overlapped, the answers a pass relies on are good.
LEMMA AnswersHold == Spec => []SerialInv
<1>1. Init => SerialInv
  BY DEF Init, IdlePass, SerialInv, OneAtATime, AnswersLast, FiltersLast, NotBlocked,
         RowHasText, SeenLasts
<1>2. Inv /\ SerialInv /\ [Next]_vars => SerialInv'
  BY AnswersStep, SerialityKept DEF SerialInv, Inv
<1> QED
  BY Invariance, <1>1, <1>2, PTL DEF Spec
-----------------------------------------------------------------------------
(* What is promised while no two passes have overlapped. *)

\* No two ideas of the channel are live memory with the same text or the same URL: the
\* row a pass writes has the text that both prefilters found in no other row.
THEOREM MemoryHoldsNoTwins == Spec => []MemoryIdentityUnique
<1> DEFINE Answers == \A p \in Passes : AnswersLast(p)
           Unique == \A i, j \in Items : memory[i] # None /\ memory[j] # None /\ i # j =>
             /\ HashOf[memory[i].content] # HashOf[memory[j].content]
             /\ UrlOf[memory[i].content] # UrlOf[memory[j].content]
<1>1. Init => MemoryIdentityUnique
  BY DEF Init, MemoryIdentityUnique
<1>2. ASSUME Inv, Answers, Unique, [Next]_vars PROVE Unique'
  <2>1. TypeOK
    BY <1>2 DEF Inv
  <2>2. CASE memory' = memory
    BY <1>2, <2>2
  <2>3. CASE \E p \in Passes : IndexEmbedding(p)
    <3>1. PICK p \in Passes : IndexEmbedding(p)
      BY <2>3
    <3>2. pass[p].item \in Items /\ memory[pass[p].item] \in MemoryRow
      BY <1>2, <3>1, PassFacts DEF IndexEmbedding, PassInv, RowWritten, TypeOK
    <3> DEFINE row == [memory[pass[p].item] EXCEPT !.embedding = Text(p)]
    <3>3. memory' = [memory EXCEPT ![pass[p].item] = row]
      BY <3>1 DEF IndexEmbedding
    <3>4. row.content = memory[pass[p].item].content
      BY <3>2 DEF MemoryRow
    <3>5. memory[pass[p].item] # None
      BY <3>2, NoneAssumption
    <3> HIDE DEF row
    <3>6. \A i \in Items : memory'[i] # None =>
            memory[i] # None /\ memory'[i].content = memory[i].content
      BY <2>1, <3>2, <3>3, <3>4, <3>5 DEF TypeOK
    <3> QED
      BY <1>2, <3>6
  <2>4. CASE \E p \in Passes : IndexRow(p)
    <3>1. PICK p \in Passes : IndexRow(p)
      BY <2>4
    <3> DEFINE i == pass[p].item
               row == Indexed(memory[i], Text(p))
    <3>2. i \in Items /\ memory' = [memory EXCEPT ![i] = row]
      BY <1>2, <3>1, PassFacts DEF IndexRow
    <3>3. row.content = Text(p)
      BY <2>1, <3>2 DEF Indexed, TypeOK, MemoryRow
    <3>4. SameHash(p) = {} /\ SameUrl(p) = {}
      BY <1>2, <3>1 DEF IndexRow, AnswersLast, FiltersLast, NotBlocked
    <3>5. \A j \in Items \ {i} : memory[j] # None =>
            /\ HashOf[memory[j].content] # HashOf[Text(p)]
            /\ UrlOf[memory[j].content] # UrlOf[Text(p)]
      BY <3>4 DEF SameHash, SameUrl, Others
    <3> HIDE DEF i, row
    <3>6. memory'[i].content = Text(p) /\ \A j \in Items \ {i} : memory'[j] = memory[j]
      BY <2>1, <3>2, <3>3 DEF TypeOK
    <3> QED
      BY <1>2, <3>2, <3>5, <3>6
  <2> QED
    BY <1>2, <2>2, <2>3, <2>4, MemoryWriters
<1>3. Inv /\ SerialInv /\ MemoryIdentityUnique /\ [Next]_vars => MemoryIdentityUnique'
  BY <1>2, SerialityKept DEF SerialInv, MemoryIdentityUnique
<1>4. Spec => []SerialInv
  BY AnswersHold
<1> QED
  BY Invariance, <1>1, <1>3, <1>4, PTL DEF Spec

\* A pass between the two statements of the upsert stays put, writes the second or fails.
LEMMA HalfIndexedMoves ==
  ASSUME Inv, [Next]_vars, NEW p \in Passes, pass[p].step = "indexEmbedding"
  PROVE  pass'[p] = pass[p] \/ IndexEmbedding(p) \/ Fail(p)
<1>1. ASSUME NEW q \in Passes, GoodStep(q) PROVE q = p \/ pass'[p] = pass[p]
  BY <1>1 DEF GoodStep, Alone
<1>2. CASE \E q \in Passes, i \in Items : UpsertIdea(q, i)
  BY <1>1, <1>2, UpsertIdeaStep DEF UpsertIdea
<1>3. CASE \E q \in Passes : Classify(q)
  BY <1>1, <1>3, ClassifyStep DEF Classify, FindByHash, FindByUrl, FindNearest, Prefilter
<1>4. CASE \E q \in Passes : Commit(q)
  BY <1>1, <1>4, DecideStep, RecordDecisionStep, IndexRowStep, IndexEmbeddingStep
     DEF Commit, Decide, RecordDecision, IndexRow
<1>5. CASE \E q \in Passes : AttachIdea(q)
  BY <1>1, <1>5, ReadStoriesStep, AttachStoryStep, PointIdeaStep, LinkItemStep
     DEF AttachIdea, ReadStories, AttachStory, PointIdea, LinkItem
<1>6. CASE \E q \in Passes : Fail(q)
  BY <1>1, <1>6, FailStep
<1>7. CASE \E s \in Sources : StartWorker(s)
  BY <1>1, <1>7, BeginStep DEF StartWorker, Begin, Passes
<1>8. CASE \E i \in Items, r \in Requests : StartReprocess(r, i)
  BY <1>1, <1>8, BeginStep DEF StartReprocess, Begin, Passes
<1>9. CASE \/ \E i \in Items, c \in Contents : PersistItem(i, c)
           \/ \E s \in Sources : ToggleBinding(s)
           \/ \E i \in Items : ArchiveIdea(i)
  BY <1>9 DEF PersistItem, ToggleBinding, ArchiveIdea
<1>10. CASE UNCHANGED vars
  BY <1>10 DEF vars
<1> QED
  BY <1>2, <1>3, <1>4, <1>5, <1>6, <1>7, <1>8, <1>9, <1>10 DEF Next, Step, Environment

\* The vector of a remembered idea is that of its text, but between the two statements
\* that store them and after a failure there.
THEOREM EmbeddingsFollowTheirRows == Spec => []EmbeddingMatchesRow
<1> DEFINE Answers == \A p \in Passes : AnswersLast(p)
           Excused(i) == \/ \E p \in Passes : At(p, "indexEmbedding", i)
                         \/ <<i, "indexEmbedding">> \in torn
           Matching == \A i \in Items :
             memory[i] # None /\ memory[i].embedding # memory[i].content => Excused(i)
<1>1. Init => EmbeddingMatchesRow
  BY DEF Init, EmbeddingMatchesRow
<1>2. ASSUME Inv, Answers, Matching, [Next]_vars PROVE Matching'
  <2> SUFFICES ASSUME NEW i \in Items, memory'[i] # None,
                      memory'[i].embedding # memory'[i].content
               PROVE  Excused(i)'
    OBVIOUS
  <2>1. TypeOK
    BY <1>2 DEF Inv
  <2>2. ASSUME NEW p \in Passes, IndexEmbedding(p) PROVE pass[p].item # i
    <3>1. /\ pass[p].item \in Items /\ memory[pass[p].item] \in MemoryRow
          /\ memory[pass[p].item].content = Text(p)
      BY <1>2, <2>2, PassFacts
         DEF IndexEmbedding, PassInv, RowWritten, TypeOK, AnswersLast, RowHasText
    <3> DEFINE row == [memory[pass[p].item] EXCEPT !.embedding = Text(p)]
    <3>2. memory' = [memory EXCEPT ![pass[p].item] = row]
      BY <2>2 DEF IndexEmbedding
    <3>3. row.embedding = row.content
      BY <3>1 DEF MemoryRow
    <3> HIDE DEF row
    <3> QED
      BY <2>1, <3>1, <3>2, <3>3 DEF TypeOK
  <2>3. ASSUME Excused(i) PROVE Excused(i)'
    <3>1. CASE <<i, "indexEmbedding">> \in torn
      BY <1>2, <3>1, InvStep DEF Grows
    <3>2. CASE \E p \in Passes : At(p, "indexEmbedding", i)
      <4>1. PICK p \in Passes : At(p, "indexEmbedding", i)
        BY <3>2
      <4>2. CASE pass'[p] = pass[p]
        BY <4>1, <4>2 DEF At
      <4>3. CASE Fail(p)
        BY <4>1, <4>3 DEF At, Fail, SplitSteps
      <4> QED
        BY <1>2, <2>2, <4>1, <4>2, <4>3, HalfIndexedMoves DEF At
    <3> QED
      BY <2>3, <3>1, <3>2
  <2>4. CASE memory'[i] = memory[i]
    BY <1>2, <2>3, <2>4
  <2>5. CASE \E p \in Passes : IndexRow(p) /\ pass[p].item = i
    <3>1. PICK p \in Passes : IndexRow(p) /\ pass[p].item = i
      BY <2>5
    <3>2. Goto(p, "indexEmbedding") /\ "indexEmbedding" \in Steps /\ pass \in [Passes -> Pass]
      BY <2>1, <3>1 DEF IndexRow, Steps, SplitSteps, TypeOK
    <3>3. pass'[p].step = "indexEmbedding" /\ pass'[p].item = i
      BY <3>1, <3>2, GotoEffect
    <3> QED
      BY <3>3 DEF At
  <2>6. ASSUME NEW p \in Passes, IndexRow(p) \/ IndexEmbedding(p), pass[p].item # i
        PROVE  memory'[i] = memory[i]
    BY <2>1, <2>6 DEF IndexRow, IndexEmbedding, TypeOK
  <2> QED
    BY <1>2, <2>2, <2>4, <2>5, <2>6, MemoryWriters
<1>3. Inv /\ SerialInv /\ EmbeddingMatchesRow /\ [Next]_vars => EmbeddingMatchesRow'
  BY <1>2, SerialityKept DEF SerialInv, EmbeddingMatchesRow
<1>4. Spec => []SerialInv
  BY AnswersHold
<1> QED
  BY Invariance, <1>1, <1>3, <1>4, PTL DEF Spec

\* No step takes a term from a story or an item from a timeline: the union an attach
\* writes is with all the terms the story has.
THEOREM StoriesLoseNothing == Spec => StoriesOnlyGrow
<1> DEFINE Answers == \A p \in Passes : AnswersLast(p)
           Grown == /\ links \subseteq links'
                    /\ \A s \in DOMAIN stories : stories[s].terms \subseteq stories'[s].terms
<1>1. ASSUME Inv, Answers, [Next]_vars PROVE Grown
  <2>1. TypeOK /\ links \subseteq links'
    BY <1>1, InvStep DEF Inv, Grows
  <2>2. CASE stories' = stories
    BY <2>1, <2>2
  <2>3. CASE \E p \in Passes : AttachStory(p)
    <3>1. PICK p \in Passes : AttachStory(p)
      BY <2>3
    <3>2. /\ stories \in Seq(Story) /\ Len(stories) \in Nat
          /\ pass[p].target \in 0 .. Len(stories)
          /\ \A s \in DOMAIN stories : s \in 1 .. Len(stories)
      BY <1>1, <2>1, PassFacts, StoryTyped DEF TypeOK
    <3>3. CASE pass[p].target # 0
      <4> DEFINE t == pass[p].target
                 story == Joined(stories[t], pass[p].seen, TermsOf[Text(p)])
      <4>1. stories' = [stories EXCEPT ![t] = story] /\ t \in 1 .. Len(stories)
        BY <3>1, <3>2, <3>3 DEF AttachStory
      <4>2. pass[p].seen = stories[t].terms
        BY <1>1, <3>1, <3>3 DEF AttachStory, AnswersLast, SeenLasts
      <4>3. stories[t].terms \subseteq story.terms
        BY <4>2 DEF Joined
      <4> HIDE DEF t, story
      <4> QED
        BY <2>1, <3>2, <4>1, <4>3
    <3>4. CASE pass[p].target = 0
      <4> DEFINE story == [terms |-> TermsOf[Text(p)], itemCount |-> 1]
      <4>1. stories' = Append(stories, story)
        BY <3>1, <3>4 DEF AttachStory
      <4> HIDE DEF story
      <4>2. \A s \in DOMAIN stories : stories'[s] = stories[s]
        BY <3>2, <4>1
      <4> QED
        BY <2>1, <4>2
    <3> QED
      BY <3>3, <3>4
  <2> QED
    BY <1>1, <2>2, <2>3, StoryWriters
<1>2. Inv /\ SerialInv /\ [Next]_vars => [~overlapped => Grown]_vars
  BY <1>1 DEF SerialInv
<1>3. Spec => []SerialInv
  BY AnswersHold
<1> HIDE DEF Answers, Grown
<1>4. Spec => [][~overlapped => Grown]_vars
  BY Invariance, <1>2, <1>3, PTL DEF Spec
<1> QED
  BY <1>4 DEF StoriesOnlyGrow, Grown
=============================================================================
