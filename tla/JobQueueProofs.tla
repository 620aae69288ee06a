--------------------------- MODULE JobQueueProofs ---------------------------
(***************************************************************************)
(* What one queue keeps for any number of jobs, workers, slots and         *)
(* attempts: a lock and the active state go together, a handler that has   *)
(* not lost its lock has it, and every start of a handler is paid for with *)
(* an attempt or a stall.                                                  *)
(***************************************************************************)
EXTENDS JobQueue, TLAPS

Pending == {"waiting", "active", "delayed"}

\* A job carries a lock exactly while it is active.
LockedMeansActive == \A j \in Jobs : holder[j] \in Slots <=> state[j] = "active"

\* A job that is not settled has an attempt left and may lose its lock again.
PendingHasBudget ==
  \A j \in Jobs : state[j] \in Pending => attemptsMade[j] < Attempts /\ stalled[j] <= MaxStalls

\* Every start of a handler is one that ended in time, lost its lock, or has it now.
ExecutionsCounted ==
  \A j \in Jobs :
    executions[j] = attemptsMade[j] + stalled[j] + (IF state[j] = "active" THEN 1 ELSE 0)

\* A handler that runs has the lock of its job until it is late, and then never again.
LatenessIsLostLock ==
  \A s \in Slots : /\ running[s] # None => (s \in late <=> holder[running[s]] # s)
                   /\ running[s] = None => s \notin late

Inv == /\ TypeOK /\ LockedMeansActive /\ PendingHasBudget /\ ExecutionsCounted
       /\ FailedForAReason /\ ExecutionsBounded /\ LatenessIsLostLock

\* All but the slots.
JobInv == /\ TypeOK /\ LockedMeansActive /\ PendingHasBudget /\ ExecutionsCounted
          /\ FailedForAReason /\ ExecutionsBounded

\* The initial state.
LEMMA InvInit == ASSUME Init PROVE Inv
  BY JobQueueAssumption
  DEF Init, Inv, TypeOK, JobStates, LockedMeansActive, PendingHasBudget, Pending, ExecutionsCounted,
      FailedForAReason, ExecutionsBounded, LatenessIsLostLock

\* What happens to a job in Redis without a worker.
LEMMA QueueStep ==
  ASSUME Inv, NEW j \in Jobs, Enqueue(j) \/ Promote(j) \/ Evict(j)
  PROVE  Inv'
<1> USE DEF Inv, TypeOK, JobStates, LockedMeansActive, PendingHasBudget, Pending, ExecutionsCounted,
            FailedForAReason, ExecutionsBounded, workers, history
<1>1. CASE Enqueue(j)
  BY <1>1, JobQueueAssumption DEF Enqueue, LatenessIsLostLock
<1>2. CASE Promote(j)
  BY <1>2 DEF Promote, LatenessIsLostLock
<1>3. CASE Evict(j)
  BY <1>3 DEF Evict, LatenessIsLostLock
<1> QED
  BY <1>1, <1>2, <1>3

\* A lock expires: the handler that had it is late if it still runs.
LEMMA StallStep ==
  ASSUME Inv, NEW j \in Jobs, Stall(j)
  PROVE  Inv'
<1>1. JobInv'
  BY JobQueueAssumption
  DEF Stall, Inv, JobInv, TypeOK, JobStates, LockedMeansActive, PendingHasBudget, Pending,
      ExecutionsCounted, FailedForAReason, ExecutionsBounded, history
<1>2. LatenessIsLostLock'
  BY JobQueueAssumption DEF Stall, Hangs, Inv, TypeOK, LockedMeansActive, LatenessIsLostLock
<1> QED
  BY <1>1, <1>2 DEF Inv, JobInv

\* A worker takes a job.
LEMMA FetchStep ==
  ASSUME Inv, NEW s \in Slots, NEW j \in Jobs, Fetch(s, j)
  PROVE  Inv'
<1>1. JobInv'
  BY JobQueueAssumption
  DEF Fetch, Inv, JobInv, TypeOK, JobStates, LockedMeansActive, PendingHasBudget, Pending,
      ExecutionsCounted, FailedForAReason, ExecutionsBounded
<1>2. LatenessIsLostLock'
  BY JobQueueAssumption DEF Fetch, Inv, TypeOK, LockedMeansActive, LatenessIsLostLock
<1> QED
  BY <1>1, <1>2 DEF Inv, JobInv

\* A handler that is over has its lock exactly when it is not late, and then counts.
LEMMA ReturnCounts ==
  ASSUME Inv, NEW s \in Slots, NEW j \in Jobs, Return(s, j)
  PROVE  ended' = IF holder[j] = s THEN [ended EXCEPT ![j] = @ + 1] ELSE ended
  BY JobQueueAssumption DEF Return, Inv, LatenessIsLostLock

\* A slot that is free again is not late; the others have what they had.
LEMMA ReturnKeepsSlots ==
  ASSUME Inv, NEW s \in Slots, NEW j \in Jobs, Return(s, j),
         holder' = IF holder[j] = s THEN [holder EXCEPT ![j] = None] ELSE holder
  PROVE  LatenessIsLostLock'
  BY JobQueueAssumption DEF Return, Inv, TypeOK, LatenessIsLostLock

\* A handler returns.
LEMMA SucceedStep ==
  ASSUME Inv, NEW s \in Slots, NEW j \in Jobs, Succeed(s, j)
  PROVE  Inv'
<1>1. LatenessIsLostLock'
  <2>1. Return(s, j)
    BY DEF Succeed
  <2>2. holder' = IF holder[j] = s THEN [holder EXCEPT ![j] = None] ELSE holder
    BY DEF Succeed
  <2> QED
    BY <2>1, <2>2, ReturnKeepsSlots
<1>2. ended' = IF holder[j] = s THEN [ended EXCEPT ![j] = @ + 1] ELSE ended
  BY ReturnCounts DEF Succeed
<1>3. CASE holder[j] = s
  BY <1>1, <1>2, <1>3, JobQueueAssumption
  DEF Succeed, Return, Inv, TypeOK, JobStates, LockedMeansActive, PendingHasBudget, Pending,
      ExecutionsCounted, FailedForAReason, ExecutionsBounded
<1>4. CASE holder[j] # s
  BY <1>1, <1>2, <1>4, JobQueueAssumption
  DEF Succeed, Return, Inv, TypeOK, LockedMeansActive, PendingHasBudget, ExecutionsCounted,
      FailedForAReason, ExecutionsBounded
<1> QED
  BY <1>3, <1>4

\* A handler throws.
LEMMA ThrowStep ==
  ASSUME Inv, NEW s \in Slots, NEW j \in Jobs, NEW c \in Thrown, Throw(s, j, c)
  PROVE  Inv'
<1>1. LatenessIsLostLock'
  <2>1. Return(s, j)
    BY DEF Throw
  <2>2. holder' = IF holder[j] = s THEN [holder EXCEPT ![j] = None] ELSE holder
    BY DEF Throw
  <2> QED
    BY <2>1, <2>2, ReturnKeepsSlots
<1>2. ended' = IF holder[j] = s THEN [ended EXCEPT ![j] = @ + 1] ELSE ended
  BY ReturnCounts DEF Throw
<1>3. CASE holder[j] = s
  BY <1>1, <1>2, <1>3, JobQueueAssumption
  DEF Throw, AfterFailure, Return, Inv, TypeOK, JobStates, LockedMeansActive, PendingHasBudget,
      Pending, ExecutionsCounted, FailedForAReason, ExecutionsBounded
<1>4. CASE holder[j] # s
  BY <1>1, <1>2, <1>4, JobQueueAssumption
  DEF Throw, Return, Inv, TypeOK, LockedMeansActive, PendingHasBudget, ExecutionsCounted,
      FailedForAReason, ExecutionsBounded
<1> QED
  BY <1>3, <1>4

\* A process stops or starts: no job moves, and no handler is late that was not.
LEMMA ProcessStep ==
  ASSUME Inv, NEW w \in Workers,
         BeginShutdown(w) \/ FinishShutdown(w) \/ Kill(w) \/ Restart(w)
  PROVE  Inv' /\ UNCHANGED state
<1>1. JobInv' /\ UNCHANGED <<state, holder>>
  BY JobQueueAssumption
  DEF BeginShutdown, FinishShutdown, Kill, Restart, job, history, Inv, JobInv, TypeOK,
      LockedMeansActive, PendingHasBudget, ExecutionsCounted, FailedForAReason, ExecutionsBounded
<1>2. LatenessIsLostLock'
  <2>1. CASE UNCHANGED <<running, late>>
    BY <1>1, <2>1 DEF Inv, LatenessIsLostLock
  <2>2. CASE Kill(w)
    BY <1>1, <2>2 DEF Kill, Inv, LatenessIsLostLock
  <2> QED
    BY <2>1, <2>2 DEF BeginShutdown, FinishShutdown, Restart
<1> QED
  BY <1>1, <1>2 DEF Inv, JobInv

\* Every step keeps the invariant.
LEMMA InvStep ==
  ASSUME Inv, [Next]_vars
  PROVE  Inv'
<1>1. CASE UNCHANGED vars
  BY <1>1
  DEF vars, job, workers, history, Inv, TypeOK, LockedMeansActive, PendingHasBudget,
      ExecutionsCounted, FailedForAReason, ExecutionsBounded, LatenessIsLostLock
<1> QED
  BY <1>1, QueueStep, StallStep, FetchStep, SucceedStep, ThrowStep, ProcessStep DEF Next, Settle

\* The invariant holds throughout.
LEMMA Invariance == Spec => []Inv
<1>1. Init => Inv
  BY InvInit
<1>2. Inv /\ [Next]_vars => Inv'
  BY InvStep
<1> QED
  BY <1>1, <1>2, PTL DEF Spec
-----------------------------------------------------------------------------
\* Types are kept: attempts and lost locks never pass their limits.
THEOREM TypeCorrect == Spec => []TypeOK
<1>1. Inv => TypeOK
  BY DEF Inv
<1> QED
  BY <1>1, Invariance, PTL

\* Only handlers that end with their lock cost an attempt, and a job is given up for one
\* of the two reasons only.
THEOREM GivenUpForAReason == Spec => []FailedForAReason
<1>1. Inv => FailedForAReason
  BY DEF Inv
<1> QED
  BY <1>1, Invariance, PTL

\* The handler of a job is started at most Attempts + MaxStalls times.
THEOREM ExecutionsAreBudgeted == Spec => []ExecutionsBounded
<1>1. Inv => ExecutionsBounded
  BY DEF Inv
<1> QED
  BY <1>1, Invariance, PTL

\* Two executions of a job never overlap but after one of them lost its lock: the lock
\* has one holder, and a handler that is not late is that one.
THEOREM OverlapsArePaidFor == Spec => []OverlapNeedsExpiredLock
<1>1. Inv => OverlapNeedsExpiredLock
  BY DEF Inv, LatenessIsLostLock, OverlapNeedsExpiredLock
<1> QED
  BY <1>1, Invariance, PTL

\* Every step of the queue is one of the board or none: the safety part of
\* ImplementsBoard.
THEOREM QueueIsBoard == Spec => Board!SafetySpec
<1>1. Init => Board!Init
  BY DEF Init, Board!Init, BoardStatus
<1>2. Inv /\ [Next]_vars => [Board!Next]_BoardStatus
  <2> SUFFICES ASSUME Inv, [Next]_vars
               PROVE  [Board!Next]_BoardStatus
    OBVIOUS
  <2>1. state \in [Jobs -> JobStates]
    BY DEF Inv, TypeOK
  <2>2. ASSUME NEW j \in Jobs, NEW from \in Pending, NEW to \in Pending,
               state[j] = from, state' = [state EXCEPT ![j] = to]
        PROVE  UNCHANGED BoardStatus
    BY <2>1, <2>2 DEF BoardStatus, Pending
  <2>3. ASSUME NEW j \in Jobs, state[j] \in Pending,
               NEW to \in {"completed", "failed"}, state' = [state EXCEPT ![j] = to]
        PROVE  Board!Settle(j)
    BY <2>1, <2>3 DEF BoardStatus, Board!Settle, Board!Move, Pending
  <2>4. ASSUME NEW j \in Jobs, Enqueue(j) PROVE Board!Submit(j)
    BY <2>1, <2>4 DEF Enqueue, BoardStatus, Board!Submit, Board!Move
  <2>5. ASSUME NEW j \in Jobs, Evict(j) PROVE Board!Forget(j)
    BY <2>1, <2>5 DEF Evict, BoardStatus, Board!Forget, Board!Move
  <2>6. ASSUME NEW j \in Jobs, Promote(j) PROVE UNCHANGED BoardStatus
    BY <2>2, <2>6 DEF Promote, Pending
  <2>7. ASSUME NEW j \in Jobs, Stall(j) PROVE Board!Settle(j) \/ UNCHANGED BoardStatus
    BY <2>2, <2>3, <2>7 DEF Stall, Pending
  <2>8. ASSUME NEW s \in Slots, NEW j \in Jobs, Fetch(s, j) PROVE UNCHANGED BoardStatus
    BY <2>2, <2>8 DEF Fetch, Pending
  <2>9. ASSUME NEW s \in Slots, NEW j \in Jobs, Succeed(s, j)
        PROVE  Board!Settle(j) \/ UNCHANGED BoardStatus
    <3>1. CASE holder[j] = s
      BY <2>3, <2>9, <3>1 DEF Succeed, Inv, LockedMeansActive, Pending
    <3>2. CASE holder[j] # s
      BY <2>9, <3>2 DEF Succeed, BoardStatus
    <3> QED
      BY <3>1, <3>2
  <2>10. ASSUME NEW s \in Slots, NEW j \in Jobs, NEW c \in Thrown, Throw(s, j, c)
         PROVE  Board!Settle(j) \/ UNCHANGED BoardStatus
    <3>1. CASE holder[j] = s
      BY <2>2, <2>3, <2>10, <3>1 DEF Throw, AfterFailure, Inv, LockedMeansActive, Pending
    <3>2. CASE holder[j] # s
      BY <2>10, <3>2 DEF Throw, BoardStatus
    <3> QED
      BY <3>1, <3>2
  <2>11. ASSUME NEW w \in Workers, BeginShutdown(w) \/ FinishShutdown(w) \/ Kill(w) \/ Restart(w)
         PROVE  UNCHANGED BoardStatus
    BY <2>11, ProcessStep DEF BoardStatus
  <2>12. CASE UNCHANGED vars
    BY <2>12 DEF vars, job, BoardStatus
  <2> QED
    BY <2>4, <2>5, <2>6, <2>7, <2>8, <2>9, <2>10, <2>11, <2>12 DEF Next, Settle, Board!Next
<1> QED
  BY <1>1, <1>2, Invariance, PTL DEF Spec, Board!SafetySpec
-----------------------------------------------------------------------------
(* A job does not go round for ever: how often Redis may still move it is a number
   that every move makes smaller. *)

Phase == [delayed |-> 2, waiting |-> 1, active |-> 0]

\* Three moves for each failed attempt and each lost lock that is left, and one to be
\* forgotten.
MovesLeft(j) ==
  IF state[j] \in Pending
  THEN 3 * (Attempts - attemptsMade[j]) + 3 * (MaxStalls + 1 - stalled[j]) + Phase[state[j]]
  ELSE IF state[j] = "completed" THEN 1 ELSE 0

MostMoves == 3 * Attempts + 3 * MaxStalls + 5

\* What a step does to a job it moves, unless it adds it.
MovesOn(j) == state'[j] # state[j] /\ state[j] # "absent" => MovesLeft(j)' < MovesLeft(j)

\* The moves left can be counted, and a job that is not settled has some left.
LEMMA MovesLeftCounts ==
  ASSUME Inv, NEW j \in Jobs
  PROVE  /\ MovesLeft(j) \in 0 .. MostMoves
         /\ state[j] \in Pending => MovesLeft(j) >= 6
<1>1. /\ state[j] \in JobStates /\ attemptsMade[j] \in 0 .. Attempts
      /\ stalled[j] \in 0 .. MaxStalls + 1 /\ Attempts \in Nat \ {0} /\ MaxStalls \in Nat
  BY JobQueueAssumption DEF Inv, TypeOK
<1>2. state[j] \in Pending => attemptsMade[j] < Attempts /\ stalled[j] <= MaxStalls
  BY DEF Inv, PendingHasBudget
<1> QED
  BY <1>1, <1>2 DEF MovesLeft, MostMoves, Phase, Pending

\* A lost lock uses up a stall, a thrown error an attempt, the result of a handler all.
LEMMA JobMovesOn ==
  ASSUME Inv, NEW j \in Jobs,
         \/ Promote(j) \/ Evict(j) \/ Stall(j)
         \/ \E s \in Slots : Fetch(s, j) \/ Settle(s, j)
  PROVE  MovesOn(j)
<1>1. /\ state[j] \in JobStates /\ attemptsMade[j] \in 0 .. Attempts
      /\ stalled[j] \in 0 .. MaxStalls + 1 /\ Attempts \in Nat \ {0} /\ MaxStalls \in Nat
  BY JobQueueAssumption DEF Inv, TypeOK
<1>2. state[j] \in Pending => attemptsMade[j] < Attempts /\ stalled[j] <= MaxStalls
  BY DEF Inv, PendingHasBudget
<1>3. DOMAIN state = Jobs /\ DOMAIN attemptsMade = Jobs /\ DOMAIN stalled = Jobs
  BY DEF Inv, TypeOK
<1> USE <1>1, <1>2, <1>3 DEF MovesOn, MovesLeft, Phase, Pending
<1>4. CASE Promote(j)
  BY <1>4 DEF Promote
<1>5. CASE Evict(j)
  BY <1>5 DEF Evict
<1>6. CASE Stall(j)
  BY <1>6 DEF Stall
<1>7. ASSUME NEW s \in Slots, Fetch(s, j) PROVE MovesOn(j)
  BY <1>7 DEF Fetch
<1>8. ASSUME NEW s \in Slots, Succeed(s, j) PROVE MovesOn(j)
  <2>1. holder[j] = s => state[j] = "active"
    BY DEF Inv, LockedMeansActive
  <2> QED
    BY <1>8, <2>1 DEF Succeed
<1>9. ASSUME NEW s \in Slots, NEW c \in Thrown, Throw(s, j, c) PROVE MovesOn(j)
  <2>1. holder[j] = s => state[j] = "active"
    BY DEF Inv, LockedMeansActive
  <2> QED
    BY <1>9, <2>1 DEF Throw, AfterFailure
<1> QED
  BY <1>4, <1>5, <1>6, <1>7, <1>8, <1>9 DEF Settle

\* No other job moves, and a job that is added was not there.
LEMMA OthersStay ==
  ASSUME Inv, NEW i \in Jobs, NEW j \in Jobs,
         \/ Enqueue(i)
         \/ i # j /\ \/ Promote(i) \/ Evict(i) \/ Stall(i)
                     \/ \E s \in Slots : Fetch(s, i) \/ Settle(s, i)
  PROVE  MovesOn(j)
<1>1. DOMAIN state = Jobs
  BY DEF Inv, TypeOK
<1> QED
  BY <1>1 DEF MovesOn, Enqueue, Promote, Evict, Stall, Fetch, Settle, Succeed, Throw

\* From the moment it is added a job is moved at most MostMoves times until it is
\* forgotten: no sequence of errors, crashes, restarts and expired locks keeps it going
\* from worker to worker, or has it fetched more often than its attempts and stalls allow.
THEOREM JobsDoNotGoRound ==
  Spec => /\ [](\A j \in Jobs : MovesLeft(j) \in 0 .. MostMoves)
          /\ [][\A j \in Jobs : MovesOn(j)]_vars
<1>1. Inv => \A j \in Jobs : MovesLeft(j) \in 0 .. MostMoves
  BY MovesLeftCounts
<1>2. Inv /\ [Next]_vars => [\A j \in Jobs : MovesOn(j)]_vars
  <2> SUFFICES ASSUME Inv, Next, NEW j \in Jobs PROVE MovesOn(j)
    OBVIOUS
  <2>1. ASSUME NEW w \in Workers, BeginShutdown(w) \/ FinishShutdown(w) \/ Kill(w) \/ Restart(w)
        PROVE  MovesOn(j)
    BY <2>1, ProcessStep DEF MovesOn
  <2> QED
    BY <2>1, JobMovesOn, OthersStay DEF Next
<1> QED
  BY <1>1, <1>2, Invariance, PTL DEF Spec
=============================================================================
