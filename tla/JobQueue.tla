------------------------------ MODULE JobQueue ------------------------------
(***************************************************************************)
(* One of the queues: producers that add jobs under deterministic ids      *)
(* (QueueRegistry.enqueue), Redis holding the jobs (BullMQ, modelled from  *)
(* how the registry and the runtime configure and use it) and the worker   *)
(* processes that run the handlers (startWorkers).                         *)
(***************************************************************************)
EXTENDS Integers

CONSTANTS
  Jobs,           \* job ids, the encoded idempotency keys
  Workers,        \* worker processes
  Attempts,       \* the queue policy's attempts
  Concurrency,    \* jobs a worker runs at a time
  MaxStalls,      \* BullMQ's maxStalledCount: 1
  None,
  MaxDisruptions  \* bound on crashes, restarts and expired locks

Retryable == {"RATE_LIMITED", "TIMEOUT", "UPSTREAM_UNAVAILABLE"}
Categories == Retryable \cup
  {"VALIDATION", "NOT_FOUND", "CONFLICT", "UNAUTHORIZED", "FORBIDDEN",
   "CONTRACT_VIOLATION", "INTERNAL"}

CONSTANT Thrown   \* the categories the handlers throw

\* A worker runs its jobs side by side; each execution has a lock of its own.
Slots == Workers \X (1 .. Concurrency)
Of(w) == {s \in Slots : s[1] = w}

ASSUME JobQueueAssumption ==
  /\ Attempts \in Nat \ {0}
  /\ Concurrency \in Nat \ {0}
  /\ {MaxStalls, MaxDisruptions} \subseteq Nat
  /\ Thrown \subseteq Categories
  /\ None \notin Jobs \cup Slots \cup Categories

VARIABLES
  state,        \* where Redis holds each job
  attemptsMade,
  stalled,      \* how often the job's lock expired
  holder,       \* the execution whose lock the job carries
  error,        \* the category the last attempt failed with
  running,      \* the job whose handler runs in each slot
  lifecycle,    \* of each worker process
  late,         \* history: the slots whose handler still runs though its lock expired
  executions,   \* history: how often a handler was started for the job since it was added
  ended,        \* history: how many of these returned or threw before their lock expired
  disruptions

job == <<state, attemptsMade, stalled, holder, error>>
workers == <<running, lifecycle, late>>
history == <<executions, ended>>
vars == <<job, workers, history, disruptions>>

JobStates == {"absent", "waiting", "active", "delayed", "completed", "failed"}

TypeOK ==
  /\ state \in [Jobs -> JobStates]
  /\ attemptsMade \in [Jobs -> 0 .. Attempts]
  /\ stalled \in [Jobs -> 0 .. MaxStalls + 1]
  /\ holder \in [Jobs -> Slots \cup {None}]
  /\ error \in [Jobs -> Categories \cup {None}]
  /\ running \in [Slots -> Jobs \cup {None}]
  /\ lifecycle \in [Workers -> {"up", "closing", "down"}]
  /\ late \subseteq Slots
  /\ executions \in [Jobs -> Nat]
  /\ ended \in [Jobs -> Nat]
  /\ disruptions \in Nat

Init ==
  /\ state = [j \in Jobs |-> "absent"]
  /\ attemptsMade = [j \in Jobs |-> 0]
  /\ stalled = [j \in Jobs |-> 0]
  /\ holder = [j \in Jobs |-> None]
  /\ error = [j \in Jobs |-> None]
  /\ running = [s \in Slots |-> None]
  /\ lifecycle = [w \in Workers |-> "up"]
  /\ late = {}
  /\ executions = [j \in Jobs |-> 0]
  /\ ended = [j \in Jobs |-> 0]
  /\ disruptions = 0

-----------------------------------------------------------------------------
(* The producer and the queue. *)

\* queue.add with a jobId Redis still holds, in whatever state, returns that job.
Enqueue(j) ==
  /\ state[j] = "absent"
  /\ state' = [state EXCEPT ![j] = "waiting"]
  /\ attemptsMade' = [attemptsMade EXCEPT ![j] = 0]
  /\ stalled' = [stalled EXCEPT ![j] = 0]
  /\ error' = [error EXCEPT ![j] = None]
  /\ executions' = [executions EXCEPT ![j] = 0]
  /\ ended' = [ended EXCEPT ![j] = 0]
  /\ UNCHANGED <<holder, workers, disruptions>>

\* The backoff is over.
Promote(j) ==
  /\ state[j] = "delayed"
  /\ state' = [state EXCEPT ![j] = "waiting"]
  /\ UNCHANGED <<attemptsMade, stalled, holder, error, workers, history, disruptions>>

EvictSettled(j) ==                           \* mutation: removeOnFail is on, too
  /\ state[j] \in {"completed", "failed"}
  /\ state' = [state EXCEPT ![j] = "absent"]
  /\ UNCHANGED <<attemptsMade, stalled, holder, error, workers, history, disruptions>>

\* removeOnComplete: old or surplus completed jobs go.  Failed ones stay.
Evict(j) ==
  /\ state[j] = "completed"
  /\ state' = [state EXCEPT ![j] = "absent"]
  /\ UNCHANGED <<attemptsMade, stalled, holder, error, workers, history, disruptions>>

\* The lock of a handler expires while it still runs.
Hangs(j) == running[holder[j]] = j

StallCostly(j) ==                            \* mutation: a lost lock costs an attempt
  /\ state[j] = "active"
  /\ disruptions < MaxDisruptions \/ ~Hangs(j)
  /\ attemptsMade' = [attemptsMade EXCEPT ![j] = @ + 1]
  /\ state' = [state EXCEPT ![j] = IF attemptsMade[j] + 1 < Attempts THEN "waiting" ELSE "failed"]
  /\ holder' = [holder EXCEPT ![j] = None]
  /\ late' = IF Hangs(j) THEN late \cup {holder[j]} ELSE late
  /\ disruptions' = IF Hangs(j) THEN disruptions + 1 ELSE disruptions
  /\ UNCHANGED <<stalled, error, running, lifecycle, history>>

StallUncounted(j) ==                         \* mutation: lost locks are not counted
  /\ state[j] = "active"
  /\ disruptions < MaxDisruptions \/ ~Hangs(j)
  /\ state' = [state EXCEPT ![j] = "waiting"]
  /\ holder' = [holder EXCEPT ![j] = None]
  /\ late' = IF Hangs(j) THEN late \cup {holder[j]} ELSE late
  /\ disruptions' = IF Hangs(j) THEN disruptions + 1 ELSE disruptions
  /\ UNCHANGED <<attemptsMade, stalled, error, running, lifecycle, history>>

\* The lock is not renewed in time: the worker died, or its event loop hangs.
Stall(j) ==
  /\ state[j] = "active"
  /\ disruptions < MaxDisruptions \/ ~Hangs(j)
  /\ stalled' = [stalled EXCEPT ![j] = @ + 1]
  /\ state' = [state EXCEPT ![j] = IF stalled[j] = MaxStalls THEN "failed" ELSE "waiting"]
  /\ holder' = [holder EXCEPT ![j] = None]
  /\ late' = IF Hangs(j) THEN late \cup {holder[j]} ELSE late
  /\ disruptions' = IF Hangs(j) THEN disruptions + 1 ELSE disruptions
  /\ UNCHANGED <<attemptsMade, error, running, lifecycle, history>>

-----------------------------------------------------------------------------
(* The worker. *)

FetchUnlocked(s, j) ==                       \* mutation: active jobs can be taken over
  /\ lifecycle[s[1]] = "up"
  /\ running[s] = None
  /\ state[j] \in {"waiting", "active"}
  /\ state' = [state EXCEPT ![j] = "active"]
  /\ holder' = [holder EXCEPT ![j] = s]
  /\ running' = [running EXCEPT ![s] = j]
  /\ executions' = [executions EXCEPT ![j] = @ + 1]
  /\ UNCHANGED <<attemptsMade, stalled, error, lifecycle, late, ended, disruptions>>

\* A worker with a free slot takes a job, even one it still runs without the lock.
Fetch(s, j) ==
  /\ lifecycle[s[1]] = "up"
  /\ running[s] = None
  /\ state[j] = "waiting"
  /\ state' = [state EXCEPT ![j] = "active"]
  /\ holder' = [holder EXCEPT ![j] = s]
  /\ running' = [running EXCEPT ![s] = j]
  /\ executions' = [executions EXCEPT ![j] = @ + 1]
  /\ UNCHANGED <<attemptsMade, stalled, error, lifecycle, late, ended, disruptions>>

\* The handler in the slot is over.
Return(s, j) ==
  /\ running[s] = j
  /\ running' = [running EXCEPT ![s] = None]
  /\ late' = late \ {s}
  /\ ended' = IF s \in late THEN ended ELSE [ended EXCEPT ![j] = @ + 1]

SucceedUnlocked(s, j) ==                     \* mutation: the result counts without the lock
  /\ Return(s, j)
  /\ state' = [state EXCEPT ![j] = "completed"]
  /\ attemptsMade' = [attemptsMade EXCEPT ![j] = @ + 1]
  /\ holder' = [holder EXCEPT ![j] = None]
  /\ UNCHANGED <<stalled, error, lifecycle, executions, disruptions>>

\* The handler returned.  Without the lock the result is refused and only logged.
Succeed(s, j) ==
  /\ Return(s, j)
  /\ IF holder[j] = s
     THEN /\ state' = [state EXCEPT ![j] = "completed"]
          /\ attemptsMade' = [attemptsMade EXCEPT ![j] = @ + 1]
          /\ holder' = [holder EXCEPT ![j] = None]
     ELSE UNCHANGED <<state, attemptsMade, holder>>
  /\ UNCHANGED <<stalled, error, lifecycle, executions, disruptions>>

\* Mutation: one attempt too many.
AfterFailureLenient(made, category) == IF made <= Attempts THEN "delayed" ELSE "failed"

\* Where a job goes whose attempt failed: the runtime logs whether the category is
\* retryable, and the queue's attempts alone decide.
AfterFailure(made, category) == IF made < Attempts THEN "delayed" ELSE "failed"

Throw(s, j, category) ==
  /\ Return(s, j)
  /\ IF holder[j] = s
     THEN /\ state' = [state EXCEPT ![j] = AfterFailure(attemptsMade[j] + 1, category)]
          /\ attemptsMade' = [attemptsMade EXCEPT ![j] = @ + 1]
          /\ holder' = [holder EXCEPT ![j] = None]
          /\ error' = [error EXCEPT ![j] = category]
     ELSE UNCHANGED <<state, attemptsMade, holder, error>>
  /\ UNCHANGED <<stalled, lifecycle, executions, disruptions>>

\* SIGTERM: close() stops fetching and waits for the handlers in flight ...
BeginShutdown(w) ==
  /\ lifecycle[w] = "up"
  /\ disruptions < MaxDisruptions
  /\ disruptions' = disruptions + 1
  /\ lifecycle' = [lifecycle EXCEPT ![w] = "closing"]
  /\ UNCHANGED <<job, running, late, history>>

\* ... until none is left ...
FinishShutdown(w) ==
  /\ lifecycle[w] = "closing"
  /\ \A s \in Of(w) : running[s] = None
  /\ lifecycle' = [lifecycle EXCEPT ![w] = "down"]
  /\ UNCHANGED <<job, running, late, history, disruptions>>

\* ... or the shutdown timer exits the process.  A crash does it without warning.
Kill(w) ==
  /\ \/ lifecycle[w] = "closing" /\ UNCHANGED disruptions
     \/ /\ lifecycle[w] = "up"
        /\ disruptions < MaxDisruptions
        /\ disruptions' = disruptions + 1
  /\ lifecycle' = [lifecycle EXCEPT ![w] = "down"]
  /\ running' = [s \in Slots |-> IF s \in Of(w) THEN None ELSE running[s]]
  /\ late' = late \ Of(w)
  /\ UNCHANGED <<job, history>>

Restart(w) ==
  /\ lifecycle[w] = "down"
  /\ lifecycle' = [lifecycle EXCEPT ![w] = "up"]
  /\ UNCHANGED <<job, running, late, history, disruptions>>

-----------------------------------------------------------------------------
Settle(s, j) == Succeed(s, j) \/ \E c \in Thrown : Throw(s, j, c)

Next ==
  \/ \E j \in Jobs : Enqueue(j) \/ Promote(j) \/ Evict(j) \/ Stall(j)
  \/ \E s \in Slots, j \in Jobs : Fetch(s, j) \/ Settle(s, j)
  \/ \E w \in Workers : BeginShutdown(w) \/ FinishShutdown(w) \/ Kill(w) \/ Restart(w)

Spec == Init /\ [][Next]_vars

\* Jobs wait in line (so a slot that keeps coming free reaches each of them), timers
\* fire, handlers end (their I/O has deadlines), and a dead process is started again.
Fairness ==
  /\ \A j \in Jobs : /\ SF_vars(\E s \in Slots : Fetch(s, j))
                     /\ WF_vars(Promote(j))
                     /\ WF_vars(Stall(j) /\ ~Hangs(j))
  /\ \A s \in Slots, j \in Jobs : WF_vars(Settle(s, j))
  /\ \A w \in Workers : /\ WF_vars(lifecycle[w] = "closing" /\ (FinishShutdown(w) \/ Kill(w)))
                        /\ WF_vars(Restart(w))

FairSpec == Spec /\ Fairness

-----------------------------------------------------------------------------
(* Properties. *)

\* Only a handler that ends while its lock is good costs an attempt, and each one does:
\* neither the death of a worker nor the result of a handler that lost its lock counts.
\* So a job is given up after Attempts handlers of its own failed, or after its lock
\* expired more often than BullMQ allows.
FailedForAReason ==
  \A j \in Jobs :
    /\ attemptsMade[j] = ended[j]
    /\ state[j] = "failed" => ended[j] = Attempts \/ stalled[j] > MaxStalls

\* Two executions of a job overlap only when one of them lost its lock while its handler
\* was running: restarts, retries and shutdowns alone never overlap two.
OverlapNeedsExpiredLock ==
  \A s, t \in Slots : running[s] = running[t] /\ running[s] # None /\ s # t => s \in late \/ t \in late

\* However errors, lost locks, restarts and late results follow each other, the handler
\* of a job (with its paid AI calls) is started at most Attempts + MaxStalls times.
ExecutionsBounded == \A j \in Jobs : executions[j] <= Attempts + MaxStalls

\* "A retried or duplicated enqueue can never produce a second job" and every accepted
\* job ends completed or failed: the queue implements JobBoard, its liveness included.
BoardStatus == [j \in Jobs |->
  IF state[j] \in {"waiting", "active", "delayed"} THEN "pending"
  ELSE IF state[j] = "completed" THEN "done"
  ELSE IF state[j] = "failed" THEN "dead"
  ELSE "absent"]
Board == INSTANCE JobBoard WITH status <- BoardStatus
ImplementsBoard == Board!Spec

\* docs/adr/0005: "timeouts, rate limits and upstream failures retry; validation,
\* contract and authorization failures do not".
NonRetryableNotRetried ==
  \A j \in Jobs : state[j] = "delayed" => error[j] \in Retryable
=============================================================================
