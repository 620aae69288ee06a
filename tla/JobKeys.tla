------------------------------ MODULE JobKeys -------------------------------
(***************************************************************************)
(* From idempotency keys to BullMQ job ids (toJobId), for the health-probe *)
(* queue: the one key whose last part a caller of the API chooses freely.  *)
(* A key is the sequence of its characters, of which only '_' and ':' are  *)
(* told apart from the rest.                                               *)
(***************************************************************************)
EXTENDS Naturals, SequencesExt

CONSTANTS
  Characters,  \* "_", ":" and at least one other
  MaxLength    \* bound on the length of a probe id: 64

\* EnqueueHealthProbeDto bounds the length of a probe id and nothing else.
ProbeIds == UNION {[1 .. n -> Characters] : n \in 1 .. MaxLength}

Prefix == <<"health-probe", ":">>
HealthProbeKey(probeId) == Prefix \o probeId

\* Underscores are doubled first, then colons become underscores.
Encoded(character) ==
  CASE character = "_" -> <<"_", "_">>
    [] character = ":" -> <<"_">>
    [] OTHER -> <<character>>
ToJobId(key) == FlattenSeq([n \in DOMAIN key |-> Encoded(key[n])])

VARIABLES
  asked,   \* probe ids whose enqueue call has returned
  held     \* the jobs Redis holds, by job id: the probe id in the payload

vars == <<asked, held>>

Init == asked = {} /\ held = <<>>

\* queue.add keeps the job it already has under an id.
EnqueueProbe(probeId) ==
  LET jobId == ToJobId(HealthProbeKey(probeId))
  IN  /\ asked' = asked \cup {probeId}
      /\ held' = IF jobId \in DOMAIN held THEN held
                 ELSE [id \in DOMAIN held \cup {jobId} |->
                         IF id = jobId THEN probeId ELSE held[id]]

Next == \E probeId \in ProbeIds : EnqueueProbe(probeId)

Spec == Init /\ [][Next]_vars

\* packages/contracts/src/jobs.ts: "Doubling underscores first keeps the encoding
\* injective, so distinct keys always produce distinct job ids": every probe asked for
\* is the payload of the job its id names.
DistinctKeysDistinctJobs ==
  \A probeId \in asked : held[ToJobId(HealthProbeKey(probeId))] = probeId
=============================================================================
