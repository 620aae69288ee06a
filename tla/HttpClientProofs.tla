-------------------------- MODULE HttpClientProofs --------------------------
(***************************************************************************)
(* A call of the HTTP client keeps its promises for any set of addresses   *)
(* and any number of redirects: where a call is in its loop says how many  *)
(* addresses it has let pass and how many requests it has sent.            *)
(***************************************************************************)
EXTENDS HttpClient, TLAPS

\* Where the call is in its loop, and what it has done by then.
Position ==
    /\ step \in {"start", "resolve"} => Len(cleared) = hop /\ Len(sent) = hop
    /\ step = "send"                 => Len(cleared) = hop + 1 /\ Len(sent) = hop
    /\ step \in {"await", "read"}    => Len(cleared) = hop + 1 /\ Len(sent) = hop + 1

\* The address of this hop has been validated, and resolved from "send" on.
CurrentIsCleared ==
    /\ step \in {"resolve", "send", "await", "read"} => current \in Acceptable
    /\ step \in {"send", "await", "read"} => /\ current = cleared[hop + 1]
                                             /\ current \notin Internal
    /\ step \in {"await", "read"} => current = sent[hop + 1]

\* What the call holds while it reads a body, and what it ends with.
OutcomeByStep ==
    /\ step = "read" => /\ outcome \in [kind : {"reading"}, status : Nat, body : Bodies]
                        /\ outcome.status \in 200 .. 299
                        /\ outcome.body.type = "allowed"
    /\ step \notin {"read", "done"} => outcome = None
    /\ step = "done" => \/ outcome \in Failures
                        \/ outcome \in Answers /\ AnswerIsUsable

Inv == TypeOK /\ Position /\ EveryHopIsCleared /\ CurrentIsCleared /\ OutcomeByStep

\* Every failure the code can classify is one of the categories of errors.ts.
LEMMA CategoriesClosed ==
    /\ \A status \in Nat : CategoryForHttpStatus(status) \in Categories
    /\ \A words : ToErrorCategory(words) \in Categories
<1>1. ASSUME NEW status \in Nat PROVE CategoryForHttpStatus(status) \in Categories
    BY <1>1 DEF CategoryForHttpStatus, Categories
<1>2. ASSUME NEW words PROVE ToErrorCategory(words) \in Categories
    BY DEF ToErrorCategory, Categories
<1> QED
    BY <1>1, <1>2

\* A failure ends the call and leaves its history as it is.
LEMMA FailKeepsInv ==
    ASSUME Inv, NEW category \in Categories, Fail(category), UNCHANGED sent
    PROVE  Inv'
<1>1. /\ step' = "done" /\ outcome' \in Failures
      /\ UNCHANGED <<current, hop, cleared, sent>>
    BY DEF Fail, Finish, Failures
<1> QED
    BY <1>1 DEF Inv, TypeOK, Position, EveryHopIsCleared, CurrentIsCleared, OutcomeByStep

\* The initial state.
LEMMA InvInit == ASSUME Init PROVE Inv
    BY HttpAssumption DEF Init, Inv, TypeOK, Position, EveryHopIsCleared, CurrentIsCleared, OutcomeByStep

\* The address of the call is validated before anything else.
LEMMA StartStep ==
    ASSUME Inv, Start
    PROVE  Inv'
<1>1. CASE current \in Acceptable
    BY <1>1 DEF Start, Inv, TypeOK, Position, EveryHopIsCleared, CurrentIsCleared, OutcomeByStep
<1>2. CASE current \notin Acceptable
    BY <1>2, FailKeepsInv DEF Start, Categories
<1> QED
    BY <1>1, <1>2

\* An address that is let pass is the one of this hop, and no internal literal.
LEMMA ResolveStep ==
    ASSUME Inv, Resolve
    PROVE  Inv'
<1>1. CASE Clear /\ current \notin Internal
    <2>1. /\ cleared' \in Seq(Urls) /\ Len(cleared') = Len(cleared) + 1
          /\ cleared'[hop + 1] = current
          /\ \A n \in 1 .. Len(cleared) : cleared'[n] = cleared[n]
        BY <1>1 DEF Clear, Resolve, Inv, TypeOK, Position
    <2> QED
        BY <1>1, <2>1 DEF Clear, Resolve, Inv, TypeOK, Position, EveryHopIsCleared,
                          CurrentIsCleared, OutcomeByStep
<1>2. ASSUME NEW category \in {"VALIDATION", "UPSTREAM_UNAVAILABLE"}, Fail(category)
      PROVE  Inv'
    BY <1>2, FailKeepsInv DEF Resolve, Categories
<1> QED
    BY <1>1, <1>2, HttpAssumption DEF Resolve

\* A request goes to the address that has just been let pass.
LEMMA SendStep ==
    ASSUME Inv, Send
    PROVE  Inv'
<1>1. /\ sent' \in Seq(Urls) /\ Len(sent') = hop + 1 /\ sent'[hop + 1] = current
      /\ \A n \in 1 .. hop : sent'[n] = sent[n]
    BY DEF Send, Inv, TypeOK, Position
<1> QED
    BY <1>1 DEF Send, Inv, TypeOK, Position, EveryHopIsCleared, CurrentIsCleared, OutcomeByStep

\* An answer that is usable ends the call.
LEMMA AnswerKeepsInv ==
    ASSUME Inv, NEW status \in Nat, NEW body \in Bodies \cup {None}, step \in {"await", "read"},
           Answer(status, body), UNCHANGED sent,
           \/ status = 304 /\ body = None
           \/ status \in 200 .. 299 /\ body.type = "allowed" /\ body.size = "fits"
    PROVE  Inv'
<1>1. /\ step' = "done" /\ UNCHANGED <<current, hop, cleared, sent>>
      /\ outcome' = [kind |-> "answered", url |-> current, status |-> status, body |-> body]
    BY DEF Answer, Finish
<1>2. outcome' \in Answers
    BY <1>1 DEF Answers, Inv, TypeOK
<1>3. sent # <<>> /\ current = sent[Len(sent)]
    BY DEF Inv, TypeOK, Position, CurrentIsCleared
<1>4. AnswerIsUsable'
    BY <1>1, <1>3 DEF AnswerIsUsable
<1> QED
    BY <1>1, <1>2, <1>4 DEF Inv, TypeOK, Position, EveryHopIsCleared, CurrentIsCleared, OutcomeByStep

\* What an origin answers, or how the request fails.
LEMMA ReceiveStep ==
    ASSUME Inv, Receive
    PROVE  Inv'
<1>1. ASSUME NEW words, Fail(ToErrorCategory(words)) PROVE Inv'
    BY <1>1, FailKeepsInv, CategoriesClosed DEF Receive
<1>2. ASSUME NEW location, Follow(location) PROVE Inv'
    <2>1. ASSUME NEW category \in {"VALIDATION", "UPSTREAM_UNAVAILABLE", "CONTRACT_VIOLATION"},
                 Fail(category)
          PROVE  Inv'
        BY <2>1, FailKeepsInv DEF Receive, Categories
    <2>2. CASE /\ location \in Acceptable /\ hop # MaxRedirects
               /\ current' = location /\ hop' = hop + 1 /\ step' = "resolve"
               /\ UNCHANGED <<outcome, cleared>>
        BY <2>2, HttpAssumption DEF Receive, Inv, TypeOK, Position, EveryHopIsCleared,
                                    CurrentIsCleared, OutcomeByStep
    <2> QED
        BY <1>2, <2>1, <2>2 DEF Follow
<1>3. CASE Answer(304, None)
    BY <1>3, AnswerKeepsInv DEF Receive
<1>4. ASSUME NEW status \in 200 .. 299, NEW body \in Bodies, Accept(status, body) PROVE Inv'
    <2>1. CASE Fail("CONTRACT_VIOLATION") \/ Fail("VALIDATION")
        BY <2>1, FailKeepsInv DEF Receive, Categories
    <2>2. CASE /\ body.type = "allowed" /\ step' = "read"
               /\ outcome' = [kind |-> "reading", status |-> status, body |-> body]
               /\ UNCHANGED <<current, hop, cleared>>
        BY <2>2 DEF Receive, Inv, TypeOK, Position, EveryHopIsCleared, CurrentIsCleared, OutcomeByStep
    <2> QED
        BY <1>4, <2>1, <2>2 DEF Accept
<1>5. ASSUME NEW status \in Statuses, Fail(CategoryForHttpStatus(status)) PROVE Inv'
    <2>1. status \in Nat
        BY DEF Statuses
    <2> QED
        BY <1>5, <2>1, FailKeepsInv, CategoriesClosed DEF Receive
<1> QED
    BY <1>1, <1>2, <1>3, <1>4, <1>5 DEF Receive

\* The body is read, or is too long, or breaks off.
LEMMA ReadStep ==
    ASSUME Inv, Read
    PROVE  Inv'
<1>1. ASSUME NEW words, Fail(ToErrorCategory(words)) PROVE Inv'
    BY <1>1, FailKeepsInv, CategoriesClosed DEF Read
<1>2. CASE Fail("VALIDATION")
    BY <1>2, FailKeepsInv DEF Read, Categories
<1>3. CASE outcome.body.size # "oversized" /\ Answer(outcome.status, outcome.body)
    <2>1. /\ outcome.status \in 200 .. 299 /\ outcome.status \in Nat /\ outcome.body \in Bodies
          /\ outcome.body.type = "allowed"
        BY DEF Read, Inv, OutcomeByStep
    <2>2. outcome.body.size = "fits"
        BY <1>3, <2>1 DEF Bodies
    <2> QED
        BY <1>3, <2>1, <2>2, AnswerKeepsInv DEF Read
<1> QED
    BY <1>1, <1>2, <1>3 DEF Read

\* Every step keeps the invariant.
LEMMA InvStep ==
    ASSUME Inv, [Next]_vars
    PROVE  Inv'
<1>1. CASE UNCHANGED vars
    BY <1>1 DEF vars, Inv, TypeOK, Position, EveryHopIsCleared, CurrentIsCleared, OutcomeByStep,
                AnswerIsUsable
<1> QED
    BY <1>1, StartStep, ResolveStep, SendStep, ReceiveStep, ReadStep DEF Next

\* The invariant holds throughout a call.
LEMMA Invariance == Spec => []Inv
<1>1. Init => Inv
    BY InvInit
<1>2. Inv /\ [Next]_vars => Inv'
    BY InvStep
<1> QED
    BY <1>1, <1>2, PTL DEF Spec
-----------------------------------------------------------------------------
\* Types are kept, whatever origins and name servers answer.
THEOREM TypeCorrect == Spec => []TypeOK
<1>1. Inv => TypeOK
    BY DEF Inv
<1> QED
    BY <1>1, Invariance, PTL

\* No request is sent to an address that was not validated and resolved for its
\* own hop, however long the chain of redirects.
THEOREM NoUncheckedRequest == Spec => []EveryHopIsCleared
<1>1. Inv => EveryHopIsCleared
    BY DEF Inv
<1> QED
    BY <1>1, Invariance, PTL

\* What the adapters are handed comes from the last request and is within the
\* limits they asked for.
THEOREM AnswersAreUsable == Spec => []AnswerIsUsable
<1>1. Inv => AnswerIsUsable
    BY DEF Inv, OutcomeByStep, AnswerIsUsable, Failures, TypeOK
<1> QED
    BY <1>1, Invariance, PTL

\* A call that fails does what a bounded fetch does when it fails.
LEMMA FailIsFail ==
    ASSUME Inv, step # "done", NEW category, Fail(category), UNCHANGED sent
    PROVE  Abstract!Fail
    BY DEF Fail, Finish, Abstract!Fail

\* A call that is answered has sent a request.
LEMMA AnswerIsAnswer ==
    ASSUME Inv, step \in {"await", "read"}, NEW status, NEW body, Answer(status, body),
           UNCHANGED sent
    PROVE  Abstract!Answer
<1>1. Len(sent) > 0
    BY DEF Inv, TypeOK, Position
<1> QED
    BY <1>1 DEF Answer, Finish, Abstract!Answer

\* Every step of a call is one of a bounded fetch, or none: the safety part of
\* ImplementsBoundedFetch.
THEOREM CallIsBoundedFetch == Spec => Abstract!Init /\ [][Abstract!Next]_(Abstract!vars)
<1>1. Init => Abstract!Init
    BY DEF Init, Abstract!Init
<1>2. Inv /\ [Next]_vars => [Abstract!Next]_(Abstract!vars)
    <2> SUFFICES ASSUME Inv, [Next]_vars
                 PROVE  [Abstract!Next]_(Abstract!vars)
        OBVIOUS
    <2>1. ASSUME step # "done", UNCHANGED sent, step' # "done"
          PROVE  UNCHANGED Abstract!vars
        BY <2>1 DEF Abstract!vars
    <2>2. CASE Start
        BY <2>1, <2>2, FailIsFail DEF Start, Abstract!Next
    <2>3. CASE Resolve
        BY <2>1, <2>3, FailIsFail DEF Resolve, Clear, Abstract!Next
    <2>4. CASE Send
        <3>1. Len(sent) < MaxRedirects + 1 /\ Len(sent') = Len(sent) + 1
            BY <2>4, HttpAssumption DEF Send, Inv, TypeOK, Position
        <3> QED
            BY <2>4, <3>1 DEF Send, Abstract!Next, Abstract!Request
    <2>5. CASE Receive
        <3>1. ASSUME NEW location, Follow(location)
              PROVE  [Abstract!Next]_(Abstract!vars)
            BY <2>1, <2>5, <3>1, FailIsFail DEF Receive, Follow, Abstract!Next
        <3>2. ASSUME NEW status, NEW body, Accept(status, body)
              PROVE  [Abstract!Next]_(Abstract!vars)
            BY <2>1, <2>5, <3>2, FailIsFail DEF Receive, Accept, Abstract!Next
        <3> QED
            BY <2>5, <3>1, <3>2, FailIsFail, AnswerIsAnswer DEF Receive, Abstract!Next
    <2>6. CASE Read
        BY <2>6, FailIsFail, AnswerIsAnswer DEF Read, Abstract!Next
    <2>7. CASE UNCHANGED vars
        BY <2>7 DEF vars, Abstract!vars
    <2> QED
        BY <2>2, <2>3, <2>4, <2>5, <2>6, <2>7 DEF Next
<1> QED
    BY <1>1, <1>2, Invariance, PTL DEF Spec
-----------------------------------------------------------------------------
(***************************************************************************)
(* A call ends: how many steps it may still take is a number that every    *)
(* step makes smaller.                                                     *)
(***************************************************************************)
LoopSteps == [resolve |-> 4, send |-> 3, await |-> 2, read |-> 1]

\* The steps left in this hop, and four for each redirect that may still be followed.
StepsLeft ==
    CASE step = "done"  -> 0
      [] step = "start" -> 4 * MaxRedirects + 5
      [] OTHER          -> 4 * (MaxRedirects - hop) + LoopSteps[step]

\* It is a number.
LEMMA StepsLeftCounts == ASSUME Inv PROVE StepsLeft \in 0 .. 4 * MaxRedirects + 5
    BY HttpAssumption DEF StepsLeft, LoopSteps, Inv, TypeOK

\* A failure or an answer leaves no step to take.
LEMMA EndIsEnd ==
    ASSUME Inv, step # "done", step' = "done"
    PROVE  StepsLeft' < StepsLeft
    BY HttpAssumption DEF StepsLeft, LoopSteps, Inv, TypeOK

\* So does every other step leave fewer.
LEMMA StepCounts ==
    ASSUME Inv, Next
    PROVE  StepsLeft' < StepsLeft
<1> USE HttpAssumption DEF StepsLeft, LoopSteps, Inv, TypeOK
<1>1. CASE step' = "done"
    BY <1>1, EndIsEnd DEF Next, Start, Resolve, Send, Receive, Read
<1>2. CASE step' # "done"
    <2>1. CASE Start
        BY <1>2, <2>1 DEF Start, Fail, Finish, Position
    <2>2. CASE Resolve
        BY <1>2, <2>2 DEF Resolve, Clear, Fail, Finish
    <2>3. CASE Send
        BY <2>3 DEF Send
    <2>4. CASE Receive
        BY <1>2, <2>4 DEF Receive, Follow, Accept, Answer, Fail, Finish
    <2>5. CASE Read
        BY <1>2, <2>5 DEF Read, Answer, Fail, Finish
    <2> QED
        BY <2>1, <2>2, <2>3, <2>4, <2>5 DEF Next
<1> QED
    BY <1>1, <1>2

\* A call takes at most five steps and four more for each redirect it may
\* follow, whatever name servers and origins answer: no chain of redirects and
\* no answer keeps it in the loop.
THEOREM CallsHaveBoundedlyManySteps ==
    Spec => /\ [](StepsLeft \in 0 .. 4 * MaxRedirects + 5)
            /\ [][StepsLeft' < StepsLeft]_vars
<1>1. Inv => StepsLeft \in 0 .. 4 * MaxRedirects + 5
    BY StepsLeftCounts
<1>2. Inv /\ [Next]_vars => [StepsLeft' < StepsLeft]_vars
    BY StepCounts
<1> QED
    BY <1>1, <1>2, Invariance, PTL DEF Spec
=============================================================================
