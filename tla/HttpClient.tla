----------------------------- MODULE HttpClient -----------------------------
(***************************************************************************)
(* One call of HardenedHttpClient.get (hardened-http-client.ts): validate  *)
(* the address, then for every hop resolve it, send the request and either *)
(* follow the redirect or read the answer. Name servers and origins answer *)
(* anything, and differently each time they are asked.                     *)
(*                                                                         *)
(* Addresses are model values: Acceptable ones pass assertSafeUrl,         *)
(* Literals have an IP address for a host, and those of Internal are       *)
(* addresses isBlockedAddress refuses.                                     *)
(***************************************************************************)
EXTENDS Errors, Sequences

CONSTANTS Urls, Acceptable, Literals, Internal,
          MaxRedirects,   \* redirects followed (3 unless the caller says otherwise)
          None            \* no address, no answer, no failure

ASSUME HttpAssumption ==
    /\ Acceptable \subseteq Urls
    /\ Literals \subseteq Urls
    /\ Internal \subseteq Literals
    /\ MaxRedirects \in Nat
    /\ None \notin Urls

VARIABLES step,      \* where the call is: "start", "resolve", "send", "await",
                     \* "read", "done"
          current,   \* the address of this hop
          hop,       \* redirects followed so far
          outcome,   \* None, [answered] with status and address, or [failed] with a category
          cleared,   \* history: the addresses assertResolvesPublicly let pass
          sent       \* history: the addresses requests were sent to

vars == <<step, current, hop, outcome, cleared, sent>>

RedirectStatuses == {301, 302, 303, 307, 308}

\* What a request can come back with: statuses of every class the code tells
\* apart, and of a 2xx its content type and its declared and real size.
Statuses == {100, 200, 204, 300, 301, 304, 307, 400, 401, 404, 408, 410, 429, 500, 503}
Bodies   == [type : {"allowed", "other", "absent"}, declared : {"fits", "unknown", "oversized"},
             size : {"fits", "oversized"}]

\* The words of a transport error that toErrorCategory looks for.
TransportErrors == {{"timeout"}, {"econnrefused"}, {"rate limit"}, {}}

Answers  == [kind : {"answered"}, url : Urls, status : Nat, body : Bodies \cup {None}]
Failures == [kind : {"failed"}, category : Categories]

\* Types.
TypeOK ==
    /\ step \in {"start", "resolve", "send", "await", "read", "done"}
    /\ current \in Urls
    /\ hop \in 0 .. MaxRedirects
    /\ outcome \in Answers \cup Failures \cup {None} \cup [kind : {"reading"}, status : Nat, body : Bodies]
    /\ cleared \in Seq(Urls)
    /\ sent \in Seq(Urls)

Init ==
    /\ step = "start"
    /\ current \in Urls
    /\ hop = 0
    /\ outcome = None
    /\ cleared = <<>>
    /\ sent = <<>>

Finish(result) ==
    /\ step' = "done"
    /\ outcome' = result
    /\ UNCHANGED <<current, hop, cleared>>

Fail(category) == Finish([kind |-> "failed", category |-> category])

Answer(status, body) ==
    Finish([kind |-> "answered", url |-> current, status |-> status, body |-> body])

\* assertSafeUrl on the address of the call.
Start ==
    /\ step = "start"
    /\ IF current \in Acceptable
       THEN step' = "resolve" /\ UNCHANGED <<current, hop, outcome, cleared>>
       ELSE Fail("VALIDATION")
    /\ UNCHANGED sent

Clear ==
    /\ cleared' = Append(cleared, current)
    /\ step' = "send"
    /\ UNCHANGED <<current, hop, outcome>>

\* assertResolvesPublicly: a literal is judged as it is, a name by every record
\* the name server has for it this time.
Resolve ==
    /\ step = "resolve"
    /\ IF current \in Literals
       THEN IF current \in Internal THEN Fail("VALIDATION") ELSE Clear
       ELSE \/ Clear
            \/ Fail("VALIDATION")             \* one of the records is internal
            \/ Fail("UPSTREAM_UNAVAILABLE")   \* there is none, or no answer
    /\ UNCHANGED sent

\* Mutant: one redirect too many is followed.
FollowOneMore(location) ==
    IF location \notin Acceptable \/ hop > MaxRedirects
    THEN Fail("UPSTREAM_UNAVAILABLE")
    ELSE /\ current' = location
         /\ hop' = hop + 1
         /\ step' = "resolve"
         /\ UNCHANGED <<outcome, cleared>>

\* Mutant: only the first hop is resolved and checked.
FollowUnchecked(location) ==
    IF location \notin Acceptable \/ hop = MaxRedirects
    THEN Fail("UPSTREAM_UNAVAILABLE")
    ELSE /\ current' = location
         /\ hop' = hop + 1
         /\ step' = "send"
         /\ UNCHANGED <<outcome, cleared>>

\* nextHop, and the loop's test: the address of a redirect is validated before
\* the redirects are counted.
Follow(location) ==
    IF location = "absent" THEN Fail("CONTRACT_VIOLATION")
    ELSE IF location \notin Acceptable THEN Fail("VALIDATION")
    ELSE IF hop = MaxRedirects THEN Fail("UPSTREAM_UNAVAILABLE")
    ELSE /\ current' = location
         /\ hop' = hop + 1
         /\ step' = "resolve"
         /\ UNCHANGED <<outcome, cleared>>

\* The checks on a 2xx before its body is read.
Accept(status, body) ==
    IF body.type # "allowed"
    THEN Fail("CONTRACT_VIOLATION")
    ELSE IF body.declared = "oversized"
    THEN Fail("VALIDATION")
    ELSE /\ step' = "read"
         /\ outcome' = [kind |-> "reading", status |-> status, body |-> body]
         /\ UNCHANGED <<current, hop, cleared>>

\* send: the request goes out.
Send ==
    /\ step = "send"
    /\ sent' = Append(sent, current)
    /\ step' = "await"
    /\ UNCHANGED <<current, hop, outcome, cleared>>

\* It is aborted, fails, or is answered: with a redirect, a 304, a 2xx, or a
\* status that is a failure.
Receive ==
    /\ step = "await"
    /\ \/ \E words \in TransportErrors : Fail(ToErrorCategory(words))
       \/ \E location \in Urls \cup {"absent", "unreadable"} : Follow(location)
       \/ Answer(304, None)
       \/ \E status \in Statuses \cap (200 .. 299), body \in Bodies : Accept(status, body)
       \/ \E status \in Statuses \ (RedirectStatuses \cup {304} \cup 200 .. 299) :
              Fail(CategoryForHttpStatus(status))
    /\ UNCHANGED sent

\* Mutant: the declared size is believed.
ReadDeclared ==
    /\ step = "read"
    /\ Answer(outcome.status, outcome.body)
    /\ UNCHANGED sent

\* readBody, and the limit on what was read: the whole body is in memory by then.
Read ==
    /\ step = "read"
    /\ \/ \E words \in TransportErrors : Fail(ToErrorCategory(words))
       \/ IF outcome.body.size = "oversized"
          THEN Fail("VALIDATION")
          ELSE Answer(outcome.status, outcome.body)
    /\ UNCHANGED sent

Next == Start \/ Resolve \/ Send \/ Receive \/ Read

\* Every await ends: a request is aborted by its timer, the body read with it,
\* and the resolver has a timeout of its own.
Spec == Init /\ [][Next]_vars /\ WF_vars(Next)
-----------------------------------------------------------------------------
(***************************************************************************)
(* Properties.                                                             *)
(***************************************************************************)

\* No request goes to an address that was not validated and resolved for this
\* very hop: the n-th request is to the n-th address that was let pass, and
\* none of them is refused by assertSafeUrl or an internal literal.
EveryHopIsCleared ==
    /\ Len(sent) <= Len(cleared)
    /\ \A n \in 1 .. Len(sent) :
          sent[n] = cleared[n] /\ sent[n] \in Acceptable \ Internal

\* What is handed to the adapters comes from the last request sent, is a 304
\* without a body or a 2xx of an allowed type, and is within the size limit
\* whatever the origin declared.
AnswerIsUsable ==
    (outcome # None /\ outcome.kind = "answered") =>
        /\ sent # <<>> /\ outcome.url = sent[Len(sent)]
        /\ \/ outcome.status = 304 /\ outcome.body = None
           \/ outcome.status \in 200 .. 299 /\ outcome.body.type = "allowed"
                                            /\ outcome.body.size = "fits"

\* The call keeps what BoundedFetch promises, its end included.
Abstract == INSTANCE BoundedFetch WITH
    MaxRequests <- MaxRedirects + 1,
    requests    <- Len(sent),
    state       <- IF step # "done" THEN "working" ELSE outcome.kind
ImplementsBoundedFetch == Abstract!Spec
=============================================================================
