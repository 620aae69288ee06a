------------------------ MODULE AdministrationProofs ------------------------
(***************************************************************************)
(* What users, channels and their settings keep, for any number of users,  *)
(* channels and concurrent calls.                                          *)
(***************************************************************************)
EXTENDS Administration, FiniteSetTheorems, TLAPS

Steps == {"count", "write", "reload", "audit"}

\* A request before it has its number.
Requests == [op : Operations, step : Steps,
             number : {0}, actor : Users \cup {Nobody}, channel : Channels \cup {Nobody},
             whom : Users \cup {Nobody}, role : Roles \cup {Nobody}, field : Fields,
             base : Snapshots, owner : BOOLEAN, member : BOOLEAN]

\* A channel nobody has created has no members and no settings.
UnbornIsEmpty ==
    \A c \in Channels : channels[c].creator = Nobody =>
        settings[c] = Unseen /\ \A u \in Users : role[c][u] = Nobody

\* The operations on a channel that is there.
OnChannel == {"update", "updateSettings", "addMember", "setCredential"}

\* What a request was let through with.
Whole(request) ==
    /\ request.op \in {"bootstrap", "createUser", "addMember"} => request.whom \in Users
    /\ request.op \in OnChannel \cup {"create", "createUser"} => request.actor \in Users
    /\ request.op = "create" => request.channel \in Channels
    /\ request.op \in OnChannel => /\ request.channel \in Channels
                                   /\ channels[request.channel].creator # Nobody
    /\ request.op = "addMember" => request.role \in Roles

CallsAreWhole == \A k \in Callers : Whole(call[k])

\* A call ends, or goes on.
Moves(k) ==
    \/ End(k)
    \/ call[k].op # "none" /\ \E step \in Steps : Goto(k, step)

\* A channel is never without its creator again.
CreatorsStay ==
    \A c \in Channels : channels[c].creator # Nobody => channels'[c].creator # Nobody

Typed == TypeOK /\ UnbornIsEmpty /\ CallsAreWhole

\* The untouched snapshot is one.
LEMMA UnseenIsSnapshot == Unseen \in Snapshots
    BY DEF Unseen, Snapshots, Fields

\* A call that begins.
LEMMA BeginTyped ==
    ASSUME TypeOK, NEW k \in Callers, NEW request \in Requests, Begin(k, request)
    PROVE  /\ call' \in [Callers -> Calls \cup {Idle}]
           /\ calls' \in 0 .. MaxCalls
           /\ \A j \in Callers : j # k => call'[j] = call[j]
           /\ call'[k] = [request EXCEPT !.number = calls + 1]
           /\ call[k] = Idle
<1>1. calls + 1 \in 1 .. MaxCalls /\ calls' = calls + 1
    BY AdministrationAssumption DEF Begin, Count, TypeOK, CallTypes
<1>2. [request EXCEPT !.number = calls + 1] \in Calls
    BY <1>1 DEF Requests, Calls, Steps
<1> QED
    BY <1>1, <1>2, AdministrationAssumption DEF Begin, TypeOK, CallTypes

\* A call that ends.
LEMMA EndTyped ==
    ASSUME TypeOK, NEW k \in Callers, End(k)
    PROVE  /\ call' \in [Callers -> Calls \cup {Idle}]
           /\ \A j \in Callers : j # k => call'[j] = call[j]
           /\ call'[k] = Idle
    BY DEF End, TypeOK, CallTypes

\* A call that goes on.
LEMMA GotoTyped ==
    ASSUME TypeOK, NEW k \in Callers, call[k].op # "none",
           NEW step \in Steps, Goto(k, step)
    PROVE  /\ call' \in [Callers -> Calls \cup {Idle}]
           /\ \A j \in Callers : j # k => call'[j] = call[j]
           /\ call'[k] = [call[k] EXCEPT !.step = step]
<1>1. call[k] \in Calls
    BY DEF TypeOK, CallTypes, Idle
<1>2. [call[k] EXCEPT !.step = step] \in Calls
    BY <1>1 DEF Calls, Steps
<1> QED
    BY <1>2 DEF Goto, TypeOK, CallTypes

\* The initial state.
LEMMA TypedInit == ASSUME Init PROVE Typed
<1>1. TypeOK
    <2>1. RowTypes
        BY UnseenIsSnapshot, AdministrationAssumption DEF Init, RowTypes
    <2>2. CallTypes
        BY UnseenIsSnapshot, AdministrationAssumption DEF Init, CallTypes
    <2>3. LogTypes
        <3>1. /\ audit \subseteq AuditActions \X (Users \cup Channels) \X Users
              /\ bootstrapped \subseteq Users
              /\ lost \in [Channels -> [Users -> 0 .. MaxCalls]]
              /\ crowded \in 0 .. MaxCalls
            BY AdministrationAssumption DEF Init
        <3>2. raced \in BOOLEAN
            BY DEF Init
        <3>3. decisions \in [Posts -> Seq(Decisions \X (Channels \cup {Nobody}))]
            BY DEF Init
        <3> QED
            BY <3>1, <3>2, <3>3 DEF LogTypes
    <2> QED
        BY <2>1, <2>2, <2>3 DEF TypeOK
<1>2. UnbornIsEmpty
    BY DEF Init, UnbornIsEmpty
<1>3. CallsAreWhole
    BY DEF Init, CallsAreWhole, Whole, OnChannel, Idle
<1> QED
    BY <1>1, <1>2, <1>3 DEF Typed

\* A new call is as whole as its request.
LEMMA BeginKeepsCalls ==
    ASSUME Typed, NEW k \in Callers, NEW request \in Requests, Whole(request),
           Begin(k, request), UNCHANGED channels
    PROVE  call' \in [Callers -> Calls \cup {Idle}] /\ calls' \in 0 .. MaxCalls /\ CallsAreWhole'
<1>1. /\ call' \in [Callers -> Calls \cup {Idle}]
      /\ calls' \in 0 .. MaxCalls
      /\ \A j \in Callers : j # k => call'[j] = call[j]
      /\ call'[k] = [request EXCEPT !.number = calls + 1]
    BY BeginTyped DEF Typed
<1>2. Whole(call[k])'
    BY <1>1 DEF Whole, Requests
<1> QED
    BY <1>1, <1>2 DEF CallsAreWhole, Whole, Typed

\* A call that goes on or ends stays whole, and so do the others.
LEMMA MoveKeepsCalls ==
    ASSUME Typed, NEW k \in Callers, CreatorsStay,
           Moves(k)
    PROVE  call' \in [Callers -> Calls \cup {Idle}] /\ CallsAreWhole'
<1>1. CASE End(k)
    <2>1. /\ call' \in [Callers -> Calls \cup {Idle}]
          /\ \A j \in Callers : j # k => call'[j] = call[j]
          /\ call'[k] = Idle
        BY <1>1, EndTyped DEF Typed
    <2>2. Whole(call[k])'
        BY <2>1 DEF Whole, Idle, OnChannel
    <2> QED
        BY <2>1, <2>2 DEF CallsAreWhole, Whole, CreatorsStay, Typed
<1>2. ASSUME NEW step \in Steps, call[k].op # "none", Goto(k, step)
      PROVE  call' \in [Callers -> Calls \cup {Idle}] /\ CallsAreWhole'
    <2>1. /\ call' \in [Callers -> Calls \cup {Idle}]
          /\ \A j \in Callers : j # k => call'[j] = call[j]
          /\ call'[k] = [call[k] EXCEPT !.step = step]
        BY <1>2, GotoTyped DEF Typed
    <2>2. call[k] \in Calls
        BY <1>2 DEF Typed, TypeOK, CallTypes, Idle
    <2>3. Whole(call[k])'
        BY <2>1, <2>2 DEF Whole, CreatorsStay, Calls, CallsAreWhole, Typed
    <2> QED
        BY <2>1, <2>3 DEF CallsAreWhole, Whole, CreatorsStay, Typed
<1> QED
    BY <1>1, <1>2 DEF Moves

\* A call that begins changes nothing but the calls, and perhaps the race flag.
LEMMA BeginStep ==
    ASSUME Typed, NEW k \in Callers, NEW request \in Requests, Whole(request),
           Begin(k, request), UNCHANGED <<rows, audit, view>>, LogTypes'
    PROVE  Typed'
<1>1. /\ call' \in [Callers -> Calls \cup {Idle}]
      /\ calls' \in 0 .. MaxCalls
      /\ CallsAreWhole'
    BY BeginKeepsCalls DEF rows
<1>2. CallTypes'
    BY <1>1 DEF Typed, TypeOK, CallTypes
<1>3. RowTypes' /\ UnbornIsEmpty'
    BY DEF Typed, TypeOK, RowTypes, UnbornIsEmpty, rows
<1> QED
    BY <1>1, <1>2, <1>3 DEF Typed, TypeOK

\* What a call does after its first reads keeps the types if what it writes does.
LEMMA MoveStep ==
    ASSUME Typed, NEW k \in Callers, CreatorsStay,
           Moves(k),
           RowTypes', UnbornIsEmpty', LogTypes', UNCHANGED calls,
           view' \in [Users -> [Channels -> Snapshots]]
    PROVE  Typed'
<1>1. call' \in [Callers -> Calls \cup {Idle}] /\ CallsAreWhole'
    BY MoveKeepsCalls
<1>2. CallTypes'
    BY <1>1 DEF Typed, TypeOK, CallTypes
<1> QED
    BY <1>1, <1>2 DEF Typed, TypeOK

\* Rows that are left alone keep their types.
LEMMA SameRows ==
    ASSUME Typed, UNCHANGED rows
    PROVE  RowTypes' /\ UnbornIsEmpty' /\ CreatorsStay
    BY DEF Typed, TypeOK, RowTypes, UnbornIsEmpty, CreatorsStay, rows

\* Whoever is let through is a member of a channel that is there.
LEMMA MembersHaveAChannel ==
    ASSUME Typed, NEW u \in Users, NEW c \in Channels, NEW minimum \in Roles,
           Authorized(u, c, minimum)
    PROVE  channels[c].creator # Nobody /\ role[c][u] \in Roles
    BY DEF Typed, TypeOK, RowTypes, UnbornIsEmpty, Authorized

\* What the clients have seen keeps its type while it is not read again.
LEMMA SameView ==
    ASSUME Typed, UNCHANGED view
    PROVE  view' \in [Users -> [Channels -> Snapshots]]
    BY DEF Typed, TypeOK, CallTypes

\* The logs that are left alone keep theirs.
LEMMA SameLogs ==
    ASSUME Typed, UNCHANGED <<audit, bootstrapped, raced, lost, crowded, decisions>>
    PROVE  LogTypes'
    BY DEF Typed, TypeOK, LogTypes

\* An entry in the audit log ends a call.
LEMMA RecordStep ==
    ASSUME Typed, NEW k \in Callers, NEW op, NEW action \in AuditActions,
           NEW entity \in Users \cup Channels, NEW actor \in Users,
           Record(k, op, action, entity, actor)
    PROVE  Typed'
<1>1. LogTypes'
    <2>1. audit' \subseteq AuditActions \X (Users \cup Channels) \X Users
        BY DEF Record, Typed, TypeOK, LogTypes
    <2> QED
        BY <2>1 DEF Record, history, Typed, TypeOK, LogTypes
<1> QED
    <2>1. Moves(k) /\ UNCHANGED calls
        BY DEF Record, Moves
    <2>2. RowTypes' /\ UnbornIsEmpty' /\ CreatorsStay
        BY SameRows DEF Record
    <2>3. view' \in [Users -> [Channels -> Snapshots]]
        BY SameView DEF Record
    <2> QED
        BY <1>1, <2>1, <2>2, <2>3, MoveStep

\* The calls of AccessService.
LEMMA AccessStep ==
    ASSUME Typed, NEW k \in Callers, Access(k)
    PROVE  Typed'
<1>1. CASE Bootstrap(k)
    <2>1. PICK u \in Users :
              Begin(k, [Idle EXCEPT !.op = "bootstrap", !.step = "write", !.whom = u])
        BY <1>1 DEF Bootstrap
    <2> DEFINE request == [Idle EXCEPT !.op = "bootstrap", !.step = "write", !.whom = u]
    <2>2. request \in Requests /\ Whole(request)
        BY UnseenIsSnapshot DEF Idle, Requests, Operations, Steps, Whole, OnChannel, Fields
    <2>3. LogTypes'
        BY <1>1 DEF Bootstrap, Typed, TypeOK, LogTypes
    <2> QED
        BY <1>1, <2>1, <2>2, <2>3, BeginStep DEF Bootstrap
<1>2. CASE CreateUser(k)
    <2>1. PICK a, u \in Users :
              Begin(k, [Idle EXCEPT !.op = "createUser", !.step = "count", !.actor = a,
                                    !.whom = u,
                                    !.owner = \E c \in Channels : role[c][a] = "OWNER",
                                    !.member = \E c \in Channels : role[c][a] # Nobody])
        BY <1>2 DEF CreateUser
    <2> DEFINE request == [Idle EXCEPT !.op = "createUser", !.step = "count", !.actor = a,
                                       !.whom = u,
                                       !.owner = \E c \in Channels : role[c][a] = "OWNER",
                                       !.member = \E c \in Channels : role[c][a] # Nobody]
    <2>2. request \in Requests /\ Whole(request)
        BY UnseenIsSnapshot DEF Idle, Requests, Operations, Steps, Whole, OnChannel, Fields
    <2> QED
        BY <1>2, <2>1, <2>2, SameLogs, BeginStep DEF CreateUser, history
<1>3. CASE CountUsers(k)
    <2>1. Moves(k)
        BY <1>3 DEF CountUsers, At, Steps, Moves
    <2> QED
        BY <1>3, <2>1, SameRows, SameLogs, SameView, MoveStep DEF CountUsers, history
<1>4. CASE InsertUser(k)
    <2>1. call[k].whom \in Users /\ call[k].op # "none"
        BY <1>4 DEF InsertUser, At, Typed, CallsAreWhole, Whole
    <2>2. call[k].op # "bootstrap" => call[k].actor \in Users
        BY <1>4 DEF InsertUser, At, Typed, CallsAreWhole, Whole
    <2>3. RowTypes' /\ UnbornIsEmpty' /\ CreatorsStay
        BY <1>4, <2>1 DEF InsertUser, Typed, TypeOK, RowTypes, UnbornIsEmpty, CreatorsStay
    <2>4. LogTypes'
        <3>1. bootstrapped' \subseteq Users /\ crowded' \in 0 .. MaxCalls
            BY <1>4, <2>1, <2>2 DEF InsertUser, Typed, TypeOK, LogTypes, CallTypes
        <3> QED
            BY <1>4, <3>1 DEF InsertUser, Typed, TypeOK, LogTypes
    <2>5. Moves(k)
        BY <1>4, <2>1 DEF InsertUser, Moves, Steps
    <2> QED
        BY <1>4, <2>1, <2>3, <2>4, <2>5, SameView, MoveStep DEF InsertUser
<1>5. CASE RecordBootstrap(k)
    <2>1. PICK u \in Users : u = call[k].whom
        BY <1>5 DEF RecordBootstrap, Record, At, Typed, CallsAreWhole, Whole
    <2>2. Record(k, "bootstrap", "access.bootstrap.completed", u, u)
        BY <1>5, <2>1 DEF RecordBootstrap, Record
    <2> QED
        BY <2>2, RecordStep DEF AuditActions
<1> QED
    BY <1>1, <1>2, <1>3, <1>4, <1>5 DEF Access

\* The calls of ChannelsService, but for settings and members.
LEMMA ChannelStep ==
    ASSUME Typed, NEW k \in Callers, Channel(k)
    PROVE  Typed'
<1>1. CASE Create(k)
    <2>1. PICK u \in Users, c \in Channels :
              Begin(k, [Idle EXCEPT !.op = "create", !.step = "write", !.actor = u,
                                    !.channel = c])
        BY <1>1 DEF Create
    <2> DEFINE request == [Idle EXCEPT !.op = "create", !.step = "write", !.actor = u,
                                       !.channel = c]
    <2>2. request \in Requests /\ Whole(request)
        BY UnseenIsSnapshot DEF Idle, Requests, Operations, Steps, Whole, OnChannel, Fields
    <2> QED
        BY <1>1, <2>1, <2>2, SameLogs, BeginStep DEF Create, history
<1>2. CASE InsertChannel(k)
    <2>1. PICK u \in Users, c \in Channels : u = call[k].actor /\ c = call[k].channel
        BY <1>2 DEF InsertChannel, At, Typed, CallsAreWhole, Whole
    <2>2. call[k].op # "none" /\ Moves(k)
        BY <1>2 DEF InsertChannel, At, Moves, Steps
    <2>3. CASE channels[c].creator # Nobody
        <3>1. UNCHANGED <<rows, audit, calls, view, history>>
            BY <1>2, <2>1, <2>3 DEF InsertChannel, rows, history
        <3> QED
            BY <2>2, <3>1, SameRows, SameLogs, SameView, MoveStep DEF history
    <2>4. CASE channels[c].creator = Nobody
        <3>1. /\ channels' = [channels EXCEPT ![c].creator = u]
              /\ role' = [role EXCEPT ![c][u] = "OWNER"]
              /\ settings' = [settings EXCEPT ![c].version = 1]
              /\ UNCHANGED <<users, queue, audit, calls, view, history>>
            BY <1>2, <2>1, <2>4 DEF InsertChannel
        <3>2. RowTypes'
            <4>1. channels' \in [Channels -> [creator : Users \cup {Nobody}, metadata : 0 .. MaxCalls,
                                              credential : Users \cup {Nobody}]]
                BY <3>1 DEF Typed, TypeOK, RowTypes
            <4>2. role' \in [Channels -> [Users -> Roles \cup {Nobody}]]
                BY <3>1 DEF Typed, TypeOK, RowTypes, Roles
            <4>3. settings' \in [Channels -> Snapshots]
                BY <3>1 DEF Typed, TypeOK, RowTypes, Snapshots
            <4> QED
                BY <3>1, <4>1, <4>2, <4>3 DEF Typed, TypeOK, RowTypes
        <3>3. UnbornIsEmpty' /\ CreatorsStay
            BY <3>1, AdministrationAssumption DEF Typed, TypeOK, RowTypes, UnbornIsEmpty, CreatorsStay
        <3>4. LogTypes'
            BY <3>1, SameLogs DEF history
        <3> QED
            BY <2>2, <3>1, <3>2, <3>3, <3>4, SameView, MoveStep
    <2> QED
        BY <2>3, <2>4
<1>3. CASE RecordChannel(k)
    <2>1. PICK u \in Users, c \in Channels : u = call[k].actor /\ c = call[k].channel
        BY <1>3 DEF RecordChannel, Record, At, Typed, CallsAreWhole, Whole
    <2>2. Record(k, "create", "channel.created", c, u)
        BY <1>3, <2>1 DEF RecordChannel, Record
    <2> QED
        BY <2>2, RecordStep DEF AuditActions
<1>4. CASE Update(k)
    <2>1. PICK u \in Users, c \in Channels :
              /\ Authorized(u, c, "EDITOR")
              /\ Begin(k, [Idle EXCEPT !.op = "update", !.step = "write", !.actor = u,
                                       !.channel = c])
        BY <1>4 DEF Update
    <2> DEFINE request == [Idle EXCEPT !.op = "update", !.step = "write", !.actor = u,
                                       !.channel = c]
    <2>2. request \in Requests /\ Whole(request)
        <3>1. channels[c].creator # Nobody
            BY <2>1, MembersHaveAChannel DEF Roles
        <3> QED
            BY <3>1, UnseenIsSnapshot
            DEF Idle, Requests, Operations, Steps, Whole, OnChannel, Fields
    <2> QED
        BY <1>4, <2>1, <2>2, SameLogs, BeginStep DEF Update, history
<1>5. CASE WriteMetadata(k)
    <2>1. PICK c \in Channels : c = call[k].channel
        BY <1>5 DEF WriteMetadata, At, Typed, CallsAreWhole, Whole, OnChannel
    <2>2. call[k].number \in 0 .. MaxCalls /\ Moves(k)
        BY <1>5, AdministrationAssumption
        DEF WriteMetadata, At, Moves, Typed, TypeOK, CallTypes, Calls, Idle
    <2>3. RowTypes' /\ UnbornIsEmpty' /\ CreatorsStay
        BY <1>5, <2>1, <2>2
        DEF WriteMetadata, Typed, TypeOK, RowTypes, UnbornIsEmpty, CreatorsStay
    <2> QED
        BY <1>5, <2>2, <2>3, SameLogs, SameView, MoveStep DEF WriteMetadata, history
<1>6. CASE SetCredential(k)
    <2>1. PICK u \in Users, c \in Channels :
              /\ Authorized(u, c, "OWNER")
              /\ Begin(k, [Idle EXCEPT !.op = "setCredential", !.step = "write", !.actor = u,
                                       !.channel = c])
        BY <1>6 DEF SetCredential
    <2> DEFINE request == [Idle EXCEPT !.op = "setCredential", !.step = "write", !.actor = u,
                                       !.channel = c]
    <2>2. request \in Requests /\ Whole(request)
        <3>1. channels[c].creator # Nobody
            BY <2>1, MembersHaveAChannel DEF Roles
        <3> QED
            BY <3>1, UnseenIsSnapshot
            DEF Idle, Requests, Operations, Steps, Whole, OnChannel, Fields
    <2> QED
        BY <1>6, <2>1, <2>2, SameLogs, BeginStep DEF SetCredential, history
<1>7. CASE UpsertCredential(k)
    <2>1. PICK u \in Users, c \in Channels : u = call[k].actor /\ c = call[k].channel
        BY <1>7 DEF UpsertCredential, At, Typed, CallsAreWhole, Whole, OnChannel
    <2>2. Moves(k)
        BY <1>7 DEF UpsertCredential, At, Moves, Steps
    <2>3. RowTypes' /\ UnbornIsEmpty' /\ CreatorsStay
        BY <1>7, <2>1 DEF UpsertCredential, Typed, TypeOK, RowTypes, UnbornIsEmpty, CreatorsStay
    <2>4. LogTypes'
        BY <1>7, SameLogs DEF UpsertCredential, history
    <2> QED
        BY <1>7, <2>2, <2>3, <2>4, SameView, MoveStep DEF UpsertCredential
<1>8. CASE RecordCredential(k)
    <2>1. PICK u \in Users, c \in Channels : u = call[k].actor /\ c = call[k].channel
        BY <1>8 DEF RecordCredential, Record, At, Typed, CallsAreWhole, Whole, OnChannel
    <2>2. Record(k, "setCredential", "channel.credential_reference.updated", c, u)
        BY <1>8, <2>1 DEF RecordCredential, Record
    <2> QED
        BY <2>2, RecordStep DEF AuditActions
<1> QED
    BY <1>1, <1>2, <1>3, <1>4, <1>5, <1>6, <1>7, <1>8 DEF Channel

\* The calls that change settings.
LEMMA SettingsStep ==
    ASSUME Typed, NEW k \in Callers, Settings(k)
    PROVE  Typed'
<1>1. CASE UpdateSettings(k)
    <2>1. PICK u \in Users, c \in Channels, f \in Fields :
              /\ Authorized(u, c, "EDITOR")
              /\ Begin(k, [Idle EXCEPT !.op = "updateSettings", !.step = "write", !.actor = u,
                                       !.channel = c, !.field = f, !.base = view[u][c]])
        BY <1>1 DEF UpdateSettings
    <2> DEFINE request == [Idle EXCEPT !.op = "updateSettings", !.step = "write", !.actor = u,
                                       !.channel = c, !.field = f, !.base = view[u][c]]
    <2>2. request \in Requests /\ Whole(request)
        <3>1. channels[c].creator # Nobody
            BY <2>1, MembersHaveAChannel DEF Roles
        <3>2. view[u][c] \in Snapshots
            BY DEF Typed, TypeOK, CallTypes
        <3> QED
            BY <3>1, <3>2 DEF Idle, Requests, Operations, Steps, Whole, OnChannel
    <2> QED
        BY <1>1, <2>1, <2>2, SameLogs, BeginStep DEF UpdateSettings, history
<1>2. CASE WriteSettings(k)
    <2>1. PICK u \in Users, c \in Channels : u = call[k].actor /\ c = call[k].channel
        BY <1>2 DEF WriteSettings, At, Typed, CallsAreWhole, Whole, OnChannel
    <2>2. Moves(k)
        BY <1>2 DEF WriteSettings, At, Moves, Steps
    <2>3. CASE UNCHANGED settings
        <3>1. UNCHANGED <<rows, audit, calls, view, history>>
            BY <1>2, <2>3 DEF WriteSettings, rows, history
        <3> QED
            BY <2>2, <3>1, SameRows, SameLogs, SameView, MoveStep DEF history
    <2>4. CASE settings' = [settings EXCEPT ![c] = Replaced(k, @.version + 1)]
        <3>1. Replaced(k, settings[c].version + 1) \in Snapshots
            <4>1. call[k] \in Calls
                BY <1>2 DEF WriteSettings, At, Typed, TypeOK, CallTypes, Idle
            <4>2. call[k].base \in Snapshots /\ call[k].number \in 1 .. MaxCalls
                  /\ call[k].field \in Fields
                BY <4>1 DEF Calls
            <4>3. settings[c] \in Snapshots
                BY DEF Typed, TypeOK, RowTypes
            <4> DEFINE f    == call[k].field
                       list == [settings[c].list EXCEPT ![f] = call[k].base.list[f] \cup {call[k].number}]
            <4>4. list \in [Fields -> SUBSET (1 .. MaxCalls)]
                BY <4>2, <4>3 DEF Snapshots
            <4>5. Replaced(k, settings[c].version + 1)
                      = [settings[c] EXCEPT !.version = settings[c].version + 1, !.list = list]
                BY <2>1, <4>3 DEF Replaced, Snapshots
            <4>6. settings[c].version + 1 \in Nat
                BY <4>3 DEF Snapshots
            <4>7. Replaced(k, settings[c].version + 1)
                      = [version |-> settings[c].version + 1, list |-> list]
                BY <4>3, <4>5 DEF Snapshots
            <4> QED
                BY <4>4, <4>6, <4>7 DEF Snapshots
        <3>2. RowTypes'
            BY <1>2, <2>4, <3>1 DEF WriteSettings, Typed, TypeOK, RowTypes
        <3>3. UnbornIsEmpty' /\ CreatorsStay
            <4>1. channels[c].creator # Nobody
                BY <1>2, <2>1 DEF WriteSettings, At, Typed, CallsAreWhole, Whole, OnChannel
            <4> QED
                BY <1>2, <2>4, <4>1
                DEF WriteSettings, Typed, TypeOK, RowTypes, UnbornIsEmpty, CreatorsStay
        <3>4. LogTypes'
            BY <1>2, SameLogs DEF WriteSettings, history
        <3> QED
            BY <1>2, <2>2, <3>2, <3>3, <3>4, SameView, MoveStep DEF WriteSettings
    <2> QED
        BY <1>2, <2>1, <2>3, <2>4 DEF WriteSettings
<1>3. CASE Reload(k)
    <2>1. PICK u \in Users, c \in Channels : u = call[k].actor /\ c = call[k].channel
        BY <1>3 DEF Reload, At, Typed, CallsAreWhole, Whole, OnChannel
    <2>2. Moves(k)
        BY <1>3 DEF Reload, Moves
    <2>3. view' \in [Users -> [Channels -> Snapshots]]
        BY <1>3, <2>1 DEF Reload, Typed, TypeOK, CallTypes, RowTypes
    <2> QED
        BY <1>3, <2>2, <2>3, SameRows, SameLogs, MoveStep DEF Reload, history
<1> QED
    BY <1>1, <1>2, <1>3 DEF Settings

\* The calls that change members.
LEMMA MembersStep ==
    ASSUME Typed, NEW k \in Callers, Members(k)
    PROVE  Typed'
<1>1. CASE AddMember(k)
    <2>1. PICK u, member \in Users, c \in Channels, r \in Roles :
              /\ Authorized(u, c, "OWNER")
              /\ Begin(k, [Idle EXCEPT !.op = "addMember", !.step = "write", !.actor = u,
                                       !.channel = c, !.whom = member, !.role = r])
        BY <1>1 DEF AddMember
    <2> DEFINE request == [Idle EXCEPT !.op = "addMember", !.step = "write", !.actor = u,
                                       !.channel = c, !.whom = member, !.role = r]
    <2>2. request \in Requests /\ Whole(request)
        <3>1. channels[c].creator # Nobody
            BY <2>1, MembersHaveAChannel DEF Roles
        <3> QED
            BY <3>1, UnseenIsSnapshot
            DEF Idle, Requests, Operations, Steps, Whole, OnChannel, Fields
    <2> QED
        BY <1>1, <2>1, <2>2, SameLogs, BeginStep DEF AddMember, history
<1>2. CASE UpsertMember(k)
    <2>1. /\ call[k].actor \in Users /\ call[k].channel \in Channels
          /\ call[k].whom \in Users /\ call[k].role \in Roles
          /\ channels[call[k].channel].creator # Nobody
        BY <1>2 DEF UpsertMember, At, Typed, CallsAreWhole, Whole, OnChannel
    <2>2. Moves(k)
        BY <1>2 DEF UpsertMember, At, Moves, Steps
    <2>3. RowTypes' /\ UnbornIsEmpty' /\ CreatorsStay
        <3>1. UNCHANGED <<users, channels, settings, queue>>
            BY <1>2 DEF UpsertMember
        <3>2. /\ role' \in [Channels -> [Users -> Roles \cup {Nobody}]]
              /\ \A c \in Channels : c # call[k].channel => role'[c] = role[c]
            <4>1. PICK u \in Users, c \in Channels, r \in Roles :
                      u = call[k].whom /\ c = call[k].channel /\ r = call[k].role
                BY <2>1
            <4>2. role' = role \/ role' = [role EXCEPT ![c][u] = r]
                BY <1>2, <4>1 DEF UpsertMember
            <4>3. role \in [Channels -> [Users -> Roles \cup {Nobody}]]
                BY DEF Typed, TypeOK, RowTypes
            <4>4. [role[c] EXCEPT ![u] = r] \in [Users -> Roles \cup {Nobody}]
                BY <4>3
            <4> QED
                BY <4>1, <4>2, <4>3, <4>4
        <3> QED
            BY <2>1, <3>1, <3>2 DEF Typed, TypeOK, RowTypes, UnbornIsEmpty, CreatorsStay
    <2>4. LogTypes'
        <3>1. lost' \in [Channels -> [Users -> 0 .. MaxCalls]]
            <4>1. PICK u \in Users, c \in Channels : u = call[k].whom /\ c = call[k].channel
                BY <2>1
            <4>2. lost' = lost \/ lost' = [lost EXCEPT ![c][u] = calls]
                BY <1>2, <4>1 DEF UpsertMember
            <4>3. calls \in 0 .. MaxCalls /\ lost \in [Channels -> [Users -> 0 .. MaxCalls]]
                BY DEF Typed, TypeOK, CallTypes, LogTypes
            <4>4. [lost[c] EXCEPT ![u] = calls] \in [Users -> 0 .. MaxCalls]
                BY <4>3
            <4> QED
                BY <4>2, <4>3, <4>4
        <3> QED
            BY <1>2, <3>1 DEF UpsertMember, Typed, TypeOK, LogTypes
    <2> QED
        BY <1>2, <2>2, <2>3, <2>4, SameView, MoveStep DEF UpsertMember
<1>3. CASE RecordMember(k)
    <2>1. PICK c \in Channels : c = call[k].channel /\ channels[c].creator # Nobody
        BY <1>3 DEF RecordMember, Record, At, Typed, CallsAreWhole, Whole, OnChannel
    <2>2. PICK u \in Users : u = channels[c].creator
        BY <2>1 DEF Typed, TypeOK, RowTypes
    <2>3. Record(k, "addMember", "channel.member.upserted", c, u)
        BY <1>3, <2>1, <2>2 DEF RecordMember, Record
    <2> QED
        BY <2>3, RecordStep DEF AuditActions
<1> QED
    BY <1>1, <1>2, <1>3 DEF Members

\* Every step keeps the types.
LEMMA TypedStep ==
    ASSUME Typed, [Next]_vars
    PROVE  Typed'
<1>1. ASSUME NEW k \in Callers, Abandon(k) PROVE Typed'
    BY <1>1, SameRows, SameLogs, SameView, MoveStep DEF Abandon, Moves, history
<1>2. ASSUME NEW u \in Users, DisableUser(u) PROVE Typed'
    <2>1. RowTypes' /\ UnbornIsEmpty' /\ CallsAreWhole'
        BY <1>2 DEF DisableUser, Typed, TypeOK, RowTypes, UnbornIsEmpty, CallsAreWhole, Whole
    <2>2. CallTypes'
        BY <1>2, AdministrationAssumption DEF DisableUser, Count, Typed, TypeOK, CallTypes
    <2> QED
        BY <1>2, <2>1, <2>2, SameLogs DEF DisableUser, history, Typed, TypeOK
<1>3. ASSUME NEW u \in Users, NEW c \in Channels, Get(u, c) PROVE Typed'
    <2>1. RowTypes' /\ UnbornIsEmpty'
        BY <1>3, SameRows DEF Get
    <2>2. CallTypes' /\ CallsAreWhole'
        BY <1>3 DEF Get, rows, Typed, TypeOK, CallTypes, RowTypes, CallsAreWhole, Whole
    <2> QED
        BY <1>3, <2>1, <2>2, SameLogs DEF Get, history, Typed, TypeOK
<1>4. ASSUME NEW p \in Posts, NEW d \in Decisions, NEW c \in Channels \cup {Nobody}, Act(p, d, c)
      PROVE  Typed'
    <2>1. StatusAfter[d] \in {"APPROVED", "REJECTED", "REGENERATION_REQUESTED"}
        BY DEF StatusAfter, Decisions
    <2>2. RowTypes' /\ UnbornIsEmpty' /\ CallsAreWhole'
        BY <1>4, <2>1 DEF Act, Audited, Typed, TypeOK, RowTypes, UnbornIsEmpty, CallsAreWhole, Whole
    <2>3. CallTypes'
        BY <1>4, AdministrationAssumption DEF Act, Audited, Count, Typed, TypeOK, CallTypes
    <2>4. LogTypes'
        <3>1. decisions' \in [Posts -> Seq(Decisions \X (Channels \cup {Nobody}))]
            BY <1>4 DEF Act, Audited, Typed, TypeOK, LogTypes
        <3> QED
            BY <1>4, <3>1 DEF Act, Audited, Typed, TypeOK, LogTypes
    <2> QED
        BY <2>2, <2>3, <2>4 DEF Typed, TypeOK
<1>5. CASE UNCHANGED vars
    BY <1>5, SameRows, SameLogs DEF vars, rows, Typed, TypeOK, CallTypes, CallsAreWhole, Whole
<1> QED
    BY <1>1, <1>2, <1>3, <1>4, <1>5, AccessStep, SettingsStep, MembersStep, ChannelStep DEF Next

\* Every reachable state is typed.
LEMMA TypedInvariance == Spec => []Typed
<1>1. Init => Typed
    BY TypedInit
<1>2. Typed /\ [Next]_vars => Typed'
    BY TypedStep
<1> QED
    BY <1>1, <1>2, PTL DEF Spec
-----------------------------------------------------------------------------
\* Types are kept, whatever the calls interleave with and wherever they break off.
THEOREM TypeCorrect == Spec => []TypeOK
<1>1. Typed => TypeOK
    BY DEF Typed
<1> QED
    BY <1>1, TypedInvariance, PTL
-----------------------------------------------------------------------------
\* What a call was let through with does not change while it goes on.
Kept(j) == call'[j].op # "none" =>
    /\ call'[j].op = call[j].op /\ call'[j].actor = call[j].actor
    /\ call'[j].channel = call[j].channel /\ call'[j].whom = call[j].whom
    /\ call'[j].role = call[j].role /\ call'[j].field = call[j].field
    /\ call'[j].base = call[j].base /\ call'[j].owner = call[j].owner
    /\ call'[j].number = call[j].number

\* The actions with which a call begins.
Begins(k) == \/ Bootstrap(k) \/ CreateUser(k) \/ Create(k) \/ Update(k)
             \/ UpdateSettings(k) \/ AddMember(k) \/ SetCredential(k)

\* The actions of one call.
OfCall(k) == Access(k) \/ Settings(k) \/ Members(k) \/ Channel(k) \/ Abandon(k)

\* A call keeps what it was let through with.
LEMMA MoveKeeps ==
    ASSUME Typed, NEW k \in Callers, Moves(k)
    PROVE  \A j \in Callers : Kept(j)
<1>1. CASE End(k)
    BY <1>1, EndTyped DEF Kept, Idle, Typed
<1>2. ASSUME NEW step \in Steps, call[k].op # "none", Goto(k, step)
      PROVE  \A j \in Callers : Kept(j)
    <2>1. call[k] \in Calls
        BY <1>2 DEF Typed, TypeOK, CallTypes, Idle
    <2>2. /\ \A j \in Callers : j # k => call'[j] = call[j]
          /\ call'[k] = [call[k] EXCEPT !.step = step]
        BY <1>2, GotoTyped DEF Typed
    <2> QED
        BY <2>1, <2>2 DEF Kept, Calls
<1> QED
    BY <1>1, <1>2 DEF Moves

\* Whatever does not begin a call goes on with one or ends it.
LEMMA OfCallMoves ==
    ASSUME Typed, NEW k \in Callers, OfCall(k), ~Begins(k)
    PROVE  Moves(k)
<1>1. CASE Access(k)
    BY <1>1 DEF Access, Begins, CountUsers, InsertUser, RecordBootstrap, Record, At, Moves, Steps
<1>2. CASE Settings(k)
    BY <1>2 DEF Settings, Begins, WriteSettings, Reload, At, Moves, Steps
<1>3. CASE Members(k)
    BY <1>3 DEF Members, Begins, UpsertMember, RecordMember, Record, At, Moves, Steps
<1>4. CASE Channel(k)
    BY <1>4 DEF Channel, Begins, InsertChannel, RecordChannel, WriteMetadata, UpsertCredential,
                RecordCredential, Record, At, Moves, Steps
<1>5. CASE Abandon(k)
    BY <1>5 DEF Abandon, Moves
<1> QED
    BY <1>1, <1>2, <1>3, <1>4, <1>5 DEF OfCall

\* A call that begins leaves the others alone, and the rows and views too.
LEMMA BeginLeaves ==
    ASSUME Typed, NEW k \in Callers, Begins(k)
    PROVE  /\ \A j \in Callers : j # k => call'[j] = call[j]
           /\ UNCHANGED <<users, channels, role, settings, queue, audit, view>>
           /\ call[k] = Idle
<1>1. ASSUME NEW request, Begin(k, request)
      PROVE  call[k] = Idle /\ \A j \in Callers : j # k => call'[j] = call[j]
    BY <1>1 DEF Begin, Typed, TypeOK, CallTypes
<1>2. \E request : Begin(k, request)
    BY DEF Begins, Bootstrap, CreateUser, Create, Update, UpdateSettings, AddMember, SetCredential
<1>3. UNCHANGED <<users, channels, role, settings, queue, audit, view>>
    BY DEF Begins, Bootstrap, CreateUser, Create, Update, UpdateSettings, AddMember, SetCredential,
           rows
<1> QED
    BY <1>1, <1>2, <1>3

\* Only an owner passes the check for owners.
LEMMA OwnersAlone ==
    ASSUME Typed, NEW u \in Users, NEW c \in Channels, Authorized(u, c, "OWNER")
    PROVE  role[c][u] = "OWNER"
<1>1. role[c][u] \in Roles
    BY MembersHaveAChannel DEF Roles
<1> QED
    BY <1>1 DEF Authorized, Rank, Roles

\* The operation of a call is that of the action it began with.
LEMMA BeginsAs ==
    ASSUME Typed, NEW k \in Callers
    PROVE  /\ Bootstrap(k) => call'[k].op = "bootstrap"
           /\ CreateUser(k) => call'[k].op = "createUser"
           /\ Create(k) => call'[k].op = "create"
           /\ Update(k) => call'[k].op = "update"
           /\ UpdateSettings(k) => call'[k].op = "updateSettings"
           /\ AddMember(k) => call'[k].op = "addMember"
           /\ SetCredential(k) => call'[k].op = "setCredential"
<1>1. call = [j \in Callers |-> call[j]]
    BY DEF Typed, TypeOK, CallTypes
<1>2. ASSUME Bootstrap(k) PROVE call'[k].op = "bootstrap"
    BY <1>1, <1>2 DEF Bootstrap, Begin, Idle
<1>3. ASSUME CreateUser(k) PROVE call'[k].op = "createUser"
    <2>1. PICK owner, member, a, u :
              Begin(k, [Idle EXCEPT !.op = "createUser", !.step = "count", !.actor = a,
                                    !.whom = u, !.owner = owner, !.member = member])
        BY <1>3 DEF CreateUser
    <2> QED
        BY <1>1, <2>1 DEF Begin, Idle
<1>4. ASSUME Create(k) PROVE call'[k].op = "create"
    BY <1>1, <1>4 DEF Create, Begin, Idle
<1>5. ASSUME Update(k) PROVE call'[k].op = "update"
    BY <1>1, <1>5 DEF Update, Begin, Idle
<1>6. ASSUME UpdateSettings(k) PROVE call'[k].op = "updateSettings"
    <2>1. PICK u, c, f, base :
              Begin(k, [Idle EXCEPT !.op = "updateSettings", !.step = "write", !.actor = u,
                                    !.channel = c, !.field = f, !.base = base])
        BY <1>6 DEF UpdateSettings
    <2> QED
        BY <1>1, <2>1 DEF Begin, Idle
<1>7. ASSUME AddMember(k) PROVE call'[k].op = "addMember"
    BY <1>1, <1>7 DEF AddMember, Begin, Idle
<1>8. ASSUME SetCredential(k) PROVE call'[k].op = "setCredential"
    BY <1>1, <1>8 DEF SetCredential, Begin, Idle
<1> QED
    BY <1>2, <1>3, <1>4, <1>5, <1>6, <1>7, <1>8

\* A createUser begins with the memberships its actor has.
LEMMA UserCreationOpened ==
    ASSUME Typed, NEW k \in Callers, Begins(k), call'[k].op = "createUser"
    PROVE  /\ call'[k].actor \in Users /\ users[call'[k].actor] = "ACTIVE"
           /\ call'[k].owner => \E c \in Channels : role[c][call'[k].actor] = "OWNER"
           /\ call'[k].step = "count"
<1>1. CASE CreateUser(k)
    <2>1. PICK a, u \in Users :
              /\ users[a] = "ACTIVE"
              /\ Begin(k, [Idle EXCEPT !.op = "createUser", !.step = "count", !.actor = a,
                                       !.whom = u,
                                       !.owner = \E c \in Channels : role[c][a] = "OWNER",
                                       !.member = \E c \in Channels : role[c][a] # Nobody])
        BY <1>1 DEF CreateUser
    <2>2. /\ call'[k].actor = a /\ call'[k].step = "count"
          /\ call'[k].owner = \E c \in Channels : role[c][a] = "OWNER"
        BY <2>1 DEF Begin, Idle, Typed, TypeOK, CallTypes
    <2> QED
        BY <2>1, <2>2
<1> QED
    BY <1>1, BeginsAs DEF Begins

\* What a call begins with is what its checks have just read.
LEMMA CallOpened ==
    ASSUME Typed, NEW k \in Callers, Begins(k)
    PROVE  /\ call'[k].op = "updateSettings" =>
                 \E u \in Users, c \in Channels :
                     /\ call'[k].field \in Protected => role[c][u] = "OWNER"
                     /\ call'[k].actor = u /\ call'[k].channel = c /\ call'[k].base = view[u][c]
           /\ call'[k].op \in {"addMember", "setCredential"} =>
                 \E u \in Users, c \in Channels :
                     /\ role[c][u] = "OWNER"
                     /\ call'[k].actor = u /\ call'[k].channel = c
<1>1. CASE UpdateSettings(k)
    <2>1. PICK u \in Users, c \in Channels, f \in Fields :
              /\ f \in Protected => role[c][u] = "OWNER"
              /\ Begin(k, [Idle EXCEPT !.op = "updateSettings", !.step = "write", !.actor = u,
                                       !.channel = c, !.field = f, !.base = view[u][c]])
        BY <1>1 DEF UpdateSettings
    <2> QED
        BY <2>1 DEF Begin, Idle, Typed, TypeOK, CallTypes
<1>2. CASE AddMember(k)
    <2>1. PICK u, member \in Users, c \in Channels, r \in Roles :
              /\ Authorized(u, c, "OWNER")
              /\ Begin(k, [Idle EXCEPT !.op = "addMember", !.step = "write", !.actor = u,
                                       !.channel = c, !.whom = member, !.role = r])
        BY <1>2 DEF AddMember
    <2>2. role[c][u] = "OWNER"
        BY <2>1, OwnersAlone
    <2> QED
        BY <2>1, <2>2 DEF Begin, Idle, Typed, TypeOK, CallTypes
<1>3. CASE SetCredential(k)
    <2>1. PICK u \in Users, c \in Channels :
              /\ Authorized(u, c, "OWNER")
              /\ Begin(k, [Idle EXCEPT !.op = "setCredential", !.step = "write", !.actor = u,
                                       !.channel = c])
        BY <1>3 DEF SetCredential
    <2>2. role[c][u] = "OWNER"
        BY <2>1, OwnersAlone
    <2> QED
        BY <2>1, <2>2 DEF Begin, Idle, Typed, TypeOK, CallTypes
<1> QED
    BY <1>1, <1>2, <1>3, BeginsAs DEF Begins
-----------------------------------------------------------------------------
\* The settings of a channel change with their version, which only goes up.
SettingsGrow ==
    \A c \in Channels :
        settings'[c] = settings[c] \/ settings'[c].version > settings[c].version

\* Only the creation of a channel and an accepted update write its settings.
LEMMA SettingsWriters ==
    ASSUME Typed, [Next]_vars, ~UNCHANGED settings
    PROVE  \E k \in Callers, c \in Channels :
               /\ c = call[k].channel
               /\ \/ /\ InsertChannel(k)
                     /\ channels[c].creator = Nobody
                     /\ settings' = [settings EXCEPT ![c].version = 1]
                  \/ /\ WriteSettings(k)
                     /\ settings[c].version = call[k].base.version
                     /\ settings' = [settings EXCEPT ![c] = Replaced(k, settings[c].version + 1)]
<1>1. PICK k \in Callers : OfCall(k)
    BY DEF Next, OfCall, DisableUser, Get, Act, Audited, rows, vars
<1>2. CASE InsertChannel(k)
    <2>1. PICK c \in Channels : c = call[k].channel
        BY <1>2 DEF InsertChannel, At, Typed, CallsAreWhole, Whole
    <2> QED
        BY <1>2, <2>1 DEF InsertChannel
<1>3. CASE WriteSettings(k)
    <2>1. PICK c \in Channels : c = call[k].channel
        BY <1>3 DEF WriteSettings, At, Typed, CallsAreWhole, Whole, OnChannel
    <2> QED
        BY <1>3, <2>1 DEF WriteSettings
<1>4. CASE Access(k)
    BY <1>4 DEF Access, Bootstrap, CreateUser, CountUsers, InsertUser, RecordBootstrap, Record, rows
<1>5. CASE Settings(k)
    BY <1>3, <1>5 DEF Settings, UpdateSettings, Reload, rows
<1>6. CASE Members(k)
    BY <1>6 DEF Members, AddMember, UpsertMember, RecordMember, Record, rows
<1>7. CASE Channel(k)
    BY <1>2, <1>7 DEF Channel, Create, RecordChannel, Update, WriteMetadata, SetCredential,
                      UpsertCredential, RecordCredential, Record, rows
<1>8. CASE Abandon(k)
    BY <1>8 DEF Abandon, rows
<1> QED
    BY <1>1, <1>4, <1>5, <1>6, <1>7, <1>8 DEF OfCall

\* What is written has a higher version than what it replaces.
LEMMA SettingsAreVersioned ==
    ASSUME Typed, [Next]_vars
    PROVE  SettingsGrow
<1>1. CASE UNCHANGED settings
    BY <1>1 DEF SettingsGrow
<1>2. CASE ~UNCHANGED settings
    <2>1. PICK k \in Callers, c \in Channels :
              \/ /\ channels[c].creator = Nobody
                 /\ settings' = [settings EXCEPT ![c].version = 1]
              \/ /\ c = call[k].channel
                 /\ settings' = [settings EXCEPT ![c] = Replaced(k, settings[c].version + 1)]
        BY <1>2, SettingsWriters
    <2>2. settings[c] \in Snapshots /\ settings \in [Channels -> Snapshots]
        BY DEF Typed, TypeOK, RowTypes
    <2>3. channels[c].creator = Nobody => settings[c].version = 0
        BY DEF Typed, UnbornIsEmpty, Unseen
    <2>4. c = call[k].channel =>
              Replaced(k, settings[c].version + 1).version = settings[c].version + 1
        BY <2>2 DEF Replaced, Snapshots
    <2>5. settings[c].version \in Nat
        BY <2>2 DEF Snapshots
    <2> QED
        BY <2>1, <2>2, <2>3, <2>4, <2>5 DEF SettingsGrow, Snapshots
<1> QED
    BY <1>1, <1>2

\* What was seen, or is about to be written from, keeps its version's state.
LEMMA VersionsStep ==
    ASSUME Typed, Typed', VersionsNameStates, [Next]_vars
    PROVE  VersionsNameStates'
<1>1. SettingsGrow
    BY SettingsAreVersioned
<1>2. /\ \A c \in Channels : settings[c].version \in Nat /\ settings'[c].version \in Nat
      /\ \A u \in Users, c \in Channels : view[u][c].version \in Nat
      /\ \A k \in Callers : call[k].base.version \in Nat
    BY UnseenIsSnapshot DEF Typed, TypeOK, RowTypes, CallTypes, Snapshots, Calls, Idle
<1>3. ASSUME UNCHANGED view
      PROVE  \A u \in Users, c \in Channels : SeenIsPast(view[u][c], c)'
    BY <1>1, <1>2, <1>3 DEF VersionsNameStates, SeenIsPast, SettingsGrow
<1>4. ASSUME NEW k \in Callers, Kept(k), call'[k].op = "updateSettings"
      PROVE  SeenIsPast(call[k].base, call[k].channel)'
    <2>1. call[k].op = "updateSettings" /\ call[k].channel \in Channels
          /\ UNCHANGED <<call[k].base, call[k].channel>>
        BY <1>4 DEF Kept, Typed, CallsAreWhole, Whole, OnChannel
    <2> QED
        BY <1>1, <1>2, <2>1 DEF VersionsNameStates, SeenIsPast, SettingsGrow
<1>5. ASSUME \A u \in Users, c \in Channels : SeenIsPast(view[u][c], c)',
             \A k \in Callers :
                 call'[k].op = "updateSettings" => SeenIsPast(call[k].base, call[k].channel)'
      PROVE  VersionsNameStates'
    BY <1>5 DEF VersionsNameStates
<1>6. ASSUME NEW k \in Callers, OfCall(k), ~Begins(k)
      PROVE  VersionsNameStates'
    <2>1. \A j \in Callers : Kept(j)
        BY <1>6, OfCallMoves, MoveKeeps
    <2>2. CASE Reload(k)
        <3>1. PICK u \in Users, c \in Channels : u = call[k].actor /\ c = call[k].channel
            BY <2>2 DEF Reload, At, Typed, CallsAreWhole, Whole, OnChannel
        <3>2. view' = [view EXCEPT ![u][c] = settings[c]] /\ UNCHANGED settings
            BY <2>2, <3>1 DEF Reload, rows
        <3>3. view \in [Users -> [Channels -> Snapshots]]
            BY DEF Typed, TypeOK, CallTypes
        <3>4. \A v \in Users, d \in Channels : SeenIsPast(view[v][d], d)'
            BY <1>2, <3>1, <3>2, <3>3 DEF VersionsNameStates, SeenIsPast
        <3> QED
            BY <1>4, <1>5, <2>1, <3>4
    <2>3. CASE ~Reload(k)
        <3>1. UNCHANGED view
            <4>1. CASE Access(k)
                BY <1>6, <4>1 DEF Access, Begins, CountUsers, InsertUser, RecordBootstrap, Record
            <4>2. CASE Settings(k)
                BY <1>6, <2>3, <4>2 DEF Settings, Begins, WriteSettings
            <4>3. CASE Members(k)
                BY <1>6, <4>3 DEF Members, Begins, UpsertMember, RecordMember, Record
            <4>4. CASE Channel(k)
                BY <1>6, <4>4 DEF Channel, Begins, InsertChannel, RecordChannel, WriteMetadata,
                                  UpsertCredential, RecordCredential, Record
            <4>5. CASE Abandon(k)
                BY <4>5 DEF Abandon
            <4> QED
                BY <1>6, <4>1, <4>2, <4>3, <4>4, <4>5 DEF OfCall
        <3> QED
            BY <1>3, <1>4, <1>5, <2>1, <3>1
    <2> QED
        BY <2>2, <2>3
<1>7. ASSUME NEW k \in Callers, Begins(k)
      PROVE  VersionsNameStates'
    <2>1. /\ \A j \in Callers : j # k => call'[j] = call[j]
          /\ UNCHANGED <<settings, view>>
        BY <1>7, BeginLeaves
    <2>2. \A j \in Callers : j # k => Kept(j)
        BY <2>1 DEF Kept
    <2>3. ASSUME call'[k].op = "updateSettings"
          PROVE  SeenIsPast(call[k].base, call[k].channel)'
        <3>1. PICK u \in Users, c \in Channels :
                  call'[k].channel = c /\ call'[k].base = view[u][c]
            BY <1>7, <2>3, CallOpened
        <3> QED
            BY <2>1, <3>1 DEF VersionsNameStates, SeenIsPast
    <2> QED
        BY <1>3, <1>4, <1>5, <2>1, <2>2, <2>3
<1>8. ASSUME NEW u \in Users, NEW c \in Channels, Get(u, c)
      PROVE  VersionsNameStates'
    <2>1. view' = [view EXCEPT ![u][c] = settings[c]] /\ UNCHANGED <<settings, call>>
        BY <1>8 DEF Get, rows
    <2>2. view \in [Users -> [Channels -> Snapshots]]
        BY DEF Typed, TypeOK, CallTypes
    <2>3. \A v \in Users, d \in Channels : SeenIsPast(view[v][d], d)'
        BY <1>2, <2>1, <2>2 DEF VersionsNameStates, SeenIsPast
    <2>4. \A j \in Callers : Kept(j)
        BY <2>1 DEF Kept
    <2> QED
        BY <1>4, <1>5, <2>3, <2>4
<1>9. ASSUME \/ \E u \in Users : DisableUser(u)
             \/ \E p \in Posts, d \in Decisions, c \in Channels \cup {Nobody} : Act(p, d, c)
             \/ UNCHANGED vars
      PROVE  VersionsNameStates'
    <2>1. UNCHANGED <<call, view>>
        BY <1>9 DEF DisableUser, Act, Audited, vars
    <2>2. \A j \in Callers : Kept(j)
        BY <2>1 DEF Kept
    <2> QED
        BY <1>3, <1>4, <1>5, <2>1, <2>2
<1> QED
    BY <1>6, <1>7, <1>8, <1>9 DEF Next, OfCall
-----------------------------------------------------------------------------
\* Two states of a channel's settings never share a version, so an expected
\* version stands for the very state a client has seen.
THEOREM SettingsVersionsNameStates == Spec => []VersionsNameStates
<1>1. Init => VersionsNameStates
    BY DEF Init, VersionsNameStates, SeenIsPast, Unseen, Idle
<1>2. Typed /\ Typed' /\ VersionsNameStates /\ [Next]_vars => VersionsNameStates'
    BY VersionsStep
<1> QED
    BY <1>1, <1>2, TypedInvariance, PTL DEF Spec

\* An update that is accepted adds to the list of the state it was made from.
LEMMA EditsStep ==
    ASSUME Typed, VersionsNameStates, [Next]_vars
    PROVE  \A c \in Channels, f \in Fields : settings[c].list[f] \subseteq settings'[c].list[f]
<1>1. CASE UNCHANGED settings
    BY <1>1
<1>2. CASE ~UNCHANGED settings
    <2>1. PICK k \in Callers, c \in Channels :
              \/ settings' = [settings EXCEPT ![c].version = 1]
              \/ /\ c = call[k].channel
                 /\ WriteSettings(k)
                 /\ settings[c].version = call[k].base.version
                 /\ settings' = [settings EXCEPT ![c] = Replaced(k, settings[c].version + 1)]
        BY <1>2, SettingsWriters
    <2>2. settings \in [Channels -> Snapshots]
        BY DEF Typed, TypeOK, RowTypes
    <2>3. CASE settings' = [settings EXCEPT ![c].version = 1]
        BY <2>2, <2>3 DEF Snapshots
    <2>4. CASE /\ c = call[k].channel
               /\ WriteSettings(k)
               /\ settings[c].version = call[k].base.version
               /\ settings' = [settings EXCEPT ![c] = Replaced(k, settings[c].version + 1)]
        <3>1. call[k].base = settings[c]
            BY <2>4 DEF WriteSettings, At, VersionsNameStates, SeenIsPast
        <3> DEFINE new == Replaced(k, settings[c].version + 1)
        <3>2. settings[c].list \in [Fields -> SUBSET (1 .. MaxCalls)] /\ settings[c] \in Snapshots
            BY <2>2 DEF Snapshots
        <3>3. new.list = [settings[c].list EXCEPT
                              ![call[k].field] = settings[c].list[call[k].field] \cup {call[k].number}]
            BY <2>4, <3>1, <3>2 DEF Replaced, Snapshots
        <3>4. \A f \in Fields : settings[c].list[f] \subseteq new.list[f]
            BY <3>2, <3>3
        <3> QED
            BY <2>2, <2>4, <3>4
    <2> QED
        BY <2>1, <2>3, <2>4
<1> QED
    BY <1>1, <1>2

\* No accepted edit of a list is lost, whatever updates race.
THEOREM NoEditIsLost == Spec => EditsAccumulate
<1>1. Typed /\ VersionsNameStates /\ [Next]_vars =>
          [\A c \in Channels, f \in Fields : settings[c].list[f] \subseteq settings'[c].list[f]]_vars
    BY EditsStep
<1> QED
    BY <1>1, TypedInvariance, SettingsVersionsNameStates, PTL DEF Spec, EditsAccumulate
-----------------------------------------------------------------------------
\* A step keeps every call, or begins one with the next number; numbers only grow.
LEMMA StepKeeps ==
    ASSUME Typed, Typed', [Next]_vars
    PROVE  /\ calls <= calls'
           /\ \A j \in Callers : Kept(j) \/ (Begins(j) /\ call'[j].number = calls')
<1>1. calls \in Nat
    BY AdministrationAssumption DEF Typed, TypeOK, CallTypes
<1>2. ASSUME NEW k \in Callers, OfCall(k), ~Begins(k)
      PROVE  UNCHANGED calls /\ \A j \in Callers : Kept(j)
    <2>1. \A j \in Callers : Kept(j)
        BY <1>2, OfCallMoves, MoveKeeps
    <2>2. UNCHANGED calls
        <3>1. CASE Access(k)
            BY <1>2, <3>1 DEF Access, Begins, CountUsers, InsertUser, RecordBootstrap, Record
        <3>2. CASE Settings(k)
            BY <1>2, <3>2 DEF Settings, Begins, WriteSettings, Reload
        <3>3. CASE Members(k)
            BY <1>2, <3>3 DEF Members, Begins, UpsertMember, RecordMember, Record
        <3>4. CASE Channel(k)
            BY <1>2, <3>4 DEF Channel, Begins, InsertChannel, RecordChannel, WriteMetadata,
                              UpsertCredential, RecordCredential, Record
        <3>5. CASE Abandon(k)
            BY <3>5 DEF Abandon
        <3> QED
            BY <1>2, <3>1, <3>2, <3>3, <3>4, <3>5 DEF OfCall
    <2> QED
        BY <2>1, <2>2
<1>3. ASSUME NEW k \in Callers, Begins(k)
      PROVE  /\ calls' = calls + 1
             /\ \A j \in Callers : Kept(j) \/ (Begins(j) /\ call'[j].number = calls')
    <2>1. /\ \A j \in Callers : j # k => call'[j] = call[j]
          /\ call[k] = Idle
        BY <1>3, BeginLeaves
    <2>2. PICK request : Begin(k, request)
        BY <1>3
        DEF Begins, Bootstrap, CreateUser, Create, Update, UpdateSettings, AddMember, SetCredential
    <2>3. calls' = calls + 1 /\ call'[k] = [request EXCEPT !.number = calls + 1]
        BY <2>2 DEF Begin, Count, Typed, TypeOK, CallTypes
    <2>4. call'[k].number = calls + 1
        <3>1. call'[k].op # "none"
            BY <1>3, BeginsAs DEF Begins
        <3>2. call'[k] \in Calls
            BY <3>1 DEF Typed, TypeOK, CallTypes, Idle
        <3> QED
            BY <2>3, <3>2 DEF Calls
    <2> QED
        BY <1>3, <2>1, <2>3, <2>4 DEF Kept
<1>4. ASSUME \/ \E u \in Users : DisableUser(u) \/ \E c \in Channels : Get(u, c)
             \/ \E p \in Posts, d \in Decisions, c \in Channels \cup {Nobody} : Act(p, d, c)
             \/ UNCHANGED vars
      PROVE  calls' \in {calls, calls + 1} /\ \A j \in Callers : Kept(j)
    <2>1. calls' \in {calls, calls + 1} /\ UNCHANGED call
        BY <1>4 DEF DisableUser, Get, Act, Audited, Count, rows, history, vars
    <2> QED
        BY <2>1 DEF Kept
<1> QED
    BY <1>1, <1>2, <1>3, <1>4 DEF Next, OfCall

\* A call that was let through as an owner's.
Governs(request) ==
    \/ request.op \in {"addMember", "setCredential"}
    \/ request.op = "updateSettings" /\ request.field \in Protected

\* No call has a number that is still to come.
NumbersPast == \A k \in Callers : call[k].number <= calls

\* Whose call was let through as an owner's has owned the channel since it arrived.
OwnersGovern ==
    \A k \in Callers : Governs(call[k]) =>
        OwnedSince(call[k].actor, call[k].channel, call[k].number)

\* Numbers stay in the past.
LEMMA NumbersStep ==
    ASSUME Typed, Typed', NumbersPast, [Next]_vars
    PROVE  NumbersPast'
<1>1. calls \in Nat /\ calls' \in Nat /\ \A k \in Callers : call[k].number \in Nat
    BY AdministrationAssumption DEF Typed, TypeOK, CallTypes, Calls, Idle
<1>2. \A k \in Callers : call'[k].op = "none" => call'[k].number = 0
    BY DEF Typed, TypeOK, CallTypes, Calls, Operations, Idle
<1> QED
    BY <1>1, <1>2, StepKeeps DEF NumbersPast, Kept

\* Only the creation of a channel and addMember write its members.
LEMMA RoleWriters ==
    ASSUME Typed, [Next]_vars, ~UNCHANGED <<role, lost>>
    PROVE  \E k \in Callers : InsertChannel(k) \/ UpsertMember(k)
<1>1. PICK k \in Callers : OfCall(k) /\ ~Begins(k)
    <2>1. ASSUME NEW k \in Callers, Begins(k) PROVE UNCHANGED <<role, lost>>
        BY <2>1, BeginLeaves
        DEF Begins, Bootstrap, CreateUser, Create, Update, UpdateSettings, AddMember, SetCredential,
            history
    <2> QED
        BY <2>1 DEF Next, OfCall, DisableUser, Get, Act, Audited, rows, history, vars
<1>2. CASE Access(k)
    BY <1>1, <1>2 DEF Access, Begins, CountUsers, InsertUser, RecordBootstrap, Record, rows, history
<1>3. CASE Settings(k)
    BY <1>1, <1>3 DEF Settings, Begins, WriteSettings, Reload, rows, history
<1>4. CASE Members(k)
    BY <1>1, <1>4 DEF Members, Begins, RecordMember, Record, rows, history
<1>5. CASE Channel(k)
    BY <1>1, <1>5 DEF Channel, Begins, RecordChannel, WriteMetadata, UpsertCredential,
                      RecordCredential, Record, rows, history
<1>6. CASE Abandon(k)
    BY <1>6 DEF Abandon, rows, history
<1> QED
    BY <1>1, <1>2, <1>3, <1>4, <1>5, <1>6 DEF OfCall

\* An ownership is taken away no earlier than now, so it was there for every call made.
LEMMA OwnershipLasts ==
    ASSUME Typed, [Next]_vars, NEW u \in Users, NEW c \in Channels, NEW n \in Nat, n <= calls,
           OwnedSince(u, c, n)
    PROVE  OwnedSince(u, c, n)'
<1>1. /\ role \in [Channels -> [Users -> Roles \cup {Nobody}]]
      /\ lost \in [Channels -> [Users -> 0 .. MaxCalls]]
      /\ calls \in Nat
    BY AdministrationAssumption DEF Typed, TypeOK, RowTypes, LogTypes, CallTypes
<1>2. ASSUME NEW k \in Callers, InsertChannel(k)
      PROVE  OwnedSince(u, c, n)'
    <2>1. PICK v \in Users, d \in Channels : v = call[k].actor /\ d = call[k].channel
        BY <1>2 DEF InsertChannel, At, Typed, CallsAreWhole, Whole
    <2>2. /\ role' = role \/ role' = [role EXCEPT ![d][v] = "OWNER"]
          /\ UNCHANGED lost
        BY <1>2, <2>1 DEF InsertChannel, history
    <2> QED
        BY <1>1, <2>2 DEF OwnedSince
<1>3. ASSUME NEW k \in Callers, UpsertMember(k)
      PROVE  OwnedSince(u, c, n)'
    <2>1. PICK v \in Users, d \in Channels, r \in Roles :
              v = call[k].whom /\ d = call[k].channel /\ r = call[k].role
        BY <1>3 DEF UpsertMember, At, Typed, CallsAreWhole, Whole, OnChannel
    <2>2. \/ UNCHANGED <<role, lost>>
          \/ /\ role' = [role EXCEPT ![d][v] = r]
             /\ lost' = IF role[d][v] = "OWNER" /\ r # "OWNER"
                        THEN [lost EXCEPT ![d][v] = calls] ELSE lost
        BY <1>3, <2>1 DEF UpsertMember
    <2>3. CASE c = d /\ u = v
        BY <1>1, <2>2, <2>3 DEF OwnedSince
    <2>4. CASE ~(c = d /\ u = v)
        <3>1. role'[c][u] = role[c][u] /\ lost'[c][u] = lost[c][u]
            BY <1>1, <2>2, <2>4
        <3> QED
            BY <3>1 DEF OwnedSince
    <2> QED
        BY <2>3, <2>4
<1>4. CASE UNCHANGED <<role, lost>>
    BY <1>4 DEF OwnedSince
<1> QED
    BY <1>2, <1>3, <1>4, RoleWriters

\* Every step keeps the calls of owners those of owners.
LEMMA OwnersStep ==
    ASSUME Typed, Typed', NumbersPast, OwnersGovern, [Next]_vars
    PROVE  OwnersGovern'
<1> SUFFICES ASSUME NEW k \in Callers, Governs(call[k])'
             PROVE  OwnedSince(call[k].actor, call[k].channel, call[k].number)'
    BY DEF OwnersGovern
<1>1. CASE Kept(k)
    <2>1. /\ Governs(call[k])
          /\ UNCHANGED <<call[k].actor, call[k].channel, call[k].number>>
        BY <1>1 DEF Governs, Kept
    <2>2. PICK u \in Users, c \in Channels, n \in Nat :
              u = call[k].actor /\ c = call[k].channel /\ n = call[k].number
        BY <2>1 DEF Governs, OnChannel, Typed, TypeOK, CallTypes, Calls, Idle, CallsAreWhole, Whole
    <2>3. OwnedSince(u, c, n)'
        BY <2>1, <2>2, OwnershipLasts DEF OwnersGovern, NumbersPast
    <2> QED
        BY <2>1, <2>2, <2>3
<1>2. CASE Begins(k)
    <2>1. PICK u \in Users, c \in Channels :
              role[c][u] = "OWNER" /\ call'[k].actor = u /\ call'[k].channel = c
        BY <1>2, CallOpened DEF Governs
    <2>2. role' = role
        BY <1>2, BeginLeaves
    <2> QED
        BY <2>1, <2>2 DEF OwnedSince
<1> QED
    BY <1>1, <1>2, StepKeeps

\* It holds throughout.
LEMMA OwnersInvariance == Spec => [](NumbersPast /\ OwnersGovern)
<1>1. Init => NumbersPast /\ OwnersGovern
    BY DEF Init, NumbersPast, OwnersGovern, Governs, Idle
<1>2. Typed /\ Typed' /\ NumbersPast /\ OwnersGovern /\ [Next]_vars
          => NumbersPast' /\ OwnersGovern'
    BY NumbersStep, OwnersStep
<1> QED
    BY <1>1, <1>2, TypedInvariance, PTL DEF Spec

\* A call that has written is no longer what it was.
LEMMA WritingMovesOn ==
    ASSUME Typed, NEW k \in Callers, call[k].op # "none", call[k].step = "write",
           End(k) \/ Goto(k, "audit") \/ Goto(k, "reload")
    PROVE  call'[k] # call[k]
<1>1. CASE End(k)
    BY <1>1, EndTyped DEF Idle, Typed
<1>2. ASSUME NEW step \in {"audit", "reload"}, Goto(k, step)
      PROVE  call'[k] # call[k]
    <2>1. call[k] \in Calls
        BY DEF Typed, TypeOK, CallTypes, Idle
    <2>2. call'[k] = [call[k] EXCEPT !.step = step]
        BY <1>2, GotoTyped DEF Typed, Steps
    <2>3. call'[k].step = step
        BY <2>1, <2>2 DEF Calls
    <2> QED
        BY <2>3
<1> QED
    BY <1>1, <1>2

\* What only an owner may change is changed by a call that was let through as an owner's.
LEMMA GovernedWriters ==
    ASSUME Typed, [Next]_vars, NEW c \in Channels, channels[c].creator # Nobody,
           Governed(c)' # Governed(c)
    PROVE  \E k \in Callers : call'[k] # call[k] /\ call[k].channel = c /\ Governs(call[k])
<1>1. ~UNCHANGED <<role, channels, settings>>
    BY DEF Governed
<1>2. PICK k \in Callers : OfCall(k) /\ ~Begins(k)
    BY <1>1, BeginLeaves DEF Next, OfCall, DisableUser, Get, Act, Audited, rows, vars
<1>3. /\ role \in [Channels -> [Users -> Roles \cup {Nobody}]]
      /\ settings \in [Channels -> Snapshots]
      /\ channels \in [Channels -> [creator : Users \cup {Nobody}, metadata : 0 .. MaxCalls,
                                    credential : Users \cup {Nobody}]]
    BY DEF Typed, TypeOK, RowTypes
<1>4. CASE InsertChannel(k)
    <2>1. PICK u \in Users, d \in Channels : u = call[k].actor /\ d = call[k].channel
        BY <1>4 DEF InsertChannel, At, Typed, CallsAreWhole, Whole
    <2>2. /\ d # c
          /\ channels' = [channels EXCEPT ![d].creator = u]
          /\ role' = [role EXCEPT ![d][u] = "OWNER"]
          /\ settings' = [settings EXCEPT ![d].version = 1]
        BY <1>1, <1>4, <2>1 DEF InsertChannel
    <2> QED
        BY <1>3, <2>2 DEF Governed
<1>5. CASE UpsertMember(k)
    <2>1. call[k].channel = c
        <3>1. PICK u \in Users, d \in Channels, m \in Roles :
                  u = call[k].whom /\ d = call[k].channel /\ m = call[k].role
            BY <1>5 DEF UpsertMember, At, Typed, CallsAreWhole, Whole, OnChannel
        <3>2. role' = role \/ role' = [role EXCEPT ![d][u] = m]
            BY <1>5, <3>1 DEF UpsertMember
        <3> QED
            BY <1>3, <1>5, <3>1, <3>2 DEF UpsertMember, Governed
    <2>2. call'[k] # call[k]
        BY <1>5, WritingMovesOn DEF UpsertMember, At
    <2> QED
        BY <1>5, <2>1, <2>2 DEF UpsertMember, At, Governs
<1>6. CASE UpsertCredential(k)
    <2>1. PICK u \in Users, d \in Channels : u = call[k].actor /\ d = call[k].channel
        BY <1>6 DEF UpsertCredential, At, Typed, CallsAreWhole, Whole, OnChannel
    <2>2. d = c
        BY <1>3, <1>6, <2>1 DEF UpsertCredential, Governed
    <2>3. call'[k] # call[k]
        BY <1>6, WritingMovesOn DEF UpsertCredential, At
    <2> QED
        BY <1>6, <2>1, <2>2, <2>3 DEF UpsertCredential, At, Governs
<1>7. CASE WriteSettings(k)
    <2>1. PICK d \in Channels : d = call[k].channel
        BY <1>7 DEF WriteSettings, At, Typed, CallsAreWhole, Whole, OnChannel
    <2>2. settings' = [settings EXCEPT ![d] = Replaced(k, settings[d].version + 1)]
        BY <1>1, <1>7, <2>1 DEF WriteSettings
    <2>3. d = c
        BY <1>3, <1>7, <2>2 DEF WriteSettings, Governed
    <2>4. call[k].field \in Protected
        <3>1. ASSUME call[k].field \notin Protected
              PROVE  \A f \in Protected : settings'[c].list[f] = settings[c].list[f]
            <4>1. settings[c] \in Snapshots /\ settings'[c] = Replaced(k, settings[c].version + 1)
                BY <1>3, <2>2, <2>3
            <4>2. settings'[c].list = [settings[c].list EXCEPT
                      ![call[k].field] = call[k].base.list[call[k].field] \cup {call[k].number}]
                BY <2>1, <2>3, <4>1 DEF Replaced, Snapshots
            <4>3. settings[c].list \in [Fields -> SUBSET (1 .. MaxCalls)]
                BY <4>1 DEF Snapshots
            <4> QED
                BY <3>1, <4>2, <4>3 DEF Fields, Protected
        <3> QED
            BY <1>7, <3>1 DEF WriteSettings, Governed
    <2>5. call'[k] # call[k]
        BY <1>7, WritingMovesOn DEF WriteSettings, At
    <2> QED
        BY <1>7, <2>1, <2>3, <2>4, <2>5 DEF WriteSettings, At, Governs
<1>8. CASE WriteMetadata(k)
    <2>1. PICK d \in Channels : d = call[k].channel
        BY <1>8 DEF WriteMetadata, At, Typed, CallsAreWhole, Whole, OnChannel
    <2> QED
        BY <1>3, <1>8, <2>1 DEF WriteMetadata, Governed
<1>9. CASE Access(k)
    BY <1>1, <1>2, <1>9 DEF Access, Begins, CountUsers, InsertUser, RecordBootstrap, Record, rows
<1>10. CASE Settings(k)
    BY <1>1, <1>2, <1>7, <1>10 DEF Settings, Begins, Reload, rows
<1>11. CASE Members(k)
    BY <1>1, <1>2, <1>5, <1>11 DEF Members, Begins, RecordMember, Record, rows
<1>12. CASE Channel(k)
    BY <1>1, <1>2, <1>4, <1>6, <1>8, <1>12
    DEF Channel, Begins, RecordChannel, RecordCredential, Record, rows
<1>13. CASE Abandon(k)
    BY <1>1, <1>13 DEF Abandon, rows
<1> QED
    BY <1>2, <1>9, <1>10, <1>11, <1>12, <1>13 DEF OfCall

\* The members, the credential and the protected settings of a channel are changed only
\* by calls of users who have owned it since they called.
THEOREM OnlyOwnersGovern == Spec => NobodyGovernsUnowned
<1>1. Typed /\ OwnersGovern /\ [Next]_vars =>
          [\A c \in Channels : channels[c].creator # Nobody /\ Governed(c)' # Governed(c) =>
              \E k \in Callers :
                  /\ call'[k] # call[k] /\ call[k].channel = c
                  /\ OwnedSince(call[k].actor, c, call[k].number)]_vars
    BY GovernedWriters DEF OwnersGovern
<1> QED
    BY <1>1, TypedInvariance, OwnersInvariance, PTL DEF Spec, NobodyGovernsUnowned
-----------------------------------------------------------------------------
\* Since the call arrived there was a moment when its actor owned a channel, or was the
\* only user.
HasTheRight(k) ==
    \/ \E c \in Channels : OwnedSince(call[k].actor, c, call[k].number)
    \/ crowded = 0 \/ crowded >= call[k].number

\* Bootstrapped users are there, a second user is there once it was counted as such, and
\* a createUser under way is made by a user who passes the checks it has passed.
CreatorsKnown ==
    /\ \A u \in bootstrapped : Exists(u)
    /\ crowded # 0 => \E u, v \in Users : u # v /\ Exists(u) /\ Exists(v)
    /\ \A k \in Callers : call[k].op = "createUser" =>
          /\ Exists(call[k].actor)
          /\ call[k].owner => \E c \in Channels : OwnedSince(call[k].actor, c, call[k].number)
          /\ call[k].step # "count" => HasTheRight(k)

\* A step of a call that goes on and creates nobody leaves the users alone.
LEMMA UserWriters ==
    ASSUME Typed, NEW k \in Callers, OfCall(k), ~Begins(k), ~InsertUser(k)
    PROVE  UNCHANGED <<users, bootstrapped, raced, crowded>>
<1>1. CASE Access(k)
    BY <1>1 DEF Access, Begins, CountUsers, RecordBootstrap, Record, rows, history
<1>2. CASE Settings(k)
    BY <1>2 DEF Settings, Begins, WriteSettings, Reload, rows, history
<1>3. CASE Members(k)
    BY <1>3 DEF Members, Begins, UpsertMember, RecordMember, Record, rows, history
<1>4. CASE Channel(k)
    BY <1>4 DEF Channel, Begins, InsertChannel, RecordChannel, WriteMetadata, UpsertCredential,
                RecordCredential, Record, rows, history
<1>5. CASE Abandon(k)
    BY <1>5 DEF Abandon, rows, history
<1> QED
    BY <1>1, <1>2, <1>3, <1>4, <1>5 DEF OfCall

\* A user is created by a call that is about to.
LEMMA UserInserted ==
    ASSUME Typed, NEW k \in Callers, InsertUser(k)
    PROVE  /\ call[k].op \in {"bootstrap", "createUser"} /\ call[k].step = "write"
           /\ Moves(k) /\ call'[k] # call[k]
           /\ \/ UNCHANGED <<users, bootstrapped, raced, crowded>>
              \/ \E u \in Users :
                    /\ ~Exists(u)
                    /\ users' = [users EXCEPT ![u] = "ACTIVE"]
                    /\ bootstrapped' = IF call[k].op = "bootstrap"
                                       THEN bootstrapped \cup {u} ELSE bootstrapped
                    /\ crowded' = IF Existing # {} /\ crowded = 0 THEN calls ELSE crowded
                    /\ UNCHANGED raced
<1>1. PICK u \in Users : u = call[k].whom
    BY DEF InsertUser, At, Typed, CallsAreWhole, Whole
<1>2. call[k].op \in {"bootstrap", "createUser"} /\ call[k].step = "write" /\ Moves(k)
    BY DEF InsertUser, At, Moves, Steps
<1>3. call'[k] # call[k]
    BY <1>2, WritingMovesOn DEF InsertUser
<1> QED
    BY <1>1, <1>2, <1>3 DEF InsertUser

\* Users stay, and are crowded once only, no earlier than now.
LEMMA UsersStay ==
    ASSUME Typed, [Next]_vars
    PROVE  /\ \A u \in Users : Exists(u) => Exists(u)'
           /\ crowded' = crowded \/ (crowded = 0 /\ crowded' = calls)
<1>1. users \in [Users -> {"none", "ACTIVE", "DISABLED"}]
    BY DEF Typed, TypeOK, RowTypes
<1>2. ASSUME NEW k \in Callers, OfCall(k), ~Begins(k), ~InsertUser(k)
      PROVE  UNCHANGED <<users, crowded>>
    BY <1>2, UserWriters
<1>3. ASSUME NEW k \in Callers, Begins(k)
      PROVE  UNCHANGED <<users, crowded>>
    BY <1>3, BeginLeaves
    DEF Begins, Bootstrap, CreateUser, Create, Update, UpdateSettings, AddMember, SetCredential,
        history
<1>4. ASSUME NEW k \in Callers, InsertUser(k)
      PROVE  /\ \A u \in Users : Exists(u) => Exists(u)'
             /\ crowded' = crowded \/ (crowded = 0 /\ crowded' = calls)
    BY <1>1, <1>4, UserInserted DEF Exists
<1>5. ASSUME \/ \E u \in Users : DisableUser(u) \/ \E c \in Channels : Get(u, c)
             \/ \E p \in Posts, d \in Decisions, c \in Channels \cup {Nobody} : Act(p, d, c)
             \/ UNCHANGED vars
      PROVE  UNCHANGED crowded /\ \A u \in Users : Exists(u) => Exists(u)'
    BY <1>1, <1>5 DEF DisableUser, Get, Act, Audited, rows, history, vars, Exists
<1>6. CASE UNCHANGED <<users, crowded>>
    BY <1>6 DEF Exists
<1> QED
    BY <1>2, <1>3, <1>4, <1>5, <1>6 DEF Next, OfCall

\* Of a call that goes on, what was known stays true.
LEMMA RightsStay ==
    ASSUME Typed, NumbersPast, CreatorsKnown, [Next]_vars, NEW k \in Callers, Kept(k),
           call'[k].op = "createUser"
    PROVE  /\ call[k].op = "createUser"
           /\ Exists(call[k].actor)'
           /\ call'[k].owner => \E c \in Channels : OwnedSince(call[k].actor, c, call[k].number)'
           /\ HasTheRight(k) => HasTheRight(k)'
<1>1. /\ call[k].op = "createUser" /\ call[k].actor \in Users
      /\ UNCHANGED <<call[k].actor, call[k].owner, call[k].number>>
    BY DEF Kept, Typed, CallsAreWhole, Whole
<1>2. PICK u \in Users, n \in Nat : u = call[k].actor /\ n = call[k].number /\ n <= calls
    BY <1>1 DEF Typed, TypeOK, CallTypes, Calls, Idle, NumbersPast
<1>3. \A c \in Channels : OwnedSince(u, c, n) => OwnedSince(u, c, n)'
    BY <1>2, OwnershipLasts
<1>4. crowded \in Nat /\ calls \in Nat
    BY AdministrationAssumption DEF Typed, TypeOK, CallTypes, LogTypes
<1>5. Exists(u)'
    BY <1>1, <1>2, UsersStay DEF CreatorsKnown
<1>6. call'[k].owner => \E c \in Channels : OwnedSince(u, c, n)'
    BY <1>1, <1>2, <1>3 DEF CreatorsKnown
<1>7. HasTheRight(k) => HasTheRight(k)'
    BY <1>1, <1>2, <1>3, <1>4, UsersStay DEF HasTheRight
<1>8. call'[k].actor = u /\ call'[k].number = n
    BY <1>1, <1>2
<1> QED
    BY <1>1, <1>2, <1>5, <1>6, <1>7, <1>8

\* A step of one call leaves the others as they are.
LEMMA MoveLeaves ==
    ASSUME Typed, NEW k \in Callers, Moves(k)
    PROVE  \A j \in Callers : j # k => call'[j] = call[j]
    BY EndTyped, GotoTyped DEF Moves, Typed

\* A createUser that has counted the users has the right to go on: as an owner's, or
\* because one user is no crowd.
LEMMA CountGivesTheRight ==
    ASSUME Typed, CreatorsKnown, NEW k \in Callers, CountUsers(k), call'[k].op = "createUser"
    PROVE  HasTheRight(k)
<1>1. call[k].op = "createUser"
    BY DEF CountUsers, At
<1>2. CASE call[k].owner
    BY <1>1, <1>2 DEF CreatorsKnown, HasTheRight
<1>3. CASE Cardinality(Existing) = 1
    <2>1. IsFiniteSet(Existing)
        BY FS_Subset, AdministrationAssumption DEF Existing
    <2>2. PICK x : Existing = {x}
        BY <1>3, <2>1, FS_Singleton
    <2>3. \A u, v \in Users : Exists(u) /\ Exists(v) => u = v
        BY <2>2 DEF Existing
    <2> QED
        BY <2>3 DEF CreatorsKnown, HasTheRight
<1>4. ~call[k].owner /\ Cardinality(Existing) # 1 => End(k)
    BY DEF CountUsers
<1>5. End(k) => call'[k] = Idle
    BY DEF End, Typed, TypeOK, CallTypes
<1> QED
    BY <1>2, <1>3, <1>4, <1>5 DEF Idle

\* A step of a call that is no createUser, or ends it, or counts the users.
LEMMA OnlyCountingMovesOn ==
    ASSUME Typed, NEW k \in Callers, OfCall(k), ~Begins(k), ~InsertUser(k), ~CountUsers(k)
    PROVE  call[k].op # "createUser" \/ call'[k].op = "none"
<1>1. CASE Access(k)
    BY <1>1 DEF Access, Begins, RecordBootstrap, Record, At
<1>2. CASE Settings(k)
    BY <1>2 DEF Settings, Begins, WriteSettings, Reload, At
<1>3. CASE Members(k)
    BY <1>3 DEF Members, Begins, UpsertMember, RecordMember, Record, At
<1>4. CASE Channel(k)
    BY <1>4 DEF Channel, Begins, InsertChannel, RecordChannel, WriteMetadata, UpsertCredential,
                RecordCredential, Record, At
<1>5. CASE Abandon(k)
    BY <1>5 DEF Abandon, End, Idle, Typed, TypeOK, CallTypes
<1> QED
    BY <1>1, <1>2, <1>3, <1>4, <1>5 DEF OfCall

\* A createUser is past counting only because it was, or because it has just counted.
LEMMA PastCounting ==
    ASSUME Typed, CreatorsKnown, [Next]_vars, NEW k \in Callers, Kept(k),
           call'[k].op = "createUser", call'[k].step # "count"
    PROVE  HasTheRight(k)
<1>1. call[k].op = "createUser"
    BY DEF Kept
<1>2. CASE call[k].step # "count"
    BY <1>1, <1>2 DEF CreatorsKnown
<1>3. CASE call[k].step = "count"
    <2>1. call'[k] # call[k]
        BY <1>3
    <2>2. ASSUME NEW j \in Callers, Begins(j) PROVE FALSE
        <3>1. call[j] = Idle /\ \A i \in Callers : i # j => call'[i] = call[i]
            BY <2>2, BeginLeaves
        <3> QED
            BY <1>1, <2>1, <3>1 DEF Idle
    <2>3. ASSUME NEW j \in Callers, OfCall(j), ~Begins(j) PROVE j = k
        BY <2>1, <2>3, OfCallMoves, MoveLeaves
    <2>4. OfCall(k) /\ ~Begins(k)
        BY <2>1, <2>2, <2>3 DEF Next, OfCall, DisableUser, Get, Act, Audited, vars
    <2>5. ~InsertUser(k)
        BY <1>3 DEF InsertUser, At
    <2>6. CountUsers(k)
        BY <1>1, <2>4, <2>5, OnlyCountingMovesOn
    <2> QED
        BY <2>6, CountGivesTheRight
<1> QED
    BY <1>2, <1>3

\* Every step keeps what is known of the users and of those who create them.
LEMMA CreatorsStep ==
    ASSUME Typed, Typed', NumbersPast, CreatorsKnown, [Next]_vars
    PROVE  CreatorsKnown'
<1>1. \A u \in Users : Exists(u) => Exists(u)'
    BY UsersStay
<1>2. ASSUME NEW k \in Callers, call'[k].op = "createUser"
      PROVE  /\ Exists(call[k].actor)'
             /\ call'[k].owner => \E c \in Channels : OwnedSince(call[k].actor, c, call[k].number)'
             /\ call'[k].step # "count" => HasTheRight(k)'
    <2>1. CASE Kept(k)
        BY <1>2, <2>1, RightsStay, PastCounting
    <2>2. CASE Begins(k)
        <3>1. /\ call'[k].actor \in Users /\ users[call'[k].actor] = "ACTIVE"
              /\ call'[k].owner => \E c \in Channels : role[c][call'[k].actor] = "OWNER"
              /\ call'[k].step = "count"
            BY <1>2, <2>2, UserCreationOpened
        <3>2. UNCHANGED <<role, users>>
            BY <2>2, BeginLeaves
        <3> QED
            BY <3>1, <3>2 DEF Exists, OwnedSince
    <2> QED
        BY <2>1, <2>2, StepKeeps
<1>3. /\ \A u \in bootstrapped' : Exists(u)'
      /\ crowded' # 0 => \E u, v \in Users : u # v /\ Exists(u)' /\ Exists(v)'
    <2>1. bootstrapped \subseteq Users /\ users \in [Users -> {"none", "ACTIVE", "DISABLED"}]
        BY DEF Typed, TypeOK, LogTypes, RowTypes
    <2>2. CASE UNCHANGED <<bootstrapped, crowded>>
        BY <1>1, <2>1, <2>2 DEF CreatorsKnown
    <2>3. ASSUME NEW k \in Callers, NEW u \in Users, ~Exists(u),
                 users' = [users EXCEPT ![u] = "ACTIVE"],
                 bootstrapped' \subseteq bootstrapped \cup {u},
                 crowded' = IF Existing # {} /\ crowded = 0 THEN calls ELSE crowded
          PROVE  /\ \A v \in bootstrapped' : Exists(v)'
                 /\ crowded' # 0 => \E v, w \in Users : v # w /\ Exists(v)' /\ Exists(w)'
        <3>1. Exists(u)'
            BY <2>1, <2>3 DEF Exists
        <3>2. ASSUME NEW v \in Existing PROVE v # u /\ Exists(v)' /\ v \in Users
            BY <1>1, <2>3, <3>2 DEF Existing
        <3>3. CASE Existing # {} /\ crowded = 0
            BY <1>1, <2>1, <2>3, <3>1, <3>2, <3>3 DEF CreatorsKnown
        <3>4. CASE ~(Existing # {} /\ crowded = 0)
            BY <1>1, <2>1, <2>3, <3>1, <3>4 DEF CreatorsKnown
        <3> QED
            BY <3>3, <3>4
    <2>4. ASSUME NEW k \in Callers, InsertUser(k)
          PROVE  \/ UNCHANGED <<bootstrapped, crowded>>
                 \/ \E u \in Users :
                       /\ ~Exists(u) /\ users' = [users EXCEPT ![u] = "ACTIVE"]
                       /\ bootstrapped' \subseteq bootstrapped \cup {u}
                       /\ crowded' = IF Existing # {} /\ crowded = 0 THEN calls ELSE crowded
        BY <2>4, UserInserted
    <2>5. ASSUME NEW k \in Callers, OfCall(k), ~Begins(k), ~InsertUser(k)
          PROVE  UNCHANGED <<bootstrapped, crowded>>
        BY <2>5, UserWriters
    <2>6. ASSUME NEW k \in Callers, Begins(k)
          PROVE  UNCHANGED <<bootstrapped, crowded>>
        BY <2>6
        DEF Begins, Bootstrap, CreateUser, Create, Update, UpdateSettings, AddMember, SetCredential,
            history
    <2>7. ASSUME \/ \E u \in Users : DisableUser(u) \/ \E c \in Channels : Get(u, c)
                 \/ \E p \in Posts, d \in Decisions, c \in Channels \cup {Nobody} : Act(p, d, c)
                 \/ UNCHANGED vars
          PROVE  UNCHANGED <<bootstrapped, crowded>>
        BY <2>7 DEF DisableUser, Get, Act, Audited, history, vars
    <2> QED
        BY <2>2, <2>3, <2>4, <2>5, <2>6, <2>7 DEF Next, OfCall
<1> QED
    BY <1>2, <1>3 DEF CreatorsKnown

\* It is known throughout.
LEMMA CreatorsInvariance == Spec => []CreatorsKnown
<1>1. Init => CreatorsKnown
    BY DEF Init, CreatorsKnown, Idle
<1>2. Typed /\ Typed' /\ NumbersPast /\ CreatorsKnown /\ [Next]_vars => CreatorsKnown'
    BY CreatorsStep
<1> QED
    BY <1>1, <1>2, TypedInvariance, OwnersInvariance, PTL DEF Spec

\* A step that creates a user is a call's that may.
LEMMA CreationStep ==
    ASSUME Typed, CreatorsKnown, [Next]_vars,
           NEW u \in Users, users[u] = "none", users'[u] # "none"
    PROVE  \E k \in Callers :
               /\ call'[k] # call[k]
               /\ \/ call[k].op = "bootstrap"
                  \/ /\ call[k].op = "createUser"
                     /\ \/ \E c \in Channels : OwnedSince(call[k].actor, c, call[k].number)
                        \/ crowded = 0 \/ crowded >= call[k].number
<1>1. PICK k \in Callers : InsertUser(k)
    <2>1. ASSUME NEW k \in Callers, OfCall(k), ~InsertUser(k) PROVE UNCHANGED users
        BY <2>1, UserWriters, BeginLeaves
    <2>2. users \in [Users -> {"none", "ACTIVE", "DISABLED"}]
        BY DEF Typed, TypeOK, RowTypes
    <2> QED
        BY <2>1, <2>2 DEF Next, OfCall, DisableUser, Get, Act, Audited, rows, vars
<1>2. call[k].op \in {"bootstrap", "createUser"} /\ call[k].step = "write" /\ call'[k] # call[k]
    BY <1>1, UserInserted
<1> QED
    BY <1>2 DEF CreatorsKnown, HasTheRight

\* Nobody creates users but bootstraps, the only user there is, and who has owned a
\* channel since the call arrived.
THEOREM InvitationsAreFounded == Spec => InvitersHadTheRight
<1>1. Typed /\ CreatorsKnown /\ [Next]_vars =>
          [\A u \in Users : users[u] = "none" /\ users'[u] # "none" =>
              \E k \in Callers :
                  /\ call'[k] # call[k]
                  /\ \/ call[k].op = "bootstrap"
                     \/ /\ call[k].op = "createUser"
                        /\ \/ \E c \in Channels : OwnedSince(call[k].actor, c, call[k].number)
                           \/ crowded = 0 \/ crowded >= call[k].number]_vars
    BY CreationStep
<1> QED
    BY <1>1, TypedInvariance, CreatorsInvariance, PTL DEF Spec, InvitersHadTheRight
-----------------------------------------------------------------------------
\* As long as no two bootstraps were under way at once, one that is about to
\* create its user is alone and there is no user yet.
BootstrapsAlone ==
    ~raced =>
        /\ \A k \in Callers : call[k].op = "bootstrap" /\ call[k].step = "write" => Existing = {}
        /\ \A j, k \in Callers : call[j].op = "bootstrap" /\ call[k].op = "bootstrap" => j = k
        /\ \A u, v \in bootstrapped : u = v

\* A bootstrap begins with no user there, and knows of the others under way.
LEMMA BootstrapOpened ==
    ASSUME Typed, NEW k \in Callers, Begins(k)
    PROVE  /\ raced => raced'
           /\ UNCHANGED bootstrapped
           /\ call'[k].op = "bootstrap" =>
                 /\ Existing = {}
                 /\ (\E j \in Callers : call[j].op = "bootstrap") => raced'
<1>1. CASE Bootstrap(k)
    BY <1>1 DEF Bootstrap
<1>2. CASE ~Bootstrap(k)
    <2>1. UNCHANGED <<raced, bootstrapped>>
        BY <1>2 DEF Begins, CreateUser, Create, Update, UpdateSettings, AddMember, SetCredential,
                    history
    <2> QED
        BY <1>2, <2>1, BeginsAs DEF Begins
<1> QED
    BY <1>1, <1>2

\* A bootstrap is about to create its user only right after it has begun.
LEMMA BootstrapMovesOn ==
    ASSUME Typed, NEW k \in Callers, OfCall(k), ~Begins(k)
    PROVE  ~(call'[k].op = "bootstrap" /\ call'[k].step = "write")
<1>1. /\ Kept(k)
      /\ End(k) => call'[k] = Idle
      /\ Goto(k, "audit") /\ call[k].op # "none" => call'[k].step = "audit"
    <2>1. Kept(k)
        BY OfCallMoves, MoveKeeps
    <2>2. ASSUME Goto(k, "audit"), call[k].op # "none" PROVE call'[k].step = "audit"
        <3>1. call[k] \in Calls
            BY <2>2 DEF Typed, TypeOK, CallTypes, Idle
        <3> QED
            BY <2>2, <3>1, GotoTyped DEF Typed, Calls, Steps
    <2> QED
        BY <2>1, <2>2, EndTyped DEF Typed
<1>2. CASE Access(k)
    <2>1. CASE CountUsers(k)
        BY <1>1, <2>1 DEF CountUsers, At, Kept
    <2>2. CASE InsertUser(k)
        BY <1>1, <2>2 DEF InsertUser, At, Idle
    <2>3. CASE RecordBootstrap(k)
        BY <1>1, <2>3 DEF RecordBootstrap, Record, Idle
    <2> QED
        BY <1>2, <2>1, <2>2, <2>3 DEF Access, Begins
<1>3. CASE Settings(k)
    BY <1>1, <1>3 DEF Settings, Begins, WriteSettings, Reload, At, Kept
<1>4. CASE Members(k)
    BY <1>1, <1>4 DEF Members, Begins, UpsertMember, RecordMember, Record, At, Kept
<1>5. CASE Channel(k)
    BY <1>1, <1>5 DEF Channel, Begins, InsertChannel, RecordChannel, WriteMetadata,
                      UpsertCredential, RecordCredential, Record, At, Kept
<1>6. CASE Abandon(k)
    BY <1>1, <1>6 DEF Abandon, Idle
<1> QED
    BY <1>2, <1>3, <1>4, <1>5, <1>6 DEF OfCall

\* Every step keeps bootstraps alone, or races.
LEMMA BootstrapsStep ==
    ASSUME Typed, CreatorsKnown, BootstrapsAlone, [Next]_vars
    PROVE  BootstrapsAlone'
<1>1. ASSUME NEW k \in Callers, OfCall(k), ~Begins(k)
      PROVE  BootstrapsAlone'
    <2>1. /\ \A j \in Callers : Kept(j)
          /\ \A j \in Callers : j # k => call'[j] = call[j]
        BY <1>1, OfCallMoves, MoveKeeps, MoveLeaves
    <2>2. ~(call'[k].op = "bootstrap" /\ call'[k].step = "write")
        BY <1>1, BootstrapMovesOn
    <2>3. ASSUME ~raced PROVE \A i, j \in Callers :
              call'[i].op = "bootstrap" /\ call'[j].op = "bootstrap" => i = j
        BY <2>1, <2>3 DEF BootstrapsAlone, Kept
    <2>4. CASE UNCHANGED <<users, bootstrapped, raced>>
        BY <2>1, <2>2, <2>3, <2>4 DEF BootstrapsAlone, Existing, Exists
    <2>5. CASE InsertUser(k) /\ ~UNCHANGED <<users, bootstrapped, raced>>
        <3>1. PICK u \in Users :
                  /\ UNCHANGED raced
                  /\ bootstrapped' = IF call[k].op = "bootstrap"
                                     THEN bootstrapped \cup {u} ELSE bootstrapped
            BY <2>5, UserInserted
        <3>2. call[k].op \in {"bootstrap", "createUser"} /\ call[k].step = "write"
            BY <2>5, UserInserted
        <3>3. bootstrapped \subseteq Users
            BY DEF Typed, TypeOK, LogTypes
        <3>4. CASE call[k].op = "bootstrap"
            <4>1. ~raced => bootstrapped = {}
                BY <3>2, <3>3, <3>4 DEF BootstrapsAlone, CreatorsKnown, Existing
            <4>2. ~raced => \A j \in Callers : ~(call'[j].op = "bootstrap" /\ call'[j].step = "write")
                BY <2>1, <2>2, <3>4 DEF BootstrapsAlone
            <4> QED
                BY <2>3, <3>1, <3>4, <4>1, <4>2 DEF BootstrapsAlone
        <3>5. CASE call[k].op = "createUser"
            <4>1. Existing # {}
                BY <3>5 DEF CreatorsKnown, Existing, Typed, CallsAreWhole, Whole
            <4>2. ~raced => \A j \in Callers : ~(call'[j].op = "bootstrap" /\ call'[j].step = "write")
                BY <2>1, <2>2, <4>1 DEF BootstrapsAlone
            <4> QED
                BY <2>3, <3>1, <3>5, <4>2 DEF BootstrapsAlone
        <3> QED
            BY <3>2, <3>4, <3>5
    <2> QED
        BY <1>1, <2>4, <2>5, UserWriters
<1>2. ASSUME NEW k \in Callers, Begins(k)
      PROVE  BootstrapsAlone'
    <2>1. /\ \A j \in Callers : j # k => call'[j] = call[j]
          /\ UNCHANGED users
          /\ call[k] = Idle
        BY <1>2, BeginLeaves
    <2>2. /\ raced => raced'
          /\ UNCHANGED bootstrapped
          /\ call'[k].op = "bootstrap" =>
                /\ Existing = {}
                /\ (\E j \in Callers : call[j].op = "bootstrap") => raced'
        BY <1>2, BootstrapOpened
    <2> QED
        BY <2>1, <2>2 DEF BootstrapsAlone, Existing, Exists
<1>3. ASSUME \/ \E u \in Users : DisableUser(u) \/ \E c \in Channels : Get(u, c)
             \/ \E p \in Posts, d \in Decisions, c \in Channels \cup {Nobody} : Act(p, d, c)
             \/ UNCHANGED vars
      PROVE  BootstrapsAlone'
    <2>1. /\ UNCHANGED <<bootstrapped, raced, call>>
          /\ \A u \in Users : Exists(u)' <=> Exists(u)
        BY <1>3 DEF DisableUser, Get, Act, Audited, rows, history, vars, Exists, Typed, TypeOK, RowTypes
    <2> QED
        BY <2>1 DEF BootstrapsAlone, Existing
<1> QED
    BY <1>1, <1>2, <1>3 DEF Next, OfCall

\* A second user is bootstrapped only by a bootstrap that raced the first.
THEOREM OnlyRacesBootstrapTwice == Spec => []SecondBootstrapRaced
<1>1. Init => BootstrapsAlone
    BY AdministrationAssumption DEF Init, BootstrapsAlone, Idle
<1>2. Typed /\ CreatorsKnown /\ BootstrapsAlone /\ [Next]_vars => BootstrapsAlone'
    BY BootstrapsStep
<1>3. BootstrapsAlone => SecondBootstrapRaced
    <2> SUFFICES ASSUME BootstrapsAlone, ~raced
                 PROVE  ~(Cardinality(bootstrapped) > 1)
        BY DEF SecondBootstrapRaced
    <2>1. CASE bootstrapped = {}
        BY <2>1, FS_EmptySet
    <2>2. ASSUME NEW u \in bootstrapped PROVE Cardinality(bootstrapped) = 1
        <3>1. bootstrapped = {u}
            BY <2>2 DEF BootstrapsAlone
        <3> QED
            BY <3>1, FS_Singleton
    <2> QED
        BY <2>1, <2>2
<1> QED
    BY <1>1, <1>2, <1>3, TypedInvariance, CreatorsInvariance, PTL DEF Spec
-----------------------------------------------------------------------------
\* A decision is never that nothing was decided.
LEMMA DecisionsDecide ==
    ASSUME NEW d \in Decisions
    PROVE  StatusAfter[d] # "PENDING"
    BY DEF Decisions, StatusAfter

\* A further entry changes the status only if it is the first for the channel.
LEMMA ActKeepsFirst ==
    ASSUME Typed, FirstDecisionStands, NEW p \in Posts, NEW d \in Decisions,
           NEW c \in Channels \cup {Nobody}, Act(p, d, c)
    PROVE  FirstDecisionStands'
<1>1. /\ decisions \in [Posts -> Seq(Decisions \X (Channels \cup {Nobody}))]
      /\ queue \in [Posts -> {"PENDING", "APPROVED", "REJECTED", "REGENERATION_REQUESTED"}]
    BY DEF Typed, TypeOK, LogTypes, RowTypes
<1>2. /\ decisions' = [decisions EXCEPT ![p] = Append(decisions[p], <<d, c>>)]
      /\ queue' = IF c = ChannelOf[p] /\ queue[p] = "PENDING"
                  THEN [queue EXCEPT ![p] = StatusAfter[d]] ELSE queue
    BY DEF Act, Audited
<1> DEFINE Own(q) == {n \in DOMAIN decisions[q] : decisions[q][n][2] = ChannelOf[q]}
<1>3. ASSUME NEW q \in Posts, q # p
      PROVE  decisions'[q] = decisions[q] /\ queue'[q] = queue[q]
    BY <1>1, <1>2, <1>3
<1>4. /\ decisions[p] \in Seq(Decisions \X (Channels \cup {Nobody}))
      /\ decisions'[p] = Append(decisions[p], <<d, c>>)
    BY <1>1, <1>2
<1>5. /\ DOMAIN decisions'[p] = 1 .. Len(decisions[p]) + 1
      /\ DOMAIN decisions[p] = 1 .. Len(decisions[p]) /\ Len(decisions[p]) \in Nat
      /\ \A n \in DOMAIN decisions[p] : decisions'[p][n] = decisions[p][n]
      /\ decisions'[p][Len(decisions[p]) + 1] = <<d, c>>
    BY <1>4
<1> DEFINE New == {n \in DOMAIN decisions'[p] : decisions'[p][n][2] = ChannelOf[p]}
<1>6. New = IF c = ChannelOf[p] THEN Own(p) \cup {Len(decisions[p]) + 1} ELSE Own(p)
    BY <1>5
<1>7. \/ New = {} /\ queue'[p] = "PENDING"
      \/ \E n \in New : /\ \A m \in New : n <= m
                       /\ queue'[p] = StatusAfter[decisions'[p][n][1]]
    <2>1. CASE Own(p) = {}
        <3>1. queue[p] = "PENDING"
            BY <2>1 DEF FirstDecisionStands
        <3>2. CASE c = ChannelOf[p]
            <4>1. New = {Len(decisions[p]) + 1} /\ queue'[p] = StatusAfter[d]
                BY <1>1, <1>2, <1>6, <2>1, <3>1, <3>2
            <4> QED
                BY <1>5, <4>1
        <3>3. CASE c # ChannelOf[p]
            BY <1>2, <1>6, <2>1, <3>1, <3>3
        <3> QED
            BY <3>2, <3>3
    <2>2. CASE Own(p) # {}
        <3>1. PICK n \in Own(p) : /\ \A m \in Own(p) : n <= m
                                  /\ queue[p] = StatusAfter[decisions[p][n][1]]
            BY <2>2 DEF FirstDecisionStands
        <3>2. decisions[p][n][1] \in Decisions
            BY <1>4, <3>1
        <3>3. queue'[p] = queue[p]
            BY <1>2, <3>1, <3>2, DecisionsDecide
        <3>4. n \in New /\ \A m \in New : n <= m
            BY <1>5, <1>6, <3>1
        <3> QED
            BY <1>5, <3>1, <3>3, <3>4
    <2> QED
        BY <2>1, <2>2
<1> QED
    BY <1>3, <1>7 DEF FirstDecisionStands

\* The first decision for a post's own channel stands, whatever is audited later.
THEOREM FirstDecisionIsFinal == Spec => []FirstDecisionStands
<1>1. Init => FirstDecisionStands
    BY DEF Init, FirstDecisionStands
<1>2. ASSUME Typed, FirstDecisionStands, [Next]_vars PROVE FirstDecisionStands'
    <2>1. CASE UNCHANGED <<queue, decisions>>
        BY <1>2, <2>1 DEF FirstDecisionStands
    <2>2. ASSUME NEW k \in Callers, OfCall(k) PROVE UNCHANGED <<queue, decisions>>
        <3>1. CASE Access(k)
            BY <3>1 DEF Access, Bootstrap, CreateUser, CountUsers, InsertUser, RecordBootstrap,
                        Record, rows, history
        <3>2. CASE Settings(k)
            BY <3>2 DEF Settings, UpdateSettings, WriteSettings, Reload, rows, history
        <3>3. CASE Members(k)
            BY <3>3 DEF Members, AddMember, UpsertMember, RecordMember, Record, rows, history
        <3>4. CASE Channel(k)
            BY <3>4 DEF Channel, Create, InsertChannel, RecordChannel, Update, WriteMetadata,
                        SetCredential, UpsertCredential, RecordCredential, Record, rows, history
        <3>5. CASE Abandon(k)
            BY <3>5 DEF Abandon, rows, history
        <3> QED
            BY <2>2, <3>1, <3>2, <3>3, <3>4, <3>5 DEF OfCall
    <2>3. ASSUME \/ \E u \in Users : DisableUser(u) \/ \E c \in Channels : Get(u, c)
                 \/ UNCHANGED vars
          PROVE  UNCHANGED <<queue, decisions>>
        BY <2>3 DEF DisableUser, Get, rows, history, vars
    <2> QED
        BY <1>2, <2>1, <2>2, <2>3, ActKeepsFirst DEF Next, OfCall
<1> QED
    BY <1>1, <1>2, TypedInvariance, PTL DEF Spec
=============================================================================
