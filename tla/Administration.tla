--------------------------- MODULE Administration ---------------------------
(***************************************************************************)
(* Users, channels and moderation: access.service.ts, channels.service.ts  *)
(* and moderation.service.ts. A call is one HTTP request. What it read     *)
(* before an await it still uses after it, so each database statement is   *)
(* an action of its own and the calls interleave between them; a call may  *)
(* also end early, with an error or with its process.                      *)
(*                                                                         *)
(* The settings of a channel are two of the lists that a client replaces   *)
(* whole, a protected one (forbiddenTopics) and an open one                *)
(* (sourcePriorities). A client sends the list it last saw with its own    *)
(* edit added, and the version it saw it at; an edit is named by the       *)
(* number of its call. The publication mode is a single value and open:    *)
(* protectedFields does not hold it, though docs/m1-channels-access.md:33  *)
(* calls it protected.                                                     *)
(***************************************************************************)
EXTENDS Naturals, FiniteSets, Sequences

CONSTANTS Callers,       \* requests that can be under way at once
          Users,         \* users, by e-mail address and id
          Channels, Posts,
          ChannelOf,     \* the channel a post in the moderation queue is for
          Nobody,        \* no user, no role
          MaxCalls       \* bound: calls made

Roles == {"VIEWER", "EDITOR", "OPERATOR", "OWNER"}

ASSUME AdministrationAssumption ==
    /\ Nobody \notin Users \cup Channels \cup Roles
    /\ IsFiniteSet(Users)
    /\ MaxCalls \in Nat
    /\ ChannelOf \in [Posts -> Channels]

VARIABLES users,     \* rows of users: "none", "ACTIVE" or "DISABLED"
          channels,  \* rows of channels: creator, last metadata edit, who set the credential
          role,      \* channel_members
          settings,  \* channel_settings: version 0 until the channel is there
          queue,     \* moderation_queue: the status of a post
          audit,     \* audit_log but for moderation: action, entity and actor
          call,      \* the calls under way
          calls,     \* calls made, up to MaxCalls
          view,      \* what a client last saw of a channel's settings
          bootstrapped, \* history: the users a bootstrap created
          raced,     \* history: two bootstraps were under way at once
          lost,      \* history: how many calls had been made when an ownership was taken away
          crowded,   \* history: how many had been made when a second user was created
          decisions  \* audit_log: the MODERATION_ entries of a post, by action and channel

rows    == <<users, channels, role, settings, queue>>
history == <<bootstrapped, raced, lost, crowded, decisions>>
vars == <<users, channels, role, settings, queue, audit, call, calls, view,
          bootstrapped, raced, lost, crowded, decisions>>

Rank  == [r \in Roles |-> IF r = "VIEWER" THEN 0 ELSE IF r = "OWNER" THEN 2 ELSE 1]

Fields    == {"forbiddenTopics", "sourcePriorities"}
Protected == {"forbiddenTopics"}
Snapshots == [version : Nat, list : [Fields -> SUBSET (1 .. MaxCalls)]]
Unseen    == [version |-> 0, list |-> [f \in Fields |-> {}]]

\* moderationActionSchema, and the status each action leads to.
StatusAfter == [APPROVE |-> "APPROVED", REJECT |-> "REJECTED",
                REQUEST_REGENERATION |-> "REGENERATION_REQUESTED"]
Decisions   == DOMAIN StatusAfter

Operations == {"bootstrap", "createUser", "create", "update", "updateSettings",
               "addMember", "setCredential"}
Idle  == [op |-> "none", step |-> "none", number |-> 0, actor |-> Nobody, channel |-> Nobody,
          whom |-> Nobody, role |-> Nobody, field |-> "sourcePriorities", base |-> Unseen,
          owner |-> FALSE, member |-> FALSE]
Calls == [op : Operations, step : {"count", "write", "reload", "audit"},
          number : 1 .. MaxCalls, actor : Users \cup {Nobody}, channel : Channels \cup {Nobody},
          whom : Users \cup {Nobody}, role : Roles \cup {Nobody}, field : Fields,
          base : Snapshots, owner : BOOLEAN, member : BOOLEAN]

RowTypes ==
    /\ users \in [Users -> {"none", "ACTIVE", "DISABLED"}]
    /\ channels \in [Channels -> [creator : Users \cup {Nobody}, metadata : 0 .. MaxCalls,
                                  credential : Users \cup {Nobody}]]
    /\ role \in [Channels -> [Users -> Roles \cup {Nobody}]]
    /\ settings \in [Channels -> Snapshots]
    /\ queue \in [Posts -> {"PENDING", "APPROVED", "REJECTED", "REGENERATION_REQUESTED"}]

CallTypes ==
    /\ call \in [Callers -> Calls \cup {Idle}]
    /\ calls \in 0 .. MaxCalls
    /\ view \in [Users -> [Channels -> Snapshots]]

AuditActions == {"access.bootstrap.completed", "channel.created", "channel.member.upserted",
                 "channel.credential_reference.updated"}

LogTypes ==
    /\ audit \subseteq AuditActions \X (Users \cup Channels) \X Users
    /\ bootstrapped \subseteq Users
    /\ raced \in BOOLEAN
    /\ lost \in [Channels -> [Users -> 0 .. MaxCalls]]
    /\ crowded \in 0 .. MaxCalls
    /\ decisions \in [Posts -> Seq(Decisions \X (Channels \cup {Nobody}))]

\* Types.
TypeOK == RowTypes /\ CallTypes /\ LogTypes

\* An empty database, but for the posts that wait for a moderator.
Init ==
    /\ users = [u \in Users |-> "none"]
    /\ channels = [c \in Channels |-> [creator |-> Nobody, metadata |-> 0, credential |-> Nobody]]
    /\ role = [c \in Channels |-> [u \in Users |-> Nobody]]
    /\ settings = [c \in Channels |-> Unseen]
    /\ queue = [p \in Posts |-> "PENDING"]
    /\ audit = {}
    /\ call = [k \in Callers |-> Idle]
    /\ calls = 0
    /\ view = [u \in Users |-> [c \in Channels |-> Unseen]]
    /\ bootstrapped = {}
    /\ raced = FALSE
    /\ lost = [c \in Channels |-> [u \in Users |-> 0]]
    /\ crowded = 0
    /\ decisions = [p \in Posts |-> <<>>]
-----------------------------------------------------------------------------
Count == calls < MaxCalls /\ calls' = calls + 1

\* A call arrives and its first reads are done.
Begin(k, request) ==
    /\ call[k] = Idle
    /\ Count
    /\ call' = [call EXCEPT ![k] = [request EXCEPT !.number = calls + 1]]

At(k, op, step) == call[k].op = op /\ call[k].step = step

Goto(k, step) == call' = [call EXCEPT ![k].step = step]
End(k)        == call' = [call EXCEPT ![k] = Idle]

Exists(u) == users[u] # "none"

\* authorized: the member's role in the channel has at least the minimum rank.
\* The user's own status is not asked for.
Authorized(u, c, minimum) ==
    role[c][u] # Nobody /\ Rank[role[c][u]] >= Rank[minimum]

\* audit.record: the last statement of a call.
Record(k, op, action, entity, actor) ==
    /\ At(k, op, "audit")
    /\ audit' = audit \cup {<<action, entity, actor>>}
    /\ End(k)
    /\ UNCHANGED <<rows, calls, view, history>>

\* An error, or the end of the process, between two statements.
Abandon(k) ==
    /\ call[k] # Idle
    /\ End(k)
    /\ UNCHANGED <<rows, audit, calls, view, history>>
-----------------------------------------------------------------------------
(***************************************************************************)
(* AccessService.                                                          *)
(***************************************************************************)
Existing == {u \in Users : Exists(u)}

\* Mutant: a bootstrap does not count the users.
BootstrapAnyway(k) ==
    /\ \E u \in Users : Begin(k, [Idle EXCEPT !.op = "bootstrap", !.step = "write", !.whom = u])
    /\ raced' = (raced \/ \E other \in Callers : call[other].op = "bootstrap")
    /\ UNCHANGED <<rows, audit, view, bootstrapped, lost, crowded, decisions>>

\* bootstrap counts the users; with one there it is refused.
Bootstrap(k) ==
    /\ Existing = {}
    /\ \E u \in Users : Begin(k, [Idle EXCEPT !.op = "bootstrap", !.step = "write", !.whom = u])
    /\ raced' = (raced \/ \E other \in Callers : call[other].op = "bootstrap")
    /\ UNCHANGED <<rows, audit, view, bootstrapped, lost, crowded, decisions>>

\* createUser reads the actor with its memberships.
CreateUser(k) ==
    /\ \E a, u \in Users :
          /\ users[a] = "ACTIVE"
          /\ Begin(k, [Idle EXCEPT !.op = "createUser", !.step = "count", !.actor = a,
                                   !.whom = u,
                                   !.owner = \E c \in Channels : role[c][a] = "OWNER",
                                   !.member = \E c \in Channels : role[c][a] # Nobody])
    /\ UNCHANGED <<rows, audit, view, history>>

\* Mutant: anyone without memberships passes for the first administrator.
CountUsersLoosely(k) ==
    /\ At(k, "createUser", "count")
    /\ IF ~call[k].member \/ call[k].owner THEN Goto(k, "write") ELSE End(k)
    /\ UNCHANGED <<rows, audit, calls, view, history>>

\* It goes on for an owner, and for the only user there is as long as that one
\* has no membership.
CountUsers(k) ==
    /\ At(k, "createUser", "count")
    /\ LET isFirstAdmin == Cardinality(Existing) = 1 /\ ~call[k].member
       IN  IF isFirstAdmin \/ call[k].owner THEN Goto(k, "write") ELSE End(k)
    /\ UNCHANGED <<rows, audit, calls, view, history>>

\* The row is created, unless the unique index on e-mail addresses refuses it.
\* Only a bootstrap is audited.
InsertUser(k) ==
    /\ At(k, "bootstrap", "write") \/ At(k, "createUser", "write")
    /\ LET u == call[k].whom
       IN  IF Exists(u)
           THEN End(k) /\ UNCHANGED <<users, bootstrapped, crowded>>
           ELSE /\ users' = [users EXCEPT ![u] = "ACTIVE"]
                /\ crowded' = IF Existing # {} /\ crowded = 0 THEN calls ELSE crowded
                /\ IF call[k].op = "bootstrap"
                   THEN Goto(k, "audit") /\ bootstrapped' = bootstrapped \cup {u}
                   ELSE End(k) /\ UNCHANGED bootstrapped
    /\ UNCHANGED <<channels, role, settings, queue, audit, calls, view, raced, lost, decisions>>

RecordBootstrap(k) ==
    Record(k, "bootstrap", "access.bootstrap.completed", call[k].whom, call[k].whom)

\* Nothing in the repository disables a user: an operator does, in the database.
DisableUser(u) ==
    /\ Count
    /\ users[u] = "ACTIVE"
    /\ users' = [users EXCEPT ![u] = "DISABLED"]
    /\ UNCHANGED <<channels, role, settings, queue, audit, call, view, history>>
-----------------------------------------------------------------------------
(***************************************************************************)
(* ChannelsService.                                                        *)
(***************************************************************************)

\* create: any user there is, a disabled one too.
Create(k) ==
    /\ \E u \in Users, c \in Channels :
          Exists(u) /\ Begin(k, [Idle EXCEPT !.op = "create", !.step = "write", !.actor = u,
                                             !.channel = c])
    /\ UNCHANGED <<rows, audit, view, history>>

\* One nested write: the channel, its creator as an owner, its settings. A
\* telegramId that is taken is refused.
InsertChannel(k) ==
    /\ At(k, "create", "write")
    /\ LET c == call[k].channel
           u == call[k].actor
       IN  IF channels[c].creator # Nobody
           THEN End(k) /\ UNCHANGED <<channels, role, settings>>
           ELSE /\ channels' = [channels EXCEPT ![c].creator = u]
                /\ role' = [role EXCEPT ![c][u] = "OWNER"]
                /\ settings' = [settings EXCEPT ![c].version = 1]
                /\ Goto(k, "audit")
    /\ UNCHANGED <<users, queue, audit, calls, view, history>>

RecordChannel(k) == Record(k, "create", "channel.created", call[k].channel, call[k].actor)

\* get, and list for one of its channels: members see the settings.
Get(u, c) ==
    /\ Authorized(u, c, "VIEWER")
    /\ view[u][c] # settings[c]
    /\ view' = [view EXCEPT ![u][c] = settings[c]]
    /\ UNCHANGED <<rows, audit, call, calls, history>>

\* update of the metadata: the last writer wins, whatever it saw.
Update(k) ==
    /\ \E u \in Users, c \in Channels :
          /\ Authorized(u, c, "EDITOR")
          /\ Begin(k, [Idle EXCEPT !.op = "update", !.step = "write", !.actor = u,
                                   !.channel = c])
    /\ UNCHANGED <<rows, audit, view, history>>

WriteMetadata(k) ==
    /\ At(k, "update", "write")
    /\ channels' = [channels EXCEPT ![call[k].channel].metadata = call[k].number]
    /\ End(k)
    /\ UNCHANGED <<users, role, settings, queue, audit, calls, view, history>>

\* updateSettings: only an owner changes a protected field.
UpdateSettings(k) ==
    /\ \E u \in Users, c \in Channels, f \in Fields :
          /\ Authorized(u, c, "EDITOR")
          /\ f \in Protected => role[c][u] = "OWNER"
          /\ view[u][c] # Unseen
          /\ Begin(k, [Idle EXCEPT !.op = "updateSettings", !.step = "write", !.actor = u,
                                   !.channel = c, !.field = f, !.base = view[u][c]])
    /\ UNCHANGED <<rows, audit, view, history>>

\* The lists a client sends replace those in the row.
Replaced(k, version) ==
    [settings[call[k].channel] EXCEPT
        !.version = version,
        !.list[call[k].field] = call[k].base.list[call[k].field] \cup {call[k].number}]

\* Mutant: the row is found by its channel alone.
WriteSettingsBlindly(k) ==
    /\ At(k, "updateSettings", "write")
    /\ settings' = [settings EXCEPT ![call[k].channel] = Replaced(k, @.version + 1)]
    /\ Goto(k, "reload")
    /\ UNCHANGED <<users, channels, role, queue, audit, calls, view, history>>

\* Mutant: the version is compared and not incremented.
WriteSettingsUnversioned(k) ==
    /\ At(k, "updateSettings", "write")
    /\ settings[call[k].channel].version = call[k].base.version
    /\ settings' = [settings EXCEPT ![call[k].channel] = Replaced(k, @.version)]
    /\ Goto(k, "reload")
    /\ UNCHANGED <<users, channels, role, queue, audit, calls, view, history>>

\* The row is found by channel and expected version, or it is a CONFLICT.
WriteSettings(k) ==
    /\ At(k, "updateSettings", "write")
    /\ IF settings[call[k].channel].version # call[k].base.version
       THEN End(k) /\ UNCHANGED settings
       ELSE /\ settings' = [settings EXCEPT ![call[k].channel] = Replaced(k, @.version + 1)]
            /\ Goto(k, "reload")
    /\ UNCHANGED <<users, channels, role, queue, audit, calls, view, history>>

\* The answer is read from the row afterwards, and may hold later changes too.
Reload(k) ==
    /\ At(k, "updateSettings", "reload")
    /\ view' = [view EXCEPT ![call[k].actor][call[k].channel] = settings[call[k].channel]]
    /\ End(k)
    /\ UNCHANGED <<rows, audit, calls, history>>

\* Mutant: an editor may manage members.
AddMemberAsEditor(k) ==
    /\ \E u, member \in Users, c \in Channels, r \in Roles :
          /\ Authorized(u, c, "EDITOR")
          /\ Begin(k, [Idle EXCEPT !.op = "addMember", !.step = "write", !.actor = u,
                                   !.channel = c, !.whom = member, !.role = r])
    /\ UNCHANGED <<rows, audit, view, history>>

\* addMember, for owners.
AddMember(k) ==
    /\ \E u, member \in Users, c \in Channels, r \in Roles :
          /\ Authorized(u, c, "OWNER")
          /\ Begin(k, [Idle EXCEPT !.op = "addMember", !.step = "write", !.actor = u,
                                   !.channel = c, !.whom = member, !.role = r])
    /\ UNCHANGED <<rows, audit, view, history>>

\* An upsert for a user there is: any role replaces any other, an owner's too.
UpsertMember(k) ==
    /\ At(k, "addMember", "write")
    /\ LET c == call[k].channel
           u == call[k].whom
       IN  IF ~Exists(u)
           THEN End(k) /\ UNCHANGED <<role, lost>>
           ELSE /\ role' = [role EXCEPT ![c][u] = call[k].role]
                /\ lost' = IF role[c][u] = "OWNER" /\ call[k].role # "OWNER"
                           THEN [lost EXCEPT ![c][u] = calls] ELSE lost
                /\ Goto(k, "audit")
    /\ UNCHANGED <<users, channels, settings, queue, audit, calls, view, bootstrapped, raced,
                   crowded, decisions>>

\* The entry names the creator of the channel, whoever called.
RecordMember(k) ==
    Record(k, "addMember", "channel.member.upserted", call[k].channel,
           channels[call[k].channel].creator)

\* setCredential, for owners; a reference that looks like a secret is refused.
SetCredential(k) ==
    /\ \E u \in Users, c \in Channels :
          /\ Authorized(u, c, "OWNER")
          /\ Begin(k, [Idle EXCEPT !.op = "setCredential", !.step = "write", !.actor = u,
                                   !.channel = c])
    /\ UNCHANGED <<rows, audit, view, history>>

UpsertCredential(k) ==
    /\ At(k, "setCredential", "write")
    /\ channels' = [channels EXCEPT ![call[k].channel].credential = call[k].actor]
    /\ Goto(k, "audit")
    /\ UNCHANGED <<users, role, settings, queue, audit, calls, view, history>>

RecordCredential(k) ==
    Record(k, "setCredential", "channel.credential_reference.updated", call[k].channel,
           call[k].actor)
-----------------------------------------------------------------------------
(***************************************************************************)
(* ModerationService.                                                      *)
(***************************************************************************)
Audited(p, d, c) ==
    /\ decisions' = [decisions EXCEPT ![p] = Append(@, <<d, c>>)]
    /\ UNCHANGED <<users, channels, role, settings, audit, call, view, bootstrapped, raced, lost,
                   crowded>>

\* Mutant: a decided post can be decided again.
ActAgain(p, d, c) ==
    /\ Count
    /\ queue' = IF c = ChannelOf[p] THEN [queue EXCEPT ![p] = StatusAfter[d]] ELSE queue
    /\ Audited(p, d, c)

\* Mutant: the action is stored for the status.
ActVerbatim(p, d, c) ==
    /\ Count
    /\ queue' = IF c = ChannelOf[p] /\ queue[p] = "PENDING" THEN [queue EXCEPT ![p] = d] ELSE queue
    /\ Audited(p, d, c)

\* act: one transaction; the row changes if it is the channel's and pending,
\* and the entry is written in any case. Nobody is asked for a role: the actor
\* and the channel are whatever the request says.
Act(p, d, c) ==
    /\ Count
    /\ queue' = IF c = ChannelOf[p] /\ queue[p] = "PENDING"
                THEN [queue EXCEPT ![p] = StatusAfter[d]] ELSE queue
    /\ Audited(p, d, c)
-----------------------------------------------------------------------------
Access(k)   == Bootstrap(k) \/ CreateUser(k) \/ CountUsers(k) \/ InsertUser(k) \/ RecordBootstrap(k)
Settings(k) == UpdateSettings(k) \/ WriteSettings(k) \/ Reload(k)
Members(k)  == AddMember(k) \/ UpsertMember(k) \/ RecordMember(k)
Channel(k)  == \/ Create(k) \/ InsertChannel(k) \/ RecordChannel(k)
               \/ Update(k) \/ WriteMetadata(k)
               \/ SetCredential(k) \/ UpsertCredential(k) \/ RecordCredential(k)

Next ==
    \/ \E k \in Callers : Access(k) \/ Settings(k) \/ Members(k) \/ Channel(k) \/ Abandon(k)
    \/ \E u \in Users : DisableUser(u) \/ \E c \in Channels : Get(u, c)
    \/ \E p \in Posts, d \in Decisions, c \in Channels \cup {Nobody} : Act(p, d, c)

Spec == Init /\ [][Next]_vars
-----------------------------------------------------------------------------
(***************************************************************************)
(* Properties.                                                             *)
(***************************************************************************)

\* More than one user was bootstrapped only if two bootstraps were under way at
\* once: the users are counted in one statement and created in another.
SecondBootstrapRaced ==
    Cardinality(bootstrapped) > 1 => raced

\* The user owns the channel now, or owned it when so many calls had been made: an
\* ownership is only taken away later than that.
OwnedSince(u, c, n) == role[c][u] = "OWNER" \/ lost[c][u] >= n

\* A step that creates a user is a bootstrap's, or its actor has had the right since the
\* call arrived: as an owner of some channel, or as the only user there was. The right may
\* be gone by then, but it was not gone already when the call was made.
InvitersHadTheRight ==
    [][\A u \in Users : users[u] = "none" /\ users'[u] # "none" =>
          \E k \in Callers :
              /\ call'[k] # call[k]
              /\ \/ call[k].op = "bootstrap"
                 \/ /\ call[k].op = "createUser"
                    /\ \/ \E c \in Channels : OwnedSince(call[k].actor, c, call[k].number)
                       \/ crowded = 0 \/ crowded >= call[k].number]_vars

\* What only an owner may change.
Governed(c) == <<role[c], channels[c].credential, [f \in Protected |-> settings[c].list[f]]>>

\* A step that changes the members, the credential or a protected setting of a channel
\* there is belongs to a call whose actor has owned that channel since the call arrived,
\* whoever is promoted or demoted meanwhile: an owner that was demoted before it called
\* governs no longer.
NobodyGovernsUnowned ==
    [][\A c \in Channels : channels[c].creator # Nobody /\ Governed(c)' # Governed(c) =>
          \E k \in Callers :
              /\ call'[k] # call[k] /\ call[k].channel = c
              /\ OwnedSince(call[k].actor, c, call[k].number)]_vars

\* What a client holds, or is about to write from, is a state the settings were
\* in at that version: two states of a channel's settings never share a version.
SeenIsPast(seen, c) ==
    /\ seen.version <= settings[c].version
    /\ seen.version = settings[c].version => seen = settings[c]

VersionsNameStates ==
    /\ \A u \in Users, c \in Channels : SeenIsPast(view[u][c], c)
    /\ \A k \in Callers :
          call[k].op = "updateSettings" => SeenIsPast(call[k].base, call[k].channel)

\* No accepted edit is lost: two updates that expect the same version never
\* overwrite each other's list, whatever they interleave with.
EditsAccumulate ==
    [][\A c \in Channels, f \in Fields : settings[c].list[f] \subseteq settings'[c].list[f]]_vars

\* The first decision taken for the post's own channel is the one that stands,
\* though later ones, and those that name another channel, are audited and
\* answered as if they had been applied.
FirstDecisionStands ==
    \A p \in Posts :
        LET own == {n \in DOMAIN decisions[p] : decisions[p][n][2] = ChannelOf[p]}
        IN  \/ own = {} /\ queue[p] = "PENDING"
            \/ \E n \in own : /\ \A m \in own : n <= m
                             /\ queue[p] = StatusAfter[decisions[p][n][1]]
=============================================================================
