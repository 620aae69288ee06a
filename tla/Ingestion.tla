------------------------------ MODULE Ingestion ------------------------------
(***************************************************************************)
(* Source ingestion: sources.service.ts (create, update, enqueue,          *)
(* ingestAll, health, process, persistItem, snapshot), the processor of    *)
(* the ingestion queue (source-ingest.processor.ts) and what the origins   *)
(* of the sources do meanwhile.                                            *)
(*                                                                         *)
(* A run is one attempt of an ingestion job on a worker. It reads the      *)
(* source row, fetches, stores the items one by one, saves the cursor,     *)
(* records a health snapshot and hands over to discovery: one action for   *)
(* each database, network or queue call, since the runs of two channels    *)
(* share a source and interleave at every await. Any call may fail and a   *)
(* worker may crash.                                                       *)
(*                                                                         *)
(* The queues are abstract here (JobQueue has them in detail): an id is    *)
(* taken from the moment its job is added, a failed job keeps it for good, *)
(* a completed one until it is evicted.                                    *)
(***************************************************************************)
EXTENDS SourceAdapters, FiniteSets

CONSTANTS Channels, Sources, Workers,
          Urls,         \* addresses of origins
          KindOf,       \* what an address serves: "RSS" or "WEB"
          Ids,          \* external ids of entries
          DateOf,       \* the date of an entry, 0 for none
          Broken,       \* the entries no item can be built from
          Texts,        \* texts of entries
          FirstText,    \* the text an entry is published with
          StartAt,      \* the entry an address serves in the beginning
          MaxAttempts,  \* attempts of a job
          MaxWindow,    \* bound: rate-limit windows 0..MaxWindow
          MaxJobs,      \* bound: ingestion jobs added
          MaxEvents     \* bound: publications, edits, probes, failures, crashes, windows

VARIABLES source,    \* rows of sources: kind, url, status, cursor
          binding,   \* channel_sources: "unbound", "enabled" or "disabled"
          rows,      \* source_items: the text stored under each external id
          health,    \* the status of a source's latest health snapshot
          origin,    \* what each address serves: entries and modification time
          window,    \* the current rate-limit window
          job,       \* ingestion jobs by id: state and failed attempts
          run,       \* the run of each worker
          handoff,   \* the discovery job of channel, source and key "backlog"
          ideas,     \* the items of a source a channel has ideas for
          events,    \* the events of MaxEvents so far
          seen,      \* history: what persistItem last answered for an item
          storedBy,  \* history: the items a job's runs stored
          accepted,  \* history: jobs whose hand-off put a new job on the queue
          skipped,   \* history: discovery passes that found the binding disabled
          moved,     \* history: sources whose address was edited
          overlapped \* history: sources two runs of which were under way at once

database == <<source, binding, rows, health, ideas>>
queues   == <<job, handoff>>
history  == <<seen, storedBy, accepted, skipped, moved, overlapped>>
vars == <<source, binding, rows, health, origin, window, job, run, handoff,
          ideas, events, seen, storedBy, accepted, skipped, moved, overlapped>>

Jobs     == Channels \X Sources \X (0..MaxWindow)
Cursors  == [stamp : 0..MaxEvents + 1, watermark : Nat, hash : Texts \cup {None}]
Dates    == {DateOf[i] : i \in Ids}
Entries  == [id : Ids, date : Dates, text : Texts, usable : BOOLEAN]
Steps    == {"idle", "fetch", "store", "report", "handoff"}
Batches  == UNION {[positions -> Entries] : positions \in SUBSET (1 .. MaxEntries)}
Runs     == [step : Steps, job : Jobs \cup {None}, url : Urls \cup {None}, cursor : Cursors,
             todo : Batches, degraded : BOOLEAN]
NoRun    == [step |-> "idle", job |-> None, url |-> None, cursor |-> NoCursor,
             todo |-> <<>>, degraded |-> FALSE]

ASSUME IngestionAssumption ==
    /\ None \notin Texts \cup Urls \cup Jobs
    /\ KindOf \in [Urls -> {"RSS", "WEB"}]
    /\ DateOf \in [Ids -> Nat] /\ FirstText \in [Ids -> Texts]
    /\ StartAt \in [Urls -> Ids]
    /\ \A u \in Urls : KindOf[u] = "WEB" => DateOf[StartAt[u]] = 0   \* pages have no date
    /\ MaxAttempts \in Nat \ {0}
    /\ {MaxWindow, MaxJobs, MaxEvents} \subseteq Nat

\* Types.
TypeOK ==
    /\ source \in [Sources -> [kind : {"RSS", "WEB"}, url : Urls,
                               status : {"ACTIVE", "PAUSED"}, cursor : Cursors]]
    /\ binding \in [Channels -> [Sources -> {"unbound", "enabled", "disabled"}]]
    /\ rows \in [Sources -> [Ids -> Texts \cup {None}]]
    /\ health \in [Sources -> {"NONE", "HEALTHY", "DEGRADED", "FAILED"}]
    /\ origin \in [Urls -> [entries : Seq(Entries), stamp : 1..MaxEvents + 1]]
    /\ window \in 0..MaxWindow /\ events \in 0..MaxEvents
    /\ job \in [Jobs -> [state : {"none", "waiting", "active", "completed", "failed"},
                         failures : 0..MaxAttempts]]
    /\ run \in [Workers -> Runs]
    /\ handoff \in [Channels -> [Sources -> {"none", "waiting", "completed", "failed"}]]
    /\ ideas \in [Channels -> [Sources -> SUBSET Ids]]
    /\ seen \in [Sources -> [Ids -> {"never", "stored", "duplicate"}]]
    /\ storedBy \in [Jobs -> SUBSET Ids]
    /\ accepted \subseteq Jobs
    /\ skipped \subseteq Channels \X Sources
    /\ moved \subseteq Sources /\ overlapped \subseteq Sources

Published(id) == [id |-> id, date |-> DateOf[id], text |-> FirstText[id], usable |-> id \notin Broken]

Init ==
    /\ \E url \in [Sources -> Urls] :
          source = [s \in Sources |-> [kind   |-> KindOf[url[s]], url |-> url[s],
                                       status |-> "ACTIVE", cursor |-> NoCursor]]
    /\ binding = [c \in Channels |-> [s \in Sources |-> "enabled"]]
    /\ rows = [s \in Sources |-> [i \in Ids |-> None]]
    /\ health = [s \in Sources |-> "NONE"]
    /\ origin = [u \in Urls |-> [entries |-> <<Published(StartAt[u])>>, stamp |-> 1]]
    /\ window = 0
    /\ job = [j \in Jobs |-> [state |-> "none", failures |-> 0]]
    /\ run = [w \in Workers |-> NoRun]
    /\ handoff = [c \in Channels |-> [s \in Sources |-> "none"]]
    /\ ideas = [c \in Channels |-> [s \in Sources |-> {}]]
    /\ events = 0
    /\ seen = [s \in Sources |-> [i \in Ids |-> "never"]]
    /\ storedBy = [j \in Jobs |-> {}]
    /\ accepted = {}
    /\ skipped = {}
    /\ moved = {}
    /\ overlapped = {}
-----------------------------------------------------------------------------
(***************************************************************************)
(* The origins, and time.                                                  *)
(***************************************************************************)
Event == events < MaxEvents /\ events' = events + 1

\* The time of the latest change of any content.
Clock(t) == (\E u \in Urls : origin[u].stamp = t) /\ \A u \in Urls : origin[u].stamp <= t

\* Content is followed only at an address some source has.
InUse(u) == \E s \in Sources : source[s].url = u

Change(u, entries) ==
    /\ Event
    /\ \E t \in 1..MaxEvents + 1 :
          Clock(t) /\ origin' = [origin EXCEPT ![u] = [entries |-> entries, stamp |-> t + 1]]
    /\ UNCHANGED <<database, queues, history, window, run>>

\* A feed gains an entry, newest first and dated no earlier than those before
\* it; a page gets another canonical address.
Publish(u) ==
    /\ InUse(u)
    /\ \E i \in Ids :
          /\ \A n \in DOMAIN origin[u].entries : origin[u].entries[n].id # i
          /\ IF KindOf[u] = "WEB"
             THEN DateOf[i] = 0 /\ Change(u, <<Published(i)>>)
             ELSE /\ \A n \in DOMAIN origin[u].entries :
                        DateOf[i] = 0 \/ DateOf[i] >= origin[u].entries[n].date
                  /\ Change(u, <<Published(i)>> \o origin[u].entries)

\* An entry is rewritten in place.
Rewrite(u) ==
    /\ InUse(u)
    /\ \E n \in DOMAIN origin[u].entries, t \in Texts :
          /\ t # origin[u].entries[n].text
          /\ Change(u, [origin[u].entries EXCEPT ![n].text = t])

\* Time passes; a window nobody triggered a run in is left out.
NextWindow ==
    /\ window < MaxWindow
    /\ Event
    /\ \E j \in Jobs : j[3] = window /\ job[j].state # "none"
    /\ window' = window + 1
    /\ UNCHANGED <<database, queues, history, origin, run>>
-----------------------------------------------------------------------------
(***************************************************************************)
(* The API: editors of a channel.                                          *)
(***************************************************************************)

\* create on a source that exists: the binding is there and enabled afterwards.
Create(c, s) ==
    /\ Event
    /\ binding[c][s] # "enabled"
    /\ binding' = [binding EXCEPT ![c][s] = "enabled"]
    /\ UNCHANGED <<source, rows, health, ideas, queues, history, origin, window, run>>

\* update of the shared row by any bound channel: the address changes and the
\* cursor stays.
Readdress(c, s) ==
    /\ Event
    /\ binding[c][s] # "unbound"
    /\ \E u \in Urls :
          /\ KindOf[u] = source[s].kind
          /\ \A other \in Sources : source[other].url # u
          /\ source' = [source EXCEPT ![s].url = u]
    /\ moved' = moved \cup {s}
    /\ UNCHANGED <<binding, rows, health, ideas, queues, seen, storedBy, accepted,
                   skipped, overlapped, origin, window, run>>

\* update of the status of the shared row.
SetStatus(c, s) ==
    /\ Event
    /\ binding[c][s] # "unbound"
    /\ \E status \in {"ACTIVE", "PAUSED"} :
          /\ status # source[s].status
          /\ source' = [source EXCEPT ![s].status = status]
    /\ UNCHANGED <<binding, rows, health, ideas, queues, history, origin, window, run>>

\* update of the channel's own binding.
Disable(c, s) ==
    /\ Event
    /\ binding[c][s] = "enabled"
    /\ binding' = [binding EXCEPT ![c][s] = "disabled"]
    /\ UNCHANGED <<source, rows, health, ideas, queues, history, origin, window, run>>

\* enqueue: the job id is the source, the channel and the window; an id that
\* is taken, by a failed job too, adds nothing. ingestAll is one enqueue for each
\* enabled source, none of which waits for another.
Enqueue(c, s) ==
    /\ binding[c][s] = "enabled"
    /\ source[s].status = "ACTIVE"
    /\ job[<<c, s, window>>].state = "none"
    /\ Cardinality({j \in Jobs : job[j].state # "none"}) < MaxJobs
    /\ job' = [job EXCEPT ![<<c, s, window>>].state = "waiting"]
    /\ UNCHANGED <<database, handoff, history, origin, window, run, events>>

\* health: a probe fetches without the cursor and only leaves a snapshot.
Probe(c, s) ==
    /\ Event
    /\ binding[c][s] # "unbound"
    /\ LET entries == origin[source[s].url].entries
       IN  \E ok \in BOOLEAN :
              health' = [health EXCEPT ![s] =
                  IF ~ok \/ entries = <<>> THEN "FAILED"
                  ELSE IF Read(source[s].kind, entries, 1, NoCursor).quarantined
                  THEN "DEGRADED" ELSE "HEALTHY"]
    /\ UNCHANGED <<source, binding, rows, ideas, queues, history, origin, window, run>>
-----------------------------------------------------------------------------
(***************************************************************************)
(* A run of the ingestion worker.                                          *)
(***************************************************************************)
ChannelOf(w) == run[w].job[1]
SourceOf(w)  == run[w].job[2]
UnderWay(w)  == run[w].step \notin {"idle", "handoff"}

Goto(w, step) == run' = [run EXCEPT ![w].step = step]

\* The worker takes the job and process reads the row. A source that is not
\* active ends process, not the run: the hand-off follows all the same.
Start(w) ==
    /\ run[w].step = "idle"
    /\ \E j \in Jobs :
          LET row   == source[j[2]]
              other == {v \in Workers : UnderWay(v) /\ SourceOf(v) = j[2]}
          IN  /\ job[j].state = "waiting"
              /\ job' = [job EXCEPT ![j].state = "active"]
              /\ run' = [run EXCEPT ![w] =
                    [NoRun EXCEPT !.job = j, !.url = row.url, !.cursor = row.cursor,
                                  !.step = IF row.status = "ACTIVE" THEN "fetch" ELSE "handoff"]]
              /\ overlapped' = IF other # {} /\ row.status = "ACTIVE"
                               THEN overlapped \cup {j[2]} ELSE overlapped
    /\ UNCHANGED <<database, handoff, seen, storedBy, accepted, skipped, moved,
                   origin, window, events>>

\* adapter.fetch. The origin may answer 304 to a validator that is recent
\* enough, and may ignore it; a feed without entries is a contract violation.
Fetch(w) ==
    /\ run[w].step = "fetch"
    /\ LET at     == origin[run[w].url]
           cursor == run[w].cursor
       IN  /\ at.entries # <<>>
           /\ \E result \in {Read(source[SourceOf(w)].kind, at.entries, at.stamp, cursor)} \cup
                            (IF MayAnswerNotModified(cursor, at.stamp) THEN {Unchanged(cursor)} ELSE {}) :
                 run' = [run EXCEPT ![w].step = "store", ![w].todo = result.items,
                                    ![w].cursor = result.cursor,
                                    ![w].degraded = result.quarantined]
    /\ UNCHANGED <<database, queues, history, origin, window, events>>

\* The unique index on source and content hash.
HashTaken(s, id, text) == \E i \in Ids \ {id} : rows[s][i] = text

\* The items are stored in the order of the feed.
NextItem(w) == CHOOSE n \in DOMAIN run[w].todo : \A m \in DOMAIN run[w].todo : n <= m

\* Mutant: an item that is there already is left as it is.
StoreOnce(w) ==
    /\ run[w].step = "store"
    /\ DOMAIN run[w].todo # {}
    /\ LET item == run[w].todo[NextItem(w)]
           s    == SourceOf(w)
       IN  /\ rows' = [rows EXCEPT ![s][item.id] = IF @ = None THEN item.text ELSE @]
           /\ seen' = [seen EXCEPT ![s][item.id] = "stored"]
           /\ storedBy' = [storedBy EXCEPT ![run[w].job] = @ \cup {item.id}]
    /\ run' = [run EXCEPT ![w].todo = Restrict(@, DOMAIN @ \ {NextItem(w)})]
    /\ UNCHANGED <<source, binding, health, ideas, queues, accepted, skipped, moved,
                   overlapped, origin, window, events>>

\* persistItem: an upsert by external id; a text stored under another id is
\* reported as a duplicate and nothing is written.
Store(w) ==
    /\ run[w].step = "store"
    /\ DOMAIN run[w].todo # {}
    /\ LET item == run[w].todo[NextItem(w)]
           s    == SourceOf(w)
       IN  IF HashTaken(s, item.id, item.text)
           THEN /\ seen' = [seen EXCEPT ![s][item.id] = "duplicate"]
                /\ UNCHANGED <<rows, storedBy>>
           ELSE /\ rows' = [rows EXCEPT ![s][item.id] = item.text]
                /\ seen' = [seen EXCEPT ![s][item.id] = "stored"]
                /\ storedBy' = [storedBy EXCEPT ![run[w].job] = @ \cup {item.id}]
    /\ run' = [run EXCEPT ![w].todo = Restrict(@, DOMAIN @ \ {NextItem(w)})]
    /\ UNCHANGED <<source, binding, health, ideas, queues, accepted, skipped, moved,
                   overlapped, origin, window, events>>

\* After the last item the cursor of this fetch replaces whatever is there.
SaveCursor(w) ==
    /\ run[w].step = "store"
    /\ DOMAIN run[w].todo = {}
    /\ source' = [source EXCEPT ![SourceOf(w)].cursor = run[w].cursor]
    /\ Goto(w, "report")
    /\ UNCHANGED <<binding, rows, health, ideas, queues, history, origin, window, events>>

Report(w) ==
    /\ run[w].step = "report"
    /\ health' = [health EXCEPT ![SourceOf(w)] = IF run[w].degraded THEN "DEGRADED" ELSE "HEALTHY"]
    /\ Goto(w, "handoff")
    /\ UNCHANGED <<source, binding, rows, ideas, queues, history, origin, window, events>>

\* DiscoveryService.enqueue without item ids: the key is always "backlog", and
\* an id that is taken adds nothing. The ingestion job is complete.
HandOff(w) ==
    /\ run[w].step = "handoff"
    /\ LET c == ChannelOf(w)
           s == SourceOf(w)
       IN  IF handoff[c][s] = "none"
           THEN /\ handoff' = [handoff EXCEPT ![c][s] = "waiting"]
                /\ accepted' = accepted \cup {run[w].job}
           ELSE UNCHANGED <<handoff, accepted>>
    /\ job' = [job EXCEPT ![run[w].job].state = "completed"]
    /\ run' = [run EXCEPT ![w] = NoRun]
    /\ UNCHANGED <<database, seen, storedBy, skipped, moved, overlapped, origin, window, events>>

\* Mutant: the attempts are never counted against the limit.
RetryForever(w) ==
    /\ job' = [job EXCEPT ![run[w].job] = [state |-> "waiting", failures |-> @.failures + 1]]
    /\ run' = [run EXCEPT ![w] = NoRun]

\* The queue's answer to a thrown error: retry while attempts are left.
Retry(w) ==
    /\ job' = [job EXCEPT ![run[w].job] =
                  [state    |-> IF @.failures + 1 < MaxAttempts THEN "waiting" ELSE "failed",
                   failures |-> @.failures + 1]]
    /\ run' = [run EXCEPT ![w] = NoRun]

\* Mutant: the cursor is saved in a finally block, whatever happened.
ThrowAndSave(w) ==
    /\ run[w].step \in {"fetch", "store", "report"}
    /\ Event
    /\ source' = [source EXCEPT ![SourceOf(w)].cursor = run[w].cursor]
    /\ health' = [health EXCEPT ![SourceOf(w)] = "FAILED"]
    /\ Retry(w)
    /\ UNCHANGED <<binding, rows, ideas, handoff, history, origin, window>>

\* Mutant: a run that failed hands over what it has.
ThrowAndHandOff(w) ==
    /\ run[w].step \in {"fetch", "store", "report"}
    /\ Event
    /\ IF handoff[ChannelOf(w)][SourceOf(w)] = "none"
       THEN /\ handoff' = [handoff EXCEPT ![ChannelOf(w)][SourceOf(w)] = "waiting"]
            /\ accepted' = accepted \cup {run[w].job}
       ELSE UNCHANGED <<handoff, accepted>>
    /\ Retry(w)
    /\ UNCHANGED <<database, seen, storedBy, skipped, moved, overlapped, origin, window>>

\* A call inside the try block fails: the fetch, an upsert, the cursor or the
\* snapshot after it. The catch block leaves a FAILED snapshot, or none if that
\* call fails too, and throws the error on.
Throw(w) ==
    /\ run[w].step \in {"fetch", "store", "report"}
    /\ Event
    /\ health' \in {health, [health EXCEPT ![SourceOf(w)] = "FAILED"]}
    /\ Retry(w)
    /\ UNCHANGED <<source, binding, rows, ideas, handoff, history, origin, window>>

\* The hand-off fails: process is not repeated in this attempt, the job is.
HandOffFails(w) ==
    /\ run[w].step = "handoff"
    /\ Event
    /\ Retry(w)
    /\ UNCHANGED <<database, handoff, history, origin, window>>

\* The process ends: the job is found stalled and waits again, or fails when that
\* has happened too often (JobQueue counts how often).
Crash(w) ==
    /\ run[w].step # "idle"
    /\ Event
    /\ \E state \in {"waiting", "failed"} : job' = [job EXCEPT ![run[w].job].state = state]
    /\ run' = [run EXCEPT ![w] = NoRun]
    /\ UNCHANGED <<database, handoff, history, origin, window>>
-----------------------------------------------------------------------------
(***************************************************************************)
(* Discovery, as far as the hand-off goes (Discovery has it in detail).    *)
(***************************************************************************)

\* discover without item ids: every stored item of the source, unless the
\* binding is disabled by then.
Discover(c, s) ==
    /\ handoff[c][s] = "waiting"
    /\ IF binding[c][s] = "enabled"
       THEN /\ ideas' = [ideas EXCEPT ![c][s] = @ \cup {i \in Ids : rows[s][i] # None}]
            /\ UNCHANGED skipped
       ELSE /\ skipped' = skipped \cup {<<c, s>>}
            /\ UNCHANGED ideas
    /\ handoff' = [handoff EXCEPT ![c][s] = "completed"]
    /\ UNCHANGED <<source, binding, rows, health, job, seen, storedBy, accepted, moved,
                   overlapped, origin, window, run, events>>

\* The discovery job runs out of attempts.
DiscoveryFails(c, s) ==
    /\ handoff[c][s] = "waiting"
    /\ Event
    /\ handoff' = [handoff EXCEPT ![c][s] = "failed"]
    /\ UNCHANGED <<database, job, history, origin, window, run>>

\* removeOnComplete: a day after a job completed, or as soon as a thousand others
\* have, its id is free again.
Evict(c, s) ==
    /\ handoff[c][s] = "completed"
    /\ handoff' = [handoff EXCEPT ![c][s] = "none"]
    /\ UNCHANGED <<database, job, history, origin, window, run, events>>
-----------------------------------------------------------------------------
Editor(c, s) == \/ Create(c, s) \/ Readdress(c, s) \/ SetStatus(c, s) \/ Disable(c, s)
                \/ Enqueue(c, s) \/ Probe(c, s)

Progress(w) == Start(w) \/ Fetch(w) \/ Store(w) \/ SaveCursor(w) \/ Report(w) \/ HandOff(w)

Next ==
    \/ \E u \in Urls : Publish(u) \/ Rewrite(u)
    \/ NextWindow
    \/ \E c \in Channels, s \in Sources :
          Editor(c, s) \/ Discover(c, s) \/ DiscoveryFails(c, s) \/ Evict(c, s)
    \/ \E w \in Workers : Progress(w) \/ Throw(w) \/ HandOffFails(w) \/ Crash(w)

Spec == Init /\ [][Next]_vars

\* Workers and the discovery worker keep taking their next step. Nobody has to
\* publish, to trigger an ingestion or to fail; eviction is not promised.
FairSpec == Spec /\ \A w \in Workers : WF_vars(Progress(w))
                 /\ \A c \in Channels, s \in Sources : WF_vars(Discover(c, s))
-----------------------------------------------------------------------------
(***************************************************************************)
(* Properties.                                                             *)
(***************************************************************************)

\* The entries of a source's feed that an item can be built from and that the
\* scanner reaches.
Readable(s) ==
    LET entries == origin[source[s].url].entries
    IN  {entries[n] : n \in {m \in Visible(entries) : entries[m].usable}}

\* No other entry has its date: the watermark tells it from the others.
Alone(e) == \A i \in Ids \ {e.id} : DateOf[i] # e.date

\* The saved watermark never passes an entry that no run has stored or
\* recognised as a duplicate: whatever fails, crashes or interleaves between
\* the items and the cursor, the entry is fetched as new again. Not promised,
\* and left out: entries that share their date with another (the watermark is
\* exclusive), entries dated earlier than what the feed showed before (Publish
\* adds none: a watermark that passed their date loses them), entries pushed
\* out of the first MaxEntries, and sources whose address was edited under
\* their cursor.
WatermarkPassesNothing ==
    \A s \in Sources \ moved : \A e \in Readable(s) :
        e.date # 0 /\ Alone(e) /\ e.date <= source[s].cursor.watermark => seen[s][e.id] # "never"

\* A saved validator the origin would answer 304 to never hides an entry that
\* was not stored or recognised as a duplicate. Left out, as above: dated entries
\* that share their date, back-dated ones, those beyond the first MaxEntries, and
\* sources whose address was edited.
NotModifiedHidesNothing ==
    \A s \in Sources \ moved :
        MayAnswerNotModified(source[s].cursor, origin[source[s].url].stamp) =>
            \A e \in Readable(s) : e.date = 0 \/ Alone(e) => seen[s][e.id] # "never"

\* While the runs of a source never overlap, a validator that would be answered
\* 304 also vouches for the texts: an undated item that was stored is stored as
\* the origin has it now. (With overlapping runs the last writer of the item
\* and the last writer of the cursor may be different runs.)
NotModifiedMeansCurrent ==
    \A s \in Sources \ (moved \cup overlapped) :
        MayAnswerNotModified(source[s].cursor, origin[source[s].url].stamp) =>
            \A e \in Readable(s) :
                e.date = 0 /\ seen[s][e.id] = "stored" => rows[s][e.id] = e.text

\* A completed ingestion whose hand-off was accepted as a new job is covered by
\* it: when that pass is over, without having failed or found the binding
\* disabled, the channel has an idea for every item the job stored.
AcceptedHandOffCovers ==
    \A j \in accepted :
        /\ handoff[j[1]][j[2]] \in {"completed", "none"}
        /\ <<j[1], j[2]>> \notin skipped
        => storedBy[j] \subseteq ideas[j[1]][j[2]]

\* Every item a completed ingestion stored is discovered for its channel in the
\* end, unless the channel disabled the source or the pass failed:
\* contracts/jobs.ts derives the batch key from the item ids handed over "so an
\* ingestion that produced nothing new cannot spawn a second identical
\* discovery pass". The code's key is the same for every run.
NewItemsAreDiscovered ==
    \A j \in Jobs, i \in Ids :
        (job[j].state = "completed" /\ i \in storedBy[j]) ~>
            \/ i \in ideas[j[1]][j[2]]
            \/ binding[j[1]][j[2]] # "enabled"
            \/ <<j[1], j[2]>> \in skipped
            \/ handoff[j[1]][j[2]] = "failed"
=============================================================================
