--------------------------- MODULE IngestionProofs ---------------------------
(***************************************************************************)
(* What ingestion keeps for any number of channels, sources, workers,      *)
(* entries and failures: types, bounds and the shape of feeds, a job of    *)
(* its own for each run, and discovery for what an accepted hand-off's job *)
(* stored. IngestionCursorProofs goes on with the cursors.                 *)
(***************************************************************************)
EXTENDS Ingestion, WellFoundedInduction, FiniteSetTheorems, TLAPS

\* The entries of a feed are known by their ids; a page is one undated entry.
IsFeed(kind, entries) ==
    /\ \A n \in DOMAIN entries :
          /\ entries[n].date = DateOf[entries[n].id]
          /\ entries[n].usable <=> entries[n].id \notin Broken
    /\ \A m, n \in DOMAIN entries : entries[m].id = entries[n].id => m = n
    /\ kind = "WEB" => Len(entries) = 1 /\ entries[1].date = 0

\* How content changes: an entry that is dated was there, no further down, or
\* is new and dated no earlier than any that was; no date disappears.
Follows(entries, later) ==
    /\ \A n \in DOMAIN later :
          \/ later[n].date = 0
          \/ \E m \in DOMAIN entries : m <= n /\ entries[m].id = later[n].id
          \/ \A m \in DOMAIN entries : entries[m].id # later[n].id /\ entries[m].date <= later[n].date
    /\ \A m \in DOMAIN entries : entries[m].date # 0 =>
          \E n \in DOMAIN later : later[n].date = entries[m].date

-----------------------------------------------------------------------------
(***************************************************************************)
(* The inductive invariant.                                                *)
(***************************************************************************)
Served(w)  == origin[run[w].url]
Working(w) == run[w].step # "idle"

\* Stamps are no more than the events, and jobs that go on have attempts left.
Bounds ==
    /\ \A u \in Urls : origin[u].stamp <= events + 1
    /\ \A j \in Jobs : job[j].state \notin {"completed", "failed"} => job[j].failures < MaxAttempts

\* A worker at work has a job of its own, and nothing to store before it fetched.
RunsHaveJobs ==
    /\ \A w \in Workers : Working(w) =>
          /\ run[w].job \in Jobs /\ run[w].url \in Urls
          /\ job[run[w].job].state = "active"
          /\ run[w].step = "fetch" => DOMAIN run[w].todo = {}
    /\ \A v, w \in Workers : Working(v) /\ Working(w) /\ run[v].job = run[w].job => v = w

Feeds ==
    /\ \A u \in Urls : IsFeed(KindOf[u], origin[u].entries)
    /\ \A s \in Sources : source[s].kind = KindOf[source[s].url]
    /\ \A w \in Workers : Working(w) => source[SourceOf(w)].kind = KindOf[run[w].url]

Base == TypeOK /\ Bounds /\ RunsHaveJobs /\ Feeds

\* What a job stored is stored, and a job whose hand-off was accepted is over.
HandOffs ==
    /\ \A j \in Jobs : storedBy[j] \subseteq {i \in Ids : rows[j[2]][i] # None}
    /\ \A j \in accepted : job[j].state = "completed"
    /\ AcceptedHandOffCovers
-----------------------------------------------------------------------------
(***************************************************************************)
(* Numbers.                                                                *)
(***************************************************************************)
Less == OpToRel(<, Nat)

\* The relation holds for the numbers it is named after.
LEMMA LessDef == \A x, y \in Nat : x < y => <<x, y>> \in Less
    BY Zenon DEF Less, OpToRel

\* It is well founded.
LEMMA LessWellFounded == IsWellFoundedOn(Less, Nat)
    BY Zenon, NatLessThanWellFounded DEF Less

\* A set of numbers that has an element has a least one.
LEMMA LeastNumber ==
    ASSUME NEW T, T \subseteq Nat, T # {}
    PROVE  \E x \in T : \A y \in T : x <= y
<1>1. PICK x \in T : \A y \in T : ~ (<<y, x>> \in Less)
    BY LessWellFounded, WFMin, Zenon
<1>2. ASSUME NEW y \in T PROVE x <= y
    <2>1. ~ (y < x)
        BY <1>1, LessDef
    <2> QED BY <2>1
<1> QED BY <1>2

\* What NewestIsNewest asks for: dates are those that date gives at positions.
DatesAt(dates, positions, date) ==
    /\ positions \subseteq 1 .. MaxEntries
    /\ \A n \in positions : date[n] \in Nat
    /\ \A d : d \in dates <=> \E n \in positions : date[n] = d

\* Of the dates at finitely many positions, and the last watermark, the new
\* watermark is one, and the newest.
LEMMA NewestIsNewest ==
    ASSUME NEW dates, NEW S, NEW date, DatesAt(dates, S, date), NEW watermark \in Nat
    PROVE  /\ Newest(dates, watermark) \in dates \cup {watermark}
           /\ \A other \in dates \cup {watermark} : other <= Newest(dates, watermark)
<1> DEFINE UpTo(k) == {date[n] : n \in {m \in S : m <= k}} \cup {watermark}
           Greatest(k) == \E d \in UpTo(k) : \A other \in UpTo(k) : other <= d
           Wrong == {k \in Nat : ~ Greatest(k)}
           D == dates \cup {watermark}
           last == MaxEntries
<1> USE MaxEntriesAssumption DEF DatesAt
<1>1. ASSUME Wrong # {} PROVE FALSE
    <2>1. PICK k \in Wrong : \A y \in Wrong : k <= y
        <3> HIDE DEF Wrong
        <3>1. Wrong \subseteq Nat
            BY DEF Wrong
        <3> QED BY <1>1, <3>1, LeastNumber
    <2>2. CASE k = 0
        <3>1. UpTo(0) = {watermark}
            OBVIOUS
        <3> QED BY <2>2, <3>1
    <2>3. CASE k # 0
        <3> HIDE DEF Greatest
        <3>1. k - 1 \in Nat /\ ~ (k <= k - 1) /\ k - 1 \notin Wrong
            BY <2>1, <2>3
        <3>2. Greatest(k - 1) /\ ~ Greatest(k)
            BY <3>1, <2>1
        <3> HIDE DEF UpTo
        <3>3. PICK d \in UpTo(k - 1) : \A other \in UpTo(k - 1) : other <= d
            BY <3>2 DEF Greatest
        <3>4. UpTo(k - 1) \subseteq Nat /\ \A n \in S : n <= k <=> n <= k - 1 \/ n = k
            <4>1. UpTo(k - 1) \subseteq Nat
                BY DEF UpTo
            <4>2. k \in Nat /\ \A n \in S : n \in Int
                BY <2>1
            <4> QED BY <4>1, <4>2
        <3>5. CASE k \in S
            <4>1. UpTo(k) = UpTo(k - 1) \cup {date[k]} /\ date[k] \in Nat
                BY <3>4, <3>5 DEF UpTo
            <4>2. CASE date[k] <= d
                BY <3>2, <3>3, <4>1, <4>2 DEF Greatest
            <4>3. CASE ~ (date[k] <= d)
                <5>1. d \in Nat /\ d <= date[k]
                    BY <3>4, <4>1, <4>3
                <5>2. ASSUME NEW other \in UpTo(k - 1) PROVE other <= date[k]
                    <6>1. other \in Nat /\ other <= d
                        BY <3>3, <3>4
                    <6> QED BY <4>1, <5>1, <6>1
                <5>3. date[k] <= date[k]
                    BY <4>1
                <5> QED BY <3>2, <4>1, <5>2, <5>3 DEF Greatest
            <4> QED BY <4>2, <4>3
        <3>6. CASE k \notin S
            <4>1. UpTo(k) = UpTo(k - 1)
                BY <3>4, <3>6 DEF UpTo
            <4> QED BY <3>2, <4>1 DEF Greatest
        <3> QED BY <3>5, <3>6
    <2> QED BY <2>2, <2>3
<1>2. Greatest(last)
    BY <1>1
<1>3. UpTo(last) = D
    OBVIOUS
<1>4. Newest(dates, watermark) = CHOOSE d \in D : \A other \in D : other <= d
    BY DEF Newest
<1>5. \E d \in D : \A other \in D : other <= d
    BY <1>2, <1>3
<1> HIDE DEF D
<1>6. /\ Newest(dates, watermark) \in D
      /\ \A other \in D : other <= Newest(dates, watermark)
    BY <1>4, <1>5, Zenon
<1> QED BY <1>6 DEF D
-----------------------------------------------------------------------------
(***************************************************************************)
(* Batches, and what the adapters return.                                  *)
(***************************************************************************)

\* Items at some positions of a feed are a batch.
LEMMA BatchIntro ==
    ASSUME NEW P, P \subseteq 1 .. MaxEntries, NEW b \in [P -> Entries]
    PROVE  b \in Batches
    BY DEF Batches

\* Where a batch has items, and what they are.
LEMMA BatchElim ==
    ASSUME NEW b \in Batches
    PROVE  /\ DOMAIN b \subseteq 1 .. MaxEntries
           /\ \A n \in DOMAIN b : b[n] \in Entries
           /\ b = [n \in DOMAIN b |-> b[n]]
<1>1. PICK P \in SUBSET (1 .. MaxEntries) : b \in [P -> Entries]
    BY DEF Batches
<1> QED BY <1>1

\* An empty batch.
LEMMA NothingIsABatch == <<>> \in Batches /\ DOMAIN <<>> = {}
<1>1. <<>> \in [{} -> Entries] /\ {} \subseteq 1 .. MaxEntries
    OBVIOUS
<1> QED BY <1>1, BatchIntro

\* A batch with an item taken out.
LEMMA BatchWithout ==
    ASSUME NEW b \in Batches, NEW n
    PROVE  /\ Restrict(b, DOMAIN b \ {n}) \in Batches
           /\ DOMAIN Restrict(b, DOMAIN b \ {n}) = DOMAIN b \ {n}
           /\ \A m \in DOMAIN b \ {n} : Restrict(b, DOMAIN b \ {n})[m] = b[m]
<1> DEFINE P == DOMAIN b \ {n}
<1>1. Restrict(b, P) = [m \in P |-> b[m]]
    BY DEF Restrict
<1>2. P \subseteq 1 .. MaxEntries /\ \A m \in P : b[m] \in Entries
    BY BatchElim
<1>3. Restrict(b, P) \in [P -> Entries]
    BY <1>1, <1>2
<1> QED BY <1>1, <1>2, <1>3, BatchIntro

\* A batch that is not empty has a first item.
LEMMA FirstOfBatch ==
    ASSUME NEW b \in Batches, DOMAIN b # {}
    PROVE  LET first == CHOOSE n \in DOMAIN b : \A m \in DOMAIN b : n <= m
           IN  first \in DOMAIN b /\ b[first] \in Entries
<1>1. DOMAIN b \subseteq Nat
    BY BatchElim, MaxEntriesAssumption
<1>2. \E n \in DOMAIN b : \A m \in DOMAIN b : n <= m
    BY <1>1, LeastNumber
<1> QED BY <1>2, BatchElim

\* What the scanner reads of a feed, and which of it the adapter makes items of.
LEMMA ReadFeedTyped ==
    ASSUME NEW entries \in Seq(Entries), NEW stamp \in 1 .. MaxEvents + 1, NEW c \in Cursors
    PROVE  LET r == ReadFeed(entries, stamp, c)
           IN  r.items \in Batches /\ r.quarantined \in BOOLEAN /\ r.cursor \in Cursors
<1> DEFINE usable == {n \in Visible(entries) : entries[n].usable}
           fresh  == {m \in usable : PastWatermark(entries[m], c.watermark)}
           dates  == {entries[n].date : n \in usable}
           date   == [n \in usable |-> entries[n].date]
<1>1. usable \subseteq 1 .. MaxEntries /\ \A n \in usable : entries[n] \in Entries
    BY MaxEntriesAssumption DEF Visible
<1>2. \A n \in usable : date[n] \in Nat /\ date[n] = entries[n].date
    BY <1>1, IngestionAssumption DEF Entries, Dates
<1>3. c.watermark \in Nat
    BY DEF Cursors
<1>4. \A d : d \in dates <=> \E n \in usable : date[n] = d
    BY <1>2
<1>5. Newest(dates, c.watermark) \in Nat
    <2> HIDE DEF usable, dates, date
    <2>1. DatesAt(dates, usable, date)
        BY <1>1, <1>2, <1>4 DEF DatesAt
    <2>2. Newest(dates, c.watermark) \in dates \cup {c.watermark}
        BY <1>3, <2>1, NewestIsNewest
    <2> QED BY <1>2, <1>3, <1>4, <2>2
<1>6. [n \in fresh |-> entries[n]] \in Batches
    <2>1. fresh \subseteq 1 .. MaxEntries /\ [n \in fresh |-> entries[n]] \in [fresh -> Entries]
        BY <1>1
    <2> QED BY <2>1, BatchIntro
<1>7. [stamp |-> stamp, watermark |-> Newest(dates, c.watermark), hash |-> None] \in Cursors
    BY <1>5, IngestionAssumption DEF Cursors
<1> QED BY <1>6, <1>7 DEF ReadFeed

\* What the adapter makes of a page.
LEMMA ReadPageTyped ==
    ASSUME NEW entry \in Entries, NEW stamp \in 1 .. MaxEvents + 1, NEW c \in Cursors
    PROVE  LET r == ReadPage(entry, stamp, c)
           IN  r.items \in Batches /\ r.quarantined \in BOOLEAN /\ r.cursor \in Cursors
<1>1. <<entry>> \in Batches
    <2>1. <<entry>> \in [{1} -> Entries] /\ {1} \subseteq 1 .. MaxEntries
        BY MaxEntriesAssumption
    <2> QED BY <2>1, BatchIntro
<1>2. /\ [NoCursor EXCEPT !.stamp = stamp] \in Cursors
      /\ [stamp |-> stamp, watermark |-> 0, hash |-> entry.text] \in Cursors
    BY IngestionAssumption DEF NoCursor, Cursors, Entries
<1> QED BY <1>1, <1>2, NothingIsABatch DEF ReadPage, Unchanged
-----------------------------------------------------------------------------
(***************************************************************************)
(* Types, bounds, and the job of a worker.                                 *)
(***************************************************************************)
\* In the beginning nothing has run.
LEMMA InitBase == Init => Base
<1> SUFFICES ASSUME Init PROVE Base
    OBVIOUS
<1> USE IngestionAssumption
<1>1. NoCursor \in Cursors /\ NoRun \in Runs
    <2>1. NoCursor \in Cursors
        BY DEF NoCursor, Cursors
    <2> QED BY <2>1, NothingIsABatch DEF NoRun, Runs, Steps
<1>2. \A i \in Ids : Published(i) \in Entries
    BY DEF Published, Entries, Dates
<1>3. TypeOK
    <2>1. source \in [Sources -> [kind : {"RSS", "WEB"}, url : Urls,
                               status : {"ACTIVE", "PAUSED"}, cursor : Cursors]]
        BY <1>1 DEF Init
    <2>2. origin \in [Urls -> [entries : Seq(Entries), stamp : 1..MaxEvents + 1]]
        BY <1>2 DEF Init
    <2>3. run \in [Workers -> Runs]
        BY <1>1 DEF Init
    <2>4. /\ window \in 0..MaxWindow /\ events \in 0..MaxEvents
          /\ job \in [Jobs -> [state : {"none", "waiting", "active", "completed", "failed"},
                              failures : 0..MaxAttempts]]
        BY DEF Init
    <2> QED BY <2>1, <2>2, <2>3, <2>4 DEF TypeOK, Init
<1>4. Bounds
    BY DEF Bounds, Init
<1>5. RunsHaveJobs
    BY DEF RunsHaveJobs, Init, Working, NoRun
<1>6. Feeds
    <2>1. \A u \in Urls : IsFeed(KindOf[u], origin[u].entries)
        <3> SUFFICES ASSUME NEW u \in Urls PROVE IsFeed(KindOf[u], origin[u].entries)
            OBVIOUS
        <3>1. origin[u].entries = <<Published(StartAt[u])>>
            BY DEF Init
        <3>2. DOMAIN origin[u].entries = {1} /\ Len(origin[u].entries) = 1
            BY <3>1
        <3>3. origin[u].entries[1] = Published(StartAt[u])
            BY <3>1
        <3>4. /\ Published(StartAt[u]).date = DateOf[Published(StartAt[u]).id]
              /\ Published(StartAt[u]).usable <=> Published(StartAt[u]).id \notin Broken
              /\ KindOf[u] = "WEB" => Published(StartAt[u]).date = 0
            BY DEF Published
        <3> QED BY <3>2, <3>3, <3>4 DEF IsFeed
    <2>2. \A w \in Workers : ~ Working(w)
        BY DEF Init, Working, NoRun
    <2> QED BY <2>1, <2>2 DEF Feeds, Init
<1> QED BY <1>3, <1>4, <1>5, <1>6 DEF Base

\* Content changes at one address, which is newer for it than any was.
LEMMA ChangeBase ==
    ASSUME Base, NEW u \in Urls, NEW entries \in Seq(Entries), Change(u, entries),
           IsFeed(KindOf[u], entries)
    PROVE  Base'
<1> USE IngestionAssumption
<1>1. PICK t \in 1 .. MaxEvents + 1 :
          Clock(t) /\ origin' = [origin EXCEPT ![u] = [entries |-> entries, stamp |-> t + 1]]
    BY DEF Change
<1>2. /\ events < MaxEvents /\ events' = events + 1 /\ events \in Nat
      /\ UNCHANGED <<database, queues, history, window, run>>
    BY DEF Change, Event, Base, TypeOK
<1>3. t <= events + 1
    BY <1>1 DEF Clock, Base, Bounds
<1>4. TypeOK'
    <2>1. t + 1 \in 1 .. MaxEvents + 1
        BY <1>2, <1>3
    <2> DEFINE new == [entries |-> entries, stamp |-> t + 1]
    <2>2. new \in [entries : Seq(Entries), stamp : 1..MaxEvents + 1] /\ origin' = [origin EXCEPT ![u] = new]
        BY <1>1, <2>1
    <2> HIDE DEF new
    <2>3. origin' \in [Urls -> [entries : Seq(Entries), stamp : 1..MaxEvents + 1]]
        BY <2>2 DEF Base, TypeOK
    <2>4. events' \in 0 .. MaxEvents
        BY <1>2
    <2> QED BY <1>2, <2>3, <2>4 DEF Base, TypeOK, database, queues, history
<1>5. Bounds'
    <2>1. \A v \in Urls : origin'[v].stamp <= events' + 1
        BY <1>1, <1>2, <1>3 DEF Base, Bounds, TypeOK
    <2> QED BY <1>2, <2>1 DEF Base, Bounds, queues
<1>6. RunsHaveJobs'
    BY <1>2 DEF Base, RunsHaveJobs, queues, Working
<1>7. Feeds'
    <2>1. \A v \in Urls : IsFeed(KindOf[v], origin'[v].entries)
        BY <1>1 DEF Base, Feeds, TypeOK
    <2> QED BY <1>2, <2>1 DEF Base, Feeds, database, Working, SourceOf
<1> QED BY <1>4, <1>5, <1>6, <1>7 DEF Base

\* An entry as it is published.
LEMMA PublishedTyped ==
    ASSUME NEW i \in Ids
    PROVE  /\ Published(i) \in Entries /\ Published(i).id = i /\ Published(i).date = DateOf[i]
           /\ Published(i).usable <=> i \notin Broken
<1>1. Published(i).id = i /\ Published(i).date = DateOf[i]
    BY DEF Published
<1>2. Published(i).usable <=> i \notin Broken
    BY DEF Published
<1>3. Published(i) \in Entries
    BY IngestionAssumption DEF Published, Entries, Dates
<1> QED BY <1>1, <1>2, <1>3

\* A feed that gains a first entry.
LEMMA GrownFeed ==
    ASSUME NEW i \in Ids, NEW entries \in Seq(Entries), NEW kind, kind # "WEB", IsFeed(kind, entries),
           \A n \in DOMAIN entries : entries[n].id # i,
           \A n \in DOMAIN entries : DateOf[i] = 0 \/ DateOf[i] >= entries[n].date
    PROVE  LET later == <<Published(i)>> \o entries
           IN  later \in Seq(Entries) /\ IsFeed(kind, later) /\ Follows(entries, later)
<1> DEFINE later == <<Published(i)>> \o entries
<1>1. later \in Seq(Entries)
    BY PublishedTyped
<1>2. /\ DOMAIN later = 1 .. Len(entries) + 1 /\ DOMAIN entries = 1 .. Len(entries)
      /\ later[1] = Published(i)
      /\ \A n \in DOMAIN later : n # 1 => n - 1 \in DOMAIN entries /\ later[n] = entries[n - 1]
      /\ \A m \in DOMAIN entries : m + 1 \in DOMAIN later /\ later[m + 1] = entries[m] /\ m <= m + 1
    <2>1. Len(<<Published(i)>>) = 1 /\ <<Published(i)>>[1] = Published(i)
        OBVIOUS
    <2>2. <<Published(i)>> \in Seq(Entries)
        BY PublishedTyped
    <2> QED BY <2>1, <2>2
<1> HIDE DEF later
<1>3. IsFeed(kind, later)
    <2>1. ASSUME NEW n \in DOMAIN later
          PROVE  /\ later[n].date = DateOf[later[n].id]
                 /\ later[n].usable <=> later[n].id \notin Broken
        <3>1. CASE n = 1
            BY <1>2, <3>1, PublishedTyped
        <3>2. CASE n # 1
            <4>1. n - 1 \in DOMAIN entries /\ later[n] = entries[n - 1]
                BY <1>2, <3>2
            <4>2. entries[n - 1].date = DateOf[entries[n - 1].id]
                BY <4>1 DEF IsFeed
            <4>3. entries[n - 1].usable <=> entries[n - 1].id \notin Broken
                BY <4>1, Zenon DEF IsFeed
            <4> QED BY <4>1, <4>2, <4>3
        <3> QED BY <3>1, <3>2
    <2>2. ASSUME NEW m \in DOMAIN later, NEW n \in DOMAIN later, later[n].id = later[m].id
          PROVE  m = n
        <3>1. later[1].id = i
            BY <1>2, PublishedTyped
        <3>2. CASE n = 1 \/ m = 1
            BY <1>2, <2>2, <3>1, <3>2
        <3>3. CASE n # 1 /\ m # 1
            <4>1. m - 1 = n - 1
                BY <1>2, <2>2, <3>3 DEF IsFeed
            <4> QED BY <1>2, <4>1
        <3> QED BY <3>2, <3>3
    <2> QED BY <2>1, <2>2 DEF IsFeed
<1>4. Follows(entries, later)
    <2>1. ASSUME NEW n \in DOMAIN later
          PROVE  \/ later[n].date = 0
                 \/ \E m \in DOMAIN entries : m <= n /\ entries[m].id = later[n].id
                 \/ \A m \in DOMAIN entries : entries[m].id # later[n].id /\ entries[m].date <= later[n].date
        <3>1. CASE n = 1
            <4>1. later[n].id = i /\ later[n].date = DateOf[i]
                BY <1>2, <3>1, PublishedTyped
            <4>2. DateOf[i] \in Nat /\ \A m \in DOMAIN entries : entries[m].date \in Nat
                <5>1. \A m \in DOMAIN entries : entries[m] \in Entries
                    OBVIOUS
                <5>2. DateOf[i] \in Nat /\ Dates \subseteq Nat
                    BY IngestionAssumption DEF Dates
                <5> QED BY <5>1, <5>2 DEF Entries
            <4> QED BY <4>1, <4>2
        <3>2. CASE n # 1
            <4>1. n - 1 \in DOMAIN entries /\ n - 1 <= n /\ later[n] = entries[n - 1]
                BY <1>2, <3>2
            <4> QED BY <4>1
        <3> QED BY <3>1, <3>2
    <2>2. ASSUME NEW m \in DOMAIN entries
          PROVE  \E n \in DOMAIN later : later[n].date = entries[m].date
        BY <1>2
    <2> QED BY <2>1, <2>2 DEF Follows
<1> QED BY <1>1, <1>3, <1>4 DEF later

\* A page with another canonical address.
LEMMA OtherPage ==
    ASSUME NEW i \in Ids, DateOf[i] = 0, NEW entries \in Seq(Entries), IsFeed("WEB", entries)
    PROVE  LET later == <<Published(i)>>
           IN  later \in Seq(Entries) /\ IsFeed("WEB", later) /\ Follows(entries, later)
<1> DEFINE later == <<Published(i)>>
<1>1. later \in Seq(Entries)
    BY PublishedTyped
<1>2. Len(later) = 1 /\ DOMAIN later = {1} /\ later[1] = Published(i)
    OBVIOUS
<1> HIDE DEF later
<1>3. IsFeed("WEB", later)
    BY <1>2, PublishedTyped DEF IsFeed
<1>4. Follows(entries, later)
    <2>1. DOMAIN entries = {1} /\ entries[1].date = 0
        BY DEF IsFeed
    <2>2. \A n \in DOMAIN later : later[n].date = 0
        BY <1>2, PublishedTyped
    <2> QED BY <2>1, <2>2 DEF Follows
<1> QED BY <1>1, <1>3, <1>4 DEF later

\* An entry with another text.
LEMMA RewrittenFeed ==
    ASSUME NEW entries \in Seq(Entries), NEW kind, IsFeed(kind, entries),
           NEW p \in DOMAIN entries, NEW t \in Texts
    PROVE  LET later == [entries EXCEPT ![p].text = t]
           IN  later \in Seq(Entries) /\ IsFeed(kind, later) /\ Follows(entries, later)
<1> DEFINE later == [entries EXCEPT ![p].text = t]
<1>1. \A n \in DOMAIN entries : entries[n] \in Entries
    OBVIOUS
<1>2. [entries[p] EXCEPT !.text = t] \in Entries
    BY <1>1 DEF Entries
<1>3. later \in Seq(Entries)
    BY <1>2
<1>4. /\ DOMAIN later = DOMAIN entries /\ Len(later) = Len(entries)
      /\ \A n \in DOMAIN entries :
            /\ later[n].id = entries[n].id /\ later[n].date = entries[n].date
            /\ later[n].usable = entries[n].usable
    <2>1. later[p] = [entries[p] EXCEPT !.text = t] /\ \A n \in DOMAIN entries \ {p} : later[n] = entries[n]
        OBVIOUS
    <2>2. /\ later[p].id = entries[p].id /\ later[p].date = entries[p].date
          /\ later[p].usable = entries[p].usable
        BY <1>1, <2>1 DEF Entries
    <2>3. DOMAIN later = DOMAIN entries /\ Len(later) = Len(entries)
        BY <1>3
    <2> QED BY <2>1, <2>2, <2>3
<1> HIDE DEF later
<1>5. IsFeed(kind, later)
    <2>1. ASSUME NEW n \in DOMAIN later
          PROVE  /\ later[n].date = DateOf[later[n].id]
                 /\ later[n].usable <=> later[n].id \notin Broken
        <3>1. /\ n \in DOMAIN entries /\ later[n].id = entries[n].id
              /\ later[n].date = entries[n].date /\ later[n].usable = entries[n].usable
            BY <1>4
        <3>2. entries[n].date = DateOf[entries[n].id]
            BY <3>1 DEF IsFeed
        <3>3. entries[n].usable <=> entries[n].id \notin Broken
            BY <3>1, Zenon DEF IsFeed
        <3> QED BY <3>1, <3>2, <3>3
    <2>3. \A m, n \in DOMAIN later : later[m].id = later[n].id => m = n
        BY <1>4 DEF IsFeed
    <2>4. kind = "WEB" => Len(later) = 1 /\ later[1].date = 0
        BY <1>4 DEF IsFeed
    <2> QED BY <2>1, <2>3, <2>4 DEF IsFeed
<1>6. Follows(entries, later)
    <2>1. \A n \in DOMAIN entries : n <= n
        OBVIOUS
    <2> QED BY <1>4, <2>1 DEF Follows
<1> QED BY <1>3, <1>5, <1>6 DEF later

\* What the origins do is a change of content to content that follows it.
LEMMA ContentFollows ==
    ASSUME Base, NEW u \in Urls, Publish(u) \/ Rewrite(u)
    PROVE  \E entries \in Seq(Entries) :
              /\ Change(u, entries)
              /\ IsFeed(KindOf[u], entries) /\ Follows(origin[u].entries, entries)
<1> DEFINE at == origin[u].entries
<1>1. at \in Seq(Entries) /\ IsFeed(KindOf[u], at) /\ KindOf[u] \in {"RSS", "WEB"}
    BY IngestionAssumption DEF Base, TypeOK, Feeds
<1>2. CASE Publish(u)
    <2>1. PICK i \in Ids :
              /\ \A n \in DOMAIN at : at[n].id # i
              /\ IF KindOf[u] = "WEB"
                 THEN DateOf[i] = 0 /\ Change(u, <<Published(i)>>)
                 ELSE /\ \A n \in DOMAIN at : DateOf[i] = 0 \/ DateOf[i] >= at[n].date
                      /\ Change(u, <<Published(i)>> \o at)
        BY <1>2 DEF Publish
    <2>2. CASE KindOf[u] = "WEB"
        BY <1>1, <2>1, <2>2, OtherPage
    <2>3. CASE KindOf[u] # "WEB"
        BY <1>1, <2>1, <2>3, GrownFeed
    <2> QED BY <2>2, <2>3
<1>3. CASE Rewrite(u)
    <2>1. PICK p \in DOMAIN at, t \in Texts : Change(u, [at EXCEPT ![p].text = t])
        BY <1>3 DEF Rewrite
    <2> QED BY <1>1, <2>1, RewrittenFeed
<1> QED BY <1>2, <1>3

\* So the base holds on when an origin does something.
LEMMA OriginBase ==
    ASSUME Base, NEW u \in Urls, Publish(u) \/ Rewrite(u)
    PROVE  Base'
<1>1. PICK entries \in Seq(Entries) : Change(u, entries) /\ IsFeed(KindOf[u], entries)
    BY ContentFollows
<1> QED BY <1>1, ChangeBase

\* What a worker at work has.
LEMMA WorkerHas ==
    ASSUME Base, NEW w \in Workers, Working(w)
    PROVE  /\ run[w] \in Runs /\ run[w].job \in Jobs /\ run[w].url \in Urls
           /\ ChannelOf(w) \in Channels /\ SourceOf(w) \in Sources
           /\ run[w].cursor \in Cursors /\ run[w].todo \in Batches /\ run[w].degraded \in BOOLEAN
           /\ job[run[w].job].state = "active" /\ job[run[w].job].failures < MaxAttempts
           /\ job[run[w].job].failures \in Nat
<1>1. run[w] \in Runs /\ run[w].job \in Jobs /\ run[w].url \in Urls
    BY DEF Base, TypeOK, RunsHaveJobs
<1>2. run[w].cursor \in Cursors /\ run[w].todo \in Batches /\ run[w].degraded \in BOOLEAN
    BY <1>1 DEF Runs
<1>3. ChannelOf(w) \in Channels /\ SourceOf(w) \in Sources
    BY <1>1 DEF ChannelOf, SourceOf, Jobs
<1>4. job[run[w].job].state = "active"
    BY DEF Base, RunsHaveJobs
<1>5. job[run[w].job].failures < MaxAttempts /\ job[run[w].job].failures \in Nat
    <2>1. job[run[w].job].failures \in 0 .. MaxAttempts
        BY <1>1 DEF Base, TypeOK
    <2>2. job[run[w].job].failures < MaxAttempts
        BY <1>1, <1>4 DEF Base, Bounds
    <2> QED BY <2>1, <2>2, IngestionAssumption
<1> QED BY <1>1, <1>2, <1>3, <1>4, <1>5

\* A worker without a run.
LEMMA NoRunTyped == NoRun \in Runs /\ NoRun.step = "idle" /\ NoCursor \in Cursors
<1>1. NoCursor \in Cursors
    BY IngestionAssumption DEF NoCursor, Cursors
<1> QED BY <1>1, NothingIsABatch DEF NoRun, Runs, Steps

\* A run goes on: the worker keeps its job and its address.
LEMMA AdvanceBase ==
    ASSUME Base, NEW w \in Workers, Working(w), NEW r \in Runs,
           r.step \notin {"idle", "fetch"}, r.job = run[w].job, r.url = run[w].url,
           run' = [run EXCEPT ![w] = r], job' = job, UNCHANGED origin,
           \A s \in Sources : source'[s].kind = source[s].kind /\ source'[s].url = source[s].url
    PROVE  run' \in [Workers -> Runs] /\ RunsHaveJobs' /\ Feeds'
<1>1. run \in [Workers -> Runs] /\ run' \in [Workers -> Runs] /\ run'[w] = r
      /\ \A v \in Workers \ {w} : run'[v] = run[v]
    BY DEF Base, TypeOK
<1>2. \A v \in Workers : /\ Working(v)' <=> Working(v)
                         /\ run'[v].job = run[v].job /\ run'[v].url = run[v].url
                         /\ run'[v].step = "fetch" => run'[v] = run[v]
    BY <1>1 DEF Working
<1>3. RunsHaveJobs'
    BY <1>2 DEF Base, RunsHaveJobs, Working
<1>4. \A v \in Workers : Working(v) => SourceOf(v) \in Sources
    BY WorkerHas
<1>5. Feeds'
    <2>1. \A u \in Urls : IsFeed(KindOf[u], origin'[u].entries)
        BY DEF Base, Feeds
    <2>2. \A s \in Sources : source'[s].kind = KindOf[source'[s].url]
        BY DEF Base, Feeds
    <2>3. \A v \in Workers : Working(v)' => source'[SourceOf(v)'].kind = KindOf[run'[v].url]
        BY <1>2, <1>4 DEF Base, Feeds, SourceOf
    <2> QED BY <2>1, <2>2, <2>3 DEF Feeds
<1> QED BY <1>1, <1>3, <1>5

\* A run ends, with its job in another state.
LEMMA LeaveBase ==
    ASSUME Base, NEW w \in Workers, Working(w), NEW state \in {"waiting", "completed", "failed"},
           NEW failures \in 0 .. MaxAttempts,
           state = "waiting" => failures < MaxAttempts,
           run' = [run EXCEPT ![w] = NoRun],
           job' = [job EXCEPT ![run[w].job] = [state |-> state, failures |-> failures]],
           UNCHANGED <<origin, source>>
    PROVE  /\ run' \in [Workers -> Runs]
           /\ job' \in [Jobs -> [state : {"none", "waiting", "active", "completed", "failed"},
                                 failures : 0..MaxAttempts]]
           /\ \A j \in Jobs : job'[j].state \notin {"completed", "failed"} => job'[j].failures < MaxAttempts
           /\ RunsHaveJobs' /\ Feeds'
<1>1. run \in [Workers -> Runs] /\ run' \in [Workers -> Runs] /\ run'[w] = NoRun
      /\ \A v \in Workers \ {w} : run'[v] = run[v]
    BY NoRunTyped DEF Base, TypeOK
<1>2. \A v \in Workers : Working(v)' => v # w /\ Working(v) /\ run'[v] = run[v]
    BY <1>1, NoRunTyped DEF Working
<1>3. /\ job \in [Jobs -> [state : {"none", "waiting", "active", "completed", "failed"},
                           failures : 0..MaxAttempts]]
      /\ run[w].job \in Jobs
    BY WorkerHas DEF Base, TypeOK
<1>4. /\ job' \in [Jobs -> [state : {"none", "waiting", "active", "completed", "failed"},
                           failures : 0..MaxAttempts]]
      /\ job'[run[w].job] = [state |-> state, failures |-> failures]
      /\ \A j \in Jobs \ {run[w].job} : job'[j] = job[j]
    BY <1>3
<1>5. \A j \in Jobs : job'[j].state \notin {"completed", "failed"} => job'[j].failures < MaxAttempts
    BY <1>3, <1>4 DEF Base, Bounds
<1>6. \A v \in Workers : Working(v)' => run[v].job # run[w].job
    BY <1>2 DEF Base, RunsHaveJobs
<1>7. RunsHaveJobs'
    BY <1>2, <1>4, <1>6 DEF Base, RunsHaveJobs
<1>8. Feeds'
    BY <1>2 DEF Base, Feeds, SourceOf
<1> QED BY <1>1, <1>4, <1>5, <1>7, <1>8

\* An event counts, within the bound.
LEMMA EventTyped ==
    ASSUME Base, Event
    PROVE  events' \in 0 .. MaxEvents /\ events' = events + 1 /\ events \in Nat
    BY IngestionAssumption DEF Base, TypeOK, Event

\* Where neither content, jobs, runs nor the rows' addresses change, only types
\* and the count of events are left to check.
LEMMA QuietBase ==
    ASSUME Base, UNCHANGED <<origin, job, run>>, events' \in {events, events + 1},
           \A s \in Sources : source'[s].kind = source[s].kind /\ source'[s].url = source[s].url
    PROVE  Bounds' /\ RunsHaveJobs' /\ Feeds'
<1>1. Bounds'
    <2>1. \A u \in Urls : origin[u].stamp \in Nat /\ events \in Nat
        BY IngestionAssumption DEF Base, TypeOK
    <2> QED BY <2>1 DEF Base, Bounds
<1>2. RunsHaveJobs'
    BY DEF Base, RunsHaveJobs, Working
<1>3. Feeds'
    <2>1. \A v \in Workers : Working(v) => SourceOf(v) \in Sources
        BY WorkerHas
    <2> QED BY <2>1 DEF Base, Feeds, Working, SourceOf
<1> QED BY <1>1, <1>2, <1>3

\* Time passes.
LEMMA NextWindowBase == ASSUME Base, NextWindow PROVE Base'
<1>1. TypeOK'
    <2>1. window' \in 0 .. MaxWindow
        BY IngestionAssumption DEF Base, TypeOK, NextWindow
    <2> QED BY <2>1, EventTyped DEF Base, TypeOK, NextWindow, database, queues, history
<1>2. Bounds' /\ RunsHaveJobs' /\ Feeds'
    BY QuietBase, EventTyped DEF NextWindow, database, queues
<1> QED BY <1>1, <1>2 DEF Base

\* An editor binds a channel or lets it go.
LEMMA BindingBase ==
    ASSUME Base, NEW c \in Channels, NEW s \in Sources, Create(c, s) \/ Disable(c, s)
    PROVE  Base'
<1>1. TypeOK'
    <2>1. binding' \in [Channels -> [Sources -> {"unbound", "enabled", "disabled"}]]
        <3>1. PICK b \in {"enabled", "disabled"} : binding' = [binding EXCEPT ![c][s] = b]
            BY DEF Create, Disable
        <3> QED BY <3>1 DEF Base, TypeOK
    <2> QED BY <2>1, EventTyped DEF Base, TypeOK, Create, Disable, queues, history
<1>2. Bounds' /\ RunsHaveJobs' /\ Feeds'
    BY QuietBase, EventTyped DEF Create, Disable, queues
<1> QED BY <1>1, <1>2 DEF Base

\* A row of the table of sources is written: the other rows are as they were.
LEMMA OneRow ==
    ASSUME Base, NEW s \in Sources
    PROVE  /\ \A status \in {"ACTIVE", "PAUSED"} :
                source' = [source EXCEPT ![s].status = status] =>
                    /\ source' \in [Sources -> [kind : {"RSS", "WEB"}, url : Urls,
                                                status : {"ACTIVE", "PAUSED"}, cursor : Cursors]]
                    /\ \A x \in Sources : source'[x].kind = source[x].kind /\ source'[x].url = source[x].url
           /\ \A u \in Urls :
                source' = [source EXCEPT ![s].url = u] =>
                    /\ source' \in [Sources -> [kind : {"RSS", "WEB"}, url : Urls,
                                                status : {"ACTIVE", "PAUSED"}, cursor : Cursors]]
                    /\ \A x \in Sources : source'[x].kind = source[x].kind
                    /\ source'[s].url = u /\ \A x \in Sources \ {s} : source'[x].url = source[x].url
           /\ \A c \in Cursors :
                source' = [source EXCEPT ![s].cursor = c] =>
                    /\ source' \in [Sources -> [kind : {"RSS", "WEB"}, url : Urls,
                                                status : {"ACTIVE", "PAUSED"}, cursor : Cursors]]
                    /\ \A x \in Sources : source'[x].kind = source[x].kind /\ source'[x].url = source[x].url
                    /\ source'[s].cursor = c /\ \A x \in Sources \ {s} : source'[x] = source[x]
<1> DEFINE Rows == [kind : {"RSS", "WEB"}, url : Urls, status : {"ACTIVE", "PAUSED"}, cursor : Cursors]
<1>1. source \in [Sources -> Rows]
    BY DEF Base, TypeOK
<1>2. \A x \in Sources : source[x] \in Rows
    BY <1>1
<1>3. ASSUME NEW row \in Rows, source' = [source EXCEPT ![s] = row]
      PROVE  source' \in [Sources -> Rows] /\ source'[s] = row /\ \A x \in Sources \ {s} : source'[x] = source[x]
    <2> HIDE DEF Rows
    <2> QED BY <1>1, <1>3
<1>4. ASSUME NEW status \in {"ACTIVE", "PAUSED"}, source' = [source EXCEPT ![s].status = status]
      PROVE  /\ source' \in [Sources -> Rows]
             /\ \A x \in Sources : source'[x].kind = source[x].kind /\ source'[x].url = source[x].url
    <2>1. PICK row \in Rows : row = [source[s] EXCEPT !.status = status]
        BY <1>2
    <2>2. row.kind = source[s].kind /\ row.url = source[s].url
        BY <1>2, <2>1
    <2>3. source' = [source EXCEPT ![s] = row]
        BY <1>4, <2>1
    <2> QED BY <1>3, <2>2, <2>3
<1>5. ASSUME NEW u \in Urls, source' = [source EXCEPT ![s].url = u]
      PROVE  /\ source' \in [Sources -> Rows]
             /\ \A x \in Sources : source'[x].kind = source[x].kind
             /\ source'[s].url = u /\ \A x \in Sources \ {s} : source'[x].url = source[x].url
    <2>1. PICK row \in Rows : row = [source[s] EXCEPT !.url = u]
        BY <1>2
    <2>2. row.kind = source[s].kind /\ row.url = u
        BY <1>2, <2>1
    <2>3. source' = [source EXCEPT ![s] = row]
        BY <1>5, <2>1
    <2> QED BY <1>3, <2>2, <2>3
<1>6. ASSUME NEW c \in Cursors, source' = [source EXCEPT ![s].cursor = c]
      PROVE  /\ source' \in [Sources -> Rows]
             /\ \A x \in Sources : source'[x].kind = source[x].kind /\ source'[x].url = source[x].url
             /\ source'[s].cursor = c /\ \A x \in Sources \ {s} : source'[x] = source[x]
    <2>1. PICK row \in Rows : row = [source[s] EXCEPT !.cursor = c]
        BY <1>2
    <2>2. row.kind = source[s].kind /\ row.url = source[s].url /\ row.cursor = c
        BY <1>2, <2>1
    <2>3. source' = [source EXCEPT ![s] = row]
        BY <1>6, <2>1
    <2> QED BY <1>3, <2>2, <2>3
<1> QED BY <1>4, <1>5, <1>6

\* An editor pauses a source or resumes it.
LEMMA SetStatusBase ==
    ASSUME Base, NEW c \in Channels, NEW s \in Sources, SetStatus(c, s)
    PROVE  Base'
<1>1. PICK status \in {"ACTIVE", "PAUSED"} : source' = [source EXCEPT ![s].status = status]
    BY DEF SetStatus
<1>2. /\ source' \in [Sources -> [kind : {"RSS", "WEB"}, url : Urls,
                                  status : {"ACTIVE", "PAUSED"}, cursor : Cursors]]
      /\ \A x \in Sources : source'[x].kind = source[x].kind /\ source'[x].url = source[x].url
    BY <1>1, OneRow
<1>3. TypeOK'
    BY <1>2, EventTyped DEF Base, TypeOK, SetStatus, queues, history
<1>4. Bounds' /\ RunsHaveJobs' /\ Feeds'
    BY <1>2, QuietBase, EventTyped DEF SetStatus, queues
<1> QED BY <1>3, <1>4 DEF Base

\* An editor gives a source another address of its kind.
LEMMA ReaddressBase ==
    ASSUME Base, NEW c \in Channels, NEW s \in Sources, Readdress(c, s)
    PROVE  Base'
<1>1. PICK u \in Urls : KindOf[u] = source[s].kind /\ source' = [source EXCEPT ![s].url = u]
    BY DEF Readdress
<1>2. /\ source' \in [Sources -> [kind : {"RSS", "WEB"}, url : Urls,
                                  status : {"ACTIVE", "PAUSED"}, cursor : Cursors]]
      /\ \A x \in Sources : source'[x].kind = source[x].kind
      /\ source'[s].url = u /\ \A x \in Sources \ {s} : source'[x].url = source[x].url
    BY <1>1, OneRow
<1>3. TypeOK'
    BY <1>2, EventTyped DEF Base, TypeOK, Readdress, queues
<1>4. Bounds'
    <2>1. \A v \in Urls : origin[v].stamp \in Nat
        BY IngestionAssumption DEF Base, TypeOK
    <2> QED BY <2>1, EventTyped DEF Base, Bounds, Readdress, queues
<1>5. RunsHaveJobs'
    BY DEF Base, RunsHaveJobs, Working, Readdress, queues
<1>6. Feeds'
    <2>1. \A v \in Workers : Working(v) => SourceOf(v) \in Sources
        BY WorkerHas
    <2>2. \A x \in Sources : source'[x].kind = KindOf[source'[x].url]
        BY <1>1, <1>2 DEF Base, Feeds
    <2>3. UNCHANGED <<origin, run>>
        BY DEF Readdress
    <2> QED BY <1>2, <2>1, <2>2, <2>3 DEF Base, Feeds, Working, SourceOf
<1> QED BY <1>3, <1>4, <1>5, <1>6 DEF Base

\* An ingestion is triggered.
LEMMA EnqueueBase ==
    ASSUME Base, NEW c \in Channels, NEW s \in Sources, Enqueue(c, s)
    PROVE  Base'
<1> DEFINE j == <<c, s, window>>
<1>1. /\ j \in Jobs /\ job[j].state = "none" /\ job[j].failures < MaxAttempts
      /\ job' = [job EXCEPT ![j].state = "waiting"]
      /\ UNCHANGED <<database, handoff, history, origin, window, run, events>>
    BY DEF Base, TypeOK, Bounds, Enqueue, Jobs
<1> HIDE DEF j
<1>2. /\ job' \in [Jobs -> [state : {"none", "waiting", "active", "completed", "failed"},
                           failures : 0..MaxAttempts]]
      /\ job'[j].state = "waiting" /\ job'[j].failures = job[j].failures
      /\ \A i \in Jobs \ {j} : job'[i] = job[i]
    BY <1>1 DEF Base, TypeOK
<1>3. TypeOK'
    BY <1>1, <1>2 DEF Base, TypeOK, database, history
<1>4. Bounds'
    BY <1>1, <1>2 DEF Base, Bounds
<1>5. RunsHaveJobs'
    BY <1>1, <1>2 DEF Base, RunsHaveJobs, Working
<1>6. Feeds'
    BY <1>1 DEF Base, Feeds, Working, SourceOf, database
<1> QED BY <1>3, <1>4, <1>5, <1>6 DEF Base

\* A probe leaves a snapshot.
LEMMA ProbeBase ==
    ASSUME Base, NEW c \in Channels, NEW s \in Sources, Probe(c, s)
    PROVE  Base'
<1>1. PICK h \in {"FAILED", "DEGRADED", "HEALTHY"} : health' = [health EXCEPT ![s] = h]
    BY DEF Probe
<1>2. TypeOK'
    <2>1. health' \in [Sources -> {"NONE", "HEALTHY", "DEGRADED", "FAILED"}]
        BY <1>1 DEF Base, TypeOK
    <2> QED BY <2>1, EventTyped DEF Base, TypeOK, Probe, queues, history
<1>3. Bounds' /\ RunsHaveJobs' /\ Feeds'
    BY QuietBase, EventTyped DEF Probe, queues
<1> QED BY <1>2, <1>3 DEF Base

\* A discovery pass ends, or its id is free again.
LEMMA HandoffBase ==
    ASSUME Base, NEW c \in Channels, NEW s \in Sources,
           Discover(c, s) \/ DiscoveryFails(c, s) \/ Evict(c, s)
    PROVE  Base'
<1>1. PICK h \in {"none", "completed", "failed"} : handoff' = [handoff EXCEPT ![c][s] = h]
    BY DEF Discover, DiscoveryFails, Evict
<1>2. handoff' \in [Channels -> [Sources -> {"none", "waiting", "completed", "failed"}]]
    BY <1>1 DEF Base, TypeOK
<1>3. ideas' \in [Channels -> [Sources -> SUBSET Ids]]
    <2>1. CASE ideas' = ideas
        BY <2>1 DEF Base, TypeOK
    <2>2. CASE Discover(c, s) /\ ideas' # ideas
        <3>1. PICK new \in SUBSET Ids : ideas' = [ideas EXCEPT ![c][s] = @ \cup new]
            BY <2>2 DEF Discover
        <3> QED BY <3>1 DEF Base, TypeOK
    <2> QED BY <2>1, <2>2 DEF DiscoveryFails, Evict, database
<1>4. skipped' \subseteq Channels \X Sources
    BY DEF Base, TypeOK, Discover, DiscoveryFails, Evict, history
<1>5. /\ UNCHANGED <<source, binding, rows, health, job, seen, storedBy, accepted, moved,
                     overlapped, origin, window, run>>
      /\ events' \in 0 .. MaxEvents /\ events' \in {events, events + 1}
    BY EventTyped DEF Base, TypeOK, Discover, DiscoveryFails, Evict, database, history
<1>6. TypeOK'
    BY <1>2, <1>3, <1>4, <1>5 DEF Base, TypeOK
<1>7. Bounds' /\ RunsHaveJobs' /\ Feeds'
    BY <1>5, QuietBase
<1> QED BY <1>6, <1>7 DEF Base

\* The worker takes a job.
LEMMA StartDoes ==
    ASSUME Base, NEW w \in Workers, Start(w)
    PROVE  \E j \in Jobs, r \in Runs :
              /\ ~ Working(w) /\ job[j].state = "waiting"
              /\ run' = [run EXCEPT ![w] = r] /\ job' = [job EXCEPT ![j].state = "active"]
              /\ r.job = j /\ r.url = source[j[2]].url /\ r.cursor = source[j[2]].cursor
              /\ r.todo = <<>> /\ r.step \in {"fetch", "handoff"}
              /\ j[2] \in Sources /\ r.url \in Urls
              /\ overlapped' \in {overlapped, overlapped \cup {j[2]}}
              /\ r.step = "fetch" /\ j[2] \notin overlapped' =>
                    \A v \in Workers : ~ (UnderWay(v) /\ SourceOf(v) = j[2])
<1>1. PICK j \in Jobs :
          LET row   == source[j[2]]
              other == {v \in Workers : UnderWay(v) /\ SourceOf(v) = j[2]}
          IN  /\ job[j].state = "waiting"
              /\ job' = [job EXCEPT ![j].state = "active"]
              /\ run' = [run EXCEPT ![w] =
                    [NoRun EXCEPT !.job = j, !.url = row.url, !.cursor = row.cursor,
                                  !.step = IF row.status = "ACTIVE" THEN "fetch" ELSE "handoff"]]
              /\ overlapped' = IF other # {} /\ row.status = "ACTIVE"
                               THEN overlapped \cup {j[2]} ELSE overlapped
    BY DEF Start
<1> DEFINE row == source[j[2]]
           step == IF row.status = "ACTIVE" THEN "fetch" ELSE "handoff"
           r == [NoRun EXCEPT !.job = j, !.url = row.url, !.cursor = row.cursor, !.step = step]
<1>2. j[2] \in Sources /\ row.url \in Urls /\ row.cursor \in Cursors
    <2>1. j[2] \in Sources
        BY DEF Jobs
    <2> QED BY <2>1 DEF Base, TypeOK
<1>3. NoRun \in Runs /\ NoRun.todo = <<>> /\ step \in Steps
    BY NoRunTyped DEF NoRun, Steps
<1>4. /\ r \in Runs /\ r.job = j /\ r.url = row.url /\ r.cursor = row.cursor
      /\ r.todo = <<>> /\ r.step = step
    <2> HIDE DEF row, step
    <2> QED BY <1>2, <1>3 DEF Runs
<1>5. ~ Working(w)
    BY DEF Start, Working
<1>6. step = "fetch" /\ j[2] \notin overlapped' =>
          \A v \in Workers : ~ (UnderWay(v) /\ SourceOf(v) = j[2])
    BY <1>1
<1>7. overlapped' \in {overlapped, overlapped \cup {j[2]}}
    BY <1>1
<1>8. step \in {"fetch", "handoff"}
    OBVIOUS
<1>9. run' = [run EXCEPT ![w] = r]
    BY <1>1
<1> HIDE DEF r, step
<1> QED BY <1>1, <1>2, <1>3, <1>4, <1>5, <1>6, <1>7, <1>8, <1>9

\* The adapter answers the run.
LEMMA FetchDoes ==
    ASSUME Base, NEW w \in Workers, Fetch(w)
    PROVE  LET at     == Served(w)
               cursor == run[w].cursor
           IN  \E result : \E r \in Runs :
                  /\ Working(w) /\ run[w].step = "fetch" /\ at.entries # <<>>
                  /\ \/ result = Read(source[SourceOf(w)].kind, at.entries, at.stamp, cursor)
                     \/ result = Unchanged(cursor) /\ MayAnswerNotModified(cursor, at.stamp)
                  /\ run' = [run EXCEPT ![w] = r]
                  /\ r.step = "store" /\ r.job = run[w].job /\ r.url = run[w].url
                  /\ r.todo = result.items /\ r.cursor = result.cursor
<1>1. PICK result :
          /\ run[w].step = "fetch" /\ Served(w).entries # <<>>
          /\ \/ result = Read(source[SourceOf(w)].kind, Served(w).entries, Served(w).stamp, run[w].cursor)
             \/ result = Unchanged(run[w].cursor) /\ MayAnswerNotModified(run[w].cursor, Served(w).stamp)
          /\ run' = [run EXCEPT ![w].step = "store", ![w].todo = result.items,
                                ![w].cursor = result.cursor, ![w].degraded = result.quarantined]
    BY DEF Fetch, Served
<1>2. Working(w)
    BY <1>1 DEF Working
<1>3. /\ run[w].url \in Urls /\ run[w].cursor \in Cursors /\ SourceOf(w) \in Sources
      /\ run[w] \in Runs
    BY <1>2, WorkerHas
<1>4. /\ Served(w).entries \in Seq(Entries) /\ Served(w).stamp \in 1 .. MaxEvents + 1
      /\ Served(w).entries[1] \in Entries
    BY <1>1, <1>3 DEF Base, TypeOK, Served
<1>5. result.items \in Batches /\ result.quarantined \in BOOLEAN /\ result.cursor \in Cursors
    <2>1. CASE result = Unchanged(run[w].cursor)
        BY <1>3, <2>1, NothingIsABatch DEF Unchanged
    <2>2. CASE result = ReadFeed(Served(w).entries, Served(w).stamp, run[w].cursor)
        BY <1>3, <1>4, <2>2, ReadFeedTyped
    <2>3. CASE result = ReadPage(Served(w).entries[1], Served(w).stamp, run[w].cursor)
        BY <1>3, <1>4, <2>3, ReadPageTyped
    <2> QED BY <1>1, <2>1, <2>2, <2>3 DEF Read
<1> DEFINE r == [run[w] EXCEPT !.step = "store", !.todo = result.items,
                               !.cursor = result.cursor, !.degraded = result.quarantined]
<1>6. /\ r \in Runs /\ r.step = "store" /\ r.job = run[w].job /\ r.url = run[w].url
      /\ r.todo = result.items /\ r.cursor = result.cursor
    BY <1>3, <1>5 DEF Runs, Steps
<1>7. run' = [run EXCEPT ![w] = r]
    BY <1>1
<1> HIDE DEF r
<1>8. /\ r \in Runs /\ Working(w) /\ run[w].step = "fetch" /\ Served(w).entries # <<>>
      /\ \/ result = Read(source[SourceOf(w)].kind, Served(w).entries, Served(w).stamp, run[w].cursor)
         \/ result = Unchanged(run[w].cursor) /\ MayAnswerNotModified(run[w].cursor, Served(w).stamp)
      /\ run' = [run EXCEPT ![w] = r]
      /\ r.step = "store" /\ r.job = run[w].job /\ r.url = run[w].url
      /\ r.todo = result.items /\ r.cursor = result.cursor
    BY <1>1, <1>2, <1>6, <1>7
<1> QED BY <1>8, Zenon

\* The run stores an item, or finds its text under another id.
LEMMA StoreDoes ==
    ASSUME Base, NEW w \in Workers, Store(w)
    PROVE  \E n \in DOMAIN run[w].todo, r \in Runs :
              LET item == run[w].todo[n]
                  s    == SourceOf(w)
              IN  /\ Working(w) /\ run[w].step = "store" /\ item \in Entries /\ s \in Sources
                  /\ \/ /\ HashTaken(s, item.id, item.text)
                        /\ seen' = [seen EXCEPT ![s][item.id] = "duplicate"]
                        /\ rows' = rows /\ storedBy' = storedBy
                     \/ /\ rows' = [rows EXCEPT ![s][item.id] = item.text]
                        /\ seen' = [seen EXCEPT ![s][item.id] = "stored"]
                        /\ storedBy' = [storedBy EXCEPT ![run[w].job] = @ \cup {item.id}]
                  /\ run' = [run EXCEPT ![w] = r]
                  /\ r.step = "store" /\ r.job = run[w].job /\ r.url = run[w].url
                  /\ r.cursor = run[w].cursor
                  /\ DOMAIN r.todo = DOMAIN run[w].todo \ {n}
                  /\ \A m \in DOMAIN r.todo : r.todo[m] = run[w].todo[m]
<1> DEFINE n == NextItem(w)
           todo == Restrict(run[w].todo, DOMAIN run[w].todo \ {n})
           r == [run[w] EXCEPT !.todo = todo]
<1>1. run[w].step = "store" /\ DOMAIN run[w].todo # {} /\ Working(w)
    BY DEF Store, Working
<1>2. run[w].todo \in Batches /\ run[w] \in Runs /\ SourceOf(w) \in Sources
    BY <1>1, WorkerHas
<1>3. n \in DOMAIN run[w].todo /\ run[w].todo[n] \in Entries
    BY <1>1, <1>2, FirstOfBatch DEF NextItem
<1>4. /\ todo \in Batches /\ DOMAIN todo = DOMAIN run[w].todo \ {n}
      /\ \A m \in DOMAIN run[w].todo \ {n} : todo[m] = run[w].todo[m]
    BY <1>2, BatchWithout
<1>5. run' = [run EXCEPT ![w] = r]
    BY DEF Store
<1>6. \/ /\ HashTaken(SourceOf(w), run[w].todo[n].id, run[w].todo[n].text)
         /\ seen' = [seen EXCEPT ![SourceOf(w)][run[w].todo[n].id] = "duplicate"]
         /\ rows' = rows /\ storedBy' = storedBy
      \/ /\ rows' = [rows EXCEPT ![SourceOf(w)][run[w].todo[n].id] = run[w].todo[n].text]
         /\ seen' = [seen EXCEPT ![SourceOf(w)][run[w].todo[n].id] = "stored"]
         /\ storedBy' = [storedBy EXCEPT ![run[w].job] = @ \cup {run[w].todo[n].id}]
    BY DEF Store
<1> HIDE DEF n, todo
<1>7. /\ r \in Runs /\ r.step = "store" /\ r.job = run[w].job /\ r.url = run[w].url
      /\ r.cursor = run[w].cursor /\ r.todo = todo
    BY <1>1, <1>2, <1>4 DEF Runs
<1> HIDE DEF r
<1> QED BY <1>1, <1>2, <1>3, <1>4, <1>5, <1>6, <1>7

\* The run saves its cursor and goes on to the snapshot.
LEMMA SaveCursorDoes ==
    ASSUME Base, NEW w \in Workers, SaveCursor(w)
    PROVE  \E r \in Runs :
              /\ Working(w) /\ run[w].step = "store" /\ DOMAIN run[w].todo = {}
              /\ SourceOf(w) \in Sources /\ run[w].cursor \in Cursors
              /\ source' = [source EXCEPT ![SourceOf(w)].cursor = run[w].cursor]
              /\ run' = [run EXCEPT ![w] = r]
              /\ r.step = "report" /\ r.job = run[w].job /\ r.url = run[w].url
<1>1. /\ Working(w) /\ run[w].step = "store" /\ DOMAIN run[w].todo = {}
      /\ source' = [source EXCEPT ![SourceOf(w)].cursor = run[w].cursor]
    BY DEF SaveCursor, Working
<1>2. SourceOf(w) \in Sources /\ run[w].cursor \in Cursors /\ run[w] \in Runs
    BY <1>1, WorkerHas
<1> DEFINE r == [run[w] EXCEPT !.step = "report"]
<1>3. r \in Runs /\ r.step = "report" /\ r.job = run[w].job /\ r.url = run[w].url
    BY <1>2 DEF Runs, Steps
<1>4. run' = [run EXCEPT ![w] = r]
    BY DEF SaveCursor, Goto
<1> HIDE DEF r
<1> QED BY <1>1, <1>2, <1>3, <1>4

\* The run leaves its snapshot and goes on to the hand-off.
LEMMA ReportDoes ==
    ASSUME Base, NEW w \in Workers, Report(w)
    PROVE  \E r \in Runs :
              /\ Working(w) /\ run[w].step = "report"
              /\ run' = [run EXCEPT ![w] = r]
              /\ r.step = "handoff" /\ r.job = run[w].job /\ r.url = run[w].url
<1>1. Working(w) /\ run[w].step = "report"
    BY DEF Report, Working
<1>2. run[w] \in Runs
    BY <1>1, WorkerHas
<1> DEFINE r == [run[w] EXCEPT !.step = "handoff"]
<1>3. r \in Runs /\ r.step = "handoff" /\ r.job = run[w].job /\ r.url = run[w].url
    BY <1>2 DEF Runs, Steps
<1>4. run' = [run EXCEPT ![w] = r]
    BY DEF Report, Goto
<1> HIDE DEF r
<1> QED BY <1>1, <1>3, <1>4

\* The run ends, by its hand-off, an error or a crash.
Leaves(w) == HandOff(w) \/ Throw(w) \/ HandOffFails(w) \/ Crash(w)

\* A job with another state.
LEMMA JobWithState ==
    ASSUME NEW x, NEW old, NEW f, x = [state |-> old, failures |-> f], NEW new
    PROVE  [x EXCEPT !.state = new] = [state |-> new, failures |-> f]
    OBVIOUS

\* What becomes of the job of a run that ends.
LEMMA LeaveDoes ==
    ASSUME Base, NEW w \in Workers, Leaves(w)
    PROVE  \E state \in {"waiting", "completed", "failed"}, failures \in 0 .. MaxAttempts :
              /\ Working(w) /\ run' = [run EXCEPT ![w] = NoRun]
              /\ job' = [job EXCEPT ![run[w].job] = [state |-> state, failures |-> failures]]
              /\ state = "waiting" => failures < MaxAttempts
              /\ state = "completed" <=> HandOff(w)
<1> DEFINE j == run[w].job
           f == job[j].failures
<1>1. Working(w)
    BY DEF Leaves, HandOff, Throw, HandOffFails, Crash, Working
<1>2. /\ j \in Jobs /\ f \in Nat /\ f < MaxAttempts
      /\ f \in 0 .. MaxAttempts /\ f + 1 \in 0 .. MaxAttempts
      /\ job[j] = [state |-> job[j].state, failures |-> f]
    <2>1. j \in Jobs /\ f \in Nat /\ f < MaxAttempts
        BY <1>1, WorkerHas
    <2>2. f \in 0 .. MaxAttempts /\ f + 1 \in 0 .. MaxAttempts
        BY <2>1, IngestionAssumption
    <2>3. job[j] = [state |-> job[j].state, failures |-> f]
        BY <2>1 DEF Base, TypeOK
    <2> QED BY <2>1, <2>2, <2>3
<1>3. run' = [run EXCEPT ![w] = NoRun]
    BY DEF Leaves, HandOff, Throw, HandOffFails, Crash, Retry
<1>4. CASE HandOff(w)
    <2>1. job' = [job EXCEPT ![j].state = "completed"]
        BY <1>4 DEF HandOff
    <2>2. job' = [job EXCEPT ![j] = [state |-> "completed", failures |-> f]]
        <3>1. [job[j] EXCEPT !.state = "completed"] = [state |-> "completed", failures |-> f]
            BY <1>2, JobWithState
        <3> QED BY <2>1, <3>1
    <2> QED BY <1>1, <1>2, <1>3, <1>4, <2>2
<1>5. CASE Crash(w) /\ ~ HandOff(w)
    <2>1. PICK state \in {"waiting", "failed"} : job' = [job EXCEPT ![j].state = state]
        BY <1>5 DEF Crash
    <2>2. job' = [job EXCEPT ![j] = [state |-> state, failures |-> f]]
        <3>1. [job[j] EXCEPT !.state = state] = [state |-> state, failures |-> f]
            BY <1>2, JobWithState
        <3> QED BY <2>1, <3>1
    <2> QED BY <1>1, <1>2, <1>3, <1>5, <2>2
<1>6. CASE (Throw(w) \/ HandOffFails(w)) /\ ~ HandOff(w)
    <2>1. job' = [job EXCEPT ![j] = [state    |-> IF f + 1 < MaxAttempts THEN "waiting" ELSE "failed",
                                     failures |-> f + 1]]
        BY <1>2, <1>6 DEF Throw, HandOffFails, Retry
    <2>2. PICK state \in {"waiting", "failed"} :
              state = (IF f + 1 < MaxAttempts THEN "waiting" ELSE "failed")
        OBVIOUS
    <2>3. PICK failures \in 0 .. MaxAttempts : failures = f + 1
        BY <1>2
    <2>4. job' = [job EXCEPT ![j] = [state |-> state, failures |-> failures]]
        BY <2>1, <2>2, <2>3
    <2>5. state = "waiting" => failures < MaxAttempts
        BY <2>2, <2>3
    <2> QED BY <1>1, <1>3, <1>6, <2>4, <2>5
<1> QED BY <1>4, <1>5, <1>6 DEF Leaves

\* The base holds on when a worker takes a job.
LEMMA StartBase == ASSUME Base, NEW w \in Workers, Start(w) PROVE Base'
<1>1. PICK j \in Jobs, r \in Runs :
          /\ ~ Working(w) /\ job[j].state = "waiting"
          /\ run' = [run EXCEPT ![w] = r] /\ job' = [job EXCEPT ![j].state = "active"]
          /\ r.job = j /\ r.url = source[j[2]].url /\ r.todo = <<>> /\ r.step \in {"fetch", "handoff"}
          /\ j[2] \in Sources /\ r.url \in Urls
          /\ overlapped' \in {overlapped, overlapped \cup {j[2]}}
    BY StartDoes
<1>2. UNCHANGED <<database, handoff, seen, storedBy, accepted, skipped, moved, origin, window, events>>
    BY DEF Start
<1>3. /\ run' \in [Workers -> Runs] /\ run'[w] = r /\ \A v \in Workers \ {w} : run'[v] = run[v]
    BY <1>1 DEF Base, TypeOK
<1>4. /\ job' \in [Jobs -> [state : {"none", "waiting", "active", "completed", "failed"},
                           failures : 0..MaxAttempts]]
      /\ job'[j].state = "active" /\ job'[j].failures = job[j].failures
      /\ \A i \in Jobs \ {j} : job'[i] = job[i]
    BY ZenonT(40), <1>1 DEF Base, TypeOK
<1>5. TypeOK'
    BY <1>1, <1>2, <1>3, <1>4 DEF Base, TypeOK, database
<1>6. Bounds'
    BY <1>1, <1>2, <1>4 DEF Base, Bounds
<1>7. RunsHaveJobs'
    <2>1. \A v \in Workers \ {w} : Working(v)' =>
              Working(v) /\ run'[v] = run[v] /\ run[v].job # j /\ job'[run[v].job] = job[run[v].job]
        BY <1>1, <1>3, <1>4, WorkerHas DEF Working
    <2>2. DOMAIN r.todo = {}
        BY <1>1, NothingIsABatch
    <2>3. \A v \in Workers : Working(v)' =>
              /\ run'[v].job \in Jobs /\ run'[v].url \in Urls
              /\ job'[run'[v].job].state = "active"
              /\ run'[v].step = "fetch" => DOMAIN run'[v].todo = {}
        BY <1>1, <1>3, <1>4, <2>1, <2>2 DEF Base, RunsHaveJobs
    <2>4. \A v, x \in Workers : Working(v)' /\ Working(x)' /\ run'[v].job = run'[x].job => v = x
        BY <1>1, <1>3, <2>1 DEF Base, RunsHaveJobs
    <2> QED BY <2>3, <2>4 DEF RunsHaveJobs
<1>8. Feeds'
    <2>1. \A v \in Workers \ {w} : Working(v)' => Working(v) /\ run'[v] = run[v]
        BY <1>3 DEF Working
    <2>2. source[j[2]].kind = KindOf[r.url]
        BY <1>1 DEF Base, Feeds
    <2> QED BY <1>1, <1>2, <1>3, <2>1, <2>2 DEF Base, Feeds, SourceOf, database
<1> QED BY <1>5, <1>6, <1>7, <1>8 DEF Base

\* The base holds on when a run goes on.
LEMMA FetchBase == ASSUME Base, NEW w \in Workers, Fetch(w) PROVE Base'
<1>1. PICK r \in Runs : /\ Working(w) /\ run' = [run EXCEPT ![w] = r]
                        /\ r.step = "store" /\ r.job = run[w].job /\ r.url = run[w].url
    BY FetchDoes
<1>2. UNCHANGED <<database, queues, history, origin, window, events>>
    BY DEF Fetch
<1>3. run' \in [Workers -> Runs] /\ RunsHaveJobs' /\ Feeds'
    BY <1>1, <1>2, AdvanceBase DEF database, queues
<1>4. TypeOK'
    BY <1>2, <1>3 DEF Base, TypeOK, database, queues, history
<1>5. Bounds'
    BY <1>2 DEF Base, Bounds, queues
<1> QED BY <1>3, <1>4, <1>5 DEF Base

\* Likewise when it stores an item.
LEMMA StoreBase == ASSUME Base, NEW w \in Workers, Store(w) PROVE Base'
<1>1. PICK n \in DOMAIN run[w].todo, r \in Runs :
          LET item == run[w].todo[n]
              s    == SourceOf(w)
          IN  /\ Working(w) /\ item \in Entries /\ s \in Sources
              /\ \/ /\ seen' = [seen EXCEPT ![s][item.id] = "duplicate"]
                    /\ rows' = rows /\ storedBy' = storedBy
                 \/ /\ rows' = [rows EXCEPT ![s][item.id] = item.text]
                    /\ seen' = [seen EXCEPT ![s][item.id] = "stored"]
                    /\ storedBy' = [storedBy EXCEPT ![run[w].job] = @ \cup {item.id}]
              /\ run' = [run EXCEPT ![w] = r]
              /\ r.step = "store" /\ r.job = run[w].job /\ r.url = run[w].url
    BY StoreDoes
<1>2. UNCHANGED <<source, binding, health, ideas, queues, accepted, skipped, moved,
                  overlapped, origin, window, events>>
    BY DEF Store
<1>3. run' \in [Workers -> Runs] /\ RunsHaveJobs' /\ Feeds'
    BY <1>1, <1>2, AdvanceBase DEF queues
<1>4. /\ rows' \in [Sources -> [Ids -> Texts \cup {None}]]
      /\ seen' \in [Sources -> [Ids -> {"never", "stored", "duplicate"}]]
      /\ storedBy' \in [Jobs -> SUBSET Ids]
    <2> DEFINE item == run[w].todo[n]
    <2>1. item.id \in Ids /\ item.text \in Texts
        BY <1>1 DEF Entries
    <2>2. rows' \in [Sources -> [Ids -> Texts \cup {None}]]
        <3>1. PICK s \in Sources, i \in Ids, t \in Texts : rows' = rows \/ rows' = [rows EXCEPT ![s][i] = t]
            BY <1>1, <2>1
        <3>2. rows \in [Sources -> [Ids -> Texts \cup {None}]]
            BY DEF Base, TypeOK
        <3>3. [rows[s] EXCEPT ![i] = t] \in [Ids -> Texts \cup {None}]
            BY <3>2
        <3> QED BY <3>1, <3>2, <3>3
    <2>3. seen' \in [Sources -> [Ids -> {"never", "stored", "duplicate"}]]
        <3>1. PICK a \in {"stored", "duplicate"} : seen' = [seen EXCEPT ![SourceOf(w)][item.id] = a]
            BY <1>1
        <3> HIDE DEF item
        <3> QED BY <2>1, <3>1 DEF Base, TypeOK
    <2>4. storedBy' \in [Jobs -> SUBSET Ids]
        <3>1. PICK j \in Jobs, i \in Ids :
                  storedBy' = storedBy \/ storedBy' = [storedBy EXCEPT ![j] = @ \cup {i}]
            BY <1>1, <2>1, WorkerHas
        <3>2. storedBy \in [Jobs -> SUBSET Ids]
            BY DEF Base, TypeOK
        <3>3. storedBy[j] \cup {i} \in SUBSET Ids
            BY <3>2
        <3> QED BY <3>1, <3>2, <3>3
    <2> QED BY <2>2, <2>3, <2>4
<1>5. TypeOK'
    BY <1>2, <1>3, <1>4 DEF Base, TypeOK, queues
<1>6. Bounds'
    BY <1>2 DEF Base, Bounds, queues
<1> QED BY <1>3, <1>5, <1>6 DEF Base

\* Likewise when it saves its cursor.
LEMMA SaveCursorBase == ASSUME Base, NEW w \in Workers, SaveCursor(w) PROVE Base'
<1>1. PICK r \in Runs :
          /\ Working(w) /\ SourceOf(w) \in Sources /\ run[w].cursor \in Cursors
          /\ source' = [source EXCEPT ![SourceOf(w)].cursor = run[w].cursor]
          /\ run' = [run EXCEPT ![w] = r]
          /\ r.step = "report" /\ r.job = run[w].job /\ r.url = run[w].url
    BY SaveCursorDoes
<1>2. UNCHANGED <<binding, rows, health, ideas, queues, history, origin, window, events>>
    BY DEF SaveCursor
<1>3. /\ source' \in [Sources -> [kind : {"RSS", "WEB"}, url : Urls,
                                  status : {"ACTIVE", "PAUSED"}, cursor : Cursors]]
      /\ \A x \in Sources : source'[x].kind = source[x].kind /\ source'[x].url = source[x].url
    BY <1>1, OneRow
<1>4. run' \in [Workers -> Runs] /\ RunsHaveJobs' /\ Feeds'
    BY <1>1, <1>2, <1>3, AdvanceBase DEF queues
<1>5. TypeOK'
    BY <1>2, <1>3, <1>4 DEF Base, TypeOK, queues, history
<1>6. Bounds'
    BY <1>2 DEF Base, Bounds, queues
<1> QED BY <1>4, <1>5, <1>6 DEF Base

\* Likewise when it leaves its snapshot.
LEMMA ReportBase == ASSUME Base, NEW w \in Workers, Report(w) PROVE Base'
<1>1. PICK r \in Runs : /\ Working(w) /\ run' = [run EXCEPT ![w] = r]
                        /\ r.step = "handoff" /\ r.job = run[w].job /\ r.url = run[w].url
    BY ReportDoes
<1>2. /\ UNCHANGED <<source, binding, rows, ideas, queues, history, origin, window, events>>
      /\ health' = [health EXCEPT ![SourceOf(w)] = IF run[w].degraded THEN "DEGRADED" ELSE "HEALTHY"]
    BY DEF Report
<1>3. run' \in [Workers -> Runs] /\ RunsHaveJobs' /\ Feeds'
    BY <1>1, <1>2, AdvanceBase DEF queues
<1>4. health' \in [Sources -> {"NONE", "HEALTHY", "DEGRADED", "FAILED"}]
    BY <1>2 DEF Base, TypeOK
<1>5. TypeOK'
    BY <1>2, <1>3, <1>4 DEF Base, TypeOK, queues, history
<1>6. Bounds'
    BY <1>2 DEF Base, Bounds, queues
<1> QED BY <1>3, <1>5, <1>6 DEF Base

\* The base holds on when a run ends.
LEMMA LeavesBase == ASSUME Base, NEW w \in Workers, Leaves(w) PROVE Base'
<1>1. PICK state \in {"waiting", "completed", "failed"}, failures \in 0 .. MaxAttempts :
          /\ Working(w) /\ run' = [run EXCEPT ![w] = NoRun]
          /\ job' = [job EXCEPT ![run[w].job] = [state |-> state, failures |-> failures]]
          /\ state = "waiting" => failures < MaxAttempts
    BY LeaveDoes
<1>2. UNCHANGED <<source, binding, rows, ideas, seen, storedBy, skipped, moved, overlapped, origin, window>>
    BY DEF Leaves, HandOff, Throw, HandOffFails, Crash, database, history
<1>3. /\ run' \in [Workers -> Runs]
      /\ job' \in [Jobs -> [state : {"none", "waiting", "active", "completed", "failed"},
                           failures : 0..MaxAttempts]]
      /\ \A j \in Jobs : job'[j].state \notin {"completed", "failed"} => job'[j].failures < MaxAttempts
      /\ RunsHaveJobs' /\ Feeds'
    BY <1>1, <1>2, LeaveBase
<1>4. events' \in 0 .. MaxEvents /\ events' \in {events, events + 1} /\ events \in Nat
    <2>1. events \in 0 .. MaxEvents /\ events \in Nat
        BY IngestionAssumption DEF Base, TypeOK
    <2>2. events' = events \/ Event
        BY DEF Leaves, HandOff, Throw, HandOffFails, Crash
    <2> QED BY <2>1, <2>2, EventTyped
<1>5. health' \in [Sources -> {"NONE", "HEALTHY", "DEGRADED", "FAILED"}]
    <2>1. health' = health \/ health' = [health EXCEPT ![SourceOf(w)] = "FAILED"]
        BY DEF Leaves, HandOff, Throw, HandOffFails, Crash, database
    <2> QED BY <2>1 DEF Base, TypeOK
<1>6. /\ handoff' \in [Channels -> [Sources -> {"none", "waiting", "completed", "failed"}]]
      /\ accepted' \subseteq Jobs
    <2>1. \/ handoff' = handoff /\ accepted' = accepted
          \/ /\ handoff' = [handoff EXCEPT ![ChannelOf(w)][SourceOf(w)] = "waiting"]
             /\ accepted' = accepted \cup {run[w].job}
        BY DEF Leaves, HandOff, Throw, HandOffFails, Crash, history
    <2>2. run[w].job \in Jobs
        BY <1>1, WorkerHas
    <2>3. accepted' \subseteq Jobs
        BY <2>1, <2>2 DEF Base, TypeOK
    <2>4. handoff' \in [Channels -> [Sources -> {"none", "waiting", "completed", "failed"}]]
        <3>1. PICK c \in Channels, s \in Sources :
                  handoff' = handoff \/ handoff' = [handoff EXCEPT ![c][s] = "waiting"]
            BY <1>1, <2>1, WorkerHas
        <3>2. handoff \in [Channels -> [Sources -> {"none", "waiting", "completed", "failed"}]]
            BY DEF Base, TypeOK
        <3>3. [handoff[c] EXCEPT ![s] = "waiting"] \in [Sources -> {"none", "waiting", "completed", "failed"}]
            BY <3>2
        <3> QED BY <3>1, <3>2, <3>3
    <2> QED BY <2>3, <2>4
<1>7. TypeOK'
    BY <1>2, <1>3, <1>4, <1>5, <1>6 DEF Base, TypeOK
<1>8. Bounds'
    <2>1. \A u \in Urls : origin[u].stamp \in Nat
        BY IngestionAssumption DEF Base, TypeOK
    <2> QED BY <1>2, <1>3, <1>4, <2>1 DEF Base, Bounds
<1> QED BY <1>3, <1>7, <1>8 DEF Base

\* Every step keeps the base.
LEMMA BaseStep == Base /\ [Next]_vars => Base'
<1> SUFFICES ASSUME Base, [Next]_vars PROVE Base'
    OBVIOUS
<1>1. ASSUME NEW u \in Urls, Publish(u) \/ Rewrite(u) PROVE Base'
    BY <1>1, OriginBase
<1>2. CASE NextWindow
    BY <1>2, NextWindowBase
<1>3. ASSUME NEW c \in Channels, NEW s \in Sources, Editor(c, s) PROVE Base'
    BY <1>3, BindingBase, ReaddressBase, SetStatusBase, EnqueueBase, ProbeBase DEF Editor
<1>4. ASSUME NEW c \in Channels, NEW s \in Sources,
             Discover(c, s) \/ DiscoveryFails(c, s) \/ Evict(c, s)
      PROVE  Base'
    BY <1>4, HandoffBase
<1>5. ASSUME NEW w \in Workers, Progress(w) \/ Throw(w) \/ HandOffFails(w) \/ Crash(w)
      PROVE  Base'
    BY <1>5, StartBase, FetchBase, StoreBase, SaveCursorBase, ReportBase, LeavesBase DEF Progress, Leaves
<1>6. CASE UNCHANGED vars
    BY <1>6 DEF vars, Base, TypeOK, Bounds, RunsHaveJobs, Feeds, Working, SourceOf
<1> QED BY <1>1, <1>2, <1>3, <1>4, <1>5, <1>6 DEF Next

\* The base always holds.
LEMMA BaseHolds == Spec => []Base
<1>1. Init => Base
    BY InitBase
<1>2. Base /\ [Next]_vars => Base'
    BY BaseStep
<1> QED BY <1>1, <1>2, PTL DEF Spec

\* Every variable keeps its type: stamps and failures stay within the bounds
\* and a cursor is always one an adapter can have made.
THEOREM TypeCorrect == Spec => []TypeOK
<1>1. Base => TypeOK
    BY DEF Base
<1> QED BY <1>1, BaseHolds, PTL
-----------------------------------------------------------------------------
(***************************************************************************)
(* What a job stored is handed over.                                       *)
(***************************************************************************)

\* Nothing was stored in the beginning.
LEMMA InitHandOffs == Init => HandOffs
    BY DEF Init, HandOffs, AcceptedHandOffCovers

\* A step that leaves all of it alone.
LEMMA HandOffsQuiet ==
    ASSUME HandOffs, UNCHANGED <<storedBy, rows, accepted, handoff, skipped, ideas>>,
           \A j \in accepted : job[j].state = "completed" => job'[j].state = "completed"
    PROVE  HandOffs'
    BY DEF HandOffs, AcceptedHandOffCovers

\* A run works on a job that was not handed over yet.
LEMMA ActiveIsNotAccepted ==
    ASSUME Base, HandOffs, NEW w \in Workers, Working(w)
    PROVE  run[w].job \notin accepted
    BY WorkerHas DEF HandOffs

\* Storing an item: its row is there, and nothing has been handed over.
LEMMA HandOffsStore == ASSUME Base, HandOffs, NEW w \in Workers, Store(w) PROVE HandOffs'
<1>1. PICK n \in DOMAIN run[w].todo :
          LET item == run[w].todo[n]
              s    == SourceOf(w)
          IN  /\ Working(w) /\ item \in Entries /\ s \in Sources
              /\ \/ rows' = rows /\ storedBy' = storedBy
                 \/ /\ rows' = [rows EXCEPT ![s][item.id] = item.text]
                    /\ storedBy' = [storedBy EXCEPT ![run[w].job] = @ \cup {item.id}]
    BY StoreDoes
<1>2. PICK i \in Ids, t \in Texts, s \in Sources, j \in Jobs :
          /\ s = j[2] /\ j = run[w].job
          /\ \/ rows' = rows /\ storedBy' = storedBy
             \/ /\ rows' = [rows EXCEPT ![s][i] = t]
                /\ storedBy' = [storedBy EXCEPT ![j] = @ \cup {i}]
    <2> DEFINE item == run[w].todo[n]
    <2>1. item.id \in Ids /\ item.text \in Texts
        BY <1>1 DEF Entries
    <2>2. run[w].job \in Jobs /\ SourceOf(w) = run[w].job[2]
        BY <1>1, WorkerHas DEF SourceOf
    <2> QED BY <1>1, <2>1, <2>2
<1>3. UNCHANGED <<ideas, job, handoff, accepted, skipped>>
    BY DEF Store, queues
<1>4. j \notin accepted
    BY <1>1, <1>2, ActiveIsNotAccepted
<1>5. CASE rows' = rows /\ storedBy' = storedBy
    BY <1>3, <1>5, HandOffsQuiet
<1>6. CASE /\ rows' = [rows EXCEPT ![s][i] = t]
           /\ storedBy' = [storedBy EXCEPT ![j] = @ \cup {i}]
    <2>1. /\ rows \in [Sources -> [Ids -> Texts \cup {None}]]
          /\ storedBy \in [Jobs -> SUBSET Ids] /\ accepted \subseteq Jobs
        BY DEF Base, TypeOK
    <2>2. /\ rows'[s][i] # None
          /\ \A s1 \in Sources, i1 \in Ids : rows[s1][i1] # None => rows'[s1][i1] # None
        BY <1>6, <2>1, IngestionAssumption
    <2>3. storedBy'[j] = storedBy[j] \cup {i} /\ \A k \in Jobs \ {j} : storedBy'[k] = storedBy[k]
        BY <1>6, <2>1
    <2>4. \A k \in Jobs : k[2] \in Sources
        BY DEF Jobs
    <2>5. \A k \in Jobs : storedBy'[k] \subseteq {x \in Ids : rows'[k[2]][x] # None}
        BY <1>2, <2>2, <2>3, <2>4 DEF HandOffs
    <2>6. \A k \in accepted : storedBy'[k] = storedBy[k]
        BY <1>4, <2>1, <2>3
    <2> QED BY <1>3, <2>5, <2>6 DEF HandOffs, AcceptedHandOffCovers
<1> QED BY <1>2, <1>5, <1>6

\* Handing over: a pass that is still to come covers everything.
LEMMA HandOffsHandOff == ASSUME Base, HandOffs, NEW w \in Workers, HandOff(w) PROVE HandOffs'
<1> DEFINE j == run[w].job
<1>1. j \in Jobs /\ Working(w) /\ ChannelOf(w) = j[1] /\ SourceOf(w) = j[2]
    <2>1. Working(w)
        BY DEF HandOff, Working
    <2> QED BY <2>1, WorkerHas DEF ChannelOf, SourceOf
<1>2. UNCHANGED <<rows, ideas, storedBy, skipped>>
    BY DEF HandOff, database
<1>3. \A k \in accepted \cup {j} : job'[k].state = "completed"
    <2>1. job' = [job EXCEPT ![j].state = "completed"]
        BY DEF HandOff
    <2>2. job \in [Jobs -> [state : {"none", "waiting", "active", "completed", "failed"},
                           failures : 0..MaxAttempts]] /\ accepted \subseteq Jobs
        BY DEF Base, TypeOK
    <2>3. job[j] \in [state : {"none", "waiting", "active", "completed", "failed"}, failures : 0..MaxAttempts]
        BY <1>1, <2>2
    <2>4. [job[j] EXCEPT !.state = "completed"].state = "completed"
        BY <2>3
    <2> HIDE DEF j
    <2>5. job'[j].state = "completed" /\ \A k \in Jobs \ {j} : job'[k] = job[k]
        BY <1>1, <2>1, <2>2, <2>4
    <2> QED BY <2>2, <2>5 DEF HandOffs
<1>4. CASE handoff' = handoff /\ accepted' = accepted
    BY <1>2, <1>3, <1>4, HandOffsQuiet
<1>5. CASE /\ handoff' = [handoff EXCEPT ![j[1]][j[2]] = "waiting"]
           /\ accepted' = accepted \cup {j}
    <2>1. handoff \in [Channels -> [Sources -> {"none", "waiting", "completed", "failed"}]]
          /\ accepted \subseteq Jobs
        BY DEF Base, TypeOK
    <2>2. \A k \in Jobs : k[1] \in Channels /\ k[2] \in Sources
        BY DEF Jobs
    <2> HIDE DEF j
    <2>3. \A c \in Channels, s \in Sources :
              handoff'[c][s] = IF c = j[1] /\ s = j[2] THEN "waiting" ELSE handoff[c][s]
        BY <1>1, <1>5, <2>1, <2>2
    <2>4. AcceptedHandOffCovers'
        <3> SUFFICES ASSUME NEW k \in accepted', handoff'[k[1]][k[2]] \in {"completed", "none"},
                            <<k[1], k[2]>> \notin skipped'
                     PROVE  storedBy'[k] \subseteq ideas'[k[1]][k[2]]
            BY DEF AcceptedHandOffCovers
        <3>1. k \in Jobs
            BY <1>1, <1>5, <2>1
        <3>2. k # j /\ handoff[k[1]][k[2]] \in {"completed", "none"}
            BY <2>2, <2>3, <3>1
        <3>3. k \in accepted
            BY <1>5, <3>2
        <3> QED BY <1>2, <3>2, <3>3 DEF HandOffs, AcceptedHandOffCovers
    <2> QED BY <1>2, <1>3, <1>5, <2>4 DEF HandOffs
<1> QED BY <1>1, <1>4, <1>5 DEF HandOff

\* A pass that finds the binding enabled covers every item that is there.
LEMMA HandOffsDiscover ==
    ASSUME Base, HandOffs, NEW c \in Channels, NEW s \in Sources, Discover(c, s) PROVE HandOffs'
<1>1. UNCHANGED <<rows, job, storedBy, accepted>>
    BY DEF Discover
<1>2. /\ handoff \in [Channels -> [Sources -> {"none", "waiting", "completed", "failed"}]]
      /\ ideas \in [Channels -> [Sources -> SUBSET Ids]] /\ accepted \subseteq Jobs
      /\ storedBy \in [Jobs -> SUBSET Ids]
    BY DEF Base, TypeOK
<1>3. \A c1 \in Channels, s1 \in Sources : c1 # c \/ s1 # s => handoff'[c1][s1] = handoff[c1][s1]
    BY <1>2 DEF Discover
<1>4. PICK new \in SUBSET Ids :
          /\ new = {i \in Ids : rows[s][i] # None}
          /\ \/ ideas' = [ideas EXCEPT ![c][s] = @ \cup new] /\ skipped' = skipped
             \/ ideas' = ideas /\ skipped' = skipped \cup {<<c, s>>}
    BY DEF Discover
<1>5. /\ \A c1 \in Channels, s1 \in Sources : ideas[c1][s1] \subseteq ideas'[c1][s1]
      /\ <<c, s>> \in skipped' \/ new \subseteq ideas'[c][s]
      /\ skipped \subseteq skipped'
    BY <1>2, <1>4
<1>6. \A j \in Jobs : j = <<j[1], j[2], j[3]>> /\ j[1] \in Channels /\ j[2] \in Sources
    BY DEF Jobs
<1>7. AcceptedHandOffCovers'
    <2> SUFFICES ASSUME NEW j \in accepted, handoff'[j[1]][j[2]] \in {"completed", "none"},
                        <<j[1], j[2]>> \notin skipped'
                 PROVE  storedBy[j] \subseteq ideas'[j[1]][j[2]]
        BY <1>1 DEF AcceptedHandOffCovers
    <2>1. j \in Jobs /\ j[1] \in Channels /\ j[2] \in Sources
        BY <1>2, <1>6
    <2>2. CASE j[1] = c /\ j[2] = s
        <3>1. storedBy[j] \subseteq new
            BY <1>4, <2>1, <2>2 DEF HandOffs
        <3> QED BY <1>5, <2>2, <3>1
    <2>3. CASE ~ (j[1] = c /\ j[2] = s)
        <3>1. handoff[j[1]][j[2]] \in {"completed", "none"} /\ <<j[1], j[2]>> \notin skipped
            BY <1>3, <1>5, <2>1, <2>3
        <3> QED BY <1>5, <2>1, <3>1 DEF HandOffs, AcceptedHandOffCovers
    <2> QED BY <2>2, <2>3
<1> QED BY <1>1, <1>7 DEF HandOffs

\* A pass that failed covers nothing and is not over for this purpose; an
\* id that is free again belonged to a pass that was over.
LEMMA HandOffsQueue ==
    ASSUME Base, HandOffs, NEW c \in Channels, NEW s \in Sources,
           DiscoveryFails(c, s) \/ Evict(c, s)
    PROVE  HandOffs'
<1>1. UNCHANGED <<rows, job, storedBy, accepted, ideas, skipped>>
    BY DEF DiscoveryFails, Evict, database, history
<1>2. PICK new \in {"failed", "none"} :
          handoff' = [handoff EXCEPT ![c][s] = new] /\ (new = "none" => handoff[c][s] = "completed")
    BY DEF DiscoveryFails, Evict
<1>3. handoff \in [Channels -> [Sources -> {"none", "waiting", "completed", "failed"}]]
      /\ accepted \subseteq Jobs
    BY DEF Base, TypeOK
<1>4. \A c1 \in Channels, s1 \in Sources :
          handoff'[c1][s1] \in {"completed", "none"} => handoff[c1][s1] \in {"completed", "none"}
    BY <1>2, <1>3
<1>5. \A j \in accepted : j[1] \in Channels /\ j[2] \in Sources
    BY <1>3 DEF Jobs
<1>6. AcceptedHandOffCovers'
    BY <1>1, <1>4, <1>5 DEF HandOffs, AcceptedHandOffCovers
<1> QED BY <1>1, <1>6 DEF HandOffs

\* The steps of a run that leave the hand-offs alone.
LEMMA HandOffsRun ==
    ASSUME Base, HandOffs, NEW w \in Workers,
           Start(w) \/ Fetch(w) \/ SaveCursor(w) \/ Report(w) \/ Throw(w) \/ HandOffFails(w) \/ Crash(w)
    PROVE  HandOffs'
<1>1. UNCHANGED <<storedBy, rows, accepted, handoff, skipped, ideas>>
    BY DEF Start, Fetch, SaveCursor, Report, Throw, HandOffFails, Crash, database, queues, history
<1>2. job \in [Jobs -> [state : {"none", "waiting", "active", "completed", "failed"},
                        failures : 0..MaxAttempts]]
    BY DEF Base, TypeOK
<1>3. \A j \in Jobs : job[j].state = "completed" => job'[j].state = "completed"
    <2>1. CASE Start(w)
        <3>1. PICK j \in Jobs : job[j].state = "waiting" /\ job' = [job EXCEPT ![j].state = "active"]
            BY <2>1, StartDoes
        <3> QED BY <1>2, <3>1
    <2>2. CASE Fetch(w) \/ SaveCursor(w) \/ Report(w)
        BY <2>2 DEF Fetch, SaveCursor, Report, queues
    <2>3. CASE Throw(w) \/ HandOffFails(w) \/ Crash(w)
        <3>1. PICK state \in {"waiting", "completed", "failed"}, failures \in 0 .. MaxAttempts :
                  /\ Working(w)
                  /\ job' = [job EXCEPT ![run[w].job] = [state |-> state, failures |-> failures]]
            BY <2>3, LeaveDoes DEF Leaves
        <3>2. run[w].job \in Jobs /\ job[run[w].job].state = "active"
            BY <3>1, WorkerHas
        <3> QED BY <1>2, <3>1, <3>2
    <2> QED BY <2>1, <2>2, <2>3
<1>4. accepted \subseteq Jobs
    BY DEF Base, TypeOK
<1> QED BY <1>1, <1>3, <1>4, HandOffsQuiet

\* The origins and the editors.
LEMMA HandOffsOthers ==
    ASSUME Base, HandOffs,
           \/ \E u \in Urls : Publish(u) \/ Rewrite(u)
           \/ NextWindow
           \/ \E c \in Channels, s \in Sources : Editor(c, s)
           \/ UNCHANGED vars
    PROVE  HandOffs'
<1>1. UNCHANGED <<storedBy, rows, accepted, handoff, skipped, ideas>>
    BY DEF Publish, Rewrite, Change, NextWindow, Editor, Create, Readdress, SetStatus, Disable,
           Enqueue, Probe, database, queues, history, vars
<1>2. accepted \subseteq Jobs
    BY DEF Base, TypeOK
<1>3. \A j \in Jobs : job[j].state = "completed" => job'[j].state = "completed"
    <2>1. CASE \E c \in Channels, s \in Sources : Enqueue(c, s)
        <3>1. PICK c \in Channels, s \in Sources : Enqueue(c, s)
            BY <2>1
        <3>2. PICK j \in Jobs : job[j].state = "none" /\ job' = [job EXCEPT ![j].state = "waiting"]
            <4>1. <<c, s, window>> \in Jobs
                BY DEF Base, TypeOK, Jobs
            <4> QED BY <3>1, <4>1 DEF Enqueue
        <3>3. job \in [Jobs -> [state : {"none", "waiting", "active", "completed", "failed"},
                                failures : 0..MaxAttempts]]
            BY DEF Base, TypeOK
        <3> QED BY <3>2, <3>3
    <2>2. CASE ~ \E c \in Channels, s \in Sources : Enqueue(c, s)
        <3>1. job' = job
            BY <2>2 DEF Publish, Rewrite, Change, NextWindow, Editor, Create, Readdress, SetStatus,
                        Disable, Probe, queues, vars
        <3> QED BY <3>1
    <2> QED BY <2>1, <2>2
<1> QED BY <1>1, <1>2, <1>3, HandOffsQuiet

\* Every step keeps the hand-offs right.
LEMMA HandOffsStep == Base /\ HandOffs /\ [Next]_vars => HandOffs'
<1> SUFFICES ASSUME Base, HandOffs, [Next]_vars PROVE HandOffs'
    OBVIOUS
<1>1. ASSUME NEW c \in Channels, NEW s \in Sources,
             Discover(c, s) \/ DiscoveryFails(c, s) \/ Evict(c, s)
      PROVE  HandOffs'
    BY <1>1, HandOffsDiscover, HandOffsQueue
<1>2. ASSUME NEW w \in Workers, Progress(w) \/ Throw(w) \/ HandOffFails(w) \/ Crash(w)
      PROVE  HandOffs'
    BY <1>2, HandOffsStore, HandOffsHandOff, HandOffsRun DEF Progress
<1> QED BY <1>1, <1>2, HandOffsOthers DEF Next

\* A completed ingestion whose hand-off was accepted as a new job is covered by
\* the discovery pass, whatever fails, crashes or interleaves between the two.
THEOREM AcceptedHandOffsCover == Spec => []AcceptedHandOffCovers
<1>1. Init => Base /\ HandOffs
    BY InitBase, InitHandOffs
<1>2. Base /\ HandOffs /\ [Next]_vars => (Base /\ HandOffs)'
    BY BaseStep, HandOffsStep
<1>3. HandOffs => AcceptedHandOffCovers
    BY DEF HandOffs
<1> QED BY <1>1, <1>2, <1>3, PTL DEF Spec
-----------------------------------------------------------------------------
(***************************************************************************)
(* The queues of this module are job boards, as the detailed queue of      *)
(* JobQueue is: what is shown here for abstract queues does not rest on a  *)
(* job that JobQueue would not move that way.                              *)
(***************************************************************************)
OnBoard(state) ==
    IF state \in {"waiting", "active"} THEN "pending"
    ELSE IF state = "completed" THEN "done"
    ELSE IF state = "failed" THEN "dead" ELSE "absent"

JobStatus == [j \in Jobs |-> OnBoard(job[j].state)]
IngestionJobs == INSTANCE JobBoard WITH status <- JobStatus

Bindings == Channels \X Sources
HandoffStatus == [b \in Bindings |-> OnBoard(handoff[b[1]][b[2]])]
DiscoveryJobs == INSTANCE JobBoard WITH Jobs <- Bindings, status <- HandoffStatus

\* A job that goes on moves on the board when it is over, and else not at all.
LEMMA JobMoves ==
    ASSUME Base, NEW j \in Jobs, NEW to,
           \A i \in Jobs \ {j} : job'[i].state = job[i].state, job'[j].state = to,
           OnBoard(job[j].state) = "pending", to \in {"waiting", "active", "completed", "failed"}
    PROVE  IngestionJobs!Settle(j) \/ UNCHANGED JobStatus
<1>1. CASE to \in {"waiting", "active"}
    <2>1. \A i \in Jobs : OnBoard(job'[i].state) = OnBoard(job[i].state)
        BY <1>1 DEF OnBoard
    <2> QED BY <2>1 DEF JobStatus
<1>2. CASE to \in {"completed", "failed"}
    <2>1. PICK end \in {"done", "dead"} : OnBoard(to) = end
        BY <1>2 DEF OnBoard
    <2>2. JobStatus' = [JobStatus EXCEPT ![j] = end]
        BY <2>1 DEF JobStatus
    <2> QED BY <2>1, <2>2 DEF JobStatus, IngestionJobs!Settle, IngestionJobs!Move
<1> QED BY <1>1, <1>2

\* Only a trigger, a worker that takes a job and the end of a run touch a job.
LEMMA IngestionJobSteps ==
    ASSUME Base, [Next]_vars
    PROVE  [IngestionJobs!Next]_JobStatus
<1> USE DEF IngestionJobs!Next
<1>1. job \in [Jobs -> [state : {"none", "waiting", "active", "completed", "failed"},
                        failures : 0..MaxAttempts]]
    BY DEF Base, TypeOK
<1>2. CASE job' = job
    BY <1>2 DEF JobStatus
<1>3. ASSUME NEW c \in Channels, NEW s \in Sources, Enqueue(c, s) PROVE [IngestionJobs!Next]_JobStatus
    <2>1. PICK j \in Jobs : job[j].state = "none" /\ job' = [job EXCEPT ![j].state = "waiting"]
        BY <1>3 DEF Enqueue, Jobs, Base, TypeOK
    <2>2. JobStatus' = [JobStatus EXCEPT ![j] = "pending"] /\ JobStatus[j] = "absent"
        BY <1>1, <2>1 DEF JobStatus, OnBoard
    <2> QED BY <2>2 DEF IngestionJobs!Submit, IngestionJobs!Move
<1>4. ASSUME NEW w \in Workers, Start(w) PROVE [IngestionJobs!Next]_JobStatus
    <2>1. PICK j \in Jobs : job[j].state = "waiting" /\ job' = [job EXCEPT ![j].state = "active"]
        BY <1>4 DEF Start
    <2>2. job'[j].state = "active" /\ \A i \in Jobs \ {j} : job'[i].state = job[i].state
        BY <1>1, <2>1
    <2>3. OnBoard(job[j].state) = "pending"
        BY <2>1 DEF OnBoard
    <2> QED BY <2>2, <2>3, JobMoves
<1>5. ASSUME NEW w \in Workers, Leaves(w) PROVE [IngestionJobs!Next]_JobStatus
    <2>1. PICK state \in {"waiting", "completed", "failed"}, failures \in 0 .. MaxAttempts :
              Working(w) /\ job' = [job EXCEPT ![run[w].job] = [state |-> state, failures |-> failures]]
        BY <1>5, LeaveDoes
    <2>2. run[w].job \in Jobs /\ job[run[w].job].state = "active"
        BY <2>1, WorkerHas
    <2>3. /\ job'[run[w].job].state = state
          /\ \A i \in Jobs \ {run[w].job} : job'[i].state = job[i].state
        BY <1>1, <2>1, <2>2
    <2>4. OnBoard(job[run[w].job].state) = "pending"
        BY <2>2 DEF OnBoard
    <2> QED BY <2>2, <2>3, <2>4, JobMoves
<1>6. \/ job' = job
      \/ \E c \in Channels, s \in Sources : Enqueue(c, s)
      \/ \E w \in Workers : Start(w) \/ Leaves(w)
    <2>1. ASSUME NEW u \in Urls, Publish(u) \/ Rewrite(u) PROVE job' = job
        BY <2>1 DEF Publish, Rewrite, Change, queues
    <2>2. ASSUME NextWindow PROVE job' = job
        BY <2>2 DEF NextWindow, queues
    <2>3. ASSUME NEW c \in Channels, NEW s \in Sources,
                 \/ Create(c, s) \/ Readdress(c, s) \/ SetStatus(c, s) \/ Disable(c, s) \/ Probe(c, s)
                 \/ Discover(c, s) \/ DiscoveryFails(c, s) \/ Evict(c, s)
          PROVE  job' = job
        BY <2>3 DEF Create, Readdress, SetStatus, Disable, Probe, Discover, DiscoveryFails, Evict, queues
    <2>4. ASSUME NEW w \in Workers, Fetch(w) \/ Store(w) \/ SaveCursor(w) \/ Report(w) PROVE job' = job
        BY <2>4 DEF Fetch, Store, SaveCursor, Report, queues
    <2>5. CASE UNCHANGED vars
        BY <2>5 DEF vars
    <2> QED BY <2>1, <2>2, <2>3, <2>4, <2>5 DEF Next, Editor, Progress, Leaves
<1> QED BY <1>2, <1>3, <1>4, <1>5, <1>6

\* One hand-off changes as a discovery job may.
LEMMA HandoffMoves ==
    ASSUME Base, NEW c \in Channels, NEW s \in Sources, NEW to,
           handoff' = [handoff EXCEPT ![c][s] = to],
           \/ handoff[c][s] = "none" /\ to = "waiting"
           \/ handoff[c][s] = "waiting" /\ to \in {"completed", "failed"}
           \/ handoff[c][s] = "completed" /\ to = "none"
    PROVE  DiscoveryJobs!Next
<1> DEFINE b == <<c, s>>
<1>1. handoff \in [Channels -> [Sources -> {"none", "waiting", "completed", "failed"}]]
    BY DEF Base, TypeOK
<1>2. \A x \in Channels, y \in Sources :
          handoff'[x][y] = IF x = c /\ y = s THEN to ELSE handoff[x][y]
    BY <1>1
<1>3. b \in Bindings /\ b[1] = c /\ b[2] = s
    BY DEF Bindings
<1>4. \A d \in Bindings : d[1] \in Channels /\ d[2] \in Sources /\ (d[1] = c /\ d[2] = s <=> d = b)
    BY DEF Bindings
<1> HIDE DEF b
<1>5. HandoffStatus' = [HandoffStatus EXCEPT ![b] = OnBoard(to)] /\ HandoffStatus[b] = OnBoard(handoff[c][s])
    <2>1. \A d \in Bindings : handoff'[d[1]][d[2]] = IF d = b THEN to ELSE handoff[d[1]][d[2]]
        BY <1>2, <1>4
    <2>2. \A d \in Bindings :
              OnBoard(handoff'[d[1]][d[2]]) =
              IF d = b THEN OnBoard(to) ELSE OnBoard(handoff[d[1]][d[2]])
        BY <2>1
    <2>3. HandoffStatus' = [d \in Bindings |-> IF d = b THEN OnBoard(to) ELSE HandoffStatus[d]]
        BY <2>2 DEF HandoffStatus
    <2>4. HandoffStatus[b] = OnBoard(handoff[c][s])
        BY <1>3 DEF HandoffStatus
    <2>5. HandoffStatus = [d \in Bindings |-> HandoffStatus[d]]
        BY DEF HandoffStatus
    <2> QED BY <2>3, <2>4, <2>5
<1>6. CASE handoff[c][s] = "none" /\ to = "waiting"
    BY <1>3, <1>5, <1>6 DEF OnBoard, DiscoveryJobs!Next, DiscoveryJobs!Submit, DiscoveryJobs!Move
<1>7. CASE handoff[c][s] = "waiting" /\ to \in {"completed", "failed"}
    BY <1>3, <1>5, <1>7 DEF OnBoard, DiscoveryJobs!Next, DiscoveryJobs!Settle, DiscoveryJobs!Move
<1>8. CASE handoff[c][s] = "completed" /\ to = "none"
    BY <1>3, <1>5, <1>8 DEF OnBoard, DiscoveryJobs!Next, DiscoveryJobs!Forget, DiscoveryJobs!Move
<1> QED BY <1>6, <1>7, <1>8

\* Only a run's hand-off, discovery and eviction touch a hand-off.
LEMMA DiscoveryJobSteps ==
    ASSUME Base, [Next]_vars
    PROVE  [DiscoveryJobs!Next]_HandoffStatus
<1>1. CASE handoff' = handoff
    BY <1>1 DEF HandoffStatus
<1>2. ASSUME NEW w \in Workers, HandOff(w) PROVE [DiscoveryJobs!Next]_HandoffStatus
    <2>1. ChannelOf(w) \in Channels /\ SourceOf(w) \in Sources
        BY <1>2, WorkerHas DEF HandOff, Working
    <2>2. CASE handoff[ChannelOf(w)][SourceOf(w)] = "none"
        BY <1>2, <2>1, <2>2, HandoffMoves DEF HandOff
    <2> QED BY <1>1, <1>2, <2>2 DEF HandOff
<1>3. ASSUME NEW c \in Channels, NEW s \in Sources,
             Discover(c, s) \/ DiscoveryFails(c, s) \/ Evict(c, s)
      PROVE  [DiscoveryJobs!Next]_HandoffStatus
    BY <1>3, HandoffMoves DEF Discover, DiscoveryFails, Evict
<1>4. \/ handoff' = handoff
      \/ \E c \in Channels, s \in Sources : Discover(c, s) \/ DiscoveryFails(c, s) \/ Evict(c, s)
      \/ \E w \in Workers : HandOff(w)
    <2>1. ASSUME NEW u \in Urls, Publish(u) \/ Rewrite(u) PROVE handoff' = handoff
        BY <2>1 DEF Publish, Rewrite, Change, queues
    <2>2. ASSUME NextWindow PROVE handoff' = handoff
        BY <2>2 DEF NextWindow, queues
    <2>3. ASSUME NEW c \in Channels, NEW s \in Sources, Editor(c, s) PROVE handoff' = handoff
        BY <2>3 DEF Editor, Create, Readdress, SetStatus, Disable, Enqueue, Probe, queues
    <2>4. ASSUME NEW w \in Workers, Start(w) \/ Fetch(w) \/ Store(w) \/ SaveCursor(w) \/ Report(w)
          PROVE  handoff' = handoff
        BY <2>4 DEF Start, Fetch, Store, SaveCursor, Report, queues
    <2>5. ASSUME NEW w \in Workers, Throw(w) \/ HandOffFails(w) \/ Crash(w) PROVE handoff' = handoff
        BY <2>5 DEF Throw, HandOffFails, Crash
    <2>6. CASE UNCHANGED vars
        BY <2>6 DEF vars
    <2> QED BY <2>1, <2>2, <2>3, <2>4, <2>5, <2>6 DEF Next, Progress
<1> QED BY <1>1, <1>2, <1>3, <1>4

\* Both queues keep what a board promises: an id that is known is not added again, a
\* failed job keeps its id for good, and only what is done is forgotten, whichever
\* runs fail, crash or are repeated. JobQueueProofs shows the same of the queue itself.
THEOREM QueuesAreBoards == Spec => IngestionJobs!SafetySpec /\ DiscoveryJobs!SafetySpec
<1>1. Init => IngestionJobs!Init /\ DiscoveryJobs!Init
    <2> SUFFICES ASSUME Init PROVE IngestionJobs!Init /\ DiscoveryJobs!Init
        OBVIOUS
    <2>1. \A j \in Jobs : OnBoard(job[j].state) = "absent"
        BY DEF Init, OnBoard
    <2>2. \A b \in Bindings : OnBoard(handoff[b[1]][b[2]]) = "absent"
        BY DEF Init, OnBoard, Bindings
    <2> QED BY <2>1, <2>2 DEF IngestionJobs!Init, DiscoveryJobs!Init, JobStatus, HandoffStatus
<1>2. Base /\ [Next]_vars => [IngestionJobs!Next]_JobStatus
    BY IngestionJobSteps
<1>3. Base /\ [Next]_vars => [DiscoveryJobs!Next]_HandoffStatus
    BY DiscoveryJobSteps
<1> QED BY <1>1, <1>2, <1>3, BaseHolds, PTL DEF Spec, IngestionJobs!SafetySpec, DiscoveryJobs!SafetySpec
-----------------------------------------------------------------------------
(***************************************************************************)
(* Runs come to an end.                                                    *)
(***************************************************************************)

\* The calls a run still makes, at most: the fetch, an upsert for each item, the
\* cursor, the snapshot and the hand-off.
CallsFrom == [idle |-> 0, handoff |-> 1, report |-> 2, store |-> 3, fetch |-> MaxEntries + 4]
CallsIn(r) == CallsFrom[r.step] + (IF r.step = "store" THEN Cardinality(DOMAIN r.todo) ELSE 0)

CallsLeft(w) == CallsIn(run[w])

\* Not before a run is over does its worker do anything but the run's next call.
RunGetsOn(w) == Working(w) /\ run'[w] # run[w] => CallsLeft(w)' < CallsLeft(w)

\* What is to be stored can be counted, and is no more than an adapter reads.
LEMMA BatchCounts ==
    ASSUME NEW b \in Batches
    PROVE  /\ IsFiniteSet(DOMAIN b) /\ Cardinality(DOMAIN b) \in 0 .. MaxEntries
           /\ \A n \in DOMAIN b : Cardinality(DOMAIN b \ {n}) = Cardinality(DOMAIN b) - 1
<1>1. DOMAIN b \subseteq 1 .. MaxEntries
    BY BatchElim
<1>2. IsFiniteSet(1 .. MaxEntries) /\ Cardinality(1 .. MaxEntries) = MaxEntries
    BY MaxEntriesAssumption, FS_Interval
<1>3. IsFiniteSet(DOMAIN b) /\ Cardinality(DOMAIN b) \leq MaxEntries
    BY <1>1, <1>2, FS_Subset
<1>4. Cardinality(DOMAIN b) \in Nat
    BY <1>3, FS_CardinalityType
<1>5. \A n \in DOMAIN b : Cardinality(DOMAIN b \ {n}) = Cardinality(DOMAIN b) - 1
    BY <1>3, FS_RemoveElement
<1> QED BY <1>3, <1>4, <1>5, MaxEntriesAssumption

\* A run's calls can be counted, and there are none left when it is over only.
LEMMA CallsCount ==
    ASSUME NEW r \in Runs
    PROVE  CallsIn(r) \in 0 .. MaxEntries + 4 /\ (r.step # "idle" => CallsIn(r) > 0)
<1>1. r.step \in Steps /\ r.todo \in Batches
    BY DEF Runs
<1>2. Cardinality(DOMAIN r.todo) \in 0 .. MaxEntries
    BY <1>1, BatchCounts
<1> QED BY <1>1, <1>2, MaxEntriesAssumption DEF CallsIn, CallsFrom, Steps

\* A run's next call is one call less.
LEMMA NextCall ==
    ASSUME Base, NEW w \in Workers, Fetch(w) \/ Store(w) \/ SaveCursor(w) \/ Report(w)
    PROVE  \E r \in Runs : run' = [run EXCEPT ![w] = r] /\ CallsIn(r) < CallsIn(run[w])
<1> USE MaxEntriesAssumption
<1>1. CASE Fetch(w)
    <2>1. PICK r \in Runs : /\ Working(w) /\ run[w].step = "fetch"
                            /\ run' = [run EXCEPT ![w] = r] /\ r.step = "store"
        BY <1>1, FetchDoes
    <2>2. r.todo \in Batches
        BY DEF Runs
    <2>3. CallsIn(r) = 3 + Cardinality(DOMAIN r.todo) /\ CallsIn(run[w]) = MaxEntries + 4
        BY <2>1 DEF CallsIn, CallsFrom
    <2>4. Cardinality(DOMAIN r.todo) \in 0 .. MaxEntries
        BY <2>2, BatchCounts
    <2>5. CallsIn(r) < CallsIn(run[w])
        BY <2>3, <2>4
    <2> QED BY <2>1, <2>5
<1>2. CASE Store(w)
    <2>1. PICK n \in DOMAIN run[w].todo, r \in Runs :
              /\ Working(w) /\ run[w].step = "store" /\ run' = [run EXCEPT ![w] = r]
              /\ r.step = "store" /\ DOMAIN r.todo = DOMAIN run[w].todo \ {n}
        BY <1>2, StoreDoes
    <2>2. run[w].todo \in Batches
        BY <2>1, WorkerHas
    <2>3. /\ CallsIn(r) = 3 + Cardinality(DOMAIN run[w].todo \ {n})
          /\ CallsIn(run[w]) = 3 + Cardinality(DOMAIN run[w].todo)
        BY <2>1 DEF CallsIn, CallsFrom
    <2>4. /\ Cardinality(DOMAIN run[w].todo) \in 0 .. MaxEntries
          /\ Cardinality(DOMAIN run[w].todo \ {n}) = Cardinality(DOMAIN run[w].todo) - 1
        BY <2>1, <2>2, BatchCounts
    <2>5. CallsIn(r) < CallsIn(run[w])
        BY <2>3, <2>4
    <2> QED BY <2>1, <2>5
<1>3. CASE SaveCursor(w)
    <2>1. PICK r \in Runs : /\ Working(w) /\ run[w].step = "store"
                            /\ run' = [run EXCEPT ![w] = r] /\ r.step = "report"
        BY <1>3, SaveCursorDoes
    <2>2. run[w].todo \in Batches
        BY <2>1, WorkerHas
    <2>3. CallsIn(r) = 2 /\ CallsIn(run[w]) = 3 + Cardinality(DOMAIN run[w].todo)
        BY <2>1 DEF CallsIn, CallsFrom
    <2>4. Cardinality(DOMAIN run[w].todo) \in 0 .. MaxEntries
        BY <2>2, BatchCounts
    <2>5. CallsIn(r) < CallsIn(run[w])
        BY <2>3, <2>4
    <2> QED BY <2>1, <2>5
<1>4. CASE Report(w)
    <2>1. PICK r \in Runs : /\ run[w].step = "report"
                            /\ run' = [run EXCEPT ![w] = r] /\ r.step = "handoff"
        BY <1>4, ReportDoes
    <2>2. CallsIn(r) = 1 /\ CallsIn(run[w]) = 2
        BY <2>1 DEF CallsIn, CallsFrom
    <2>3. CallsIn(r) < CallsIn(run[w])
        BY <2>2
    <2> QED BY <2>1, <2>3
<1> QED BY <1>1, <1>2, <1>3, <1>4

\* Whoever takes a step, a run gets on or is left where it is.
LEMMA StepGetsOn ==
    ASSUME Base, [Next]_vars, NEW w \in Workers
    PROVE  RunGetsOn(w)
<1> SUFFICES ASSUME Working(w), run'[w] # run[w] PROVE CallsIn(run'[w]) < CallsIn(run[w])
    BY DEF RunGetsOn, CallsLeft
<1>1. run \in [Workers -> Runs] /\ run[w] \in Runs
    BY DEF Base, TypeOK
<1>2. ASSUME NEW v \in Workers, Fetch(v) \/ Store(v) \/ SaveCursor(v) \/ Report(v)
      PROVE  CallsIn(run'[w]) < CallsIn(run[w])
    <2>1. PICK r \in Runs : run' = [run EXCEPT ![v] = r] /\ CallsIn(r) < CallsIn(run[v])
        BY <1>2, NextCall
    <2> QED BY <1>1, <2>1
<1>3. ASSUME NEW v \in Workers, Leaves(v) PROVE CallsIn(run'[w]) < CallsIn(run[w])
    <2>1. run' = [run EXCEPT ![v] = NoRun]
        BY <1>3, LeaveDoes
    <2>2. run'[w] = NoRun
        BY <1>1, <2>1
    <2>3. CallsIn(run'[w]) = 0
        BY <2>2, NoRunTyped DEF CallsIn, CallsFrom
    <2> QED BY <1>1, <2>3, CallsCount, MaxEntriesAssumption DEF Working
<1>4. ASSUME NEW v \in Workers, Start(v) PROVE FALSE
    <2>1. PICK r \in Runs : ~ Working(v) /\ run' = [run EXCEPT ![v] = r]
        BY <1>4, StartDoes
    <2> QED BY <1>1, <2>1
<1>5. \/ run' = run
      \/ \E v \in Workers :
            Start(v) \/ Fetch(v) \/ Store(v) \/ SaveCursor(v) \/ Report(v) \/ Leaves(v)
    <2>1. ASSUME NEW u \in Urls, Publish(u) \/ Rewrite(u) PROVE run' = run
        BY <2>1 DEF Publish, Rewrite, Change
    <2>2. ASSUME NextWindow PROVE run' = run
        BY <2>2 DEF NextWindow
    <2>3. ASSUME NEW c \in Channels, NEW s \in Sources,
                 Editor(c, s) \/ Discover(c, s) \/ DiscoveryFails(c, s) \/ Evict(c, s)
          PROVE  run' = run
        BY <2>3 DEF Editor, Create, Readdress, SetStatus, Disable, Enqueue, Probe,
                    Discover, DiscoveryFails, Evict
    <2>4. CASE UNCHANGED vars
        BY <2>4 DEF vars
    <2> QED BY <2>1, <2>2, <2>3, <2>4 DEF Next, Progress, Leaves
<1> QED BY <1>2, <1>3, <1>4, <1>5

\* Every call of a run brings it nearer to its end, and nothing the editors, the
\* origins or the other runs of its source do puts it back: a run makes at most
\* MaxEntries + 4 calls, and one whose calls are answered hands over to discovery.
THEOREM RunsGetOn ==
    Spec => /\ [](\A w \in Workers : CallsLeft(w) \in 0 .. MaxEntries + 4)
            /\ [][\A w \in Workers : RunGetsOn(w)]_vars
<1>1. Base => \A w \in Workers : CallsLeft(w) \in 0 .. MaxEntries + 4
    BY CallsCount DEF Base, TypeOK, CallsLeft
<1>2. Base /\ [Next]_vars => [\A w \in Workers : RunGetsOn(w)]_vars
    BY StepGetsOn
<1> QED BY <1>1, <1>2, BaseHolds, PTL DEF Spec
=============================================================================
