------------------------ MODULE IngestionCursorProofs ------------------------
(***************************************************************************)
(* The cursors of ingestion, for any number of channels, sources, workers, *)
(* entries and failures: a cursor, saved or carried by a run, never stands *)
(* past an entry that was not dealt with, and under a validator the origin *)
(* would answer 304 to the stored texts are those of now.                  *)
(***************************************************************************)
EXTENDS IngestionProofs

(***************************************************************************)
(* Content and cursors, as values. Content is a record [entries, stamp]    *)
(* that an address serves, met and stored are what seen and rows hold for  *)
(* one source, and pending are the ids of the items a run has still to     *)
(* store.                                                                  *)
(***************************************************************************)
Shown(at) == {n \in Visible(at.entries) : at.entries[n].usable}

IdsOf(todo) == {todo[n].id : n \in DOMAIN todo}

Settled(i, met, pending) == met[i] # "never" \/ i \in pending

\* A cursor is no newer than the content, and its watermark is a date of it.
Rooted(c, at) ==
    /\ c.stamp <= at.stamp
    /\ c.watermark # 0 => \E n \in DOMAIN at.entries : at.entries[n].date = c.watermark

\* Every entry the watermark has passed is settled or still to be stored.
PassesNothing(c, at, met, pending) ==
    \A n \in Shown(at) :
        /\ at.entries[n].date # 0 /\ Alone(at.entries[n])
        /\ at.entries[n].date <= c.watermark
        => Settled(at.entries[n].id, met, pending)

\* Every entry a current validator hides is settled or still to be stored.
HidesNothing(c, at, met, pending) ==
    c.stamp = at.stamp =>
        \A n \in Shown(at) :
            at.entries[n].date = 0 \/ Alone(at.entries[n]) => Settled(at.entries[n].id, met, pending)

CursorFits(c, at, met, pending) ==
    Rooted(c, at) /\ PassesNothing(c, at, met, pending) /\ HidesNothing(c, at, met, pending)

\* Under a current validator the undated items are stored with their text of now.
TextsFit(c, at, met, stored, pending) ==
    c.stamp = at.stamp =>
        \A n \in Shown(at) :
            LET e == at.entries[n]
            IN  e.date = 0 /\ met[e.id] = "stored" /\ e.id \notin pending => stored[e.id] = e.text

\* What is to be stored has the texts the content had when the cursor was made.
BatchFits(c, at, todo) ==
    c.stamp = at.stamp =>
        \A n \in DOMAIN todo, m \in DOMAIN at.entries :
            at.entries[m].id = todo[n].id => at.entries[m].text = todo[n].text

\* The undated entries shown are all among some ids.
UndatedIn(at, ids) ==
    \A n \in Shown(at) : at.entries[n].date = 0 => at.entries[n].id \in ids
-----------------------------------------------------------------------------
(***************************************************************************)
(* The inductive invariant.                                                *)
(***************************************************************************)
At(s)      == origin[source[s].url]
Reading(w) == run[w].step \in {"fetch", "store"}

\* A run of a source that was never moved is at the source's address.
RunsAtSource ==
    \A w \in Workers : Working(w) /\ SourceOf(w) \notin moved => run[w].url = source[SourceOf(w)].url

SavedCursorsFit ==
    \A s \in Sources \ moved : CursorFits(source[s].cursor, At(s), seen[s], {})

HeldCursorsFit ==
    \A w \in Workers : Reading(w) /\ SourceOf(w) \notin moved =>
        CursorFits(run[w].cursor, Served(w), seen[SourceOf(w)], IdsOf(run[w].todo))

CursorsFit == RunsAtSource /\ SavedCursorsFit /\ HeldCursorsFit

\* Runs of a source that never overlapped come one after the other.
OneRun ==
    \A v, w \in Workers :
        UnderWay(v) /\ UnderWay(w) /\ SourceOf(v) = SourceOf(w) /\ SourceOf(v) \notin overlapped => v = w

SavedTextsFit ==
    \A s \in Sources \ (moved \cup overlapped) :
        TextsFit(source[s].cursor, At(s), seen[s], rows[s], {})

HeldTextsFit ==
    \A w \in Workers : Reading(w) /\ SourceOf(w) \notin moved \cup overlapped =>
        /\ source[SourceOf(w)].cursor.stamp <= run[w].cursor.stamp
        /\ BatchFits(run[w].cursor, Served(w), run[w].todo)
        /\ TextsFit(run[w].cursor, Served(w), seen[SourceOf(w)], rows[SourceOf(w)], IdsOf(run[w].todo))

TextsAreCurrent == OneRun /\ SavedTextsFit /\ HeldTextsFit
-----------------------------------------------------------------------------
(***************************************************************************)
(* What happens to content, a cursor and a batch, as values.               *)
(***************************************************************************)

\* Entries, dates and positions of content.
LEMMA ContentHas ==
    ASSUME NEW at, at.entries \in Seq(Entries)
    PROVE  /\ \A n \in DOMAIN at.entries : /\ at.entries[n] \in Entries
                                           /\ at.entries[n].id \in Ids
                                           /\ at.entries[n].date \in Nat
           /\ \A n \in Shown(at) : n \in DOMAIN at.entries /\ at.entries[n].usable
           /\ \A n \in DOMAIN at.entries : n \in Nat
<1>1. \A n \in DOMAIN at.entries : at.entries[n] \in Entries /\ n \in Nat
    OBVIOUS
<1>2. Dates \subseteq Nat
    BY IngestionAssumption DEF Dates
<1> QED BY <1>1, <1>2 DEF Entries, Shown, Visible

\* Content moves on: a cursor that fitted still does, and it is not current.
LEMMA FollowedFits ==
    ASSUME NEW at, at.entries \in Seq(Entries), at.stamp \in Nat,
           NEW later, later.entries \in Seq(Entries), later.stamp \in Nat, at.stamp < later.stamp,
           NEW kind, IsFeed(kind, at.entries), IsFeed(kind, later.entries),
           Follows(at.entries, later.entries),
           NEW c \in Cursors, NEW met, NEW pending, CursorFits(c, at, met, pending)
    PROVE  CursorFits(c, later, met, pending) /\ c.stamp # later.stamp
<1>1. c.stamp \in Nat /\ c.watermark \in Nat
    BY IngestionAssumption DEF Cursors
<1>2. c.stamp < later.stamp
    BY <1>1 DEF CursorFits, Rooted
<1>3. Rooted(c, later)
    <2>1. c.watermark # 0 => \E n \in DOMAIN later.entries : later.entries[n].date = c.watermark
        BY DEF CursorFits, Rooted, Follows
    <2> QED BY <1>1, <1>2, <2>1 DEF Rooted
<1>4. PassesNothing(c, later, met, pending)
    <2> SUFFICES ASSUME NEW n \in Shown(later),
                        later.entries[n].date # 0, Alone(later.entries[n]),
                        later.entries[n].date <= c.watermark
                 PROVE  Settled(later.entries[n].id, met, pending)
        BY DEF PassesNothing
    <2> DEFINE e == later.entries[n]
    <2>1. n \in DOMAIN later.entries /\ n \in Nat /\ n <= MaxEntries
          /\ e.id \in Ids /\ e.date \in Nat /\ e.date = DateOf[e.id]
        BY ContentHas DEF Shown, Visible, IsFeed
    <2>2. e.usable /\ (e.usable <=> e.id \notin Broken)
        <3>1. e.usable
            BY ContentHas
        <3> QED BY <2>1, <3>1 DEF IsFeed
    <2>3. ASSUME NEW m \in DOMAIN at.entries, m <= n, at.entries[m].id = e.id
          PROVE  Settled(e.id, met, pending)
        <3>1. at.entries[m].date = e.date
            BY <2>1, <2>3 DEF IsFeed
        <3>2. at.entries[m].usable
            <4>1. at.entries[m].usable <=> at.entries[m].id \notin Broken
                BY Zenon DEF IsFeed
            <4> QED BY <2>2, <2>3, <4>1
        <3>3. m \in Nat /\ m <= MaxEntries
            BY <2>1, <2>3, ContentHas, MaxEntriesAssumption
        <3>4. m \in Shown(at)
            BY <3>2, <3>3 DEF Shown, Visible
        <3>5. Alone(at.entries[m])
            BY <2>3, <3>1 DEF Alone
        <3> HIDE DEF e
        <3>6. at.entries[m].date # 0 /\ at.entries[m].date <= c.watermark
            BY <3>1 DEF e
        <3> QED BY <2>3, <3>4, <3>5, <3>6 DEF CursorFits, PassesNothing
    <2>4. ASSUME \A m \in DOMAIN at.entries : at.entries[m].id # e.id /\ at.entries[m].date <= e.date
          PROVE  FALSE
        <3>1. PICK m \in DOMAIN at.entries : at.entries[m].date = c.watermark
            BY <1>1, <2>1 DEF CursorFits, Rooted
        <3>2. at.entries[m].date = e.date
            BY <1>1, <2>1, <2>4, <3>1
        <3>3. at.entries[m].id \in Ids \ {e.id} /\ at.entries[m].date = DateOf[at.entries[m].id]
            BY <2>4, ContentHas DEF IsFeed
        <3> QED BY <3>2, <3>3 DEF Alone
    <2>5. \/ e.date = 0
          \/ \E m \in DOMAIN at.entries : m <= n /\ at.entries[m].id = e.id
          \/ \A m \in DOMAIN at.entries : at.entries[m].id # e.id /\ at.entries[m].date <= e.date
        BY <2>1 DEF Follows
    <2> QED BY <2>3, <2>4, <2>5
<1>5. HidesNothing(c, later, met, pending)
    BY <1>1, <1>2 DEF HidesNothing
<1> QED BY <1>1, <1>2, <1>3, <1>4, <1>5 DEF CursorFits

\* More is settled than was: what fitted still does.
LEMMA SettledFits ==
    ASSUME NEW c, NEW at, at.entries \in Seq(Entries), NEW met, NEW pending, CursorFits(c, at, met, pending),
           NEW met2, NEW pending2,
           \A i \in Ids : Settled(i, met, pending) => Settled(i, met2, pending2)
    PROVE  CursorFits(c, at, met2, pending2)
<1>1. \A n \in Shown(at) : at.entries[n].id \in Ids
    BY ContentHas
<1>2. PassesNothing(c, at, met2, pending2)
    BY <1>1 DEF CursorFits, PassesNothing
<1>3. HidesNothing(c, at, met2, pending2)
    BY <1>1 DEF CursorFits, HidesNothing
<1> QED BY <1>2, <1>3 DEF CursorFits

\* A fetch: what the new cursor passes is settled or among the items.
LEMMA ReadFeedFits ==
    ASSUME NEW at, at.entries \in Seq(Entries), at.stamp \in Nat,
           NEW kind, IsFeed(kind, at.entries),
           NEW c \in Cursors, NEW met, CursorFits(c, at, met, {}),
           NEW r, r = ReadFeed(at.entries, at.stamp, c)
    PROVE  /\ CursorFits(r.cursor, at, met, IdsOf(r.items)) /\ r.cursor.stamp = at.stamp
           /\ BatchFits(r.cursor, at, r.items)
           /\ UndatedIn(at, IdsOf(r.items))
<1> DEFINE fresh == {m \in Shown(at) : PastWatermark(at.entries[m], c.watermark)}
           dates == {at.entries[n].date : n \in Shown(at)}
           date  == [n \in Shown(at) |-> at.entries[n].date]
<1>1. /\ r.items = [n \in fresh |-> at.entries[n]]
      /\ r.cursor.stamp = at.stamp
      /\ r.cursor.watermark = Newest(dates, c.watermark)
    BY DEF ReadFeed, Shown
<1>2. c.watermark \in Nat
    BY DEF Cursors
<1>3. \A n \in Shown(at) : at.entries[n].date \in Nat
    BY ContentHas
<1>4. Newest(dates, c.watermark) \in dates \cup {c.watermark}
    <2>1. Shown(at) \subseteq 1 .. MaxEntries
        BY MaxEntriesAssumption DEF Shown, Visible
    <2>2. \A n \in Shown(at) : date[n] \in Nat /\ date[n] = at.entries[n].date
        BY <1>3
    <2>3. \A d : d \in dates <=> \E n \in Shown(at) : date[n] = d
        BY <2>2
    <2> HIDE DEF dates, date
    <2>4. DatesAt(dates, Shown(at), date)
        BY <2>1, <2>2, <2>3 DEF DatesAt
    <2> QED BY <1>2, <2>4, NewestIsNewest
<1>5. \A n \in fresh : at.entries[n].id \in IdsOf(r.items)
    <2>1. DOMAIN r.items = fresh /\ \A n \in fresh : r.items[n] = at.entries[n]
        BY <1>1
    <2> HIDE DEF fresh
    <2> QED BY <2>1 DEF IdsOf
<1>6. \A n \in Shown(at) : at.entries[n].date = 0 => n \in fresh
    BY DEF PastWatermark
<1>7. ASSUME NEW n \in Shown(at), at.entries[n].date # 0, Alone(at.entries[n])
      PROVE  Settled(at.entries[n].id, met, IdsOf(r.items))
    <2>1. CASE n \in fresh
        BY <1>5, <2>1 DEF Settled
    <2>2. CASE n \notin fresh
        <3>1. at.entries[n].date <= c.watermark
            BY <1>2, <1>3, <2>2 DEF PastWatermark
        <3> QED BY <1>7, <3>1 DEF CursorFits, PassesNothing, Settled
    <2> QED BY <2>1, <2>2
<1>8. Rooted(r.cursor, at)
    <2>1. r.cursor.watermark # 0 => \E n \in DOMAIN at.entries : at.entries[n].date = r.cursor.watermark
        <3>1. CASE r.cursor.watermark = c.watermark
            BY <3>1 DEF CursorFits, Rooted
        <3>2. CASE r.cursor.watermark \in dates
            BY <3>2, ContentHas
        <3> QED BY <1>1, <1>4, <3>1, <3>2
    <2>2. r.cursor.stamp = at.stamp /\ at.stamp <= at.stamp
        BY <1>1
    <2> QED BY <2>1, <2>2 DEF Rooted
<1>9. BatchFits(r.cursor, at, r.items)
    <2>1. DOMAIN r.items = fresh /\ \A n \in fresh : r.items[n] = at.entries[n] /\ n \in DOMAIN at.entries
        BY <1>1, ContentHas
    <2> HIDE DEF fresh
    <2>2. \A m, n \in DOMAIN at.entries : at.entries[m].id = at.entries[n].id => m = n
        BY DEF IsFeed
    <2> QED BY <2>1, <2>2 DEF BatchFits
<1> HIDE DEF fresh, dates, date
<1>10. PassesNothing(r.cursor, at, met, IdsOf(r.items))
    BY <1>7 DEF PassesNothing
<1>11. HidesNothing(r.cursor, at, met, IdsOf(r.items))
    BY <1>5, <1>6, <1>7 DEF HidesNothing, Settled
<1> QED BY <1>1, <1>5, <1>6, <1>8, <1>9, <1>10, <1>11 DEF CursorFits, UndatedIn

\* Nothing is new: the cursor comes back as it was.
LEMMA UnchangedFits ==
    ASSUME NEW c, NEW r, r = Unchanged(c)
    PROVE  /\ r.cursor = c /\ r.items = <<>> /\ IdsOf(r.items) = {}
           /\ \A at : BatchFits(r.cursor, at, r.items)
<1>1. r.cursor = c /\ r.items = <<>>
    BY DEF Unchanged
<1>2. DOMAIN r.items = {}
    BY <1>1, NothingIsABatch
<1> QED BY <1>1, <1>2 DEF IdsOf, BatchFits

\* A page: it is quarantined, as it was, or the one item.
LEMMA ReadPageFits ==
    ASSUME NEW at, at.entries \in Seq(Entries), at.stamp \in Nat, IsFeed("WEB", at.entries),
           NEW c \in Cursors, NEW met,
           NEW r, r = ReadPage(at.entries[1], at.stamp, c), r # Unchanged(c)
    PROVE  /\ CursorFits(r.cursor, at, met, IdsOf(r.items)) /\ r.cursor.stamp = at.stamp
           /\ BatchFits(r.cursor, at, r.items)
           /\ UndatedIn(at, IdsOf(r.items))
<1>1. DOMAIN at.entries = {1} /\ at.entries[1].date = 0
    BY DEF IsFeed
<1>2. CASE ~ at.entries[1].usable
    <2>1. /\ r.items = <<>> /\ r.cursor.stamp = at.stamp /\ r.cursor.watermark = 0
        BY <1>2 DEF ReadPage, NoCursor
    <2>2. Shown(at) = {}
        BY <1>1, <1>2 DEF Shown, Visible
    <2>3. DOMAIN r.items = {}
        BY <2>1, NothingIsABatch
    <2> QED BY <2>1, <2>2, <2>3 DEF CursorFits, Rooted, PassesNothing, HidesNothing, BatchFits, UndatedIn
<1>3. CASE at.entries[1].usable
    <2>1. /\ r.items = <<at.entries[1]>> /\ r.cursor.stamp = at.stamp /\ r.cursor.watermark = 0
        BY <1>3 DEF ReadPage
    <2>2. DOMAIN r.items = {1} /\ r.items[1] = at.entries[1]
        BY <2>1
    <2>3. \A n \in Shown(at) : at.entries[n].id \in IdsOf(r.items)
        BY <1>1, <2>2 DEF Shown, Visible, IdsOf
    <2>4. BatchFits(r.cursor, at, r.items)
        BY <1>1, <2>2 DEF BatchFits
    <2>5. CursorFits(r.cursor, at, met, IdsOf(r.items))
        BY <2>1, <2>3 DEF CursorFits, Rooted, PassesNothing, HidesNothing, Settled
    <2> QED BY <2>1, <2>3, <2>4, <2>5 DEF UndatedIn
<1> QED BY <1>2, <1>3
-----------------------------------------------------------------------------
(***************************************************************************)
(* The cursors in the steps of the system.                                 *)
(***************************************************************************)

\* A cursor that was never fetched with passes and hides nothing.
LEMMA InitCursors == Init => CursorsFit
<1> SUFFICES ASSUME Init PROVE CursorsFit
    OBVIOUS
<1>1. \A w \in Workers : ~ Working(w) /\ ~ Reading(w)
    BY NoRunTyped DEF Init, Working, Reading
<1>2. SavedCursorsFit
    <2> SUFFICES ASSUME NEW s \in Sources
                 PROVE  CursorFits(source[s].cursor, At(s), seen[s], {})
        BY DEF SavedCursorsFit
    <2>1. source[s].cursor.stamp = 0 /\ source[s].cursor.watermark = 0
        BY DEF Init, NoCursor
    <2>2. source[s].url \in Urls /\ At(s).stamp = 1 /\ At(s).entries \in Seq(Entries)
        BY InitBase DEF Base, TypeOK, Init, At
    <2>3. \A n \in Shown(At(s)) : At(s).entries[n].date \in Nat
        BY <2>2, ContentHas
    <2> QED BY <2>1, <2>2, <2>3 DEF CursorFits, Rooted, PassesNothing, HidesNothing
<1> QED BY <1>1, <1>2 DEF CursorsFit, RunsAtSource, HeldCursorsFit

\* What the cursor of a source, or of a run, is compared with.
LEMMA ContentTyped ==
    ASSUME Base
    PROVE  /\ \A u \in Urls : /\ origin[u].entries \in Seq(Entries) /\ origin[u].stamp \in Nat
                              /\ IsFeed(KindOf[u], origin[u].entries)
           /\ \A s \in Sources : source[s].url \in Urls /\ source[s].cursor \in Cursors
           /\ \A w \in Workers : Working(w) => /\ run[w].url \in Urls /\ SourceOf(w) \in Sources
                                               /\ run[w].cursor \in Cursors
    BY WorkerHas DEF Base, TypeOK, Feeds

\* Steps that leave cursors, content and answers alone: a run may end or
\* become one that reads no more.
LEMMA CursorsQuiet ==
    ASSUME Base, CursorsFit, UNCHANGED <<origin, seen, moved>>,
           \A s \in Sources : source'[s].url = source[s].url /\ source'[s].cursor = source[s].cursor,
           \A w \in Workers : Working(w)' => /\ Working(w)
                                             /\ run'[w].job = run[w].job /\ run'[w].url = run[w].url,
           \A w \in Workers : Reading(w)' => run'[w] = run[w]
    PROVE  CursorsFit'
<1>1. RunsAtSource'
    BY ContentTyped DEF CursorsFit, RunsAtSource, SourceOf
<1>2. SavedCursorsFit'
    BY DEF CursorsFit, SavedCursorsFit, At
<1>3. HeldCursorsFit'
    BY DEF CursorsFit, HeldCursorsFit, Served, Reading, SourceOf
<1> QED BY <1>1, <1>2, <1>3 DEF CursorsFit

\* Content moves on under the cursors.
LEMMA CursorsFollow ==
    ASSUME Base, CursorsFit, NEW u \in Urls, Publish(u) \/ Rewrite(u)
    PROVE  /\ CursorsFit'
           /\ \A s \in Sources \ moved : source[s].url = u => source[s].cursor.stamp # origin'[u].stamp
           /\ \A w \in Workers : Reading(w) /\ SourceOf(w) \notin moved /\ run[w].url = u =>
                  run[w].cursor.stamp # origin'[u].stamp
           /\ \A v \in Urls \ {u} : origin'[v] = origin[v]
           /\ UNCHANGED <<database, queues, history, window, run>>
<1>1. PICK entries \in Seq(Entries) :
          Change(u, entries) /\ IsFeed(KindOf[u], entries) /\ Follows(origin[u].entries, entries)
    BY ContentFollows
<1>2. PICK t \in 1 .. MaxEvents + 1 :
          Clock(t) /\ origin' = [origin EXCEPT ![u] = [entries |-> entries, stamp |-> t + 1]]
    BY <1>1 DEF Change
<1>3. UNCHANGED <<database, queues, history, window, run>>
    BY <1>1 DEF Change
<1>4. /\ origin'[u].entries = entries /\ origin'[u].stamp = t + 1
      /\ \A v \in Urls \ {u} : origin'[v] = origin[v]
    BY <1>2 DEF Base, TypeOK
<1>5. /\ origin[u].stamp < origin'[u].stamp
      /\ origin[u].stamp \in Nat /\ origin'[u].stamp \in Nat
      /\ origin[u].entries \in Seq(Entries) /\ origin'[u].entries \in Seq(Entries)
      /\ IsFeed(KindOf[u], origin[u].entries) /\ IsFeed(KindOf[u], origin'[u].entries)
      /\ Follows(origin[u].entries, origin'[u].entries)
    <2>1. origin[u].stamp \in Nat /\ origin[u].stamp <= t /\ t \in Nat
        BY <1>2, ContentTyped, IngestionAssumption DEF Clock
    <2> QED BY <1>1, <1>4, <2>1, ContentTyped
<1>6. ASSUME NEW c \in Cursors, NEW met, NEW pending, CursorFits(c, origin[u], met, pending)
      PROVE  CursorFits(c, origin'[u], met, pending) /\ c.stamp # origin'[u].stamp
    BY <1>5, <1>6, FollowedFits
<1>7. RunsAtSource'
    BY <1>3 DEF CursorsFit, RunsAtSource, Working, SourceOf, database, history
<1>8. ASSUME NEW s \in Sources \ moved
      PROVE  /\ CursorFits(source[s].cursor, origin'[source[s].url], seen[s], {})
             /\ source[s].url = u => source[s].cursor.stamp # origin'[u].stamp
    <2>1. CursorFits(source[s].cursor, origin[source[s].url], seen[s], {})
        BY DEF CursorsFit, SavedCursorsFit, At
    <2>2. source[s].url \in Urls /\ source[s].cursor \in Cursors
        BY ContentTyped
    <2>3. CASE source[s].url = u
        BY <1>6, <2>1, <2>2, <2>3
    <2>4. CASE source[s].url # u
        BY <1>4, <2>1, <2>2, <2>4
    <2> QED BY <2>3, <2>4
<1>9. ASSUME NEW w \in Workers, Reading(w), SourceOf(w) \notin moved
      PROVE  /\ CursorFits(run[w].cursor, origin'[run[w].url], seen[SourceOf(w)], IdsOf(run[w].todo))
             /\ run[w].url = u => run[w].cursor.stamp # origin'[u].stamp
    <2>1. CursorFits(run[w].cursor, origin[run[w].url], seen[SourceOf(w)], IdsOf(run[w].todo))
        BY <1>9 DEF CursorsFit, HeldCursorsFit, Served
    <2>2. run[w].url \in Urls /\ run[w].cursor \in Cursors
        BY <1>9, ContentTyped DEF Reading, Working
    <2>3. CASE run[w].url = u
        BY <1>6, <2>1, <2>2, <2>3
    <2>4. CASE run[w].url # u
        BY <1>4, <2>1, <2>2, <2>4
    <2> QED BY <2>3, <2>4
<1>10. SavedCursorsFit'
    BY <1>3, <1>8 DEF SavedCursorsFit, At, database, history
<1>11. HeldCursorsFit'
    BY <1>3, <1>9 DEF HeldCursorsFit, Served, Reading, SourceOf, database, history
<1> QED BY <1>3, <1>4, <1>7, <1>8, <1>9, <1>10, <1>11 DEF CursorsFit

\* A run starts with the cursor that is saved.
LEMMA CursorsStart == ASSUME Base, CursorsFit, NEW w \in Workers, Start(w) PROVE CursorsFit'
<1>1. PICK j \in Jobs, r \in Runs :
          /\ ~ Working(w) /\ run' = [run EXCEPT ![w] = r]
          /\ r.job = j /\ r.url = source[j[2]].url /\ r.cursor = source[j[2]].cursor
          /\ r.todo = <<>> /\ j[2] \in Sources
    BY StartDoes
<1>2. UNCHANGED <<source, seen, moved, origin>>
    BY DEF Start, database
<1>3. run'[w] = r /\ \A v \in Workers \ {w} : run'[v] = run[v]
    BY <1>1 DEF Base, TypeOK
<1>4. IdsOf(r.todo) = {}
    BY <1>1, NothingIsABatch DEF IdsOf
<1>5. RunsAtSource'
    BY <1>1, <1>2, <1>3 DEF CursorsFit, RunsAtSource, Working, SourceOf
<1>6. SavedCursorsFit'
    BY <1>2 DEF CursorsFit, SavedCursorsFit, At
<1>7. HeldCursorsFit'
    <2> SUFFICES ASSUME NEW v \in Workers, Reading(v)', SourceOf(v)' \notin moved
                 PROVE  CursorFits(run'[v].cursor, origin[run'[v].url], seen[SourceOf(v)'], IdsOf(run'[v].todo))
        BY <1>2 DEF HeldCursorsFit, Served
    <2>1. CASE v = w
        <3>1. SourceOf(v)' = j[2]
            BY <1>1, <1>3, <2>1 DEF SourceOf
        <3>2. CursorFits(source[j[2]].cursor, origin[source[j[2]].url], seen[j[2]], {})
            BY <1>1, <3>1 DEF CursorsFit, SavedCursorsFit, At
        <3> QED BY <1>1, <1>3, <1>4, <2>1, <3>1, <3>2
    <2>2. CASE v # w
        <3>1. run'[v] = run[v]
            BY <1>3, <2>2
        <3> QED BY <3>1 DEF CursorsFit, HeldCursorsFit, Served, Reading, SourceOf
    <2> QED BY <2>1, <2>2
<1> QED BY <1>5, <1>6, <1>7 DEF CursorsFit

\* What a fetch brings fits the content it read.
LEMMA FetchFits ==
    ASSUME Base, CursorsFit, NEW w \in Workers, Fetch(w)
    PROVE  LET s  == SourceOf(w)
               at == Served(w)
           IN  \E r \in Runs :
                  /\ run[w].step = "fetch" /\ Working(w) /\ DOMAIN run[w].todo = {}
                  /\ run' = [run EXCEPT ![w] = r]
                  /\ r.step = "store" /\ r.job = run[w].job /\ r.url = run[w].url
                  /\ s \notin moved =>
                        /\ CursorFits(r.cursor, at, seen[s], IdsOf(r.todo))
                        /\ BatchFits(r.cursor, at, r.todo)
                        /\ \/ r.cursor = run[w].cursor /\ IdsOf(r.todo) = {}
                           \/ r.cursor.stamp = at.stamp /\ UndatedIn(at, IdsOf(r.todo))
<1> DEFINE s  == SourceOf(w)
           at == Served(w)
           c  == run[w].cursor
<1>1. PICK result : \E r \in Runs :
          /\ Working(w) /\ run[w].step = "fetch" /\ at.entries # <<>>
          /\ \/ result = Read(source[s].kind, at.entries, at.stamp, c)
             \/ result = Unchanged(c) /\ MayAnswerNotModified(c, at.stamp)
          /\ run' = [run EXCEPT ![w] = r]
          /\ r.step = "store" /\ r.job = run[w].job /\ r.url = run[w].url
          /\ r.todo = result.items /\ r.cursor = result.cursor
    BY FetchDoes
<1>2. /\ run[w].url \in Urls /\ s \in Sources /\ c \in Cursors
      /\ at.entries \in Seq(Entries) /\ at.stamp \in Nat /\ IsFeed(source[s].kind, at.entries)
      /\ source[s].kind \in {"RSS", "WEB"}
    <2>1. run[w].url \in Urls /\ s \in Sources /\ c \in Cursors
        BY <1>1, ContentTyped
    <2>2. source[s].kind = KindOf[run[w].url] /\ source[s].kind \in {"RSS", "WEB"}
        BY <1>1, <2>1 DEF Base, Feeds, TypeOK
    <2> QED BY <2>1, <2>2, ContentTyped DEF Served
<1>3. DOMAIN run[w].todo = {}
    BY <1>1 DEF Base, RunsHaveJobs
<1>4. s \notin moved => CursorFits(c, at, seen[s], {})
    <2>1. IdsOf(run[w].todo) = {}
        BY <1>3 DEF IdsOf
    <2> QED BY <1>1, <2>1 DEF CursorsFit, HeldCursorsFit, Reading
<1>5. ASSUME s \notin moved
      PROVE  /\ CursorFits(result.cursor, at, seen[s], IdsOf(result.items))
             /\ BatchFits(result.cursor, at, result.items)
             /\ \/ result.cursor = c /\ IdsOf(result.items) = {}
                \/ result.cursor.stamp = at.stamp /\ UndatedIn(at, IdsOf(result.items))
    <2> HIDE DEF s, at, c
    <2>1. CASE result = Unchanged(c)
        BY <1>4, <1>5, <2>1, UnchangedFits
    <2>2. CASE source[s].kind = "RSS" /\ result = ReadFeed(at.entries, at.stamp, c)
        BY <1>2, <1>4, <1>5, <2>2, ReadFeedFits
    <2>3. CASE source[s].kind = "WEB" /\ result = ReadPage(at.entries[1], at.stamp, c) /\ result # Unchanged(c)
        BY <1>2, <2>3, ReadPageFits
    <2> QED BY <1>1, <1>2, <2>1, <2>2, <2>3 DEF Read
<1> HIDE DEF s, at, c
<1> QED BY <1>1, <1>3, <1>5 DEF s, at, c

\* A run goes on with the items it fetched, or with one less to store, while
\* more is settled than before.
LEMMA CursorsAdvance ==
    ASSUME Base, CursorsFit, NEW w \in Workers, Working(w), NEW r \in Runs, run' = [run EXCEPT ![w] = r],
           r.job = run[w].job, r.url = run[w].url, UNCHANGED <<source, moved, origin>>,
           \A s \in Sources, i \in Ids : seen[s][i] # "never" => seen'[s][i] # "never",
           SourceOf(w) \notin moved =>
               CursorFits(r.cursor, Served(w), seen'[SourceOf(w)], IdsOf(r.todo))
    PROVE  CursorsFit'
<1>1. run'[w] = r /\ \A v \in Workers \ {w} : run'[v] = run[v]
    BY DEF Base, TypeOK
<1>2. RunsAtSource'
    BY <1>1 DEF CursorsFit, RunsAtSource, Working, SourceOf
<1>3. ASSUME NEW s \in Sources, NEW c, NEW u \in Urls, NEW pending, CursorFits(c, origin[u], seen[s], pending)
      PROVE  CursorFits(c, origin[u], seen'[s], pending)
    <2>1. \A i \in Ids : Settled(i, seen[s], pending) => Settled(i, seen'[s], pending)
        BY DEF Settled
    <2> QED BY <1>3, <2>1, SettledFits, ContentTyped
<1>4. SavedCursorsFit'
    <2> SUFFICES ASSUME NEW s \in Sources \ moved
                 PROVE  CursorFits(source[s].cursor, origin[source[s].url], seen'[s], {})
        BY DEF SavedCursorsFit, At
    <2>1. CursorFits(source[s].cursor, origin[source[s].url], seen[s], {})
        BY DEF CursorsFit, SavedCursorsFit, At
    <2> QED BY <1>3, <2>1, ContentTyped
<1>5. HeldCursorsFit'
    <2> SUFFICES ASSUME NEW v \in Workers, Reading(v)', SourceOf(v)' \notin moved
                 PROVE  CursorFits(run'[v].cursor, origin[run'[v].url], seen'[SourceOf(v)'], IdsOf(run'[v].todo))
        BY DEF HeldCursorsFit, Served
    <2>1. CASE v = w
        <3>1. SourceOf(v)' = SourceOf(w)
            BY <1>1, <2>1 DEF SourceOf
        <3> QED BY <1>1, <2>1, <3>1 DEF Served
    <2>2. CASE v # w
        <3>1. run'[v] = run[v]
            BY <1>1, <2>2
        <3>2. /\ Reading(v) /\ Working(v) /\ SourceOf(v) \notin moved
              /\ SourceOf(v)' = SourceOf(v)
            BY <3>1 DEF Reading, Working, SourceOf
        <3>3. CursorFits(run[v].cursor, origin[run[v].url], seen[SourceOf(v)], IdsOf(run[v].todo))
            BY <3>2 DEF CursorsFit, HeldCursorsFit, Served
        <3>4. run[v].url \in Urls /\ SourceOf(v) \in Sources
            BY <3>2, ContentTyped
        <3> QED BY <1>3, <3>1, <3>2, <3>3, <3>4
    <2> QED BY <2>1, <2>2
<1> QED BY <1>2, <1>4, <1>5 DEF CursorsFit

\* A fetch gives the run a cursor and the items it passes.
LEMMA CursorsFetch == ASSUME Base, CursorsFit, NEW w \in Workers, Fetch(w) PROVE CursorsFit'
<1>1. UNCHANGED <<source, moved, origin, seen>>
    BY DEF Fetch, database, history
<1>2. PICK r \in Runs :
          /\ Working(w) /\ run' = [run EXCEPT ![w] = r]
          /\ r.job = run[w].job /\ r.url = run[w].url
          /\ SourceOf(w) \notin moved => CursorFits(r.cursor, Served(w), seen[SourceOf(w)], IdsOf(r.todo))
    BY FetchFits
<1> QED BY <1>1, <1>2, CursorsAdvance

\* How storing changes what is known of the items of a source: as much is
\* settled, the item for good.
LEMMA StoreSettles ==
    ASSUME Base, NEW w \in Workers, Store(w)
    PROVE  \E n \in DOMAIN run[w].todo, r \in Runs :
              LET s == SourceOf(w)
                  i == run[w].todo[n].id
                  t == run[w].todo[n].text
              IN  /\ Working(w) /\ run[w].step = "store" /\ s \in Sources /\ i \in Ids /\ t \in Texts
                  /\ run' = [run EXCEPT ![w] = r]
                  /\ r.step = "store" /\ r.job = run[w].job /\ r.url = run[w].url /\ r.cursor = run[w].cursor
                  /\ IdsOf(r.todo) \subseteq IdsOf(run[w].todo)
                  /\ IdsOf(run[w].todo) \subseteq IdsOf(r.todo) \cup {i}
                  /\ \A m \in DOMAIN r.todo : m \in DOMAIN run[w].todo /\ r.todo[m] = run[w].todo[m]
                  /\ seen'[s][i] = "duplicate" \/ (seen'[s][i] = "stored" /\ rows'[s][i] = t)
                  /\ \A x \in Sources, k \in Ids : x # s \/ k # i =>
                        seen'[x][k] = seen[x][k] /\ rows'[x][k] = rows[x][k]
<1>1. PICK n \in DOMAIN run[w].todo, r \in Runs :
          LET item == run[w].todo[n]
              s    == SourceOf(w)
          IN  /\ Working(w) /\ run[w].step = "store" /\ item \in Entries /\ s \in Sources
              /\ \/ /\ seen' = [seen EXCEPT ![s][item.id] = "duplicate"]
                    /\ rows' = rows
                 \/ /\ rows' = [rows EXCEPT ![s][item.id] = item.text]
                    /\ seen' = [seen EXCEPT ![s][item.id] = "stored"]
              /\ run' = [run EXCEPT ![w] = r]
              /\ r.step = "store" /\ r.job = run[w].job /\ r.url = run[w].url
              /\ r.cursor = run[w].cursor
              /\ DOMAIN r.todo = DOMAIN run[w].todo \ {n}
              /\ \A m \in DOMAIN r.todo : r.todo[m] = run[w].todo[m]
    BY StoreDoes
<1>2. PICK s \in Sources, i \in Ids, t \in Texts :
          s = SourceOf(w) /\ i = run[w].todo[n].id /\ t = run[w].todo[n].text
    BY <1>1 DEF Entries
<1>3. \/ seen' = [seen EXCEPT ![s][i] = "duplicate"] /\ rows' = rows
      \/ rows' = [rows EXCEPT ![s][i] = t] /\ seen' = [seen EXCEPT ![s][i] = "stored"]
    BY <1>1, <1>2
<1>4. /\ seen \in [Sources -> [Ids -> {"never", "stored", "duplicate"}]]
      /\ rows \in [Sources -> [Ids -> Texts \cup {None}]]
    BY DEF Base, TypeOK
<1>5. seen'[s][i] = "duplicate" \/ (seen'[s][i] = "stored" /\ rows'[s][i] = t)
    BY <1>3, <1>4
<1>6. \A x \in Sources, k \in Ids : x # s \/ k # i =>
          seen'[x][k] = seen[x][k] /\ rows'[x][k] = rows[x][k]
    BY <1>3, <1>4
<1>7. /\ IdsOf(r.todo) \subseteq IdsOf(run[w].todo)
      /\ IdsOf(run[w].todo) \subseteq IdsOf(r.todo) \cup {i}
    BY <1>1, <1>2 DEF IdsOf
<1>8. \A m \in DOMAIN r.todo : m \in DOMAIN run[w].todo /\ r.todo[m] = run[w].todo[m]
    BY <1>1
<1> QED BY ZenonT(40), <1>1, <1>2, <1>5, <1>6, <1>7, <1>8

\* Storing an item settles it.
LEMMA CursorsStore == ASSUME Base, CursorsFit, NEW w \in Workers, Store(w) PROVE CursorsFit'
<1>1. UNCHANGED <<source, moved, origin>>
    BY DEF Store
<1> DEFINE s == SourceOf(w)
<1>2. PICK n \in DOMAIN run[w].todo, r \in Runs :
          LET i == run[w].todo[n].id
              t == run[w].todo[n].text
          IN  /\ Working(w) /\ run[w].step = "store" /\ s \in Sources /\ i \in Ids /\ t \in Texts
              /\ run' = [run EXCEPT ![w] = r]
              /\ r.step = "store" /\ r.job = run[w].job /\ r.url = run[w].url /\ r.cursor = run[w].cursor
              /\ IdsOf(r.todo) \subseteq IdsOf(run[w].todo)
              /\ IdsOf(run[w].todo) \subseteq IdsOf(r.todo) \cup {i}
              /\ \A m \in DOMAIN r.todo : m \in DOMAIN run[w].todo /\ r.todo[m] = run[w].todo[m]
              /\ seen'[s][i] = "duplicate" \/ (seen'[s][i] = "stored" /\ rows'[s][i] = t)
              /\ \A x \in Sources, k \in Ids : x # s \/ k # i =>
                    seen'[x][k] = seen[x][k] /\ rows'[x][k] = rows[x][k]
    BY StoreSettles
<1>3. \A x \in Sources, k \in Ids : seen[x][k] # "never" => seen'[x][k] # "never"
    BY <1>2
<1>4. \A i \in Ids : Settled(i, seen[SourceOf(w)], IdsOf(run[w].todo)) =>
                     Settled(i, seen'[SourceOf(w)], IdsOf(r.todo))
    BY <1>2 DEF Settled
<1>5. SourceOf(w) \notin moved =>
          CursorFits(r.cursor, Served(w), seen'[SourceOf(w)], IdsOf(r.todo))
    <2> SUFFICES ASSUME SourceOf(w) \notin moved
                 PROVE  CursorFits(r.cursor, Served(w), seen'[SourceOf(w)], IdsOf(r.todo))
        OBVIOUS
    <2>1. CursorFits(r.cursor, Served(w), seen[SourceOf(w)], IdsOf(run[w].todo))
        BY <1>2 DEF CursorsFit, HeldCursorsFit, Reading
    <2>2. Served(w).entries \in Seq(Entries)
        BY <1>2, ContentTyped DEF Served
    <2> QED BY <1>4, <2>1, <2>2, SettledFits
<1> QED BY <1>1, <1>2, <1>3, <1>5, CursorsAdvance

\* The cursor is saved when there is nothing left to store.
LEMMA CursorsSave == ASSUME Base, CursorsFit, NEW w \in Workers, SaveCursor(w) PROVE CursorsFit'
<1>1. PICK r \in Runs :
          /\ Working(w) /\ run[w].step = "store" /\ DOMAIN run[w].todo = {}
          /\ SourceOf(w) \in Sources /\ run[w].cursor \in Cursors
          /\ source' = [source EXCEPT ![SourceOf(w)].cursor = run[w].cursor]
          /\ run' = [run EXCEPT ![w] = r]
          /\ r.step = "report" /\ r.job = run[w].job /\ r.url = run[w].url
    BY SaveCursorDoes
<1>2. UNCHANGED <<seen, moved, origin>>
    BY DEF SaveCursor, history
<1>3. run'[w] = r /\ \A v \in Workers \ {w} : run'[v] = run[v]
    BY <1>1 DEF Base, TypeOK
<1>4. /\ \A x \in Sources : source'[x].url = source[x].url
      /\ source'[SourceOf(w)].cursor = run[w].cursor
      /\ \A x \in Sources \ {SourceOf(w)} : source'[x] = source[x]
    BY <1>1, OneRow
<1>5. \A v \in Workers : /\ Working(v)' => /\ Working(v) /\ SourceOf(v) \in Sources
                                           /\ SourceOf(v)' = SourceOf(v) /\ run'[v].url = run[v].url
                         /\ Reading(v)' => Reading(v) /\ run'[v] = run[v]
    BY <1>1, <1>3, ContentTyped DEF Working, Reading, SourceOf
<1>6. RunsAtSource'
    BY <1>2, <1>4, <1>5 DEF CursorsFit, RunsAtSource
<1>7. SavedCursorsFit'
    <2> SUFFICES ASSUME NEW s \in Sources \ moved
                 PROVE  CursorFits(source'[s].cursor, origin[source[s].url], seen[s], {})
        BY <1>2, <1>4 DEF SavedCursorsFit, At
    <2>1. CASE s = SourceOf(w)
        <3>1. CursorFits(run[w].cursor, origin[run[w].url], seen[s], IdsOf(run[w].todo))
            BY <1>1, <2>1 DEF CursorsFit, HeldCursorsFit, Reading, Served
        <3>2. IdsOf(run[w].todo) = {}
            BY <1>1 DEF IdsOf
        <3>3. run[w].url = source[s].url
            BY <1>1, <2>1 DEF CursorsFit, RunsAtSource
        <3> QED BY <1>4, <2>1, <3>1, <3>2, <3>3
    <2>2. CASE s # SourceOf(w)
        BY <1>4, <2>2 DEF CursorsFit, SavedCursorsFit, At
    <2> QED BY <2>1, <2>2
<1>8. HeldCursorsFit'
    <2>1. \A v \in Workers : Reading(v)' => /\ Reading(v) /\ run'[v] = run[v] /\ SourceOf(v)' = SourceOf(v)
                                            /\ Served(v)' = Served(v)
        BY <1>2, <1>5 DEF Served, SourceOf
    <2> QED BY <1>2, <2>1 DEF CursorsFit, HeldCursorsFit
<1> QED BY <1>6, <1>7, <1>8 DEF CursorsFit

\* A source whose address is edited is not followed any more.
LEMMA CursorsReaddress ==
    ASSUME Base, CursorsFit, NEW c \in Channels, NEW s \in Sources, Readdress(c, s)
    PROVE  CursorsFit'
<1>1. PICK u \in Urls : source' = [source EXCEPT ![s].url = u]
    BY DEF Readdress
<1>2. \A x \in Sources \ {s} : source'[x] = source[x]
    BY <1>1 DEF Base, TypeOK
<1>3. UNCHANGED <<seen, origin, run>> /\ moved' = moved \cup {s}
    BY DEF Readdress
<1>4. \A w \in Workers : Working(w) => SourceOf(w) \in Sources
    BY ContentTyped
<1>5. RunsAtSource'
    BY <1>2, <1>3, <1>4 DEF CursorsFit, RunsAtSource, Working, SourceOf
<1>6. SavedCursorsFit'
    BY <1>2, <1>3 DEF CursorsFit, SavedCursorsFit, At
<1>7. HeldCursorsFit'
    BY <1>3 DEF CursorsFit, HeldCursorsFit, Served, Reading, SourceOf
<1> QED BY <1>5, <1>6, <1>7 DEF CursorsFit

\* The other steps leave cursors, content and answers alone.
LEMMA OthersQuiet ==
    ASSUME Base,
           \/ NextWindow
           \/ \E c \in Channels, s \in Sources :
                 \/ Create(c, s) \/ SetStatus(c, s) \/ Disable(c, s) \/ Enqueue(c, s) \/ Probe(c, s)
                 \/ Discover(c, s) \/ DiscoveryFails(c, s) \/ Evict(c, s)
           \/ \E w \in Workers : Report(w) \/ Leaves(w)
           \/ UNCHANGED vars
    PROVE  /\ UNCHANGED <<origin, seen, moved, rows, overlapped>>
           /\ \A s \in Sources : source'[s].url = source[s].url /\ source'[s].cursor = source[s].cursor
           /\ \A w \in Workers : Working(w)' => /\ Working(w)
                                                /\ run'[w].job = run[w].job /\ run'[w].url = run[w].url
           /\ \A w \in Workers : Reading(w)' => run'[w] = run[w]
           /\ \A w \in Workers : UnderWay(w)' => UnderWay(w)
<1>1. UNCHANGED <<origin, seen, moved, rows, overlapped>>
    BY ZenonT(40) DEF NextWindow, Create, SetStatus, Disable, Enqueue, Probe, Discover, DiscoveryFails, Evict,
           Report, Leaves, HandOff, Throw, HandOffFails, Crash, vars, database, history
<1>2. \A s \in Sources : source'[s].url = source[s].url /\ source'[s].cursor = source[s].cursor
    <2>1. CASE \E c \in Channels, s \in Sources : SetStatus(c, s)
        <3>1. PICK s \in Sources, status \in {"ACTIVE", "PAUSED"} : source' = [source EXCEPT ![s].status = status]
            BY <2>1 DEF SetStatus
        <3> QED BY <3>1 DEF Base, TypeOK
    <2>2. CASE ~ \E c \in Channels, s \in Sources : SetStatus(c, s)
        <3>1. source' = source
            BY ZenonT(40), <2>2 DEF NextWindow, Create, Disable, Enqueue, Probe, Discover, DiscoveryFails, Evict,
                        Report, Leaves, HandOff, Throw, HandOffFails, Crash, vars, database
        <3> QED BY <3>1
    <2> QED BY <2>1, <2>2
<1>3. /\ \A w \in Workers : Working(w)' => /\ Working(w)
                                           /\ run'[w].job = run[w].job /\ run'[w].url = run[w].url
      /\ \A w \in Workers : Reading(w)' => run'[w] = run[w]
      /\ \A w \in Workers : UnderWay(w)' => UnderWay(w)
    <2>1. CASE \E w \in Workers : Report(w)
        <3>1. PICK w \in Workers : Report(w)
            BY <2>1
        <3>2. PICK r \in Runs :
                  /\ Working(w) /\ run[w].step = "report" /\ run' = [run EXCEPT ![w] = r]
                  /\ r.step = "handoff" /\ r.job = run[w].job /\ r.url = run[w].url
            BY <3>1, ReportDoes
        <3>3. run'[w] = r /\ \A v \in Workers \ {w} : run'[v] = run[v]
            BY <3>2 DEF Base, TypeOK
        <3> QED BY <3>2, <3>3 DEF Working, Reading, UnderWay
    <2>2. CASE \E w \in Workers : Leaves(w)
        <3>1. PICK w \in Workers : run' = [run EXCEPT ![w] = NoRun]
            BY <2>2, LeaveDoes
        <3>2. run'[w] = NoRun /\ \A v \in Workers \ {w} : run'[v] = run[v]
            BY <3>1 DEF Base, TypeOK
        <3> QED BY <3>2, NoRunTyped DEF Working, Reading, UnderWay
    <2>3. CASE ~ \E w \in Workers : Report(w) \/ Leaves(w)
        <3>1. run' = run
            BY ZenonT(40), <2>3 DEF NextWindow, Create, SetStatus, Disable, Enqueue, Probe, Discover, DiscoveryFails,
                        Evict, vars
        <3> QED BY <3>1 DEF Working, Reading, UnderWay
    <2> QED BY <2>1, <2>2, <2>3
<1> QED BY <1>1, <1>2, <1>3

\* Every step keeps the cursors right.
LEMMA CursorsStep == Base /\ CursorsFit /\ [Next]_vars => CursorsFit'
<1> SUFFICES ASSUME Base, CursorsFit, [Next]_vars PROVE CursorsFit'
    OBVIOUS
<1>1. ASSUME NEW u \in Urls, Publish(u) \/ Rewrite(u) PROVE CursorsFit'
    BY <1>1, CursorsFollow
<1>2. ASSUME NEW c \in Channels, NEW s \in Sources, Readdress(c, s) PROVE CursorsFit'
    BY <1>2, CursorsReaddress
<1>3. ASSUME NEW w \in Workers, Start(w) \/ Fetch(w) \/ Store(w) \/ SaveCursor(w) PROVE CursorsFit'
    BY <1>3, CursorsStart, CursorsFetch, CursorsStore, CursorsSave
<1>4. CASE \/ NextWindow
           \/ \E c \in Channels, s \in Sources :
                 \/ Create(c, s) \/ SetStatus(c, s) \/ Disable(c, s) \/ Enqueue(c, s) \/ Probe(c, s)
                 \/ Discover(c, s) \/ DiscoveryFails(c, s) \/ Evict(c, s)
           \/ \E w \in Workers : Report(w) \/ Leaves(w)
           \/ UNCHANGED vars
    BY <1>4, OthersQuiet, CursorsQuiet
<1> QED BY <1>1, <1>2, <1>3, <1>4 DEF Next, Editor, Progress, Leaves

\* The cursors always fit.
LEMMA CursorsHold == Spec => [](Base /\ CursorsFit)
<1>1. Init => Base /\ CursorsFit
    BY InitBase, InitCursors
<1>2. Base /\ CursorsFit /\ [Next]_vars => (Base /\ CursorsFit)'
    BY BaseStep, CursorsStep
<1> QED BY <1>1, <1>2, PTL DEF Spec

\* An entry that is readable is one that is shown.
LEMMA ReadableIsShown ==
    ASSUME NEW s \in Sources, NEW e \in Readable(s)
    PROVE  \E n \in Shown(At(s)) : e = At(s).entries[n]
    BY DEF Readable, Shown, At

\* The saved watermark never passes an entry that no run has stored or
\* recognised as a duplicate, whatever fails, crashes or interleaves.
THEOREM WatermarksPassNothing == Spec => []WatermarkPassesNothing
<1>1. ASSUME Base, CursorsFit PROVE WatermarkPassesNothing
    <2> SUFFICES ASSUME NEW s \in Sources \ moved, NEW e \in Readable(s),
                        e.date # 0, Alone(e), e.date <= source[s].cursor.watermark
                 PROVE  seen[s][e.id] # "never"
        BY DEF WatermarkPassesNothing
    <2>1. PICK n \in Shown(At(s)) : e = At(s).entries[n]
        BY ReadableIsShown
    <2> QED BY <1>1, <2>1 DEF CursorsFit, SavedCursorsFit, CursorFits, PassesNothing, Settled
<1> QED BY <1>1, CursorsHold, PTL

\* A saved validator that would be answered 304 never hides an entry that was
\* not stored or recognised as a duplicate.
THEOREM NotModifiedsHideNothing == Spec => []NotModifiedHidesNothing
<1>1. ASSUME Base, CursorsFit PROVE NotModifiedHidesNothing
    <2> SUFFICES ASSUME NEW s \in Sources \ moved,
                        MayAnswerNotModified(source[s].cursor, origin[source[s].url].stamp),
                        NEW e \in Readable(s), e.date = 0 \/ Alone(e)
                 PROVE  seen[s][e.id] # "never"
        BY DEF NotModifiedHidesNothing
    <2>1. PICK n \in Shown(At(s)) : e = At(s).entries[n]
        BY ReadableIsShown
    <2>2. source[s].cursor.stamp = At(s).stamp
        <3>1. source[s].cursor.stamp \in Nat /\ At(s).stamp \in Nat
            BY <1>1, ContentTyped, IngestionAssumption DEF At, Cursors
        <3>2. source[s].cursor.stamp <= At(s).stamp
            BY <1>1 DEF CursorsFit, SavedCursorsFit, CursorFits, Rooted
        <3> QED BY <3>1, <3>2 DEF MayAnswerNotModified, At
    <2> QED BY <1>1, <2>1, <2>2 DEF CursorsFit, SavedCursorsFit, CursorFits, HidesNothing, Settled
<1> QED BY <1>1, CursorsHold, PTL
-----------------------------------------------------------------------------
(***************************************************************************)
(* The texts under a current validator.                                    *)
(***************************************************************************)

\* Nothing was stored in the beginning, and nobody is at work.
LEMMA InitTexts == Init => TextsAreCurrent
<1> SUFFICES ASSUME Init PROVE TextsAreCurrent
    OBVIOUS
<1>1. \A w \in Workers : ~ UnderWay(w) /\ ~ Reading(w)
    BY NoRunTyped DEF Init, UnderWay, Reading
<1>2. ASSUME NEW s \in Sources PROVE TextsFit(source[s].cursor, At(s), seen[s], rows[s], {})
    <2>1. source[s].cursor.stamp = 0 /\ At(s).stamp = 1
        <3>1. source[s].url \in Urls
            BY DEF Init
        <3> QED BY <3>1 DEF Init, NoCursor, At
    <2> QED BY <2>1 DEF TextsFit
<1> QED BY <1>1, <1>2 DEF TextsAreCurrent, OneRun, SavedTextsFit, HeldTextsFit

\* Runs go on or end, and nothing is read or stored.
LEMMA TextsQuiet ==
    ASSUME Base, TextsAreCurrent, UNCHANGED <<origin, seen, moved, rows, overlapped>>,
           \A s \in Sources : source'[s].url = source[s].url /\ source'[s].cursor = source[s].cursor,
           \A w \in Workers : Working(w)' => Working(w) /\ run'[w].job = run[w].job,
           \A w \in Workers : Reading(w)' => run'[w] = run[w],
           \A w \in Workers : UnderWay(w)' => UnderWay(w)
    PROVE  TextsAreCurrent'
<1>1. \A w \in Workers : UnderWay(w)' => /\ UnderWay(w) /\ Working(w)' /\ SourceOf(w)' = SourceOf(w)
    BY DEF UnderWay, Working, SourceOf
<1>2. OneRun'
    BY <1>1 DEF TextsAreCurrent, OneRun
<1>3. SavedTextsFit'
    BY DEF TextsAreCurrent, SavedTextsFit, At
<1>4. \A w \in Workers : Reading(w)' =>
          /\ Reading(w) /\ run'[w] = run[w] /\ SourceOf(w)' = SourceOf(w) /\ SourceOf(w) \in Sources
          /\ Served(w)' = Served(w)
    BY ContentTyped DEF Reading, Working, SourceOf, Served
<1>5. HeldTextsFit'
    BY <1>4 DEF TextsAreCurrent, HeldTextsFit
<1> QED BY <1>2, <1>3, <1>5 DEF TextsAreCurrent

\* New content is not what any validator vouches for.
LEMMA TextsFollow ==
    ASSUME Base, CursorsFit, TextsAreCurrent, NEW u \in Urls, Publish(u) \/ Rewrite(u)
    PROVE  TextsAreCurrent'
<1>1. /\ \A s \in Sources \ moved : source[s].url = u => source[s].cursor.stamp # origin'[u].stamp
      /\ \A w \in Workers : Reading(w) /\ SourceOf(w) \notin moved /\ run[w].url = u =>
             run[w].cursor.stamp # origin'[u].stamp
      /\ \A v \in Urls \ {u} : origin'[v] = origin[v]
      /\ UNCHANGED <<source, seen, moved, rows, overlapped, run>>
    BY CursorsFollow DEF database, history
<1>2. OneRun'
    BY <1>1 DEF TextsAreCurrent, OneRun, UnderWay, SourceOf
<1>3. SavedTextsFit'
    <2> SUFFICES ASSUME NEW s \in Sources \ (moved \cup overlapped)
                 PROVE  TextsFit(source[s].cursor, origin'[source[s].url], seen[s], rows[s], {})
        BY <1>1 DEF SavedTextsFit, At
    <2>1. TextsFit(source[s].cursor, origin[source[s].url], seen[s], rows[s], {}) /\ source[s].url \in Urls
        BY ContentTyped DEF TextsAreCurrent, SavedTextsFit, At
    <2>2. CASE source[s].url = u
        BY <1>1, <2>2 DEF TextsFit
    <2>3. CASE source[s].url # u
        BY <1>1, <2>1, <2>3
    <2> QED BY <2>2, <2>3
<1>4. HeldTextsFit'
    <2> SUFFICES ASSUME NEW w \in Workers, Reading(w), SourceOf(w) \notin moved \cup overlapped
                 PROVE  /\ source[SourceOf(w)].cursor.stamp <= run[w].cursor.stamp
                        /\ BatchFits(run[w].cursor, origin'[run[w].url], run[w].todo)
                        /\ TextsFit(run[w].cursor, origin'[run[w].url], seen[SourceOf(w)],
                                    rows[SourceOf(w)], IdsOf(run[w].todo))
        BY <1>1 DEF HeldTextsFit, Reading, SourceOf, Served
    <2>1. /\ source[SourceOf(w)].cursor.stamp <= run[w].cursor.stamp
          /\ BatchFits(run[w].cursor, origin[run[w].url], run[w].todo)
          /\ TextsFit(run[w].cursor, origin[run[w].url], seen[SourceOf(w)],
                      rows[SourceOf(w)], IdsOf(run[w].todo))
        BY DEF TextsAreCurrent, HeldTextsFit, Served
    <2>2. run[w].url \in Urls
        BY ContentTyped DEF Reading, Working
    <2>3. CASE run[w].url = u
        BY <1>1, <2>1, <2>3 DEF TextsFit, BatchFits
    <2>4. CASE run[w].url # u
        BY <1>1, <2>1, <2>2, <2>4
    <2> QED BY <2>3, <2>4
<1> QED BY <1>2, <1>3, <1>4 DEF TextsAreCurrent

\* A run starts where no other is under way, or its source has overlapped.
LEMMA TextsStart == ASSUME Base, TextsAreCurrent, NEW w \in Workers, Start(w) PROVE TextsAreCurrent'
<1>1. PICK j \in Jobs, r \in Runs :
          /\ ~ Working(w) /\ run' = [run EXCEPT ![w] = r] /\ job[j].state = "waiting"
          /\ job' = [job EXCEPT ![j].state = "active"]
          /\ r.job = j /\ r.url = source[j[2]].url /\ r.cursor = source[j[2]].cursor
          /\ r.todo = <<>> /\ r.step \in {"fetch", "handoff"} /\ j[2] \in Sources /\ r.url \in Urls
          /\ overlapped' \in {overlapped, overlapped \cup {j[2]}}
          /\ r.step = "fetch" /\ j[2] \notin overlapped' =>
                \A v \in Workers : ~ (UnderWay(v) /\ SourceOf(v) = j[2])
    BY StartDoes
<1>2. UNCHANGED <<source, seen, moved, origin, rows>>
    BY DEF Start, database
<1>3. run'[w] = r /\ \A v \in Workers \ {w} : run'[v] = run[v]
    BY <1>1 DEF Base, TypeOK
<1>4. DOMAIN r.todo = {} /\ IdsOf(r.todo) = {}
    BY <1>1, NothingIsABatch DEF IdsOf
<1>5. overlapped \subseteq overlapped'
    BY <1>1
<1>6. SourceOf(w)' = j[2] /\ (UnderWay(w)' => r.step = "fetch")
    BY <1>1, <1>3 DEF SourceOf, UnderWay
<1>7. \A v \in Workers \ {w} : /\ UnderWay(v)' <=> UnderWay(v)
                               /\ SourceOf(v)' = SourceOf(v)
    BY <1>3 DEF UnderWay, SourceOf
<1>8. OneRun'
    <2> SUFFICES ASSUME NEW v \in Workers, NEW x \in Workers, UnderWay(v)', UnderWay(x)',
                        SourceOf(v)' = SourceOf(x)', SourceOf(v)' \notin overlapped'
                 PROVE  v = x
        BY DEF OneRun
    <2>1. CASE v # w /\ x # w
        BY <1>5, <1>7, <2>1 DEF TextsAreCurrent, OneRun
    <2>2. CASE v = w /\ x # w
        BY <1>1, <1>6, <1>7, <2>2
    <2>3. CASE v # w /\ x = w
        BY <1>1, <1>6, <1>7, <2>3
    <2> QED BY <2>1, <2>2, <2>3
<1>9. SavedTextsFit'
    BY <1>2, <1>5 DEF TextsAreCurrent, SavedTextsFit, At
<1>10. HeldTextsFit'
    <2> SUFFICES ASSUME NEW v \in Workers, Reading(v)', SourceOf(v)' \notin moved \cup overlapped'
                 PROVE  /\ source[SourceOf(v)'].cursor.stamp <= run'[v].cursor.stamp
                        /\ BatchFits(run'[v].cursor, origin[run'[v].url], run'[v].todo)
                        /\ TextsFit(run'[v].cursor, origin[run'[v].url], seen[SourceOf(v)'],
                                    rows[SourceOf(v)'], IdsOf(run'[v].todo))
        BY <1>2 DEF HeldTextsFit, Served
    <2>1. CASE v = w
        <3>1. j[2] \in Sources \ (moved \cup overlapped)
            BY <1>1, <1>5, <1>6, <2>1
        <3>2. TextsFit(source[j[2]].cursor, origin[source[j[2]].url], seen[j[2]], rows[j[2]], {})
            BY <3>1 DEF TextsAreCurrent, SavedTextsFit, At
        <3>3. source[j[2]].cursor.stamp <= r.cursor.stamp
            <4>1. source[j[2]].cursor \in Cursors
                BY <1>1, ContentTyped
            <4>2. source[j[2]].cursor.stamp \in Nat
                BY <4>1, IngestionAssumption DEF Cursors
            <4> QED BY <1>1, <4>2
        <3>4. BatchFits(r.cursor, origin[r.url], r.todo)
            BY <1>4 DEF BatchFits
        <3> QED BY <1>1, <1>3, <1>4, <1>6, <2>1, <3>2, <3>3, <3>4
    <2>2. CASE v # w
        <3>1. run'[v] = run[v] /\ SourceOf(v)' = SourceOf(v) /\ Reading(v)
            BY <1>3, <1>7, <2>2 DEF Reading
        <3>2. SourceOf(v) \notin moved \cup overlapped
            BY <1>5, <3>1
        <3> QED BY <3>1, <3>2 DEF TextsAreCurrent, HeldTextsFit, Served
    <2> QED BY <2>1, <2>2
<1> QED BY <1>8, <1>9, <1>10 DEF TextsAreCurrent

\* A run that goes on, alone at its source, with a cursor that is newer than
\* the saved one and a batch that fits.
LEMMA TextsAdvance ==
    ASSUME Base, TextsAreCurrent, NEW w \in Workers, Reading(w), NEW r \in Runs, run' = [run EXCEPT ![w] = r],
           r.step = "store", r.job = run[w].job, r.url = run[w].url,
           UNCHANGED <<source, moved, origin, overlapped>>,
           \A s \in Sources \ {SourceOf(w)} : rows'[s] = rows[s] /\ seen'[s] = seen[s],
           SourceOf(w) \notin moved \cup overlapped =>
               /\ TextsFit(source[SourceOf(w)].cursor, At(SourceOf(w)), seen'[SourceOf(w)], rows'[SourceOf(w)], {})
               /\ source[SourceOf(w)].cursor.stamp <= r.cursor.stamp
               /\ BatchFits(r.cursor, Served(w), r.todo)
               /\ TextsFit(r.cursor, Served(w), seen'[SourceOf(w)], rows'[SourceOf(w)], IdsOf(r.todo))
    PROVE  TextsAreCurrent'
<1>1. run'[w] = r /\ \A v \in Workers \ {w} : run'[v] = run[v]
    BY DEF Base, TypeOK
<1>2. \A v \in Workers : /\ UnderWay(v)' <=> UnderWay(v)
                         /\ SourceOf(v)' = SourceOf(v)
    BY <1>1 DEF UnderWay, Reading, SourceOf
<1>3. OneRun'
    BY <1>2 DEF TextsAreCurrent, OneRun
<1>4. SavedTextsFit'
    <2> SUFFICES ASSUME NEW s \in Sources \ (moved \cup overlapped)
                 PROVE  TextsFit(source[s].cursor, origin[source[s].url], seen'[s], rows'[s], {})
        BY DEF SavedTextsFit, At
    <2>1. CASE s = SourceOf(w)
        BY <2>1 DEF At
    <2>2. CASE s # SourceOf(w)
        BY <2>2 DEF TextsAreCurrent, SavedTextsFit, At
    <2> QED BY <2>1, <2>2
<1>5. HeldTextsFit'
    <2> SUFFICES ASSUME NEW v \in Workers, Reading(v)', SourceOf(v) \notin moved \cup overlapped
                 PROVE  /\ source[SourceOf(v)].cursor.stamp <= run'[v].cursor.stamp
                        /\ BatchFits(run'[v].cursor, origin[run'[v].url], run'[v].todo)
                        /\ TextsFit(run'[v].cursor, origin[run'[v].url], seen'[SourceOf(v)],
                                    rows'[SourceOf(v)], IdsOf(run'[v].todo))
        BY <1>2 DEF HeldTextsFit, Served
    <2>1. CASE v = w
        BY <1>1, <2>1 DEF Served
    <2>2. CASE v # w
        <3>1. run'[v] = run[v] /\ Reading(v) /\ UnderWay(v) /\ UnderWay(w) /\ SourceOf(v) \in Sources
            BY <1>1, <2>2, ContentTyped DEF Reading, UnderWay, Working
        <3>2. SourceOf(v) # SourceOf(w)
            BY <2>2, <3>1 DEF TextsAreCurrent, OneRun
        <3> QED BY <3>1, <3>2 DEF TextsAreCurrent, HeldTextsFit, Served
    <2> QED BY <2>1, <2>2
<1> QED BY <1>3, <1>4, <1>5 DEF TextsAreCurrent

\* A fetch hands over every undated entry, or nothing is new.
LEMMA TextsFetch ==
    ASSUME Base, CursorsFit, TextsAreCurrent, NEW w \in Workers, Fetch(w)
    PROVE  TextsAreCurrent'
<1> DEFINE s  == SourceOf(w)
           at == Served(w)
<1>1. UNCHANGED <<source, moved, origin, overlapped, rows, seen>>
    BY DEF Fetch, database, history
<1>2. PICK r \in Runs :
          /\ run[w].step = "fetch" /\ Working(w) /\ DOMAIN run[w].todo = {}
          /\ run' = [run EXCEPT ![w] = r]
          /\ r.step = "store" /\ r.job = run[w].job /\ r.url = run[w].url
          /\ s \notin moved =>
                /\ CursorFits(r.cursor, at, seen[s], IdsOf(r.todo))
                /\ BatchFits(r.cursor, at, r.todo)
                /\ \/ r.cursor = run[w].cursor /\ IdsOf(r.todo) = {}
                   \/ r.cursor.stamp = at.stamp /\ UndatedIn(at, IdsOf(r.todo))
    BY FetchFits
<1>3. Reading(w) /\ IdsOf(run[w].todo) = {} /\ s \in Sources
    BY <1>2, ContentTyped DEF Reading, IdsOf
<1>4. ASSUME s \notin moved \cup overlapped
      PROVE  /\ TextsFit(source[s].cursor, At(s), seen'[s], rows'[s], {})
             /\ source[s].cursor.stamp <= r.cursor.stamp
             /\ BatchFits(r.cursor, at, r.todo)
             /\ TextsFit(r.cursor, at, seen'[s], rows'[s], IdsOf(r.todo))
    <2>1. TextsFit(source[s].cursor, At(s), seen'[s], rows'[s], {})
        BY <1>1, <1>3, <1>4 DEF TextsAreCurrent, SavedTextsFit
    <2>2. /\ source[s].cursor.stamp <= run[w].cursor.stamp
          /\ TextsFit(run[w].cursor, at, seen[s], rows[s], {})
        BY <1>3, <1>4 DEF TextsAreCurrent, HeldTextsFit
    <2>3. source[s].cursor.stamp <= at.stamp
        <3>1. At(s) = at
            BY <1>2, <1>4 DEF CursorsFit, RunsAtSource, At, Served
        <3> QED BY <1>3, <1>4, <3>1 DEF CursorsFit, SavedCursorsFit, CursorFits, Rooted
    <2> HIDE DEF s, at
    <2>4. CASE r.cursor = run[w].cursor /\ IdsOf(r.todo) = {}
        BY <1>1, <1>2, <1>4, <2>1, <2>2, <2>4
    <2>5. CASE r.cursor.stamp = at.stamp /\ UndatedIn(at, IdsOf(r.todo))
        BY <1>2, <1>4, <2>1, <2>3, <2>5 DEF TextsFit, UndatedIn
    <2> QED BY <1>2, <1>4, <2>4, <2>5
<1> QED BY <1>1, <1>2, <1>3, <1>4, TextsAdvance

\* An item is stored or found to be a duplicate, and nothing else happens.
StoresOne(i, t, met, stored, met2, stored2) ==
    /\ met2[i] = "duplicate" \/ (met2[i] = "stored" /\ stored2[i] = t)
    /\ \A k \in Ids : k # i => met2[k] = met[k] /\ stored2[k] = stored[k]

\* Storing an item of a batch that fits, as values: the text of the item is
\* the content's, or the item is a duplicate.
LEMMA StoredFits ==
    ASSUME NEW at, at.entries \in Seq(Entries), NEW c, NEW met, NEW stored, NEW pending,
           TextsFit(c, at, met, stored, pending),
           NEW i, NEW t, NEW met2, NEW stored2, NEW pending2,
           pending \subseteq pending2 \cup {i},
           StoresOne(i, t, met, stored, met2, stored2),
           c.stamp = at.stamp => \A n \in DOMAIN at.entries : at.entries[n].id = i => at.entries[n].text = t
    PROVE  TextsFit(c, at, met2, stored2, pending2)
<1> SUFFICES ASSUME c.stamp = at.stamp, NEW n \in Shown(at), at.entries[n].date = 0,
                    met2[at.entries[n].id] = "stored", at.entries[n].id \notin pending2
             PROVE  stored2[at.entries[n].id] = at.entries[n].text
    BY DEF TextsFit
<1>1. n \in DOMAIN at.entries /\ at.entries[n].id \in Ids
    BY ContentHas
<1>2. CASE at.entries[n].id = i
    BY <1>1, <1>2 DEF StoresOne
<1>3. CASE at.entries[n].id # i
    BY <1>1, <1>3 DEF TextsFit, StoresOne
<1> QED BY <1>2, <1>3

\* Storing an item leaves the text of the content the cursor stands for.
LEMMA TextsStore ==
    ASSUME Base, CursorsFit, TextsAreCurrent, NEW w \in Workers, Store(w)
    PROVE  TextsAreCurrent'
<1> DEFINE s  == SourceOf(w)
           at == Served(w)
           rc == run[w].cursor
<1>1. UNCHANGED <<source, moved, origin, overlapped>>
    BY DEF Store
<1>2. PICK n \in DOMAIN run[w].todo, r \in Runs :
          LET i == run[w].todo[n].id
              t == run[w].todo[n].text
          IN  /\ Working(w) /\ run[w].step = "store" /\ s \in Sources /\ i \in Ids /\ t \in Texts
              /\ run' = [run EXCEPT ![w] = r]
              /\ r.step = "store" /\ r.job = run[w].job /\ r.url = run[w].url /\ r.cursor = run[w].cursor
              /\ IdsOf(r.todo) \subseteq IdsOf(run[w].todo)
              /\ IdsOf(run[w].todo) \subseteq IdsOf(r.todo) \cup {i}
              /\ \A m \in DOMAIN r.todo : m \in DOMAIN run[w].todo /\ r.todo[m] = run[w].todo[m]
              /\ seen'[s][i] = "duplicate" \/ (seen'[s][i] = "stored" /\ rows'[s][i] = t)
              /\ \A x \in Sources, k \in Ids : x # s \/ k # i =>
                    seen'[x][k] = seen[x][k] /\ rows'[x][k] = rows[x][k]
    BY StoreSettles
<1> DEFINE i == run[w].todo[n].id
           t == run[w].todo[n].text
<1>3. Reading(w)
    BY <1>2 DEF Reading
<1>4. \A x \in Sources \ {s} : rows'[x] = rows[x] /\ seen'[x] = seen[x]
    <2>1. /\ rows \in [Sources -> [Ids -> Texts \cup {None}]]
          /\ rows' \in [Sources -> [Ids -> Texts \cup {None}]]
          /\ seen \in [Sources -> [Ids -> {"never", "stored", "duplicate"}]]
          /\ seen' \in [Sources -> [Ids -> {"never", "stored", "duplicate"}]]
        BY StoreBase DEF Base, TypeOK
    <2> SUFFICES ASSUME NEW x \in Sources \ {s} PROVE rows'[x] = rows[x] /\ seen'[x] = seen[x]
        OBVIOUS
    <2>2. /\ rows[x] \in [Ids -> Texts \cup {None}] /\ rows'[x] \in [Ids -> Texts \cup {None}]
          /\ seen[x] \in [Ids -> {"never", "stored", "duplicate"}]
          /\ seen'[x] \in [Ids -> {"never", "stored", "duplicate"}]
        BY <2>1
    <2>3. \A k \in Ids : seen'[x][k] = seen[x][k] /\ rows'[x][k] = rows[x][k]
        BY <1>2
    <2> QED BY <2>2, <2>3
<1>5. ASSUME s \notin moved \cup overlapped
      PROVE  /\ TextsFit(source[s].cursor, At(s), seen'[s], rows'[s], {})
             /\ source[s].cursor.stamp <= r.cursor.stamp
             /\ BatchFits(r.cursor, at, r.todo)
             /\ TextsFit(r.cursor, at, seen'[s], rows'[s], IdsOf(r.todo))
    <2>1. /\ TextsFit(source[s].cursor, At(s), seen[s], rows[s], {})
          /\ source[s].cursor.stamp <= rc.stamp
          /\ BatchFits(rc, at, run[w].todo)
          /\ TextsFit(rc, at, seen[s], rows[s], IdsOf(run[w].todo))
        BY <1>2, <1>3, <1>5 DEF TextsAreCurrent, SavedTextsFit, HeldTextsFit
    <2>2. At(s) = at /\ at.entries \in Seq(Entries) /\ at.stamp \in Nat
        <3>1. At(s) = at
            BY <1>2, <1>5 DEF CursorsFit, RunsAtSource, At, Served
        <3> QED BY <1>2, <3>1, ContentTyped DEF Served
    <2>3. rc.stamp <= at.stamp /\ rc.stamp \in Nat /\ source[s].cursor.stamp \in Nat
        <3>1. rc.stamp <= at.stamp
            BY <1>3, <1>5 DEF CursorsFit, HeldCursorsFit, CursorFits, Rooted
        <3>2. rc \in Cursors /\ source[s].cursor \in Cursors
            BY <1>2, ContentTyped
        <3>3. rc.stamp \in Nat /\ source[s].cursor.stamp \in Nat
            BY <3>2, IngestionAssumption DEF Cursors
        <3> QED BY <3>1, <3>3
    <2>4. rc.stamp = at.stamp => \A m \in DOMAIN at.entries : at.entries[m].id = i => at.entries[m].text = t
        BY <2>1 DEF BatchFits
    <2>5. source[s].cursor.stamp = at.stamp => rc.stamp = at.stamp
        BY <2>1, <2>3
    <2>6. BatchFits(r.cursor, at, r.todo)
        <3>1. r.cursor = rc /\ \A m \in DOMAIN r.todo :
                 m \in DOMAIN run[w].todo /\ r.todo[m] = run[w].todo[m]
            BY <1>2
        <3>2. BatchFits(rc, at, run[w].todo)
            BY <2>1
        <3> HIDE DEF at, rc
        <3> QED BY <3>1, <3>2 DEF BatchFits
    <2>7. /\ StoresOne(i, t, seen[s], rows[s], seen'[s], rows'[s])
          /\ IdsOf(run[w].todo) \subseteq IdsOf(r.todo) \cup {i}
          /\ r.cursor = rc
        BY <1>2 DEF StoresOne
    <2> HIDE DEF s, at, rc, i, t
    <2>8. TextsFit(r.cursor, at, seen'[s], rows'[s], IdsOf(r.todo))
        BY <2>1, <2>2, <2>4, <2>7, StoredFits
    <2>9. TextsFit(source[s].cursor, at, seen'[s], rows'[s], {})
        <3>1. TextsFit(source[s].cursor, at, seen[s], rows[s], {}) /\ {} \subseteq {} \cup {i}
            BY <2>1, <2>2
        <3> QED BY <3>1, <2>2, <2>4, <2>5, <2>7, StoredFits
    <2> QED BY <2>1, <2>2, <2>6, <2>7, <2>8, <2>9
<1> QED BY <1>1, <1>2, <1>3, <1>4, <1>5, TextsAdvance

\* The cursor is saved when everything it stands for is stored.
LEMMA TextsSave ==
    ASSUME Base, CursorsFit, TextsAreCurrent, NEW w \in Workers, SaveCursor(w)
    PROVE  TextsAreCurrent'
<1>1. PICK r \in Runs :
          /\ Working(w) /\ run[w].step = "store" /\ DOMAIN run[w].todo = {}
          /\ SourceOf(w) \in Sources /\ run[w].cursor \in Cursors
          /\ source' = [source EXCEPT ![SourceOf(w)].cursor = run[w].cursor]
          /\ run' = [run EXCEPT ![w] = r]
          /\ r.step = "report" /\ r.job = run[w].job /\ r.url = run[w].url
    BY SaveCursorDoes
<1>2. UNCHANGED <<seen, moved, origin, rows, overlapped>>
    BY DEF SaveCursor, history
<1>3. run'[w] = r /\ \A v \in Workers \ {w} : run'[v] = run[v]
    BY <1>1 DEF Base, TypeOK
<1>4. /\ \A x \in Sources : source'[x].url = source[x].url
      /\ source'[SourceOf(w)].cursor = run[w].cursor
      /\ \A x \in Sources \ {SourceOf(w)} : source'[x] = source[x]
    BY <1>1, OneRow
<1>5. \A v \in Workers : /\ SourceOf(v)' = SourceOf(v)
                         /\ UnderWay(v)' => UnderWay(v)
                         /\ Reading(v)' => v # w /\ Reading(v) /\ run'[v] = run[v]
    BY <1>1, <1>3 DEF UnderWay, Working, Reading, SourceOf
<1>6. OneRun'
    BY <1>2, <1>5 DEF TextsAreCurrent, OneRun
<1>7. SavedTextsFit'
    <2> SUFFICES ASSUME NEW s \in Sources \ (moved \cup overlapped)
                 PROVE  TextsFit(source'[s].cursor, origin[source[s].url], seen[s], rows[s], {})
        BY <1>2, <1>4 DEF SavedTextsFit, At
    <2>1. CASE s = SourceOf(w)
        <3>1. TextsFit(run[w].cursor, origin[run[w].url], seen[s], rows[s], IdsOf(run[w].todo))
            BY <1>1, <2>1 DEF TextsAreCurrent, HeldTextsFit, Reading, Served
        <3>2. IdsOf(run[w].todo) = {}
            BY <1>1 DEF IdsOf
        <3>3. run[w].url = source[s].url
            BY <1>1, <2>1 DEF CursorsFit, RunsAtSource
        <3> QED BY <1>4, <2>1, <3>1, <3>2, <3>3
    <2>2. CASE s # SourceOf(w)
        BY <1>4, <2>2 DEF TextsAreCurrent, SavedTextsFit, At
    <2> QED BY <2>1, <2>2
<1>8. HeldTextsFit'
    <2> SUFFICES ASSUME NEW v \in Workers, Reading(v)', SourceOf(v) \notin moved \cup overlapped
                 PROVE  /\ source'[SourceOf(v)].cursor.stamp <= run'[v].cursor.stamp
                        /\ BatchFits(run'[v].cursor, origin[run'[v].url], run'[v].todo)
                        /\ TextsFit(run'[v].cursor, origin[run'[v].url], seen[SourceOf(v)],
                                    rows[SourceOf(v)], IdsOf(run'[v].todo))
        BY <1>2, <1>5 DEF HeldTextsFit, Served
    <2>1. v # w /\ Reading(v) /\ run'[v] = run[v] /\ UnderWay(v) /\ UnderWay(w) /\ SourceOf(v) \in Sources
        BY <1>1, <1>5, ContentTyped DEF Reading, UnderWay, Working
    <2>2. SourceOf(v) # SourceOf(w)
        BY <2>1 DEF TextsAreCurrent, OneRun
    <2> QED BY <1>4, <2>1, <2>2 DEF TextsAreCurrent, HeldTextsFit, Served
<1> QED BY <1>6, <1>7, <1>8 DEF TextsAreCurrent

\* A source whose address is edited is not followed any more.
LEMMA TextsReaddress ==
    ASSUME Base, TextsAreCurrent, NEW c \in Channels, NEW s \in Sources, Readdress(c, s)
    PROVE  TextsAreCurrent'
<1>1. PICK u \in Urls : source' = [source EXCEPT ![s].url = u]
    BY DEF Readdress
<1>2. \A x \in Sources \ {s} : source'[x] = source[x]
    BY <1>1 DEF Base, TypeOK
<1>3. UNCHANGED <<seen, origin, run, rows, overlapped>> /\ moved' = moved \cup {s}
    BY DEF Readdress
<1>4. \A w \in Workers : Reading(w) => SourceOf(w) \in Sources
    BY ContentTyped DEF Reading, Working
<1>5. OneRun'
    BY <1>3 DEF TextsAreCurrent, OneRun, UnderWay, SourceOf
<1>6. SavedTextsFit'
    BY <1>2, <1>3 DEF TextsAreCurrent, SavedTextsFit, At
<1>7. HeldTextsFit'
    BY <1>2, <1>3, <1>4 DEF TextsAreCurrent, HeldTextsFit, Served, Reading, SourceOf
<1> QED BY <1>5, <1>6, <1>7 DEF TextsAreCurrent

\* Every step keeps the texts current.
LEMMA TextsStep == Base /\ CursorsFit /\ TextsAreCurrent /\ [Next]_vars => TextsAreCurrent'
<1> SUFFICES ASSUME Base, CursorsFit, TextsAreCurrent, [Next]_vars PROVE TextsAreCurrent'
    OBVIOUS
<1>1. ASSUME NEW u \in Urls, Publish(u) \/ Rewrite(u) PROVE TextsAreCurrent'
    BY <1>1, TextsFollow
<1>2. ASSUME NEW c \in Channels, NEW s \in Sources, Readdress(c, s) PROVE TextsAreCurrent'
    BY <1>2, TextsReaddress
<1>3. ASSUME NEW w \in Workers, Start(w) \/ Fetch(w) \/ Store(w) \/ SaveCursor(w) PROVE TextsAreCurrent'
    BY <1>3, TextsStart, TextsFetch, TextsStore, TextsSave
<1>4. CASE \/ NextWindow
           \/ \E c \in Channels, s \in Sources :
                 \/ Create(c, s) \/ SetStatus(c, s) \/ Disable(c, s) \/ Enqueue(c, s) \/ Probe(c, s)
                 \/ Discover(c, s) \/ DiscoveryFails(c, s) \/ Evict(c, s)
           \/ \E w \in Workers : Report(w) \/ Leaves(w)
           \/ UNCHANGED vars
    BY <1>4, OthersQuiet, TextsQuiet
<1> QED BY <1>1, <1>2, <1>3, <1>4 DEF Next, Editor, Progress, Leaves

\* While the runs of a source never overlap, a validator that would be answered
\* 304 also vouches for the texts of the undated items that were stored.
THEOREM NotModifiedsMeanCurrent == Spec => []NotModifiedMeansCurrent
<1>1. Init => Base /\ CursorsFit /\ TextsAreCurrent
    BY InitBase, InitCursors, InitTexts
<1>2. Base /\ CursorsFit /\ TextsAreCurrent /\ [Next]_vars => (Base /\ CursorsFit /\ TextsAreCurrent)'
    BY BaseStep, CursorsStep, TextsStep
<1>3. ASSUME Base, CursorsFit, TextsAreCurrent PROVE NotModifiedMeansCurrent
    <2> SUFFICES ASSUME NEW s \in Sources \ (moved \cup overlapped),
                        MayAnswerNotModified(source[s].cursor, origin[source[s].url].stamp),
                        NEW e \in Readable(s), e.date = 0, seen[s][e.id] = "stored"
                 PROVE  rows[s][e.id] = e.text
        BY DEF NotModifiedMeansCurrent
    <2>1. PICK n \in Shown(At(s)) : e = At(s).entries[n]
        BY ReadableIsShown
    <2>2. source[s].cursor.stamp = At(s).stamp
        <3>1. source[s].cursor.stamp \in Nat /\ At(s).stamp \in Nat
            BY <1>3, ContentTyped, IngestionAssumption DEF At, Cursors
        <3>2. source[s].cursor.stamp <= At(s).stamp
            BY <1>3 DEF CursorsFit, SavedCursorsFit, CursorFits, Rooted
        <3> QED BY <3>1, <3>2 DEF MayAnswerNotModified, At
    <2>3. TextsFit(source[s].cursor, At(s), seen[s], rows[s], {})
        BY <1>3 DEF TextsAreCurrent, SavedTextsFit
    <2> QED BY <2>1, <2>2, <2>3 DEF TextsFit
<1> QED BY <1>1, <1>2, <1>3, PTL DEF Spec
=============================================================================
