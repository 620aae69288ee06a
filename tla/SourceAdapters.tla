--------------------------- MODULE SourceAdapters ---------------------------
(***************************************************************************)
(* What the two source adapters make of an answer of the origin:           *)
(* rss-source.adapter.ts (a feed of entries with a watermark) and          *)
(* web-source.adapter.ts (a page with a content hash), with the cursor of  *)
(* http-cursor.ts between two fetches.                                     *)
(*                                                                         *)
(* An entry is [id, date, text, usable]: the external id, the published    *)
(* date (0: none readable), the text (two equal texts have one content     *)
(* hash) and whether buildEntry makes an item of it (FALSE: quarantined).  *)
(* A cursor is [stamp, watermark, hash]: the validators the origin gave    *)
(* (0: none), the newest date seen (0: none) and the hash of the page.     *)
(***************************************************************************)
EXTENDS Naturals, SequencesExt

CONSTANTS None,         \* null: no text, no hash, no address, no job
          MaxEntries    \* entries read from one feed (100 in the code)

ASSUME MaxEntriesAssumption == MaxEntries \in Nat \ {0}

\* A source that was never fetched: lastCursor is null.
NoCursor == [stamp |-> 0, watermark |-> 0, hash |-> None]

\* conditionalHeaders, and the origin's side of it: with a validator at least
\* as recent as the content the origin may answer 304.
MayAnswerNotModified(cursor, stamp) == cursor.stamp # 0 /\ cursor.stamp >= stamp

\* A 304, and a page whose text has the hash in the cursor: nothing is new and
\* the cursor is handed back as it came.
Unchanged(cursor) ==
    [items |-> <<>>, quarantined |-> FALSE, cursor |-> cursor]

\* The positions of a feed that the scanner reads.
Visible(entries) == {n \in DOMAIN entries : n <= MaxEntries}

\* The new watermark: the newest date of an item, never older than the last.
Newest(dates, watermark) ==
    CHOOSE d \in dates \cup {watermark} : \A other \in dates \cup {watermark} : other <= d

\* The watermark is exclusive; entries without a date are always handed over.
PastWatermark(entry, watermark) == entry.date = 0 \/ entry.date > watermark

\* RssSourceAdapter.fetch on a 200 with at least one entry. The items keep the
\* positions they have in the feed, and with them their order.
ReadFeed(entries, stamp, cursor) ==
    LET usable == {n \in Visible(entries) : entries[n].usable}
    IN  [items       |-> [n \in {m \in usable : PastWatermark(entries[m], cursor.watermark)} |-> entries[n]],
         quarantined |-> usable # Visible(entries),
         cursor      |-> [stamp     |-> stamp,
                          watermark |-> Newest({entries[n].date : n \in usable}, cursor.watermark),
                          hash      |-> None]]

\* WebSourceAdapter.fetch on a 200: the page is one entry without a date. A
\* quarantined page leaves a cursor without a hash.
ReadPage(entry, stamp, cursor) ==
    IF ~entry.usable
    THEN [items |-> <<>>, quarantined |-> TRUE, cursor |-> [NoCursor EXCEPT !.stamp = stamp]]
    ELSE IF entry.text = cursor.hash
    THEN Unchanged(cursor)
    ELSE [items       |-> <<entry>>,
          quarantined |-> FALSE,
          cursor      |-> [stamp |-> stamp, watermark |-> 0, hash |-> entry.text]]

\* SourceAdapterRegistry.get: one adapter for each source type.
Read(kind, entries, stamp, cursor) ==
    IF kind = "RSS" THEN ReadFeed(entries, stamp, cursor)
    ELSE ReadPage(entries[1], stamp, cursor)
=============================================================================
