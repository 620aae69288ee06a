----------------------------- MODULE Discovery ------------------------------
(***************************************************************************)
(* Content discovery in one channel: DiscoveryService.discover with the    *)
(* MemoryService, MemoryRepository and StoryGraphService calls it makes.   *)
(*                                                                         *)
(* A pass is one call of discover.  The worker runs at most one per source *)
(* (the backlog job's id is the same for every hand-off of that source),   *)
(* and the reprocess endpoint runs one for a single item at any time.      *)
(* Passes share the database and nothing else: every await of a database   *)
(* call is a point where another pass may run, so each call is an action.  *)
(***************************************************************************)
EXTENDS MemoryClassifier, Sequences

CONSTANTS
  Sources,        \* the channel's sources, and the worker's pass over each
  Requests,       \* concurrent calls of the reprocess endpoint
  Items,          \* source items
  Contents,       \* what an item may say: title, text and canonical URL; texts differ
  SourceOf,       \* [Items -> Sources]
  HashOf,         \* contentHash of the title and text
  UrlOf,          \* the canonical URL
  TermsOf,        \* the entities and topics extracted from the text
  Similarity,     \* of two contents' embeddings, in percent
  InitialCorpora, \* what the source_items table may hold when discovery starts
  StoryOverlap,   \* the overlap that makes an idea part of a story: 34
  StoryWindow,    \* how many stories an attach reads: 50
  None,           \* SQL's NULL
  MaxStories,     \* bounds on the stories created,
  MaxStarts,      \* the passes started,
  MaxEdits,       \* the changes of source items and links
  MaxFailures     \* and the passes that throw or crash

Passes == Sources \cup Requests
Terms == UNION {TermsOf[c] : c \in Contents}
Corpora == [Items -> Contents \cup {None}]

ASSUME DiscoveryAssumption ==
  /\ IsFiniteSet(Items) /\ IsFiniteSet(Passes)
  /\ SourceOf \in [Items -> Sources]
  /\ Sources \cap Requests = {}
  /\ DOMAIN TermsOf = Contents
  /\ \A c \in Contents : IsFiniteSet(TermsOf[c])
  /\ Similarity \in [Contents \X Contents -> -100 .. 100]
  /\ InitialCorpora \subseteq Corpora
  /\ None \notin Items \cup Contents \cup Nat
  /\ StoryOverlap \in 1 .. 100
  /\ {StoryWindow, MaxStories, MaxStarts, MaxEdits, MaxFailures} \subseteq Nat

VARIABLES
  content,    \* source_items: what each stored item says
  enabled,    \* channel_sources: whether each source feeds this channel
  ideas,      \* content_ideas, keyed by the item (unique per channel and item)
  memory,     \* memory_items of kind IDEA, keyed by the idea they remember
  log,        \* memory_decisions, as the set of the rows' distinct values
  stories,    \* stories, in creation order
  links,      \* story_source_items
  pass,       \* the local variables of every pass, and where it stands
  torn,       \* history: passes that failed between two writes that belong together
  overlapped, \* history: whether two passes were ever under way at once
  starts, edits, failures

rows == <<ideas, memory, log, stories, links>>
counters == <<overlapped, starts, edits, failures>>
vars == <<content, enabled, ideas, memory, log, stories, links, pass, torn, counters>>

Idea == [content : Contents,
         status : {"CANDIDATE", "REJECTED", "ARCHIVED"},
         decision : Decisions,
         reason : Items \cup {None},          \* the memory that blocked it
         story : 1 .. MaxStories \cup {None}]
MemoryRow == [content : Contents, embedding : Contents \cup {None}]
LogRow == [item : Items, decision : Decisions, match : Items \cup {None}]
Story == [terms : SUBSET Terms, itemCount : Nat]

\* A missing row is not a row.
ASSUME NoneAssumption == None \notin Idea /\ None \notin MemoryRow

\* After the first await of the pair, a failure leaves the second write undone.
SplitSteps == {"record", "indexEmbedding", "link"}
Steps == {"idle", "next", "byHash", "byUrl", "nearest", "decide", "indexRow",
          "readStories", "attach", "point"} \cup SplitSteps

Pass == [step : Steps,
         item : Items \cup {None},
         snapshot : Corpora,                  \* the items still to do, as read at the start
         decision : Decisions, match : Items \cup {None},
         target : 0 .. MaxStories,            \* the story to join, 0 for a new one
         seen : SUBSET Terms]                 \* its terms, as read

IdlePass == [step |-> "idle", item |-> None, snapshot |-> [i \in Items |-> None],
             decision |-> "NEW", match |-> None, target |-> 0, seen |-> {}]

TypeOK ==
  /\ content \in Corpora
  /\ enabled \in [Sources -> BOOLEAN]
  /\ ideas \in [Items -> Idea \cup {None}]
  /\ memory \in [Items -> MemoryRow \cup {None}]
  /\ log \subseteq LogRow
  /\ stories \in Seq(Story)
  /\ Len(stories) <= MaxStories
  /\ links \subseteq (1 .. Len(stories)) \X Items
  /\ pass \in [Passes -> Pass]
  /\ torn \subseteq Items \X SplitSteps
  /\ overlapped \in BOOLEAN
  /\ {starts, edits, failures} \subseteq Nat

Init ==
  /\ content \in InitialCorpora
  /\ enabled = [s \in Sources |-> TRUE]
  /\ ideas = [i \in Items |-> None]
  /\ memory = [i \in Items |-> None]
  /\ log = {} /\ stories = <<>> /\ links = {} /\ torn = {}
  /\ pass = [p \in Passes |-> IdlePass]
  /\ overlapped = FALSE /\ starts = 0 /\ edits = 0 /\ failures = 0

-----------------------------------------------------------------------------
(* What happens around the passes. *)

\* Ingestion stores an item or replaces what it says.  A text is unique in its source:
\* one that another item has already is a duplicate and changes nothing.
PersistItem(i, c) ==
  /\ edits < MaxEdits
  /\ \A j \in Items : SourceOf[j] = SourceOf[i] => content[j] # c
  /\ content' = [content EXCEPT ![i] = c]
  /\ edits' = edits + 1
  /\ UNCHANGED <<enabled, rows, pass, torn, overlapped, starts, failures>>

\* SourcesService.update switches the channel's link to a source on or off.
ToggleBinding(s) ==
  /\ edits < MaxEdits
  /\ enabled' = [enabled EXCEPT ![s] = ~@]
  /\ edits' = edits + 1
  /\ UNCHANGED <<content, rows, pass, torn, overlapped, starts, failures>>

ArchivedWithReason(idea) == [idea EXCEPT !.status = "ARCHIVED"]    \* mutation
Archived(idea) == [idea EXCEPT !.status = "ARCHIVED", !.reason = None]

ArchiveIdea(i) ==
  /\ ideas[i] # None
  /\ ideas' = [ideas EXCEPT ![i] = Archived(@)]
  /\ UNCHANGED <<content, enabled, memory, log, stories, links, pass, torn, counters>>

-----------------------------------------------------------------------------
(* A pass. *)

Todo(p) == {i \in Items : pass[p].snapshot[i] # None}

\* What the item in hand said when the pass read it.
Text(p) == pass[p].snapshot[pass[p].item]

Goto(p, step) == pass' = [pass EXCEPT ![p].step = step]

\* The pass is done with the item in hand.
FinishItem(p) ==
  LET left == [pass[p].snapshot EXCEPT ![pass[p].item] = None]
  IN  pass' = [pass EXCEPT ![p] =
        IF left = IdlePass.snapshot THEN IdlePass
        ELSE [IdlePass EXCEPT !.step = "next", !.snapshot = left]]

\* The reads at the start of discover.  No enabled binding or no item: nothing to do.
\* The two reads are one step: nothing later depends on the binding.
Begin(p, batch) ==
  LET found == {i \in batch : content[i] # None /\ enabled[SourceOf[i]]}
  IN  /\ pass[p].step = "idle"
      /\ starts < MaxStarts
      /\ found # {}
      /\ pass' = [pass EXCEPT ![p] =
           [IdlePass EXCEPT !.step = "next",
              !.snapshot = [i \in Items |-> IF i \in found THEN content[i] ELSE None]]]
      /\ starts' = starts + 1
      /\ overlapped' = (overlapped \/ \E q \in Passes \ {p} : pass[q].step # "idle")
      /\ UNCHANGED <<content, enabled, rows, torn, edits, failures>>

\* The backlog job of a source carries no item ids, so it takes every item.
StartWorker(s) == Begin(s, {i \in Items : SourceOf[i] = s})

StartReprocess(r, i) == ideas[i] # None /\ Begin(r, {i})

UpsertedDefault(idea, c) ==                   \* mutation: the schema's default status
  IF idea = None
  THEN [content |-> c, status |-> "DISCOVERED", decision |-> "NEW", reason |-> None, story |-> None]
  ELSE [idea EXCEPT !.content = c]

\* The row contentIdea.upsert leaves: an existing one keeps its verdict and story.
Upserted(idea, c) ==
  IF idea = None
  THEN [content |-> c, status |-> "CANDIDATE", decision |-> "NEW", reason |-> None, story |-> None]
  ELSE [idea EXCEPT !.content = c]

\* The next item, newest first.  Dates are left out, so any item left may be the one.
UpsertIdea(p, i) ==
  /\ pass[p].step = "next"
  /\ i \in Todo(p)
  /\ ideas' = [ideas EXCEPT ![i] = Upserted(@, pass[p].snapshot[i])]
  /\ pass' = [pass EXCEPT ![p].step = "byHash", ![p].item = i]
  /\ UNCHANGED <<content, enabled, memory, log, stories, links, torn, counters>>

-----------------------------------------------------------------------------
(* MemoryService.classify. *)

OthersAndSelf(i) == {j \in Items : memory[j] # None}       \* mutation: no excludeRefId

\* The live memory of the channel, without the candidate's own row.
Others(i) == {j \in Items \ {i} : memory[j] # None}

SameHash(p) == {j \in Others(pass[p].item) : HashOf[memory[j].content] = HashOf[Text(p)]}
SameUrl(p) == {j \in Others(pass[p].item) : UrlOf[memory[j].content] = UrlOf[Text(p)]}
Comparable(p) == {j \in Others(pass[p].item) : memory[j].embedding # None}

Decided(p, decision, match) ==
  pass' = [pass EXCEPT ![p].step = "decide", ![p].decision = decision, ![p].match = match]

\* One deterministic prefilter: a row found blocks, otherwise the next lookup runs.
\* The oldest of several rows is reported; which one it is makes no difference here.
Prefilter(p, step, found, next) ==
  /\ pass[p].step = step
  /\ \/ \E j \in found : Decided(p, "DUPLICATE", j)
     \/ found = {} /\ Goto(p, next)
  /\ UNCHANGED <<content, enabled, rows, torn, counters>>

FindByHash(p) == Prefilter(p, "byHash", SameHash(p), "byUrl")
FindByUrlNever(p) == Prefilter(p, "byUrl", {}, "nearest")  \* mutation: no URL prefilter
FindByUrl(p) == Prefilter(p, "byUrl", SameUrl(p), "nearest")

\* The distance is to the stored embedding, the overlap with the stored terms.
Closeness(p, j) == Similarity[<<Text(p), memory[j].embedding>>]
VerdictOn(p, j) ==
  VerdictOnNearest(Closeness(p, j),
    OverlapAtLeast(TermsOf[Text(p)], TermsOf[memory[j].content], EntityOverlap))

FindNearest(p) ==
  /\ pass[p].step = "nearest"
  /\ \/ \E j \in Comparable(p) :
          /\ \A k \in Comparable(p) : Closeness(p, j) >= Closeness(p, k)
          /\ Decided(p, VerdictOn(p, j), j)
     \/ Comparable(p) = {} /\ Decided(p, "NEW", None)
  /\ UNCHANGED <<content, enabled, rows, torn, counters>>

-----------------------------------------------------------------------------
(* Committing the verdict, the memory and the story. *)

Verdict(idea, decision, match) ==
  [idea EXCEPT !.decision = decision,
               !.status = IF decision = "DUPLICATE" THEN "REJECTED" ELSE "CANDIDATE",
               !.reason = IF decision = "DUPLICATE" THEN match ELSE None]

\* Mutation: only rejections are logged.
DecideUnlogged(p) ==
  /\ pass[p].step = "decide"
  /\ ideas' = [ideas EXCEPT ![pass[p].item] = Verdict(@, pass[p].decision, pass[p].match)]
  /\ Goto(p, IF pass[p].decision = "DUPLICATE" THEN "record" ELSE "indexRow")
  /\ UNCHANGED <<content, enabled, memory, log, stories, links, torn, counters>>

Decide(p) ==
  /\ pass[p].step = "decide"
  /\ ideas' = [ideas EXCEPT ![pass[p].item] = Verdict(@, pass[p].decision, pass[p].match)]
  /\ Goto(p, "record")
  /\ UNCHANGED <<content, enabled, memory, log, stories, links, torn, counters>>

Entry(p) == [item |-> pass[p].item, decision |-> pass[p].decision, match |-> pass[p].match]

\* Mutations: a duplicate leaves the loop before it is logged; the story comes first.
RecordAcceptedOnly(p) ==
  /\ pass[p].step = "record"
  /\ IF pass[p].decision = "DUPLICATE"
     THEN FinishItem(p) /\ UNCHANGED log
     ELSE Goto(p, "indexRow") /\ log' = log \cup {Entry(p)}
  /\ UNCHANGED <<content, enabled, ideas, memory, stories, links, torn, counters>>
RecordThenAttach(p) ==
  /\ pass[p].step = "record"
  /\ log' = log \cup {Entry(p)}
  /\ IF pass[p].decision = "DUPLICATE" THEN FinishItem(p) ELSE Goto(p, "readStories")
  /\ UNCHANGED <<content, enabled, ideas, memory, stories, links, torn, counters>>

\* recordDecision; a duplicate goes no further.
RecordDecision(p) ==
  /\ pass[p].step = "record"
  /\ log' = log \cup {Entry(p)}
  /\ IF pass[p].decision = "DUPLICATE" THEN FinishItem(p) ELSE Goto(p, "indexRow")
  /\ UNCHANGED <<content, enabled, ideas, memory, stories, links, torn, counters>>

Indexed(row, c) ==
  IF row = None THEN [content |-> c, embedding |-> None] ELSE [row EXCEPT !.content = c]

\* Mutation: the embedding is only written for a new row.
IndexRowEmbeddingOnce(p) ==
  /\ pass[p].step = "indexRow"
  /\ memory' = [memory EXCEPT ![pass[p].item] = Indexed(@, Text(p))]
  /\ Goto(p, IF memory[pass[p].item] = None THEN "indexEmbedding" ELSE "readStories")
  /\ UNCHANGED <<content, enabled, ideas, log, stories, links, torn, counters>>

\* MemoryRepository.upsert writes the row, then the embedding, in two statements.
IndexRow(p) ==
  /\ pass[p].step = "indexRow"
  /\ memory' = [memory EXCEPT ![pass[p].item] = Indexed(@, Text(p))]
  /\ Goto(p, "indexEmbedding")
  /\ UNCHANGED <<content, enabled, ideas, log, stories, links, torn, counters>>

IndexEmbedding(p) ==
  /\ pass[p].step = "indexEmbedding"
  /\ memory' = [memory EXCEPT ![pass[p].item].embedding = Text(p)]
  /\ Goto(p, "readStories")
  /\ UNCHANGED <<content, enabled, ideas, log, stories, links, torn, counters>>

\* The most recently seen stories, as many as one query takes.  lastSeenAt comes
\* from the clocks of several processes, so any of them may be among those.
Windows == {W \in SUBSET DOMAIN stories :
              \/ W = DOMAIN stories /\ Len(stories) <= StoryWindow
              \/ Cardinality(W) = StoryWindow /\ Len(stories) > StoryWindow}

ReadStories(p) ==
  /\ pass[p].step = "readStories"
  /\ LET terms == TermsOf[Text(p)]
         Joins(s) == OverlapAtLeast(terms, stories[s].terms, StoryOverlap)
     IN  \E W \in Windows :
           \/ \E s \in W :
                /\ Joins(s)
                /\ \A t \in W : OverlapsNoLess(terms, stories[s].terms, stories[t].terms)
                /\ pass' = [pass EXCEPT ![p].step = "attach", ![p].target = s,
                                        ![p].seen = stories[s].terms]
           \/ /\ \A s \in W : ~Joins(s)
              /\ pass' = [pass EXCEPT ![p].step = "attach", ![p].target = 0, ![p].seen = {}]
  /\ UNCHANGED <<content, enabled, rows, torn, counters>>

JoinedReplacing(story, seen, terms) ==                      \* mutation: no union
  [terms |-> terms, itemCount |-> story.itemCount + 1]
JoinedUncounted(story, seen, terms) ==                      \* mutation: no increment
  [terms |-> seen \cup terms, itemCount |-> story.itemCount]

\* The union is with the terms read earlier, the increment is the database's own.
Joined(story, seen, terms) ==
  [terms |-> seen \cup terms, itemCount |-> story.itemCount + 1]

AttachStory(p) ==
  /\ pass[p].step = "attach"
  /\ \/ /\ pass[p].target # 0
        /\ stories' = [stories EXCEPT ![pass[p].target] =
                         Joined(@, pass[p].seen, TermsOf[Text(p)])]
        /\ Goto(p, "point")
     \/ /\ pass[p].target = 0
        /\ Len(stories) < MaxStories
        /\ stories' = Append(stories, [terms |-> TermsOf[Text(p)], itemCount |-> 1])
        /\ pass' = [pass EXCEPT ![p].step = "point", ![p].target = Len(stories) + 1]
  /\ UNCHANGED <<content, enabled, ideas, memory, log, links, torn, counters>>

\* Mutation: no story-item link.
PointIdeaOnly(p) ==
  /\ pass[p].step = "point"
  /\ ideas' = [ideas EXCEPT ![pass[p].item].story = pass[p].target]
  /\ FinishItem(p)
  /\ UNCHANGED <<content, enabled, memory, log, stories, links, torn, counters>>

PointIdea(p) ==
  /\ pass[p].step = "point"
  /\ ideas' = [ideas EXCEPT ![pass[p].item].story = pass[p].target]
  /\ Goto(p, "link")
  /\ UNCHANGED <<content, enabled, memory, log, stories, links, torn, counters>>

LinkItem(p) ==
  /\ pass[p].step = "link"
  /\ links' = links \cup {<<pass[p].target, pass[p].item>>}
  /\ FinishItem(p)
  /\ UNCHANGED <<content, enabled, ideas, memory, log, stories, torn, counters>>

\* A database call throws or the process dies: the pass is gone.  A worker's job
\* is tried again from the start, which is the next StartWorker of that source.
Fail(p) ==
  /\ pass[p].step # "idle"
  /\ failures < MaxFailures
  /\ failures' = failures + 1
  /\ torn' = torn \cup ({<<pass[p].item, pass[p].step>>} \cap (Items \X SplitSteps))
  /\ pass' = [pass EXCEPT ![p] = IdlePass]
  /\ UNCHANGED <<content, enabled, rows, overlapped, starts, edits>>

-----------------------------------------------------------------------------
Classify(p) == FindByHash(p) \/ FindByUrl(p) \/ FindNearest(p)
Commit(p) == Decide(p) \/ RecordDecision(p) \/ IndexRow(p) \/ IndexEmbedding(p)
AttachIdea(p) == ReadStories(p) \/ AttachStory(p) \/ PointIdea(p) \/ LinkItem(p)

\* What a pass does on its own once it runs.
Step(p) == (\E i \in Items : UpsertIdea(p, i)) \/ Classify(p) \/ Commit(p) \/ AttachIdea(p)

Environment ==
  \/ \E i \in Items, c \in Contents : PersistItem(i, c)
  \/ \E s \in Sources : ToggleBinding(s) \/ StartWorker(s)
  \/ \E i \in Items : ArchiveIdea(i) \/ \E r \in Requests : StartReprocess(r, i)

Next == Environment \/ \E p \in Passes : Step(p) \/ Fail(p)

Spec == Init /\ [][Next]_vars
-----------------------------------------------------------------------------
(* Safety. *)

At(p, step, i) == pass[p].step = step /\ pass[p].item = i

Accepted(i) == \E e \in log : e.item = i /\ e.decision # "DUPLICATE"

\* "Rejection is a state, not a deletion: a rejected idea keeps its reason", whichever
\* of discovery, reprocessing and archiving wrote the row last; no other idea has one.
ReasonIffRejected ==
  \A i \in Items : ideas[i] # None =>
    /\ ideas[i].status = "REJECTED" <=> ideas[i].reason # None
    /\ ideas[i].status = "REJECTED" => ideas[i].decision = "DUPLICATE"
    /\ ideas[i].status = "CANDIDATE" => ideas[i].decision # "DUPLICATE"

\* What blocks an idea is another idea, one that memory still holds: a candidate is
\* never a duplicate of itself, however often and by however many passes it is replayed.
BlockedByAnother ==
  \A i \in Items : ideas[i] # None /\ ideas[i].reason # None =>
    /\ ideas[i].reason # i
    /\ memory[ideas[i].reason] # None

\* "Classify first, index second": memory holds an idea only when the decision log
\* shows that it was let through, across failures and concurrent passes.
IndexedWasAccepted == \A i \in Items : memory[i] # None => Accepted(i)

\* "A blocked candidate keeps the reason that blocked it": every rejection on an idea
\* is in the append-only log, unless its pass is just about to write it there or failed
\* in between the two.
RejectionIsLogged ==
  \A i \in Items : ideas[i] # None /\ ideas[i].reason # None =>
    \/ [item |-> i, decision |-> "DUPLICATE", match |-> ideas[i].reason] \in log
    \/ \E p \in Passes : /\ At(p, "record", i)
                        /\ pass[p].decision = "DUPLICATE"
                        /\ pass[p].match = ideas[i].reason
    \/ <<i, "record">> \in torn

\* An idea joins a story only after memory can find it by its hash and by its embedding.
StoryMembersIndexed ==
  \A i \in Items : ideas[i] # None /\ ideas[i].story # None =>
    memory[i] # None /\ memory[i].embedding # None

\* A story's timeline shows every idea that points at the story, unless the pass that
\* moved the idea there has yet to add the link or failed before it did.
StoryPointerLinked ==
  \A i \in Items : ideas[i] # None /\ ideas[i].story # None =>
    \/ <<ideas[i].story, i>> \in links
    \/ \E p \in Passes : At(p, "link", i) /\ pass[p].target = ideas[i].story
    \/ <<i, "link">> \in torn

Members(s) == {i \in Items : <<s, i>> \in links}

\* itemCount never falls short of the items the timeline lists: increments are atomic
\* and come before the link.
ItemCountCoversMembers ==
  \A s \in DOMAIN stories : Cardinality(Members(s)) <= stories[s].itemCount

(* While no two passes of the channel have overlapped. *)

\* No two ideas of the channel are live memory with the same text or the same URL.
MemoryIdentityUnique ==
  ~overlapped => \A i, j \in Items : memory[i] # None /\ memory[j] # None /\ i # j =>
    /\ HashOf[memory[i].content] # HashOf[memory[j].content]
    /\ UrlOf[memory[i].content] # UrlOf[memory[j].content]

\* The vector of a remembered idea is that of its text, but between the two statements
\* that store them and after a failure there.
EmbeddingMatchesRow ==
  ~overlapped => \A i \in Items :
    memory[i] # None /\ memory[i].embedding # memory[i].content =>
      (\E p \in Passes : At(p, "indexEmbedding", i)) \/ <<i, "indexEmbedding">> \in torn

\* A story never loses an entity or topic, nor a timeline entry an item.
StoriesOnlyGrow ==
  [][ ~overlapped =>
      /\ links \subseteq links'
      /\ \A s \in DOMAIN stories : stories[s].terms \subseteq stories'[s].terms ]_vars

(* What the documentation promises. *)

\* docs/m3-content-intelligence.md, exit criteria: "a semantically equivalent second
\* item is retained but rejected as DUPLICATE".
NoAcceptedTwins ==
  \A i, j \in Items : i # j /\ memory[i] # None /\ memory[j] # None =>
    HashOf[memory[i].content] # HashOf[memory[j].content]

\* docs/m3-content-intelligence.md, exit criteria: "replaying discovery does not create
\* another idea, story or story-item link".  An item nobody edits has one link.
OneStoryPerItem == \A l, m \in links : l[2] = m[2] => l = m
=============================================================================
