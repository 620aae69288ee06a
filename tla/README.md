# A TLA+ model of the AI Telegram media platform

The platform ingests items from RSS feeds and web sites, turns them into content
ideas for a channel, keeps a memory of what the channel has already covered, and
groups ideas into stories. It is a modular monolith (`apps/api`) with a second entry
point for background work (`apps/worker`) on BullMQ queues, and PostgreSQL (Prisma,
pgvector) as the only shared store. Every path below is relative to `src/`.

This directory holds the models (`*.tla`), the TLC configurations (`*.cfg`), proofs
that TLAPS checks (`*Proofs.tla`) and `PROJECT.json`, which lists the components,
runs, hazards, findings and theorems and says which source lines each definition
stands for.

    tlc -config discovery.cfg MCDiscovery.tla      # model-check one run
    tlapm DiscoveryProofs.tla                      # check one module's proofs

## 1. Inventory

| Part | State it keeps | Operations | Hard because | What makes it correct |
|---|---|---|---|---|
| Content discovery (`modules/content-intelligence`) | `content_ideas` | discover, enqueue, reprocess, archive | every database call is an await; two processes run passes at once; no transaction spans a pass | an idea's status, decision and reason belong together; rejections keep their reason |
| Smart Memory (`modules/memory`) | `memory_items` + vector column, `memory_decisions` | classify, index, recordDecision | reads other passes' rows; the row and the vector are two statements | classify first, index second; never blocked by itself; every decision logged |
| Story graph (`story-graph.service.ts`) | `stories`, `story_source_items`, `content_ideas.storyId` | attachIdea, timeline | four statements, one of them a read-modify-write | timelines, pointers and counts agree; stories only grow |
| Queues and worker runtime (`infrastructure/queue`, `apps/worker/src/runtime`, `shared/shutdown.ts`) | Redis jobs, worker processes | enqueue, run, retry, shut down | crashes, expired locks, retries, evicted ids | one piece of work per id, which ends completed or failed |
| Idempotency keys (`contracts/jobs.ts`) | none | the key builders, toJobId | an encoding that must not merge two keys | different keys, different job ids |
| Source ingestion (`modules/sources`) | `sources` (status, cursor), `source_items`, `channel_sources`, health snapshots | create, update, enqueue, ingestAll, health, process, persistItem | several channels ingest one source; windows; per-item writes before the cursor | no item lost, none stored twice, cursors move forward |
| RSS and Web adapters | the cursor they are given | fetch, map, next cursor | watermarks, validators, limits | nothing published after the watermark is skipped |
| Hardened HTTP client | none | get with redirects and a deadline | redirects, size and time limits | bounded hops, every hop checked |
| Safe markup, text helpers | none | element and text extraction; ranking, canonical links | nesting, escaping, unterminated input, ties | text is what a reader sees; the same input in another order gives the same answer |
| Channels (`modules/channels`) | channels, members, versioned settings | create, get, update, updateSettings, addMember, setCredential | optimistic versions, roles read before the write | no lost update; owners decide |
| Access (`modules/access`) | users | bootstrap, createUser | check, then create | one first administrator; only owners invite |
| Moderation (`modules/moderation`) | `moderation_queue` | queue, act | two moderators, one post | the first decision stands |
| Image selection, research decision, quality gate | none | pure functions | boundaries of scores and limits | agree with their definition |
| AI provider and validators, embedding, health, audit, configuration, web client | none or insert-only | see `PROJECT.json` | I/O and data | not modelled |

How they interact. An ingestion job runs `SourcesService.process` and then enqueues
a discovery job for the same source and channel (`source-ingest.processor.ts`). The
discovery job calls `DiscoveryService.discover`, which calls Memory and the Story
graph in the same process. The API calls `discover` too, for one item
(`POST .../ideas/:id/reprocess`), and archives ideas. All of them meet in the
database; nothing else is shared between processes except the queues.

The hazards are in `PROJECT.json` under `hazards`, at their lines, with the properties
that watch over them or the reason why none does.

## 2. Modules

| Module | Models | Used by |
|---|---|---|
| `MemoryClassifier` | the pure decision rules: overlap, ordering by overlap, verdict on the nearest neighbour | `Discovery` |
| `Discovery` | one channel's passes, memory, log and stories | `MCDiscovery`, `DiscoveryProofs` |
| `MCDiscovery` | small instances for TLC | the three `discovery*` runs |
| `DiscoveryProofs` | the theorems about `Discovery` and `MemoryClassifier` for any interleaving of passes | |
| `DiscoverySerialProofs` | the theorems about `Discovery` while no two passes have overlapped | |
| `JobBoard` | the abstract promise of a queue | `JobQueue` (refinement) |
| `JobQueue` | one BullMQ queue, its producers and worker processes | the two `job_queue*` runs, `JobQueueProofs` |
| `JobKeys` | `toJobId` and the key of a health probe | `job_keys`, `AlgorithmProofs` |
| `SourceAdapters` | what the RSS and the Web adapter make of an answer, and their cursor | `Ingestion` |
| `Ingestion` | sources, bindings, ingestion jobs and runs, origins, the hand-off to discovery | `MCIngestion` |
| `MCIngestion` | small instances for TLC | the two `ingestion*` runs |
| `IngestionProofs` | the theorems about `Ingestion` other than its cursors | `IngestionCursorProofs` |
| `IngestionCursorProofs` | the theorems about the cursors of `Ingestion` | |
| `Errors` | the classification of failures | `HttpClient` |
| `BoundedFetch` | the abstract promise of an HTTP call | `HttpClient` (refinement) |
| `HttpClient` | one call of the hardened HTTP client | `http_client`, `HttpClientProofs` |
| `Administration` | users, channels, settings, members and moderation as interleaved requests | `MCAdministration`, `AdministrationProofs` |
| `MCAdministration` | a small instance for TLC | `administration` |
| `Markup` | the markup scanner | `Algorithms` |
| `FeedEntries` | an item from the elements of a feed entry or a page | `Inputs` |
| `SharedText` | ranking of topics and entities, canonical links | `Inputs` |
| `Inputs` | entries, pages, links and texts, and reference definitions for the two | `Algorithms`, `AlgorithmProofs` |
| `Algorithms` | adds documents and markup, and reference definitions for the scanner | `algorithms`, `markup_hidden` |
| `AlgorithmProofs` | the theorems about `Inputs`, `FeedEntries`, `JobKeys` and `SharedText`, for inputs of any length | |
| `JobQueueProofs`, `HttpClientProofs`, `AdministrationProofs` | the theorems about these modules | |

Operators marked "mutant" or "mutation" in a comment are deliberate faults: each one replaces
its neighbour to show that a property notices. No specification uses them.

### Discovery

A *pass* is one call of `discover`. `pass[p]` holds the local variables of the pass
and the database call it makes next; each call is one action, so any two passes
interleave wherever the code awaits.

| Step | Action | Code |
|---|---|---|
| start | `StartWorker`, `StartReprocess` | binding and item queries, `discovery.service.ts:18-20`; `content.controller.ts` for one item |
| `next` | `UpsertIdea` | `contentIdea.upsert` |
| `byHash`, `byUrl`, `nearest` | `FindByHash`, `FindByUrl`, `FindNearest` | `MemoryService.classify` and the repository's three lookups |
| `decide` | `Decide` | `contentIdea.update` |
| `record` | `RecordDecision` | `MemoryService.recordDecision`; a duplicate ends here |
| `indexRow`, `indexEmbedding` | `IndexRow`, `IndexEmbedding` | the two statements of `MemoryRepository.upsert` |
| `readStories`, `attach`, `point`, `link` | `ReadStories`, `AttachStory`, `PointIdea`, `LinkItem` | the four calls of `StoryGraphService.attachIdea` |
| any | `Fail` | a call throws or the process dies; the worker's retry is the next `StartWorker` |

Around the passes, `PersistItem` changes what an item says, `ToggleBinding` switches
a source on or off for the channel, `ArchiveIdea` archives. `torn` remembers passes
that failed between two writes that belong together; it guards nothing and only lets
properties say "unless a pass failed just there". `overlapped` likewise remembers whether two
passes were ever under way at once.

What is abstracted, and why that is harmless:

- Text is one of a few `Contents`. What the code derives from it is given by
  constants: `HashOf`, `UrlOf`, `TermsOf` (entities and topics together, since both
  sets are unioned and compared the same way) and `Similarity` of two embeddings.
- Scores, overlaps and thresholds are percentages, compared without fractions.
- Vector search is taken as exact. pgvector's index may return a near miss; the
  safety properties below do not use that the match is the nearest.
- Orders that come from clocks (newest item first, oldest match, latest
  `lastSeenAt` of several processes) are a free choice, so every order is covered.
- The binding and item queries at the start are one action: nothing later depends on
  the binding.
- The decision log is a set of distinct rows; no property counts repetitions.
- There is one channel. Every query and unique key carries the channel id, so
  channels share only `source_items`, which passes read and never write.
- One worker pass per source at a time: every hand-off of a source has the same job
  id. The one exception, a second execution of a job whose lock expired, is
  `JobQueue`'s subject and is not composed with this module. Between a worker's pass and
  a request's pass on the same item there is no such limit, and that overlap is modelled.
- `MemoryService.archive` has no caller; memory rows are always live.

### JobQueue

`state`, `attemptsMade`, `stalled`, `holder` and `error` are a job's record in Redis;
`running` and `lifecycle` belong to the worker processes. BullMQ is not part of the
repository: it is modelled from how `queue.registry.ts` configures it (attempts,
exponential backoff, `removeOnComplete`, `removeOnFail: false`, job ids) and how
`worker-runtime.ts` uses it (`Worker`, `close`), with its documented lock behaviour.
`Enqueue` of an id that Redis holds does nothing. A handler that throws goes to
`delayed` or, out of attempts, to `failed`. `Stall` is an expired lock: always
possible when the worker is dead, a bounded disruption when its event loop merely
hangs, in which case the late result is refused. `BeginShutdown`, `FinishShutdown`
and `Kill` are SIGTERM, the orderly exit and the forced one of `shutdown.ts`. A worker runs
`Concurrency` handlers side by side, each in a slot of its own with a lock of its own, so it may
take a job again in one slot while its own late handler for it still runs in another. Three
histories guard nothing: `late` holds the slots whose handler lost its lock, `executions` counts the
handlers started for a job, `ended` those that returned or threw before their lock expired.

### JobKeys

Keys are sequences of characters, of which `_`, `:` and "another" are distinct;
`ToJobId` is the two replacements of `toJobId`.

### Ingestion and SourceAdapters

A *run* is one attempt of an ingestion job on a worker. `run[w]` holds what `process` has
read (address and cursor), what is left to store, and the call it makes next.

| Step | Action | Code |
|---|---|---|
| start | `Start` | the worker takes the job; `source.findUniqueOrThrow` and the status test |
| `fetch` | `Fetch` | `adapter.fetch`: `ReadFeed`, `ReadPage` and `Unchanged` of `SourceAdapters` |
| `store` | `Store`, `SaveCursor` | `persistItem` for each item, then `source.update` |
| `report` | `Report` | the health snapshot |
| `handoff` | `HandOff`, `HandOffFails` | `source-ingest.processor.ts:15`, `DiscoveryService.enqueue` |
| any | `Throw`, `Crash` | the catch block and the queue's retry; the process ends and the job is found stalled: it waits again, or fails for good when it stalled too often |

Around the runs are the API's calls (`Create`, `Readdress`, `SetStatus`, `Disable`,
`Enqueue`, `Probe`), the origin (`Publish`, `Rewrite`), time (`NextWindow`, `Evict`) and
discovery as far as the hand-off goes (`Discover`, `DiscoveryFails`). `ingestAll` is
`Enqueue` of each enabled source, in any order and with any other call in between, since
it is a `Promise.allSettled` of independent calls.

What is abstracted:

- An entry is its id, date, text and whether an item can be built from it. Content hashes
  are compared as texts. ETag and Last-Modified are one stamp, the time of the content's
  last change; an origin may answer 304 to a stamp as recent as its content, and may not.
- What an adapter hands over, and a run has still to store, keeps its positions in the feed;
  `NextItem` takes the first, as the loop over `result.items` does.
- `update` of a source is three actions, one for each field it may carry (`Readdress`,
  `SetStatus`, `Disable`); together they are the same writes in some order. The unique
  index on addresses is a guard of `Readdress`.
- `Enqueue` and `Probe` read and write in one action. What `enqueue` reads may change before
  the job is added, which is the same as changing right after; a probe's snapshot only
  tells how the origin was at some time.
- The upsert of an item is one atomic statement. Two overlapping runs that both insert one new
  entry may instead have the second one answered `duplicate`; the row is then there all
  the same, and the property about texts leaves overlapping runs out.
- The caller's role is taken to suffice: `Administration` has the role checks.
- The queues are a state for each job id: taken while the job is there, and a failed job is
  there for good. `JobQueue` has attempts, locks and shutdown in detail; a second
  execution after an expired lock is not composed with runs, a crash and retry is.
- The history variables guard nothing. They record what a property needs to remember: what
  `persistItem` last answered, which job stored what, whose hand-off was accepted.

### HttpClient

One call of `get`: `Start` is `assertSafeUrl`; then for each hop `Resolve`
(`assertResolvesPublicly`), `Send` and `Receive` (an error, a redirect through `Follow`, a
304, a 2xx through `Accept`, another status), and `Read` (`readBody` and the limit on what was
read). Addresses are model values in three classes, given by constants. A name may resolve
differently at each hop, so for a name the outcome of `Resolve` is free. Sizes are "fits" or
"oversized", declared and real. Two calls share nothing, so one is modelled.

### Administration

`call[k]` is a request between two of its statements: what it has read (`base`, `owner`,
`member`) and where it is. `Bootstrap`, `CreateUser`, `Create`, `Update`,
`UpdateSettings`, `AddMember` and `SetCredential` are the requests up to their first write;
`CountUsers` is the count in the middle of `createUser`; `InsertUser`, `InsertChannel`,
`WriteMetadata`, `WriteSettings`, `UpsertMember` and `WriteCredential` are the writes;
`Reload` is the read of the answer; `RecordBootstrap`, `RecordChannel` and the other
`Record` steps are the audit entries. `Abandon` is an error or a crash between any two.
`Act` of moderation is one transaction and one action; `Get` is what a client sees of the
settings. `DisableUser` is external: no code in the repository writes that status, and
`createUser` tests it.

Settings are two lists, one only owners may change and one editors may, that a client
replaces whole: it sends what it last saw plus its own edit. An edit is named by the
number of its call, so a lost edit is visible. The other protected fields (`minEvidence`,
`legalRestrictions`, `researchMaxLevel`) pass the same test as `forbiddenTopics` and are not told
apart from it. Two histories note how many calls had been made when an ownership was taken away
(`lost`) and when a second user was created (`crowded`): with the number of a call they tell
whether its actor had a right since the call arrived. In `addMember` the read of the user that is to
be a member is merged with the write that needs it: users are never deleted.

### Markup, FeedEntries, SharedText, Inputs, Algorithms

Markup is a sequence of lexemes (`<name`, `</name`, `>`, `/`, `<!--`, `-->`, `<?`, a CDATA
section's two ends, a lone `<`, a space, a word), each plain or written with entities, once or more
(`escapes`). The scanner's loops over characters become searches over lexemes; every branch on what is
found is kept, unterminated input included. Attributes are taken as read. The relation of
one name beginning with another ("p" and "pre") is given for the names in use, since the
scanner searches for prefixes. `FeedEntries` starts from cleaned texts and classes of
references. `SharedText` has tokens and parameter names as numbers in code point order; a text is a
sequence of pieces, capitalized terms, other words and sentence ends, and whether a term opens a
sentence follows from the piece before it, as in `opensSentence`.

A behaviour of `Algorithms` is one input, built piece by piece: a document as a tree, raw markup,
or one of `Inputs` (an entry, a page, a link, the pieces of a text). A document has elements and
hidden blocks in its comments, elements in its hidden blocks, tags its author writes about with
entities, processing instructions, and attributes with a `>` in them. Entries come in three families,
which vary links and texts, authors and dates, or images. The operators are compared with reference
definitions that do not scan: what the scanner leaves to be seen of a tree, which elements a tree has,
which entries have a usable link and a text, which links differ in nothing that matters, and any
permutation of the pieces. `Inputs` is a module of its own because the theorems are about its
specification, `InputSpec`, and what the scanner does is recursive.

## 3. Runs

| Run | Checks | Instance | Shows |
|---|---|---|---|
| `discovery` | `TypeOK`, `ReasonIffRejected`, `BlockedByAnother`, `IndexedWasAccepted`, `RejectionIsLogged`, `StoryMembersIndexed`, `StoryPointerLinked`, `ItemCountCoversMembers`; while no passes have overlapped also `MemoryIdentityUnique`, `EmbeddingMatchesRow`, `StoriesOnlyGrow` | a feed with two items and a site with one, a reprocess request, two passes, two edits, one failure; 4.66 million states | what holds however passes interleave and fail, and what one pass at a time adds |
| `discovery_twins` | `NoAcceptedTwins`, violated | two sources, one item each, same text | finding 1 |
| `discovery_replay` | `OneStoryPerItem`, violated | one source, three items whose terms drift | finding 2 |
| `job_queue` | `TypeOK`, `FailedForAReason`, `OverlapNeedsExpiredLock`, `ExecutionsBounded`, `ImplementsBoard` | two jobs, two workers of two slots, two attempts, one stall, three disruptions; 183 thousand states | a queue keeps its promise through crashes, expired locks and retries |
| `job_queue_retry` | `NonRetryableNotRetried`, violated | handlers that break a contract | finding 3 |
| `job_keys` | `DistinctKeysDistinctJobs`, violated | probe ids of up to two characters | finding 4 |
| `ingestion` | `TypeOK`, `WatermarkPassesNothing`, `NotModifiedHidesNothing`, `NotModifiedMeansCurrent`, `AcceptedHandOffCovers` | one source at one of three addresses, two channels, two workers, two jobs of two attempts, three events; 2.55 million states | the cursor never hides an item; an accepted hand-off covers what was stored |
| `ingestion_backlog` | `NewItemsAreDiscovered`, violated | one channel, one worker, two jobs, two events, with fairness | finding 5 |
| `http_client` | `TypeOK`, `EveryHopIsCleared`, `AnswerIsUsable`, `ImplementsBoundedFetch` | five addresses of all classes, two redirects; 1020 states | every hop is checked before its request, answers are usable, a call ends |
| `administration` | `TypeOK`, `SecondBootstrapRaced`, `InvitersHadTheRight`, `NobodyGovernsUnowned`, `VersionsNameStates`, `FirstDecisionStands`, `EditsAccumulate` | an empty database, three users, one channel, one post, five calls, two at a time; 2.06 million states | who may do what, and that no update is lost |
| `algorithms` | `CleanTextIsVisible`, `StripTagsLeavesNone`, `ElementsAreFound`, `ArticleTextIsVisible`, `ItemIffReadable`, `CanonicalIffSameAddress`, `RankingIgnoresOrder` | documents of three nodes, markup of six lexemes, four pieces, two links or parameters; 1.22 million inputs | the pure algorithms agree with independent definitions |
| `markup_hidden` | `HiddenNeverContributes`, violated | documents of one node | finding 6 |

Why the bounds are enough for the questions asked:

- *Two passes* are the least that overlap, in any of the ways there are: a worker's pass of each
  source, or a worker's and a request's on one item; or for one to fail and be replayed. The
  theorems of section 4 hold for any number.
- *Three items, two sources*: the feed's second item updates the first one's text under its URL, so
  it is stopped by the URL lookup and not by the hash; the site's item is the first one's twin under
  another URL. The fourth content is another subject, which an edit may bring.
- *Two edits* make a stored item change under a running pass, so that the text in hand, the idea,
  the memory row and the vector all differ, and change back.
- *A story window* of two with three stories, or one with several, makes stories fall out
  of the query (the code's window is 50).
- *One failure* at every step, followed by another pass, is a retry; the next pass starts
  from the same rows whether one or more failures preceded it.
- *Two attempts and one stall* exercise first failure, last failure, first stall and
  fatal stall. `MaxStalls = 1` is BullMQ's default, which the runtime keeps. *Two slots* let a
  worker hold both jobs, or one job twice; *three disruptions* are a lost lock for each of two
  executions and a shutdown, say.
- *Ingestion: three events* of the kind that cost one (a publication, a rewrite, an edit of
  the source, a failure, a crash, a new window). The hazards need a change of the origin
  under a run, a failure or crash in it, and one more of either. *Two jobs* are the least
  for two channels whose runs overlap on one source, or for a second window of one. The feed
  shows two entries, so a third pushes the oldest out; two entries share a date, one has none
  and one is broken. The backlog needs one publication and one window.
- *HTTP: two redirects* are the least for a first hop, a middle one and a refused third. The
  code's limit is three.
- *Administration: five calls* are a bootstrap, a second user, a channel and two more requests,
  which may be two updates of one version, or an invitation and the demotion of its author.
  Three users are an owner, an invited user and one who is neither. Two calls at once show
  any race of two; the theorems of section 4 hold for any number.
- *Algorithms*: an element's children have two levels, so a name inside a longer one occurs, and so
  does a hidden block in a comment; six lexemes hold two tags, or a comment with a tag in it; two
  parameters that share a name, or a value, tell the orders apart; four pieces hold a tie and a
  sentence end.
- `MaxStories` guards `AttachStory`; four stories are the most that two passes of two items can start.

Runs are checked without deadlock checking where the bounds stop the system: no starts
left, all work done. In the real system that is idleness.

### Fairness

`JobQueue!FairSpec`: a waiting job is fetched if a slot keeps coming free (strong
fairness per job, since waiting jobs form a queue and slots come and go); delays end;
the lock of a job nobody runs any more is found expired; a running handler ends (its
HTTP and database calls have deadlines); a closing process ends, by draining or by its
shutdown timer; and a process that is down is started again. The last one is an
assumption about the deployment: nothing in the repository restarts a worker.
Nothing requires a crash, a shutdown, an enqueue or an eviction to happen.

`Ingestion!FairSpec`: weak fairness of each ingestion worker's own next step and of the
discovery worker. Nobody has to publish, to trigger an ingestion or to fail. Eviction is not
promised either: BullMQ removes old completed jobs when further jobs complete, so without
traffic an id stays taken. The counterexample of `ingestion_backlog` does not rest on
starving anybody: both jobs run to their end and nothing that remains would help.

`HttpClient!Spec`: weak fairness of the call's next step. The request and the read of its
body are aborted by one timer, and the resolver has a timeout of its own.

### Findings

1. **Twins are both accepted.** `docs/m3-content-intelligence.md:46`: a semantically
   equivalent second item is rejected as `DUPLICATE`. Two worker passes over two sources
   both classify before either indexes, and both accept. Nothing in the
   database makes memory's text unique.
2. **A replay can add a story link.** The same line promises that replaying discovery
   creates no other story-item link. `attachIdea` matches anew and ignores the story
   the idea already has; when that story has grown past the overlap threshold, the
   replay starts a second story.
3. **Failures that should not be retried are.** ADR 0005 and the health-probe processor
   say contract violations do not retry; the runtime only logs `isRetryable`.
4. **`toJobId` is not injective.** `_` and `::` have the same encoding, so of the probe
   ids `_` and `::` the second is dropped. `contracts/jobs.ts:66-67` states the contrary.
5. **New items wait for a job that is done.** `contracts/jobs.ts:38-39` says the batch key of
   a discovery job is derived from the item ids handed over. The ingestion worker hands over
   no ids, the key is always `backlog`, and while the last discovery job of that channel and
   source is still in Redis (up to a day if it completed, for good if it failed) the hand-off adds
   nothing: what was just stored is not discovered until a later hand-off is accepted.
6. **A hidden block becomes the text of a page.** `safe-markup.ts:12` calls the hidden tags "Content
   that must never contribute text" and line 276 says "Hidden blocks never contribute".
   `articleText` (`web-source.adapter.ts:69`) looks for the article and the paragraphs in the body as
   it arrived, so an `<article>` inside a `<noscript>`, a `<template>` or a comment is taken for the
   text of the page.

Smaller differences met while modelling, which no run is about:

- `docs/m1-channels-access.md:9-10` calls the bootstrap a one-shot. Two concurrent ones can both
  pass the count; `SecondBootstrapRaced` shows that a race is the only way.
- The same document (line 13) says the active user is checked. `createUser` tests the
  status, `ChannelsService` asks for the role only, so a disabled member keeps his rights.
- Line 16 lists the roles as if they were totally ordered. In `channels.service.ts` editor and
  operator have one rank.
- Lines 33-35 list the publication mode among the protected, owner-controlled fields. It is
  not in `protectedFields` (`channels.service.ts:15-20`), so an editor changes it with the settings'
  `PATCH`. `Protected` in `Administration` follows the code, so `NobodyGovernsUnowned` says
  nothing of the mode.
- Lines 45-46 say that metadata and settings changes are audited; they are not, and
  the entry for an added member names the creator of the channel, whoever called.
- `addMember` lets the last owner demote himself; nobody governs the channel afterwards.
- A moderation decision that was not applied, because the post had been decided or belongs to
  another channel, is audited and answered like one that was.
- The adapters declare one request for a fetch; with redirects it is up to four.
- `stripTags` and `cleanText` go wrong on some well-formed documents, and `CleanTextIsVisible` says
  how: a tag written about (`&lt;p&gt;`) is decoded and then taken for a tag, and a `&lt;script&gt;`
  takes the rest of the text with it; a `>` in an attribute ends the tag; in an escaped document a
  comment ends at its first `>`, since the second pass (`safe-markup.ts:284`) does not strip comments,
  so what a commented-out element says stays.
- The watermark of a feed is exclusive. An entry published with a date before one already shown, or
  with the same date, is not fetched (`rss-source.adapter.ts:188`); `WatermarkPassesNothing` leaves both
  out, and `Publish` adds no back-dated entries.
- `BullMQ` also forgets completed jobs beyond a thousand (`queue.registry.ts:35`). A discovery
  job's id may therefore be free again at any time (`Evict`); that an ingestion job's may be, within its
  own window, is left out: the second ingestion would be one of the next window.

## 4. Proofs

Theorems hold for every value of the constants that meets the named assumptions of the
modules. Each module about a specification shows an inductive invariant, action by action, and
draws the listed theorems from it.

| Module | Theorem | Property |
|---|---|---|
| `DiscoveryProofs` | `TypeCorrect` | `TypeOK` |
| | `RejectionHasReason` | `ReasonIffRejected` |
| | `ClassifyFirstIndexSecond` | `IndexedWasAccepted` |
| | `NeverBlockedByItself` | `BlockedByAnother` |
| | `RejectionsAreLogged` | `RejectionIsLogged` |
| | `StoriesAreInMemory` | `StoryMembersIndexed` |
| | `TimelinesShowTheirIdeas` | `StoryPointerLinked` |
| | `CountCoversTimeline` | `ItemCountCoversMembers` |
| | `StoryChoiceIsMade` | a best story is found whenever one overlaps enough |
| | `VerdictsFollowSimilarity` | a closer match never gets a weaker verdict |
| | `PassesGetOn` | a pass makes a bounded number of steps |
| `DiscoverySerialProofs` | `MemoryHoldsNoTwins` | `MemoryIdentityUnique` (while no two passes have overlapped) |
| | `EmbeddingsFollowTheirRows` | `EmbeddingMatchesRow` (while no two passes have overlapped) |
| | `StoriesLoseNothing` | `StoriesOnlyGrow` (while no two passes have overlapped) |
| `JobQueueProofs` | `TypeCorrect` | `TypeOK` |
| | `GivenUpForAReason` | `FailedForAReason` |
| | `ExecutionsAreBudgeted` | `ExecutionsBounded` |
| | `OverlapsArePaidFor` | `OverlapNeedsExpiredLock` |
| | `QueueIsBoard` | the safety part of `ImplementsBoard` |
| | `JobsDoNotGoRound` | a job is moved a bounded number of times |
| `IngestionProofs` | `TypeCorrect` | `TypeOK` |
| | `AcceptedHandOffsCover` | `AcceptedHandOffCovers` |
| | `QueuesAreBoards` | both of its queues implement `JobBoard` (safety) |
| | `RunsGetOn` | a run makes a bounded number of calls |
| `IngestionCursorProofs` | `WatermarksPassNothing` | `WatermarkPassesNothing` |
| | `NotModifiedsHideNothing` | `NotModifiedHidesNothing` |
| | `NotModifiedsMeanCurrent` | `NotModifiedMeansCurrent` |
| `AlgorithmProofs` | `ItemIffLinkedAndWritten` | which entries become items |
| | `ItemsAreComplete` | what an item of a feed has |
| | `PageIsItemUnlessEmpty` | which pages become items, and under which address |
| | `ImagesAreListed` | which images an item has, in which order |
| | `PlainKeysKeepApart` | keys without `_` never share a job id |
| | `PlainProbesKeepTheirJobs` | `DistinctKeysDistinctJobs`, as long as no probe id has a `_` |
| | `ItemsAreReadable` | `ItemIffReadable` |
| | `CanonicalFormsAgree` | `CanonicalIffSameAddress` |
| | `RankingsAgree` | `RankingIgnoresOrder` |
| `HttpClientProofs` | `TypeCorrect` | `TypeOK` |
| | `NoUncheckedRequest` | `EveryHopIsCleared` |
| | `AnswersAreUsable` | `AnswerIsUsable` |
| | `CallIsBoundedFetch` | the safety part of `ImplementsBoundedFetch` |
| | `CallsHaveBoundedlyManySteps` | the bounded part of a call's end |
| `AdministrationProofs` | `TypeCorrect` | `TypeOK` |
| | `SettingsVersionsNameStates` | `VersionsNameStates` |
| | `NoEditIsLost` | `EditsAccumulate` |
| | `OnlyOwnersGovern` | `NobodyGovernsUnowned` |
| | `InvitationsAreFounded` | `InvitersHadTheRight` |
| | `OnlyRacesBootstrapTwice` | `SecondBootstrapRaced` |
| | `FirstDecisionIsFinal` | `FirstDecisionStands` |

**Discovery.** Assumed: `ThresholdsAssumption` (the schema's order of the cut-offs),
`DiscoveryAssumption` (types of the constants, finite sets) and `NoneAssumption` (a
missing row is not a row). None of the properties is inductive: each speaks of tables, and a
pass may write a table long after the read that justified the write. `PassInv(p)`
records what a pass's place in its loop entitles it to: an item, its text and its
idea (`InHand`); a match that is another item in memory (`DecisionReady`); a log row
(`LoggedFirst`); the memory row and vector (`RowWritten`); a target story
(`TargetExists`). Two facts make it inductive with any number of passes. A step moves
one pass only (`Alone`), and no step takes a row away (`Grows`), so what one pass
relies on, no other can spoil (`Untouched`). Each action therefore has one lemma,
which shows `GoodStep` for its own pass; `InvStep` collects them. The properties then
follow from `Inv` and from which few actions write the table in question (`IdeaWriters`,
`MemoryWriters`, `IdeaFates`, `HalfDoneMoves`).

`CountCoversTimeline` needs more: two passes may count the same item for one story, and a
pass may fail after counting. `CountInv` adds to the timeline's members the passes that
have counted and not yet linked; their sum never exceeds `itemCount`.

`StoryChoiceIsMade` is about the loop of `attachIdea`, which `ReadStories` describes by its result:
join the story read that overlaps most if it overlaps enough, else start one. That these two
cases leave nothing out needs the comparison of overlaps, which are fractions, to be a total
preorder (`OverlapsTotal`, `OverlapsTransitive`, with nothing to divide by as well), finitely
many stories to have a best one (`BestExists`: the story the fewest exceed), and the best to
reach the threshold when any does (`OverlapReaches`). It also needs stories to have finitely many
terms, which is invariant.

**Discovery, one pass at a time.** Three properties are false when passes overlap. Two passes
classify twins before either indexes (`discovery_twins`); two passes over one item take turns
at the two statements of the upsert, and the vector left is that of the older text; two
attaches to one story have read the same terms, and the second write drops what the first
added. They are therefore stated of the time before two passes were first under way at once
(`~overlapped => ...`), as properties of the same specification and without further hypothesis. That
time does not exclude several sources, edits, archiving, failures and retries. `SerialInv` says that
then one pass at most is under way (`SerialityKept`) and that its `AnswersLast`. The
conditions of `AnswersLast(p)` say which answers of earlier lookups a pass still relies on: the
prefilters it has passed would find nothing now (`FiltersLast`), the row it has just written has the
text in hand (`RowHasText`), the story it will join has the terms that were read
(`SeenLasts`). A step of the only pass keeps its own answers (`ClassifyAnswers`, `CommitAnswers`,
`AttachAnswers`), and all others rest (`OthersRest`).

**Ingestion.** Assumed: `IngestionAssumption` (types of the constants; pages have no date; an entry
id keeps its date) and `MaxEntriesAssumption`. The proof has three layers.

- `Base`: types; bounds; a worker at work has a job of its own (`RunsHaveJobs`); the entries of a feed
  are known by their ids (`Feeds`). `HandOffs` adds that a job whose hand-off was accepted is
  completed, so stores nothing more, and that what a job stored is in the table that discovery reads.
  `AcceptedHandOffCovers` is inductive with it.
- `CursorsFit`: the saved cursor of a source, and the cursor any run carries, is no newer than the
  content (`Rooted`) and has passed, or hides behind a validator, only what was stored or
  recognised, or what that run has still to store. `Throw` and `Crash` discard the cursor
  together with the list, which is why it may be saved only at the end. What an origin does to its
  content is summed up by `Follows`: an entry keeps its date and does not move up, and a new one is
  dated no earlier than those shown. The newest date of a feed, which the watermark becomes, is
  found by a least counterexample, since there is no induction over feeds.
- `TextsAreCurrent`: without overlap, the texts stored are those of the content the cursor
  stands for, but for the list still to be stored.

The proofs found nothing wrong with the properties, and one thing about the model: a run's list
now keeps the positions items have in the feed (`Visible`, `NextItem`), which `persistItem`'s loop
follows in order, instead of a filtered sequence about which nothing general can be proved.

**Queues.** `Ingestion` has its queues as one state per job id, and `JobQueue` has one with attempts,
locks and shutdown. `QueueIsBoard` and `QueuesAreBoards` show that both keep the promise of
`JobBoard`, each under its own refinement mapping (`BoardStatus`; `JobStatus` and `HandoffStatus`):
an id that is known is not added again, a failed job keeps its id for good, only what is done is
forgotten. So what `Ingestion` abstracts from is what `JobQueue` was shown to hide. The one
difference is that a run whose lock expired is not executed a second time while it still lives.

**Algorithms.** The theorems about `Inputs` assume `InputsAssumption`: the bounds are natural numbers,
any at all, so entries, pages and queries have any number of tags and parameters and texts any number
of pieces. The general ones assume only what the callers hand over (`IsEntry`, `IsPage`, `HasMedia`:
sequences of any length and of whatever the document says).

- Searches (`pickText`, `entryLink`, `metaContent`, `canonicalFrom`) take the first of some
  candidates that is usable. `FirstPosition` shows once that such a search finds the first if there
  is any; the theorems about items and pages follow case by case.
- Folds (`Images`, `Sorted`, `Kept`, `Counts`, the two replacements of `ToJobId`). The library's
  induction theorems take an operator the provers cannot instantiate, so a fold is unfolded by hand:
  the recursive function it stands for exists (`FoldIsThere`), takes one position at a time, and keeps
  an invariant at each position (`Listed`, `SortedUpTo`). The least position at which it would
  fail is the contradiction.
- Images: a list is fixed by its elements and their order of first appearance up to the limit.
- Links: `Array.sort` puts each parameter before the first it precedes (`InsertedGoes`), which
  keeps the order and adds one occurrence; the filter keeps the others as often as they were
  (`PairsAreKept`). A total order admits one arrangement of given elements (`OneOrder`), so two
  queries are sorted alike exactly when the same parameters occur equally often (`SameAddress`).
  With names alone for an order, which is not total, it fails: the mutant.
- Rankings: after any prefix of the text the tallies are those of its tokens, each once
  (`TokensAreCounted`), a permutation leaves every token as frequent as it was (`ShuffledAlike`), and
  the ranking is sorting again, with frequency and then token for an order. Entities are more than a
  count: a name that only ever opens a sentence, and once, is none. So their half of the theorem
  supposes that the names open sentences where they did; that they cannot be left out otherwise,
  "Alpha Beta" against "Beta Alpha" shows.
- Job ids: on a key without `_` the replacements are one character for one (`PlainKeys`), so they
  can be undone. `DistinctKeysDistinctJobs` fails with a `_` (finding 4); `PlainProbesKeepTheirJobs`
  is what remains of it, in whatever order the probes come.

**Bounded work.** Liveness is out of the prover's reach, but its bounded half is not: that no
chain of retries, redirects or interferences goes on for ever. Each of the four specifications has a
measure, which every step of the process lowers and no other process raises. For a pass it is the
items left and the calls left for the item in hand (`WorkLeft`); for a run, the items to be
stored and the calls around them (`CallsLeft`); for an HTTP call, the redirects left and the place in
the loop (`StepsLeft`); for a job, the attempts and stalls left and its place between waiting
and done (`MovesLeft`). What fairness adds, that an enabled step is taken, TLC checks. That
a job found stalled may be failed for good, not only be repeated, was missing from `Crash` of
`Ingestion` and came to light when the two queues were compared.

**JobQueue.** Assumed: `JobQueueAssumption` (positive numbers of attempts and slots). No property is
inductive by itself: a job whose lock expired is fetched again while the old handler is still at
work. `LatenessIsLostLock` says of a slot's handler that it is late exactly when its job carries
another lock or none, so two handlers of one job cannot both be in time. `ExecutionsCounted` is the
account behind the bound: every handler started is an attempt made, a lock that expired, or the one
that holds the lock. It rests on `LockedMeansActive` (a job carries a lock exactly while it is
active), and the bound on `PendingHasBudget` (a job not settled has an attempt and a stall left).
`QueueIsBoard` maps every step to one of `JobBoard` or none under `BoardStatus`.

**HttpClient.** Assumed: `HttpAssumption`. The invariant ties the place in the hop to the two
histories: before a request is sent the list of cleared addresses is one longer than the list
of requests and ends with the current address, afterwards they are equal; hops, requests and
redirects keep step; and `outcome` has the form its step needs.

**Administration.** Assumed: `AdministrationAssumption` (finitely many users, a `Nobody` that is
none of the values it stands in for). `Typed` adds to the types that a channel that was not
created has no settings and members, and that a call under way carries what its operation
needs. `VersionsNameStates` is inductive with `Typed`, and `NoEditIsLost` follows: a write is
accepted only at the version the client saw, so the list it replaces is the list it extends.
For the rights, numbers of calls serve as times: `NumbersPast` says that no call under way has a
number still to come, so an ownership that is taken away now is taken away later than they arrived.
`OwnersGovern` is `OwnedSince` for every call that was let through as an owner's, until its write;
`CreatorsKnown` and `HasTheRight` are the same for callers of `createUser`, whether they passed as
owners or as the only user. `BootstrapsAlone` says that unless two bootstraps raced, at most
one is under way, and none is about to create its user once there is one.

Only model-checked:

- The scanner's operators are recursive, and what they compute for every input is out of the
  provers' reach: `CleanTextIsVisible`, `StripTagsLeavesNone`, `ElementsAreFound` and
  `ArticleTextIsVisible` are checked on small inputs.
- Liveness under fairness: the fairness parts of `ImplementsBoard` and `ImplementsBoundedFetch`. Their bounded parts are proved.

## 5. Not modelled, and why

- Image selection, research decision, quality gate, the AI provider and its validators: pure
  functions of scores, or a stateless request, that no pipeline calls yet. Embedding
  arithmetic is numeric; `Discovery` takes similarity as a constant.
- Health and readiness, configuration, logging, the errors filter and the web client keep no
  state that other parts depend on. Of the audit log, the entries of channels, access and
  moderation are in `Administration`.
- Which IP ranges are internal, character sets, attribute syntax and entity names: tables
  and formats without steps.
- The role check of the sources' endpoints (`Administration` has the same check for channels),
  and the read-only endpoints other than `get` of a channel.
- Publishing, scheduling, writing and analytics exist as queue names and documents, not as
  code.

## 6. What could follow

1. `Ingestion` over `JobQueue` instead of its abstract queues, so that a job whose lock expired is
   executed twice.
2. Discovery with a second execution of one backlog job, for the same reason; then which of the
   theorems for one pass at a time need a unique index in the database instead.
3. The markup scanner with folds in place of its recursive operators, as `SharedText` has them, to prove
   about markup of any length what TLC checks on small documents.
