# KMP: a verification project

TLA+ models, model-checking configurations and machine-checked proofs for the
parts of KMP (the Kernel Memory Protocol implementation under `src/crates/`)
whose correctness depends on the order in which things happen.

## 1. The system

KMP gives agents a durable memory. A memory is a set of *abouts*; every change
to an about is an event in an append-only log and is projected into a read
model. The same kernel runs embedded in an MCP server (SQLite), or as a gRPC
server over Valkey or NATS for events and Neo4j for the projection.

| component | crates | state it keeps | operations | hard parts |
|---|---|---|---|---|
| **Context command path** | `kmp-application/commands`, `kmp-adapter-{embedded,valkey,nats}` | event log, aggregate heads, idempotency outcomes, projection, a per-process write lock | one: update a context (check key, load revision, check preconditions, append, record outcome, project) | every await is a point of interleaving; other processes share the store but not the lock; callers leave; stores split event, outcome and projection differently |
| **Shared view (ChronoLoom)** | `kmp-viewer/view` | per view a session: state, undo history, honored keys; a bell | open, intent, take control, undo, read, long poll, browser report, prune | two actors on one view; optimistic revisions; retries; bounded history; missed wake-ups; sessions that vanish |
| **Commit-native bundle** | `kmp-embedded/commit_bundle`, `kmp-mcp` write guard | the SQLite log, `.kmp/memory.jsonl`, pending markers, an inter-process lock, a per-process memo of the last publish | guarded write, publish, repair, export, import | crash between commit and publish; ambiguous errors; git and exports replacing the file; trust in a remembered stamp |
| **Memory ingest and relabel** | `kmp-application/memory` | sequence-frontier cache, projection guard | translate a memory command, review its neighborhood, relabel | decisions on reads, only some of which are compared at commit; a guard read under and written under |
| **Asynchronous projection runtime** | `kmp-application/projection`, `kmp-adapter-nats`, `kmp-server` | processed markers, one checkpoint | handle event, ack, nak | redelivery, reordering, several servers, mutations that are several requests |
| **Lexical index** | `kmp-mcp/serving/adapters/lexical_index` | a SQLite sidecar: its place in the log, rows per about | follow the log, build, refresh, reset, forget, answer an ask | shared by processes and releases; a pass decided on reads outside its transaction; a store replaced under it |
| Store lease | `kmp-mcp/lifecycle` | a process-wide registry of claims | claim, release | record locks that belong to the process |
| Read-side caches | `kmp-application/memory` | indexes and visual projections by revision | look up, fill, evict | an entry used at another revision |
| Consolidated views and node cards | `kmp-adapter-embedded` | view heads and receipts | write with an expected revision | retry after others moved |
| Store format, migration, about import | `kmp-embedded`, `kmp-adapter-embedded` | format marker, the store | migrate, import | a crash in the middle |
| **Graph projection** | `kmp-adapter-neo4j` | Neo4j | upserts (modelled with the runtime), reads | idempotence of upserts |
| Recall and temporal queries | `kmp-application` | none | recall, navigate, render | none of concurrency |
| Serving and transports | `kmp-mcp/serving`, `kmp-transport-grpc`, `kmp-mcp-http` | MCP sessions, read continuations | dispatch, authorize, map | translation |
| Guidance, curation, configuration, release tooling, test kits | the other crates | – | – | – |

How they meet: a tool call (MCP, gRPC, HTTP) reaches *ingest*, which reads the
projection and hands one command to the *command path*. In an embedded project
the call is wrapped in the *commit-native* guard, which lets the command path
write and then publishes the log. In a split deployment the *projection runtime* projects
materialization events from a stream. An ask of an embedded store may be
answered from the *lexical index*, which follows the log. The *shared view* lives in
one process beside all this; it holds where an agent and a person look, not the
memory itself.

What makes each modelled component correct:

* command path: no update is lost and revisions are 1, 2, 3…; preconditions
  hold where the event stands, not only where they were compared; a key is
  accepted once; an answer is true; a refusal committed nothing; "ready" means
  projected.
* shared view: no checked move yanks a view its caller did not see; a retry is
  not a second move; an undo flag tells the truth; a poll misses nothing.
* ingest and relabel: what was reviewed is what is written onto; numbers given
  from memory are those of the store; an entry keeps a label.
* projection runtime: nothing is acknowledged that is not projected; the stores
  end as the projection of the stream; everything is settled.
* lexical index: a built about holds its events, all and no others, up to the
  sidecar's place; an answer from it is the whole about's.
* commit-native bundle: what a guarded write left in the store is in the
  committed file or a marker says it may not be; no write begins on two
  histories; nobody is refused without cause.

## 2. Modules

| module | models |
|---|---|
| `ContextLog` | the abstract event store: a log that grows, contiguous revisions per about, optionally one event per key |
| `ContextEvents` | `UpdateContextUseCase` behind `CommandApplicationService`'s write lock over one of three stores |
| `ViewSession` | the session aggregate: `reopen`, `judge`, `take_control`, `undo` as operators on a record |
| `SharedView` | the registry and its clients: use cases, bell, long polls, reports, pruning (extends `ViewSession`) |
| `BundlePromise` | the abstract promise of the two copies: what the store holds is published or announced |
| `CommitBundle` | the guard, the memo, publication, and what stands beside the guard |
| `MemoryIngest` | ingest, review and relabel over the projection of an embedded store, by several processes |
| `ProjectionRuntime` | servers, their three loops, durable consumers, Neo4j and the detail store |
| `LexicalIndex` | the sidecar, the processes that follow the log with it, and their asks |
| `MC...` | constants for TLC, one per specification |
| `...Proofs` | the theorems: `ContextEvents` (and `ContextCallProofs`, what its callers may rely on), `SharedView`, `CommitBundle`, `ProjectionRuntime`, `LexicalIndex`, `MemoryIngest` (and `MemoryNumberingProofs`, the sequences it gives) |

A definition named `X_Word` is a faulty variant of the definition `X` right
after it (a dropped guard, a missing reset, a swapped order). No specification
uses one. They show that each checked property can be broken by a slip in the
code it is about.

### ContextEvents

A *task* is a call in flight, its *host* the kernel process. `pc` walks the
awaits of `UpdateContextUseCase::execute`: `wait` (for the lock), `precheck`
(revisions sampled by the caller), `check` (the key), `revision`, `hash`, then
`append` or `publish`, `record`, `project`. `Store` selects what is atomic:

* `embedded`: event, head, outcome and projection in one SQLite transaction;
* `valkey`: a Lua compare-and-set for event and head, then two requests;
* `nats`: the subject is read, then published against; a lost outcome record
  is only logged (`LoseOutcome`).

`Fail` is an error at any await. `Leave` is a caller that goes away: the future
is dropped, its lock with it, but a request already handed to a blocking thread
or the wire stays in `inflight` and `Land`s later. Content is abstracted to a
hash and a digest; a digest is a function of the logical command, which names
its about (`DigestAssumption`).

### ViewSession and SharedView

The registry's mutex makes each judgment atomic, so an operation is one action;
ringing the bell is a second one, and `view_report` and a long poll are several.
`claims`, `basis` and `seen` record what callers knew. A view's state is a map
from *facets* to *settings*, its about, revision, preparer and `canUndo`; the
vocabulary of the facets does not matter to any property. `Forget` removes a
session: TTL pruning, or a restart of the process, which loses them all.
Expectations are those a client can have: none, 0, or what it was last shown.

### CommitBundle

A history is the set of its authored events. This loses nothing here: the log
is append-only, every comparison in the code is between streams of one log or
with a stream that has events of its own, and git brings only streams that were
published here or contain foreign events (`Branches`). The stamp (length and
modification time) is a counter that every rewrite moves; 0 means no file.
Release-owned guide events are a count beside the authored events, since they
move the log's tail but never the bundle.

| code | actions |
|---|---|
| `begin_write` | `Begin`, `CheckTail`, `ReadLive`, `ReadFile`, `MarkPending` |
| the kernel's write | `Succeeds`, `IsRejected`, `IsAmbiguous` |
| `publish` on the whole log | `ReadHead`, `Recheck`, `Replace`, `Remember` |
| `publish_from` the tail | `FileIsOurs`, `Extend`, `Replace`, `Remember` |
| `complete` | `Complete`, `Unlock` |
| dropped future, failed file operation | `Abandon`, then `Land` for a SQLite write still running |
| death of a process | `Crash` |
| `export --repair-pending` | `Repair` |
| without the guard | `Relabel`, `SyncGuide`, `Checkout`, `ExportRead`, `ExportWrite`, `Import` |

`Promise` maps these variables to those of `BundlePromise`, where a write
announces itself, writes, and withdraws once everything is published;
`KeepsPromise` says that every behaviour maps to one of that specification.

A refusal (lock taken, marker pending) changes nothing and is a stutter. The
kernel's conflict and argument errors commit nothing: that is what
`ContextEvents` shows of the embedded store (`RefusedCommittedNothing`).
`Import` fills an empty store event by event, so any part of the file may
be what it leaves.

### MemoryIngest

An about's projection is a `Slice`: its entries, the coordinate of every label
an entry stands in, and the relations. A command is an ingest (coordinates with
or without a sequence, relations, reviewed or not) or a relabel. A
`contains_entry` relation of an ingest is kept apart from the other relations
(`places`): one with a coordinate of its own is projected after the entries, as
the edge from the label to the entry or over the one that was there (`Over`).
Those edges are what the store reads a frontier from. `FirstStep` splits the
commands as `ingest` does:

| code | actions |
|---|---|
| reviewed or relations alone: under the read guard | `EnterRead`, `SampleRevision`, `Read`, `Locate`, `ReadForeign`, `TranslateIngest`, `Recheck`, `Review` |
| pointed write | `SampleRevision`, `Catalogue` (cache lookup), `Facts`, `Locate`, `TranslateIngest` |
| relabel | `ReadExisting`, `ReadCoordinates`, `TranslateRelabel` |
| `update_context_after_read` | `EnterWrite`, `CheckKey`, `AppendEvent` |
| after the commit | `Finish` (the frontier cache) |
| dry run, failure, caller gone | `DryRun`, `Fail` |

The token of a review is the value it is a digest of (`Neighborhood`): the
command, the coordinates and the relations that bear on it; a label that one of
its relations starts from is an endpoint too (`Edges`). The command path
below is the one `ContextEvents` shows over SQLite, with its load of the head
and its append made one step: between the two it could only fail. Each entry
is of one about, which its ref names (`Owner`).

Numbering goes coordinate by coordinate, as the code's loop does: `Tops` is the
row of frontiers before the first coordinate and after each, `Numbered` the
sequences that row gives, `Advanced` its end, which the code computes a second
time for the cache. `Stored`, what the store holds at the start, is finite; no
other set of coordinates is assumed to be.

### ProjectionRuntime

A message is its position in the stream; `EventOf` gives its event, so that
one event may be published twice. `delivery` is what the durable consumer knows
of a message (`new`, `held`, `due`, `acked`). A loop takes a message
(`Take`: the duplicate check and the mutations), performs its mutations one
request at a time (`Apply`), then `RecordProcessed`, `SaveCheckpoint`, `Ack`.
`Break`, `Reject` (an event that cannot be decoded) and `Crash` end the server,
`Restart` starts it again. The broker confirms no acknowledgement, so one may be
lost with the server going on (`LoseAck`). `Expire` makes a message due that somebody may still
be handling. A stored value is the event that wrote it.

### LexicalIndex

A row is abstracted to where it comes from: an about's rows are the derivations
and the events they were made of. One pass of `catch_up` is `ReadMeta`,
`Snapshot`, `Ensure`, `Holds`, `Touch` per event, `Refresh`, then `Commit` or
`Lose`; an ask goes on with `ReadStats`, `ReadPostings`, `ReadParts`, `Reply`.
Each read of the sidecar is a transaction of its own in the code. The totals and
the postings are read in steps apart. Collapsed into single steps are the
`SELECT`s of `meta`, the vocabulary, frequencies and lifecycles read with the
postings, and the nodes and relations `IndexedParts` reads once the place was
checked. The commit compares every key of `meta` again; `AnswersAreWhole` asks
only for the index to stand and to hold the about at `ReadParts`, so what moves
after it is outside the property, as section 4 says. The reads of the store are
all of one snapshot. A process serves one call at a time (`cli/serve.rs` reads
its requests one by one). `Replace` puts the store back to an older copy with the processes stopped; what is written from then on
is of another era, so an event is never mistaken for the one it replaced.

## 3. Runs

State counts are of the full search; each run finishes within three minutes.

| run | configuration | checks | shows |
|---|---|---|---|
| `events_embedded` | 2 processes, 2 abouts, 2 keys, 3 calls, callers leave (183k states) | `TypeOK`, `RevisionsContiguous`, `ReadsWereCurrent`, `ReadyMeansProjected`, `ProjectionIsLog`, `ImplementsLog` | over SQLite the write path is the abstract log, and the projection is its fold |
| `events_split` | the same over NATS (2.2M) | `PreconditionsHeld`, `RefusedCommittedNothing`, `RepliesAreTrue`, `ProjectedOnce` | the store's compare-and-set alone carries preconditions, refusals and single projections across processes; a lost outcome makes no reply untrue |
| `events_one_process` | one process over SQLite, 4 calls, fair (59k) | `AcceptedOnce`, `ImplementsOnceLog`, `CallsAreAnswered` | within one process a key is accepted once, whatever is retried, and every call is answered |
| `events_race` | 2 processes over SQLite | `AcceptedOnce` **violated** | finding 1 |
| `view_shared` | agent and person, one view, limits of 1, 5 calls (944k) | `TypeOK`, `MovesFromWhatWasSeen`, `KeysAreJudgedOnce`, `HonoredIsPast`, `CanUndoIsTrue`, `NothingMovesSilently` | optimistic concurrency, replay and undo at their limits |
| `view_poll` | two views under one bell, pruning, fair (185k) | `NoNewsIsMissed`, `NewsArrives` | no wake-up is lost |
| `bundle_guarded` | 2 processes, 2 own events and a branch, 3 rewrites, one guide event, relabels (3.3M, events symmetric) | `TypeOK`, `GuardedIsMarked`, `WritesOnEqualHistories`, `RefusalsAreDeserved`, `NothingIsOverwritten`, `KeepsPromise` | the guard implements its promise under every fault |
| `memory_ingest` | 2 processes, 2 abouts, 3 entries, 2 labels, 3 calls, a cache of 1, fair (135k) | `TypeOK`, `FrontierIsExact`, `ReviewedIsCurrent`, `ConsistentIsFresh`, `CallsAreAnswered` | what is decided on a read holds when it is committed, where the code compares it |
| `relabel` | two relabels of one process | `EntryKeepsALabel` **violated** | finding 2 |
| `projection_runtime` | 2 servers, 4 messages, the last of them undecodable, one failure, fair (267k) | `TypeOK`, `SettledIsApplied`, `ConvergesToTheStream`, `NodesStayMaterialized`, `EventsAreSettled` | at-least-once delivery ends in the projection of the stream |
| `lexical_index` | 2 processes of two releases, 2 abouts, 3 events, a threshold of 2, one replacement, one forget (4.2M) | `TypeOK`, `BuiltIsCurrent`, `AnswersAreWhole` | resets, builds and refreshes leave no gap |
| `lexical_race` | 2 processes of one release | `BuiltIsCurrent` **violated** | finding 3 |

Of the split stores NATS is the one checked: what Valkey does is what NATS does
when the subject is read right before the publication, except that a lost
outcome record is an error there instead of a warning, which a failing call
covers. With `Store = "valkey"` the same invariants hold.

### Bounds

* `MaxAttempts`, `MaxCalls`: 3 to 6 calls. A race needs two and a third that
  meets what they left; four let a key be tried, lost, retried and reused.
* `HistoryLimit = IdempotencyLimit = 1`: the code's limits are larger, but the
  eviction is the same at any limit, and at 1 every behaviour reaches it. The
  proofs hold for every limit.
* `MaxStamp = 3` rewrites of the committed file: publish, an intruder's
  rewrite, and publish again from either path. `MaxOwned = 1`: one guide event
  is enough to move the tail without moving the bundle.
* `CacheLimit = 1`: the code keeps 4096 frontiers and starts over; at 1 a write
  of two labels does. Three calls: one shows a neighbourhood, one disturbs it,
  one writes on its token; or two fill the cache and one is numbered from it.
  Each label of the instance is left open by one pointed write and placed under
  by another, so frontiers are kept beside placed edges under unplaced labels.
* Four messages: two nodes that name each other, so that each order of the two
  meets a placeholder, the detail of one, and one that cannot be decoded. That
  one is published last, so the liveness property is of all three others.
  Redelivery repeats a message, which is what publishing an event twice would
  do; the relation subject runs the same loop, and its one mutation is among
  those of a node. One failure is enough to leave any step half done. The
  liveness property is what keeps the instance small; the proofs are for any
  stream and any number of failures.
* Three events: one before a build, one between the build and a pass, one
  after. One replacement, one forget; a threshold of 2 makes an about both too
  small and large enough. The sidecar has two states per about and release, so
  two abouts reach every case of `RowsAfter`.
* Two abouts, because sampled reads of one decide a write to another; two
  views, because one bell rings for all.

Deadlock is checked in the write-path and view runs, where `Quiet` lets a
finished behaviour rest (no further call, or none in progress). It is off in
the projection run, where a stream that was projected is at rest, and in the
bundle run: a pending marker refuses every writer, and at the bound on
rewrites nothing can be published either.

### Fairness

`CallsAreAnswered` assumes that a running call takes its next step (weak
fairness of `Work`) and strong fairness of `Acquire`: tokio's `RwLock` queues
its waiters first come, first served. `NewsArrives` assumes weak fairness of a
client's own steps; the expiry of a poll is not assumed, so it is the bell that
answers. `EventsAreSettled` assumes that some loop goes on while one can, that some
subscription is given a message, that acknowledgement waits run out, and that
the platform restarts a server that ended (`main` returns a failure code for
it). None is per server or per message: the property needs no more. Failures are
finitely many. `CallsAreAnswered` of the ingest assumes the same of a call's
steps and of tokio's lock, whose waiters for reading and for writing are queued
alike. Nobody is assumed to call, fail, leave, crash or repair.

## 4. Findings

1. **One key, two events** (`update_context.rs:166`). The key is looked up
   before the revision is loaded. Another process may accept the same key in
   between; with no expected revision the second append is made against the new
   head, and succeeds. Within one process the lock closes the gap
   (theorem `OneProcessAcceptsOnce`).
2. **An entry without a label** (`memory/service.rs:302`). A relabel is checked
   against labels read outside the guard, and nothing is compared when it
   commits. Two relabels that each take a different label off one entry both
   pass, and leave it in none, though "an entry stands in at least one, which is
   where its time lives" (`relabel.rs:72`). It needs one process only.
3. **A built about without its last event** (`sqlite_lexical_sidecar.rs:523`).
   A pass is refused if the sidecar's place moved since it was read. A build at
   the end of the log moves no place. So: B reads that about X is not built and
   skips X's new event; A, whose pass began at the same place of a log one event
   shorter, builds X and leaves the place as it was; B commits, and the place is
   past an event that X lacks. Asks of X miss it until X is rebuilt; what
   the index does hold is X's (theorem `NothingIsInvented`). Releases differ in
   the place they leave, so two processes of different releases are safe
   (theorem `Current`).

Met while modelling, each a behaviour of the modules without a run of its own:

* Over a split store a call that fails after recording the outcome and before
  projecting leaves the event unprojected; the retry is answered as a replay,
  with `read_after_write_ready` (`update_context.rs:150`). `ReadyMeansProjected`
  is therefore stated of the embedded store alone.
* A pruned or restarted view begins at revision 1 again (`view_session.rs:132`),
  so an expectation from before may match another frame. `MovesFromWhatWasSeen`
  needs `MayForget = FALSE`.
* A kept frontier may be behind the store's (`write_catalogue.rs:68`). After a
  pointed write, `advanced` computes the frontiers to keep from the coordinates
  of its entries. A `contains_entry` relation of the same write may carry a
  coordinate and a sequence of its own (`ingest.rs:383`), projected as the very
  edge the store reads a frontier from. The kept frontier is then not the
  store's at the revision it is kept for, though "what it assigned is the
  about's frontier now" (`service.rs:262`), and the next write numbered from it
  takes a sequence that is not past the store's. One process and one write are
  enough: a write that leaves f's sequence under x to the kernel and places e
  under x at 4 violates `KeptIsExact` when it is answered. Where no pointed
  write both leaves a label to the kernel and places an entry under it
  (`Unplaced`), the frontier is exact, and that is what `FrontierIsExact` says:
  a placing write that numbers nothing under a label keeps no frontier of it,
  and moves the revision of those kept before.
* `kmp_relabel` writes outside the commit-native guard (`relabel_tool.rs:25`):
  the committed file lacks its event, no marker says so, and the next guarded
  write is refused. `GuardedIsMarked` sets relabelled events apart.
* `CommittedTail::published` stamps whatever file it finds after the rename
  (`committed_tail.rs:30`); an export, which takes no lock, may replace it in
  between. `WritesOnEqualHistories` needs `OutsidersWait`.
* Without a digest (the gRPC command service sends none) a key reused for equal
  changes on another about is answered as a replay of the first.
* A browser report that found no view open resets one an agent opened and
  prepared in between; the code's documents do not say which should win.
* `kmp-domain/README.md:21` says events are applied exactly once. They are
  applied at least once: a server that stops before the record is followed by
  another application, and a redelivered older detail overwrites a newer one.
  The upserts make the first harmless (`ConvergesToTheStream`, proved).
* An event that cannot be decoded is redelivered for ever and takes down every
  server it reaches. `EventsAreSettled` excepts streams that hold one.
* An ask compares the store's position, never the sidecar's place. A release
  that resets the sidecar between its reads may leave it an answer of parts of
  two derivations. `AnswersAreWhole` is of an index that still stands.

## 5. Proofs

`tlapm` checks every proof to the last leaf. Each theorem holds for every value
of the constants that satisfies the named assumptions of the module that
declares them; TLC evaluates those assumptions in every run.

**ContextEventsProofs**

* `TypeCorrect`: `Spec => []TypeOK`.
* `NoUpdateIsLost`: `Spec => []RevisionsContiguous`, for each of the stores and
  any number of processes. With types, the property is inductive as it stands:
  a commit is guarded by `RevisionsHold`, a comparison with the head that
  commit moves.
* `WritePathImplementsLog`: `Spec => ImplementsLog`, the refinement of
  `ContextLog` under the mapping that forgets everything but about, revision
  and key. Every step is a `Commit` of the abstract log or a stutter.
* `OneProcessAcceptsOnce`: `Spec => []AcceptedOnce`, assuming `OneWriter`: one
  host, an atomic store, callers that wait. `AcceptedOnce` is not inductive: the
  strengthening `SerialInv` adds that a call inside the lock is alone there, that
  one past its check has a key nothing was accepted under, and that no event is
  without its outcome. Finding 1 shows that the first assumption cannot go,
  the split stores that the second is needed.
* `OneProcessImplementsOnceLog`: `Spec => ImplementsOnceLog`, under the same
  assumptions: the log in which a key commits once, step by step. A step that
  places an event is a `Commit` of that log because `AcceptedOnce` holds after
  it as well, so no event before it has its key.

**ContextCallProofs**, on top of these

* `PreconditionsAlwaysHold`, for each store: `PreconditionsHeld` is about the
  log, the checks are about heads. `HashIsLogged` ties the two, and `Vetted` says what
  a check leaves behind: the write is decided at a revision its about has had,
  and at that revision the about has the hash named. Another commit cannot break
  this, since no about comes back to a revision (`VettedStays`).
* `TurnedAwayCommittedNothing`, for each store: every call has a number, which
  its event and its abandoned request carry (`Numbered`). A call that is undecided or was
  turned away has left nothing under its number.
* `AnswersAreAlwaysTrue`, for each store: a write past its append is in the log,
  and a recorded outcome is that of a logged event (`Answers`). A late `Land`
  records only what was committed.
* `ReadsAreAlwaysCurrent`, `ProjectionIsAlwaysLog`: assuming the atomic store,
  whose transaction compares every revision read and projects what it commits.
* `ReadyIsAlwaysProjected`: follows from the last three and
  `RevisionsContiguous`, assuming the atomic store and that every call sends a
  digest. Section 4 says what happens without one.
* `NothingIsProjectedTwice`, for each store: `ProjectedOnce` by counting who may
  still project what. A call before its projection and a request that outlived
  its caller each owe one event (`EachOwed`): it is in the log and not yet
  projected. No two owe the same one (`AllApart`), since a placed event has a
  revision of its own and a caller that leaves hands its debt to its request.
* `OneLockOrdersProjections`, for each store: `ProjectedInOrder` (defined
  there), assuming one host whose callers stay. `Locked` says that whoever is
  past the lock is alone there, `NewestOwed` that only the newest event of an
  about can be owed, by that call. Both hypotheses are needed: with two
  processes, or a request that lands after its caller left, TLC shows an older
  projection landing on a newer one.

**SharedViewProofs**

* `TypeCorrect`, `CanUndoIsAlwaysTrue`, `HonoredIsAlwaysPast`,
  `NothingEverMovesSilently`: from `Inv`, which adds to the types that every open
  session is *healthy* (flags match the history, honored revisions are past)
  and that a report under way has something to say. Lemmas about each operator
  of `ViewSession` carry the argument; the registry's actions only apply them.
* `NoNewsIsEverMissed`: a poll listens before it reads, so a move after the
  read finds it listening, and one that has moved has a bell to ring.
* `MovesAreInformed`: `MovesFromWhatWasSeen`, assuming `MayForget = FALSE`. The
  strengthening `Known` says that what a client was shown is not ahead of its
  view and, at the same revision, is the view's state. A view that begins again
  is what happens without the assumption.
* `KeysAreAlwaysJudgedOnce`, for every limit. `Ledgers` says that what a session
  remembers are the last keys it judged anew, as many as the limit allows, so a key it
  does not honor was judged longer ago than that. Only an intent with a key
  may extend the ledger (`KeylessKeepHonored`); a report carries none.
* `UndoTakesBackOneMove`, of the operators: a judged move followed by an undo is
  the frame before it under a newer revision, whoever undoes. At the limit of
  the history it costs the oldest frame, as the code's eviction does.

**CommitBundleProofs**

* `TypeCorrect`.
* `RefusalsAreAlwaysDeserved`: from `Exclusive` (the lock is held by the one call
  in progress) and `Accounted` (a marker belongs to a call between creating and
  clearing it or to one that failed; an abandoned kernel write has left its
  marker). For any interference.
* `GuardedIsAlwaysMarked`: from these and `Covered`, which says in which phases
  the log may be ahead of all published files and by how much (the head the
  call is about to publish). Also with relabels, and with git and exports that
  do not wait.
* `WritesAreOnEqualHistories`: assuming `OutsidersWait`, from `Agreed`: a memo
  whose stamp is the file's knows the file, and what a call has read stays true
  until it acts on it. An export between a rewrite and its stamp shows the assumption
  is needed.
* `GuardKeepsPromise`: `Spec => KeepsPromise`, the refinement of `BundlePromise`,
  for any interference. The mapping keeps what guarded writes left in the store,
  what the file has held, and whether a marker is pending. `Accounted` makes
  every write of the kernel an announced one, also one whose caller is gone;
  `Covered` makes the creation and the removal of a marker steps the promise
  allows. `GuardedIsMarked` is what the promise implies of states; the steps say
  in addition that the marker comes before the write.
* `PublicationsOverwriteNothing`: under the same assumption `NothingIsOverwritten`,
  an action property: what a publication writes extends what it replaces. From
  `Grounded`, which follows what bounds the file while a call goes on: the tail it
  was compared with, then the log, then the head it read.

**ProjectionRuntimeProofs**, for any servers, stream and number of failures

* `TypeCorrect`; `Settled`: from `HandlersAreHonest`, which says that a loop has
  performed the mutations it counts and that one past applying handles a
  recorded event. The lemma that carries it: a mutation that stands keeps
  standing whatever is written after it (`WritesStand`).
* `Materialized`: each of the three upserts leaves a materialized node one.
* `Converges`: `ConvergesToTheStream`, in two halves. What the stream writes is
  in the stores: every settled event is applied (`Settled`), and a mutation that
  stands keeps standing. What the stores show is of the stream: `Origin` (theorem
  `OnlyTheStream`) says that what a consumer, a server or a handler has was
  published, that every stored value is of a published event that writes it,
  and that a placeholder stands only where a published relation names the node.
  Neither half needs that nothing is under way, so the property does not ask
  it: a handler that lost its message to another still writes one of the
  stream's values.

**LexicalIndexProofs**, for any number of processes

* `TypeCorrect`, `NothingIsInvented`: whoever shares the sidecar, what is built
  is of one derivation and holds only events of its about up to the sidecar's
  position. This is what remains of `BuiltIsCurrent` when two processes run one
  derivation: the race of finding 3 loses events and never shows others. `IInv`
  adds that a tail past the end of the log is of a replaced one (`TailInv`), that
  what was verified stays so (`VerifiedInv`), and that a pass which does not reset
  follows this log from a place of its own derivation (`SeenInv`).
* `Current`, assuming `OneWriterEach`: no two processes run one derivation.
  `BuiltIsCurrent` needs besides that what a pass found of the abouts is
  still true while the sidecar stands at the place it read (`FoundInv`). The
  assumption is what makes it hold: whoever else moves rows moves the
  place. `IInv` states these parts under the assumption, so that one proof
  serves both.
* `Whole`, under the same assumption: from `ReadInv`, the same for what an ask
  has read.

**MemoryIngestProofs**, for any processes, abouts, entries, labels and cache

* `ReviewedIsAlwaysCurrent`: a reviewed write commits on the neighborhood its
  token was taken of. The reads it was taken from are several, in other steps,
  and only revisions are compared at the commit. `IInv` (theorem `Invariant`)
  says that what a call saw of an about it had sampled is what the about holds while it
  stands at that revision, and that the token it carries is that of the
  command and what was seen. So equal revisions mean equal neighborhoods.
* `GuardIsShared`: nobody of the process reads under the guard while another
  writes, and a call that waits for the guard holds none of it, which is why the
  read guard is dropped before the write guard is asked for.

**MemoryNumberingProofs**, on top of these

* `Numbering`: the inductive invariant `NumberInv`. Beyond well-formed slices
  and plans it says three things. A compared call has planned, for every edge it
  was left to number, a sequence past what it saw (`PastSeen`). Under the
  unplaced labels a pointed call's frontiers, kept or read, are the store's
  while the about stands where it was sampled, and what the call will remember
  is where its plan ends (`Tracked`). A kept frontier is never of a revision
  ahead of the about, and at the about's revision it is the store's, again under
  the unplaced labels (`CachesOK`). The second is what makes the
  third inductive: the code computes the remembered frontiers apart from the
  sequences it wrote, from the cache's answers instead of the slice it read, and
  `TopsAgree` shows that the two computations end alike on every loaded label.
  What they disagree on is what a relation of the same write placed; section 4
  shows that the hypothesis cannot go.
* `FrontierIsAlwaysExact`, `ConsistentIsAlwaysFresh`, `TypesHold`: from it, with
  the invariants of `MemoryIngestProofs`. Freshness of a compared write needs
  both halves: what it saw is what the about holds when it commits
  (`ReviewedIsAlwaysCurrent`'s argument), and it numbered past what it saw.
* `UncontendedIsFresh`: a pointed write compares nothing, and two that overlap
  may take one sequence. One whose about still stands where it was sampled
  does not: under unplaced labels its sequences are past the store's.
* `CacheIsBounded`: a process keeps at most `CacheLimit` frontiers, or those of
  the one write that had more labels to number than the limit.

A frontier is a maximum, which exists because no label has sequences without
end (`Bounded`): no step of the model makes that false, and `FiniteIsBounded`
starts it from `StoredAssumption`. Sequences are given one after another, so
the lemmas about `Tops` go by induction on the coordinates. The library's
induction theorems take an operator and no installed prover can instantiate
them, so it is done by hand: `Least` gives a nonempty set of naturals its least
element (from the well-foundedness of `<`, stated over sets), `NatSetInduction`
follows, and each lemma applies it to the set of the numbers its claim holds
of. `TopsUnfold` shows in this way that the recursive function exists and
satisfies its equation, which TLA+ does not give for free.

Only model-checked: liveness (`CallsAreAnswered`, `NewsArrives`,
`EventsAreSettled`), since the prover handles neither fairness nor `ENABLED`. Every other
property of a passing run is stated by a theorem. Of the three
that the `violation` runs refute, two are theorems under an assumption
(`OneProcessAcceptsOnce`, `Current`). No module uses a recursive operator.

## 6. Not modelled, and limits

* Formats: bundle encoding and digests, protobuf and JSON mapping, SQL, Lua and
  Cypher text. They are taken to do what their callers rely on.
* Equal-length rewrites within one tick of the file clock leave a stamp
  unchanged; the model moves it always.
* A rewrite by git between `Recheck` and `Replace` is overwritten. The model
  allows it when outsiders do not wait; `NothingIsOverwritten` is of those that
  do.
* The SQLite engine's isolation, Valkey's scripts and JetStream's expected
  sequence are atomic as documented.
* Of an ingest: texts, evidence, receipts, clocks and the label policy, which
  decide what a request says and not what it meets; sequence numbers have no
  width (the code refuses at the end of `u32`). A `contains_entry` relation
  without a coordinate repeats that of the entry and changes nothing. One whose
  coordinate names another label than the one it starts from puts an edge no
  frontier counts, which is sequence 0 here; one that ends in a label, not an
  entry, is left out.
* Status updates and removals of the graph, which no materialization event asks.
* What a row of the lexical index holds, and the ranking over it.
* The components marked as not modelled in section 1: pure reads (recall, the
  temporal walk, rendering and ranking are the largest part of the source),
  translation and tooling by nature; the others are in the plan.

## 7. Plan

Done, in this order: the command path (what everything else trusts), the shared
view, the commit-native bundle, ingest and relabel, the projection runtime, the
lexical index. Next:

1. `StoreLease`: a claim counted in the registry is backed by the record lock,
   and releasing one does not drop another's.
2. `RevisionCaches`: an entry is served only at the revision it was built from.
3. Consolidated views: the head with receipts as a compare-and-set register.
4. Of the reads, reference definitions of the temporal walk and the merge of
   bundles, checked over bounded inputs.
