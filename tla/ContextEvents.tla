--------------------------- MODULE ContextEvents ---------------------------
(***************************************************************************)
(* The kernel's write path: UpdateContextUseCase behind the local write    *)
(* lock of CommandApplicationService, over one of the three event stores.  *)
(*                                                                         *)
(* A task is one call in flight (a gRPC handler, an MCP tool call); its    *)
(* host is the kernel process it runs in.  The lock orders the tasks of    *)
(* one process only, and every await of the use case is a step, so calls   *)
(* of different processes interleave between any two of them.              *)
(*                                                                         *)
(*   embedded   SQLite: event, aggregate head, idempotency outcome and     *)
(*              projection commit in one transaction                       *)
(*   valkey     a Lua compare-and-set for event and head; the outcome and  *)
(*              the projection are later, separate requests                *)
(*   nats       as valkey, but the append reads the subject first and      *)
(*              publishes against what it read, and a failure to record    *)
(*              the outcome is only logged                                 *)
(*                                                                         *)
(* A definition whose name ends in "_" and a word is a faulty variant of   *)
(* the definition after it, a slip the properties must notice.  No         *)
(* specification uses one.                                                 *)
(***************************************************************************)
EXTENDS Naturals, Sequences

CONSTANTS
    Tasks, Kernels,
    Host,             \* the kernel process each task runs in
    Abouts,           \* aggregates: an about in the role "memory"
    Keys,             \* idempotency keys
    Digests,          \* digests of logical commands
    Hashes,           \* hashes of translated changes
    Commands,         \* the calls clients may make
    Store,            \* "embedded", "valkey" or "nats"
    MayAbandon,       \* a caller may go away while a write is in flight
    MaxAttempts,      \* bound on the calls made in one behaviour
    None              \* an absent option

Stores == {"embedded", "valkey", "nats"}

Command ==
    [about : Abouts, key : Keys \cup {None}, digest : Digests \cup {None},
     hash : Hashes, expected : Nat \cup {None},
     expectedHash : Hashes \cup {None}, sampled : SUBSET Abouts]

\* What an idempotency key is recorded with.
Outcome == [rev : Nat, hash : Hashes, digest : Digests \cup {None}]

ASSUME HostAssumption == Host \in [Tasks -> Kernels]
ASSUME CommandAssumption == Commands \subseteq Command /\ Commands # {}
ASSUME StoreAssumption == Store \in Stores /\ MayAbandon \in BOOLEAN
ASSUME BoundAssumption == MaxAttempts \in Nat
ASSUME NoneAssumption ==
    None \notin Nat \cup Keys \cup Digests \cup Hashes \cup Tasks \cup Outcome

\* A digest is taken over the about and the words of the logical command, so
\* it never names commands about two different things.
ASSUME DigestAssumption ==
    \A c, d \in Commands :
        c.digest # None /\ c.digest = d.digest => c.about = d.about

VARIABLES
    log,        \* the append-only event log, in commit order
    head,       \* per aggregate: revision and content hash of its last event
    outcomes,   \* per idempotency key: the outcome recorded for it
    applied,    \* per aggregate: revisions projected, in the order applied
    lock,       \* per kernel: the task holding the write lock
    pc, cmd,    \* per task: where the call stands, and the call
    reads,      \* per task: the revision each about was read at, if it was
    todo,       \* per task: read abouts whose revision is still to recheck
    cur,        \* per task: the revision loaded for the append
    reply,      \* per task: what the last call was answered
    attempt,    \* per task: the number of that call (a history variable)
    inflight,   \* requests whose caller is gone but which may still land
    attempts    \* calls made so far

stores == <<log, head, outcomes, applied>>
calls  == <<pc, cmd, reads, todo, cur, reply, attempt>>
vars   == <<stores, lock, calls, inflight, attempts>>

Atomic_Split == FALSE
Atomic == Store = "embedded"

NoHead == [rev |-> 0, hash |-> None]
NoReads == [a \in Abouts |-> None]
Reply(kind, rev) == [kind |-> kind, rev |-> rev]
NoReply == Reply("none", 0)

\* A write the store has been asked for: the command, what was read before
\* it, the revision it was decided at, and the step it is asked to perform.
Job(t) == [cmd |-> cmd[t], reads |-> reads[t], cur |-> cur[t],
           attempt |-> attempt[t], step |-> pc[t]]

EventOf(j) == [rev |-> j.cur + 1, cmd |-> j.cmd, reads |-> j.reads,
               attempt |-> j.attempt]

OutcomeOf_Previous(j) == [rev |-> j.cur, hash |-> j.cmd.hash,
                          digest |-> j.cmd.digest]

OutcomeOf(j) == [rev |-> j.cur + 1, hash |-> j.cmd.hash,
                 digest |-> j.cmd.digest]

Init ==
    /\ log = <<>>
    /\ head = [a \in Abouts |-> NoHead]
    /\ outcomes = [k \in Keys |-> None]
    /\ applied = [a \in Abouts |-> <<>>]
    /\ lock = [k \in Kernels |-> None]
    /\ pc = [t \in Tasks |-> "idle"]
    /\ cmd = [t \in Tasks |-> CHOOSE c \in Commands : TRUE]
    /\ reads = [t \in Tasks |-> NoReads]
    /\ todo = [t \in Tasks |-> {}]
    /\ cur = [t \in Tasks |-> 0]
    /\ reply = [t \in Tasks |-> NoReply]
    /\ attempt = [t \in Tasks |-> 0]
    /\ inflight = {}
    /\ attempts = 0

-----------------------------------------------------------------------------
(* The call and the local lock. *)

Answer_Locked(t, r) ==
    /\ reply' = [reply EXCEPT ![t] = r]
    /\ pc' = [pc EXCEPT ![t] = "idle"]
    /\ lock' = IF r.kind = "refused" THEN lock
               ELSE [lock EXCEPT ![Host[t]] = None]
    /\ UNCHANGED <<cmd, reads, todo, cur, attempt, attempts>>

\* The call is answered and its write guard dropped.
Answer(t, r) ==
    /\ reply' = [reply EXCEPT ![t] = r]
    /\ pc' = [pc EXCEPT ![t] = "idle"]
    /\ lock' = [lock EXCEPT ![Host[t]] = None]
    /\ UNCHANGED <<cmd, reads, todo, cur, attempt, attempts>>

Goto(t, step) ==
    /\ pc' = [pc EXCEPT ![t] = step]
    /\ UNCHANGED <<cmd, reads, todo, cur, reply, attempt, lock, attempts>>

Conflict(t) == Answer(t, Reply("retry", 0))

\* A call arrives with the revisions r its caller read.
Begin(t, c, r) ==
    /\ pc[t] = "idle"
    /\ attempts < MaxAttempts
    /\ attempts' = attempts + 1
    /\ attempt' = [attempt EXCEPT ![t] = attempts + 1]
    /\ pc' = [pc EXCEPT ![t] = "wait"]
    /\ cmd' = [cmd EXCEPT ![t] = c]
    /\ reads' = [reads EXCEPT ![t] = r]
    /\ todo' = [todo EXCEPT ![t] = {}]
    /\ cur' = [cur EXCEPT ![t] = 0]
    /\ reply' = [reply EXCEPT ![t] = NoReply]
    /\ UNCHANGED <<stores, lock, inflight>>

SampledNow(c) ==
    [a \in Abouts |-> IF a \in c.sampled THEN head[a].rev ELSE None]

Call(t) == \E c \in Commands : Begin(t, c, SampledNow(c))

Acquire_Unlocked(t) ==
    /\ pc[t] = "wait"
    /\ pc' = [pc EXCEPT ![t] = "precheck"]
    /\ UNCHANGED <<stores, cmd, reads, todo, cur, reply, attempt, lock,
                   inflight, attempts>>

Acquire(t) ==
    /\ pc[t] = "wait"
    /\ lock[Host[t]] = None
    /\ lock' = [lock EXCEPT ![Host[t]] = t]
    /\ pc' = [pc EXCEPT ![t] = "precheck"]
    /\ UNCHANGED <<stores, cmd, reads, todo, cur, reply, attempt, inflight,
                   attempts>>

-----------------------------------------------------------------------------
(* update_context_after_read: a stale view applies nothing, unless the key *)
(* was accepted before, when the recorded outcome takes precedence.        *)

KeyIsAccepted(t) == cmd[t].key # None /\ outcomes[cmd[t].key] # None

Precheck(t) ==
    /\ pc[t] = "precheck"
    /\ pc' = [pc EXCEPT ![t] = "check"]
    /\ todo' = [todo EXCEPT ![t] =
                    IF KeyIsAccepted(t) THEN {}
                    ELSE {a \in Abouts : reads[t][a] # None}]
    /\ UNCHANGED <<stores, cmd, reads, cur, reply, attempt, lock, inflight,
                   attempts>>

Recheck(t, a) ==
    /\ pc[t] = "check"
    /\ a \in todo[t]
    /\ IF head[a].rev = reads[t][a]
         THEN /\ todo' = [todo EXCEPT ![t] = @ \ {a}]
              /\ UNCHANGED <<pc, cmd, reads, cur, reply, attempt, lock,
                             attempts>>
         ELSE Conflict(t)
    /\ UNCHANGED <<stores, inflight>>

-----------------------------------------------------------------------------
(* execute_after_read *)

SameLogicalCommand(c, o) ==
    IF c.digest # None /\ o.digest # None
      THEN c.digest = o.digest
      ELSE c.hash = o.hash

CheckKey(t) ==
    /\ pc[t] = "check"
    /\ todo[t] = {}
    /\ IF KeyIsAccepted(t)
         THEN LET o == outcomes[cmd[t].key] IN
              IF SameLogicalCommand(cmd[t], o)
                THEN Answer(t, Reply("replayed", o.rev))
                ELSE Answer(t, Reply("refused", 0))
         ELSE Goto(t, "revision")
    /\ UNCHANGED <<stores, inflight>>

LoadRevision(t) ==
    LET c == cmd[t] IN
    /\ pc[t] = "revision"
    /\ IF c.expected \in {None, head[c.about].rev}
         THEN /\ cur' = [cur EXCEPT ![t] = head[c.about].rev]
              /\ pc' = [pc EXCEPT ![t] =
                           IF c.expectedHash = None THEN "append" ELSE "hash"]
              /\ UNCHANGED <<cmd, reads, todo, reply, attempt, lock, attempts>>
         ELSE Conflict(t)
    /\ UNCHANGED <<stores, inflight>>

LoadHash_Unchecked(t) ==
    /\ pc[t] = "hash"
    /\ Goto(t, "append")
    /\ UNCHANGED <<stores, inflight>>

LoadHash(t) ==
    /\ pc[t] = "hash"
    /\ IF head[cmd[t].about].hash \in {None, cmd[t].expectedHash}
         THEN Goto(t, "append")
         ELSE Conflict(t)
    /\ UNCHANGED <<stores, inflight>>

-----------------------------------------------------------------------------
(* The stores.  What each makes of the same append. *)

RevisionsHold_NoCas(j) ==
    Atomic => \A a \in Abouts \ {j.cmd.about} :
                 j.reads[a] \in {None, head[a].rev}

RevisionsHold_HeadOnly(j) == head[j.cmd.about].rev = j.cur

\* The compare-and-set every backend takes on the aggregate's revision; the
\* SQLite transaction compares the revisions of every read about as well.
RevisionsHold(j) ==
    /\ head[j.cmd.about].rev = j.cur
    /\ Atomic => \A a \in Abouts : j.reads[a] \in {None, head[a].rev}

CommitEvent_Digest(j) ==
    /\ log' = Append(log, EventOf(j))
    /\ head' = [head EXCEPT ![j.cmd.about] =
                    [rev |-> j.cur + 1, hash |-> j.cmd.digest]]

CommitEvent_StaleHead(j) ==
    /\ log' = Append(log, EventOf(j))
    /\ head' = [head EXCEPT ![j.cmd.about].hash = j.cmd.hash]

CommitEvent(j) ==
    /\ log' = Append(log, EventOf(j))
    /\ head' = [head EXCEPT ![j.cmd.about] =
                    [rev |-> j.cur + 1, hash |-> j.cmd.hash]]

RecordOutcome(j) ==
    outcomes' = IF j.cmd.key = None THEN outcomes
                ELSE [outcomes EXCEPT ![j.cmd.key] = OutcomeOf(j)]

Apply(j) ==
    applied' = [applied EXCEPT ![j.cmd.about] = Append(@, j.cur + 1)]

Commit_Unprojected(j) ==
    /\ CommitEvent(j)
    /\ RecordOutcome(j)
    /\ UNCHANGED applied

Commit_Unrecorded(j) ==
    /\ CommitEvent(j)
    /\ Apply(j)
    /\ UNCHANGED outcomes

\* What committing j changes: everything at once in SQLite, the event and
\* the head alone in the others.
Commit(j) ==
    /\ CommitEvent(j)
    /\ IF Atomic THEN RecordOutcome(j) /\ Apply(j)
                 ELSE UNCHANGED <<outcomes, applied>>

\* NATS reads the last message of the subject before it publishes.
ReadLast(t) ==
    /\ Store = "nats"
    /\ pc[t] = "append"
    /\ IF head[cmd[t].about].rev = cur[t] THEN Goto(t, "publish")
                                         ELSE Conflict(t)
    /\ UNCHANGED <<stores, inflight>>

AppendStep == IF Store = "nats" THEN "publish" ELSE "append"

AppendEvent_NoRollback(t) ==
    /\ pc[t] = AppendStep
    /\ Commit(Job(t))
    /\ IF RevisionsHold(Job(t))
         THEN IF Atomic
               THEN Answer(t, Reply("accepted", cur[t] + 1))
               ELSE Goto(t, IF cmd[t].key = None THEN "project" ELSE "record")
         ELSE Conflict(t)
    /\ UNCHANGED inflight

AppendEvent(t) ==
    /\ pc[t] = AppendStep
    /\ IF RevisionsHold(Job(t))
         THEN /\ Commit(Job(t))
              /\ IF Atomic
                   THEN Answer(t, Reply("accepted", cur[t] + 1))
                   ELSE Goto(t, IF cmd[t].key = None THEN "project"
                                                     ELSE "record")
         ELSE Conflict(t) /\ UNCHANGED stores
    /\ UNCHANGED inflight

Record(t) ==
    /\ pc[t] = "record"
    /\ RecordOutcome(Job(t))
    /\ Goto(t, "project")
    /\ UNCHANGED <<log, head, applied, inflight>>

\* NATS logs a failed publish of the outcome and goes on.
LoseOutcome(t) ==
    /\ Store = "nats"
    /\ pc[t] = "record"
    /\ Goto(t, "project")
    /\ UNCHANGED <<stores, inflight>>

Project(t) ==
    /\ pc[t] = "project"
    /\ Apply(Job(t))
    /\ Answer(t, Reply("accepted", cur[t] + 1))
    /\ UNCHANGED <<log, head, outcomes, inflight>>

-----------------------------------------------------------------------------
(* Failures.  The store refuses a request, the worker fails, the process   *)
(* dies: the call ends in an error and its guard is gone.  A caller that   *)
(* goes away drops the future the same way, but a request already handed   *)
(* on (spawn_blocking, a frame on the wire) is not recalled.               *)

Fail(t) ==
    /\ pc[t] \notin {"idle", "wait"}
    /\ Answer(t, Reply("error", 0))
    /\ UNCHANGED <<stores, inflight>>

WriteSteps == {AppendStep, "record", "project"}

Leave(t) ==
    /\ MayAbandon
    /\ pc[t] \in WriteSteps
    /\ inflight' = inflight \cup {Job(t)}
    /\ Answer(t, Reply("error", 0))
    /\ UNCHANGED stores

Land(j) ==
    /\ inflight' = inflight \ {j}
    /\ \/ /\ j.step = AppendStep
          /\ IF RevisionsHold(j) THEN Commit(j) ELSE UNCHANGED stores
       \/ /\ j.step = "record"
          /\ RecordOutcome(j)
          /\ UNCHANGED <<log, head, applied>>
       \/ /\ j.step = "project"
          /\ Apply(j)
          /\ UNCHANGED <<log, head, outcomes>>
    /\ UNCHANGED <<lock, calls, attempts>>

-----------------------------------------------------------------------------
\* One step of the call task t is making.
Work(t) ==
    \/ Precheck(t)
    \/ \E a \in Abouts : Recheck(t, a)
    \/ CheckKey(t)
    \/ LoadRevision(t)
    \/ LoadHash(t)
    \/ ReadLast(t)
    \/ AppendEvent(t)
    \/ Record(t)
    \/ LoseOutcome(t)
    \/ Project(t)

\* No further call is made and none is in progress.
Quiet ==
    /\ attempts = MaxAttempts
    /\ inflight = {}
    /\ \A t \in Tasks : pc[t] = "idle"
    /\ UNCHANGED vars

Next ==
    \/ \E t \in Tasks : Call(t) \/ Acquire(t) \/ Work(t) \/ Fail(t) \/ Leave(t)
    \/ \E j \in inflight : Land(j)
    \/ Quiet

Spec == Init /\ [][Next]_vars

\* A call that runs is scheduled again, and tokio's RwLock queues its
\* waiters in order, so a task is not passed over for ever.  Nobody is
\* obliged to call, to fail or to leave.
Fairness ==
    \A t \in Tasks : WF_vars(Work(t)) /\ SF_vars(Acquire(t))

FairSpec == Spec /\ Fairness

-----------------------------------------------------------------------------
(* Properties *)

Steps == {"idle", "wait", "precheck", "check", "revision", "hash", "append",
          "publish", "record", "project"}

Replies ==
    [kind : {"none", "accepted", "replayed", "refused", "retry", "error"},
     rev : Nat]

ReadSet == [Abouts -> Nat \cup {None}]

Event == [rev : Nat, cmd : Command, reads : ReadSet, attempt : Nat]

JobType == [cmd : Command, reads : ReadSet, cur : Nat, attempt : Nat,
            step : Steps]

\* The type of every variable: tables of events, heads and outcomes, and the
\* locals of the calls in progress.
TypeOK ==
    /\ log \in Seq(Event)
    /\ head \in [Abouts -> [rev : Nat, hash : Hashes \cup {None}]]
    /\ outcomes \in [Keys -> Outcome \cup {None}]
    /\ applied \in [Abouts -> Seq(Nat)]
    /\ lock \in [Kernels -> Tasks \cup {None}]
    /\ pc \in [Tasks -> Steps]
    /\ cmd \in [Tasks -> Command]
    /\ reads \in [Tasks -> ReadSet]
    /\ todo \in [Tasks -> SUBSET Abouts]
    /\ cur \in [Tasks -> Nat]
    /\ reply \in [Tasks -> Replies]
    /\ attempt \in [Tasks -> Nat]
    /\ inflight \subseteq JobType
    /\ attempts \in Nat

\* Optimistic concurrency loses no update: the events of an about carry the
\* revisions 1..head, each once and in commit order, although any number of
\* processes load a revision and append against it later.
RevisionsContiguous ==
    /\ \A i \in 1..Len(log) :
          log[i].rev \in 1..head[log[i].cmd.about].rev
    /\ \A a \in Abouts : \A r \in 1..head[a].rev :
          \E i \in 1..Len(log) : log[i].cmd.about = a /\ log[i].rev = r
    /\ \A i, j \in 1..Len(log) :
          i < j /\ log[i].cmd.about = log[j].cmd.about
            => log[i].rev < log[j].rev

\* The preconditions of a call hold where its event stands in the log, not
\* only where they were compared: the event directly before it in its about
\* has the revision and the content hash the caller named.
PreconditionsHeld ==
    \A i \in 1..Len(log) :
        LET e == log[i] IN
        /\ e.cmd.expected \in {None, e.rev - 1}
        /\ e.cmd.expectedHash # None /\ e.rev > 1 =>
              \E j \in 1..(i - 1) :
                 /\ log[j].cmd.about = e.cmd.about
                 /\ log[j].rev = e.rev - 1
                 /\ log[j].cmd.hash = e.cmd.expectedHash

\* append_projected commits a call only on the view it was decided on: every
\* about whose revision the caller sampled still stands there when the event
\* lands, whatever other processes committed meanwhile.
ReadsWereCurrent ==
    \A i \in 1..Len(log), a \in Abouts :
        LET r == log[i].reads[a] IN
        r # None =>
            /\ \A j \in 1..(i - 1) : log[j].cmd.about = a => log[j].rev <= r
            /\ r # 0 => \E j \in 1..(i - 1) :
                          log[j].cmd.about = a /\ log[j].rev = r

\* What a caller is told is in the log: an accepted call names the event it
\* committed, a replayed one an event of its key and its logical command.
RepliesAreTrue ==
    \A t \in Tasks :
        /\ reply[t].kind = "accepted" =>
              \E i \in 1..Len(log) :
                 /\ log[i].attempt = attempt[t]
                 /\ log[i].cmd = cmd[t]
                 /\ log[i].rev = reply[t].rev
        /\ reply[t].kind = "replayed" =>
              \E i \in 1..Len(log) :
                 /\ log[i].cmd.key = cmd[t].key
                 /\ SameLogicalCommand(cmd[t], log[i].cmd)
                 /\ log[i].rev = reply[t].rev

\* "No part of this event was committed": a call answered with a retryable
\* conflict, a refusal or a replay put nothing in the log and left nothing
\* on its way there.
RefusedCommittedNothing ==
    \A t \in Tasks :
        reply[t].kind \in {"retry", "refused", "replayed"} =>
            /\ \A i \in 1..Len(log) : log[i].attempt # attempt[t]
            /\ \A j \in inflight : j.attempt # attempt[t]

\* read_after_write_ready: a recall issued after the answer would see the
\* record, so its revision has been projected, for a replay too.
ReadyMeansProjected ==
    \A t \in Tasks :
        reply[t].kind \in {"accepted", "replayed"} =>
            \E i \in 1..Len(applied[cmd[t].about]) :
                applied[cmd[t].about][i] = reply[t].rev

\* Over any store, whoever crashed, left or was overtaken between its append
\* and its projection, a revision is projected at most once, and only when its
\* event is in the log; the order is promised by a shared transaction alone.
ProjectedOnce ==
    \A a \in Abouts : \A i, j \in 1..Len(applied[a]) :
        /\ applied[a][i] \in 1..head[a].rev
        /\ i # j => applied[a][i] # applied[a][j]

\* Where event and projection share a transaction, the projection is at every
\* moment the fold of the whole log, in order.
ProjectionIsLog ==
    \A a \in Abouts : applied[a] = [r \in 1..head[a].rev |-> r]

\* An idempotency key commits at most one event.
AcceptedOnce ==
    \A i, j \in 1..Len(log) :
        i # j /\ log[i].cmd.key # None => log[i].cmd.key # log[j].cmd.key

\* Every call is answered: the write lock is given back on every path.
CallsAreAnswered ==
    \A t \in Tasks : pc[t] = "wait" ~> pc[t] = "idle"

Entry(e) == [about |-> e.cmd.about, rev |-> e.rev, key |-> e.cmd.key]

History == [i \in 1..Len(log) |-> Entry(log[i])]

Revisions == [a \in Abouts |-> head[a].rev]

Promised == INSTANCE ContextLog
            WITH NoKey <- None, Deduplicated <- FALSE,
                 history <- History, revision <- Revisions

PromisedOnce == INSTANCE ContextLog
                WITH NoKey <- None, Deduplicated <- TRUE,
                     history <- History, revision <- Revisions

\* Over any store and any number of processes the write path implements the
\* append-only log with one revision sequence per about.
ImplementsLog == Promised!Spec

\* Within one process whose callers wait for their answer, it implements the
\* log in which a key commits at most once, with any retry after any error.
ImplementsOnceLog == PromisedOnce!Spec
=============================================================================
