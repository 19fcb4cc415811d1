---------------------------- MODULE LexicalIndex ----------------------------
(***************************************************************************)
(* The lexical index: a SQLite sidecar beside the embedded store, derived  *)
(* from the store's event log and shared by every process that serves it.  *)
(* A process follows the log after each write and before each ask.  It     *)
(* reads where the sidecar stands, takes a snapshot of the store, decides  *)
(* what the events after that place touched, and commits the whole pass if *)
(* the sidecar still stands there; a pass that lost the race runs once     *)
(* more.  An ask is then answered from the postings if the store has not   *)
(* moved since, and from the whole about otherwise.  A process serves one  *)
(* call at a time.                                                         *)
(***************************************************************************)
EXTENDS Naturals, Sequences, FiniteSets

CONSTANTS
    Procs,          \* processes with the index on
    Abouts,         \* the abouts of the store
    Versions,       \* the derivations, INDEX_VERSION
    VersionOf,      \* process -> the derivation it was built with
    None,           \* no about, no event, no version
    MinEntries,     \* an about with fewer entries is not built
    MaxEvents,      \* bound on the length of the log
    MaxReplaced,    \* bound on how often the store is replaced
    MaxForgets      \* bound on comparisons that find a difference

ASSUME LexicalAssumption ==
    /\ VersionOf \in [Procs -> Versions]
    /\ None \notin Abouts /\ None \notin Versions
    /\ None \notin [at : Nat, about : Abouts, era : Nat]
    /\ MinEntries \in Nat /\ MaxEvents \in Nat
    /\ MaxReplaced \in Nat /\ MaxForgets \in Nat

VARIABLES
    log,        \* the store's events: [at, about, era]
    meta,       \* where the sidecar stands: [version, position, tail]
    rows,       \* about -> the derivations and the events its rows come from
    task,       \* process -> the call it serves, see Idle
    verified,   \* process -> the place it last found log and sidecar agreeing on
    replaced,   \* replacements of the store so far
    forgets     \* abouts forgotten so far

vars == <<log, meta, rows, task, verified, replaced, forgets>>

NotBuilt == [by |-> {}, events |-> {}]
Built(a) == rows[a] # NotBuilt
Fresh == [version |-> None, position |-> 0, tail |-> None]

\* The tail witness of an event is its about, revision and content hash; an
\* event of another era never carries the same.
TailAt(n) == IF n \in DOMAIN log THEN log[n] ELSE None
EventsOf(a, n) == {e \in {log[i] : i \in DOMAIN log} : e.about = a /\ e.at <= n}

\* retried, seen, last, reset, build, below: one pass of catch_up.  at, found
\* and rebuild: what touched and refresh saw.  plan: what an ask read.
Idle == [pc |-> "idle", about |-> None, retried |-> FALSE, seen |-> Fresh,
         last |-> 0, reset |-> FALSE, build |-> FALSE, below |-> FALSE,
         at |-> 0, found |-> [a \in Abouts |-> "unread"], rebuild |-> {},
         plan |-> [stats |-> NotBuilt, postings |-> NotBuilt]]

Init ==
    /\ log = <<>>
    /\ meta = Fresh
    /\ rows = [a \in Abouts |-> NotBuilt]
    /\ task = [p \in Procs |-> Idle]
    /\ verified = [p \in Procs |-> <<0, None>>]
    /\ replaced = 0
    /\ forgets = 0

-----------------------------------------------------------------------------
(* The store: its log only grows, until somebody swaps its directory.      *)

NextEvent(a) == [at |-> Len(log) + 1, about |-> a, era |-> replaced]

Grow(a) ==
    /\ Len(log) < MaxEvents
    /\ log' = Append(log, NextEvent(a))

\* A process with the index off writes.
Foreign(a) == Grow(a) /\ UNCHANGED <<meta, rows, task, verified, replaced, forgets>>

\* The store directory is put back to an older copy with every process
\* stopped; the sidecar lies outside of it and stays.
Replace(n) ==
    /\ replaced < MaxReplaced
    /\ \A p \in Procs : task[p] = Idle
    /\ n \in 0 .. Len(log)
    /\ log' = SubSeq(log, 1, n)
    /\ verified' = [p \in Procs |-> <<0, None>>]
    /\ replaced' = replaced + 1
    /\ UNCHANGED <<meta, rows, task, forgets>>

\* A shadow or verify process finds that the index differs and forgets the
\* about; the sidecar stands where it stood.
Forget(a) ==
    /\ forgets < MaxForgets
    /\ Built(a)
    /\ rows' = [rows EXCEPT ![a] = NotBuilt]
    /\ forgets' = forgets + 1
    /\ UNCHANGED <<log, meta, task, verified, replaced>>

-----------------------------------------------------------------------------
(* LexicalSidecar::catch_up: one follow, and one more if it lost the race. *)

At(p, pc) == task[p].pc = pc
Set(p, t) == task' = [task EXCEPT ![p] = t]
Mine(p) == VersionOf[p]
Start(a, again) == [Idle EXCEPT !.pc = "meta", !.about = a, !.retried = again]
\* Where the log is followed from.
From(t) == IF t.reset THEN 0 ELSE t.seen.position
Remember(p, n) == verified' = [verified EXCEPT ![p] = <<n, TailAt(n)>>]

\* The pass is over.  An ask that has an index to read goes on with it, any
\* other reads the about; a write has its answer already.
Followed(t) ==
    IF t.about = None \/ t.below THEN Idle
    ELSE [Idle EXCEPT !.pc = "plan", !.about = t.about, !.last = t.last]

\* A write the log now holds is followed at once.
Write(p, a) ==
    /\ At(p, "idle")
    /\ Grow(a)
    /\ Set(p, Start(None, FALSE))
    /\ UNCHANGED <<meta, rows, verified, replaced, forgets>>

\* An ask follows the log first, and builds its about.
Ask(p, a) ==
    /\ At(p, "idle")
    /\ EventsOf(a, Len(log)) # {}
    /\ Set(p, Start(a, FALSE))
    /\ UNCHANGED <<log, meta, rows, verified, replaced, forgets>>

\* sidecar.meta(): four keys in as many SELECTs, one step.  A commit compares
\* all of them, so a pass that read a mixture loses there.
ReadMeta(p) ==
    /\ At(p, "meta")
    /\ Set(p, [task[p] EXCEPT !.pc = "snapshot", !.seen = meta])
    /\ UNCHANGED <<log, meta, rows, verified, replaced, forgets>>

\* Another log, or this one cut short, does not carry the tail; what was
\* verified before and has not moved is not looked at again.
MustReset(p, seen) ==
    \/ seen.version # Mine(p)
    \/ /\ seen.position > 0
       /\ ~(verified[p] = <<seen.position, seen.tail>> /\ seen.position = Len(log))
       /\ seen.position > Len(log) \/ TailAt(seen.position) # seen.tail

\* The first read of the store takes the snapshot of the whole pass.
Snapshot(p) ==
    /\ At(p, "snapshot")
    /\ Set(p, [task[p] EXCEPT !.pc = "ensure", !.last = Len(log),
                              !.reset = MustReset(p, task[p].seen)])
    /\ UNCHANGED <<log, meta, rows, verified, replaced, forgets>>

\* Whether the about must be built or is too small, and whether anything is
\* to be done at all: a sidecar at the end of the log is not written.
Ensure(p) ==
    /\ At(p, "ensure")
    /\ LET t == task[p]
           wanted == t.about # None /\ (t.reset \/ ~Built(t.about))
           small == wanted /\ Cardinality(EventsOf(t.about, t.last)) < MinEntries
           next == [t EXCEPT !.pc = "holds", !.below = small, !.build = wanted /\ ~small,
                             !.at = From(t)]
       IN IF ~t.reset /\ t.seen.position = t.last /\ ~next.build
          THEN Set(p, Followed(next)) /\ Remember(p, t.last)
          ELSE Set(p, next) /\ UNCHANGED verified
    /\ UNCHANGED <<log, meta, rows, replaced, forgets>>

\* With no about built there is nothing to follow: the position moves.
Holds(p) ==
    /\ At(p, "holds")
    /\ LET follow == ~task[p].reset /\ \E a \in Abouts : Built(a)
       IN Set(p, [task[p] EXCEPT !.pc = IF follow THEN "touch" ELSE "commit"])
    /\ UNCHANGED <<log, meta, rows, verified, replaced, forgets>>

\* touched: the next event; whether its about is built is read the first time.
Touch(p) ==
    /\ At(p, "touch")
    /\ LET t == task[p]
           a == log[t.at + 1].about
           state == IF Built(a) THEN "built" ELSE "absent"
       IN /\ t.at < t.last
          /\ Set(p, [t EXCEPT !.at = @ + 1,
                              !.found[a] = IF @ = "unread" THEN state ELSE @])
    /\ UNCHANGED <<log, meta, rows, verified, replaced, forgets>>

\* The abouts the pass refreshes: the one it builds is not among them.
Refreshed(t) == {a \in Abouts : t.found[a] = "built"} \
                (IF t.build THEN {t.about} ELSE {})

\* refresh: an about whose language moved is read again whole.  One that is
\* no longer built is an error, after which the ask reads the about.
Refresh(p) ==
    /\ At(p, "touch")
    /\ task[p].at = task[p].last
    /\ IF \A a \in Refreshed(task[p]) : Built(a)
       THEN \E moved \in SUBSET Refreshed(task[p]) :
               Set(p, [task[p] EXCEPT !.pc = "commit", !.rebuild = moved])
       ELSE Set(p, Idle)
    /\ UNCHANGED <<log, meta, rows, verified, replaced, forgets>>

\* What the pass leaves of an about: rebuilt from the snapshot, refreshed for
\* the events after the place it was followed from, emptied, or as it was.
Rebuilt(t) == t.rebuild \cup (IF t.build THEN {t.about} ELSE {})
RowsAfter(p, t, a) ==
    CASE a \in Rebuilt(t)   -> [by |-> {Mine(p)}, events |-> EventsOf(a, t.last)]
      [] a \in Refreshed(t) \ Rebuilt(t) ->
            [by |-> rows[a].by \cup {Mine(p)},
             events |-> rows[a].events \cup (EventsOf(a, t.last) \ EventsOf(a, From(t)))]
      [] OTHER -> IF t.reset THEN NotBuilt ELSE rows[a]

\* A commit that takes the sidecar as it finds it.
Stands_Always(p) == TRUE

Stands(p) == meta = task[p].seen

\* A place nothing witnesses.
PlaceAt_Unwitnessed(p, n) == [version |-> Mine(p), position |-> n, tail |-> None]

\* The place a pass that read the store at n leaves the sidecar at.
PlaceAt(p, n) == [version |-> Mine(p), position |-> n, tail |-> TailAt(n)]

\* sidecar.commit: one transaction, if the sidecar stands where it was read.
Commit(p) ==
    /\ At(p, "commit")
    /\ Stands(p)
    /\ LET t == task[p]
       IN IF \A a \in Refreshed(t) \ Rebuilt(t) : Built(a)
          THEN /\ rows' = [a \in Abouts |-> RowsAfter(p, t, a)]
               /\ meta' = PlaceAt(p, t.last)
               /\ Remember(p, t.last)
               /\ Set(p, Followed(t))
          ELSE Set(p, Idle) /\ UNCHANGED <<meta, rows, verified>>
    /\ UNCHANGED <<log, replaced, forgets>>

\* The sidecar moved: the pass wrote nothing and is run again, once.
Lose(p) ==
    /\ At(p, "commit")
    /\ ~Stands(p)
    /\ Set(p, IF task[p].retried THEN Idle ELSE Start(task[p].about, TRUE))
    /\ UNCHANGED <<log, meta, rows, verified, replaced, forgets>>

-----------------------------------------------------------------------------
(* indexed_read: the totals and the postings are read apart; the other     *)
(* transactions of an ask on the sidecar are each one step with these.     *)

\* IndexedPlan: the totals.
ReadStats(p) ==
    /\ At(p, "plan")
    /\ Set(p, IF Built(task[p].about)
              THEN [task[p] EXCEPT !.pc = "postings", !.plan.stats = rows[task[p].about]]
              ELSE Idle)
    /\ UNCHANGED <<log, meta, rows, verified, replaced, forgets>>

\* IndexedPlan: the rows the words of the question reach, with the vocabulary,
\* the frequencies and the lifecycles, each a transaction of its own.
ReadPostings(p) ==
    /\ At(p, "postings")
    /\ Set(p, [task[p] EXCEPT !.pc = "parts", !.plan.postings = rows[task[p].about]])
    /\ UNCHANGED <<log, meta, rows, verified, replaced, forgets>>

\* The parts are read wherever the store stands.
ReadParts_Anywhere(p) ==
    /\ At(p, "parts")
    /\ Set(p, [task[p] EXCEPT !.pc = "answered"])
    /\ UNCHANGED <<log, meta, rows, verified, replaced, forgets>>

\* IndexedParts over a snapshot of the store that stands where the ask
\* followed it to; otherwise the ask reads the about.  The nodes and relations
\* it then reads of the sidecar, in transactions of their own, are this step.
ReadParts(p) ==
    /\ At(p, "parts")
    /\ Set(p, IF Len(log) = task[p].last THEN [task[p] EXCEPT !.pc = "answered"] ELSE Idle)
    /\ UNCHANGED <<log, meta, rows, verified, replaced, forgets>>

Reply(p) ==
    /\ At(p, "answered")
    /\ Set(p, Idle)
    /\ UNCHANGED <<log, meta, rows, verified, replaced, forgets>>

\* The process dies and is started again.
Crash(p) ==
    /\ ~At(p, "idle")
    /\ Set(p, Idle)
    /\ verified' = [verified EXCEPT ![p] = <<0, None>>]
    /\ UNCHANGED <<log, meta, rows, replaced, forgets>>

Follow(p) ==
    \/ ReadMeta(p) \/ Snapshot(p) \/ Ensure(p) \/ Holds(p) \/ Touch(p)
    \/ Refresh(p) \/ Commit(p) \/ Lose(p)
Read(p) == ReadStats(p) \/ ReadPostings(p) \/ ReadParts(p) \/ Reply(p)
Call(p) == \E a \in Abouts : Write(p, a) \/ Ask(p, a)

Next ==
    \/ \E p \in Procs : Call(p) \/ Follow(p) \/ Read(p) \/ Crash(p)
    \/ \E a \in Abouts : Foreign(a) \/ Forget(a)
    \/ \E n \in 0 .. MaxEvents : Replace(n)

Spec == Init /\ [][Next]_vars

-----------------------------------------------------------------------------
(* Properties.                                                             *)

EventType == [at : 1 .. MaxEvents, about : Abouts, era : 0 .. MaxReplaced]
RowsType == [by : SUBSET Versions, events : SUBSET EventType]
MetaType == [version : Versions \cup {None}, position : 0 .. MaxEvents,
             tail : EventType \cup {None}]
TaskType ==
    [pc : {"idle", "meta", "snapshot", "ensure", "holds", "touch", "commit", "plan",
           "postings", "parts", "answered"},
     about : Abouts \cup {None}, retried : BOOLEAN, seen : MetaType,
     last : 0 .. MaxEvents, reset : BOOLEAN, build : BOOLEAN, below : BOOLEAN,
     at : 0 .. MaxEvents, found : [Abouts -> {"unread", "built", "absent"}],
     rebuild : SUBSET Abouts, plan : [stats : RowsType, postings : RowsType]]

\* Every variable has its type; the sidecar's position and tail come from one
\* event, and the log's events stand at their own positions.
TypeOK ==
    /\ log \in Seq(EventType)
    /\ Len(log) <= MaxEvents
    /\ \A i \in DOMAIN log : log[i].at = i
    /\ meta \in MetaType
    /\ meta.position = 0 <=> meta.tail = None
    /\ rows \in [Abouts -> RowsType]
    /\ task \in [Procs -> TaskType]
    /\ verified \in [Procs -> (0 .. MaxEvents) \X (EventType \cup {None})]
    /\ replaced \in 0 .. MaxReplaced
    /\ forgets \in 0 .. MaxForgets

\* "Keeps the sidecar at the end of the store's log" (lexical_maintainer.rs:24)
\* and "every write is one transaction that first checks the sidecar still
\* stands where the writer read it" (sqlite_lexical_sidecar.rs:21): while the
\* log carries the sidecar's tail at its position, each built about holds the
\* events of that about up to there, all of them and no others, derived by
\* the derivation the sidecar names.
Carried == meta.position = 0 \/ TailAt(meta.position) = meta.tail
BuiltIsCurrent ==
    Carried => \A a \in Abouts : Built(a) =>
        rows[a] = [by |-> {meta.version}, events |-> EventsOf(a, meta.position)]

\* An answer from an index that stands where the ask left it, and still holds
\* the about, is what reading the whole about gives: its totals and its
\* postings are of the same rows, and these hold every event written before
\* the answer (indexed_read compares the store's position alone).
Answers(p) == At(p, "parts") /\ task'[p].pc = "answered"
AnswerIsWhole ==
    \A p \in Procs : Answers(p) /\ meta = PlaceAt(p, task[p].last) /\ Built(task[p].about) =>
        LET whole == [by |-> {Mine(p)}, events |-> EventsOf(task[p].about, Len(log))]
        IN task[p].plan = [stats |-> whole, postings |-> whole]
AnswersAreWhole == [][AnswerIsWhole]_vars
=============================================================================
