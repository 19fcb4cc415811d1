---------------------------- MODULE CommitBundle ----------------------------
(***************************************************************************)
(* How a project's memory and its committed copy stay one history          *)
(* (kmp-embedded commit_bundle.rs, kmp-mcp commit_native_write_guard.rs).  *)
(* The live store is a gitignored SQLite log; `.kmp/memory.jsonl` is the   *)
(* copy git carries.  A guarded write takes an inter-process lock, refuses *)
(* while a marker is pending, proves that the two agree, leaves a marker,  *)
(* writes, replaces the file, and takes the marker away.                   *)
(*                                                                         *)
(* A history is the set of its authored events: the log is append-only, so *)
(* two streams of one log agree exactly when their sets do, and git brings *)
(* only streams that were published here or have events of their own.      *)
(*                                                                         *)
(* A definition whose name ends in "_" and a word is a faulty variant of   *)
(* the one after it.                                                       *)
(***************************************************************************)
EXTENDS Naturals

CONSTANTS
    Processes, Tasks, Host,   \* the tool calls, and the process each runs in
    Events,                   \* events a call may commit
    Branches,                 \* histories git may bring from elsewhere
    Relabels,                 \* kmp_relabel is called
    OutsidersWait,            \* git and `kmp-mcp export` leave the file alone
                              \* while a guarded write runs
    MaxStamp, MaxOwned,       \* bounds on rewrites and on guide events
    None

ASSUME HostAssumption == Host \in [Tasks -> Processes]
ASSUME NoneAssumption == None \notin Tasks
ASSUME BranchesAssumption == \A b \in Branches : b \subseteq Events
ASSUME FlagsAssumption == {Relabels, OutsidersWait} \subseteq BOOLEAN
ASSUME BoundAssumption == {MaxStamp, MaxOwned} \subseteq Nat

VARIABLES
    log,        \* the store: authored events, and how many the release owns
    file,       \* the committed file: its events, and a stamp that every
                \* rewrite moves (0: there is no file)
    markers,    \* calls whose pending marker is on disk
    lock,       \* the call that holds commit-native-bundle.lock
    memo,       \* per process: the file and log its last publish left
    pc,
    tail,       \* per call: the memo it began on
    live, base, \* per call: the two histories it proved equal
    head,       \* per call: the log it publishes
    orphans,    \* calls that left their kernel write running
    export,     \* the history an export has read and not yet written
    held,       \* every history the file has held
    relabelled, \* events kmp_relabel committed
    proved,     \* per call: whether the two were equal when it checked
    troubled    \* calls that left their marker behind (all four are
                \* history variables)

files == <<log, file, markers, lock>>
locals == <<memo, pc, tail, live, base, head, orphans>>
vars == <<files, locals, export, held, relabelled, proved, troubled>>

NoLog == [authored |-> {}, owned |-> 0]

Init ==
    /\ log = NoLog
    /\ file = [events |-> {}, stamp |-> 0]
    /\ markers = {}
    /\ lock = None
    /\ memo = [p \in Processes |-> None]
    /\ pc = [t \in Tasks |-> "idle"]
    /\ tail = [t \in Tasks |-> None]
    /\ live = [t \in Tasks |-> {}]
    /\ base = [t \in Tasks |-> None]
    /\ head = [t \in Tasks |-> NoLog]
    /\ orphans = {}
    /\ export = None
    /\ held = {}
    /\ relabelled = {}
    /\ proved = [t \in Tasks |-> FALSE]
    /\ troubled = {}

\* Every event the file has held.
Published == UNION held

Content == IF file.stamp = 0 THEN None ELSE file.events

Goto(t, step) == pc' = [pc EXCEPT ![t] = step]

\* The call is over; dropping its lock file frees the lock.
Ends(t) == Goto(t, "idle") /\ lock' = None

Rewrites(events) ==
    /\ file.stamp < MaxStamp
    /\ file' = [events |-> events, stamp |-> file.stamp + 1]
    /\ held' = held \cup {events}

-----------------------------------------------------------------------------
(* begin_write *)

\* The two histories are one, but for what a relabel adds meanwhile.
SameHistory ==
    /\ file.events \subseteq log.authored
    /\ log.authored \subseteq file.events \cup relabelled

Proves(t, holds) == proved' = [proved EXCEPT ![t] = holds]

\* The lock is free and no marker is pending; refused otherwise, which
\* changes nothing.  The memo is taken, whether it holds or not; it can hold
\* only if the file has not moved since.
Begin(t) ==
    LET m == memo[Host[t]]
        unmoved == m # None /\ m.stamp = file.stamp IN
    /\ pc[t] = "idle"
    /\ lock = None
    /\ markers = {}
    /\ lock' = t
    /\ memo' = [memo EXCEPT ![Host[t]] = None]
    /\ tail' = [tail EXCEPT ![t] = m]
    /\ Goto(t, IF unmoved THEN "tail" ELSE "live")
    /\ Proves(t, unmoved /\ file.events = m.log.authored)
    /\ UNCHANGED <<log, file, markers, live, base, head, orphans, export,
                   held, relabelled, troubled>>

\* CommittedTail::holds, its second half: the log ends where it did.
CheckTail(t) ==
    /\ pc[t] = "tail"
    /\ IF tail[t].log = log
         THEN Goto(t, "mark")
         ELSE Goto(t, "live")
    /\ UNCHANGED <<files, memo, tail, live, base, head, orphans, export, held,
                   relabelled, proved, troubled>>

\* prove_same_history reads the log, then the file.
ReadLive(t) ==
    /\ pc[t] = "live"
    /\ live' = [live EXCEPT ![t] = log.authored]
    /\ tail' = [tail EXCEPT ![t] = None]
    /\ Goto(t, "file")
    /\ UNCHANGED <<files, memo, base, head, orphans, export, held, proved,
                   relabelled, troubled>>

ReadFile_Prefix(t) ==
    /\ pc[t] = "file"
    /\ IF file.events \subseteq live[t]
         THEN /\ base' = [base EXCEPT ![t] = Content]
              /\ Goto(t, "mark")
              /\ Proves(t, SameHistory)
              /\ UNCHANGED lock
         ELSE /\ Ends(t)
              /\ UNCHANGED <<base, proved>>
    /\ UNCHANGED <<log, file, markers, memo, tail, live, head, orphans,
                   export, held, relabelled, troubled>>

ReadFile_Behind(t) ==
    /\ pc[t] = "file"
    /\ IF live[t] \subseteq file.events
         THEN /\ base' = [base EXCEPT ![t] = Content]
              /\ Goto(t, "mark")
              /\ Proves(t, SameHistory)
              /\ UNCHANGED lock
         ELSE /\ Ends(t)
              /\ UNCHANGED <<base, proved>>
    /\ UNCHANGED <<log, file, markers, memo, tail, live, head, orphans,
                   export, held, relabelled, troubled>>

\* A prefix is not enough: both must hold the same events.
ReadFile(t) ==
    /\ pc[t] = "file"
    /\ IF file.events = live[t]
         THEN /\ base' = [base EXCEPT ![t] = Content]
              /\ Goto(t, "mark")
              /\ Proves(t, SameHistory)
              /\ UNCHANGED lock
         ELSE /\ Ends(t)
              /\ UNCHANGED <<base, proved>>
    /\ UNCHANGED <<log, file, markers, memo, tail, live, head, orphans,
                   export, held, relabelled, troubled>>

MarkPending_Later(t) ==
    /\ pc[t] = "mark"
    /\ Goto(t, "write")
    /\ UNCHANGED <<files, memo, tail, live, base, head, orphans, export, held,
                   relabelled, proved, troubled>>

MarkPending(t) ==
    /\ pc[t] = "mark"
    /\ markers' = markers \cup {t}
    /\ Goto(t, "write")
    /\ UNCHANGED <<log, file, lock, memo, tail, live, base, head, orphans,
                   export, held, relabelled, proved, troubled>>

-----------------------------------------------------------------------------
(* The kernel's write, as the guard sees it. *)

Appends(e) ==
    /\ e \notin log.authored \cup Published \cup UNION Branches
    /\ log' = [log EXCEPT !.authored = @ \cup {e}]

\* It commits, or it succeeds with nothing to commit (a replay or a preview).
Succeeds(t) ==
    /\ pc[t] = "write"
    /\ \/ \E e \in Events : Appends(e)
       \/ UNCHANGED log
    /\ Goto(t, IF tail[t] = None THEN "head" ELSE "ours")
    /\ UNCHANGED <<file, markers, lock, memo, tail, live, base, head, orphans,
                   export, held, relabelled, proved, troubled>>

\* An argument, a missing ref or a conflict: it committed nothing, and there
\* is nothing to publish.
IsRejected(t) ==
    /\ pc[t] = "write"
    /\ Goto(t, "complete")
    /\ UNCHANGED <<files, memo, tail, live, base, head, orphans, export, held,
                   relabelled, proved, troubled>>

IsAmbiguous_Cleared(t) ==
    /\ pc[t] = "write"
    /\ \/ \E e \in Events : Appends(e)
       \/ UNCHANGED log
    /\ Goto(t, "complete")
    /\ UNCHANGED <<file, markers, lock, memo, tail, live, base, head, orphans,
                   export, held, relabelled, proved, troubled>>

\* Any other error: it may have committed, and the marker stays.
IsAmbiguous(t) ==
    /\ pc[t] = "write"
    /\ \/ \E e \in Events : Appends(e)
       \/ UNCHANGED log
    /\ Ends(t)
    /\ troubled' = troubled \cup {t}
    /\ UNCHANGED <<file, markers, memo, tail, live, base, head, orphans,
                   export, held, relabelled, proved>>

-----------------------------------------------------------------------------
(* publish: from the tail the write began on, or from the whole log. *)

\* The call fails: whatever marker it left stays.
Fails(t) ==
    /\ Ends(t)
    /\ troubled' = IF t \in markers THEN troubled \cup {t} ELSE troubled
    /\ UNCHANGED head

\* publish_from: the file is the one this process wrote, by its stamp or by
\* its bytes.
FileIsOurs(t) ==
    /\ pc[t] = "ours"
    /\ IF \/ file.stamp = tail[t].stamp
          \/ Content = tail[t].log.authored
         THEN Goto(t, "extend") /\ UNCHANGED <<lock, head, troubled>>
         ELSE Fails(t)
    /\ UNCHANGED <<log, file, markers, memo, tail, live, base, orphans,
                   export, held, relabelled, proved>>

Extend(t) ==
    /\ pc[t] = "extend"
    /\ head' = [head EXCEPT ![t] = log]
    /\ Goto(t, "replace")
    /\ UNCHANGED <<files, memo, tail, live, base, orphans, export, held,
                   relabelled, proved, troubled>>

ReadHead(t) ==
    /\ pc[t] = "head"
    /\ head' = [head EXCEPT ![t] = log]
    /\ Goto(t, "recheck")
    /\ UNCHANGED <<files, memo, tail, live, base, orphans, export, held,
                   relabelled, proved, troubled>>

Recheck(t) ==
    /\ pc[t] = "recheck"
    /\ IF Content = base[t]
         THEN Goto(t, "replace") /\ UNCHANGED <<lock, head, troubled>>
         ELSE Fails(t)
    /\ UNCHANGED <<log, file, markers, memo, tail, live, base, orphans,
                   export, held, relabelled, proved>>

Replace(t) ==
    /\ pc[t] = "replace"
    /\ Rewrites(head[t].authored)
    /\ Goto(t, "remember")
    /\ UNCHANGED <<log, markers, lock, memo, tail, live, base, head, orphans,
                   export, relabelled, proved, troubled>>

Remember_Unstamped(t) ==
    /\ pc[t] = "remember"
    /\ memo' = [memo EXCEPT ![Host[t]] = [stamp |-> None, log |-> head[t]]]
    /\ Goto(t, "complete")
    /\ UNCHANGED <<files, tail, live, base, head, orphans, export, held,
                   relabelled, proved, troubled>>

\* CommittedTail::published stamps the file it finds, and remembers nothing
\* when it cannot.
Remember(t) ==
    /\ pc[t] = "remember"
    /\ \E m \in {None, [stamp |-> file.stamp, log |-> head[t]]} :
         memo' = [memo EXCEPT ![Host[t]] = m]
    /\ Goto(t, "complete")
    /\ UNCHANGED <<files, tail, live, base, head, orphans, export, held,
                   relabelled, proved, troubled>>

Complete_UnlockFirst(t) ==
    /\ pc[t] = "complete"
    /\ lock' = None
    /\ Goto(t, "unlock")
    /\ UNCHANGED <<log, file, markers, memo, tail, live, base, head, orphans,
                   export, held, relabelled, proved, troubled>>

\* PendingBundleExport::complete: the marker first, then the lock.
Complete(t) ==
    /\ pc[t] = "complete"
    /\ markers' = markers \ {t}
    /\ Goto(t, "unlock")
    /\ UNCHANGED <<log, file, lock, memo, tail, live, base, head, orphans,
                   export, held, relabelled, proved, troubled>>

Unlock(t) ==
    /\ pc[t] = "unlock"
    /\ Ends(t)
    /\ UNCHANGED <<log, file, markers, memo, tail, live, base, head, orphans,
                   export, held, relabelled, proved, troubled>>

-----------------------------------------------------------------------------
(* Faults *)

\* A read or a write of a file fails, or the caller is gone: the lock is
\* dropped with the call, a marker is not, and a kernel write that has begun
\* goes on.
Abandon(t) ==
    /\ pc[t] # "idle"
    /\ Fails(t)
    /\ orphans' = IF pc[t] = "write" THEN orphans \cup {t} ELSE orphans
    /\ UNCHANGED <<log, file, markers, memo, tail, live, base, export, held,
                   relabelled, proved>>

Land(t) ==
    /\ t \in orphans
    /\ orphans' = orphans \ {t}
    /\ \/ \E e \in Events : Appends(e)
       \/ UNCHANGED log
    /\ UNCHANGED <<file, markers, lock, memo, pc, tail, live, base, head,
                   export, held, relabelled, proved, troubled>>

Crash(p) ==
    LET dead == {t \in Tasks : Host[t] = p} IN
    /\ \E t \in dead : pc[t] # "idle" \/ t \in orphans
    /\ memo' = [memo EXCEPT ![p] = None]
    /\ pc' = [t \in Tasks |-> IF t \in dead THEN "idle" ELSE pc[t]]
    /\ lock' = IF lock \in dead THEN None ELSE lock
    /\ orphans' = orphans \ dead
    /\ troubled' = troubled \cup (markers \cap dead)
    /\ UNCHANGED <<log, file, markers, tail, live, base, head, export, held,
                   relabelled, proved>>

-----------------------------------------------------------------------------
(* Beside the guard *)

\* kmp_relabel appends an event and takes no guard.
Relabel(e) ==
    /\ Relabels
    /\ log.authored # {}
    /\ Appends(e)
    /\ relabelled' = relabelled \cup {e}
    /\ UNCHANGED <<file, markers, lock, locals, export, held, proved,
                   troubled>>

\* The release's own abouts are written to the store alone.
SyncGuide ==
    /\ log.owned < MaxOwned
    /\ log' = [log EXCEPT !.owned = @ + 1]
    /\ UNCHANGED <<file, markers, lock, locals, export, held, proved,
                   relabelled, troubled>>

Outside == OutsidersWait => lock = None

Checkout(events) ==
    /\ Outside
    /\ Rewrites(events)
    /\ UNCHANGED <<log, markers, lock, locals, export, proved, relabelled,
                   troubled>>

\* `kmp-mcp export` reads the store and replaces the file, and takes no lock.
ExportRead ==
    /\ export = None
    /\ Outside
    /\ export' = log.authored
    /\ UNCHANGED <<files, locals, held, relabelled, proved, troubled>>

ExportWrite ==
    /\ export # None
    /\ Outside
    /\ Rewrites(export)
    /\ export' = None
    /\ UNCHANGED <<log, markers, lock, locals, relabelled, proved, troubled>>

Stopped == \A t \in Tasks : pc[t] = "idle" /\ orphans = {}

\* `kmp-mcp export --repair-pending`, once the operator has stopped every
\* other writer.
Repair ==
    /\ Stopped
    /\ export = None
    /\ markers # {}
    /\ Rewrites(log.authored)
    /\ markers' = {}
    /\ troubled' = {}
    /\ UNCHANGED <<log, lock, locals, export, relabelled, proved>>

\* `kmp-mcp import` fills an empty store from the file, event by event: one
\* that stops midway leaves the part it has written.  Here the part is any part
\* of the file, and it is there at once.
Import(part) ==
    /\ Outside
    /\ log = NoLog
    /\ part \subseteq file.events
    /\ part # {}
    /\ log' = [log EXCEPT !.authored = part]
    /\ UNCHANGED <<file, markers, lock, locals, export, held, proved,
                   relabelled, troubled>>

-----------------------------------------------------------------------------

Proceeds(t) ==
    \/ CheckTail(t) \/ ReadLive(t) \/ ReadFile(t) \/ MarkPending(t)
    \/ Succeeds(t) \/ IsRejected(t) \/ IsAmbiguous(t)
    \/ FileIsOurs(t) \/ Extend(t) \/ ReadHead(t) \/ Recheck(t)
    \/ Replace(t) \/ Remember(t) \/ Complete(t) \/ Unlock(t)

Next ==
    \/ \E t \in Tasks : Begin(t) \/ Proceeds(t) \/ Abandon(t) \/ Land(t)
    \/ \E p \in Processes : Crash(p)
    \/ \E e \in Events : Relabel(e)
    \/ SyncGuide
    \/ \E b \in Branches \cup held : Checkout(b)
    \/ ExportRead \/ ExportWrite \/ Repair
    \/ \E part \in SUBSET file.events : Import(part)

Spec == Init /\ [][Next]_vars

-----------------------------------------------------------------------------
(* Properties *)

Steps == {"idle", "tail", "live", "file", "mark", "write", "ours", "extend",
          "head", "recheck", "replace", "remember", "complete", "unlock"}

Logs == [authored : SUBSET Events, owned : Nat]

Memos == [stamp : Nat, log : Logs]

\* The type of the two copies and of the calls on them.
TypeOK ==
    /\ log \in Logs
    /\ file \in [events : SUBSET Events, stamp : Nat]
    /\ markers \subseteq Tasks
    /\ lock \in {None} \cup Tasks
    /\ memo \in [Processes -> {None} \cup Memos]
    /\ pc \in [Tasks -> Steps]
    /\ tail \in [Tasks -> {None} \cup Memos]
    /\ live \in [Tasks -> SUBSET Events]
    /\ base \in [Tasks -> {None} \cup SUBSET Events]
    /\ head \in [Tasks -> Logs]
    /\ orphans \subseteq Tasks
    /\ export \in {None} \cup SUBSET Events
    /\ held \subseteq SUBSET Events
    /\ relabelled \subseteq Events
    /\ proved \in [Tasks -> BOOLEAN]
    /\ troubled \subseteq Tasks

\* An event that a guarded write left in the store and that the committed
\* file has never held is announced by a marker on disk, whatever failed,
\* crashed, or stood beside the guard.
GuardedIsMarked ==
    log.authored \subseteq Published \cup relabelled \/ markers # {}

\* "Before the store can change, the live event stream must exactly match
\* the committed stream": a call writes only if the two were equal when it
\* checked, by the full proof or by the tail alone (a relabel may land while
\* it checks).
WritesOnEqualHistories ==
    \A t \in Tasks : pc[t] \in {"mark", "write"} => proved[t]

\* A marker that refuses the next writer belongs to a call that failed or
\* died, never to one that is merely finishing.
RefusalsAreDeserved ==
    lock = None => markers \subseteq troubled

\* "Git and SQLite must agree exactly before either can advance": a publication
\* replaces the committed file by one that holds all its events and maybe more,
\* whatever git or an export put there before the write began, by the full
\* proof and from the tail alike.
NothingIsOverwritten ==
    [][\A t \in Tasks : pc[t] = "replace" /\ pc'[t] = "remember" =>
           file.events \subseteq file'.events]_vars

Promise == INSTANCE BundlePromise
           WITH stored <- log.authored \ relabelled, published <- Published,
                announced <- markers # {}

\* "A write is bracketed by a local pending marker": whatever fails, crashes or
\* stands beside the guard, the store changes only under a marker made while
\* nothing was unpublished, and the marker goes only when nothing is.
KeepsPromise == Promise!Spec
=============================================================================
