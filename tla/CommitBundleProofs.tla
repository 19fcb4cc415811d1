------------------------- MODULE CommitBundleProofs -------------------------
(***************************************************************************)
(* What the commit-native guard keeps, for any number of processes and     *)
(* calls, any history git may bring and any interleaving of faults.        *)
(***************************************************************************)
EXTENDS CommitBundle, TLAPS

\* Every proof below may use these.
USE NoneAssumption, HostAssumption, BranchesAssumption, BoundAssumption

\* The stores keep their types in every step.
LEMMA FilesAreTyped ==
    ASSUME TypeOK, Next
    PROVE  /\ log' \in Logs
           /\ file' \in [events : SUBSET Events, stamp : Nat]
           /\ markers' \subseteq Tasks
           /\ lock' \in {None} \cup Tasks
           /\ export' \in {None} \cup SUBSET Events
           /\ held' \subseteq SUBSET Events
           /\ relabelled' \subseteq Events
           /\ troubled' \subseteq Tasks
<1> USE DEF TypeOK, files, locals, Ends, Fails, Goto, Outside
<1>1. ASSUME NEW e \in Events, Appends(e)
      PROVE  log' \in Logs
  BY <1>1 DEF Appends, Logs
<1>2. ASSUME NEW events \in SUBSET Events, Rewrites(events)
      PROVE  /\ file' \in [events : SUBSET Events, stamp : Nat]
             /\ held' \subseteq SUBSET Events
  BY <1>2 DEF Rewrites
<1>3. ASSUME NEW t \in Tasks, Proceeds(t)
      PROVE  /\ log' \in Logs
             /\ file' \in [events : SUBSET Events, stamp : Nat]
             /\ markers' \subseteq Tasks
             /\ lock' \in {None} \cup Tasks
             /\ export' \in {None} \cup SUBSET Events
             /\ held' \subseteq SUBSET Events
             /\ relabelled' \subseteq Events
             /\ troubled' \subseteq Tasks
  <2>1. CASE CheckTail(t) \/ ReadLive(t) \/ ReadFile(t) \/ MarkPending(t)
    BY <2>1 DEF CheckTail, ReadLive, ReadFile, MarkPending
  <2>2. CASE Succeeds(t) \/ IsRejected(t) \/ IsAmbiguous(t)
    BY <1>1, <2>2 DEF Succeeds, IsRejected, IsAmbiguous
  <2>3. CASE FileIsOurs(t) \/ Extend(t) \/ ReadHead(t) \/ Recheck(t)
    BY <2>3 DEF FileIsOurs, Extend, ReadHead, Recheck
  <2>4. CASE Replace(t)
    <3>1. head[t].authored \in SUBSET Events
      BY DEF Logs
    <3>2. QED
      BY <1>2, <2>4, <3>1 DEF Replace
  <2>5. CASE Remember(t) \/ Complete(t) \/ Unlock(t)
    BY <2>5 DEF Remember, Complete, Unlock
  <2>6. QED
    BY <1>3, <2>1, <2>2, <2>3, <2>4, <2>5 DEF Proceeds
<1>4. ASSUME NEW t \in Tasks, Begin(t) \/ Abandon(t) \/ Land(t)
      PROVE  /\ log' \in Logs
             /\ file' \in [events : SUBSET Events, stamp : Nat]
             /\ markers' \subseteq Tasks
             /\ lock' \in {None} \cup Tasks
             /\ export' \in {None} \cup SUBSET Events
             /\ held' \subseteq SUBSET Events
             /\ relabelled' \subseteq Events
             /\ troubled' \subseteq Tasks
  BY <1>1, <1>4 DEF Begin, Abandon, Land
<1>5. ASSUME NEW p \in Processes, Crash(p)
      PROVE  /\ log' \in Logs
             /\ file' \in [events : SUBSET Events, stamp : Nat]
             /\ markers' \subseteq Tasks
             /\ lock' \in {None} \cup Tasks
             /\ export' \in {None} \cup SUBSET Events
             /\ held' \subseteq SUBSET Events
             /\ relabelled' \subseteq Events
             /\ troubled' \subseteq Tasks
  BY <1>5 DEF Crash
<1>6. ASSUME \/ \E e \in Events : Relabel(e)
             \/ SyncGuide
             \/ \E part \in SUBSET file.events : Import(part)
      PROVE  /\ log' \in Logs
             /\ file' = file /\ markers' = markers /\ lock' = lock
             /\ export' = export /\ held' = held /\ troubled' = troubled
             /\ relabelled' \subseteq Events
  BY <1>1, <1>6 DEF Relabel, SyncGuide, Import, Logs
<1>7. ASSUME \/ \E b \in Branches \cup held : Checkout(b)
             \/ ExportRead \/ ExportWrite \/ Repair
      PROVE  /\ log' \in Logs
             /\ file' \in [events : SUBSET Events, stamp : Nat]
             /\ markers' \subseteq Tasks
             /\ lock' \in {None} \cup Tasks
             /\ export' \in {None} \cup SUBSET Events
             /\ held' \subseteq SUBSET Events
             /\ relabelled' \subseteq Events
             /\ troubled' \subseteq Tasks
  <2>1. log.authored \in SUBSET Events
    BY DEF Logs
  <2>2. CASE \E b \in Branches \cup held : Checkout(b)
    BY <1>2, <2>2 DEF Checkout
  <2>3. CASE ExportRead
    BY <2>1, <2>3 DEF ExportRead
  <2>4. CASE ExportWrite
    BY <1>2, <2>4 DEF ExportWrite
  <2>5. CASE Repair
    BY <1>2, <2>1, <2>5 DEF Repair
  <2>6. QED
    BY <1>7, <2>2, <2>3, <2>4, <2>5
<1>8. QED
  BY <1>3, <1>4, <1>5, <1>6, <1>7 DEF Next

LocalsOK ==
    /\ memo \in [Processes -> {None} \cup Memos]
    /\ pc \in [Tasks -> Steps]
    /\ tail \in [Tasks -> {None} \cup Memos]
    /\ live \in [Tasks -> SUBSET Events]
    /\ base \in [Tasks -> {None} \cup SUBSET Events]
    /\ head \in [Tasks -> Logs]
    /\ orphans \subseteq Tasks
    /\ proved \in [Tasks -> BOOLEAN]

\* And so does what each call knows.
LEMMA LocalsAreTyped ==
    ASSUME TypeOK, Next
    PROVE  LocalsOK'
<1> USE DEF TypeOK, LocalsOK, files, locals, Ends, Fails, Goto, Steps
<1>1. ASSUME NEW t \in Tasks, Proceeds(t)
      PROVE  LocalsOK'
  <2>1. CASE CheckTail(t)
    BY <2>1 DEF CheckTail, Proves
  <2>2. CASE ReadLive(t)
    BY <2>2 DEF ReadLive, Logs
  <2>3. CASE ReadFile(t)
    <3>1. Content \in {None} \cup SUBSET Events
      BY DEF Content
    <3>2. SameHistory \in BOOLEAN
      BY DEF SameHistory
    <3>3. base' \in [Tasks -> {None} \cup SUBSET Events]
      BY <2>3, <3>1 DEF ReadFile
    <3>4. proved' \in [Tasks -> BOOLEAN]
      BY <2>3, <3>2 DEF ReadFile, Proves
    <3>5. QED
      BY <2>3, <3>3, <3>4 DEF ReadFile
  <2>4. CASE MarkPending(t)
    BY <2>4 DEF MarkPending
  <2>5. CASE Succeeds(t) \/ IsRejected(t) \/ IsAmbiguous(t)
    BY <2>5 DEF Succeeds, IsRejected, IsAmbiguous
  <2>6. CASE FileIsOurs(t) \/ Recheck(t)
    BY <2>6 DEF FileIsOurs, Recheck
  <2>7. CASE Extend(t) \/ ReadHead(t)
    BY <2>7 DEF Extend, ReadHead
  <2>8. CASE Replace(t) \/ Complete(t) \/ Unlock(t)
    BY <2>8 DEF Replace, Complete, Unlock
  <2>9. CASE Remember(t)
    <3>1. [stamp |-> file.stamp, log |-> head[t]] \in Memos
      BY DEF Memos
    <3>2. QED
      BY <2>9, <3>1 DEF Remember
  <2>10. QED
    BY <1>1, <2>1, <2>2, <2>3, <2>4, <2>5, <2>6, <2>7, <2>8, <2>9
       DEF Proceeds
<1>2. ASSUME NEW t \in Tasks, Begin(t)
      PROVE  LocalsOK'
  <2> DEFINE m == memo[Host[t]]
             unmoved == m # None /\ m.stamp = file.stamp
             equal == unmoved /\ file.events = m.log.authored
  <2>1. proved' = [proved EXCEPT ![t] = equal]
    BY <1>2 DEF Begin, Proves
  <2>2. equal \in BOOLEAN
    OBVIOUS
  <2>3. proved' \in [Tasks -> BOOLEAN]
    <3> HIDE DEF equal
    <3>1. QED
      BY <2>1, <2>2
  <2>4. QED
    BY <1>2, <2>3 DEF Begin
<1>3. ASSUME NEW t \in Tasks, Abandon(t) \/ Land(t)
      PROVE  LocalsOK'
  BY <1>3 DEF Abandon, Land
<1>4. ASSUME NEW p \in Processes, Crash(p)
      PROVE  LocalsOK'
  BY <1>4 DEF Crash
<1>5. ASSUME \/ \E e \in Events : Relabel(e)
             \/ SyncGuide
             \/ \E b \in Branches \cup held : Checkout(b)
             \/ ExportRead \/ ExportWrite \/ Repair
             \/ \E part \in SUBSET file.events : Import(part)
      PROVE  LocalsOK'
  BY <1>5 DEF Relabel, SyncGuide, Checkout, ExportRead, ExportWrite, Repair,
              Import
<1>6. QED
  BY <1>1, <1>2, <1>3, <1>4, <1>5 DEF Next

\* Together: every step of the bundle keeps the types.
LEMMA TypeStep == TypeOK /\ [Next]_vars => TypeOK'
<1>1. CASE Next
  BY <1>1, FilesAreTyped, LocalsAreTyped DEF TypeOK, LocalsOK
<1>2. CASE UNCHANGED vars
  BY <1>2 DEF vars, files, locals, TypeOK
<1>3. QED
  BY <1>1, <1>2

\* A project with an empty store and no committed file is well typed.
LEMMA TypeInit == Init => TypeOK
BY DEF Init, TypeOK, NoLog, Logs, Steps

\* The two copies, the markers and the calls on them keep their types.
THEOREM TypeCorrect == Spec => []TypeOK
BY TypeInit, TypeStep, PTL DEF Spec

-----------------------------------------------------------------------------
(* Who holds the lock and whose marker is on disk. *)

\* The lock is held by the one call in progress.
Exclusive == \A t \in Tasks : pc[t] # "idle" <=> lock = t

\* From its marker's creation to its removal.
Marked == {"write", "ours", "extend", "head", "recheck", "replace",
           "remember", "complete"}

\* A kernel write that outlives its call has left its marker; a call in
\* progress shares the disk with no other marker and with no such write.
Accounted ==
    /\ orphans \subseteq markers
    /\ markers \subseteq troubled \cup {t \in Tasks : pc[t] \in Marked}
    /\ \A t \in Tasks :
          /\ pc[t] # "idle" => markers \subseteq {t} /\ orphans = {}
          /\ pc[t] \notin Marked \cup {"idle"} => markers = {}
          /\ pc[t] \in Marked => t \in markers

\* begin_write takes the lock only when it is free, and every exit frees it.
LEMMA ExclusiveStep ==
    ASSUME TypeOK, Exclusive, Next
    PROVE  Exclusive'
<1> USE DEF TypeOK, Exclusive, files, locals, Ends, Fails, Goto
<1>1. ASSUME NEW t \in Tasks, Begin(t)
      PROVE  Exclusive'
  BY <1>1 DEF Begin
<1>2. ASSUME NEW t \in Tasks, Proceeds(t)
      PROVE  Exclusive'
  <2>1. CASE CheckTail(t) \/ ReadLive(t) \/ ReadFile(t) \/ MarkPending(t)
    BY <2>1 DEF CheckTail, ReadLive, ReadFile, MarkPending
  <2>2. CASE Succeeds(t) \/ IsRejected(t) \/ IsAmbiguous(t)
    BY <2>2 DEF Succeeds, IsRejected, IsAmbiguous
  <2>3. CASE FileIsOurs(t) \/ Extend(t) \/ ReadHead(t) \/ Recheck(t)
    BY <2>3 DEF FileIsOurs, Extend, ReadHead, Recheck
  <2>4. CASE Replace(t) \/ Remember(t) \/ Complete(t) \/ Unlock(t)
    BY <2>4 DEF Replace, Remember, Complete, Unlock
  <2>5. QED
    BY <1>2, <2>1, <2>2, <2>3, <2>4 DEF Proceeds
<1>3. ASSUME NEW t \in Tasks, Abandon(t) \/ Land(t)
      PROVE  Exclusive'
  BY <1>3 DEF Abandon, Land
<1>4. ASSUME NEW p \in Processes, Crash(p)
      PROVE  Exclusive'
  BY <1>4 DEF Crash
<1>5. ASSUME \/ \E e \in Events : Relabel(e)
             \/ SyncGuide
             \/ \E b \in Branches \cup held : Checkout(b)
             \/ ExportRead \/ ExportWrite \/ Repair
             \/ \E part \in SUBSET file.events : Import(part)
      PROVE  Exclusive'
  BY <1>5 DEF Relabel, SyncGuide, Checkout, ExportRead, ExportWrite, Repair,
              Import
<1>6. QED
  BY <1>1, <1>2, <1>3, <1>4, <1>5 DEF Next

\* Markers are created and cleared only by the call that holds the lock, or by
\* a repair when no call runs.
LEMMA AccountedStep ==
    ASSUME TypeOK, Exclusive, Accounted, Next
    PROVE  Accounted'
<1> USE DEF TypeOK, Exclusive, Accounted, Marked, files, locals, Ends, Fails,
            Goto
<1>1. ASSUME NEW t \in Tasks, Begin(t)
      PROVE  Accounted'
  BY <1>1 DEF Begin
<1>2. ASSUME NEW t \in Tasks, Proceeds(t)
      PROVE  Accounted'
  <2>1. CASE CheckTail(t) \/ ReadLive(t) \/ ReadFile(t) \/ MarkPending(t)
    BY <2>1 DEF CheckTail, ReadLive, ReadFile, MarkPending
  <2>2. CASE Succeeds(t) \/ IsRejected(t) \/ IsAmbiguous(t)
    BY <2>2 DEF Succeeds, IsRejected, IsAmbiguous
  <2>3. CASE FileIsOurs(t) \/ Extend(t) \/ ReadHead(t) \/ Recheck(t)
    BY <2>3 DEF FileIsOurs, Extend, ReadHead, Recheck
  <2>4. CASE Replace(t) \/ Remember(t) \/ Complete(t) \/ Unlock(t)
    BY <2>4 DEF Replace, Remember, Complete, Unlock
  <2>5. QED
    BY <1>2, <2>1, <2>2, <2>3, <2>4 DEF Proceeds
<1>3. ASSUME NEW t \in Tasks, Abandon(t) \/ Land(t)
      PROVE  Accounted'
  BY <1>3 DEF Abandon, Land
<1>4. ASSUME NEW p \in Processes, Crash(p)
      PROVE  Accounted'
  BY <1>4 DEF Crash
<1>5. ASSUME Repair
      PROVE  Accounted'
  BY <1>5 DEF Repair, Stopped
<1>6. ASSUME \/ \E e \in Events : Relabel(e)
             \/ SyncGuide
             \/ \E b \in Branches \cup held : Checkout(b)
             \/ ExportRead \/ ExportWrite
             \/ \E part \in SUBSET file.events : Import(part)
      PROVE  Accounted'
  BY <1>6 DEF Relabel, SyncGuide, Checkout, ExportRead, ExportWrite, Import
<1>7. QED
  BY <1>1, <1>2, <1>3, <1>4, <1>5, <1>6 DEF Next

\* So the lock and the markers are in order in every behaviour.
LEMMA Bookkeeping == Spec => [](TypeOK /\ Exclusive /\ Accounted)
<1>1. Init => TypeOK /\ Exclusive /\ Accounted
  <2>1. Init => Exclusive /\ Accounted
    BY DEF Init, Exclusive, Accounted, Marked
  <2>2. QED
    BY <2>1, TypeInit
<1>2. TypeOK /\ Exclusive /\ Accounted /\ [Next]_vars
        => (TypeOK /\ Exclusive /\ Accounted)'
  <2>1. CASE Next
    BY <2>1, TypeStep, ExclusiveStep, AccountedStep
  <2>2. CASE UNCHANGED vars
    BY <2>2, TypeStep DEF vars, files, locals, Exclusive, Accounted
  <2>3. QED
    BY <2>1, <2>2
<1>3. QED
  BY <1>1, <1>2, PTL DEF Spec

\* A marker that refuses the next writer belongs to a call that failed or
\* died.
THEOREM RefusalsAreAlwaysDeserved == Spec => []RefusalsAreDeserved
<1>1. TypeOK /\ Exclusive /\ Accounted => RefusalsAreDeserved
  BY DEF TypeOK, Exclusive, Accounted, Marked, RefusalsAreDeserved
<1>2. QED
  BY <1>1, Bookkeeping, PTL

-----------------------------------------------------------------------------
(* What of the store the committed file has held. *)

\* Published or relabelled, except between the kernel's write and the
\* replacement of the file, and after a failure that left its marker.
Covered ==
    /\ file.events \subseteq Published
    /\ markers = {} => log.authored \subseteq Published \cup relabelled
    /\ \A t \in Tasks :
          /\ pc[t] \in {"write", "remember", "complete"} =>
                log.authored \subseteq Published \cup relabelled
          /\ pc[t] \in {"recheck", "replace"} =>
                log.authored \subseteq Published \cup relabelled
                                       \cup head[t].authored

\* No step adds to the log of a published history without leaving a marker,
\* and none clears the marker before the file holds what was added.
LEMMA CoveredStep ==
    ASSUME TypeOK, Exclusive, Accounted, Covered, Next
    PROVE  Covered'
<1> USE DEF TypeOK, Exclusive, Accounted, Covered, Marked, Published, files,
            locals, Ends, Fails, Goto
<1>1. ASSUME NEW t \in Tasks, Begin(t)
      PROVE  Covered'
  BY <1>1 DEF Begin
<1>2. ASSUME NEW t \in Tasks, Proceeds(t)
      PROVE  Covered'
  <2>1. CASE CheckTail(t) \/ ReadLive(t) \/ ReadFile(t) \/ MarkPending(t)
    BY <2>1 DEF CheckTail, ReadLive, ReadFile, MarkPending
  <2>2. CASE Succeeds(t) \/ IsRejected(t) \/ IsAmbiguous(t)
    BY <2>2 DEF Succeeds, IsRejected, IsAmbiguous, Appends
  <2>3. CASE FileIsOurs(t) \/ Recheck(t)
    BY <2>3 DEF FileIsOurs, Recheck
  <2>4. CASE Extend(t) \/ ReadHead(t)
    BY <2>4 DEF Extend, ReadHead
  <2>5. CASE Replace(t)
    BY <2>5 DEF Replace, Rewrites
  <2>6. CASE Remember(t) \/ Complete(t) \/ Unlock(t)
    BY <2>6 DEF Remember, Complete, Unlock
  <2>7. QED
    BY <1>2, <2>1, <2>2, <2>3, <2>4, <2>5, <2>6 DEF Proceeds
<1>3. ASSUME NEW t \in Tasks, Abandon(t)
      PROVE  Covered'
  BY <1>3 DEF Abandon
<1>4. ASSUME NEW t \in Tasks, Land(t)
      PROVE  Covered'
  BY <1>4 DEF Land, Appends
<1>5. ASSUME NEW p \in Processes, Crash(p)
      PROVE  Covered'
  BY <1>5 DEF Crash
<1>6. ASSUME NEW e \in Events, Relabel(e)
      PROVE  Covered'
  BY <1>6 DEF Relabel, Appends
<1>7. ASSUME SyncGuide
      PROVE  Covered'
  BY <1>7 DEF SyncGuide, Logs
<1>8. ASSUME \/ \E b \in Branches \cup held : Checkout(b)
             \/ ExportRead \/ ExportWrite
      PROVE  Covered'
  BY <1>8 DEF Checkout, ExportRead, ExportWrite, Rewrites
<1>9. ASSUME Repair
      PROVE  Covered'
  BY <1>9 DEF Repair, Rewrites, Stopped
<1>10. ASSUME NEW part \in SUBSET file.events, Import(part)
      PROVE  Covered'
  BY <1>10 DEF Import, Logs
<1>11. QED
  BY <1>1, <1>2, <1>3, <1>4, <1>5, <1>6, <1>7, <1>8, <1>9, <1>10 DEF Next

\* So what is unpublished is accounted for in every behaviour.
LEMMA AlwaysCovered == Spec => []Covered
<1>1. Init => Covered
  BY DEF Init, Covered, Published, NoLog
<1>2. TypeOK /\ Exclusive /\ Accounted /\ Covered /\ [Next]_vars => Covered'
  <2>1. CASE Next
    BY <2>1, CoveredStep
  <2>2. CASE UNCHANGED vars
    BY <2>2 DEF vars, files, locals, Covered, Published
  <2>3. QED
    BY <2>1, <2>2
<1>3. QED
  BY <1>1, <1>2, Bookkeeping, PTL DEF Spec

\* What a guarded write left in the store is in a file that was published,
\* or a marker announces it.
THEOREM GuardedIsAlwaysMarked == Spec => []GuardedIsMarked
<1>1. Covered => GuardedIsMarked
  BY DEF Covered, GuardedIsMarked
<1>2. QED
  BY <1>1, AlwaysCovered, PTL

-----------------------------------------------------------------------------
(* What a call may conclude from what it read, while git and exports wait. *)

\* A memo that matches the file's stamp knows the file.
Knows(m) ==
    /\ m.stamp <= file.stamp
    /\ m.stamp = file.stamp => file.events = m.log.authored

Agreed ==
    /\ \A p \in Processes : memo[p] # None => Knows(memo[p])
    /\ \A t \in Tasks :
          /\ pc[t] = "tail" => proved[t]
          /\ pc[t] = "file" =>
                /\ live[t] \subseteq log.authored
                /\ log.authored \subseteq live[t] \cup relabelled
          /\ pc[t] = "remember" => file.events = head[t].authored
          /\ pc[t] \in {"mark", "write"} => proved[t]

\* Outside a guarded write a memo stays true whoever rewrites the file.
LEMMA KnowsOrIsOld ==
    ASSUME TypeOK, NEW m \in Memos, Knows(m), NEW events, Rewrites(events)
    PROVE  Knows(m)'
BY DEF TypeOK, Memos, Knows, Rewrites

\* So a rewrite that leaves the memos alone leaves all of them true.
LEMMA MemosStayKnown ==
    ASSUME TypeOK, Agreed, NEW events, Rewrites(events), UNCHANGED memo
    PROVE  \A p \in Processes : memo'[p] # None => Knows(memo[p])'
BY KnowsOrIsOld DEF TypeOK, Agreed

\* What a call has read stays true until it acts on it: the lock keeps out
\* other calls, and git and exports wait.
LEMMA AgreedStep ==
    ASSUME OutsidersWait = TRUE,
           TypeOK, Exclusive, Accounted, Agreed, Next
    PROVE  Agreed'
<1> USE DEF TypeOK, Exclusive, Accounted, Marked, files, locals, Ends, Fails,
            Goto, Outside
<1>1. ASSUME NEW t \in Tasks, Begin(t)
      PROVE  Agreed'
  <2> DEFINE m == memo[Host[t]]
             equal == /\ m # None /\ m.stamp = file.stamp
                      /\ file.events = m.log.authored
  <2>1. proved' = [proved EXCEPT ![t] = equal]
    BY <1>1 DEF Begin, Proves
  <2>2. m # None /\ m.stamp = file.stamp => equal
    BY DEF Agreed, Knows
  <2>3. pc'[t] = "tail" => equal
    BY <1>1, <2>2 DEF Begin
  <2>4. proved'[t] <=> equal
    <3> HIDE DEF equal
    <3>1. QED
      BY <2>1
  <2>5. pc'[t] = "tail" => proved'[t]
    BY <2>3, <2>4
  <2>6. \A s \in Tasks \ {t} : pc'[s] = "idle"
    BY <1>1 DEF Begin
  <2>7. pc'[t] \in {"tail", "live"}
    BY <1>1 DEF Begin
  <2>8. \A p \in Processes : memo'[p] # None => Knows(memo[p])'
    BY <1>1 DEF Begin, Agreed, Knows
  <2>9. QED
    BY <2>5, <2>6, <2>7, <2>8 DEF Agreed
<1>2. ASSUME NEW t \in Tasks, Proceeds(t)
      PROVE  Agreed'
  <2>1. CASE CheckTail(t) \/ ReadLive(t) \/ MarkPending(t)
    BY <2>1 DEF CheckTail, ReadLive, MarkPending, Agreed, Knows
  <2>2. CASE ReadFile(t)
    <3>1. CASE file.events = live[t]
      <4>1. SameHistory
        BY <2>2, <3>1 DEF ReadFile, SameHistory, Agreed
      <4>2. proved' = [proved EXCEPT ![t] = SameHistory]
        BY <2>2, <3>1 DEF ReadFile, Proves
      <4>3. proved'[t]
        BY <4>1, <4>2
      <4>4. \A s \in Tasks \ {t} : pc'[s] = "idle"
        BY <2>2, <3>1 DEF ReadFile
      <4>5. pc'[t] = "mark"
        BY <2>2, <3>1 DEF ReadFile
      <4>6. \A p \in Processes : memo'[p] # None => Knows(memo[p])'
        BY <2>2 DEF ReadFile, Agreed, Knows
      <4>7. QED
        BY <4>3, <4>4, <4>5, <4>6 DEF Agreed
    <3>2. CASE file.events # live[t]
      BY <2>2, <3>2 DEF ReadFile, Agreed, Knows
    <3>3. QED
      BY <3>1, <3>2
  <2>3. CASE Succeeds(t) \/ IsRejected(t) \/ IsAmbiguous(t)
    BY <2>3 DEF Succeeds, IsRejected, IsAmbiguous, Appends, Agreed, Knows
  <2>4. CASE FileIsOurs(t) \/ Extend(t) \/ ReadHead(t) \/ Recheck(t)
    BY <2>4 DEF FileIsOurs, Extend, ReadHead, Recheck, Agreed, Knows
  <2>5. CASE Replace(t)
    <3>1. \A p \in Processes : memo'[p] # None => Knows(memo[p])'
      BY <2>5, MemosStayKnown DEF Replace
    <3>2. file'.events = head'[t].authored
      BY <2>5 DEF Replace, Rewrites
    <3>3. QED
      BY <2>5, <3>1, <3>2 DEF Replace, Agreed
  <2>6. CASE Remember(t)
    BY <2>6 DEF Remember, Agreed, Knows
  <2>7. CASE Complete(t) \/ Unlock(t)
    BY <2>7 DEF Complete, Unlock, Agreed, Knows
  <2>8. QED
    BY <1>2, <2>1, <2>2, <2>3, <2>4, <2>5, <2>6, <2>7 DEF Proceeds
<1>3. ASSUME NEW t \in Tasks, Abandon(t)
      PROVE  Agreed'
  BY <1>3 DEF Abandon, Agreed, Knows
<1>4. ASSUME NEW t \in Tasks, Land(t)
      PROVE  Agreed'
  BY <1>4 DEF Land, Agreed, Knows
<1>5. ASSUME NEW p \in Processes, Crash(p)
      PROVE  Agreed'
  BY <1>5 DEF Crash, Agreed, Knows
<1>6. ASSUME NEW e \in Events, Relabel(e)
      PROVE  Agreed'
  BY <1>6 DEF Relabel, Appends, Agreed, Knows
<1>7. ASSUME SyncGuide
      PROVE  Agreed'
  BY <1>7 DEF SyncGuide, Logs, Agreed, Knows
<1>8. ASSUME NEW events, Rewrites(events), lock = None, UNCHANGED locals
      PROVE  Agreed'
  <2>1. \A p \in Processes : memo'[p] # None => Knows(memo[p])'
    BY <1>8, MemosStayKnown
  <2>2. \A t \in Tasks : pc'[t] = "idle"
    BY <1>8
  <2>3. QED
    BY <2>1, <2>2 DEF Agreed
<1>9. ASSUME \/ \E b \in Branches \cup held : Checkout(b)
             \/ ExportWrite \/ Repair
      PROVE  Agreed'
  BY <1>8, <1>9 DEF Checkout, ExportWrite, Repair, Stopped
<1>10. ASSUME \/ ExportRead
              \/ \E part \in SUBSET file.events : Import(part)
      PROVE  Agreed'
  BY <1>10 DEF ExportRead, Import, Agreed, Knows
<1>11. QED
  BY <1>1, <1>2, <1>3, <1>4, <1>5, <1>6, <1>7, <1>9, <1>10 DEF Next

\* While git and exports leave the file alone during a guarded write, no
\* call changes the store but on two equal histories.
THEOREM WritesAreOnEqualHistories ==
    ASSUME OutsidersWait = TRUE
    PROVE  Spec => []WritesOnEqualHistories
<1>1. Init => Agreed
  BY DEF Init, Agreed
<1>2. TypeOK /\ Exclusive /\ Accounted /\ Agreed /\ [Next]_vars => Agreed'
  <2>1. CASE Next
    BY <2>1, AgreedStep
  <2>2. CASE UNCHANGED vars
    BY <2>2 DEF vars, files, locals, Agreed, Knows
  <2>3. QED
    BY <2>1, <2>2
<1>3. Agreed => WritesOnEqualHistories
  BY DEF Agreed, WritesOnEqualHistories
<1>4. QED
  BY <1>1, <1>2, <1>3, Bookkeeping, PTL DEF Spec

-----------------------------------------------------------------------------
(* What a publication replaces.                                            *)

\* The file holds nothing that the history a call is about to publish lacks:
\* first the log, then what was read of it.
Grounded ==
    \A t \in Tasks :
        /\ pc[t] = "tail" => tail[t] # None /\ file.events = tail[t].log.authored
        /\ pc[t] \in {"mark", "write", "ours", "extend", "head"} =>
              file.events \subseteq log.authored
        /\ pc[t] \in {"recheck", "replace"} => file.events \subseteq head[t].authored

\* The lock keeps other calls, and through them git and exports, from the file,
\* and the log only grows.
LEMMA GroundedStep ==
    ASSUME OutsidersWait = TRUE,
           TypeOK, Exclusive, Accounted, Agreed, Grounded, Next
    PROVE  Grounded'
<1> USE DEF TypeOK, Exclusive, Accounted, Marked, files, locals, Ends, Fails,
            Goto, Outside
<1>1. ASSUME NEW t \in Tasks, Begin(t)
      PROVE  Grounded'
  <2> DEFINE m == memo[Host[t]]
             equal == m # None /\ file.events = m.log.authored
  <2>1. m # None /\ m.stamp = file.stamp => equal
    BY DEF Agreed, Knows
  <2>2. pc'[t] \in {"tail", "live"} /\ tail'[t] = m
    BY <1>1 DEF Begin
  <2>3. pc'[t] = "tail" => equal
    BY <1>1, <2>1 DEF Begin
  <2>4. \A s \in Tasks \ {t} : pc'[s] = "idle"
    BY <1>1 DEF Begin
  <2>5. file' = file
    BY <1>1 DEF Begin
  <2>6. QED
    BY <2>2, <2>3, <2>4, <2>5 DEF Grounded
<1>2. ASSUME NEW t \in Tasks, Proceeds(t)
      PROVE  Grounded'
  <2>1. CASE CheckTail(t) \/ ReadLive(t) \/ MarkPending(t)
    BY <2>1 DEF CheckTail, ReadLive, MarkPending, Grounded
  <2>2. CASE ReadFile(t)
    BY <2>2 DEF ReadFile, Agreed, Grounded
  <2>3. CASE Succeeds(t) \/ IsRejected(t) \/ IsAmbiguous(t)
    <3>1. log.authored \subseteq log'.authored
      BY <2>3 DEF Succeeds, IsRejected, IsAmbiguous, Appends, Logs
    <3>2. file' = file /\ tail' = tail /\ head' = head
      BY <2>3 DEF Succeeds, IsRejected, IsAmbiguous
    <3>3. pc[t] = "write" /\ pc'[t] \in {"head", "ours", "complete", "idle"}
      BY <2>3 DEF Succeeds, IsRejected, IsAmbiguous
    <3>4. \A s \in Tasks \ {t} : pc'[s] = pc[s]
      BY <2>3 DEF Succeeds, IsRejected, IsAmbiguous
    <3>5. QED
      BY <3>1, <3>2, <3>3, <3>4 DEF Grounded
  <2>4. CASE FileIsOurs(t) \/ Extend(t) \/ ReadHead(t) \/ Recheck(t)
    BY <2>4 DEF FileIsOurs, Extend, ReadHead, Recheck, Grounded
  <2>5. CASE Replace(t)
    BY <2>5 DEF Replace, Grounded
  <2>6. CASE Remember(t) \/ Complete(t) \/ Unlock(t)
    BY <2>6 DEF Remember, Complete, Unlock, Grounded
  <2>7. QED
    BY <1>2, <2>1, <2>2, <2>3, <2>4, <2>5, <2>6 DEF Proceeds
<1>3. ASSUME NEW t \in Tasks, Abandon(t) \/ Land(t)
      PROVE  Grounded'
  BY <1>3 DEF Abandon, Land, Appends, Grounded
<1>4. ASSUME NEW p \in Processes, Crash(p)
      PROVE  Grounded'
  BY <1>4 DEF Crash, Grounded
<1>5. ASSUME \/ \E e \in Events : Relabel(e)
             \/ SyncGuide \/ ExportRead
      PROVE  Grounded'
  BY <1>5 DEF Relabel, SyncGuide, ExportRead, Appends, Logs, Grounded
<1>6. ASSUME \/ \E b \in Branches \cup held : Checkout(b)
             \/ ExportWrite \/ Repair
             \/ \E part \in SUBSET file.events : Import(part)
      PROVE  Grounded'
  <2>1. \A t \in Tasks : pc'[t] = "idle"
    BY <1>6 DEF Checkout, ExportWrite, Repair, Stopped, Import
  <2>2. QED
    BY <2>1 DEF Grounded
<1>7. QED
  BY <1>1, <1>2, <1>3, <1>4, <1>5, <1>6 DEF Next

\* While git and exports wait, a publication overwrites nothing that anyone
\* put into the committed file.
THEOREM PublicationsOverwriteNothing ==
    ASSUME OutsidersWait = TRUE
    PROVE  Spec => NothingIsOverwritten
<1> DEFINE Kept(t) == pc[t] = "replace" /\ pc'[t] = "remember" =>
                          file.events \subseteq file'.events
<1>1. Init => Agreed /\ Grounded
  BY DEF Init, Agreed, Grounded
<1>2. TypeOK /\ Exclusive /\ Accounted /\ Agreed /\ Grounded /\ [Next]_vars
        => Agreed' /\ Grounded'
  <2>1. CASE Next
    BY <2>1, AgreedStep, GroundedStep
  <2>2. CASE UNCHANGED vars
    BY <2>2 DEF vars, files, locals, Agreed, Knows, Grounded
  <2>3. QED
    BY <2>1, <2>2
<1>3. ASSUME TypeOK, Grounded, Next, NEW t \in Tasks
      PROVE  Kept(t)
  <2>1. SUFFICES ASSUME pc[t] = "replace", pc'[t] = "remember"
                 PROVE  file.events \subseteq file'.events
    OBVIOUS
  <2>2. Replace(t)
    <3>1. CASE \E s \in Tasks : Begin(s) \/ CheckTail(s) \/ ReadLive(s)
                                  \/ ReadFile(s) \/ MarkPending(s)
      BY <1>3, <2>1, <3>1 DEF Begin, CheckTail, ReadLive, ReadFile, MarkPending,
                        Goto, Ends, TypeOK
    <3>2. CASE \E s \in Tasks : Succeeds(s) \/ IsRejected(s) \/ IsAmbiguous(s)
      BY <1>3, <2>1, <3>2 DEF Succeeds, IsRejected, IsAmbiguous, Goto, Ends, TypeOK
    <3>3. CASE \E s \in Tasks : FileIsOurs(s) \/ Extend(s) \/ ReadHead(s)
                                  \/ Recheck(s)
      BY <1>3, <2>1, <3>3 DEF FileIsOurs, Extend, ReadHead, Recheck, Fails, Goto,
                        Ends, TypeOK
    <3>4. CASE \E s \in Tasks : Replace(s) \/ Remember(s) \/ Complete(s)
                                  \/ Unlock(s)
      BY <1>3, <2>1, <3>4 DEF Replace, Remember, Complete, Unlock, Goto, Ends, TypeOK
    <3>5. CASE \E s \in Tasks : Abandon(s) \/ Land(s)
      BY <1>3, <2>1, <3>5 DEF Abandon, Land, Fails, Goto, Ends, TypeOK
    <3>6. CASE \E p \in Processes : Crash(p)
      BY <1>3, <2>1, <3>6 DEF Crash, TypeOK
    <3>7. CASE UNCHANGED pc
      BY <1>3, <2>1, <3>7
    <3>8. QED
      BY <1>3, <3>1, <3>2, <3>3, <3>4, <3>5, <3>6, <3>7
         DEF Next, Proceeds, Relabel, SyncGuide, ExportRead, Checkout,
             ExportWrite, Repair, Import, locals
  <2>3. head[t].authored = file'.events
    BY <2>2 DEF Replace, Rewrites
  <2>4. QED
    BY <1>3, <2>1, <2>3 DEF Grounded
<1>4. TypeOK /\ Grounded /\ [Next]_vars => [\A t \in Tasks : Kept(t)]_vars
  BY <1>3
<1>5. QED
  BY <1>1, <1>2, <1>4, Bookkeeping, PTL DEF Spec, NothingIsOverwritten

-----------------------------------------------------------------------------
(* The guard implements its promise, step by step.                         *)

Stored == log.authored \ relabelled

\* The kernel writes under a marker, whoever is left to finish the write.
LEMMA AppendIsAnnounced ==
    ASSUME TypeOK, NEW e \in Events, Appends(e), markers # {},
           UNCHANGED <<markers, held, relabelled>>
    PROVE  [Promise!Next]_(Promise!vars)
<1>1. log'.authored = log.authored \cup {e}
  BY DEF Appends, TypeOK, Logs
<1>2. Published' = Published
  BY DEF Published
<1>3. CASE e \in relabelled
  <2>1. Stored' = Stored
    BY <1>1, <1>3 DEF Stored
  <2>2. QED
    BY <1>2, <2>1 DEF Stored, Promise!vars
<1>4. CASE e \notin relabelled
  <2>1. Stored' = Stored \cup {e}
    BY <1>1, <1>4 DEF Stored
  <2>2. Promise!Write(e)
    BY <1>2, <2>1 DEF Stored, Promise!Write
  <2>3. QED
    BY <2>2 DEF Promise!Next
<1>5. QED
  BY <1>3, <1>4

\* A rewrite of the file publishes what it holds, and nothing is unpublished.
LEMMA RewriteIsPublication ==
    ASSUME NEW events \in SUBSET Events, Rewrites(events),
           UNCHANGED <<log, markers, relabelled>>
    PROVE  [Promise!Next]_(Promise!vars)
<1>1. Published' = Published \cup events
  BY DEF Rewrites, Published
<1>2. Promise!Publish(events)
  BY <1>1 DEF Promise!Publish
<1>3. QED
  BY <1>2 DEF Promise!Next

\* A step that touches neither the store's authored events, nor the file, nor
\* a marker is none of the promise's.
LEMMA StepAside ==
    ASSUME Stored' = Stored, UNCHANGED <<markers, held>>
    PROVE  [Promise!Next]_(Promise!vars)
BY DEF Stored, Published, Promise!vars

\* The call whose step it is holds the lock, so its marker is the only one.
LEMMA ProceedsAsPromised ==
    ASSUME TypeOK, Exclusive, Accounted, Covered,
           NEW t \in Tasks, Proceeds(t)
    PROVE  [Promise!Next]_(Promise!vars)
<1> USE DEF files, locals, Ends, Fails, Goto
<1>1. CASE \/ CheckTail(t) \/ ReadLive(t) \/ ReadFile(t) \/ IsRejected(t)
           \/ FileIsOurs(t) \/ Extend(t) \/ ReadHead(t) \/ Recheck(t)
           \/ Remember(t) \/ Unlock(t)
  BY <1>1, StepAside DEF CheckTail, ReadLive, ReadFile, IsRejected, FileIsOurs, Extend,
                         ReadHead, Recheck, Remember, Unlock, Stored
<1>2. CASE MarkPending(t)
  <2>1. markers = {} /\ markers' # {}
    BY <1>2 DEF MarkPending, Accounted, Marked
  <2>2. log.authored \ relabelled \subseteq Published
    BY <2>1 DEF Covered
  <2>3. Published' = Published /\ UNCHANGED <<log, relabelled>>
    BY <1>2 DEF MarkPending, Published
  <2>4. Promise!Announce
    BY <2>1, <2>2, <2>3 DEF Promise!Announce
  <2>5. QED
    BY <2>4 DEF Promise!Next
<1>3. CASE Succeeds(t) \/ IsAmbiguous(t)
  <2>1. markers # {} /\ UNCHANGED <<markers, held, relabelled>>
    BY <1>3 DEF Succeeds, IsAmbiguous, Accounted, Marked
  <2>2. CASE UNCHANGED log
    BY <2>1, <2>2, StepAside DEF Stored
  <2>3. CASE \E e \in Events : Appends(e)
    BY <2>1, <2>3, AppendIsAnnounced
  <2>4. QED
    BY <1>3, <2>2, <2>3 DEF Succeeds, IsAmbiguous
<1>4. CASE Replace(t)
  <2>1. head[t].authored \in SUBSET Events
    BY DEF TypeOK, Logs
  <2>2. QED
    BY <1>4, <2>1, RewriteIsPublication DEF Replace
<1>5. CASE Complete(t)
  <2>1. markers # {} /\ markers' = {}
    BY <1>5 DEF Complete, Accounted, Marked
  <2>2. log.authored \ relabelled \subseteq Published
    BY <1>5 DEF Complete, Covered
  <2>3. Published' = Published /\ UNCHANGED <<log, relabelled>>
    BY <1>5 DEF Complete, Published
  <2>4. Promise!Withdraw
    BY <2>1, <2>2, <2>3 DEF Promise!Withdraw
  <2>5. QED
    BY <2>4 DEF Promise!Next
<1>6. QED
  BY <1>1, <1>2, <1>3, <1>4, <1>5 DEF Proceeds

\* What stands beside the guard keeps the promise as well: a relabel's event is
\* set apart, and a repair publishes before it clears.
LEMMA BesideAsPromised ==
    ASSUME TypeOK,
           \/ \E e \in Events : Relabel(e)
           \/ SyncGuide
           \/ \E b \in Branches \cup held : Checkout(b)
           \/ ExportRead \/ ExportWrite \/ Repair
           \/ Covered /\ \E part \in SUBSET file.events : Import(part)
    PROVE  [Promise!Next]_(Promise!vars)
<1> USE DEF files, locals
<1>1. ASSUME NEW e \in Events, Relabel(e)
      PROVE  [Promise!Next]_(Promise!vars)
  <2>1. log'.authored = log.authored \cup {e} /\ relabelled' = relabelled \cup {e}
        /\ e \notin log.authored
    BY <1>1 DEF Relabel, Appends, TypeOK, Logs
  <2>2. Stored' = Stored
    BY <2>1 DEF Stored
  <2>3. QED
    BY <1>1, <2>2, StepAside DEF Relabel
<1>2. CASE SyncGuide
  <2>1. log'.authored = log.authored
    BY <1>2 DEF SyncGuide, TypeOK, Logs
  <2>2. QED
    BY <1>2, <2>1, StepAside DEF SyncGuide, Stored
<1>3. ASSUME NEW b \in Branches \cup held, Checkout(b)
      PROVE  [Promise!Next]_(Promise!vars)
  <2>1. b \in SUBSET Events
    BY DEF TypeOK
  <2>2. QED
    BY <1>3, <2>1, RewriteIsPublication DEF Checkout
<1>4. CASE ExportRead
  BY <1>4, StepAside DEF ExportRead, Stored
<1>5. CASE ExportWrite
  <2>1. export \in SUBSET Events
    BY <1>5 DEF ExportWrite, TypeOK
  <2>2. QED
    BY <1>5, <2>1, RewriteIsPublication DEF ExportWrite
<1>6. CASE Repair
  <2>1. log.authored \in SUBSET Events /\ markers # {} /\ markers' = {}
        /\ UNCHANGED <<log, relabelled>>
    BY <1>6 DEF Repair, TypeOK, Logs
  <2>2. Published' = Published \cup log.authored
    BY <1>6 DEF Repair, Rewrites, Published
  <2>3. Promise!Recover(log.authored)
    BY <2>1, <2>2 DEF Promise!Recover
  <2>4. QED
    BY <2>1, <2>3 DEF Promise!Next
<1>7. ASSUME Covered, NEW part \in SUBSET file.events, Import(part)
      PROVE  [Promise!Next]_(Promise!vars)
  <2>1. log.authored = {} /\ log'.authored = part
        /\ UNCHANGED <<file, markers, held, relabelled>>
    BY <1>7 DEF Import, NoLog
  <2>2. Published' = Published
    BY <2>1 DEF Published
  <2>3. part \ relabelled \in SUBSET Events /\ part \ relabelled \subseteq Published
    BY <1>7 DEF Covered, TypeOK
  <2>4. Promise!Refill(part \ relabelled)
    BY <2>1, <2>2, <2>3 DEF Promise!Refill
  <2>5. QED
    BY <2>3, <2>4 DEF Promise!Next
<1>8. QED
  BY <1>1, <1>2, <1>3, <1>4, <1>5, <1>6, <1>7

\* For any interference, with relabels, and with git and exports that do not
\* wait: each step of the guard and of all that stands beside it is a step of
\* the promise or none of its.
THEOREM GuardKeepsPromise == Spec => KeepsPromise
<1>1. Init => Promise!Init
  BY DEF Init, Promise!Init, Published, NoLog
<1>2. TypeOK /\ Exclusive /\ Accounted /\ Covered /\ [Next]_vars
        => [Promise!Next]_(Promise!vars)
  <2> SUFFICES ASSUME TypeOK, Exclusive, Accounted, Covered, [Next]_vars
               PROVE  [Promise!Next]_(Promise!vars)
    OBVIOUS
  <2>1. CASE UNCHANGED vars
    BY <2>1, StepAside DEF vars, files, Stored
  <2>2. ASSUME NEW t \in Tasks, Begin(t) \/ Abandon(t)
        PROVE  [Promise!Next]_(Promise!vars)
    BY <2>2, StepAside DEF Begin, Abandon, Stored
  <2>3. ASSUME NEW t \in Tasks, Land(t)
        PROVE  [Promise!Next]_(Promise!vars)
    <3>1. markers # {} /\ UNCHANGED <<markers, held, relabelled>>
      BY <2>3 DEF Land, Accounted
    <3>2. CASE UNCHANGED log
      BY <3>1, <3>2, StepAside DEF Stored
    <3>3. CASE \E e \in Events : Appends(e)
      BY <3>1, <3>3, AppendIsAnnounced
    <3>4. QED
      BY <2>3, <3>2, <3>3 DEF Land
  <2>4. ASSUME NEW p \in Processes, Crash(p)
        PROVE  [Promise!Next]_(Promise!vars)
    BY <2>4, StepAside DEF Crash, Stored
  <2>5. QED
    BY <2>1, <2>2, <2>3, <2>4, ProceedsAsPromised, BesideAsPromised DEF Next
<1>3. QED
  BY <1>1, <1>2, Bookkeeping, AlwaysCovered, PTL DEF Spec, KeepsPromise, Promise!Spec
=============================================================================
