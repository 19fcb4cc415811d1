------------------------ MODULE ContextEventsProofs ------------------------
(***************************************************************************)
(* What holds of the write path for any number of processes, tasks, abouts *)
(* and keys, over each of the three stores.                                *)
(***************************************************************************)
EXTENDS ContextEvents, SequenceTheorems, TLAPS

\* Every proof below may use these.
USE NoneAssumption, CommandAssumption, HostAssumption

\* Every variable of a step but the log's is a table updated at one key.
LEMMA UpdatedTable ==
    ASSUME NEW D, NEW R, NEW f \in [D -> R], NEW x, NEW y \in R
    PROVE  [f EXCEPT ![x] = y] \in [D -> R]
OBVIOUS

\* The write a task has decided on.
LEMMA JobIsTyped ==
    ASSUME TypeOK, NEW t \in Tasks
    PROVE  Job(t) \in JobType
BY DEF TypeOK, Job, JobType

\* What a write leaves in the log, in the outcomes and in the revisions.
LEMMA RecordsAreTyped ==
    ASSUME NEW j \in JobType
    PROVE  /\ EventOf(j) \in Event
           /\ OutcomeOf(j) \in Outcome
           /\ [rev |-> j.cur + 1, hash |-> j.cmd.hash]
                \in [rev : Nat, hash : Hashes \cup {None}]
BY DEF JobType, EventOf, OutcomeOf, Event, Outcome, Command

\* The stores stay well typed when a job commits, records or is applied.
LEMMA StoresStayTyped ==
    ASSUME TypeOK, NEW j \in JobType
    PROVE  /\ CommitEvent(j) => /\ log' \in Seq(Event)
                                /\ head' \in [Abouts -> [rev : Nat,
                                              hash : Hashes \cup {None}]]
           /\ RecordOutcome(j) => outcomes' \in [Keys -> Outcome \cup {None}]
           /\ Apply(j) => applied' \in [Abouts -> Seq(Nat)]
<1> DEFINE h == [rev |-> j.cur + 1, hash |-> j.cmd.hash]
<1>1. /\ EventOf(j) \in Event
      /\ OutcomeOf(j) \in Outcome
      /\ h \in [rev : Nat, hash : Hashes \cup {None}]
  BY RecordsAreTyped
<1>2. /\ j.cur + 1 \in Nat
      /\ j.cmd.about \in Abouts
      /\ j.cmd.key \in Keys \cup {None}
  BY DEF JobType, Command
<1> HIDE DEF h
<1>3. CommitEvent(j) => log' \in Seq(Event)
  BY <1>1 DEF CommitEvent, TypeOK
<1>4. CommitEvent(j) => head' = [head EXCEPT ![j.cmd.about] = h]
  BY DEF CommitEvent, h
<1>5. CommitEvent(j) =>
        head' \in [Abouts -> [rev : Nat, hash : Hashes \cup {None}]]
  <2>1. head \in [Abouts -> [rev : Nat, hash : Hashes \cup {None}]]
    BY DEF TypeOK
  <2>2. QED
    BY <1>1, <1>4, <2>1, UpdatedTable
<1>6. RecordOutcome(j) => outcomes' \in [Keys -> Outcome \cup {None}]
  BY <1>1, <1>2 DEF RecordOutcome, TypeOK
<1>7. Apply(j) => applied' \in [Abouts -> Seq(Nat)]
  <2> DEFINE s == Append(applied[j.cmd.about], j.cur + 1)
  <2>1. applied[j.cmd.about] \in Seq(Nat)
    BY <1>2 DEF TypeOK
  <2>2. s \in Seq(Nat)
    BY <1>2, <2>1
  <2>3. Apply(j) => applied' = [applied EXCEPT ![j.cmd.about] = s]
    BY DEF Apply
  <2> HIDE DEF s
  <2>4. applied \in [Abouts -> Seq(Nat)]
    BY DEF TypeOK
  <2>5. [applied EXCEPT ![j.cmd.about] = s] \in [Abouts -> Seq(Nat)]
    BY <2>2, <2>4, UpdatedTable, Zenon
  <2>6. QED
    BY <2>3, <2>5
<1>8. QED
  BY <1>3, <1>5, <1>6, <1>7

\* So the four stores stay typed in a step that commits a job, and so do the
\* locals of a call in a step that moves or answers it.
LEMMA CommitIsTyped ==
    ASSUME TypeOK, NEW j \in JobType, Commit(j)
    PROVE  /\ log' \in Seq(Event)
           /\ head' \in [Abouts -> [rev : Nat, hash : Hashes \cup {None}]]
           /\ outcomes' \in [Keys -> Outcome \cup {None}]
           /\ applied' \in [Abouts -> Seq(Nat)]
<1>1. CASE Atomic
  BY <1>1, StoresStayTyped DEF Commit
<1>2. CASE ~Atomic
  BY <1>2, StoresStayTyped DEF Commit, TypeOK
<1>3. QED
  BY <1>1, <1>2

LocalsOK ==
    /\ lock \in [Kernels -> Tasks \cup {None}]
    /\ pc \in [Tasks -> Steps]
    /\ cmd \in [Tasks -> Command]
    /\ reads \in [Tasks -> ReadSet]
    /\ todo \in [Tasks -> SUBSET Abouts]
    /\ cur \in [Tasks -> Nat]
    /\ reply \in [Tasks -> Replies]
    /\ attempt \in [Tasks -> Nat]
    /\ attempts \in Nat

\* The moves of a task within its own call: answering, going on to another
\* step and starting over after a conflict.
LEMMA MovesAreTyped ==
    ASSUME TypeOK, NEW t \in Tasks
    PROVE  /\ \A r \in Replies : Answer(t, r) => LocalsOK'
           /\ \A s \in Steps : Goto(t, s) => LocalsOK'
           /\ Conflict(t) => LocalsOK'
<1>1. ASSUME NEW r \in Replies, Answer(t, r) PROVE LocalsOK'
  BY <1>1 DEF TypeOK, LocalsOK, Answer, Steps
<1>2. ASSUME NEW s \in Steps, Goto(t, s) PROVE LocalsOK'
  BY <1>2 DEF TypeOK, LocalsOK, Goto
<1>3. Reply("retry", 0) \in Replies
  BY DEF Reply, Replies
<1>4. QED
  BY <1>1, <1>2, <1>3 DEF Conflict

StoresOK ==
    /\ log \in Seq(Event)
    /\ head \in [Abouts -> [rev : Nat, hash : Hashes \cup {None}]]
    /\ outcomes \in [Keys -> Outcome \cup {None}]
    /\ applied \in [Abouts -> Seq(Nat)]

\* The type invariant, as its parts.
LEMMA TypeParts ==
    /\ TypeOK <=> StoresOK /\ LocalsOK /\ inflight \subseteq JobType
    /\ TypeOK' <=> StoresOK' /\ LocalsOK' /\ inflight' \subseteq JobType
BY DEF TypeOK, StoresOK, LocalsOK

\* A call begins on a command and on the revisions sampled for it.
LEMMA SampleIsTyped ==
    ASSUME TypeOK, NEW c \in Commands
    PROVE  c \in Command /\ SampledNow(c) \in ReadSet
BY DEF TypeOK, SampledNow, ReadSet

\* A task begins a call or takes the write guard.
LEMMA CallIsTyped ==
    ASSUME TypeOK, NEW t \in Tasks, Call(t) \/ Acquire(t)
    PROVE  TypeOK'
<1>1. CASE Call(t)
  <2>1. PICK c \in Commands : Begin(t, c, SampledNow(c))
    BY <1>1 DEF Call
  <2>2. c \in Command /\ SampledNow(c) \in ReadSet
    BY SampleIsTyped
  <2>3. NoReply \in Replies
    BY DEF NoReply, Reply, Replies
  <2>4. LocalsOK'
    BY <2>1, <2>2, <2>3 DEF Begin, TypeOK, LocalsOK, Steps
  <2>5. QED
    BY <2>1, <2>4, TypeParts DEF Begin, StoresOK, stores, TypeOK
<1>2. CASE Acquire(t)
  <2>1. LocalsOK'
    BY <1>2 DEF Acquire, TypeOK, LocalsOK, Steps
  <2>2. QED
    BY <1>2, <2>1, TypeParts DEF Acquire, StoresOK, stores, TypeOK
<1>3. QED
  BY <1>1, <1>2

\* A task reads and decides, and writes nothing.
LEMMA CheckIsTyped ==
    ASSUME TypeOK, NEW t \in Tasks,
           \/ Precheck(t)
           \/ \E a \in Abouts : Recheck(t, a)
           \/ CheckKey(t)
           \/ LoadRevision(t)
           \/ LoadHash(t)
           \/ ReadLast(t)
    PROVE  TypeOK'
<1>1. LocalsOK'
  <2>1. CASE Precheck(t)
    BY <2>1 DEF Precheck, TypeOK, LocalsOK, Steps
  <2>2. ASSUME NEW a \in Abouts, Recheck(t, a) PROVE LocalsOK'
    <3>1. CASE head[a].rev = reads[t][a]
      <4>1. todo[t] \ {a} \in SUBSET Abouts
        BY DEF TypeOK
      <4>2. todo' = [todo EXCEPT ![t] = todo[t] \ {a}]
        BY <2>2, <3>1 DEF Recheck
      <4>3. todo' \in [Tasks -> SUBSET Abouts]
        BY <4>1, <4>2 DEF TypeOK
      <4>4. QED
        BY <2>2, <3>1, <4>3 DEF Recheck, TypeOK, LocalsOK
    <3>2. CASE head[a].rev # reads[t][a]
      BY <2>2, <3>2, MovesAreTyped DEF Recheck
    <3>3. QED
      BY <3>1, <3>2
  <2>3. CASE CheckKey(t)
    <3>1. CASE KeyIsAccepted(t)
      <4>1. outcomes[cmd[t].key] \in Outcome
        BY <3>1 DEF KeyIsAccepted, TypeOK, Command
      <4>2. /\ Reply("replayed", outcomes[cmd[t].key].rev) \in Replies
            /\ Reply("refused", 0) \in Replies
        BY <4>1 DEF Reply, Replies, Outcome
      <4>3. QED
        BY <2>3, <3>1, <4>2, MovesAreTyped DEF CheckKey
    <3>2. CASE ~KeyIsAccepted(t)
      BY <2>3, <3>2, MovesAreTyped DEF CheckKey, Steps
    <3>3. QED
      BY <3>1, <3>2
  <2>4. CASE LoadRevision(t)
    <3>1. CASE cmd[t].expected \in {None, head[cmd[t].about].rev}
      <4>1. cmd[t].about \in Abouts /\ head[cmd[t].about].rev \in Nat
        BY DEF TypeOK, Command
      <4>2. QED
        BY <2>4, <3>1, <4>1 DEF LoadRevision, TypeOK, LocalsOK, Steps
    <3>2. CASE cmd[t].expected \notin {None, head[cmd[t].about].rev}
      BY <2>4, <3>2, MovesAreTyped DEF LoadRevision
    <3>3. QED
      BY <3>1, <3>2
  <2>5. CASE LoadHash(t)
    BY <2>5, MovesAreTyped DEF LoadHash, Steps
  <2>6. CASE ReadLast(t)
    BY <2>6, MovesAreTyped DEF ReadLast, Steps
  <2>7. QED
    BY <2>1, <2>2, <2>3, <2>4, <2>5, <2>6
<1>2. UNCHANGED <<stores, inflight>>
  BY DEF Precheck, Recheck, CheckKey, LoadRevision, LoadHash, ReadLast
<1>3. QED
  BY <1>1, <1>2, TypeParts DEF StoresOK, stores

\* A task appends, records, or projects.
LEMMA WriteIsTyped ==
    ASSUME TypeOK, NEW t \in Tasks,
           AppendEvent(t) \/ Record(t) \/ LoseOutcome(t) \/ Project(t)
    PROVE  TypeOK'
<1> DEFINE j == Job(t)
<1>1. j \in JobType
  BY JobIsTyped
<1>2. Reply("accepted", cur[t] + 1) \in Replies
  BY DEF TypeOK, Reply, Replies
<1> HIDE DEF j
<1>3. inflight' = inflight
  BY DEF AppendEvent, Record, LoseOutcome, Project
<1>4. LocalsOK'
  <2>1. CASE AppendEvent(t)
    BY <1>2, <2>1, MovesAreTyped DEF AppendEvent, Steps
  <2>2. CASE Record(t) \/ LoseOutcome(t)
    BY <2>2, MovesAreTyped DEF Record, LoseOutcome, Steps
  <2>3. CASE Project(t)
    BY <1>2, <2>3, MovesAreTyped DEF Project
  <2>4. QED
    BY <2>1, <2>2, <2>3
<1>5. StoresOK'
  <2>1. CASE AppendEvent(t)
    <3>1. Commit(j) \/ UNCHANGED stores
      BY <2>1 DEF AppendEvent, j
    <3>2. QED
      BY <1>1, <3>1, CommitIsTyped, TypeParts DEF StoresOK, stores
  <2>2. CASE Record(t)
    BY <1>1, <2>2, StoresStayTyped, TypeParts DEF Record, StoresOK, j
  <2>3. CASE LoseOutcome(t)
    BY <2>3, TypeParts DEF LoseOutcome, StoresOK, stores
  <2>4. CASE Project(t)
    BY <1>1, <2>4, StoresStayTyped, TypeParts DEF Project, StoresOK, j
  <2>5. QED
    BY <2>1, <2>2, <2>3, <2>4
<1>6. QED
  BY <1>3, <1>4, <1>5, TypeParts

\* A task fails or its caller leaves, or a write it left behind lands.
LEMMA FaultIsTyped ==
    ASSUME TypeOK,
           \/ \E t \in Tasks : Fail(t) \/ Leave(t)
           \/ \E j \in inflight : Land(j)
    PROVE  TypeOK'
<1>1. ASSUME NEW t \in Tasks, Fail(t) \/ Leave(t) PROVE TypeOK'
  <2>1. Reply("error", 0) \in Replies
    BY DEF Reply, Replies
  <2>2. LocalsOK'
    BY <1>1, <2>1, MovesAreTyped DEF Fail, Leave
  <2>3. inflight' \subseteq JobType
    BY <1>1, JobIsTyped, TypeParts DEF Fail, Leave
  <2>4. QED
    BY <1>1, <2>2, <2>3, TypeParts DEF Fail, Leave, StoresOK, stores
<1>2. ASSUME NEW j \in inflight, Land(j) PROVE TypeOK'
  <2>1. j \in JobType
    BY TypeParts
  <2>2. StoresOK'
    <3>1. CASE Commit(j)
      BY <2>1, <3>1, CommitIsTyped DEF StoresOK
    <3>2. CASE UNCHANGED stores
      BY <3>2, TypeParts DEF StoresOK, stores
    <3>3. CASE RecordOutcome(j) /\ UNCHANGED <<log, head, applied>>
      BY <2>1, <3>3, StoresStayTyped, TypeParts DEF StoresOK
    <3>4. CASE Apply(j) /\ UNCHANGED <<log, head, outcomes>>
      BY <2>1, <3>4, StoresStayTyped, TypeParts DEF StoresOK
    <3>5. QED
      BY <1>2, <3>1, <3>2, <3>3, <3>4 DEF Land
  <2>3. LocalsOK'
    BY <1>2, TypeParts DEF Land, LocalsOK, calls
  <2>4. inflight' \subseteq JobType
    BY <1>2, TypeParts DEF Land
  <2>5. QED
    BY <2>2, <2>3, <2>4, TypeParts
<1>3. QED
  BY <1>1, <1>2

\* Empty stores and idle tasks.
LEMMA InitIsTyped == Init => TypeOK
<1> SUFFICES ASSUME Init PROVE TypeOK
  OBVIOUS
<1>1. (CHOOSE c \in Commands : TRUE) \in Command
  BY CommandAssumption
<1>2. NoReply \in Replies /\ NoReads \in ReadSet
  BY DEF NoReply, Reply, Replies, NoReads, ReadSet
<1>3. LocalsOK
  BY <1>1, <1>2 DEF Init, LocalsOK, Steps
<1>4. StoresOK
  BY DEF Init, StoresOK, NoHead
<1>5. QED
  BY <1>3, <1>4, TypeParts DEF Init

\* Every variable keeps its type, whatever calls are made and whatever fails.
THEOREM TypeCorrect == Spec => []TypeOK
<1>1. Init => TypeOK
  BY InitIsTyped
<1>2. TypeOK /\ [Next]_vars => TypeOK'
  <2> SUFFICES ASSUME TypeOK, [Next]_vars PROVE TypeOK'
    OBVIOUS
  <2>1. CASE UNCHANGED vars
    BY <2>1, TypeParts DEF vars, calls, stores, StoresOK, LocalsOK
  <2>2. CASE Next
    BY <2>1, <2>2, CallIsTyped, CheckIsTyped, WriteIsTyped, FaultIsTyped
       DEF Next, Work, Quiet
  <2>3. QED
    BY <2>1, <2>2
<1>3. QED
  BY <1>1, <1>2, PTL DEF Spec

-----------------------------------------------------------------------------
(* A step either leaves log and heads alone or commits one job whose       *)
(* revisions hold at that moment: the shape every result below rests on.   *)

Placed(j) == RevisionsHold(j) /\ CommitEvent(j)

\* A step that grows the log does so by placing one write.
LEMMA StepPlaces ==
    ASSUME TypeOK, [Next]_vars
    PROVE  \/ UNCHANGED <<log, head>>
           \/ \E j \in JobType : Placed(j)
<1>1. CASE UNCHANGED vars
  BY <1>1 DEF vars, stores
<1>2. ASSUME NEW t \in Tasks, AppendEvent(t)
      PROVE  UNCHANGED <<log, head>> \/ \E j \in JobType : Placed(j)
  <2>1. Job(t) \in JobType
    BY JobIsTyped
  <2>2. CASE RevisionsHold(Job(t))
    <3>1. CommitEvent(Job(t))
      BY <1>2, <2>2 DEF AppendEvent, Commit
    <3>2. QED
      BY <2>1, <2>2, <3>1 DEF Placed
  <2>3. CASE ~RevisionsHold(Job(t))
    BY <1>2, <2>3 DEF AppendEvent, stores
  <2>4. QED
    BY <2>2, <2>3
<1>3. ASSUME NEW j \in inflight, Land(j)
      PROVE  UNCHANGED <<log, head>> \/ \E i \in JobType : Placed(i)
  <2>1. j \in JobType
    BY TypeParts
  <2>2. CASE RevisionsHold(j) /\ Commit(j)
    <3>1. CommitEvent(j)
      BY <2>2 DEF Commit
    <3>2. QED
      BY <2>1, <2>2, <3>1 DEF Placed
  <2>3. CASE UNCHANGED <<log, head>>
    BY <2>3
  <2>4. QED
    BY <1>3, <2>2, <2>3 DEF Land, stores
<1>4. ASSUME NEW t \in Tasks,
             \/ Call(t) \/ Acquire(t) \/ Fail(t) \/ Leave(t) \/ Precheck(t)
             \/ (\E a \in Abouts : Recheck(t, a)) \/ CheckKey(t)
             \/ LoadRevision(t) \/ LoadHash(t) \/ ReadLast(t) \/ Record(t)
             \/ LoseOutcome(t) \/ Project(t)
      PROVE  UNCHANGED <<log, head>>
  BY <1>4 DEF Call, Begin, Acquire, Fail, Leave, Precheck, Recheck, CheckKey,
              LoadRevision, LoadHash, ReadLast, Record, LoseOutcome, Project,
              stores
<1>5. CASE Quiet
  BY <1>5 DEF Quiet, vars, stores
<1>6. QED
  BY <1>1, <1>2, <1>3, <1>4, <1>5 DEF Next, Work

\* What a placed job makes of log and heads, one index at a time.
LEMMA PlacedLog ==
    ASSUME TypeOK, NEW j \in JobType, Placed(j)
    PROVE  /\ j.cmd.about \in Abouts
           /\ j.cur \in Nat
           /\ j.cur = head[j.cmd.about].rev
           /\ Len(log') = Len(log) + 1
           /\ Len(log) \in Nat
           /\ \A i \in 1..Len(log) : log'[i] = log[i]
           /\ log'[Len(log) + 1] = EventOf(j)
           /\ head'[j.cmd.about] = [rev |-> j.cur + 1, hash |-> j.cmd.hash]
           /\ \A a \in Abouts \ {j.cmd.about} : head'[a] = head[a]
<1>1. j.cmd.about \in Abouts /\ j.cur \in Nat
  BY DEF JobType, Command
<1>2. EventOf(j) \in Event /\ log \in Seq(Event)
  BY RecordsAreTyped DEF TypeOK
<1>3. log' = Append(log, EventOf(j))
  BY DEF Placed, CommitEvent
<1>4. /\ Len(log') = Len(log) + 1
      /\ Len(log) \in Nat
      /\ \A i \in 1..Len(log) : log'[i] = log[i]
      /\ log'[Len(log) + 1] = EventOf(j)
  <2> DEFINE e == EventOf(j)
  <2> HIDE DEF e
  <2>1. e \in Event /\ log' = Append(log, e)
    BY <1>2, <1>3 DEF e
  <2>2. QED
    BY <1>2, <2>1 DEF e
<1>5. j.cur = head[j.cmd.about].rev
  BY DEF Placed, RevisionsHold
<1>6. /\ head'[j.cmd.about] = [rev |-> j.cur + 1, hash |-> j.cmd.hash]
      /\ \A a \in Abouts \ {j.cmd.about} : head'[a] = head[a]
  <2>1. head \in [Abouts -> [rev : Nat, hash : Hashes \cup {None}]]
    BY DEF TypeOK
  <2>2. QED
    BY <1>1, <2>1 DEF Placed, CommitEvent
<1>7. QED
  BY <1>1, <1>4, <1>5, <1>6

\* A placed write takes the next revision of its about.
LEMMA PlacedKeepsContiguous ==
    ASSUME TypeOK, RevisionsContiguous, NEW j \in JobType, Placed(j)
    PROVE  RevisionsContiguous'
<1> DEFINE ab == j.cmd.about
           n == Len(log)
<1>1. /\ ab \in Abouts
      /\ j.cur \in Nat
      /\ j.cur = head[ab].rev
      /\ Len(log') = n + 1
      /\ n \in Nat
      /\ \A i \in 1..n : log'[i] = log[i]
      /\ log'[n + 1] = EventOf(j)
      /\ head'[ab] = [rev |-> j.cur + 1, hash |-> j.cmd.hash]
      /\ \A a \in Abouts \ {ab} : head'[a] = head[a]
  BY PlacedLog, Zenon
<1>2. /\ log'[n + 1].cmd.about = ab
      /\ log'[n + 1].rev = j.cur + 1
      /\ head'[ab].rev = j.cur + 1
  BY <1>1 DEF EventOf
<1>3. \A i \in 1..n : /\ log[i].cmd.about \in Abouts
                      /\ log[i].rev \in 1..head[log[i].cmd.about].rev
                      /\ head[log[i].cmd.about].rev \in Nat
  <2>1. \A i \in 1..n : log[i] \in Event
    BY DEF TypeOK
  <2>2. \A i \in 1..n : log[i].cmd.about \in Abouts
    BY <2>1 DEF Event, Command
  <2>3. QED
    BY <2>2 DEF TypeOK, RevisionsContiguous
<1>4. \A a \in Abouts : head[a].rev \in Nat
  BY DEF TypeOK
<1> HIDE DEF ab, n
<1>5. \A i \in 1..Len(log') : log'[i].rev \in 1..head'[log'[i].cmd.about].rev
  <2> SUFFICES ASSUME NEW i \in 1..(n + 1)
               PROVE  log'[i].rev \in 1..head'[log'[i].cmd.about].rev
    BY <1>1
  <2>1. CASE i = n + 1
    BY <1>1, <1>2, <2>1
  <2>2. CASE i \in 1..n
    <3>1. CASE log[i].cmd.about = ab
      BY <1>1, <1>3, <2>2, <3>1, SMTT(30)
    <3>2. CASE log[i].cmd.about # ab
      BY <1>1, <1>3, <2>2, <3>2
    <3>3. QED
      BY <3>1, <3>2
  <2>3. QED
    BY <1>1, <2>1, <2>2
<1>6. \A a \in Abouts : \A r \in 1..head'[a].rev :
        \E i \in 1..Len(log') : log'[i].cmd.about = a /\ log'[i].rev = r
  <2> SUFFICES ASSUME NEW a \in Abouts, NEW r \in 1..head'[a].rev
               PROVE  \E i \in 1..(n + 1) :
                         log'[i].cmd.about = a /\ log'[i].rev = r
    BY <1>1
  <2>1. CASE a = ab /\ r = j.cur + 1
    BY <1>1, <1>2, <2>1
  <2>2. CASE ~(a = ab /\ r = j.cur + 1)
    <3>1. r \in 1..head[a].rev
      BY <1>1, <1>4, <2>2
    <3>2. PICK i \in 1..n : log[i].cmd.about = a /\ log[i].rev = r
      BY <3>1 DEF RevisionsContiguous, n
    <3>3. QED
      BY <1>1, <3>2
  <2>3. QED
    BY <2>1, <2>2
<1>7. \A i, k \in 1..Len(log') :
        i < k /\ log'[i].cmd.about = log'[k].cmd.about
          => log'[i].rev < log'[k].rev
  <2> SUFFICES ASSUME NEW i \in 1..(n + 1), NEW k \in 1..(n + 1), i < k,
                      log'[i].cmd.about = log'[k].cmd.about
               PROVE  log'[i].rev < log'[k].rev
    BY <1>1
  <2>1. i \in 1..n
    BY <1>1
  <2>2. CASE k = n + 1
    BY <1>1, <1>2, <1>3, <2>1, <2>2
  <2>3. CASE k \in 1..n
    BY <1>1, <2>1, <2>3 DEF RevisionsContiguous, n
  <2>4. QED
    BY <1>1, <2>2, <2>3
<1>8. QED
  BY <1>5, <1>6, <1>7 DEF RevisionsContiguous

\* No update is lost: however many processes load a revision and append
\* against it later, the events of every about carry the revisions 1..head,
\* each once and in commit order.
THEOREM NoUpdateIsLost == Spec => []RevisionsContiguous
<1>1. Init => RevisionsContiguous
  BY DEF Init, RevisionsContiguous, NoHead
<1>2. TypeOK /\ RevisionsContiguous /\ [Next]_vars => RevisionsContiguous'
  <2> SUFFICES ASSUME TypeOK, RevisionsContiguous, [Next]_vars
               PROVE  RevisionsContiguous'
    OBVIOUS
  <2>1. CASE UNCHANGED <<log, head>>
    BY <2>1 DEF RevisionsContiguous
  <2>2. CASE \E j \in JobType : Placed(j)
    BY <2>2, PlacedKeepsContiguous
  <2>3. QED
    BY <2>1, <2>2, StepPlaces
<1>3. QED
  BY <1>1, <1>2, TypeCorrect, PTL DEF Spec

-----------------------------------------------------------------------------
(* The write path implements the promised log.                             *)

Entries == [about : Abouts, rev : Nat, key : Keys \cup {None}]

\* The log as the contract sees it is a sequence of entries, one per event.
LEMMA MappedLog ==
    ASSUME NEW s \in Seq(Event)
    PROVE  LET h == [i \in 1..Len(s) |-> Entry(s[i])] IN
           /\ h \in Seq(Entries)
           /\ Len(h) = Len(s)
           /\ \A i \in 1..Len(s) : h[i] = Entry(s[i])
<1> DEFINE h == [i \in 1..Len(s) |-> Entry(s[i])]
<1>1. Len(s) \in Nat
  OBVIOUS
<1>2. \A i \in 1..Len(s) : s[i] \in Event
  OBVIOUS
<1>3. \A i \in 1..Len(s) : Entry(s[i]) \in Entries
  BY <1>2 DEF Entry, Entries, Event, Command
<1>4. h \in [1..Len(s) -> Entries]
  BY <1>3
<1>5. h \in Seq(Entries) /\ Len(h) = Len(s)
  BY <1>1, <1>4
<1>6. QED
  BY <1>5

\* A placed write is a commit of the contract's log.
LEMMA PlacedImplementsCommit ==
    ASSUME TypeOK, TypeOK', NEW j \in JobType, Placed(j)
    PROVE  Promised!Commit(j.cmd.about, j.cmd.key)
<1> DEFINE ab == j.cmd.about
           e == [about |-> ab, rev |-> j.cur + 1, key |-> j.cmd.key]
<1>1. /\ ab \in Abouts
      /\ j.cur \in Nat
      /\ j.cur = head[ab].rev
      /\ Len(log') = Len(log) + 1
      /\ Len(log) \in Nat
      /\ \A i \in 1..Len(log) : log'[i] = log[i]
      /\ log'[Len(log) + 1] = EventOf(j)
      /\ head'[ab] = [rev |-> j.cur + 1, hash |-> j.cmd.hash]
      /\ \A a \in Abouts \ {ab} : head'[a] = head[a]
  BY PlacedLog, Zenon
<1>2. /\ History \in Seq(Entries)
      /\ Len(History) = Len(log)
      /\ \A i \in 1..Len(log) : History[i] = Entry(log[i])
  BY MappedLog DEF History, TypeOK
<1>3. /\ History' \in Seq(Entries)
      /\ Len(History') = Len(log')
      /\ \A i \in 1..Len(log') : History'[i] = Entry(log'[i])
  BY MappedLog DEF History, TypeOK
<1>4. Entry(EventOf(j)) = e
  BY DEF Entry, EventOf
<1>5. e \in Entries
  BY <1>1 DEF Entries, JobType, Command
<1>6. History' = Append(History, e)
  <2> DEFINE h == Append(History, e)
  <2> HIDE DEF e
  <2>1. /\ h \in Seq(Entries)
        /\ Len(h) = Len(History) + 1
        /\ \A i \in 1..Len(History) : h[i] = History[i]
        /\ h[Len(History) + 1] = e
    BY <1>2, <1>5
  <2>2. \A i \in 1..Len(log) : Entry(log'[i]) = Entry(log[i])
    BY <1>1
  <2>3. Entry(log'[Len(log) + 1]) = e
    BY <1>1, <1>4
  <2> HIDE DEF h
  <2>4. \A i \in 1..Len(History') : History'[i] = h[i]
    <3> SUFFICES ASSUME NEW i \in 1..(Len(log) + 1) PROVE History'[i] = h[i]
      BY <1>1, <1>3
    <3>1. CASE i = Len(log) + 1
      BY <1>1, <1>2, <1>3, <2>1, <2>3, <3>1
    <3>2. CASE i \in 1..Len(log)
      BY <1>1, <1>2, <1>3, <2>1, <2>2, <3>2
    <3>3. QED
      BY <1>1, <3>1, <3>2
  <2>5. Len(History') = Len(h)
    BY <1>1, <1>2, <1>3, <2>1
  <2>6. QED
    BY <1>3, <2>1, <2>4, <2>5, SeqEqual, Zenon DEF h
<1>7. Revisions' = [Revisions EXCEPT ![ab] = @ + 1]
  BY <1>1 DEF Revisions
<1>8. Revisions[ab] = j.cur
  BY <1>1 DEF Revisions
<1>9. QED
  BY <1>6, <1>7, <1>8 DEF Promised!Commit

\* Over any store, any number of processes and any failures, the write path
\* is the append-only log with one revision sequence per about.
THEOREM WritePathImplementsLog == Spec => ImplementsLog
<1>1. Init => Promised!Init
  BY DEF Init, Promised!Init, History, Revisions, NoHead
<1>2. TypeOK /\ TypeOK' /\ [Next]_vars => [Promised!Next]_(Promised!vars)
  <2> SUFFICES ASSUME TypeOK, TypeOK', [Next]_vars
               PROVE  [Promised!Next]_(Promised!vars)
    OBVIOUS
  <2>1. CASE UNCHANGED <<log, head>>
    BY <2>1 DEF Promised!vars, History, Revisions
  <2>2. ASSUME NEW j \in JobType, Placed(j)
        PROVE  Promised!Next
    <3>1. j.cmd.about \in Abouts /\ j.cmd.key \in Keys \cup {None}
      BY DEF JobType, Command
    <3>2. Promised!Commit(j.cmd.about, j.cmd.key)
      BY <2>2, PlacedImplementsCommit
    <3>3. QED
      BY <3>1, <3>2 DEF Promised!Next
  <2>3. QED
    BY <2>1, <2>2, StepPlaces
<1>3. QED
  BY <1>1, <1>2, TypeCorrect, PTL DEF Spec, ImplementsLog, Promised!Spec

-----------------------------------------------------------------------------
(* One process over SQLite, callers that wait for their answer: the write  *)
(* lock covers the key's lookup and the commit, so a key is accepted once. *)

OneWriter == /\ Atomic
             /\ ~MayAbandon
             /\ \A s, t \in Tasks : Host[s] = Host[t]

InCall(t) == pc[t] \notin {"idle", "wait"}
PastCheck(t) == pc[t] \in {"revision", "hash", "append"}

\* A call inside the lock is alone there, one past its key's check has a key
\* nothing was accepted under, and no event is without its outcome.
SerialInv ==
    /\ inflight = {}
    /\ \A t \in Tasks : pc[t] \notin {"publish", "record", "project"}
    /\ \A t \in Tasks : InCall(t) => lock[Host[t]] = t
    /\ \A t \in Tasks : PastCheck(t) /\ cmd[t].key # None
                          => outcomes[cmd[t].key] = None
    /\ \A i \in 1..Len(log) : log[i].cmd.key # None
                               => outcomes[log[i].cmd.key] # None
    /\ AcceptedOnce

\* With one writer the task in a call is the only one.
LEMMA AloneInCall ==
    ASSUME OneWriter, TypeOK, SerialInv, NEW t \in Tasks, InCall(t)
    PROVE  \A s \in Tasks \ {t} : ~InCall(s)
BY DEF OneWriter, SerialInv, TypeOK

\* A step of one task that commits nothing and moves no other task.
LEMMA QuietStepKeepsSerial ==
    ASSUME OneWriter, TypeOK, SerialInv, NEW t \in Tasks,
           UNCHANGED <<stores, inflight>>,
           \A s \in Tasks \ {t} : pc'[s] = pc[s] /\ cmd'[s] = cmd[s],
           pc'[t] \notin {"publish", "record", "project"},
           PastCheck(t)' /\ cmd'[t].key # None => outcomes[cmd'[t].key] = None,
           \A s \in Tasks : InCall(s)' => lock'[Host[s]] = s
    PROVE  SerialInv'
<1>1. \A s \in Tasks \ {t} : PastCheck(s)' <=> PastCheck(s)
  BY DEF PastCheck
<1>2. \A s \in Tasks : PastCheck(s)' /\ cmd'[s].key # None
                        => outcomes'[cmd'[s].key] = None
  BY <1>1 DEF SerialInv, stores
<1>3. \A s \in Tasks : pc'[s] \notin {"publish", "record", "project"}
  BY DEF SerialInv
<1>4. AcceptedOnce'
  BY DEF SerialInv, AcceptedOnce, stores
<1>5. QED
  BY <1>2, <1>3, <1>4 DEF SerialInv, stores

\* The append of the only writer, on a key it has looked up and not found.
LEMMA CommitKeepsSerial ==
    ASSUME OneWriter, TypeOK, SerialInv, NEW t \in Tasks, AppendEvent(t),
           RevisionsHold(Job(t))
    PROVE  SerialInv'
<1> DEFINE k == cmd[t].key
           n == Len(log)
<1>1. Job(t) \in JobType
  BY JobIsTyped
<1>2. /\ pc[t] = "append"
      /\ CommitEvent(Job(t))
      /\ RecordOutcome(Job(t))
      /\ Answer(t, Reply("accepted", cur[t] + 1))
      /\ inflight' = inflight
  BY DEF AppendEvent, AppendStep, OneWriter, Atomic, Commit
<1>3. InCall(t) /\ \A s \in Tasks \ {t} : ~InCall(s)
  BY <1>2, AloneInCall DEF InCall
<1>4. \A s \in Tasks : ~InCall(s)'
  BY <1>2, <1>3 DEF Answer, InCall, TypeOK
<1>5. k # None => outcomes[k] = None
  BY <1>2 DEF SerialInv, PastCheck
<1>6. \A i \in 1..n : log[i].cmd.key # None => log[i].cmd.key # k
  BY <1>5 DEF SerialInv
<1>7. /\ Len(log') = n + 1
      /\ n \in Nat
      /\ \A i \in 1..n : log'[i] = log[i]
      /\ log'[n + 1] = EventOf(Job(t))
  <2>1. Placed(Job(t))
    BY <1>2 DEF Placed
  <2>2. QED
    BY <1>1, <2>1, PlacedLog, Zenon
<1>8. log'[n + 1].cmd.key = k
  BY <1>7 DEF EventOf, Job
<1>9. /\ outcomes \in [Keys -> Outcome \cup {None}]
      /\ k \in Keys \cup {None}
  BY DEF TypeOK, Command
<1>10. /\ \A x \in Keys \ {k} : outcomes'[x] = outcomes[x]
       /\ k # None => outcomes'[k] # None
  <2>1. CASE k = None
    BY <1>2, <2>1 DEF RecordOutcome, Job
  <2>2. CASE k # None
    <3>1. outcomes' = [outcomes EXCEPT ![k] = OutcomeOf(Job(t))]
      BY <1>2, <2>2 DEF RecordOutcome, Job
    <3>2. OutcomeOf(Job(t)) # None
      <4>1. None \notin Outcome
        BY NoneAssumption
      <4>2. QED
        BY <1>1, <4>1, RecordsAreTyped
    <3>3. QED
      BY <1>9, <2>2, <3>1, <3>2
  <2>3. QED
    BY <2>1, <2>2
<1>11. \A i \in 1..Len(log') : log'[i].cmd.key # None
                               => outcomes'[log'[i].cmd.key] # None
  <2> SUFFICES ASSUME NEW i \in 1..(n + 1), log'[i].cmd.key # None
               PROVE  outcomes'[log'[i].cmd.key] # None
    BY <1>7
  <2>1. CASE i = n + 1
    BY <1>8, <1>10, <2>1
  <2>2. CASE i \in 1..n
    <3>1. log[i] \in Event /\ log'[i] = log[i]
      BY <1>7, <2>2 DEF TypeOK
    <3>2. log[i].cmd.key \in Keys \ {k}
      BY <1>6, <2>2, <3>1 DEF Event, Command
    <3>3. outcomes[log[i].cmd.key] # None
      BY <2>2, <3>1 DEF SerialInv
    <3>4. QED
      BY <1>10, <3>1, <3>2, <3>3
  <2>3. QED
    BY <1>7, <2>1, <2>2
<1>12. AcceptedOnce'
  <2> SUFFICES ASSUME NEW i \in 1..(n + 1), NEW m \in 1..(n + 1), i # m,
                      log'[i].cmd.key # None
               PROVE  log'[i].cmd.key # log'[m].cmd.key
    BY <1>7 DEF AcceptedOnce
  <2> HIDE DEF k, n
  <2>1. CASE i = n + 1
    BY <1>6, <1>7, <1>8, <2>1
  <2>2. CASE m = n + 1
    BY <1>6, <1>7, <1>8, <2>2
  <2>3. CASE i \in 1..n /\ m \in 1..n
    BY <1>7, <2>3 DEF SerialInv, AcceptedOnce, n
  <2>4. QED
    BY <1>7, <2>1, <2>2, <2>3
<1>13. \A s \in Tasks : pc'[s] \notin {"publish", "record", "project"}
  BY <1>4 DEF InCall
<1>14. \A s \in Tasks : ~PastCheck(s)'
  BY <1>4 DEF InCall, PastCheck
<1>15. inflight' = {}
  BY <1>2 DEF SerialInv
<1>16. QED
  BY <1>4, <1>11, <1>12, <1>13, <1>14, <1>15 DEF SerialInv

\* Every step of a single writer.
LEMMA StepKeepsSerial ==
    ASSUME OneWriter, TypeOK, SerialInv, [Next]_vars
    PROVE  SerialInv'
<1>1. CASE UNCHANGED vars \/ Quiet
  BY <1>1 DEF Quiet, vars, calls, stores, SerialInv, AcceptedOnce, InCall,
              PastCheck
<1>2. ASSUME NEW t \in Tasks, Call(t) PROVE SerialInv'
  <2>1. PICK c \in Commands : Begin(t, c, SampledNow(c))
    BY <1>2 DEF Call
  <2>2. /\ UNCHANGED <<stores, inflight, lock>>
        /\ pc' = [pc EXCEPT ![t] = "wait"]
        /\ cmd' = [cmd EXCEPT ![t] = c]
    BY <2>1 DEF Begin
  <2>3. pc'[t] = "wait" /\ \A s \in Tasks \ {t} : pc'[s] = pc[s] /\ cmd'[s] = cmd[s]
    BY <2>2 DEF TypeOK
  <2>4. \A s \in Tasks : InCall(s)' => lock'[Host[s]] = s
    BY <2>2, <2>3 DEF InCall, SerialInv
  <2>5. QED
    BY <2>2, <2>3, <2>4, QuietStepKeepsSerial DEF PastCheck
<1>3. ASSUME NEW t \in Tasks, Acquire(t) PROVE SerialInv'
  <2>1. /\ UNCHANGED <<stores, inflight, cmd>>
        /\ lock[Host[t]] = None
        /\ lock' = [lock EXCEPT ![Host[t]] = t]
        /\ pc' = [pc EXCEPT ![t] = "precheck"]
    BY <1>3 DEF Acquire
  <2>2. \A s \in Tasks : ~InCall(s)
    BY <2>1 DEF SerialInv, OneWriter
  <2>3. pc'[t] = "precheck" /\ \A s \in Tasks \ {t} : pc'[s] = pc[s]
    BY <2>1 DEF TypeOK
  <2>4. lock'[Host[t]] = t
    BY <2>1 DEF TypeOK
  <2>5. \A s \in Tasks : InCall(s)' => lock'[Host[s]] = s
    BY <2>2, <2>3, <2>4 DEF InCall
  <2>6. QED
    BY <2>1, <2>3, <2>5, QuietStepKeepsSerial DEF PastCheck
<1>4. ASSUME NEW t \in Tasks, InCall(t), NEW s \in Steps, Goto(t, s),
             UNCHANGED <<stores, inflight>>,
             s \notin {"publish", "record", "project"},
             s \in {"revision", "hash", "append"} /\ cmd[t].key # None
               => outcomes[cmd[t].key] = None
      PROVE  SerialInv'
  <2>1. /\ UNCHANGED <<stores, inflight, cmd, lock>>
        /\ pc' = [pc EXCEPT ![t] = s]
    BY <1>4 DEF Goto
  <2>2. pc'[t] = s /\ \A x \in Tasks \ {t} : pc'[x] = pc[x]
    BY <2>1 DEF TypeOK
  <2>3. \A x \in Tasks : InCall(x)' => lock'[Host[x]] = x
    BY <1>4, <2>1, <2>2 DEF InCall, SerialInv
  <2>4. QED
    BY <1>4, <2>1, <2>2, <2>3, QuietStepKeepsSerial DEF PastCheck
<1>5. ASSUME NEW t \in Tasks, InCall(t), NEW r, Answer(t, r),
             UNCHANGED <<stores, inflight>>
      PROVE  SerialInv'
  <2>1. /\ UNCHANGED cmd
        /\ pc' = [pc EXCEPT ![t] = "idle"]
    BY <1>5 DEF Answer
  <2>2. pc'[t] = "idle" /\ \A x \in Tasks \ {t} : pc'[x] = pc[x]
    BY <2>1 DEF TypeOK
  <2>3. \A x \in Tasks : ~InCall(x)'
    BY <1>5, <2>2, AloneInCall DEF InCall
  <2>4. QED
    BY <1>5, <2>1, <2>2, <2>3, QuietStepKeepsSerial DEF PastCheck
<1>6. ASSUME NEW t \in Tasks,
             \/ Precheck(t)
             \/ \E a \in Abouts : Recheck(t, a) /\ head[a].rev = reads[t][a]
      PROVE  SerialInv'
  <2>1. /\ UNCHANGED <<stores, inflight, cmd, lock>>
        /\ InCall(t)
        /\ pc'[t] = "check"
        /\ \A x \in Tasks \ {t} : pc'[x] = pc[x]
    BY <1>6 DEF Precheck, Recheck, InCall, TypeOK
  <2>2. \A x \in Tasks : InCall(x)' => lock'[Host[x]] = x
    BY <2>1 DEF InCall, SerialInv
  <2>3. QED
    BY <2>1, <2>2, QuietStepKeepsSerial DEF PastCheck
<1>7. ASSUME NEW t \in Tasks, NEW a \in Abouts, Recheck(t, a),
             head[a].rev # reads[t][a]
      PROVE  SerialInv'
  <2>1. InCall(t) /\ Answer(t, Reply("retry", 0)) /\ UNCHANGED <<stores, inflight>>
    BY <1>7 DEF Recheck, Conflict, InCall
  <2>2. QED
    BY <1>5, <2>1
<1>8. ASSUME NEW t \in Tasks, CheckKey(t) PROVE SerialInv'
  <2>1. InCall(t) /\ UNCHANGED <<stores, inflight>>
    BY <1>8 DEF CheckKey, InCall
  <2>2. CASE KeyIsAccepted(t)
    BY <1>5, <1>8, <2>1, <2>2 DEF CheckKey
  <2>3. CASE ~KeyIsAccepted(t)
    BY <1>4, <1>8, <2>1, <2>3 DEF CheckKey, KeyIsAccepted, Steps
  <2>4. QED
    BY <2>2, <2>3
<1>9. ASSUME NEW t \in Tasks, LoadRevision(t) \/ LoadHash(t) PROVE SerialInv'
  <2>1. /\ InCall(t)
        /\ UNCHANGED <<stores, inflight>>
        /\ cmd[t].key # None => outcomes[cmd[t].key] = None
    BY <1>9 DEF LoadRevision, LoadHash, InCall, PastCheck, SerialInv
  <2>2. CASE Conflict(t)
    BY <1>5, <2>1, <2>2 DEF Conflict
  <2>3. CASE Goto(t, "append")
    BY <1>4, <2>1, <2>3 DEF Steps
  <2>4. CASE ~Conflict(t) /\ ~Goto(t, "append")
    <3>1. /\ UNCHANGED <<cmd, lock>>
          /\ pc'[t] \in {"append", "hash"}
          /\ \A x \in Tasks \ {t} : pc'[x] = pc[x]
      BY <1>9, <2>4 DEF LoadRevision, LoadHash, TypeOK
    <3>2. \A x \in Tasks : InCall(x)' => lock'[Host[x]] = x
      BY <2>1, <3>1 DEF InCall, SerialInv
    <3>3. QED
      BY <2>1, <3>1, <3>2, QuietStepKeepsSerial DEF PastCheck
  <2>5. QED
    BY <2>2, <2>3, <2>4
<1>10. ASSUME NEW t \in Tasks, AppendEvent(t) PROVE SerialInv'
  <2>1. CASE RevisionsHold(Job(t))
    BY <1>10, <2>1, CommitKeepsSerial
  <2>2. CASE ~RevisionsHold(Job(t))
    <3>1. /\ InCall(t)
          /\ Answer(t, Reply("retry", 0))
          /\ UNCHANGED <<stores, inflight>>
      BY <1>10, <2>2 DEF AppendEvent, AppendStep, OneWriter, Atomic, InCall,
                         Conflict
    <3>2. QED
      BY <1>5, <3>1
  <2>3. QED
    BY <2>1, <2>2
<1>11. ASSUME NEW t \in Tasks, Fail(t) PROVE SerialInv'
  <2>1. /\ InCall(t)
        /\ Answer(t, Reply("error", 0))
        /\ UNCHANGED <<stores, inflight>>
    BY <1>11 DEF Fail, InCall
  <2>2. QED
    BY <1>5, <2>1
<1>12. ASSUME NEW t \in Tasks,
              ReadLast(t) \/ Record(t) \/ LoseOutcome(t) \/ Project(t) \/ Leave(t)
       PROVE  FALSE
  BY <1>12 DEF ReadLast, Record, LoseOutcome, Project, Leave, OneWriter, Atomic,
               SerialInv
<1>13. inflight = {}
  BY DEF SerialInv
<1>14. QED
  BY <1>1, <1>2, <1>3, <1>6, <1>7, <1>8, <1>9, <1>10, <1>11, <1>12, <1>13
     DEF Next, Work

\* "That contract is what lets an at-least-once delivery pipeline apply
\* records without counting them twice": within one process over SQLite whose
\* callers wait for their answer, a key commits at most one event, whatever
\* errors come between a call and its retry.
THEOREM OneProcessAcceptsOnce ==
    ASSUME OneWriter
    PROVE  Spec => []AcceptedOnce
<1>1. Init => SerialInv
  BY DEF Init, SerialInv, AcceptedOnce, InCall, PastCheck
<1>2. TypeOK /\ SerialInv /\ [Next]_vars => SerialInv'
  BY StepKeepsSerial
<1>3. SerialInv => AcceptedOnce
  BY DEF SerialInv
<1>4. QED
  BY <1>1, <1>2, <1>3, TypeCorrect, PTL DEF Spec

\* A placed write after which no key stands twice is a commit of the log that
\* deduplicates.
LEMMA PlacedImplementsCommitOnce ==
    ASSUME TypeOK, TypeOK', AcceptedOnce', NEW j \in JobType, Placed(j)
    PROVE  PromisedOnce!Commit(j.cmd.about, j.cmd.key)
<1> DEFINE k == j.cmd.key
<1>1. Promised!Commit(j.cmd.about, k)
  BY PlacedImplementsCommit
<1>2. /\ Len(log) \in Nat
      /\ Len(log') = Len(log) + 1
      /\ \A i \in 1..Len(log) : log'[i] = log[i]
      /\ log'[Len(log) + 1] = EventOf(j)
  BY PlacedLog, Zenon
<1>3. log'[Len(log) + 1].cmd.key = k
  BY <1>2 DEF EventOf
<1>4. \A i \in 1..Len(log) : k # None => log[i].cmd.key # k
  BY <1>2, <1>3 DEF AcceptedOnce
<1>5. /\ Len(History) = Len(log)
      /\ \A i \in 1..Len(log) : History[i] = Entry(log[i])
  BY MappedLog DEF History, TypeOK
<1>6. PromisedOnce!KeyIsFresh(k)
  <2>1. \A i \in 1..Len(log) : History[i].key = log[i].cmd.key
    <3>1. \A e : Entry(e).key = e.cmd.key
      BY DEF Entry
    <3>2. QED
      BY <1>5, <3>1, Zenon
  <2>2. k = None \/ \A i \in 1..Len(History) : History[i].key # k
    BY <1>4, <1>5, <2>1
  <2>3. QED
    BY <2>2, Zenon DEF PromisedOnce!KeyIsFresh
<1>7. QED
  BY <1>1, <1>6 DEF Promised!Commit, PromisedOnce!Commit

\* Within one process over SQLite whose callers wait, the write path is the
\* log in which a key commits at most once: that is what a client which sends
\* the same call again after an error may rely on.
THEOREM OneProcessImplementsOnceLog ==
    ASSUME OneWriter
    PROVE  Spec => ImplementsOnceLog
<1>1. Init => PromisedOnce!Init
  BY DEF Init, PromisedOnce!Init, History, Revisions, NoHead
<1>2. TypeOK /\ TypeOK' /\ AcceptedOnce' /\ [Next]_vars
        => [PromisedOnce!Next]_(PromisedOnce!vars)
  <2> SUFFICES ASSUME TypeOK, TypeOK', AcceptedOnce', [Next]_vars
               PROVE  [PromisedOnce!Next]_(PromisedOnce!vars)
    OBVIOUS
  <2>1. CASE UNCHANGED <<log, head>>
    BY <2>1 DEF PromisedOnce!vars, History, Revisions
  <2>2. ASSUME NEW j \in JobType, Placed(j)
        PROVE  PromisedOnce!Next
    <3>1. j.cmd.about \in Abouts /\ j.cmd.key \in Keys \cup {None}
      BY DEF JobType, Command
    <3>2. PromisedOnce!Commit(j.cmd.about, j.cmd.key)
      BY <2>2, PlacedImplementsCommitOnce
    <3>3. QED
      BY <3>1, <3>2 DEF PromisedOnce!Next
  <2>3. QED
    BY <2>1, <2>2, StepPlaces
<1>3. Spec => []AcceptedOnce
  BY OneProcessAcceptsOnce
<1>4. QED
  BY <1>1, <1>2, <1>3, TypeCorrect, PTL
     DEF Spec, ImplementsOnceLog, PromisedOnce!Spec
=============================================================================
