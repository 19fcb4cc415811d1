------------------------- MODULE ContextCallProofs -------------------------
(***************************************************************************)
(* What a caller of the write path may rely on, for any number of          *)
(* processes, tasks, abouts and keys: the view it decided on, the          *)
(* preconditions it named, and the answer it is given.                     *)
(***************************************************************************)
EXTENDS ContextEventsProofs

\* Where an event is found in the log.
InLog(e) == \E i \in 1..Len(log) : log[i] = e

\* The revisions an about has in the log are those up to its head.
LEMMA LoggedRevisions ==
    ASSUME TypeOK, RevisionsContiguous, NEW a \in Abouts
    PROVE  /\ head[a].rev \in Nat
           /\ \A i \in 1..Len(log) : /\ log[i] \in Event
                                     /\ log[i].cmd.about = a => log[i].rev \in 1..head[a].rev
           /\ head[a].rev # 0 => \E i \in 1..Len(log) :
                                    log[i].cmd.about = a /\ log[i].rev = head[a].rev
<1>1. head[a].rev \in Nat /\ \A i \in 1..Len(log) : log[i] \in Event
  BY DEF TypeOK
<1>2. head[a].rev # 0 => head[a].rev \in 1..head[a].rev
  BY <1>1
<1> QED
  BY <1>1, <1>2 DEF RevisionsContiguous

LEMMA PlacedIsCurrent ==
    ASSUME TypeOK, RevisionsContiguous, ReadsWereCurrent, Atomic,
           NEW j \in JobType, Placed(j)
    PROVE  ReadsWereCurrent'
<1> DEFINE n == Len(log)
<1>1. /\ Len(log') = n + 1 /\ n \in Nat
      /\ \A i \in 1..n : log'[i] = log[i]
      /\ log'[n + 1] = EventOf(j)
  BY PlacedLog, Zenon
<1>2. log'[n + 1].reads = j.reads
  BY <1>1 DEF EventOf
<1>3. \A a \in Abouts : j.reads[a] \in {None, head[a].rev}
  BY DEF Placed, RevisionsHold
<1> SUFFICES ASSUME NEW i \in 1..(n + 1), NEW a \in Abouts, log'[i].reads[a] # None
             PROVE  LET r == log'[i].reads[a] IN
                    /\ \A k \in 1..(i - 1) : log'[k].cmd.about = a => log'[k].rev <= r
                    /\ r # 0 => \E k \in 1..(i - 1) :
                                   log'[k].cmd.about = a /\ log'[k].rev = r
  BY <1>1 DEF ReadsWereCurrent
<1>4. CASE i \in 1..n
  <2>1. \A k \in 1..(i - 1) : k \in 1..n
    BY <1>1, <1>4
  <2> QED
    BY <1>1, <1>4, <2>1 DEF ReadsWereCurrent
<1>5. CASE i = n + 1
  <2>1. i - 1 = n /\ log'[i].reads[a] = head[a].rev
    BY <1>1, <1>2, <1>3, <1>5
  <2>2. /\ \A k \in 1..n : log[k].cmd.about = a => log[k].rev <= head[a].rev
        /\ head[a].rev # 0 => \E k \in 1..n : log[k].cmd.about = a /\ log[k].rev = head[a].rev
    BY LoggedRevisions
  <2> HIDE DEF n
  <2> QED
    BY <1>1, <2>1, <2>2
<1> QED
  BY <1>1, <1>4, <1>5

\* Over SQLite a call commits only on the view it was decided on: every about
\* whose revision its caller read still stands there when the event lands.
THEOREM ReadsAreAlwaysCurrent ==
    ASSUME Atomic
    PROVE  Spec => []ReadsWereCurrent
<1>1. Init => ReadsWereCurrent
  BY DEF Init, ReadsWereCurrent
<1>2. TypeOK /\ RevisionsContiguous /\ ReadsWereCurrent /\ [Next]_vars => ReadsWereCurrent'
  <2> SUFFICES ASSUME TypeOK, RevisionsContiguous, ReadsWereCurrent, [Next]_vars
               PROVE  ReadsWereCurrent'
    OBVIOUS
  <2>1. CASE UNCHANGED <<log, head>>
    BY <2>1 DEF ReadsWereCurrent
  <2>2. CASE \E j \in JobType : Placed(j)
    BY <2>2, PlacedIsCurrent
  <2> QED
    BY <2>1, <2>2, StepPlaces
<1> QED
  BY <1>1, <1>2, TypeCorrect, NoUpdateIsLost, PTL DEF Spec
-----------------------------------------------------------------------------
(* Event and projection in one transaction.                                *)

\* Over SQLite nothing is left to do after the append.
OneStep == /\ \A t \in Tasks : pc[t] \notin {"publish", "record", "project"}
           /\ \A j \in inflight : j.step = "append"

\* A step over SQLite commits a job with its projection, or leaves log, heads
\* and projection alone.
LEMMA OneStepCommits ==
    ASSUME Atomic, TypeOK, OneStep, [Next]_vars
    PROVE  /\ OneStep'
           /\ \/ UNCHANGED <<log, head, applied>>
              \/ \E j \in JobType : Placed(j) /\ Apply(j)
<1>0. AppendStep = "append" /\ Store # "nats"
  BY DEF Atomic, AppendStep
<1>1. CASE UNCHANGED vars \/ Quiet
  BY <1>1 DEF Quiet, vars, calls, stores, OneStep
<1>2. ASSUME NEW t \in Tasks, Call(t) \/ Acquire(t) \/ Precheck(t) \/ LoadRevision(t)
      PROVE  OneStep' /\ UNCHANGED <<log, head, applied>>
  BY <1>2 DEF OneStep, Call, Begin, Acquire, Precheck, LoadRevision, Conflict, Answer,
              stores, TypeOK
<1>3. ASSUME NEW t \in Tasks,
             CheckKey(t) \/ LoadHash(t) \/ Fail(t) \/ \E a \in Abouts : Recheck(t, a)
      PROVE  OneStep' /\ UNCHANGED <<log, head, applied>>
  BY <1>3 DEF OneStep, CheckKey, LoadHash, Fail, Recheck, Conflict, Answer, Goto,
              stores, TypeOK
<1>4. ASSUME NEW t \in Tasks, AppendEvent(t)
      PROVE  /\ OneStep'
             /\ \/ UNCHANGED <<log, head, applied>>
                \/ \E j \in JobType : Placed(j) /\ Apply(j)
  <2>1. \E r : Answer(t, r)
    BY <1>4 DEF AppendEvent, Conflict
  <2>2. inflight' = inflight
    BY <1>4 DEF AppendEvent
  <2>3. OneStep'
    BY <2>1, <2>2 DEF OneStep, Answer, TypeOK
  <2>4. \/ UNCHANGED <<log, head, applied>>
        \/ Placed(Job(t)) /\ Apply(Job(t))
    BY <1>4 DEF AppendEvent, Placed, Commit, stores
  <2> QED
    BY <2>3, <2>4, JobIsTyped
<1>5. ASSUME NEW j \in inflight, Land(j)
      PROVE  /\ OneStep'
             /\ \/ UNCHANGED <<log, head, applied>>
                \/ \E i \in JobType : Placed(i) /\ Apply(i)
  <2>1. j.step = "append" /\ j \in JobType
    BY DEF OneStep, TypeOK
  <2>2. inflight' \subseteq inflight /\ pc' = pc
    BY <1>5 DEF Land, calls
  <2>3. OneStep'
    BY <2>2 DEF OneStep
  <2>4. \/ UNCHANGED <<log, head, applied>>
        \/ Placed(j) /\ Apply(j)
    BY <1>5, <2>1 DEF Land, Placed, Commit, stores
  <2> QED
    BY <2>1, <2>3, <2>4
<1>6. ASSUME NEW t \in Tasks, Leave(t)
      PROVE  OneStep' /\ UNCHANGED <<log, head, applied>>
  <2>1. /\ inflight' = inflight \cup {Job(t)} /\ pc[t] \in WriteSteps
        /\ UNCHANGED <<log, head, applied>> /\ pc' = [pc EXCEPT ![t] = "idle"]
    BY <1>6 DEF Leave, Answer, stores
  <2>2. Job(t).step = "append"
    BY <1>0, <2>1 DEF OneStep, WriteSteps, Job
  <2> QED
    BY <2>1, <2>2 DEF OneStep, TypeOK
<1>7. ASSUME NEW t \in Tasks, ReadLast(t) \/ Record(t) \/ LoseOutcome(t) \/ Project(t)
      PROVE  FALSE
  BY <1>0, <1>7 DEF ReadLast, Record, LoseOutcome, Project, OneStep
<1> QED
  BY <1>1, <1>2, <1>3, <1>4, <1>5, <1>6, <1>7 DEF Next, Work, vars, stores

LEMMA AppliedStaysFold ==
    ASSUME TypeOK, ProjectionIsLog, NEW j \in JobType, Placed(j), Apply(j)
    PROVE  ProjectionIsLog'
<1> DEFINE ab == j.cmd.about
           s == [r \in 1..j.cur |-> r]
<1>1. /\ ab \in Abouts /\ j.cur \in Nat /\ j.cur = head[ab].rev
      /\ head'[ab] = [rev |-> j.cur + 1, hash |-> j.cmd.hash]
      /\ \A a \in Abouts \ {ab} : head'[a] = head[a]
  BY PlacedLog, Zenon
<1>2. applied \in [Abouts -> Seq(Nat)] /\ applied[ab] = s
  BY <1>1 DEF TypeOK, ProjectionIsLog
<1>3. applied' = [applied EXCEPT ![ab] = Append(s, j.cur + 1)]
  BY <1>2 DEF Apply
<1>4. Append(s, j.cur + 1) = [r \in 1..(j.cur + 1) |-> r]
  <2>1. s \in Seq(Nat) /\ Len(s) = j.cur
    BY <1>1
  <2>2. \A r \in 1..j.cur : s[r] = r
    OBVIOUS
  <2> HIDE DEF s
  <2> DEFINE n == j.cur
             q == Append(s, n + 1)
  <2>3. n \in Nat /\ s \in Seq(Nat) /\ Len(s) = n /\ \A r \in 1..n : s[r] = r
    BY <1>1, <2>1, <2>2
  <2> HIDE DEF n
  <2>4. q \in Seq(Nat) /\ Len(q) = n + 1 /\ \A r \in 1..(n + 1) : q[r] = r
    BY <2>3
  <2> HIDE DEF q
  <2>5. q = [r \in 1..(n + 1) |-> q[r]]
    BY <2>4
  <2>6. [r \in 1..(n + 1) |-> q[r]] = [r \in 1..(n + 1) |-> r]
    BY <2>4, Zenon
  <2> QED
    BY <2>5, <2>6 DEF q, n
<1> HIDE DEF s, ab
<1>5. ASSUME NEW a \in Abouts PROVE applied'[a] = [r \in 1..head'[a].rev |-> r]
  <2>1. CASE a = ab
    <3>1. applied'[ab] = Append(s, j.cur + 1)
      BY <1>1, <1>2, <1>3, Zenon
    <3>2. head'[ab].rev = j.cur + 1
      BY <1>1
    <3> QED
      BY <1>4, <2>1, <3>1, <3>2, Zenon
  <2>2. CASE a # ab
    BY <1>1, <1>2, <1>3, <2>2 DEF ProjectionIsLog
  <2> QED
    BY <2>1, <2>2
<1> QED
  BY <1>5 DEF ProjectionIsLog

\* Over SQLite the projection is at every moment the fold of the whole log,
\* in order, whoever crashed, left or was refused.
THEOREM ProjectionIsAlwaysLog ==
    ASSUME Atomic
    PROVE  Spec => []ProjectionIsLog
<1>1. Init => OneStep /\ ProjectionIsLog
  BY DEF Init, OneStep, ProjectionIsLog, NoHead
<1>2. TypeOK /\ OneStep /\ ProjectionIsLog /\ [Next]_vars => (OneStep /\ ProjectionIsLog)'
  <2> SUFFICES ASSUME TypeOK, OneStep, ProjectionIsLog, [Next]_vars
               PROVE  OneStep' /\ ProjectionIsLog'
    OBVIOUS
  <2>1. CASE UNCHANGED <<log, head, applied>>
    BY <2>1, OneStepCommits DEF ProjectionIsLog
  <2>2. CASE \E j \in JobType : Placed(j) /\ Apply(j)
    BY <2>2, OneStepCommits, AppliedStaysFold
  <2> QED
    BY <2>1, <2>2, OneStepCommits
<1> QED
  BY <1>1, <1>2, TypeCorrect, PTL DEF Spec
-----------------------------------------------------------------------------
(* The preconditions a caller named, over any store.  They are compared    *)
(* once each, at different moments; what carries them to the append is     *)
(* that the revision they were compared at is the one it is decided on.    *)

\* The head of an about is the last event logged for it, hash and all.
HashIsLogged ==
    \A a \in Abouts :
        head[a].rev # 0 => \E i \in 1..Len(log) :
                              /\ log[i].cmd.about = a
                              /\ log[i].rev = head[a].rev
                              /\ log[i].cmd.hash = head[a].hash

\* A write past its revision check was decided at a revision its about has
\* had, the one its caller named if any; past its hash check, the about has
\* the hash named for as long as it stays at that revision.
Vetted(j) ==
    LET c == j.cmd
        h == head[c.about]
    IN  /\ j.step \in {"hash", "append", "publish"} =>
              c.expected \in {None, j.cur} /\ j.cur <= h.rev
        /\ j.step \in {"append", "publish"} /\ c.expectedHash # None
              /\ j.cur # 0 /\ h.rev = j.cur => h.hash = c.expectedHash

AllVetted == /\ \A t \in Tasks : Vetted(Job(t))
             /\ \A j \in inflight : Vetted(j)

LEMMA PlacedKeepsHash ==
    ASSUME TypeOK, HashIsLogged, NEW i \in JobType, Placed(i)
    PROVE  HashIsLogged'
<1> DEFINE n == Len(log)
           ab == i.cmd.about
<1>1. /\ ab \in Abouts /\ i.cur \in Nat /\ Len(log') = n + 1 /\ n \in Nat
      /\ \A k \in 1..n : log'[k] = log[k]
      /\ log'[n + 1] = EventOf(i)
      /\ head'[ab] = [rev |-> i.cur + 1, hash |-> i.cmd.hash]
      /\ \A a \in Abouts \ {ab} : head'[a] = head[a]
  BY PlacedLog, Zenon
<1>2. EventOf(i).cmd = i.cmd /\ EventOf(i).rev = i.cur + 1
  BY DEF EventOf
<1> SUFFICES ASSUME NEW a \in Abouts, head'[a].rev # 0
             PROVE  \E k \in 1..(n + 1) : /\ log'[k].cmd.about = a
                                          /\ log'[k].rev = head'[a].rev
                                          /\ log'[k].cmd.hash = head'[a].hash
  BY <1>1 DEF HashIsLogged
<1>3. CASE a = ab
  <2>1. head'[a].rev = i.cur + 1 /\ head'[a].hash = i.cmd.hash
    BY <1>1, <1>3
  <2>2. n + 1 \in 1..(n + 1)
    BY <1>1
  <2> QED
    BY <1>1, <1>2, <1>3, <2>1, <2>2
<1>4. CASE a # ab
  <2>1. head'[a] = head[a]
    BY <1>1, <1>4
  <2>2. PICK k \in 1..n : /\ log[k].cmd.about = a
                          /\ log[k].rev = head[a].rev
                          /\ log[k].cmd.hash = head[a].hash
    BY <2>1 DEF HashIsLogged
  <2>3. k \in 1..(n + 1) /\ log'[k] = log[k]
    BY <1>1, <2>2
  <2> QED
    BY <2>1, <2>2, <2>3
<1> QED
  BY <1>3, <1>4

\* A vetted write stays vetted while others commit: the about may move on,
\* but it never comes back to the revision the write was decided on.
LEMMA VettedStays ==
    ASSUME TypeOK, NEW j \in JobType, Vetted(j),
           UNCHANGED <<log, head>> \/ \E i \in JobType : Placed(i)
    PROVE  Vetted(j)'
<1> DEFINE ab == j.cmd.about
<1>1. ab \in Abouts /\ j.cur \in Nat /\ head[ab].rev \in Nat
  BY DEF JobType, Command, TypeOK
<1>2. CASE head'[ab] = head[ab]
  BY <1>2 DEF Vetted
<1>3. CASE head'[ab].rev = head[ab].rev + 1
  BY <1>1, <1>3 DEF Vetted
<1>4. head'[ab] = head[ab] \/ head'[ab].rev = head[ab].rev + 1
  <2>1. ASSUME NEW i \in JobType, Placed(i)
        PROVE  head'[ab] = head[ab] \/ head'[ab].rev = head[ab].rev + 1
    <3>1. /\ i.cur = head[i.cmd.about].rev
          /\ head'[i.cmd.about] = [rev |-> i.cur + 1, hash |-> i.cmd.hash]
          /\ \A a \in Abouts \ {i.cmd.about} : head'[a] = head[a]
      BY <2>1, PlacedLog, Zenon
    <3> QED
      BY <1>1, <3>1
  <2> QED
    BY <2>1
<1> QED
  BY <1>2, <1>3, <1>4

\* A step commits one of the writes asked for, or leaves log and heads alone.
LEMMA StepPlacesAsked ==
    ASSUME TypeOK, [Next]_vars
    PROVE  \/ UNCHANGED <<log, head>>
           \/ \E t \in Tasks : Placed(Job(t)) /\ pc[t] = AppendStep
           \/ \E j \in inflight : Placed(j) /\ j.step = AppendStep
<1>1. CASE UNCHANGED vars
  BY <1>1 DEF vars, stores
<1>2. ASSUME NEW t \in Tasks, AppendEvent(t)
      PROVE  UNCHANGED <<log, head>> \/ (Placed(Job(t)) /\ pc[t] = AppendStep)
  BY <1>2 DEF AppendEvent, Placed, Commit, stores
<1>3. ASSUME NEW j \in inflight, Land(j)
      PROVE  UNCHANGED <<log, head>> \/ (Placed(j) /\ j.step = AppendStep)
  BY <1>3 DEF Land, Placed, Commit, stores
<1>4. ASSUME NEW t \in Tasks,
             \/ Call(t) \/ Acquire(t) \/ Fail(t) \/ Leave(t) \/ Precheck(t)
             \/ (\E a \in Abouts : Recheck(t, a)) \/ CheckKey(t)
             \/ LoadRevision(t) \/ LoadHash(t) \/ ReadLast(t) \/ Record(t)
             \/ LoseOutcome(t) \/ Project(t)
      PROVE  UNCHANGED <<log, head>>
  BY <1>4 DEF Call, Begin, Acquire, Fail, Leave, Precheck, Recheck, CheckKey,
              LoadRevision, LoadHash, ReadLast, Record, LoseOutcome, Project,
              stores
<1>5. CASE Quiet
  BY <1>5 DEF Quiet, vars, stores
<1> QED
  BY <1>1, <1>2, <1>3, <1>4, <1>5 DEF Next, Work

\* The write a task is making stays as it is, is past its append, or has just
\* passed one more of its checks.
LEMMA TaskSteps ==
    ASSUME TypeOK, HashIsLogged, AllVetted, [Next]_vars, NEW u \in Tasks
    PROVE  \/ Job(u)' = Job(u)
           \/ Job(u)'.step \notin {"hash", "append", "publish"}
           \/ Vetted(Job(u)') /\ head' = head
<1>0. Job(u) \in JobType /\ Vetted(Job(u)) /\ pc \in [Tasks -> Steps]
  BY JobIsTyped DEF AllVetted, TypeOK
<1>1. CASE UNCHANGED calls
  BY <1>1 DEF calls, Job
<1>2. ASSUME NEW t \in Tasks, NEW r, Answer(t, r)
      PROVE  Job(u)' = Job(u) \/ pc'[u] = "idle"
  BY <1>0, <1>2 DEF Answer, Job
<1>3. ASSUME NEW t \in Tasks, NEW s \in {"revision", "record", "project"}, Goto(t, s)
      PROVE  Job(u)' = Job(u) \/ pc'[u] = s
  BY <1>0, <1>3 DEF Goto, Job
<1>4. ASSUME NEW t \in Tasks, Call(t) \/ Acquire(t) \/ Precheck(t)
      PROVE  Job(u)' = Job(u) \/ pc'[u] \in {"wait", "precheck", "check"}
  BY <1>0, <1>4 DEF Call, Begin, Acquire, Precheck, Job, TypeOK
<1>5. ASSUME NEW t \in Tasks, LoadRevision(t)
      PROVE  \/ Job(u)' = Job(u) \/ pc'[u] = "idle"
             \/ Vetted(Job(u)') /\ head' = head
  <2> DEFINE c == cmd[t]
             h == head[c.about]
  <2>1. CASE c.expected \notin {None, h.rev}
    BY <1>2, <1>5, <2>1 DEF LoadRevision, Conflict
  <2>2. CASE c.expected \in {None, h.rev} /\ u = t
    <3>1. /\ cur'[t] = h.rev /\ pc'[t] = IF c.expectedHash = None THEN "append" ELSE "hash"
          /\ cmd' = cmd /\ head' = head
      BY <1>5, <2>2 DEF LoadRevision, stores, TypeOK
    <3>2. /\ Job(t)'.cmd = c /\ Job(t)'.cur = h.rev /\ Job(t)'.step = pc'[t]
      BY <3>1 DEF Job
    <3>3. h.rev \in Nat
      BY DEF TypeOK, Command
    <3> QED
      BY <2>2, <3>1, <3>2, <3>3 DEF Vetted
  <2>3. CASE c.expected \in {None, h.rev} /\ u # t
    BY <1>0, <1>5, <2>3 DEF LoadRevision, Job, TypeOK
  <2> QED
    BY <2>1, <2>2, <2>3
<1>6. ASSUME NEW t \in Tasks, LoadHash(t)
      PROVE  \/ Job(u)' = Job(u) \/ pc'[u] = "idle"
             \/ Vetted(Job(u)') /\ head' = head
  <2> DEFINE c == cmd[t]
             h == head[c.about]
  <2>1. CASE h.hash \notin {None, c.expectedHash}
    BY <1>2, <1>6, <2>1 DEF LoadHash, Conflict
  <2>2. CASE h.hash \in {None, c.expectedHash} /\ u = t
    <3>1. /\ Job(t)'.cmd = c /\ Job(t)'.cur = cur[t] /\ Job(t)'.step = "append"
          /\ head' = head /\ pc[t] = "hash"
      BY <1>0, <1>6, <2>2 DEF LoadHash, Goto, Job, stores
    <3>2. c.expected \in {None, cur[t]} /\ cur[t] <= h.rev
      BY <1>0, <2>2, <3>1 DEF Vetted, Job
    <3>3. h.hash = None => h.rev = 0
      <4>1. c.about \in Abouts /\ \A i \in 1..Len(log) : log[i].cmd.hash \in Hashes
        <5>1. c \in Command /\ \A i \in 1..Len(log) : log[i] \in Event
          BY DEF TypeOK
        <5> QED
          BY <5>1 DEF Command, Event
      <4> QED
        BY <4>1, NoneAssumption DEF HashIsLogged
    <3>4. h.hash = c.expectedHash \/ h.rev = 0
      BY <2>2, <3>3
    <3> HIDE DEF h, c
    <3>5. Vetted(Job(t)') <=>
            LET j == Job(t)' IN
            /\ j.step \in {"hash", "append", "publish"} =>
                 j.cmd.expected \in {None, j.cur} /\ j.cur <= h.rev
            /\ j.step \in {"append", "publish"} /\ j.cmd.expectedHash # None
                 /\ j.cur # 0 /\ h.rev = j.cur => h.hash = j.cmd.expectedHash
      BY <3>1 DEF Vetted, h
    <3> QED
      BY <2>2, <3>1, <3>2, <3>4, <3>5
  <2>3. CASE h.hash \in {None, c.expectedHash} /\ u # t
    BY <1>0, <1>6, <2>3 DEF LoadHash, Goto, Job, TypeOK
  <2> QED
    BY <2>1, <2>2, <2>3
<1>7. ASSUME NEW t \in Tasks, ReadLast(t)
      PROVE  \/ Job(u)' = Job(u) \/ pc'[u] = "idle"
             \/ Vetted(Job(u)') /\ head' = head
  <2>1. CASE ~Goto(t, "publish")
    BY <1>2, <1>7, <2>1 DEF ReadLast, Conflict
  <2>2. CASE Goto(t, "publish") /\ u = t
    <3>1. /\ Job(t)'.cmd = cmd[t] /\ Job(t)'.cur = cur[t] /\ Job(t)'.step = "publish"
          /\ head' = head /\ pc[t] = "append"
      BY <1>0, <1>7, <2>2 DEF ReadLast, Goto, Job, stores
    <3>2. /\ Job(t).cmd = cmd[t] /\ Job(t).cur = cur[t] /\ Job(t).step = "append"
          /\ Vetted(Job(t))
      BY <1>0, <2>2, <3>1 DEF Job
    <3> QED
      BY <2>2, <3>1, <3>2 DEF Vetted
  <2>3. CASE Goto(t, "publish") /\ u # t
    BY <1>0, <2>3 DEF Goto, Job, TypeOK
  <2> QED
    BY <2>1, <2>2, <2>3
<1>8. ASSUME NEW t \in Tasks, AppendEvent(t)
      PROVE  Job(u)' = Job(u) \/ pc'[u] \in {"idle", "record", "project"}
  BY <1>2, <1>3, <1>8 DEF AppendEvent, Conflict
<1>9. ASSUME NEW t \in Tasks,
             \/ CheckKey(t) \/ (\E a \in Abouts : Recheck(t, a)) \/ Record(t)
             \/ LoseOutcome(t) \/ Project(t) \/ Fail(t) \/ Leave(t)
      PROVE  Job(u)' = Job(u) \/ pc'[u] \in {"idle", "check", "revision", "project"}
  BY <1>2, <1>3, <1>9 DEF CheckKey, Recheck, Record, LoseOutcome, Project, Fail, Leave,
                          Conflict, Job
<1>10. Job(u)'.step = pc'[u]
  BY DEF Job
<1>11. (UNCHANGED vars \/ Quiet \/ \E j \in inflight : Land(j)) => UNCHANGED calls
  BY DEF Quiet, Land, vars
<1> QED
  BY <1>1, <1>4, <1>5, <1>6, <1>7, <1>8, <1>9, <1>10, <1>11 DEF Next, Work

\* A step keeps every write vetted.
LEMMA StepKeepsVetted ==
    ASSUME TypeOK, TypeOK', HashIsLogged, AllVetted, [Next]_vars
    PROVE  AllVetted'
<1>1. UNCHANGED <<log, head>> \/ \E i \in JobType : Placed(i)
  BY StepPlaces
<1>2. ASSUME NEW u \in Tasks PROVE Vetted(Job(u))'
  <2>0. Job(u) \in JobType /\ Vetted(Job(u))
    BY JobIsTyped DEF AllVetted
  <2>1. CASE Job(u)' = Job(u)
    <3>1. \A j \in JobType : Vetted(j) => Vetted(j)'
      BY <1>1, VettedStays
    <3> QED
      BY <2>0, <2>1, <3>1
  <2>2. CASE Job(u)'.step \notin {"hash", "append", "publish"}
    BY <2>2 DEF Vetted
  <2>3. CASE Vetted(Job(u)') /\ head' = head
    BY <2>3 DEF Vetted
  <2> QED
    BY <2>1, <2>2, <2>3, TaskSteps
<1>3. ASSUME NEW j \in inflight' PROVE Vetted(j)'
  <2>1. j \in inflight \/ \E t \in Tasks : j = Job(t)
    BY DEF Next, Work, Call, Begin, Acquire, Precheck, Recheck, CheckKey, LoadRevision,
           LoadHash, ReadLast, AppendEvent, Record, LoseOutcome, Project, Fail, Leave,
           Land, Quiet, vars
  <2>2. j \in JobType /\ Vetted(j)
    BY <2>1, JobIsTyped DEF AllVetted, TypeOK
  <2> QED
    BY <1>1, <2>2, VettedStays
<1> QED
  BY <1>2, <1>3 DEF AllVetted

\* A vetted write that lands finds its preconditions true of the event it
\* follows.
LEMMA PlacedIsVetted ==
    ASSUME TypeOK, HashIsLogged, PreconditionsHeld, NEW j \in JobType, Placed(j),
           Vetted(j), j.step = AppendStep
    PROVE  PreconditionsHeld'
<1> DEFINE n == Len(log)
           ab == j.cmd.about
<1>1. /\ ab \in Abouts /\ j.cur \in Nat /\ j.cur = head[ab].rev
      /\ Len(log') = n + 1 /\ n \in Nat
      /\ \A i \in 1..n : log'[i] = log[i]
      /\ log'[n + 1] = EventOf(j)
  BY PlacedLog, Zenon
<1>2. EventOf(j).cmd = j.cmd /\ EventOf(j).rev = j.cur + 1
  BY DEF EventOf
<1>3. /\ j.cmd.expected \in {None, j.cur}
      /\ j.cmd.expectedHash # None /\ j.cur # 0 => head[ab].hash = j.cmd.expectedHash
  BY <1>1 DEF Vetted, AppendStep
<1>4. j.cur # 0 => \E k \in 1..n : /\ log[k].cmd.about = ab
                                   /\ log[k].rev = j.cur
                                   /\ log[k].cmd.hash = head[ab].hash
  BY <1>1 DEF HashIsLogged
<1> DEFINE Held(i) ==
        LET e == log'[i] IN
        /\ e.cmd.expected \in {None, e.rev - 1}
        /\ e.cmd.expectedHash # None /\ e.rev > 1 =>
              \E k \in 1..(i - 1) : /\ log'[k].cmd.about = e.cmd.about
                                    /\ log'[k].rev = e.rev - 1
                                    /\ log'[k].cmd.hash = e.cmd.expectedHash
<1>5. ASSUME NEW i \in 1..n PROVE Held(i)
  <2>1. \A k \in 1..(i - 1) : k \in 1..n
    BY <1>1
  <2> QED
    BY <1>1, <1>5, <2>1 DEF PreconditionsHeld
<1>6. Held(n + 1)
  <2>1. (n + 1) - 1 = n /\ (j.cur + 1) - 1 = j.cur /\ (j.cur + 1 > 1 <=> j.cur # 0)
    BY <1>1
  <2> HIDE DEF n, ab
  <2>2. log'[n + 1].cmd = j.cmd /\ log'[n + 1].rev = j.cur + 1
    BY <1>1, <1>2
  <2>3. j.cmd.expectedHash # None /\ j.cur # 0 =>
           \E k \in 1..n : /\ log'[k].cmd.about = ab
                           /\ log'[k].rev = j.cur
                           /\ log'[k].cmd.hash = j.cmd.expectedHash
    BY <1>1, <1>3, <1>4
  <2> QED
    BY <1>3, <2>1, <2>2, <2>3 DEF ab
<1> HIDE DEF Held
<1>7. \A i \in 1..(n + 1) : Held(i)
  BY <1>1, <1>5, <1>6
<1> QED
  BY <1>1, <1>7 DEF PreconditionsHeld, Held

\* The preconditions of a call hold where its event stands in the log, over
\* every store and with any number of other writers: the event before it in
\* its about has the revision and the content hash the caller named.
THEOREM PreconditionsAlwaysHold == Spec => []PreconditionsHeld
<1> DEFINE I == HashIsLogged /\ AllVetted /\ PreconditionsHeld
<1>1. Init => I
  BY DEF Init, HashIsLogged, AllVetted, PreconditionsHeld, Vetted, Job, NoHead
<1>2. TypeOK /\ TypeOK' /\ I /\ [Next]_vars => I'
  <2> SUFFICES ASSUME TypeOK, TypeOK', I, [Next]_vars PROVE I'
    OBVIOUS
  <2>1. AllVetted'
    BY StepKeepsVetted
  <2>2. CASE UNCHANGED <<log, head>>
    BY <2>1, <2>2 DEF HashIsLogged, PreconditionsHeld
  <2>3. ASSUME NEW j \in JobType, Placed(j), Vetted(j), j.step = AppendStep
        PROVE  HashIsLogged' /\ PreconditionsHeld'
    BY <2>3, PlacedKeepsHash, PlacedIsVetted
  <2>4. \A t \in Tasks : Job(t) \in JobType /\ Vetted(Job(t)) /\ Job(t).step = pc[t]
    BY JobIsTyped DEF AllVetted, Job
  <2>5. \A j \in inflight : j \in JobType /\ Vetted(j)
    BY DEF AllVetted, TypeOK
  <2> QED
    BY <2>1, <2>2, <2>3, <2>4, <2>5, StepPlacesAsked
<1> QED
  BY <1>1, <1>2, TypeCorrect, PTL DEF Spec
-----------------------------------------------------------------------------
(* What a caller that is turned away may conclude.  Each call has a number *)
(* of its own, which its write carries wherever it goes: into the log, or  *)
(* among the requests that outlive their caller.                           *)

\* Where a call has decided on nothing yet.
Undecided == {"wait", "precheck", "check", "revision", "hash", "append", "publish"}

Denied(t) == pc[t] \in Undecided \/ reply[t].kind \in {"retry", "refused", "replayed"}

Numbered ==
    /\ \A t \in Tasks : /\ attempt[t] \in 0..attempts
                        /\ Denied(t) => attempt[t] # 0
                        /\ pc[t] # "idle" => attempt[t] # 0 /\ reply[t] = NoReply
    /\ \A t, u \in Tasks : t # u /\ attempt[t] # 0 => attempt[t] # attempt[u]
    /\ \A i \in 1..Len(log) : log[i].attempt <= attempts
    /\ \A j \in inflight : j.attempt <= attempts

NothingLeft(n) == /\ \A i \in 1..Len(log) : log[i].attempt # n
                  /\ \A j \in inflight : j.attempt # n

DeniedLeftNothing == \A t \in Tasks : Denied(t) => NothingLeft(attempt[t])

\* The log grows at its end, by the write of a task or of a caller that left.
LEMMA Grows ==
    ASSUME TypeOK, NEW j \in JobType, log' = log \/ log' = Append(log, EventOf(j))
    PROVE  \A i \in 1..Len(log') : \/ log'[i] = EventOf(j)
                                   \/ i \in 1..Len(log) /\ log'[i] = log[i]
<1> DEFINE e == EventOf(j)
           n == Len(log)
<1>1. e \in Event /\ log \in Seq(Event) /\ n \in Nat
  BY RecordsAreTyped DEF TypeOK
<1> SUFFICES ASSUME log' = Append(log, e)
             PROVE  \A i \in 1..Len(log') : log'[i] = e \/ (i \in 1..n /\ log'[i] = log[i])
  OBVIOUS
<1>2. /\ Len(log') = n + 1 /\ log'[n + 1] = e
      /\ \A i \in 1..n : log'[i] = log[i]
  <2> HIDE DEF e
  <2> QED
    BY <1>1
<1>3. \A i \in 1..(n + 1) : i = n + 1 \/ i \in 1..n
  BY <1>1
<1> HIDE DEF e, n
<1> QED
  BY <1>2, <1>3

\* What one step of the call of task t, after its beginning, may change.
Moved(t) ==
    /\ pc[t] # "idle"
    /\ UNCHANGED <<attempt, attempts, cmd>>
    /\ \A u \in Tasks \ {t} : pc'[u] = pc[u] /\ reply'[u] = reply[u]
    /\ log' = log \/ log' = Append(log, EventOf(Job(t)))
    /\ inflight' \subseteq inflight \cup {Job(t)}
    /\ pc'[t] = "idle" \/ reply'[t] = reply[t]
    /\ \/ pc'[t] \in Undecided
       \/ reply'[t] # reply[t] /\ reply'[t].kind \in {"retry", "refused", "replayed"}
       => pc[t] \in Undecided /\ log' = log /\ inflight' = inflight

LEMMA WorkMoves ==
    ASSUME TypeOK, NEW t \in Tasks, Acquire(t) \/ Work(t) \/ Fail(t) \/ Leave(t)
    PROVE  Moved(t)
<1>0. pc \in [Tasks -> Steps] /\ reply \in [Tasks -> Replies]
  BY DEF TypeOK
<1>1. ASSUME Acquire(t) \/ Precheck(t) \/ LoadRevision(t) \/ LoadHash(t) \/ ReadLast(t)
      PROVE  Moved(t)
  BY <1>0, <1>1 DEF Acquire, Precheck, LoadRevision, LoadHash, ReadLast, Conflict, Answer,
                    Goto, Moved, Undecided, Reply, stores
<1>2. ASSUME CheckKey(t) \/ \E a \in Abouts : Recheck(t, a) PROVE Moved(t)
  BY <1>0, <1>2 DEF CheckKey, Recheck, Conflict, Answer, Goto, Moved, Undecided, Reply,
                    stores
<1>3. ASSUME AppendEvent(t) PROVE Moved(t)
  <2>1. CASE RevisionsHold(Job(t))
    <3>1. log' = Append(log, EventOf(Job(t))) /\ inflight' = inflight
      BY <1>3, <2>1 DEF AppendEvent, Commit, CommitEvent
    <3> QED
      BY <1>0, <1>3, <2>1, <3>1 DEF AppendEvent, AppendStep, Answer, Goto, Moved,
                                    Undecided, Reply
  <2>2. CASE ~RevisionsHold(Job(t))
    BY <1>0, <1>3, <2>2 DEF AppendEvent, AppendStep, Conflict, Answer, Moved, Undecided,
                            Reply, stores
  <2> QED
    BY <2>1, <2>2
<1>4. ASSUME Record(t) \/ LoseOutcome(t) \/ Project(t) \/ Fail(t) PROVE Moved(t)
  BY <1>0, <1>4 DEF Record, LoseOutcome, Project, Fail, Answer, Goto, Moved, Undecided,
                    Reply, stores
<1>5. ASSUME Leave(t) PROVE Moved(t)
  BY <1>0, <1>5 DEF Leave, WriteSteps, AppendStep, Answer, Moved, Undecided, Reply, stores
<1> QED
  BY <1>1, <1>2, <1>3, <1>4, <1>5 DEF Work

\* A call that moves keeps the numbers apart and leaves nothing of those who
\* were turned away.
LEMMA MoveLeavesNothing ==
    ASSUME TypeOK, Numbered, DeniedLeftNothing, NEW t \in Tasks, Moved(t)
    PROVE  Numbered' /\ DeniedLeftNothing'
<1>1. /\ attempt[t] # 0 /\ attempt[t] \in Nat /\ attempt[t] <= attempts /\ attempts \in Nat
      /\ reply[t] = NoReply
  BY DEF Moved, Numbered, TypeOK
<1>2. Job(t).attempt = attempt[t] /\ EventOf(Job(t)).attempt = attempt[t]
  BY DEF Job, EventOf
<1>3. \A i \in 1..Len(log') : \/ log'[i].attempt = attempt[t]
                              \/ i \in 1..Len(log) /\ log'[i] = log[i]
  <2>1. \A i \in 1..Len(log') : \/ log'[i] = EventOf(Job(t))
                                \/ i \in 1..Len(log) /\ log'[i] = log[i]
    BY JobIsTyped, Grows DEF Moved
  <2> QED
    BY <1>2, <2>1
<1>4. \A j \in inflight' : j.attempt = attempt[t] \/ j \in inflight
  BY <1>2 DEF Moved
<1>5. Denied(t)' => pc[t] \in Undecided /\ log' = log /\ inflight' = inflight
  <2>1. NoReply.kind = "none"
    BY DEF NoReply, Reply
  <2> QED
    BY <1>1, <2>1 DEF Denied, Moved
<1>6. \A u \in Tasks \ {t} : Denied(u)' = Denied(u)
  BY DEF Denied, Moved
<1>7. Numbered'
  <2>1. \A u \in Tasks : /\ attempt'[u] \in 0..attempts'
                         /\ Denied(u)' => attempt'[u] # 0
                         /\ pc'[u] # "idle" => attempt'[u] # 0 /\ reply'[u] = NoReply
    BY <1>1, <1>6 DEF Numbered, Moved
  <2>2. /\ \A i \in 1..Len(log') : log'[i].attempt <= attempts'
        /\ \A j \in inflight' : j.attempt <= attempts'
    BY <1>1, <1>3, <1>4 DEF Numbered, Moved
  <2> QED
    BY <2>1, <2>2 DEF Numbered, Moved
<1>8. ASSUME NEW u \in Tasks, Denied(u)' PROVE NothingLeft(attempt[u])'
  <2>1. CASE u = t
    BY <1>5, <1>8, <2>1 DEF Denied, DeniedLeftNothing, NothingLeft, Moved
  <2>2. CASE u # t
    <3>1. attempt[u] # attempt[t] /\ NothingLeft(attempt[u]) /\ attempt' = attempt
      BY <1>1, <1>6, <1>8, <2>2 DEF DeniedLeftNothing, Numbered, Moved
    <3> QED
      BY <1>3, <1>4, <3>1 DEF NothingLeft
  <2> QED
    BY <2>1, <2>2
<1> QED
  BY <1>7, <1>8 DEF DeniedLeftNothing

\* A new call takes a number nothing carries yet.
LEMMA CallLeavesNothing ==
    ASSUME TypeOK, Numbered, DeniedLeftNothing, NEW t \in Tasks, Call(t)
    PROVE  Numbered' /\ DeniedLeftNothing'
<1>1. /\ log' = log /\ inflight' = inflight /\ attempts' = attempts + 1
      /\ attempt'[t] = attempts + 1 /\ pc'[t] = "wait" /\ reply'[t] = NoReply
      /\ \A u \in Tasks \ {t} : /\ attempt'[u] = attempt[u] /\ pc'[u] = pc[u]
                                /\ reply'[u] = reply[u]
  BY DEF Call, Begin, stores, TypeOK
<1>2. /\ attempts \in Nat /\ \A u \in Tasks : attempt[u] \in Nat
      /\ \A i \in 1..Len(log) : log[i].attempt \in Nat
      /\ \A j \in inflight : j.attempt \in Nat
  <2>1. \A i \in 1..Len(log) : log[i] \in Event
    BY DEF TypeOK
  <2> QED
    BY <2>1 DEF TypeOK, Event, JobType
<1>3. NothingLeft(attempts + 1)
  BY <1>2 DEF NothingLeft, Numbered
<1>4. \A u \in Tasks \ {t} : Denied(u)' = Denied(u)
  BY <1>1 DEF Denied
<1>5. Numbered'
  <2>1. \A u \in Tasks : /\ attempt'[u] \in 0..attempts'
                         /\ Denied(u)' => attempt'[u] # 0
                         /\ pc'[u] # "idle" => attempt'[u] # 0 /\ reply'[u] = NoReply
    BY <1>1, <1>2, <1>4 DEF Numbered
  <2>2. \A u, v \in Tasks : u # v /\ attempt'[u] # 0 => attempt'[u] # attempt'[v]
    BY <1>1, <1>2 DEF Numbered
  <2>3. /\ \A i \in 1..Len(log') : log'[i].attempt <= attempts'
        /\ \A j \in inflight' : j.attempt <= attempts'
    BY <1>1, <1>2 DEF Numbered
  <2> QED
    BY <2>1, <2>2, <2>3 DEF Numbered
<1>6. ASSUME NEW u \in Tasks, Denied(u)' PROVE NothingLeft(attempt[u])'
  BY <1>1, <1>3, <1>4, <1>6 DEF DeniedLeftNothing, NothingLeft
<1> QED
  BY <1>5, <1>6 DEF DeniedLeftNothing

\* What lands after its caller left carries that caller's number.
LEMMA LandLeavesNothing ==
    ASSUME TypeOK, Numbered, DeniedLeftNothing, NEW j \in inflight, Land(j)
    PROVE  Numbered' /\ DeniedLeftNothing'
<1>1. /\ UNCHANGED <<pc, reply, attempt, attempts>> /\ inflight' \subseteq inflight
      /\ log' = log \/ log' = Append(log, EventOf(j))
  BY DEF Land, Commit, CommitEvent, calls, stores
<1>2. j \in JobType /\ j.attempt <= attempts /\ EventOf(j).attempt = j.attempt
  BY DEF TypeOK, Numbered, EventOf
<1>3. \A i \in 1..Len(log') : \/ log'[i].attempt = j.attempt
                              \/ i \in 1..Len(log) /\ log'[i] = log[i]
  <2>1. \A i \in 1..Len(log') : \/ log'[i] = EventOf(j)
                                \/ i \in 1..Len(log) /\ log'[i] = log[i]
    BY <1>1, <1>2, Grows
  <2> QED
    BY <1>2, <2>1
<1>4. Numbered'
  BY <1>1, <1>2, <1>3 DEF Numbered, Denied
<1>5. ASSUME NEW u \in Tasks, Denied(u)' PROVE NothingLeft(attempt[u])'
  <2>1. NothingLeft(attempt[u])
    BY <1>1, <1>5 DEF DeniedLeftNothing, Denied
  <2> QED
    BY <1>1, <1>3, <2>1 DEF NothingLeft
<1> QED
  BY <1>4, <1>5 DEF DeniedLeftNothing

\* A call answered with a retryable conflict, a refusal or a replay put
\* nothing in the log and left nothing on its way there, over every store.
THEOREM TurnedAwayCommittedNothing == Spec => []RefusedCommittedNothing
<1>1. Init => Numbered /\ DeniedLeftNothing
  BY DEF Init, Numbered, DeniedLeftNothing, NothingLeft, Denied, Undecided, NoReply, Reply
<1>2. TypeOK /\ Numbered /\ DeniedLeftNothing /\ [Next]_vars
        => Numbered' /\ DeniedLeftNothing'
  <2> SUFFICES ASSUME TypeOK, Numbered, DeniedLeftNothing, [Next]_vars
               PROVE  Numbered' /\ DeniedLeftNothing'
    OBVIOUS
  <2>1. CASE UNCHANGED vars \/ Quiet
    BY <2>1 DEF Quiet, vars, stores, calls, Numbered, DeniedLeftNothing, NothingLeft, Denied
  <2>2. ASSUME NEW t \in Tasks, Acquire(t) \/ Work(t) \/ Fail(t) \/ Leave(t)
        PROVE  Numbered' /\ DeniedLeftNothing'
    BY <2>2, WorkMoves, MoveLeavesNothing
  <2> QED
    BY <2>1, <2>2, CallLeavesNothing, LandLeavesNothing DEF Next
<1>3. DeniedLeftNothing => RefusedCommittedNothing
  BY DEF DeniedLeftNothing, NothingLeft, Denied, RefusedCommittedNothing
<1> QED
  BY <1>1, <1>2, <1>3, TypeCorrect, PTL DEF Spec
-----------------------------------------------------------------------------
(* What a caller that is answered may conclude.                            *)

\* A write past its append is in the log.
LoggedIfAsked(j) == j.step \in {"record", "project"} => InLog(EventOf(j))

\* An outcome recorded for a key is that of an event logged for it.
Backed(k) ==
    outcomes[k] # None =>
        \E i \in 1..Len(log) : /\ log[i].cmd.key = k
                               /\ log[i].rev = outcomes[k].rev
                               /\ log[i].cmd.hash = outcomes[k].hash
                               /\ log[i].cmd.digest = outcomes[k].digest

TrueReply(t) ==
    /\ reply[t].kind = "accepted" =>
          \E i \in 1..Len(log) : /\ log[i].attempt = attempt[t]
                                 /\ log[i].cmd = cmd[t]
                                 /\ log[i].rev = reply[t].rev
    /\ reply[t].kind = "replayed" =>
          \E i \in 1..Len(log) : /\ log[i].cmd.key = cmd[t].key
                                 /\ SameLogicalCommand(cmd[t], log[i].cmd)
                                 /\ log[i].rev = reply[t].rev

Answers ==
    /\ \A t \in Tasks : LoggedIfAsked(Job(t)) /\ TrueReply(t)
    /\ \A j \in inflight : LoggedIfAsked(j)
    /\ \A k \in Keys : Backed(k)

\* What is in the log stays there, at its place.
LogKept == \A i \in 1..Len(log) : i \in 1..Len(log') /\ log'[i] = log[i]

LEMMA StepKeepsLog ==
    ASSUME TypeOK, [Next]_vars
    PROVE  LogKept
<1>1. CASE UNCHANGED <<log, head>>
  BY <1>1 DEF LogKept
<1>2. ASSUME NEW j \in JobType, Placed(j) PROVE LogKept
  <2>1. Len(log) \in Nat /\ Len(log') = Len(log) + 1
    BY <1>2, PlacedLog, Zenon
  <2>2. \A i \in 1..Len(log) : log'[i] = log[i]
    BY <1>2, PlacedLog, Zenon
  <2> QED
    BY <2>1, <2>2 DEF LogKept
<1> QED
  BY <1>1, <1>2, StepPlaces

LEMMA LoggedStays ==
    ASSUME LogKept, NEW e, InLog(e)
    PROVE  InLog(e)'
BY DEF LogKept, InLog

\* The event of a write is in the log once this step is taken.
NowLogged(j) == \E i \in 1..Len(log') : log'[i] = EventOf(j)

\* A committed write is in the log.
LEMMA CommitLogs ==
    ASSUME TypeOK, NEW j \in JobType, CommitEvent(j)
    PROVE  NowLogged(j)
<1> DEFINE e == EventOf(j)
<1>1. e \in Event /\ log \in Seq(Event) /\ log' = Append(log, e)
  BY RecordsAreTyped DEF TypeOK, CommitEvent
<1> HIDE DEF e
<1>2. /\ Len(log') = Len(log) + 1 /\ Len(log) \in Nat /\ log'[Len(log) + 1] = e
  BY <1>1
<1>3. Len(log) + 1 \in 1..Len(log')
  BY <1>2
<1> QED
  BY <1>2, <1>3 DEF NowLogged, e

\* The outcomes stay backed by the log, if the one recorded is.
LEMMA OutcomesStayBacked ==
    ASSUME TypeOK, LogKept, NEW k \in Keys, Backed(k),
           \/ outcomes' = outcomes
           \/ \E j \in JobType : RecordOutcome(j) /\ NowLogged(j)
    PROVE  Backed(k)'
<1>1. CASE outcomes'[k] = outcomes[k]
  <2> SUFFICES ASSUME outcomes[k] # None PROVE Backed(k)'
    BY <1>1 DEF Backed
  <2>1. PICK i \in 1..Len(log) : /\ log[i].cmd.key = k
                                 /\ log[i].rev = outcomes[k].rev
                                 /\ log[i].cmd.hash = outcomes[k].hash
                                 /\ log[i].cmd.digest = outcomes[k].digest
    BY DEF Backed
  <2>2. i \in 1..Len(log') /\ log'[i] = log[i]
    BY DEF LogKept
  <2> QED
    BY <1>1, <2>1, <2>2 DEF Backed
<1>2. ASSUME NEW j \in JobType, NowLogged(j), j.cmd.key = k, outcomes'[k] = OutcomeOf(j)
      PROVE  Backed(k)'
  <2>1. PICK i \in 1..Len(log') : log'[i] = EventOf(j)
    BY <1>2 DEF NowLogged
  <2>2. /\ outcomes'[k].rev = j.cur + 1 /\ outcomes'[k].hash = j.cmd.hash
        /\ outcomes'[k].digest = j.cmd.digest
    BY <1>2 DEF OutcomeOf
  <2>3. log'[i].cmd = j.cmd /\ log'[i].rev = j.cur + 1
    BY <2>1 DEF EventOf
  <2> QED
    BY <1>2, <2>2, <2>3 DEF Backed
<1>3. ASSUME NEW j \in JobType, RecordOutcome(j), NowLogged(j), outcomes' # outcomes
      PROVE  Backed(k)'
  <2>1. j.cmd.key \in Keys /\ outcomes' = [outcomes EXCEPT ![j.cmd.key] = OutcomeOf(j)]
    BY <1>3 DEF RecordOutcome, JobType, Command
  <2>2. outcomes \in [Keys -> Outcome \cup {None}]
    BY DEF TypeOK
  <2> QED
    BY <1>1, <1>2, <1>3, <2>1, <2>2
<1> QED
  BY <1>1, <1>3

\* An answer once true stays true.
LEMMA TrueReplyStays ==
    ASSUME LogKept, NEW u \in Tasks, TrueReply(u),
           reply'[u] = reply[u] \/ reply'[u].kind \notin {"accepted", "replayed"},
           attempt'[u] = attempt[u], cmd'[u] = cmd[u]
    PROVE  TrueReply(u)'
BY DEF LogKept, TrueReply, SameLogicalCommand

\* What a call under way does to itself alone: it gets past its append, or is
\* answered as accepted, only with its event in the log, and as replayed only
\* with the outcome of its key.
Proper(t) ==
    /\ \A u \in Tasks \ {t} : /\ pc'[u] = pc[u] /\ cmd'[u] = cmd[u] /\ reads'[u] = reads[u]
                              /\ cur'[u] = cur[u] /\ attempt'[u] = attempt[u]
                              /\ reply'[u] = reply[u]
    /\ cmd' = cmd /\ reads' = reads /\ attempt' = attempt
    /\ pc'[t] \in {"record", "project"} => cur' = cur /\ NowLogged(Job(t))
    /\ \/ reply'[t] = reply[t] \/ reply'[t].kind \notin {"accepted", "replayed"}
       \/ reply'[t] = Reply("accepted", cur[t] + 1) /\ NowLogged(Job(t))
       \/ \E k \in Keys : /\ k = cmd[t].key /\ outcomes[k] # None
                          /\ SameLogicalCommand(cmd[t], outcomes[k])
                          /\ reply'[t] = Reply("replayed", outcomes[k].rev)
    /\ \/ outcomes' = outcomes
       \/ RecordOutcome(Job(t)) /\ NowLogged(Job(t))
    /\ inflight' \subseteq inflight \cup {Job(t)}

LEMMA WorkIsProper ==
    ASSUME TypeOK, Answers, LogKept, NEW t \in Tasks,
           Acquire(t) \/ Work(t) \/ Fail(t) \/ Leave(t)
    PROVE  Proper(t)
<1>0. /\ pc \in [Tasks -> Steps] /\ reply \in [Tasks -> Replies] /\ cur \in [Tasks -> Nat]
      /\ cmd[t] \in Command /\ Job(t) \in JobType
  BY JobIsTyped DEF TypeOK
<1>1. ASSUME pc[t] \in {"record", "project"} PROVE NowLogged(Job(t))
  <2>1. InLog(EventOf(Job(t)))
    BY <1>1 DEF Answers, LoggedIfAsked, Job
  <2> QED
    BY <2>1 DEF LogKept, InLog, NowLogged
<1>2. ASSUME Acquire(t) \/ Precheck(t) \/ LoadRevision(t) \/ LoadHash(t) \/ ReadLast(t)
             \/ LoseOutcome(t) \/ Fail(t) \/ Leave(t) \/ \E a \in Abouts : Recheck(t, a)
      PROVE  Proper(t)
  <2> USE DEF Conflict, Answer, Goto, Proper, Reply, stores
  <2>1. CASE Acquire(t) \/ Precheck(t) \/ \E a \in Abouts : Recheck(t, a)
    BY <1>0, <1>1, <2>1 DEF Acquire, Precheck, Recheck
  <2>2. CASE LoadRevision(t) \/ LoadHash(t) \/ ReadLast(t)
    BY <1>0, <1>1, <2>2 DEF LoadRevision, LoadHash, ReadLast
  <2>3. CASE LoseOutcome(t) \/ Fail(t) \/ Leave(t)
    BY <1>0, <1>1, <2>3 DEF LoseOutcome, Fail, Leave
  <2> QED
    BY <1>2, <2>1, <2>2, <2>3
<1>3. ASSUME CheckKey(t) PROVE Proper(t)
  <2>1. KeyIsAccepted(t) => cmd[t].key \in Keys /\ outcomes[cmd[t].key] # None
    BY <1>0 DEF KeyIsAccepted, Command
  <2> QED
    BY <1>0, <1>3, <2>1 DEF CheckKey, Answer, Goto, Proper, Reply, stores
<1>4. ASSUME AppendEvent(t) PROVE Proper(t)
  <2>1. CASE RevisionsHold(Job(t))
    <3>1. CommitEvent(Job(t)) /\ (outcomes' = outcomes \/ RecordOutcome(Job(t)))
          /\ inflight' = inflight
      BY <1>4, <2>1 DEF AppendEvent, Commit
    <3>2. NowLogged(Job(t))
      BY <1>0, <3>1, CommitLogs
    <3>3. \/ Answer(t, Reply("accepted", cur[t] + 1))
          \/ \E s \in {"record", "project"} : Goto(t, s)
      BY <1>4, <2>1 DEF AppendEvent
    <3> QED
      BY <1>0, <3>1, <3>2, <3>3 DEF Answer, Goto, Proper
  <2>2. CASE ~RevisionsHold(Job(t))
    BY <1>0, <1>4, <2>2 DEF AppendEvent, Conflict, Answer, Proper, Reply, stores
  <2> QED
    BY <2>1, <2>2
<1>5. ASSUME Record(t) \/ Project(t) PROVE Proper(t)
  BY <1>0, <1>1, <1>5 DEF Record, Project, Answer, Goto, Proper
<1> QED
  BY <1>2, <1>3, <1>4, <1>5 DEF Work

\* A proper move keeps every answer true.
LEMMA ProperAnswers ==
    ASSUME TypeOK, Answers, LogKept, NEW t \in Tasks, Proper(t)
    PROVE  Answers'
<1>0. Job(t) \in JobType
  BY JobIsTyped
<1>1. ASSUME NEW u \in Tasks PROVE LoggedIfAsked(Job(u))'
  <2>1. CASE u = t
    <3> SUFFICES ASSUME pc'[t] \in {"record", "project"} PROVE InLog(EventOf(Job(t)))'
      BY <2>1 DEF LoggedIfAsked, Job
    <3>1. EventOf(Job(t))' = EventOf(Job(t)) /\ NowLogged(Job(t))
      BY DEF Proper, EventOf, Job
    <3> QED
      BY <3>1 DEF NowLogged, InLog
  <2>2. CASE u # t
    <3>1. Job(u)' = Job(u) /\ EventOf(Job(u))' = EventOf(Job(u))
      BY <2>2 DEF Proper, EventOf, Job
    <3>2. LoggedIfAsked(Job(u))
      BY DEF Answers
    <3> QED
      BY <3>1, <3>2 DEF LoggedIfAsked, InLog, LogKept
  <2> QED
    BY <2>1, <2>2
<1>2. ASSUME NEW u \in Tasks PROVE TrueReply(u)'
  <2>0. TrueReply(u) /\ attempt'[u] = attempt[u] /\ cmd'[u] = cmd[u]
    BY DEF Answers, Proper
  <2>1. CASE reply'[u] = reply[u] \/ reply'[u].kind \notin {"accepted", "replayed"}
    BY <2>0, <2>1, TrueReplyStays
  <2>2. CASE u = t /\ reply'[t] = Reply("accepted", cur[t] + 1) /\ NowLogged(Job(t))
    <3>1. PICK i \in 1..Len(log') : log'[i] = EventOf(Job(t))
      BY <2>2 DEF NowLogged
    <3>2. /\ log'[i].attempt = attempt[t] /\ log'[i].cmd = cmd[t]
          /\ log'[i].rev = cur[t] + 1
      BY <3>1 DEF EventOf, Job
    <3> QED
      BY <2>0, <2>2, <3>2 DEF TrueReply, Reply
  <2>3. CASE u = t /\ \E k \in Keys : /\ k = cmd[t].key /\ outcomes[k] # None
                                      /\ SameLogicalCommand(cmd[t], outcomes[k])
                                      /\ reply'[t] = Reply("replayed", outcomes[k].rev)
    <3>1. PICK k \in Keys : /\ k = cmd[t].key /\ outcomes[k] # None
                            /\ SameLogicalCommand(cmd[t], outcomes[k])
                            /\ reply'[t] = Reply("replayed", outcomes[k].rev)
      BY <2>3
    <3>2. PICK i \in 1..Len(log) : /\ log[i].cmd.key = k
                                   /\ log[i].rev = outcomes[k].rev
                                   /\ log[i].cmd.hash = outcomes[k].hash
                                   /\ log[i].cmd.digest = outcomes[k].digest
      BY <3>1 DEF Answers, Backed
    <3>3. i \in 1..Len(log') /\ log'[i] = log[i] /\ SameLogicalCommand(cmd[t], log[i].cmd)
      BY <3>1, <3>2 DEF LogKept, SameLogicalCommand
    <3>4. reply'[t].kind = "replayed" /\ reply'[t].rev = outcomes[k].rev
      BY <3>1 DEF Reply
    <3> QED
      BY <2>0, <2>3, <3>1, <3>2, <3>3, <3>4 DEF TrueReply, SameLogicalCommand
  <2> QED
    BY <2>1, <2>2, <2>3 DEF Proper
<1>3. ASSUME NEW j \in inflight' PROVE LoggedIfAsked(j)'
  <2>1. LoggedIfAsked(j)
    BY DEF Proper, Answers
  <2> QED
    BY <2>1 DEF LoggedIfAsked, InLog, LogKept
<1>4. ASSUME NEW k \in Keys PROVE Backed(k)'
  <2>1. Backed(k)
    BY DEF Answers
  <2> QED
    BY <1>0, <2>1, OutcomesStayBacked DEF Proper
<1> QED
  BY <1>1, <1>2, <1>3, <1>4 DEF Answers

\* A call begins with nothing to answer for.
LEMMA CallAnswers ==
    ASSUME TypeOK, Answers, LogKept, NEW t \in Tasks, Call(t)
    PROVE  Answers'
<1>1. /\ UNCHANGED <<outcomes, inflight>> /\ pc'[t] = "wait" /\ reply'[t] = NoReply
      /\ \A u \in Tasks \ {t} : /\ pc'[u] = pc[u] /\ cmd'[u] = cmd[u] /\ reads'[u] = reads[u]
                                /\ cur'[u] = cur[u] /\ attempt'[u] = attempt[u]
                                /\ reply'[u] = reply[u]
  BY DEF Call, Begin, stores, TypeOK
<1>2. ASSUME NEW u \in Tasks PROVE LoggedIfAsked(Job(u))' /\ TrueReply(u)'
  <2>1. CASE u = t
    BY <1>1, <2>1 DEF LoggedIfAsked, Job, TrueReply, NoReply, Reply
  <2>2. CASE u # t
    <3>1. Job(u)' = Job(u) /\ LoggedIfAsked(Job(u)) /\ TrueReply(u)
      BY <1>1, <2>2 DEF Job, Answers
    <3>2. EventOf(Job(u))' = EventOf(Job(u))
      BY <3>1 DEF EventOf
    <3> QED
      BY <1>1, <2>2, <3>1, <3>2, TrueReplyStays DEF LoggedIfAsked, InLog, LogKept
  <2> QED
    BY <2>1, <2>2
<1>3. ASSUME NEW j \in inflight PROVE LoggedIfAsked(j)'
  BY DEF Answers, LoggedIfAsked, InLog, LogKept
<1>4. ASSUME NEW k \in Keys PROVE Backed(k)'
  BY <1>1, OutcomesStayBacked DEF Answers
<1> QED
  BY <1>1, <1>2, <1>3, <1>4 DEF Answers

\* A step that takes no call further leaves all answers as they were; what
\* lands is what its caller asked for.
LEMMA OthersAnswer ==
    ASSUME TypeOK, Answers, LogKept, UNCHANGED calls, inflight' \subseteq inflight,
           \/ outcomes' = outcomes
           \/ \E j \in JobType : RecordOutcome(j) /\ NowLogged(j)
    PROVE  Answers'
<1>1. ASSUME NEW u \in Tasks PROVE LoggedIfAsked(Job(u))' /\ TrueReply(u)'
  <2>1. Job(u)' = Job(u) /\ EventOf(Job(u))' = EventOf(Job(u))
    BY DEF Job, EventOf, calls
  <2>2. LoggedIfAsked(Job(u)) /\ TrueReply(u)
    BY DEF Answers
  <2> QED
    BY <2>1, <2>2, TrueReplyStays DEF LoggedIfAsked, InLog, LogKept, calls
<1>2. ASSUME NEW j \in inflight' PROVE LoggedIfAsked(j)'
  BY DEF Answers, LoggedIfAsked, InLog, LogKept
<1>3. ASSUME NEW k \in Keys PROVE Backed(k)'
  BY OutcomesStayBacked DEF Answers
<1> QED
  BY <1>1, <1>2, <1>3 DEF Answers

\* What a caller is told is in the log, over every store, whoever crashed,
\* left or raced it: an accepted call names the event it committed, a
\* replayed one an event of its key and its logical command.
THEOREM AnswersAreAlwaysTrue == Spec => []RepliesAreTrue
<1>1. Init => Answers
  BY DEF Init, Answers, LoggedIfAsked, TrueReply, Backed, Job, NoReply, Reply
<1>2. TypeOK /\ Answers /\ [Next]_vars => Answers'
  <2> SUFFICES ASSUME TypeOK, Answers, [Next]_vars PROVE Answers'
    OBVIOUS
  <2>0. LogKept
    BY StepKeepsLog
  <2>1. CASE UNCHANGED vars \/ Quiet
    BY <2>0, <2>1, OthersAnswer DEF Quiet, vars, stores
  <2>2. ASSUME NEW t \in Tasks, Acquire(t) \/ Work(t) \/ Fail(t) \/ Leave(t)
        PROVE  Answers'
    BY <2>0, <2>2, WorkIsProper, ProperAnswers
  <2>3. ASSUME NEW j \in inflight, Land(j) PROVE Answers'
    <3>1. j \in JobType /\ LoggedIfAsked(j) /\ UNCHANGED calls /\ inflight' \subseteq inflight
      BY <2>3 DEF TypeOK, Answers, Land
    <3>2. outcomes' = outcomes \/ (RecordOutcome(j) /\ NowLogged(j))
      <4>1. CASE CommitEvent(j)
        BY <2>3, <3>1, <4>1, CommitLogs DEF Land, Commit, stores
      <4>2. CASE j.step = "record"
        BY <2>0, <2>3, <3>1, <4>2 DEF LoggedIfAsked, InLog, LogKept, NowLogged, Land, stores,
                                      AppendStep
      <4> QED
        BY <2>3, <4>1, <4>2 DEF Land, Commit, stores
    <3> QED
      BY <2>0, <3>1, <3>2, OthersAnswer
  <2> QED
    BY <2>0, <2>1, <2>2, <2>3, CallAnswers DEF Next
<1>3. Answers => RepliesAreTrue
  BY DEF Answers, TrueReply, RepliesAreTrue
<1> QED
  BY <1>1, <1>2, <1>3, TypeCorrect, PTL DEF Spec
-----------------------------------------------------------------------------
(* Ready means projected: where event and projection are one transaction,  *)
(* if every call sends a digest of its logical command.                    *)

DigestsSent == \A c \in Commands : c.digest # None

\* What is decided, logged or left under way is a call some client made.
Asked == /\ \A t \in Tasks : cmd[t] \in Commands
         /\ \A j \in inflight : j.cmd \in Commands
         /\ \A i \in 1..Len(log) : log[i].cmd \in Commands

LEMMA StepKeepsAsked ==
    ASSUME TypeOK, Asked, [Next]_vars
    PROVE  Asked'
<1>1. \A t \in Tasks : cmd'[t] \in Commands
  <2>1. cmd' = cmd \/ \E t \in Tasks, c \in Commands : cmd' = [cmd EXCEPT ![t] = c]
    <3> USE DEF Conflict, Answer, Goto
    <3>1. ASSUME NEW t \in Tasks, Call(t)
          PROVE  \E c \in Commands : cmd' = [cmd EXCEPT ![t] = c]
      BY <3>1 DEF Call, Begin
    <3>2. ASSUME NEW t \in Tasks, Work(t) \/ Acquire(t)
          PROVE  cmd' = cmd
      BY <3>2 DEF Work, Acquire, Precheck, Recheck, CheckKey, LoadRevision, LoadHash,
                  ReadLast, AppendEvent, Record, LoseOutcome, Project
    <3>3. CASE UNCHANGED vars \/ Quiet
      BY <3>3 DEF Quiet, calls, vars
    <3>4. ASSUME NEW t \in Tasks, Fail(t) \/ Leave(t)
          PROVE  cmd' = cmd
      BY <3>4 DEF Fail, Leave
    <3>5. ASSUME NEW j \in inflight, Land(j)
          PROVE  cmd' = cmd
      BY <3>5 DEF Land, calls
    <3> QED
      BY <3>1, <3>2, <3>3, <3>4, <3>5 DEF Next
  <2> QED
    BY <2>1 DEF Asked, TypeOK
<1>2. \A j \in inflight' : j.cmd \in Commands
  <2>1. \A j \in inflight' : j \in inflight \/ \E t \in Tasks : j = Job(t)
    BY DEF Next, Work, Call, Begin, Acquire, Precheck, Recheck, CheckKey, LoadRevision,
           LoadHash, ReadLast, AppendEvent, Record, LoseOutcome, Project, Fail, Leave,
           Land, Quiet, vars
  <2> QED
    BY <2>1 DEF Asked, Job
<1>3. \A i \in 1..Len(log') : log'[i].cmd \in Commands
  <2>1. ASSUME NEW j \in JobType, Placed(j), j.cmd \in Commands, NEW i \in 1..Len(log')
        PROVE  log'[i].cmd \in Commands
    <3>1. log'[i] = EventOf(j) \/ (i \in 1..Len(log) /\ log'[i] = log[i])
      BY <2>1, Grows DEF Placed, CommitEvent
    <3> QED
      BY <2>1, <3>1 DEF EventOf, Asked
  <2>2. \A t \in Tasks : Job(t) \in JobType /\ Job(t).cmd \in Commands
    BY JobIsTyped DEF Asked, Job
  <2>3. \A j \in inflight : j \in JobType /\ j.cmd \in Commands
    BY DEF Asked, TypeOK
  <2>4. UNCHANGED log => \A i \in 1..Len(log') : log'[i].cmd \in Commands
    BY DEF Asked
  <2> QED
    BY <2>1, <2>2, <2>3, <2>4, StepPlacesAsked
<1> QED
  BY <1>1, <1>2, <1>3 DEF Asked

\* Over SQLite, and if every call sends a digest, a recall issued after the
\* answer sees the record: the revision answered has been projected.
THEOREM ReadyIsAlwaysProjected ==
    ASSUME Atomic, DigestsSent
    PROVE  Spec => []ReadyMeansProjected
<1>1. Init => Asked
  BY CommandAssumption DEF Init, Asked
<1>2. TypeOK /\ Asked /\ [Next]_vars => Asked'
  BY StepKeepsAsked
<1>3. TypeOK /\ Asked /\ RepliesAreTrue /\ RevisionsContiguous /\ ProjectionIsLog
        => ReadyMeansProjected
  <2> SUFFICES ASSUME TypeOK, Asked, RepliesAreTrue, RevisionsContiguous, ProjectionIsLog,
                      NEW t \in Tasks, reply[t].kind \in {"accepted", "replayed"}
               PROVE  \E i \in 1..Len(applied[cmd[t].about]) :
                          applied[cmd[t].about][i] = reply[t].rev
    BY DEF ReadyMeansProjected
  <2>1. PICK i \in 1..Len(log) : log[i].rev = reply[t].rev /\ log[i].cmd.about = cmd[t].about
    <3>1. CASE reply[t].kind = "accepted"
      BY <3>1 DEF RepliesAreTrue
    <3>2. CASE reply[t].kind = "replayed"
      <4>1. PICK i \in 1..Len(log) : /\ SameLogicalCommand(cmd[t], log[i].cmd)
                                     /\ log[i].rev = reply[t].rev
        BY <3>2 DEF RepliesAreTrue
      <4>2. cmd[t] \in Commands /\ log[i].cmd \in Commands
        BY DEF Asked
      <4> QED
        BY <4>1, <4>2, DigestAssumption DEF DigestsSent, SameLogicalCommand
    <3> QED
      BY <3>1, <3>2
  <2> DEFINE a == cmd[t].about
             h == head[a].rev
  <2>2. a \in Abouts /\ h \in Nat
    BY CommandAssumption DEF Asked, TypeOK, Command
  <2>3. reply[t].rev \in 1..h
    BY <2>1 DEF RevisionsContiguous
  <2>4. applied[a] = [r \in 1..h |-> r]
    BY <2>2 DEF ProjectionIsLog
  <2> HIDE DEF a, h
  <2>5. Len(applied[a]) = h /\ applied[a][reply[t].rev] = reply[t].rev
    BY <2>2, <2>3, <2>4
  <2> QED
    BY <2>3, <2>5 DEF a
<1> QED
  BY <1>1, <1>2, <1>3, TypeCorrect, AnswersAreAlwaysTrue, NoUpdateIsLost,
     ProjectionIsAlwaysLog, PTL DEF Spec
-----------------------------------------------------------------------------
(* The projection, over any store.  Where it is a request of its own, an    *)
(* event is committed and not yet projected for as long as its call stands  *)
(* between the two, or its request is still under way.                      *)

Projects(j) == j.step \in {"record", "project"}

\* The event of a call past its append is in the log and not yet projected.
Owed(j) ==
    Projects(j) =>
        /\ j.cur < head[j.cmd.about].rev
        /\ \A i \in 1..Len(applied[j.cmd.about]) : applied[j.cmd.about][i] # j.cur + 1

\* Two calls past their appends have committed different events.
Apart(j, k) ==
    Projects(j) /\ Projects(k) /\ j.cmd.about = k.cmd.about => j.cur # k.cur

EachOwed == /\ \A t \in Tasks : Owed(Job(t))
            /\ \A j \in inflight : Owed(j)

AllApart == /\ \A t, u \in Tasks : t # u => Apart(Job(t), Job(u))
            /\ \A t \in Tasks, j \in inflight : Apart(Job(t), j)
            /\ \A j, k \in inflight : j # k => Apart(j, k)

\* What applying a write adds to the projection.
LEMMA AppliedLog ==
    ASSUME TypeOK, NEW j \in JobType, Apply(j)
    PROVE  LET a == j.cmd.about
               n == Len(applied[a])
           IN  /\ Len(applied'[a]) = n + 1
               /\ \A i \in 1..n : applied'[a][i] = applied[a][i]
               /\ applied'[a][n + 1] = j.cur + 1
               /\ \A b \in Abouts \ {a} : applied'[b] = applied[b]
<1> DEFINE ab == j.cmd.about
           s == applied[ab]
           r == j.cur + 1
<1>1. ab \in Abouts /\ r \in Nat /\ s \in Seq(Nat)
  BY DEF TypeOK, JobType, Command
<1>2. applied' = [applied EXCEPT ![ab] = Append(s, r)] /\ applied \in [Abouts -> Seq(Nat)]
  BY DEF Apply, TypeOK
<1> HIDE DEF ab, s, r
<1>3. applied'[ab] = Append(s, r) /\ \A b \in Abouts \ {ab} : applied'[b] = applied[b]
  BY <1>1, <1>2
<1>4. Len(Append(s, r)) = Len(s) + 1 /\ \A i \in 1..Len(s) : Append(s, r)[i] = s[i]
      /\ Append(s, r)[Len(s) + 1] = r
  BY <1>1
<1>5. /\ Len(applied'[ab]) = Len(s) + 1
      /\ \A i \in 1..Len(s) : applied'[ab][i] = s[i]
      /\ applied'[ab][Len(s) + 1] = r
  BY <1>3, <1>4
<1> QED
  BY <1>3, <1>5 DEF ab, s, r

\* A write projects once if it is owed and the projection held each revision once.
LEMMA ApplyOnce ==
    ASSUME TypeOK, TypeOK', NEW j \in JobType, Apply(j),
           \A a \in Abouts : head[a].rev <= head'[a].rev,
           j.cur < head'[j.cmd.about].rev,
           \A i \in 1..Len(applied[j.cmd.about]) : applied[j.cmd.about][i] # j.cur + 1,
           ProjectedOnce
    PROVE  ProjectedOnce'
<1> DEFINE ab == j.cmd.about
           n == Len(applied[ab])
<1>1. /\ Len(applied'[ab]) = n + 1
      /\ \A i \in 1..n : applied'[ab][i] = applied[ab][i]
      /\ applied'[ab][n + 1] = j.cur + 1
      /\ \A b \in Abouts \ {ab} : applied'[b] = applied[b]
  BY AppliedLog
<1>2. /\ ab \in Abouts /\ j.cur \in Nat /\ n \in Nat
      /\ \A a \in Abouts : head[a].rev \in Nat /\ head'[a].rev \in Nat
  BY DEF TypeOK, JobType, Command
<1> SUFFICES ASSUME NEW a \in Abouts, NEW i \in 1..Len(applied'[a]), NEW k \in 1..Len(applied'[a])
             PROVE  /\ applied'[a][i] \in 1..head'[a].rev
                    /\ i # k => applied'[a][i] # applied'[a][k]
  BY DEF ProjectedOnce
<1>3. \A b \in Abouts : \A x \in 1..Len(applied[b]) : applied[b][x] \in 1..head'[b].rev
  BY <1>2, SMTT(30) DEF ProjectedOnce
<1>4. CASE a # ab
  BY <1>1, <1>3, <1>4 DEF ProjectedOnce
<1>5. CASE a = ab
  <2>1. \A x \in 1..(n + 1) : x \in 1..n \/ x = n + 1
    BY <1>2
  <2>2. j.cur + 1 \in 1..head'[ab].rev
    BY <1>2
  <2>3. \A x \in 1..n : applied[ab][x] # j.cur + 1
    OBVIOUS
  <2>4. \A x, y \in 1..n : x # y => applied[ab][x] # applied[ab][y]
    BY <1>2 DEF ProjectedOnce
  <2>5. \A x \in 1..n : applied[ab][x] \in 1..head'[ab].rev
    BY <1>2, <1>3
  <2> HIDE DEF ab, n
  <2> QED
    BY <1>1, <1>5, <2>1, <2>2, <2>3, <2>4, <2>5
<1> QED
  BY <1>4, <1>5

\* Projecting what is owed keeps every other debt as it was.
LEMMA ApplyPays ==
    ASSUME TypeOK, TypeOK', NEW j \in JobType, Apply(j),
           \A a \in Abouts : head[a].rev <= head'[a].rev,
           NEW k \in JobType, Owed(k),
           Projects(k) /\ j.cmd.about = k.cmd.about => j.cur # k.cur
    PROVE  Owed(k)'
<1> DEFINE ab == k.cmd.about
           n == Len(applied[ab])
<1>1. /\ ab \in Abouts /\ k.cur \in Nat /\ j.cur \in Nat /\ n \in Nat
      /\ head[ab].rev \in Nat /\ head'[ab].rev \in Nat /\ head[ab].rev <= head'[ab].rev
  <2>1. ab \in Abouts /\ k.cur \in Nat /\ j.cur \in Nat
    BY DEF JobType, Command
  <2>2. head[ab].rev \in Nat /\ n \in Nat
    BY <2>1 DEF TypeOK
  <2>3. head'[ab].rev \in Nat
    BY <2>1 DEF TypeOK
  <2> QED
    BY <2>1, <2>2, <2>3
<1> SUFFICES ASSUME Projects(k)
             PROVE  /\ k.cur < head'[ab].rev
                    /\ \A i \in 1..Len(applied'[ab]) : applied'[ab][i] # k.cur + 1
  BY DEF Owed
<1>2. k.cur < head[ab].rev /\ \A i \in 1..n : applied[ab][i] # k.cur + 1
  BY DEF Owed
<1>3. CASE j.cmd.about # ab
  BY <1>1, <1>2, <1>3, AppliedLog
<1>4. CASE j.cmd.about = ab
  <2>1. /\ Len(applied'[ab]) = n + 1
        /\ \A i \in 1..n : applied'[ab][i] = applied[ab][i]
        /\ applied'[ab][n + 1] = j.cur + 1
    BY <1>4, AppliedLog
  <2>2. j.cur # k.cur
    BY <1>4
  <2>3. \A x \in 1..(n + 1) : x \in 1..n \/ x = n + 1
    BY <1>1
  <2> HIDE DEF ab, n
  <2>4. k.cur < head'[ab].rev
    BY <1>1, <1>2
  <2>5. ASSUME NEW x \in 1..(n + 1) PROVE applied'[ab][x] # k.cur + 1
    <3>1. CASE x \in 1..n
      BY <1>2, <2>1, <3>1
    <3>2. CASE x = n + 1
      BY <1>1, <2>1, <2>2, <3>2
    <3> QED
      BY <2>3, <3>1, <3>2
  <2> QED
    BY <2>1, <2>4, <2>5
<1> QED
  BY <1>3, <1>4

\* An append moves the head of its about past every debt, its own included.
LEMMA PlacedIsOwed ==
    ASSUME TypeOK, TypeOK', ProjectedOnce, NEW j \in JobType, Placed(j),
           applied' = applied \/ Apply(j)
    PROVE  /\ ProjectedOnce'
           /\ \A k \in JobType : Owed(k) => Owed(k)'
           /\ \A k \in JobType : Owed(k) /\ Projects(k) /\ k.cmd.about = j.cmd.about
                                   => k.cur # j.cur
           /\ \A k \in JobType : applied' = applied /\ k.cmd = j.cmd /\ k.cur = j.cur
                                   => Owed(k)'
<1> DEFINE ab == j.cmd.about
<1>0. /\ ab \in Abouts /\ j.cur \in Nat /\ j.cur = head[ab].rev
      /\ head'[ab] = [rev |-> j.cur + 1, hash |-> j.cmd.hash]
      /\ \A a \in Abouts \ {ab} : head'[a] = head[a]
  BY PlacedLog, Zenon
<1>1. /\ ab \in Abouts /\ j.cur \in Nat /\ j.cur = head[ab].rev
      /\ head'[ab].rev = j.cur + 1
      /\ \A a \in Abouts \ {ab} : head'[a] = head[a]
  BY <1>0
<1>2. /\ \A a \in Abouts : head[a].rev \in Nat
      /\ \A a \in Abouts : applied[a] \in Seq(Nat)
  BY DEF TypeOK
<1>3. \A a \in Abouts : head[a].rev <= head'[a].rev
  BY <1>1, <1>2
<1>4. \A i \in 1..Len(applied[ab]) : applied[ab][i] # j.cur + 1
  BY <1>1, <1>2 DEF ProjectedOnce
<1>5. \A k \in JobType : Owed(k) /\ Projects(k) /\ k.cmd.about = ab => k.cur # j.cur
  BY <1>1, <1>2 DEF Owed, JobType
<1>6. CASE applied' = applied
  <2>1. ProjectedOnce'
    BY <1>2, <1>3, <1>6 DEF ProjectedOnce, TypeOK
  <2>2. ASSUME NEW k \in JobType, Owed(k) PROVE Owed(k)'
    <3>1. /\ k.cmd.about \in Abouts /\ k.cur \in Nat
          /\ head'[k.cmd.about].rev \in Nat
      BY DEF JobType, Command, TypeOK
    <3> QED
      BY <1>2, <1>3, <1>6, <2>2, <3>1 DEF Owed
  <2>3. ASSUME NEW k \in JobType, k.cmd = j.cmd, k.cur = j.cur PROVE Owed(k)'
    BY <1>1, <1>4, <1>6, <2>3 DEF Owed
  <2> QED
    BY <1>5, <2>1, <2>2, <2>3
<1>7. CASE applied' # applied /\ Apply(j)
  <2>1. j.cur < head'[ab].rev
    BY <1>1
  <2>2. ProjectedOnce'
    BY <1>3, <1>4, <1>7, <2>1, ApplyOnce
  <2>3. ASSUME NEW k \in JobType, Owed(k) PROVE Owed(k)'
    <3>1. Projects(k) /\ j.cmd.about = k.cmd.about => j.cur # k.cur
      BY <1>5, <2>3
    <3> QED
      BY <1>3, <1>7, <2>3, <3>1, ApplyPays
  <2> QED
    BY <1>5, <1>7, <2>2, <2>3
<1> QED
  BY <1>6, <1>7

\* A call that does not stand past its append, or stood there before.
Stays(u) ==
    pc'[u] \in {"record", "project"} =>
        /\ pc[u] \in {"record", "project"}
        /\ cmd'[u] = cmd[u] /\ cur'[u] = cur[u]

\* Debts are kept by a step that makes none and keeps those of each call.
LEMMA NoNewDebt ==
    ASSUME TypeOK, EachOwed, AllApart,
           \A u \in Tasks : Stays(u), inflight' \subseteq inflight,
           \A u \in Tasks : pc'[u] \in {"record", "project"} => Owed(Job(u))',
           \A k \in inflight' : Owed(k)'
    PROVE  EachOwed' /\ AllApart'
<1>1. \A u \in Tasks : Owed(Job(u))'
  BY DEF Owed, Projects, Job
<1>2. \A u \in Tasks : Projects(Job(u)') => /\ Projects(Job(u))
                                           /\ Job(u)'.cmd = Job(u).cmd
                                           /\ Job(u)'.cur = Job(u).cur
  BY DEF Projects, Job, Stays
<1>3. \A t, u \in Tasks : t # u => Apart(Job(t)', Job(u)')
  BY <1>2 DEF AllApart, Apart
<1>4. \A t \in Tasks, k \in inflight' : Apart(Job(t)', k)
  BY <1>2 DEF AllApart, Apart
<1> QED
  BY <1>1, <1>3, <1>4 DEF EachOwed, AllApart, Apart, Projects

\* In particular by one that keeps the debts of all jobs.
LEMMA DebtsKept ==
    ASSUME TypeOK, EachOwed, AllApart,
           \A u \in Tasks : Stays(u), inflight' \subseteq inflight,
           \A k \in JobType : Owed(k) => Owed(k)'
    PROVE  EachOwed' /\ AllApart'
<1>1. ASSUME NEW u \in Tasks, pc'[u] \in {"record", "project"}
      PROVE  Owed(Job(u))'
  <2>1. Job(u) \in JobType /\ Owed(Job(u)) /\ Projects(Job(u))
    BY <1>1, JobIsTyped DEF EachOwed, Stays, Projects, Job
  <2> DEFINE k == Job(u)
             a == cmd[u].about
  <2>2. /\ cur[u] < head'[a].rev
        /\ \A i \in 1..Len(applied'[a]) : applied'[a][i] # cur[u] + 1
    BY <2>1 DEF Owed, Projects, Job
  <2> QED
    BY <1>1, <2>2 DEF Owed, Stays, Job
<1>2. \A k \in inflight' : Owed(k)'
  BY DEF EachOwed, TypeOK
<1> QED
  BY <1>1, <1>2, NoNewDebt

LEMMA QuietOwes ==
    ASSUME TypeOK, EachOwed, AllApart, ProjectedOnce,
           UNCHANGED <<head, applied>>,
           \A u \in Tasks : Stays(u), inflight' \subseteq inflight
    PROVE  EachOwed' /\ AllApart' /\ ProjectedOnce'
<1>1. \A k \in JobType : Owed(k) => Owed(k)'
  BY DEF Owed
<1> QED
  BY <1>1, DebtsKept DEF ProjectedOnce

\* A call that is still before its append, or that only records, or that ends
\* or leaves, settles no debt and makes none.
LEMMA WaitingOwes ==
    ASSUME TypeOK, EachOwed, AllApart, ProjectedOnce, NEW t \in Tasks,
           \/ Call(t) \/ Acquire(t) \/ Precheck(t) \/ (\E a \in Abouts : Recheck(t, a))
           \/ CheckKey(t) \/ LoadRevision(t) \/ LoadHash(t) \/ ReadLast(t)
           \/ Record(t) \/ LoseOutcome(t) \/ Fail(t)
           \/ AppendEvent(t) /\ ~RevisionsHold(Job(t))
    PROVE  EachOwed' /\ AllApart' /\ ProjectedOnce'
<1> USE DEF stores, Answer, Conflict, Goto, Stays, TypeOK
<1>1. UNCHANGED <<head, applied, inflight>>
  BY DEF Call, Begin, Acquire, Precheck, Recheck, CheckKey, LoadRevision, LoadHash,
         ReadLast, Record, LoseOutcome, Fail, AppendEvent
<1>2. ASSUME NEW u \in Tasks PROVE Stays(u)
  <2>1. CASE Call(t) \/ Acquire(t) \/ Precheck(t) \/ \E a \in Abouts : Recheck(t, a)
    BY <2>1 DEF Call, Begin, Acquire, Precheck, Recheck
  <2>2. CASE CheckKey(t) \/ LoadRevision(t) \/ LoadHash(t) \/ ReadLast(t)
    BY <2>2 DEF CheckKey, LoadRevision, LoadHash, ReadLast
  <2>3. CASE Record(t) \/ LoseOutcome(t) \/ Fail(t)
    BY <2>3 DEF Record, LoseOutcome, Fail
  <2>4. CASE AppendEvent(t) /\ ~RevisionsHold(Job(t))
    BY <2>4 DEF AppendEvent
  <2> QED
    BY <2>1, <2>2, <2>3, <2>4
<1> QED
  BY <1>1, <1>2, QuietOwes

\* A request whose caller leaves stays owed under way.
LEMMA LeaveOwes ==
    ASSUME TypeOK, EachOwed, AllApart, ProjectedOnce, NEW t \in Tasks, Leave(t)
    PROVE  EachOwed' /\ AllApart' /\ ProjectedOnce'
<1>1. /\ inflight' = inflight \cup {Job(t)} /\ pc'[t] = "idle"
      /\ \A u \in Tasks \ {t} : Job(u)' = Job(u)
      /\ UNCHANGED <<head, applied>>
  BY DEF Leave, Answer, stores, TypeOK, Job
<1>2. \A k \in JobType : Owed(k) => Owed(k)'
  BY <1>1 DEF Owed
<1>3. \A u \in Tasks : Job(u) \in JobType
  BY JobIsTyped
<1>4. \A u \in Tasks \ {t} : Owed(Job(u))'
  BY <1>1 DEF EachOwed, Owed
<1>5. ~Projects(Job(t)')
  BY <1>1 DEF Projects, Job
<1>6. Owed(Job(t))'
  BY <1>5 DEF Owed, Projects
<1>7. \A k \in inflight' : Owed(k)'
  BY <1>1, <1>2, <1>3 DEF EachOwed, TypeOK
<1>8. EachOwed'
  BY <1>4, <1>6, <1>7 DEF EachOwed
<1>9. /\ \A v, u \in Tasks : v # u => Apart(Job(v)', Job(u)')
      /\ \A v \in Tasks, k \in inflight' : Apart(Job(v)', k)
      /\ \A j, k \in inflight' : j # k => Apart(j, k)
  BY <1>1, <1>5 DEF AllApart, Apart
<1> QED
  BY <1>1, <1>8, <1>9 DEF AllApart, Apart, Projects, ProjectedOnce

\* A task's append either settles its debt in the same transaction or goes on
\* owing the one projection of the revision it took.
LEMMA AppendOwes ==
    ASSUME TypeOK, TypeOK', EachOwed, AllApart, ProjectedOnce, NEW t \in Tasks,
           AppendEvent(t), RevisionsHold(Job(t))
    PROVE  EachOwed' /\ AllApart' /\ ProjectedOnce'
<1> DEFINE j == Job(t)
<1>1. /\ j \in JobType /\ Placed(j) /\ inflight' = inflight
      /\ applied' = applied \/ Apply(j)
  BY JobIsTyped DEF AppendEvent, Commit, Placed
<1>2. /\ ProjectedOnce'
      /\ \A k \in JobType : Owed(k) => Owed(k)'
      /\ \A k \in JobType : Owed(k) /\ Projects(k) /\ k.cmd.about = j.cmd.about
                              => k.cur # j.cur
      /\ \A k \in JobType : applied' = applied /\ k.cmd = j.cmd /\ k.cur = j.cur
                              => Owed(k)'
  BY <1>1, PlacedIsOwed
<1>3. CASE Atomic
  <2>1. Answer(t, Reply("accepted", cur[t] + 1))
    BY <1>3 DEF AppendEvent
  <2>2. \A u \in Tasks : Stays(u)
    BY <2>1 DEF Answer, Stays, TypeOK
  <2> QED
    BY <1>1, <1>2, <2>2, DebtsKept
<1>4. CASE ~Atomic
  <2>1. /\ applied' = applied /\ cmd' = cmd /\ cur' = cur
        /\ \A u \in Tasks \ {t} : Job(u)' = Job(u)
        /\ Job(t)'.cmd = j.cmd /\ Job(t)'.cur = j.cur
    BY <1>4 DEF AppendEvent, Commit, Goto, TypeOK, Job
  <2>2. \A u \in Tasks : Job(u) \in JobType /\ Job(u)' \in JobType
    BY JobIsTyped DEF TypeOK, Job, JobType
  <2>3. \A u \in Tasks \ {t} : Owed(Job(u)) /\ Owed(Job(u))'
    <3> SUFFICES ASSUME NEW u \in Tasks \ {t} PROVE Owed(Job(u)) /\ Owed(Job(u))'
      OBVIOUS
    <3> DEFINE k == Job(u)
    <3>1. Owed(k) /\ Job(u)' = k
      BY <2>1 DEF EachOwed
    <3> QED
      BY <1>2, <2>2, <3>1 DEF Owed
  <2>4. Owed(Job(t))'
    BY <1>2, <2>1, <2>2 DEF Owed
  <2>5. \A k \in inflight : k \in JobType /\ Owed(k) /\ Owed(k)'
    BY <1>2 DEF EachOwed, TypeOK
  <2>6. EachOwed'
    BY <1>1, <2>3, <2>4, <2>5 DEF EachOwed
  <2>7. \A u \in Tasks \ {t} : Apart(Job(u)', Job(t)') /\ Apart(Job(t)', Job(u)')
    BY <1>2, <2>1, <2>2, <2>3 DEF Apart
  <2>8. \A k \in inflight : Apart(Job(t)', k)
    BY <1>2, <2>1, <2>5 DEF Apart
  <2>9. /\ \A v, u \in Tasks : v # u => Apart(Job(v)', Job(u)')
        /\ \A v \in Tasks, k \in inflight' : Apart(Job(v)', k)
        /\ \A i, k \in inflight' : i # k => Apart(i, k)
    BY <1>1, <2>1, <2>7, <2>8 DEF AllApart
  <2> QED
    BY <1>2, <2>6, <2>9 DEF AllApart, Apart, Projects
<1> QED
  BY <1>3, <1>4

\* Projecting what one call owes leaves the debts of all others.
LEMMA ProjectOwes ==
    ASSUME TypeOK, TypeOK', EachOwed, AllApart, ProjectedOnce, NEW t \in Tasks, Project(t)
    PROVE  EachOwed' /\ AllApart' /\ ProjectedOnce'
<1> DEFINE j == Job(t)
<1>1. /\ j \in JobType /\ Owed(j) /\ Projects(j) /\ Apply(j)
      /\ head' = head /\ inflight' = inflight
  BY JobIsTyped DEF Project, EachOwed, Projects, Job
<1>2. /\ j.cur < head'[j.cmd.about].rev
      /\ \A i \in 1..Len(applied[j.cmd.about]) : applied[j.cmd.about][i] # j.cur + 1
      /\ \A a \in Abouts : head[a].rev <= head'[a].rev
  BY <1>1 DEF Owed, TypeOK
<1>3. ProjectedOnce'
  BY <1>1, <1>2, ApplyOnce
<1>4. /\ pc'[t] = "idle"
      /\ \A u \in Tasks \ {t} : Job(u)' = Job(u)
      /\ \A u \in Tasks : Stays(u)
  BY DEF Project, Answer, Stays, Job, TypeOK
<1>5. ASSUME NEW k \in JobType, Owed(k), Apart(j, k)
      PROVE  Owed(k)'
  BY <1>1, <1>2, <1>5, ApplyPays DEF Apart
<1>6. ASSUME NEW u \in Tasks, pc'[u] \in {"record", "project"}
      PROVE  Owed(Job(u))'
  <2> DEFINE k == Job(u)
  <2>1. u # t /\ Job(u)' = k /\ k \in JobType
    BY <1>4, <1>6, JobIsTyped
  <2>2. Owed(k) /\ Apart(j, k)
    BY <2>1 DEF EachOwed, AllApart
  <2> QED
    BY <1>5, <2>1, <2>2 DEF Owed
<1>7. \A k \in inflight' : Owed(k)'
  BY <1>1, <1>5 DEF EachOwed, AllApart, TypeOK
<1> QED
  BY <1>1, <1>3, <1>4, <1>6, <1>7, NoNewDebt

\* What lands late settles its own debt, commits what nobody owes, or is refused.
LEMMA LandOwes ==
    ASSUME TypeOK, TypeOK', EachOwed, AllApart, ProjectedOnce, NEW j \in inflight, Land(j)
    PROVE  EachOwed' /\ AllApart' /\ ProjectedOnce'
<1>1. /\ j \in JobType /\ Owed(j) /\ inflight' = inflight \ {j}
      /\ \A u \in Tasks : Job(u)' = Job(u) /\ Stays(u)
  BY DEF Land, EachOwed, TypeOK, calls, Job, Stays
<1>2. CASE UNCHANGED <<head, applied>>
  BY <1>1, <1>2, QuietOwes
<1>3. CASE j.step = AppendStep /\ RevisionsHold(j) /\ Commit(j)
  <2>1. Placed(j) /\ (applied' = applied \/ Apply(j))
    BY <1>3 DEF Placed, Commit
  <2> QED
    BY <1>1, <2>1, PlacedIsOwed, DebtsKept
<1>4. CASE j.step = "project" /\ Apply(j) /\ head' = head
  <2>1. /\ Projects(j) /\ j.cur < head'[j.cmd.about].rev
        /\ \A i \in 1..Len(applied[j.cmd.about]) : applied[j.cmd.about][i] # j.cur + 1
        /\ \A a \in Abouts : head[a].rev <= head'[a].rev
    BY <1>1, <1>4 DEF Owed, Projects, TypeOK
  <2>2. ProjectedOnce'
    BY <1>1, <1>4, <2>1, ApplyOnce
  <2>3. ASSUME NEW k \in JobType, Owed(k), Apart(k, j)
        PROVE  Owed(k)'
    BY <1>1, <1>4, <2>1, <2>3, ApplyPays DEF Apart
  <2>4. \A k \in inflight' : Owed(k)'
    BY <1>1, <2>3 DEF EachOwed, AllApart, TypeOK
  <2>5. ASSUME NEW u \in Tasks PROVE Owed(Job(u))'
    <3> DEFINE k == Job(u)
    <3>1. k \in JobType /\ Owed(k) /\ Apart(k, j) /\ Job(u)' = k
      BY <1>1, JobIsTyped DEF EachOwed, AllApart
    <3> QED
      BY <2>3, <3>1 DEF Owed
  <2> QED
    BY <1>1, <2>2, <2>4, <2>5, NoNewDebt
<1> QED
  BY <1>2, <1>3, <1>4 DEF Land, stores

\* What is committed and not yet projected is owed by one call or request.
LEMMA DebtsHold == Spec => [](EachOwed /\ AllApart /\ ProjectedOnce)
<1>1. Init => EachOwed /\ AllApart /\ ProjectedOnce
  BY DEF Init, EachOwed, AllApart, ProjectedOnce, Owed, Apart, Projects, Job
<1>2. TypeOK /\ TypeOK' /\ EachOwed /\ AllApart /\ ProjectedOnce /\ [Next]_vars
        => EachOwed' /\ AllApart' /\ ProjectedOnce'
  <2> SUFFICES ASSUME TypeOK, TypeOK', EachOwed, AllApart, ProjectedOnce, [Next]_vars
               PROVE  EachOwed' /\ AllApart' /\ ProjectedOnce'
    OBVIOUS
  <2>1. CASE UNCHANGED vars \/ Quiet
    <3>1. UNCHANGED <<head, applied, inflight>> /\ \A u \in Tasks : Stays(u)
      BY <2>1 DEF Quiet, vars, stores, calls, Stays
    <3> QED
      BY <3>1, QuietOwes
  <2>2. ASSUME NEW t \in Tasks, Call(t) \/ Acquire(t) \/ Work(t) \/ Fail(t) \/ Leave(t)
        PROVE  EachOwed' /\ AllApart' /\ ProjectedOnce'
    <3>1. CASE Leave(t)
      BY <3>1, LeaveOwes
    <3>2. CASE Project(t)
      BY <3>2, ProjectOwes
    <3>3. CASE AppendEvent(t) /\ RevisionsHold(Job(t))
      BY <3>3, AppendOwes
    <3> QED
      BY <2>2, <3>1, <3>2, <3>3, WaitingOwes DEF Work
  <2>3. ASSUME NEW j \in inflight, Land(j)
        PROVE  EachOwed' /\ AllApart' /\ ProjectedOnce'
    BY <2>3, LandOwes
  <2> QED
    BY <2>1, <2>2, <2>3 DEF Next
<1> QED
  BY <1>1, <1>2, TypeCorrect, PTL DEF Spec

\* Over any store a revision is projected at most once, and only when its
\* event is in the log, whoever crashed, left or overtook whom in between.
THEOREM NothingIsProjectedTwice == Spec => []ProjectedOnce
BY DebtsHold, PTL

-----------------------------------------------------------------------------
(* The order of projections, which a split store leaves to the write lock.  *)

OneLock == ~MayAbandon /\ \A s, t \in Tasks : Host[s] = Host[t]

\* A later revision of an about is never projected before an earlier one.
ProjectedInOrder ==
    \A a \in Abouts : \A i, k \in 1..Len(applied[a]) :
        i < k => applied[a][i] < applied[a][k]

\* A call holds the lock until it has projected what it committed.
Locked == /\ inflight = {}
          /\ \A t \in Tasks : InCall(t) => lock[Host[t]] = t

\* What is owed is the newest revision of its about.
NewestOwed ==
    \A t \in Tasks : pc[t] \in {"record", "project"} =>
                        cur[t] + 1 = head[cmd[t].about].rev

LEMMA StepKeepsLocked ==
    ASSUME OneLock, TypeOK, Locked, [Next]_vars
    PROVE  Locked'
<1>1. CASE UNCHANGED vars \/ Quiet
  BY <1>1 DEF Quiet, vars, calls, Locked, InCall
<1>2. ASSUME NEW t \in Tasks, NEW s \in Steps, pc' = [pc EXCEPT ![t] = s],
             lock' = lock, inflight' = inflight, InCall(t) \/ s = "wait"
      PROVE  Locked'
  BY <1>2 DEF Locked, InCall, TypeOK
<1>3. ASSUME NEW t \in Tasks, NEW r, Answer(t, r), inflight' = inflight, InCall(t)
      PROVE  Locked'
  <2>1. \A s \in Tasks \ {t} : ~InCall(s) /\ pc'[s] = pc[s]
    <3>1. \A s \in Tasks : InCall(s) => s = t
      BY <1>3 DEF OneLock, Locked
    <3>2. \A s \in Tasks \ {t} : pc'[s] = pc[s]
      BY <1>3 DEF Answer, TypeOK
    <3> QED
      BY <3>1, <3>2
  <2>2. pc'[t] = "idle"
    BY <1>3 DEF Answer, TypeOK
  <2> QED
    BY <1>3, <2>1, <2>2 DEF Locked, InCall
<1>4. ASSUME NEW t \in Tasks, Call(t)
      PROVE  Locked'
  BY <1>2, <1>4 DEF Call, Begin, Steps
<1>5. ASSUME NEW t \in Tasks, Acquire(t)
      PROVE  Locked'
  <2>1. \A s \in Tasks \ {t} : ~InCall(s) /\ pc'[s] = pc[s]
    <3>1. \A s \in Tasks : ~InCall(s)
      BY <1>5, NoneAssumption DEF Acquire, OneLock, Locked
    <3>2. \A s \in Tasks \ {t} : pc'[s] = pc[s]
      BY <1>5 DEF Acquire, TypeOK
    <3> QED
      BY <3>1, <3>2
  <2>2. lock'[Host[t]] = t /\ inflight' = inflight
    BY <1>5, HostAssumption DEF Acquire, TypeOK
  <2> QED
    BY <2>1, <2>2 DEF Locked, InCall
<1>6. ASSUME NEW t \in Tasks, Precheck(t)
      PROVE  Locked'
  BY <1>2, <1>6 DEF Precheck, InCall, Steps
<1>7. ASSUME NEW t \in Tasks, NEW a \in Abouts, Recheck(t, a)
      PROVE  Locked'
  <2>1. InCall(t) /\ inflight' = inflight
    BY <1>7 DEF Recheck, InCall
  <2>2. CASE UNCHANGED <<pc, lock>>
    BY <2>1, <2>2 DEF Locked, InCall
  <2> QED
    BY <1>3, <1>7, <2>1, <2>2 DEF Recheck, Conflict
<1>8. ASSUME NEW t \in Tasks, CheckKey(t) \/ LoadRevision(t) \/ LoadHash(t) \/ ReadLast(t)
      PROVE  Locked'
  <2>1. InCall(t) /\ inflight' = inflight
    BY <1>8 DEF CheckKey, LoadRevision, LoadHash, ReadLast, InCall
  <2>2. CASE \E r : Answer(t, r)
    BY <1>3, <2>1, <2>2
  <2>3. CASE lock' = lock /\ \E s \in Steps : pc' = [pc EXCEPT ![t] = s]
    BY <1>2, <2>1, <2>3
  <2> QED
    BY <1>8, <2>2, <2>3 DEF CheckKey, LoadRevision, LoadHash, ReadLast, Conflict, Goto,
                            Steps
<1>9. ASSUME NEW t \in Tasks,
             AppendEvent(t) \/ Record(t) \/ LoseOutcome(t) \/ Project(t) \/ Fail(t)
      PROVE  Locked'
  <2>1. InCall(t) /\ inflight' = inflight
    BY <1>9 DEF AppendEvent, Record, LoseOutcome, Project, Fail, AppendStep, InCall
  <2>2. CASE \E r : Answer(t, r)
    BY <1>3, <2>1, <2>2
  <2>3. CASE lock' = lock /\ \E s \in Steps : pc' = [pc EXCEPT ![t] = s]
    BY <1>2, <2>1, <2>3
  <2> QED
    BY <1>9, <2>2, <2>3 DEF AppendEvent, Record, LoseOutcome, Project, Fail, Conflict,
                            Goto, Steps
<1>10. ASSUME NEW t \in Tasks, Leave(t)
       PROVE  FALSE
  BY <1>10 DEF Leave, OneLock
<1>11. inflight = {}
  BY DEF Locked
<1> QED
  BY <1>1, <1>4, <1>5, <1>6, <1>7, <1>8, <1>9, <1>10, <1>11 DEF Next, Work

\* Projecting the newest revision, once, keeps the order.
LEMMA ApplyInOrder ==
    ASSUME TypeOK, ProjectedOnce, ProjectedInOrder, NEW j \in JobType, Apply(j),
           head[j.cmd.about].rev <= j.cur + 1,
           \A i \in 1..Len(applied[j.cmd.about]) : applied[j.cmd.about][i] # j.cur + 1
    PROVE  ProjectedInOrder'
<1> DEFINE ab == j.cmd.about
           n == Len(applied[ab])
<1>1. /\ Len(applied'[ab]) = n + 1
      /\ \A i \in 1..n : applied'[ab][i] = applied[ab][i]
      /\ applied'[ab][n + 1] = j.cur + 1
      /\ \A b \in Abouts \ {ab} : applied'[b] = applied[b]
  BY AppliedLog
<1>2. /\ ab \in Abouts /\ j.cur \in Nat /\ n \in Nat /\ head[ab].rev \in Nat
      /\ \A i \in 1..n : applied[ab][i] \in Nat
  BY DEF TypeOK, JobType, Command
<1>3. \A i \in 1..n : applied[ab][i] < j.cur + 1
  <2>1. \A i \in 1..n : applied[ab][i] \in 1..head[ab].rev
    BY <1>2 DEF ProjectedOnce
  <2>2. head[ab].rev <= j.cur + 1 /\ \A i \in 1..n : applied[ab][i] # j.cur + 1
    OBVIOUS
  <2> HIDE DEF ab, n
  <2> QED
    BY <1>2, <2>1, <2>2
<1>4. \A i, k \in 1..n : i < k => applied[ab][i] < applied[ab][k]
  BY <1>2 DEF ProjectedInOrder
<1> HIDE DEF ab, n
<1>5. \A i, k \in 1..(n + 1) : i < k => applied'[ab][i] < applied'[ab][k]
  <2>1. \A i, k \in 1..(n + 1) : i < k => i \in 1..n /\ (k \in 1..n \/ k = n + 1)
    BY <1>2
  <2> QED
    BY <1>1, <1>3, <1>4, <2>1
<1> QED
  BY <1>1, <1>5 DEF ProjectedInOrder

\* A task's append is the only one under way in its process.
LEMMA AppendInOrder ==
    ASSUME OneLock, TypeOK, Locked, NewestOwed, ProjectedOnce, ProjectedInOrder,
           NEW t \in Tasks, AppendEvent(t)
    PROVE  NewestOwed' /\ ProjectedInOrder'
<1> DEFINE j == Job(t)
<1>1. j \in JobType /\ cmd' = cmd /\ cur' = cur /\ j.cmd = cmd[t] /\ j.cur = cur[t]
  BY JobIsTyped DEF AppendEvent, Answer, Conflict, Goto, Job
<1>2. \A s \in Tasks \ {t} : pc'[s] = pc[s] /\ ~InCall(s)
  BY DEF AppendEvent, Answer, Conflict, Goto, OneLock, Locked, InCall, AppendStep, TypeOK
<1>3. CASE ~RevisionsHold(j)
  BY <1>1, <1>2, <1>3 DEF AppendEvent, Conflict, Answer, stores, NewestOwed,
                          ProjectedInOrder, TypeOK
<1>4. CASE RevisionsHold(j)
  <2>1. Placed(j)
    BY <1>4 DEF AppendEvent, Commit, Placed
  <2>2. /\ j.cmd.about \in Abouts /\ j.cur \in Nat /\ j.cur = head[j.cmd.about].rev
        /\ head'[j.cmd.about] = [rev |-> j.cur + 1, hash |-> j.cmd.hash]
    BY <1>1, <2>1, PlacedLog, Zenon
  <2>3. NewestOwed'
    <3>1. cur'[t] + 1 = head'[cmd'[t].about].rev
      BY <1>1, <2>2
    <3>2. \A s \in Tasks \ {t} : pc'[s] \notin {"record", "project"}
      BY <1>2 DEF InCall
    <3> QED
      BY <3>1, <3>2 DEF NewestOwed
  <2>4. \A i \in 1..Len(applied[j.cmd.about]) : applied[j.cmd.about][i] # j.cur + 1
    BY <2>2 DEF ProjectedOnce
  <2>5. applied' = applied \/ Apply(j)
    BY <1>4 DEF AppendEvent, Commit
  <2>6. head[j.cmd.about].rev <= j.cur + 1
    <3> HIDE DEF j
    <3> QED
      BY <2>2
  <2>7. CASE applied' = applied
    BY <2>3, <2>7 DEF ProjectedInOrder
  <2>8. CASE Apply(j)
    <3> HIDE DEF j
    <3> QED
      BY <1>1, <2>3, <2>4, <2>6, <2>8, ApplyInOrder
  <2> HIDE DEF j
  <2> QED
    BY <2>5, <2>7, <2>8
<1> QED
  BY <1>3, <1>4

LEMMA StepInOrder ==
    ASSUME OneLock, TypeOK, Locked, NewestOwed, EachOwed, ProjectedOnce,
           ProjectedInOrder, [Next]_vars
    PROVE  NewestOwed' /\ ProjectedInOrder'
<1> USE DEF stores, Answer, Conflict, Goto, TypeOK
<1>1. CASE UNCHANGED vars \/ Quiet
  BY <1>1 DEF Quiet, vars, calls, NewestOwed, ProjectedInOrder
<1>2. ASSUME NEW t \in Tasks, Call(t) \/ Acquire(t) \/ Precheck(t)
      PROVE  NewestOwed' /\ ProjectedInOrder'
  <2>1. ProjectedInOrder'
    BY <1>2 DEF Call, Begin, Acquire, Precheck, ProjectedInOrder
  <2>2. CASE Call(t)
    <3>1. PICK c \in Commands : Begin(t, c, SampledNow(c))
      BY <2>2 DEF Call
    <3> QED
      BY <2>1, <3>1 DEF Begin, NewestOwed
  <2>3. CASE Acquire(t)
    BY <2>1, <2>3 DEF Acquire, NewestOwed
  <2>4. CASE Precheck(t)
    BY <2>1, <2>4 DEF Precheck, NewestOwed
  <2> QED
    BY <1>2, <2>2, <2>3, <2>4
<1>3. ASSUME NEW t \in Tasks,
             \/ CheckKey(t) \/ LoadRevision(t) \/ LoadHash(t) \/ ReadLast(t)
             \/ \E a \in Abouts : Recheck(t, a)
      PROVE  NewestOwed' /\ ProjectedInOrder'
  BY <1>3 DEF CheckKey, LoadRevision, LoadHash, ReadLast, Recheck, NewestOwed,
              ProjectedInOrder
<1>4. ASSUME NEW t \in Tasks, Record(t) \/ LoseOutcome(t) \/ Fail(t)
      PROVE  NewestOwed' /\ ProjectedInOrder'
  BY <1>4 DEF Record, LoseOutcome, Fail, NewestOwed, ProjectedInOrder
<1>5. ASSUME NEW t \in Tasks, Project(t)
      PROVE  NewestOwed' /\ ProjectedInOrder'
  <2>1. NewestOwed'
    BY <1>5 DEF Project, NewestOwed
  <2>2. /\ Job(t) \in JobType /\ Apply(Job(t)) /\ Owed(Job(t)) /\ Projects(Job(t))
        /\ head[Job(t).cmd.about].rev = Job(t).cur + 1
    BY <1>5, JobIsTyped DEF Project, EachOwed, Projects, Job, NewestOwed
  <2>3. /\ Job(t).cmd.about \in Abouts /\ head[Job(t).cmd.about].rev \in Nat
    BY <2>2 DEF JobType, Command
  <2>4. head[Job(t).cmd.about].rev <= Job(t).cur + 1
    BY <2>2, <2>3
  <2>5. \A i \in 1..Len(applied[Job(t).cmd.about]) :
            applied[Job(t).cmd.about][i] # Job(t).cur + 1
    BY <2>2 DEF Owed
  <2> DEFINE j == Job(t)
  <2> HIDE DEF j
  <2>6. /\ j \in JobType /\ Apply(j) /\ head[j.cmd.about].rev <= j.cur + 1
        /\ \A i \in 1..Len(applied[j.cmd.about]) : applied[j.cmd.about][i] # j.cur + 1
    BY <2>2, <2>4, <2>5 DEF j
  <2> QED
    BY <2>1, <2>6, ApplyInOrder
<1>6. ASSUME NEW t \in Tasks, Leave(t)
      PROVE  FALSE
  BY <1>6 DEF Leave, OneLock
<1>7. ASSUME NEW t \in Tasks, AppendEvent(t)
      PROVE  NewestOwed' /\ ProjectedInOrder'
  BY <1>7, AppendInOrder
<1>8. inflight = {}
  BY DEF Locked
<1> QED
  BY <1>1, <1>2, <1>3, <1>4, <1>5, <1>6, <1>7, <1>8 DEF Next, Work

\* Within one process whose callers wait for their answer the write lock keeps
\* the projections of every about in order, over the stores that split event
\* and projection as well, whatever requests fail on the way.
THEOREM OneLockOrdersProjections ==
    ASSUME OneLock
    PROVE  Spec => []ProjectedInOrder
<1>1. Init => Locked /\ NewestOwed /\ ProjectedInOrder
  BY DEF Init, Locked, InCall, NewestOwed, ProjectedInOrder
<1>2. TypeOK /\ EachOwed /\ ProjectedOnce /\ Locked /\ NewestOwed
        /\ ProjectedInOrder /\ [Next]_vars
        => Locked' /\ NewestOwed' /\ ProjectedInOrder'
  <2> SUFFICES ASSUME TypeOK, EachOwed, ProjectedOnce, Locked, NewestOwed,
                      ProjectedInOrder, [Next]_vars
               PROVE  Locked' /\ NewestOwed' /\ ProjectedInOrder'
    OBVIOUS
  <2>1. Locked'
    BY StepKeepsLocked
  <2>2. NewestOwed' /\ ProjectedInOrder'
    BY StepInOrder
  <2> QED
    BY <2>1, <2>2
<1> QED
  BY <1>1, <1>2, TypeCorrect, DebtsHold, PTL DEF Spec
=============================================================================
