------------------------- MODULE LexicalIndexProofs -------------------------
(***************************************************************************)
(* The lexical index, for any number of processes.  Whatever derivations   *)
(* they run, while the log carries the sidecar's tail what is built holds  *)
(* no event that is not there, and nothing of another derivation.  If no   *)
(* two of them run the same derivation, what is built is current, and an   *)
(* answer is whole when the sidecar still stands where the ask left it;    *)
(* two processes of one derivation break both.                             *)
(***************************************************************************)
EXTENDS LexicalIndex, TLAPS, SequenceTheorems

\* The comparison of the commit tells two processes apart by derivation only.
OneWriterEach == \A p, q \in Procs : VersionOf[p] = VersionOf[q] => p = q

\* An event beyond the end of the log belongs to a log that was replaced.
TailInv ==
    /\ \A i \in DOMAIN log : log[i].era <= replaced
    /\ meta.tail # None =>
          /\ meta.tail.at = meta.position
          /\ meta.tail.era <= replaced
          /\ meta.position > Len(log) => meta.tail.era < replaced

\* What a process verified stays so while it runs.
VerifiedInv == \A p \in Procs :
    verified[p][1] <= Len(log) /\ verified[p][2] = TailAt(verified[p][1])

Deciding == {"ensure", "holds", "touch", "commit"}

\* A pass that does not reset follows this log, from a place of its own
\* derivation.
SeenInv(t, p) ==
    /\ t.pc \in Deciding => t.last <= Len(log)
    /\ t.pc \in Deciding /\ ~t.reset =>
          /\ t.seen.version = Mine(p)
          /\ t.seen.position <= t.last
          /\ t.seen.position = 0 \/ TailAt(t.seen.position) = t.seen.tail

\* A built about holds events of its own up to the sidecar's position and no
\* others, derived by the derivation the sidecar names.  It may lack some.
NothingInvented ==
    Carried => \A a \in Abouts : Built(a) =>
        /\ rows[a].by \subseteq {meta.version}
        /\ rows[a].events \subseteq EventsOf(a, meta.position)

\* What a pass found of the abouts stays true while the sidecar stands, if
\* whoever else moves rows moves the sidecar.
FoundInv(t) ==
    /\ t.pc \in {"meta", "snapshot", "ensure"} \/ (t.pc \in Deciding /\ t.reset) =>
          t.rebuild = {} /\ \A a \in Abouts : t.found[a] = "unread"
    /\ t.pc = "touch" => ~t.reset
    /\ t.pc \in {"holds", "touch", "commit"} /\ ~t.reset =>
          /\ t.seen.position <= t.at /\ t.at <= t.last
          /\ \A i \in DOMAIN log :
                t.seen.position < i /\ i <= t.at => t.found[log[i].about] # "unread"
          /\ OneWriterEach /\ meta = t.seen =>
                \A a \in Abouts : t.found[a] = "absent" => ~Built(a)
    /\ t.pc = "commit" /\ ~t.reset =>
          t.at = t.last \/ (OneWriterEach /\ meta = t.seen => \A a \in Abouts : ~Built(a))

\* What an ask has read stays true while the sidecar stands where it left it.
ReadInv(t, p) ==
    /\ t.pc \in {"plan", "postings", "parts"} => t.about \in Abouts /\ t.last <= Len(log)
    /\ OneWriterEach /\ meta = PlaceAt(p, t.last)
          /\ t.pc \in {"postings", "parts"} /\ Built(t.about) =>
             /\ t.plan.stats = rows[t.about]
             /\ t.pc = "parts" => t.plan.postings = rows[t.about]

TaskInv(p) == SeenInv(task[p], p) /\ FoundInv(task[p]) /\ ReadInv(task[p], p)

IInv ==
    /\ TypeOK
    /\ TailInv
    /\ VerifiedInv
    /\ NothingInvented
    /\ OneWriterEach => BuiltIsCurrent
    /\ \A p \in Procs : TaskInv(p)

-----------------------------------------------------------------------------
(* The log.                                                                *)

\* The types of what the log and the limits say.
LEMMA LogFacts ==
    ASSUME TypeOK
    PROVE  /\ MaxEvents \in Nat /\ MaxReplaced \in Nat /\ MaxForgets \in Nat
           /\ Len(log) \in Nat /\ DOMAIN log = 1 .. Len(log)
           /\ TailAt(0) = None
           /\ \A n \in 0 .. Len(log) : TailAt(n) \in EventType \cup {None}
           /\ \A n \in 1 .. Len(log) : TailAt(n) = log[n] /\ TailAt(n) \in EventType
           /\ \A a, n : EventsOf(a, n) \in SUBSET EventType
<1>1. /\ MaxEvents \in Nat /\ MaxReplaced \in Nat /\ MaxForgets \in Nat
      /\ None \notin Abouts
  BY LexicalAssumption
<1>2. log \in Seq(EventType) /\ Len(log) \in Nat /\ DOMAIN log = 1 .. Len(log)
  BY DEF TypeOK
<1>3. \A i \in 1 .. Len(log) : log[i] \in EventType
  BY <1>2
<1>4. \A n \in 1 .. Len(log) : TailAt(n) = log[n] /\ TailAt(n) \in EventType
  BY <1>2, <1>3 DEF TailAt
<1>5. TailAt(0) = None
  BY <1>2 DEF TailAt
<1>6. \A a, n : EventsOf(a, n) \in SUBSET EventType
  BY <1>2, <1>3 DEF EventsOf
<1> QED
  BY <1>1, <1>2, <1>4, <1>5, <1>6

\* An event is not the absence of one.
LEMMA TailIsSome ==
    ASSUME TypeOK, NEW n \in 1 .. Len(log)
    PROVE  TailAt(n) # None
<1>1. TailAt(n) \in [at : Nat, about : Abouts, era : Nat]
  BY LogFacts DEF EventType
<1> QED
  BY <1>1, LexicalAssumption

\* An about's events up to n are not changed by what is added after n, or cut
\* off after it.
LEMMA SameEvents ==
    ASSUME TypeOK, TypeOK', NEW n \in Nat, n <= Len(log), n <= Len(log'),
           \A i \in 1 .. n : log'[i] = log[i]
    PROVE  /\ TailAt(n)' = TailAt(n)
           /\ \A a : EventsOf(a, n)' = EventsOf(a, n)
<1>1. /\ DOMAIN log = 1 .. Len(log) /\ DOMAIN log' = 1 .. Len(log')
      /\ Len(log) \in Nat /\ Len(log') \in Nat
      /\ \A i \in DOMAIN log : log[i].at = i
      /\ \A i \in DOMAIN log' : log'[i].at = i
  BY DEF TypeOK
<1>2. TailAt(n)' = TailAt(n)
  BY <1>1 DEF TailAt
<1>3. ASSUME NEW a, NEW e PROVE e \in EventsOf(a, n)' <=> e \in EventsOf(a, n)
  BY <1>1 DEF EventsOf
<1>4. ASSUME NEW a PROVE EventsOf(a, n)' = EventsOf(a, n)
  BY <1>3 DEF EventsOf
<1> QED
  BY <1>2, <1>4

\* A write adds one event of this era to the end of the log.
LEMMA GrowFacts ==
    ASSUME TypeOK, NEW a \in Abouts, Grow(a)
    PROVE  /\ log' \in Seq(EventType)
           /\ Len(log') = Len(log) + 1 /\ Len(log') <= MaxEvents
           /\ \A i \in 1 .. Len(log) : log'[i] = log[i]
           /\ log'[Len(log) + 1] = NextEvent(a)
           /\ \A i \in DOMAIN log' : log'[i].at = i
<1>1. NextEvent(a) \in EventType /\ NextEvent(a).at = Len(log) + 1
  BY LogFacts DEF NextEvent, EventType, TypeOK, Grow
<1>2. log \in Seq(EventType) /\ log' = Append(log, NextEvent(a))
  BY DEF TypeOK, Grow
<1>3. /\ log' \in Seq(EventType) /\ Len(log') = Len(log) + 1
      /\ \A i \in 1 .. Len(log) : log'[i] = log[i]
      /\ log'[Len(log) + 1] = NextEvent(a)
      /\ DOMAIN log' = 1 .. Len(log')
  BY <1>1, <1>2
<1> QED
  BY <1>1, <1>3, LogFacts DEF TypeOK, Grow

-----------------------------------------------------------------------------
(* Steps of one process that write nothing others see.                     *)

LEMMA CallsAreTyped ==
    /\ Idle \in TaskType
    /\ \A a \in Abouts \cup {None}, again \in BOOLEAN : Start(a, again) \in TaskType
<1>1. Fresh \in MetaType /\ NotBuilt \in RowsType /\ 0 \in 0 .. MaxEvents
  BY LexicalAssumption DEF Fresh, MetaType, NotBuilt, RowsType
<1>2. [a \in Abouts |-> "unread"] \in [Abouts -> {"unread", "built", "absent"}]
  OBVIOUS
<1>3. Idle \in TaskType
  BY <1>1, <1>2 DEF Idle, TaskType
<1> QED
  BY <1>3 DEF Start, TaskType

\* Such a step keeps the invariant if its own task does.
LEMMA QuietStep ==
    ASSUME IInv, NEW p \in Procs,
           UNCHANGED <<log, meta, rows, replaced, forgets>>,
           task' = [task EXCEPT ![p] = task'[p]],
           task'[p] \in TaskType,
           SeenInv(task'[p], p), FoundInv(task'[p]), ReadInv(task'[p], p),
           \/ UNCHANGED verified
           \/ \E n \in 0 .. Len(log) : Remember(p, n)
    PROVE  IInv'
<1>1. task' \in [Procs -> TaskType]
  BY DEF IInv, TypeOK
<1>2. verified' \in [Procs -> (0 .. MaxEvents) \X (EventType \cup {None})]
      /\ VerifiedInv'
  <2>1. CASE UNCHANGED verified
    BY <2>1 DEF IInv, TypeOK, VerifiedInv, TailAt
  <2>2. ASSUME NEW n \in 0 .. Len(log), Remember(p, n) PROVE
          verified' \in [Procs -> (0 .. MaxEvents) \X (EventType \cup {None})] /\ VerifiedInv'
    <3>1. n \in 0 .. MaxEvents /\ TailAt(n) \in EventType \cup {None} /\ TailAt(n)' = TailAt(n)
      BY LogFacts DEF IInv, TypeOK, TailAt
    <3> QED
      BY <2>2, <3>1 DEF Remember, IInv, TypeOK, VerifiedInv, TailAt
  <2> QED
    BY <2>1, <2>2
<1>3. TypeOK'
  BY <1>1, <1>2 DEF IInv, TypeOK
<1>4. TailInv' /\ NothingInvented' /\ (OneWriterEach => BuiltIsCurrent)'
  BY DEF IInv, TailInv, NothingInvented, BuiltIsCurrent, Carried, Built, EventsOf, TailAt,
         OneWriterEach
<1>5. ASSUME NEW q \in Procs PROVE TaskInv(q)'
  <2>1. SeenInv(task'[q], q) /\ FoundInv(task'[q]) /\ ReadInv(task'[q], q)
    BY <1>5 DEF IInv, TypeOK, TaskInv
  <2> QED
    BY <2>1 DEF TaskInv, SeenInv, FoundInv, ReadInv, TailAt, Mine, Built, PlaceAt, OneWriterEach
<1> QED
  BY <1>2, <1>3, <1>4, <1>5 DEF IInv

\* A step that sets the task says what the task is.
LEMMA SetFacts ==
    ASSUME TypeOK, NEW p \in Procs, NEW t, Set(p, t)
    PROVE  task'[p] = t /\ task' = [task EXCEPT ![p] = task'[p]]
  BY DEF TypeOK, Set

\* A task that decides and reads nothing.
LEMMA IdleHolds ==
    ASSUME NEW p \in Procs
    PROVE  /\ SeenInv(Idle, p) /\ FoundInv(Idle) /\ ReadInv(Idle, p)
           /\ \A a \in Abouts \cup {None}, again \in BOOLEAN :
                 LET t == Start(a, again)
                 IN SeenInv(t, p) /\ FoundInv(t) /\ ReadInv(t, p)
  BY DEF SeenInv, FoundInv, ReadInv, Idle, Start, Deciding

\* An ask whose index is followed goes on to read it.
LEMMA FollowedHolds ==
    ASSUME NEW p \in Procs, NEW t \in TaskType, t.last <= Len(log)
    PROVE  /\ Followed(t) \in TaskType
           /\ SeenInv(Followed(t), p) /\ FoundInv(Followed(t)) /\ ReadInv(Followed(t), p)
<1>1. t.about \in Abouts \cup {None} /\ t.last \in 0 .. MaxEvents
  BY DEF TaskType
<1>2. CASE t.about = None \/ t.below
  BY <1>2, CallsAreTyped, IdleHolds DEF Followed
<1>3. CASE t.about # None /\ ~t.below
  <2> DEFINE u == [Idle EXCEPT !.pc = "plan", !.about = t.about, !.last = t.last]
  <2>1. Followed(t) = u
    BY <1>3 DEF Followed
  <2>2. u \in TaskType
    BY <1>1, CallsAreTyped DEF TaskType
  <2>3. u.pc = "plan" /\ u.about = t.about /\ u.last = t.last
    BY DEF Idle
  <2>4. SeenInv(u, p) /\ FoundInv(u) /\ ReadInv(u, p)
    BY <1>1, <1>3, <2>3 DEF SeenInv, FoundInv, ReadInv, Deciding
  <2> QED
    BY <2>1, <2>2, <2>4
<1> QED
  BY <1>2, <1>3

\* A call that begins, is given up, or ends without the index.
LEMMA CallSteps ==
    ASSUME IInv, NEW p \in Procs,
           \/ \E a \in Abouts : Ask(p, a)
           \/ Crash(p) \/ Lose(p) \/ Reply(p)
    PROVE  IInv'
<1>1. TypeOK /\ task[p] \in TaskType
  BY DEF IInv, TypeOK
<1>2. task[p].about \in Abouts \cup {None}
  BY <1>1 DEF TaskType
<1>3. ASSUME task' = [task EXCEPT ![p] = task'[p]],
             \/ task'[p] = Idle
             \/ \E a \in Abouts \cup {None}, again \in BOOLEAN : task'[p] = Start(a, again)
      PROVE  /\ task'[p] \in TaskType
             /\ SeenInv(task'[p], p) /\ FoundInv(task'[p]) /\ ReadInv(task'[p], p)
  BY <1>3, CallsAreTyped, IdleHolds
<1>4. CASE \E a \in Abouts : Ask(p, a)
  BY <1>1, <1>3, <1>4, SetFacts, QuietStep DEF Ask
<1>5. CASE Crash(p)
  <2>1. 0 \in 0 .. Len(log) /\ Remember(p, 0)
    <3>1. TailAt(0) = None /\ Len(log) \in Nat
      BY <1>1, LogFacts
    <3>2. verified' = [verified EXCEPT ![p] = <<0, TailAt(0)>>]
      BY <1>5, <3>1, Zenon DEF Crash
    <3> QED
      BY <3>1, <3>2 DEF Remember
  <2>2. task'[p] = Idle /\ task' = [task EXCEPT ![p] = task'[p]]
    BY <1>1, <1>5 DEF Crash, Set, TypeOK
  <2> QED
    BY <1>3, <1>5, <2>1, <2>2, QuietStep DEF Crash
<1>6. CASE Lose(p)
  <2>1. task' = [task EXCEPT ![p] = task'[p]]
        /\ (task'[p] = Idle \/ task'[p] = Start(task[p].about, TRUE))
    BY <1>1, <1>6 DEF Lose, Set, TypeOK
  <2> QED
    BY <1>2, <1>3, <1>6, <2>1, QuietStep DEF Lose
<1>7. CASE Reply(p)
  <2>1. task'[p] = Idle /\ task' = [task EXCEPT ![p] = task'[p]]
    BY <1>1, <1>7 DEF Reply, Set, TypeOK
  <2> QED
    BY <1>3, <1>7, <2>1, QuietStep DEF Reply
<1> QED
  BY <1>4, <1>5, <1>6, <1>7

\* The reads of an ask.
LEMMA ReadSteps ==
    ASSUME IInv, NEW p \in Procs, ReadStats(p) \/ ReadPostings(p) \/ ReadParts(p)
    PROVE  IInv'
<1> DEFINE t == task[p]
<1>1. TypeOK /\ t \in TaskType /\ SeenInv(t, p) /\ FoundInv(t) /\ ReadInv(t, p)
  BY DEF IInv, TypeOK, TaskInv
<1>2. t.about \in Abouts => rows[t.about] \in RowsType
  BY <1>1 DEF TypeOK
<1>3. CASE ReadStats(p)
  <2>1. t.about \in Abouts /\ t.pc = "plan" /\ t.last <= Len(log)
    BY <1>1, <1>3 DEF ReadStats, At, ReadInv
  <2>2. CASE ~Built(t.about)
    <3>1. task'[p] = Idle /\ task' = [task EXCEPT ![p] = task'[p]]
      BY <1>1, <1>3, <2>2 DEF ReadStats, Set, TypeOK
    <3> QED
      BY <1>3, <3>1, CallsAreTyped, IdleHolds, QuietStep DEF ReadStats
  <2>3. CASE Built(t.about)
    <3> DEFINE u == [t EXCEPT !.pc = "postings", !.plan.stats = rows[t.about]]
    <3>1. task'[p] = u /\ task' = [task EXCEPT ![p] = task'[p]]
      BY <1>1, <1>3, <2>3 DEF ReadStats, Set, TypeOK
    <3>2. u \in TaskType
      BY <1>1, <1>2, <2>1 DEF TaskType
    <3>3. /\ u.pc = "postings" /\ u.about = t.about /\ u.last = t.last
          /\ u.plan.stats = rows[t.about]
      BY <1>1 DEF TaskType
    <3>4. SeenInv(u, p) /\ FoundInv(u) /\ ReadInv(u, p)
      BY <2>1, <3>3 DEF SeenInv, FoundInv, ReadInv, Deciding
    <3> QED
      BY <1>3, <3>1, <3>2, <3>4, QuietStep DEF ReadStats
  <2> QED
    BY <2>2, <2>3
<1>4. CASE ReadPostings(p)
  <2> DEFINE u == [t EXCEPT !.pc = "parts", !.plan.postings = rows[t.about]]
  <2>1. t.about \in Abouts /\ t.pc = "postings" /\ t.last <= Len(log)
    BY <1>1, <1>4 DEF ReadPostings, At, ReadInv
  <2>2. task'[p] = u /\ task' = [task EXCEPT ![p] = task'[p]]
    BY <1>1, <1>4 DEF ReadPostings, Set, TypeOK
  <2>3. u \in TaskType
    BY <1>1, <1>2, <2>1 DEF TaskType
  <2>4. /\ u.pc = "parts" /\ u.about = t.about /\ u.last = t.last
        /\ u.plan.stats = t.plan.stats /\ u.plan.postings = rows[t.about]
    BY <1>1 DEF TaskType
  <2>5. SeenInv(u, p) /\ FoundInv(u) /\ ReadInv(u, p)
    BY <1>1, <2>1, <2>4 DEF SeenInv, FoundInv, ReadInv, Deciding
  <2> QED
    BY <1>4, <2>2, <2>3, <2>5, QuietStep DEF ReadPostings
<1>5. CASE ReadParts(p)
  <2> DEFINE u == [t EXCEPT !.pc = "answered"]
  <2>1. task' = [task EXCEPT ![p] = task'[p]] /\ (task'[p] = Idle \/ task'[p] = u)
    BY <1>1, <1>5 DEF ReadParts, Set, TypeOK
  <2>2. u \in TaskType /\ u.pc = "answered"
    BY <1>1 DEF TaskType
  <2>3. SeenInv(u, p) /\ FoundInv(u) /\ ReadInv(u, p)
    BY <2>2 DEF SeenInv, FoundInv, ReadInv, Deciding
  <2> QED
    BY <1>5, <2>1, <2>2, <2>3, CallsAreTyped, IdleHolds, QuietStep DEF ReadParts
<1> QED
  BY <1>3, <1>4, <1>5

\* A pass up to its decision: where the sidecar stands, the snapshot, what is
\* to be built.
LEMMA BeginSteps ==
    ASSUME IInv, NEW p \in Procs, ReadMeta(p) \/ Snapshot(p) \/ Ensure(p)
    PROVE  IInv'
<1> DEFINE t == task[p]
<1>1. TypeOK /\ t \in TaskType /\ SeenInv(t, p) /\ FoundInv(t) /\ ReadInv(t, p)
  BY DEF IInv, TypeOK, TaskInv
<1>2. CASE ReadMeta(p)
  <2> DEFINE u == [t EXCEPT !.pc = "snapshot", !.seen = meta]
  <2>1. task'[p] = u /\ task' = [task EXCEPT ![p] = task'[p]]
    BY <1>1, <1>2 DEF ReadMeta, Set, TypeOK
  <2>2. /\ u \in TaskType /\ u.pc = "snapshot"
        /\ u.found = t.found /\ u.rebuild = t.rebuild
    BY <1>1 DEF TaskType, TypeOK
  <2>3. t.pc = "meta"
    BY <1>2 DEF ReadMeta, At
  <2>4. SeenInv(u, p) /\ FoundInv(u) /\ ReadInv(u, p)
    BY <1>1, <2>2, <2>3 DEF SeenInv, FoundInv, ReadInv, Deciding
  <2> QED
    BY <1>2, <2>1, <2>2, <2>4, QuietStep DEF ReadMeta
<1>3. CASE Snapshot(p)
  <2> DEFINE u == [t EXCEPT !.pc = "ensure", !.last = Len(log),
                            !.reset = MustReset(p, t.seen)]
  <2>0. MustReset(p, t.seen) \in BOOLEAN
    BY DEF MustReset
  <2>1. task'[p] = u /\ task' = [task EXCEPT ![p] = task'[p]]
    BY <1>1, <1>3 DEF Snapshot, Set, TypeOK
  <2>a. Len(log) \in 0 .. MaxEvents
    BY <1>1, LogFacts DEF TypeOK
  <2>2. /\ u \in TaskType /\ u.pc = "ensure" /\ u.last = Len(log) /\ u.seen = t.seen
        /\ u.reset = MustReset(p, t.seen) /\ u.found = t.found /\ u.rebuild = t.rebuild
    BY <1>1, <2>0, <2>a DEF TaskType
  <2>3. t.pc = "snapshot" /\ t.seen.position \in Nat
    BY <1>1, <1>3 DEF Snapshot, At, TaskType, MetaType
  <2>4. ASSUME ~MustReset(p, t.seen)
        PROVE  /\ t.seen.version = Mine(p)
               /\ t.seen.position <= Len(log)
               /\ t.seen.position = 0 \/ TailAt(t.seen.position) = t.seen.tail
    <3>1. CASE t.seen.position = 0
      BY <1>1, <2>4, <3>1, LogFacts DEF MustReset
    <3>2. CASE t.seen.position > 0 /\ verified[p] = <<t.seen.position, t.seen.tail>>
      BY <1>1, <2>3, <2>4, <3>2 DEF MustReset, IInv, VerifiedInv
    <3>3. CASE /\ t.seen.position > 0
               /\ ~(verified[p] = <<t.seen.position, t.seen.tail>>)
      BY <1>1, <2>3, <2>4, <3>3, LogFacts DEF MustReset
    <3> QED
      BY <2>3, <3>1, <3>2, <3>3
  <2>5. t.rebuild = {} /\ \A a \in Abouts : t.found[a] = "unread"
    BY <1>1, <2>3 DEF FoundInv
  <2>6. SeenInv(u, p)
    BY <1>1, <2>2, <2>4, LogFacts DEF SeenInv
  <2>7. FoundInv(u) /\ ReadInv(u, p)
    BY <2>2, <2>5 DEF FoundInv, ReadInv
  <2> QED
    BY <1>3, <2>1, <2>2, <2>6, <2>7, QuietStep DEF Snapshot
<1>4. CASE Ensure(p)
  <2> DEFINE wanted == t.about # None /\ (t.reset \/ ~Built(t.about))
             small == wanted /\ Cardinality(EventsOf(t.about, t.last)) < MinEntries
             u == [t EXCEPT !.pc = "holds", !.below = small, !.build = wanted /\ ~small,
                            !.at = From(t)]
             done == ~t.reset /\ t.seen.position = t.last /\ ~u.build
  <2>1. t.pc = "ensure" /\ t.last \in 0 .. MaxEvents /\ t.last <= Len(log)
        /\ t.seen.position \in 0 .. MaxEvents /\ t.about \in Abouts \cup {None}
        /\ t.rebuild = {} /\ \A a \in Abouts : t.found[a] = "unread"
    BY <1>1, <1>4 DEF Ensure, At, TaskType, MetaType, SeenInv, FoundInv, Deciding
  <2>2. From(t) \in 0 .. MaxEvents /\ wanted \in BOOLEAN /\ small \in BOOLEAN
    BY <2>1, LexicalAssumption DEF From
  <2>3. /\ u \in TaskType /\ u.pc = "holds" /\ u.about = t.about /\ u.last = t.last
        /\ u.seen = t.seen /\ u.reset = t.reset /\ u.at = From(t) /\ u.below = small
        /\ u.found = t.found /\ u.rebuild = t.rebuild
    BY <1>1, <2>2 DEF TaskType
  <2>4. CASE ~done
    <3>1. task'[p] = u /\ task' = [task EXCEPT ![p] = task'[p]] /\ UNCHANGED verified
      BY <1>1, <1>4, <2>4 DEF Ensure, Set, TypeOK
    <3>2. SeenInv(u, p) /\ ReadInv(u, p)
      BY <1>1, <2>1, <2>3 DEF SeenInv, ReadInv, Deciding
    <3>3. FoundInv(u)
      BY <1>1, <2>1, <2>2, <2>3 DEF FoundInv, SeenInv, From, Deciding
    <3>4. UNCHANGED <<log, meta, rows, replaced, forgets>>
      BY <1>4 DEF Ensure
    <3>5. u \in TaskType
      BY <2>3
    <3> HIDE DEF u
    <3> QED
      BY <3>1, <3>2, <3>3, <3>4, <3>5, QuietStep
  <2>5. CASE done
    <3>1. /\ task'[p] = Followed(u) /\ task' = [task EXCEPT ![p] = task'[p]]
          /\ Remember(p, t.last)
      BY <1>1, <1>4, <2>5 DEF Ensure, Set, TypeOK
    <3>2. t.last \in 0 .. Len(log)
      BY <1>1, <2>1, LogFacts
    <3>3. u \in TaskType /\ u.last <= Len(log)
      BY <2>1, <2>3
    <3> HIDE DEF u
    <3>4. /\ Followed(u) \in TaskType /\ SeenInv(Followed(u), p)
          /\ FoundInv(Followed(u)) /\ ReadInv(Followed(u), p)
      BY <3>3, FollowedHolds
    <3> QED
      BY <1>4, <3>1, <3>2, <3>4, QuietStep DEF Ensure
  <2> QED
    BY <2>4, <2>5
<1> QED
  BY <1>2, <1>3, <1>4

\* A pass that looks at what the events touched.
LEMMA TouchSteps ==
    ASSUME IInv, NEW p \in Procs, Holds(p) \/ Touch(p) \/ Refresh(p)
    PROVE  IInv'
<1> DEFINE t == task[p]
<1>1. TypeOK /\ t \in TaskType /\ SeenInv(t, p) /\ FoundInv(t) /\ ReadInv(t, p)
  BY DEF IInv, TypeOK, TaskInv
<1>2. CASE Holds(p)
  <2> DEFINE follow == ~t.reset /\ \E a \in Abouts : Built(a)
             u == [t EXCEPT !.pc = IF follow THEN "touch" ELSE "commit"]
  <2>1. t.pc = "holds" /\ task'[p] = u /\ task' = [task EXCEPT ![p] = task'[p]]
    BY <1>1, <1>2 DEF Holds, At, Set, TypeOK
  <2>2. /\ u \in TaskType /\ u.pc = (IF follow THEN "touch" ELSE "commit")
        /\ u.last = t.last /\ u.seen = t.seen /\ u.reset = t.reset /\ u.at = t.at
        /\ u.found = t.found /\ u.rebuild = t.rebuild
    BY <1>1 DEF TaskType
  <2>3. SeenInv(u, p) /\ ReadInv(u, p)
    BY <1>1, <2>1, <2>2 DEF SeenInv, ReadInv, Deciding
  <2>4. FoundInv(u)
    BY <1>1, <2>1, <2>2 DEF FoundInv, Deciding
  <2> QED
    BY <1>2, <2>1, <2>2, <2>3, <2>4, QuietStep DEF Holds
<1>3. CASE Touch(p)
  <2> DEFINE b == log[t.at + 1].about
             state == IF Built(b) THEN "built" ELSE "absent"
             u == [t EXCEPT !.at = @ + 1, !.found[b] = IF @ = "unread" THEN state ELSE @]
  <2>1. t.pc = "touch" /\ t.at < t.last
        /\ task'[p] = u /\ task' = [task EXCEPT ![p] = task'[p]]
    BY <1>1, <1>3 DEF Touch, At, Set, TypeOK
  <2>2. /\ t.at \in 0 .. MaxEvents /\ t.last \in 0 .. MaxEvents /\ MaxEvents \in Nat
        /\ t.last <= Len(log) /\ Len(log) \in Nat /\ DOMAIN log = 1 .. Len(log)
        /\ t.found \in [Abouts -> {"unread", "built", "absent"}]
        /\ ~t.reset
    BY <1>1, <2>1, LogFacts DEF TaskType, SeenInv, FoundInv, Deciding
  <2>3. t.at + 1 \in DOMAIN log /\ t.at + 1 \in 0 .. MaxEvents /\ b \in Abouts
    <3>1. t.at + 1 \in 1 .. Len(log) /\ t.at + 1 \in 0 .. MaxEvents
      BY <2>1, <2>2
    <3>2. log[t.at + 1] \in EventType
      BY <1>1, <3>1, LogFacts
    <3> QED
      BY <2>2, <3>1, <3>2 DEF EventType
  <2>4. u.found = [t.found EXCEPT ![b] = IF @ = "unread" THEN state ELSE @]
    BY <1>1 DEF TaskType
  <2>5. /\ u \in TaskType /\ u.pc = "touch"
        /\ u.last = t.last /\ u.seen = t.seen /\ u.reset = t.reset /\ u.at = t.at + 1
        /\ u.found \in [Abouts -> {"unread", "built", "absent"}]
    BY <1>1, <2>1, <2>2, <2>3, <2>4 DEF TaskType
  <2>6. SeenInv(u, p) /\ ReadInv(u, p)
    BY <1>1, <2>1, <2>5 DEF SeenInv, ReadInv, Deciding
  <2>7. /\ \A a \in Abouts : t.found[a] # "unread" => u.found[a] # "unread"
        /\ u.found[b] # "unread"
        /\ \A a \in Abouts : u.found[a] = "absent" => t.found[a] = "absent" \/ ~Built(a)
    <3>1. state # "unread" /\ (state = "absent" => ~Built(b))
      OBVIOUS
    <3> HIDE DEF u, state
    <3>2. \A a \in Abouts : u.found[a] = IF a = b /\ t.found[b] = "unread"
                                           THEN state ELSE t.found[a]
      BY <2>2, <2>4
    <3> HIDE DEF b
    <3> QED
      BY <2>3, <3>1, <3>2
  <2>8. \A i \in DOMAIN log : t.seen.position < i /\ i <= t.at + 1 =>
            u.found[log[i].about] # "unread"
    <3>0. \A i \in DOMAIN log : log[i] \in EventType
      BY <1>1, <2>2, LogFacts
    <3>1. \A i \in DOMAIN log : log[i].about \in Abouts
      BY <3>0 DEF EventType
    <3>2. \A i \in DOMAIN log : t.seen.position < i /\ i <= t.at =>
              t.found[log[i].about] # "unread"
      BY <1>1, <2>1, <2>2 DEF FoundInv
    <3>3. t.seen.position \in Nat
      BY <1>1 DEF TaskType, MetaType
    <3>4. u.found[log[t.at + 1].about] # "unread"
      BY <2>7
    <3> HIDE DEF u
    <3>5. ASSUME NEW i \in DOMAIN log, t.seen.position < i, i <= t.at + 1
          PROVE  u.found[log[i].about] # "unread"
      <4>1. CASE i = t.at + 1
        BY <3>4, <4>1
      <4>2. CASE i # t.at + 1
        <5>1. i <= t.at
          BY <2>2, <3>5, <4>2
        <5> QED
          BY <2>7, <3>1, <3>2, <3>5, <5>1
      <4> QED
        BY <4>1, <4>2
    <3> QED
      BY <3>5
  <2>9. FoundInv(u)
    <3>1. t.seen.position <= t.at /\ t.seen.position \in Nat
      <4>1. t.seen.position \in Nat
        BY <1>1, <2>2 DEF TaskType, MetaType
      <4>2. t.seen.position <= t.at
        BY <1>1, <2>1, <2>2 DEF FoundInv
      <4> QED
        BY <4>1, <4>2
    <3>2. OneWriterEach /\ meta = t.seen =>
              \A a \in Abouts : u.found[a] = "absent" => ~Built(a)
      BY <1>1, <2>1, <2>2, <2>7 DEF FoundInv
    <3>3. t.at + 1 <= t.last /\ t.seen.position <= t.at + 1
      BY <2>1, <2>2, <3>1
    <3> HIDE DEF u
    <3> QED
      BY <2>2, <2>5, <2>8, <3>2, <3>3 DEF FoundInv
  <2> QED
    BY <1>3, <2>1, <2>5, <2>6, <2>9, QuietStep DEF Touch
<1>4. CASE Refresh(p)
  <2>1. t.pc = "touch" /\ t.at = t.last /\ ~t.reset
    BY <1>1, <1>4 DEF Refresh, At, FoundInv
  <2>2. CASE task' = [task EXCEPT ![p] = Idle]
    <3>1. task'[p] = Idle /\ task' = [task EXCEPT ![p] = task'[p]]
      BY <1>1, <2>2 DEF TypeOK
    <3> QED
      BY <1>4, <3>1, CallsAreTyped, IdleHolds, QuietStep DEF Refresh
  <2>3. ASSUME NEW moved \in SUBSET Refreshed(t),
               Set(p, [t EXCEPT !.pc = "commit", !.rebuild = moved])
        PROVE  IInv'
    <3> DEFINE u == [t EXCEPT !.pc = "commit", !.rebuild = moved]
    <3>1. task'[p] = u /\ task' = [task EXCEPT ![p] = task'[p]]
      BY <1>1, <2>3 DEF Set, TypeOK
    <3>2. moved \in SUBSET Abouts
      BY DEF Refreshed
    <3>3. /\ u \in TaskType /\ u.pc = "commit" /\ u.last = t.last /\ u.seen = t.seen
          /\ u.reset = t.reset /\ u.at = t.at /\ u.found = t.found
      BY <1>1, <3>2 DEF TaskType
    <3>4. SeenInv(u, p) /\ ReadInv(u, p)
      BY <1>1, <2>1, <3>3 DEF SeenInv, ReadInv, Deciding
    <3>5. FoundInv(u)
      BY <1>1, <2>1, <3>3 DEF FoundInv
    <3> QED
      BY <1>4, <3>1, <3>3, <3>4, <3>5, QuietStep DEF Refresh
  <2> QED
    BY <1>4, <2>2, <2>3 DEF Refresh, Set
<1> QED
  BY <1>2, <1>3, <1>4

-----------------------------------------------------------------------------
(* Steps that change what others see.                                      *)

\* A call just begun holds nothing that another state could break.
LEMMA FreshHolds ==
    ASSUME NEW p \in Procs, task'[p] = Idle \/ task'[p] = Start(None, FALSE)
    PROVE  TaskInv(p)'
<1>1. /\ task'[p].pc \in {"idle", "meta"}
      /\ task'[p].rebuild = {} /\ \A a \in Abouts : task'[p].found[a] = "unread"
  <2>1. Idle.pc = "idle" /\ Idle.rebuild = {} /\ \A a \in Abouts : Idle.found[a] = "unread"
    BY DEF Idle
  <2>2. /\ Start(None, FALSE).pc = "meta" /\ Start(None, FALSE).rebuild = {}
        /\ \A a \in Abouts : Start(None, FALSE).found[a] = "unread"
    BY DEF Idle, Start
  <2> QED
    BY <2>1, <2>2
<1> QED
  BY <1>1 DEF TaskInv, SeenInv, FoundInv, ReadInv, Deciding

\* An event is written, by a process that then follows the log or by another.
LEMMA GrowSteps ==
    ASSUME IInv, NEW a \in Abouts, Foreign(a) \/ \E p \in Procs : Write(p, a)
    PROVE  IInv'
<1>1. /\ Grow(a) /\ UNCHANGED <<meta, rows, verified, replaced, forgets>>
      /\ task' \in [Procs -> TaskType]
      /\ \A q \in Procs : task'[q] = task[q] \/ task'[q] = Start(None, FALSE)
  <2>1. task \in [Procs -> TaskType]
    BY DEF IInv, TypeOK
  <2>2. CASE Foreign(a)
    BY <2>1, <2>2 DEF Foreign
  <2>3. CASE \E p \in Procs : Write(p, a)
    <3>1. Start(None, FALSE) \in TaskType
      BY CallsAreTyped
    <3> QED
      BY <2>1, <2>3, <3>1 DEF Write, Set
  <2> QED
    BY <2>2, <2>3
<1>2. TypeOK
  BY DEF IInv
<1>3. TypeOK'
  BY <1>1, <1>2, GrowFacts DEF TypeOK
<1>4. /\ Len(log) \in Nat /\ Len(log') = Len(log) + 1 /\ DOMAIN log = 1 .. Len(log)
      /\ DOMAIN log' = 1 .. (Len(log) + 1)
      /\ \A i \in 1 .. Len(log) : log'[i] = log[i]
      /\ log'[Len(log) + 1] = NextEvent(a)
  <2>1. log' \in Seq(EventType)
    BY <1>1, <1>2, GrowFacts
  <2> QED
    BY <1>1, <1>2, <2>1, GrowFacts, LogFacts
<1>5. \A n \in 0 .. Len(log) : TailAt(n)' = TailAt(n)
                               /\ \A b : EventsOf(b, n)' = EventsOf(b, n)
  <2> TAKE n \in 0 .. Len(log)
  <2>1. n \in Nat /\ n <= Len(log) /\ n <= Len(log') /\ \A i \in 1 .. n : log'[i] = log[i]
    BY <1>4
  <2> QED
    BY <1>2, <1>3, <2>1, SameEvents
<1>6. TailInv'
  <2>1. \A i \in DOMAIN log' : log'[i].era <= replaced
    <3>1. NextEvent(a).era <= replaced
      BY <1>2 DEF NextEvent, TypeOK
    <3> QED
      BY <1>4, <3>1 DEF IInv, TailInv
  <2> QED
    BY <1>1, <1>2, <1>4, <2>1 DEF IInv, TailInv, TypeOK, MetaType
<1>7. NothingInvented' /\ (OneWriterEach => BuiltIsCurrent)'
  <2>1. meta.position \in Nat /\ (meta.position = 0 <=> meta.tail = None)
    BY <1>2 DEF TypeOK, MetaType
  <2>2. CASE meta.position <= Len(log)
    <3>1. /\ TailAt(meta.position)' = TailAt(meta.position)
          /\ \A b : EventsOf(b, meta.position)' = EventsOf(b, meta.position)
      <4>1. PICK n \in 0 .. Len(log) : n = meta.position
        BY <1>4, <2>1, <2>2
      <4>2. n = meta'.position
        BY <1>1, <4>1
      <4>3. TailAt(meta.position)' = TailAt(n)' /\ \A b : EventsOf(b, meta.position)' = EventsOf(b, n)'
        BY <4>2, Zenon DEF TailAt, EventsOf
      <4> QED
        BY <1>5, <4>1, <4>3
    <3> QED
      BY <1>1, <3>1 DEF IInv, NothingInvented, BuiltIsCurrent, Carried, Built, OneWriterEach
  <2>3. CASE meta.position > Len(log)
    <3>1. meta.tail # None /\ meta.tail.era < replaced
      BY <1>4, <2>1, <2>3 DEF IInv, TailInv
    <3>2. CASE meta.position = Len(log) + 1
      <4>1. TailAt(meta.position)' = NextEvent(a)
        BY <1>1, <1>4, <3>2 DEF TailAt
      <4>2. NextEvent(a).era = replaced /\ replaced \in Nat
        BY <1>2 DEF NextEvent, TypeOK
      <4>3. NextEvent(a) # meta.tail
        BY <3>1, <4>2
      <4> QED
        BY <1>1, <1>4, <3>2, <4>1, <4>3 DEF NothingInvented, BuiltIsCurrent, Carried
    <3>3. CASE meta.position # Len(log) + 1
      <4>1. TailAt(meta.position)' = None
        BY <1>1, <1>4, <2>1, <2>3, <3>3 DEF TailAt
      <4> QED
        BY <1>1, <1>4, <2>1, <2>3, <3>1, <4>1 DEF NothingInvented, BuiltIsCurrent, Carried
    <3> QED
      BY <3>2, <3>3
  <2> QED
    BY <1>4, <2>1, <2>2, <2>3
<1>8. VerifiedInv'
  <2>1. \A p \in Procs : verified[p][1] \in 0 .. Len(log)
    BY <1>2, <1>4 DEF IInv, VerifiedInv, TypeOK
  <2>2. ASSUME NEW p \in Procs
        PROVE  verified'[p][1] <= Len(log') /\ verified'[p][2] = TailAt(verified[p][1])'
    BY <1>1, <1>4, <1>5, <2>1 DEF IInv, VerifiedInv
  <2> QED
    BY <1>1, <2>2 DEF VerifiedInv, TailAt
<1>9. ASSUME NEW p \in Procs PROVE TaskInv(p)'
  <2>1. CASE task'[p] = Start(None, FALSE)
    BY <2>1, FreshHolds
  <2>2. CASE task'[p] = task[p]
    <3> DEFINE t == task[p]
    <3>1. t \in TaskType /\ SeenInv(t, p) /\ FoundInv(t) /\ ReadInv(t, p)
      BY <1>2 DEF IInv, TypeOK, TaskInv
    <3>2. /\ t.last \in 0 .. MaxEvents /\ t.seen.position \in 0 .. MaxEvents
          /\ t.at \in 0 .. MaxEvents /\ MaxEvents \in Nat
      BY <3>1, LexicalAssumption DEF TaskType, MetaType
    <3>3. SeenInv(task[p], p)'
      <4>1. t.pc \in Deciding /\ ~t.reset => TailAt(t.seen.position)' = TailAt(t.seen.position)
        BY <1>4, <1>5, <2>2, <3>1, <3>2 DEF SeenInv, TailAt
      <4> QED
        BY <1>4, <2>2, <3>1, <3>2, <4>1 DEF SeenInv, Mine
    <3>4. FoundInv(task[p])'
      <4>1. t.pc \in {"holds", "touch", "commit"} /\ ~t.reset => t.at <= Len(log)
        BY <1>4, <3>1, <3>2 DEF SeenInv, FoundInv, Deciding
      <4> QED
        BY <1>1, <1>4, <2>2, <3>1, <3>2, <4>1, SMTT(30) DEF FoundInv, Built, OneWriterEach
    <3>5. ReadInv(task[p], p)'
      <4>1. t.pc \in {"postings", "parts"} => PlaceAt(p, t.last)' = PlaceAt(p, t.last)
        BY <1>4, <1>5, <2>2, <3>1, <3>2 DEF ReadInv, PlaceAt, Mine, TailAt
      <4> QED
        BY <1>1, <1>4, <2>2, <3>1, <3>2, <4>1 DEF ReadInv, Built, PlaceAt, Mine, OneWriterEach
    <3> QED
      BY <3>3, <3>4, <3>5 DEF TaskInv
  <2> QED
    BY <1>1, <2>1, <2>2
<1> QED
  BY <1>3, <1>6, <1>7, <1>8, <1>9 DEF IInv

\* An about is forgotten: nothing is built that was not.
LEMMA ForgetStep ==
    ASSUME IInv, NEW b \in Abouts, Forget(b)
    PROVE  IInv'
<1>1. /\ rows' = [rows EXCEPT ![b] = NotBuilt]
      /\ UNCHANGED <<log, meta, task, verified, replaced>>
  BY DEF Forget
<1>2. TypeOK'
  <2>1. NotBuilt \in RowsType /\ MaxForgets \in Nat
    BY LexicalAssumption DEF NotBuilt, RowsType
  <2> QED
    BY <1>1, <2>1 DEF IInv, TypeOK, Forget
<1>3. \A a \in Abouts : Built(a)' => a # b /\ Built(a) /\ rows'[a] = rows[a]
  BY <1>1 DEF IInv, TypeOK, Built
<1>4. TailInv' /\ VerifiedInv'
  BY <1>1 DEF IInv, TailInv, VerifiedInv, TailAt
<1>5. NothingInvented' /\ (OneWriterEach => BuiltIsCurrent)'
  <2>1. Carried' = Carried /\ \A a : EventsOf(a, meta.position)' = EventsOf(a, meta.position)
    BY <1>1 DEF Carried, TailAt, EventsOf
  <2> QED
    BY <1>1, <1>3, <2>1 DEF IInv, NothingInvented, BuiltIsCurrent, OneWriterEach
<1>6. ASSUME NEW p \in Procs PROVE TaskInv(p)'
  <2> DEFINE t == task[p]
  <2>1. t \in TaskType /\ SeenInv(t, p) /\ FoundInv(t) /\ ReadInv(t, p)
    BY DEF IInv, TypeOK, TaskInv
  <2>2. SeenInv(task[p], p)'
    BY <1>1, <2>1 DEF SeenInv, TailAt, Mine
  <2>3. FoundInv(task[p])'
    BY <1>1, <1>3, <2>1 DEF FoundInv, OneWriterEach
  <2>4. ReadInv(task[p], p)'
    <3>1. t.pc \in {"postings", "parts"} => t.about \in Abouts
      BY <2>1 DEF ReadInv
    <3>2. PlaceAt(p, t.last)' = PlaceAt(p, t.last)
      BY <1>1 DEF PlaceAt, Mine, TailAt
    <3> QED
      BY <1>1, <1>3, <2>1, <3>1, <3>2 DEF ReadInv, OneWriterEach
  <2> QED
    BY <2>2, <2>3, <2>4 DEF TaskInv
<1> QED
  BY <1>2, <1>4, <1>5, <1>6 DEF IInv

\* The store is put back: what the log no longer carries is of an era before.
LEMMA ReplaceStep ==
    ASSUME IInv, NEW n \in Nat, Replace(n)
    PROVE  IInv'
<1>0. TypeOK
  BY DEF IInv
<1>1. /\ n \in 0 .. Len(log) /\ log' = SubSeq(log, 1, n)
      /\ \A p \in Procs : task[p] = Idle
      /\ replaced' = replaced + 1 /\ replaced < MaxReplaced
      /\ verified' = [p \in Procs |-> <<0, None>>]
      /\ UNCHANGED <<meta, rows, task, forgets>>
  BY DEF Replace
<1>2. /\ log' \in Seq(EventType) /\ Len(log') = n /\ DOMAIN log' = 1 .. n
      /\ \A i \in 1 .. n : log'[i] = log[i]
      /\ Len(log) \in Nat /\ DOMAIN log = 1 .. Len(log)
  BY <1>0, <1>1, LogFacts DEF TypeOK
<1>3. TypeOK'
  <2>1. replaced' \in 0 .. MaxReplaced
    BY <1>0, <1>1, LogFacts DEF TypeOK
  <2>2. Len(log') <= MaxEvents
    BY <1>0, <1>1, <1>2, LogFacts DEF TypeOK
  <2>3. \A i \in DOMAIN log' : log'[i].at = i
    BY <1>0, <1>1, <1>2 DEF TypeOK
  <2>4. verified' \in [Procs -> (0 .. MaxEvents) \X (EventType \cup {None})]
    BY <1>1, LexicalAssumption
  <2> QED
    BY <1>0, <1>1, <1>2, <2>1, <2>2, <2>3, <2>4 DEF TypeOK
<1>4. TailInv'
  <2>1. /\ replaced \in Nat /\ \A i \in DOMAIN log : log[i].era \in Nat
        /\ meta.tail # None => meta.tail.era \in Nat
    <3>1. \A i \in DOMAIN log : log[i] \in EventType
      BY <1>0, <1>2, LogFacts
    <3> QED
      BY <1>0, <3>1 DEF TypeOK, EventType, MetaType
  <2> QED
    BY <1>1, <1>2, <2>1 DEF IInv, TailInv
<1>5. NothingInvented' /\ (OneWriterEach => BuiltIsCurrent)'
  <2>1. meta.position \in Nat /\ (meta.position = 0 <=> meta.tail = None)
    BY <1>0 DEF TypeOK, MetaType
  <2>2. CASE meta.position <= n
    <3>1. PICK k \in 0 .. n : k = meta.position
      BY <2>1, <2>2
    <3>2. k = meta'.position
      BY <1>1, <3>1
    <3>3. TailAt(meta.position)' = TailAt(k)' /\ \A b : EventsOf(b, meta.position)' = EventsOf(b, k)'
      BY <3>2, Zenon DEF TailAt, EventsOf
    <3>4. TailAt(k)' = TailAt(k) /\ \A b : EventsOf(b, k)' = EventsOf(b, k)
      <4>1. k \in Nat /\ k <= Len(log) /\ k <= Len(log') /\ \A i \in 1 .. k : log'[i] = log[i]
        BY <1>1, <1>2, <3>1
      <4> QED
        BY <1>0, <1>3, <4>1, SameEvents
    <3> QED
      BY <1>1, <3>1, <3>3, <3>4
         DEF IInv, NothingInvented, BuiltIsCurrent, Carried, Built, OneWriterEach
  <2>3. CASE meta.position > n
    <3>1. TailAt(meta.position)' = None
      BY <1>1, <1>2, <2>1, <2>3 DEF TailAt
    <3> QED
      BY <1>1, <2>1, <2>3, <3>1 DEF NothingInvented, BuiltIsCurrent, Carried
  <2> QED
    BY <1>1, <2>1, <2>2, <2>3
<1>6. VerifiedInv'
  BY <1>1, <1>2 DEF VerifiedInv, TailAt
<1>7. ASSUME NEW p \in Procs PROVE TaskInv(p)'
  BY <1>1, FreshHolds
<1> QED
  BY <1>3, <1>4, <1>5, <1>6, <1>7 DEF IInv

\* A pass that commits leaves no built about with other events than its own up
\* to the end of the snapshot, and each with all of them if nobody else runs
\* its derivation.
LEMMA CommitRows ==
    ASSUME IInv, NEW p \in Procs, At(p, "commit"), Stands(p),
           \A a \in Refreshed(task[p]) \ Rebuilt(task[p]) : Built(a),
           NEW a \in Abouts
    PROVE  LET r == RowsAfter(p, task[p], a)
           IN /\ r \in RowsType
              /\ r # NotBuilt => /\ r.by \subseteq {Mine(p)}
                                 /\ r.events \subseteq EventsOf(a, task[p].last)
              /\ OneWriterEach /\ r # NotBuilt =>
                    r = [by |-> {Mine(p)}, events |-> EventsOf(a, task[p].last)]
<1> DEFINE t == task[p]
           r == RowsAfter(p, t, a)
           whole == [by |-> {Mine(p)}, events |-> EventsOf(a, t.last)]
<1>1. TypeOK /\ t \in TaskType /\ SeenInv(t, p) /\ FoundInv(t)
  BY DEF IInv, TypeOK, TaskInv
<1>2. /\ t.pc = "commit" /\ meta = t.seen /\ t.pc \in Deciding
      /\ t.last \in Nat /\ t.seen.position \in Nat /\ t.last <= Len(log)
  BY <1>1 DEF At, Stands, Deciding, SeenInv, TaskType, MetaType
<1>3. Mine(p) \in Versions /\ whole \in RowsType
  BY <1>1, LexicalAssumption, LogFacts DEF Mine, RowsType
<1>4. CASE a \in Rebuilt(t)
  BY <1>3, <1>4 DEF RowsAfter
<1>5. CASE a \notin Rebuilt(t) /\ t.reset
  <2>1. a \notin Refreshed(t)
    BY <1>1, <1>2, <1>5 DEF FoundInv, Refreshed
  <2> QED
    BY <1>5, <2>1 DEF RowsAfter, NotBuilt, RowsType
<1>6. CASE a \notin Rebuilt(t) /\ ~t.reset
  <2>1. /\ t.seen.version = Mine(p) /\ t.seen.position <= t.last
        /\ Carried /\ From(t) = t.seen.position
    BY <1>1, <1>2, <1>6 DEF SeenInv, Carried, From
  <2>2. /\ Built(a) => /\ rows[a].by \subseteq {Mine(p)}
                       /\ rows[a].events \subseteq EventsOf(a, t.seen.position)
        /\ OneWriterEach /\ Built(a) =>
              rows[a] = [by |-> {Mine(p)}, events |-> EventsOf(a, t.seen.position)]
    BY <1>2, <2>1 DEF IInv, BuiltIsCurrent, NothingInvented
  <2>5. EventsOf(a, t.seen.position) \subseteq EventsOf(a, t.last)
    <3>1. \A e \in {log[i] : i \in DOMAIN log} : e.at \in Nat
      BY <1>1 DEF TypeOK, EventType
    <3> QED
      BY <1>2, <2>1, <3>1 DEF EventsOf
  <2>3. CASE a \in Refreshed(t)
    <3>1. Built(a)
      BY <1>6, <2>3
    <3>2. r = [by |-> rows[a].by \cup {Mine(p)},
               events |-> rows[a].events \cup (EventsOf(a, t.last) \ EventsOf(a, From(t)))]
      BY <1>6, <2>3 DEF RowsAfter
    <3>3. /\ r.by = {Mine(p)} /\ r.events \subseteq EventsOf(a, t.last)
          /\ EventsOf(a, t.last) \in SUBSET EventType
      BY <1>1, <2>2, <2>5, <3>1, <3>2, LogFacts
    <3>4. r \in RowsType
      BY <1>3, <3>2, <3>3 DEF RowsType
    <3>5. OneWriterEach => rows[a].events = EventsOf(a, t.seen.position)
      BY <2>2, <3>1
    <3>6. OneWriterEach => r.events = EventsOf(a, t.last)
      BY <2>1, <2>5, <3>2, <3>5
    <3>7. r = [by |-> r.by, events |-> r.events]
      BY <3>2
    <3>8. OneWriterEach => r = whole
      BY <3>3, <3>6, <3>7
    <3> QED
      BY <3>3, <3>4, <3>8
  <2>4. CASE a \notin Refreshed(t)
    <3>1. r = rows[a]
      BY <1>6, <2>4 DEF RowsAfter
    <3>2. ASSUME OneWriterEach, Built(a)
          PROVE  EventsOf(a, t.seen.position) = EventsOf(a, t.last)
      <4>1. t.at = t.last /\ t.found[a] # "absent"
        BY <1>1, <1>2, <1>6, <3>2 DEF FoundInv
      <4>2. t.found[a] # "built"
        BY <1>6, <2>4 DEF Refreshed, Rebuilt
      <4>3. t.found[a] = "unread"
        BY <1>1, <4>1, <4>2 DEF TaskType
      <4>4. \A i \in DOMAIN log :
                t.seen.position < i /\ i <= t.last => log[i].about # a
        BY <1>1, <1>2, <1>6, <4>1, <4>3 DEF FoundInv
      <4>5. /\ DOMAIN log = 1 .. Len(log) /\ Len(log) \in Nat
            /\ \A i \in DOMAIN log : log[i].at = i
        BY <1>1, LogFacts DEF TypeOK
      <4>6. ASSUME NEW e PROVE e \in EventsOf(a, t.seen.position) <=> e \in EventsOf(a, t.last)
        BY <1>2, <2>1, <4>4, <4>5 DEF EventsOf
      <4> QED
        BY <4>6 DEF EventsOf
    <3>3. rows[a] \in RowsType
      BY <1>1 DEF TypeOK
    <3> QED
      BY <2>2, <2>5, <3>1, <3>2, <3>3 DEF Built
  <2> QED
    BY <2>3, <2>4
<1> QED
  BY <1>4, <1>5, <1>6

\* The commit: if no two processes run one derivation, no other finds the
\* sidecar where it left it, for it now names a derivation of its own.
LEMMA CommitStep ==
    ASSUME IInv, NEW p \in Procs, Commit(p)
    PROVE  IInv'
<1> DEFINE t == task[p]
<1>1. TypeOK /\ t \in TaskType /\ SeenInv(t, p) /\ FoundInv(t)
  BY DEF IInv, TypeOK, TaskInv
<1>2. /\ t.pc = "commit" /\ meta = t.seen /\ UNCHANGED <<log, replaced, forgets>>
      /\ t.last \in 0 .. Len(log) /\ t.last \in 0 .. MaxEvents
  BY <1>1, LogFacts DEF Commit, At, Stands, SeenInv, Deciding, TaskType
<1>3. CASE ~(\A a \in Refreshed(t) \ Rebuilt(t) : Built(a))
  <2>1. task'[p] = Idle /\ task' = [task EXCEPT ![p] = task'[p]]
    BY <1>1, <1>3 DEF Commit, Set, TypeOK
  <2> QED
    BY <1>3, <2>1, CallsAreTyped, IdleHolds, QuietStep DEF Commit
<1>4. CASE \A a \in Refreshed(t) \ Rebuilt(t) : Built(a)
  <2>1. /\ rows' = [a \in Abouts |-> RowsAfter(p, t, a)]
        /\ meta' = PlaceAt(p, t.last)
        /\ Remember(p, t.last)
        /\ Set(p, Followed(t))
    BY <1>4 DEF Commit
  <2>2. /\ Followed(t) \in TaskType /\ SeenInv(Followed(t), p)
        /\ FoundInv(Followed(t)) /\ ReadInv(Followed(t), p)
    BY <1>1, <1>2, FollowedHolds
  <2>3. \A a \in Abouts :
            /\ rows'[a] \in RowsType
            /\ rows'[a] # NotBuilt => /\ rows'[a].by \subseteq {Mine(p)}
                                      /\ rows'[a].events \subseteq EventsOf(a, t.last)
            /\ OneWriterEach /\ rows'[a] # NotBuilt =>
                  rows'[a] = [by |-> {Mine(p)}, events |-> EventsOf(a, t.last)]
    <3>1. At(p, "commit") /\ Stands(p)
      BY DEF Commit
    <3> QED
      BY <1>4, <2>1, <3>1, CommitRows
  <2>4. /\ meta'.version = Mine(p) /\ meta'.position = t.last
        /\ meta'.tail = TailAt(t.last) /\ meta' \in MetaType
        /\ meta'.position = 0 <=> meta'.tail = None
        /\ meta'.tail # None => meta'.tail = log[t.last] /\ t.last \in DOMAIN log
    <3>1. Mine(p) \in Versions
      BY LexicalAssumption DEF Mine
    <3>2. TailAt(t.last) \in EventType \cup {None}
      BY <1>1, <1>2, LogFacts
    <3>3. CASE t.last = 0
      BY <1>1, <1>2, <2>1, <3>1, <3>2, <3>3, LogFacts DEF PlaceAt, MetaType
    <3>4. CASE t.last # 0
      <4>1. t.last \in 1 .. Len(log)
        BY <1>1, <1>2, <3>4, LogFacts
      <4>2. TailAt(t.last) = log[t.last] /\ TailAt(t.last) # None
        BY <1>1, <4>1, LogFacts, TailIsSome
      <4> QED
        BY <1>1, <1>2, <2>1, <3>1, <3>2, <3>4, <4>1, <4>2, LogFacts DEF PlaceAt, MetaType
    <3> QED
      BY <3>3, <3>4
  <2>5. TypeOK'
    <3>1. TailAt(t.last) \in EventType \cup {None}
      BY <1>1, <1>2, LogFacts
    <3>2. verified' \in [Procs -> (0 .. MaxEvents) \X (EventType \cup {None})]
      BY <1>1, <1>2, <2>1, <3>1 DEF Remember, TypeOK
    <3>3. rows' \in [Abouts -> RowsType]
      BY <2>1, <2>3
    <3>4. task' \in [Procs -> TaskType]
      BY <1>1, <2>1, <2>2 DEF Set, TypeOK
    <3> QED
      BY <1>1, <1>2, <2>4, <3>2, <3>3, <3>4 DEF TypeOK
  <2>6. TailInv'
    <3>1. meta'.tail # None =>
            /\ meta'.tail.at = t.last /\ meta'.tail.era <= replaced
            /\ ~(t.last > Len(log))
      BY <1>1, <1>2, <2>4, LogFacts DEF IInv, TypeOK, TailInv
    <3> QED
      BY <1>2, <2>4, <3>1 DEF IInv, TailInv
  <2>7. NothingInvented' /\ (OneWriterEach => BuiltIsCurrent)'
    <3>1. \A a \in Abouts : EventsOf(a, meta.position)' = EventsOf(a, t.last)
      BY <1>2, <2>4, Zenon DEF EventsOf
    <3> QED
      BY <2>3, <2>4, <3>1 DEF NothingInvented, BuiltIsCurrent, Built, OneWriterEach
  <2>8. VerifiedInv'
    BY <1>1, <1>2, <2>1 DEF IInv, TypeOK, VerifiedInv, Remember, TailAt
  <2>9. ASSUME NEW q \in Procs PROVE TaskInv(q)'
    <3>1. CASE q = p
      <4>1. task'[q] = Followed(t)
        BY <1>1, <2>1, <3>1 DEF Set, TypeOK
      <4>2. Followed(t).pc \in {"idle", "plan"}
        BY DEF Followed, Idle
      <4> QED
        BY <1>2, <2>2, <3>1, <4>1, <4>2
           DEF TaskInv, SeenInv, FoundInv, ReadInv, Deciding
    <3>2. CASE q # p
      <4> DEFINE u == task[q]
      <4>1. task'[q] = u
        BY <1>1, <2>1, <3>2 DEF Set, TypeOK
      <4>2. u \in TaskType /\ SeenInv(u, q) /\ FoundInv(u) /\ ReadInv(u, q)
        BY DEF IInv, TypeOK, TaskInv
      <4>3. OneWriterEach => meta'.version # Mine(q)
        BY <2>4, <3>2 DEF OneWriterEach, Mine
      <4>4. SeenInv(task[q], q)'
        BY <1>2, <4>1, <4>2 DEF SeenInv, TailAt, Mine
      <4>5. FoundInv(task[q])'
        <5>1. u.pc \in {"holds", "touch", "commit"} /\ ~u.reset /\ OneWriterEach =>
                  meta' # u.seen
          BY <4>2, <4>3 DEF SeenInv, Deciding
        <5> QED
          BY <1>2, <4>1, <4>2, <5>1 DEF FoundInv, Deciding, OneWriterEach
      <4>6. ReadInv(task[q], q)'
        <5>1. OneWriterEach => meta' # PlaceAt(q, u.last)'
          BY <4>1, <4>3 DEF PlaceAt, Mine
        <5> QED
          BY <1>2, <4>1, <4>2, <5>1 DEF ReadInv, OneWriterEach
      <4> QED
        BY <4>4, <4>5, <4>6 DEF TaskInv
    <3> QED
      BY <3>1, <3>2
  <2> QED
    BY <2>5, <2>6, <2>7, <2>8, <2>9 DEF IInv
<1> QED
  BY <1>3, <1>4

-----------------------------------------------------------------------------
(* The theorems.                                                           *)

LEMMA InitHolds == Init => IInv
<1> SUFFICES ASSUME Init PROVE IInv
  OBVIOUS
<1>1. TypeOK
  <2>1. Fresh \in MetaType /\ NotBuilt \in RowsType
    BY LexicalAssumption DEF Fresh, MetaType, NotBuilt, RowsType
  <2> QED
    BY <2>1, CallsAreTyped, LexicalAssumption DEF Init, TypeOK, Fresh
<1>2. TailInv /\ VerifiedInv
  BY DEF Init, TailInv, VerifiedInv, TailAt, Fresh
<1>3. NothingInvented /\ BuiltIsCurrent
  BY DEF Init, NothingInvented, BuiltIsCurrent, Built
<1>4. \A p \in Procs : TaskInv(p)
  BY IdleHolds DEF Init, TaskInv
<1> QED
  BY <1>1, <1>2, <1>3, <1>4 DEF IInv

LEMMA NextHolds ==
    ASSUME IInv, [Next]_vars
    PROVE  IInv'
<1>1. CASE UNCHANGED vars
  <2> USE <1>1 DEF vars
  <2>1. TypeOK' /\ TailInv' /\ VerifiedInv'
    BY DEF IInv, TypeOK, TailInv, VerifiedInv, TailAt
  <2>2. NothingInvented' /\ (OneWriterEach => BuiltIsCurrent)'
    <3>1. /\ \A a, n : EventsOf(a, n)' = EventsOf(a, n)
          /\ Carried' = Carried
          /\ \A a : Built(a)' = Built(a)
      BY DEF EventsOf, Carried, TailAt, Built
    <3>2. NothingInvented'
      BY <3>1 DEF IInv, NothingInvented
    <3>3. (OneWriterEach => BuiltIsCurrent)'
      BY <3>1 DEF IInv, BuiltIsCurrent, OneWriterEach
    <3> QED
      BY <3>2, <3>3
  <2>3. ASSUME NEW p \in Procs PROVE TaskInv(p)'
    <3>1. TaskInv(p) /\ task'[p] = task[p]
      BY DEF IInv
    <3>2. SeenInv(task[p], p)'
      BY <3>1 DEF TaskInv, SeenInv, TailAt, Mine
    <3>3. FoundInv(task[p])'
      BY <3>1 DEF TaskInv, FoundInv, Built, OneWriterEach
    <3>4. ReadInv(task[p], p)'
      BY <3>1 DEF TaskInv, ReadInv, Built, PlaceAt, TailAt, Mine, OneWriterEach
    <3> QED
      BY <3>2, <3>3, <3>4 DEF TaskInv
  <2> QED
    BY <2>1, <2>2, <2>3 DEF IInv
<1>2. ASSUME NEW p \in Procs, Call(p) PROVE IInv'
  BY <1>2, CallSteps, GrowSteps DEF Call
<1>3. ASSUME NEW p \in Procs, Follow(p) PROVE IInv'
  BY <1>3, BeginSteps, TouchSteps, CommitStep, CallSteps DEF Follow
<1>4. ASSUME NEW p \in Procs, Read(p) PROVE IInv'
  BY <1>4, ReadSteps, CallSteps DEF Read
<1>5. ASSUME NEW p \in Procs, Crash(p) PROVE IInv'
  BY <1>5, CallSteps
<1>6. ASSUME NEW a \in Abouts, Foreign(a) \/ Forget(a) PROVE IInv'
  BY <1>6, GrowSteps, ForgetStep
<1>7. ASSUME NEW n \in 0 .. MaxEvents, Replace(n) PROVE IInv'
  BY <1>7, ReplaceStep, LexicalAssumption
<1> QED
  BY <1>1, <1>2, <1>3, <1>4, <1>5, <1>6, <1>7 DEF Next

\* The inductive invariant.
THEOREM Invariant == Spec => []IInv
<1>1. IInv /\ [Next]_vars => IInv'
  BY NextHolds
<1> QED
  BY <1>1, InitHolds, PTL DEF Spec

\* Every variable has its type, and the sidecar's position and tail come from
\* one event.
THEOREM TypeCorrect == Spec => []TypeOK
<1>1. IInv => TypeOK
  BY DEF IInv
<1> QED
  BY <1>1, Invariant, PTL

\* Whoever shares the sidecar, what is built is of one derivation and holds no
\* event its about does not have: the race of two processes of one release can
\* leave an index that lacks events, never one that shows others.
THEOREM NothingIsInvented == Spec => []NothingInvented
<1>1. IInv => NothingInvented
  BY DEF IInv
<1> QED
  BY <1>1, Invariant, PTL

\* If no two processes run one derivation, whatever is built holds exactly the events of its about up to the
\* sidecar's position, derived by the derivation it names, as long as the log
\* carries the sidecar's tail there.
THEOREM Current == ASSUME OneWriterEach PROVE Spec => []BuiltIsCurrent
<1>1. IInv => BuiltIsCurrent
  BY OneWriterEach DEF IInv
<1> QED
  BY <1>1, Invariant, PTL

\* Only a read of the parts answers, with the store where the ask left it.
LEMMA AnswerFacts ==
    ASSUME TypeOK, [Next]_vars, NEW p \in Procs, Answers(p)
    PROVE  Len(log) = task[p].last
<1>0. /\ task[p].pc = "parts" /\ task'[p].pc = "answered"
      /\ Idle.pc = "idle" /\ \A a, again : Start(a, again).pc = "meta"
  BY DEF Answers, At, Idle, Start
<1>1. CASE UNCHANGED task
  BY <1>0, <1>1
<1>2. ASSUME NEW q \in Procs, NEW t, Set(q, t)
      PROVE  q = p /\ t.pc = "answered"
  BY <1>0, <1>2 DEF Set, TypeOK
<1>3. ASSUME NEW q \in Procs, Call(q) PROVE FALSE
  BY <1>0, <1>2, <1>3 DEF Call, Write, Ask
<1>4. ASSUME NEW q \in Procs, Follow(q) PROVE FALSE
  <2>1. ~At(q, "meta") /\ ~At(q, "snapshot") /\ ~At(q, "ensure") /\ ~At(q, "holds")
        /\ ~At(q, "touch") /\ ~At(q, "commit")
    <3>1. \E t : Set(q, t)
      BY <1>4, Zenon DEF Follow, ReadMeta, Snapshot, Ensure, Holds, Touch, Refresh, Commit, Lose
    <3> QED
      BY <1>0, <1>2, <3>1 DEF At
  <2> QED
    BY <1>4, <2>1 DEF Follow, ReadMeta, Snapshot, Ensure, Holds, Touch, Refresh, Commit, Lose
<1>5. ASSUME NEW q \in Procs, Read(q) PROVE Len(log) = task[p].last
  <2>1. \E t : Set(q, t)
    BY <1>5, Zenon DEF Read, ReadStats, ReadPostings, ReadParts, Reply
  <2>2. q = p /\ ReadParts(p)
    BY <1>0, <1>2, <1>5, <2>1 DEF Read, ReadStats, ReadPostings, Reply, At
  <2> QED
    BY <1>0, <1>2, <2>2 DEF ReadParts
<1>6. ASSUME NEW q \in Procs, Crash(q) PROVE FALSE
  BY <1>0, <1>2, <1>6 DEF Crash
<1>7. CASE \/ \E a \in Abouts : Foreign(a) \/ Forget(a)
           \/ \E n \in 0 .. MaxEvents : Replace(n)
  BY <1>1, <1>7 DEF Foreign, Forget, Replace
<1> QED
  BY <1>1, <1>3, <1>4, <1>5, <1>6, <1>7 DEF Next, vars

\* An answer from an index that stands where the ask left it holds every
\* event of the about.
THEOREM Whole == ASSUME OneWriterEach PROVE Spec => AnswersAreWhole
<1> DEFINE whole(p) == [by |-> {Mine(p)}, events |-> EventsOf(task[p].about, Len(log))]
<1>1. ASSUME IInv, [Next]_vars, NEW p \in Procs, Answers(p),
             meta = PlaceAt(p, task[p].last), Built(task[p].about)
      PROVE  task[p].plan = [stats |-> whole(p), postings |-> whole(p)]
  <2> DEFINE t == task[p]
  <2>1. TypeOK /\ t \in TaskType /\ ReadInv(t, p) /\ t.pc = "parts"
    BY <1>1 DEF IInv, TypeOK, TaskInv, Answers, At
  <2>2. /\ t.about \in Abouts
        /\ t.plan.stats = rows[t.about] /\ t.plan.postings = rows[t.about]
    BY <1>1, <2>1 DEF ReadInv
  <2>3. Len(log) = t.last
    BY <1>1, <2>1, AnswerFacts
  <2>4. Carried /\ meta.version = Mine(p) /\ meta.position = Len(log)
    BY <1>1, <2>3 DEF Carried, PlaceAt
  <2>5. rows[t.about] = whole(p)
    BY <1>1, <2>2, <2>4 DEF IInv, BuiltIsCurrent
  <2>6. t.plan = [stats |-> t.plan.stats, postings |-> t.plan.postings]
    BY <2>1 DEF TaskType
  <2> QED
    BY <2>2, <2>5, <2>6
<1>2. IInv /\ [Next]_vars => [AnswerIsWhole]_vars
  BY <1>1 DEF AnswerIsWhole
<1> QED
  BY <1>2, Invariant, PTL DEF Spec, AnswersAreWhole
=============================================================================
