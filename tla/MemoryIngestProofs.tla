------------------------- MODULE MemoryIngestProofs -------------------------
(***************************************************************************)
(* What holds of ingest for any number of processes, tasks, abouts and     *)
(* commands: a reviewed write commits onto the neighbourhood its writer    *)
(* was shown, and no call waits for a guard it holds itself.               *)
(*                                                                         *)
(* Nothing below depends on which sequences are given to coordinates: that *)
(* is MemoryNumberingProofs, which stands on the invariant proved here.    *)
(***************************************************************************)
EXTENDS MemoryIngest, TLAPS

-----------------------------------------------------------------------------
(* The shape of the state: what can be said of it without the plans.       *)

Fields == {"pc", "cmd", "token", "sampled", "saw", "top", "stood", "todo",
           "found", "plan", "owner", "done", "reply"}
IsCall(h) == h = [f \in Fields |-> h[f]]

\* A call is a record of its fields and keeps its two tables over the abouts.
Shaped(h) ==
    /\ IsCall(h)
    /\ h.sampled \in [Abouts -> Nat \cup {None}]
    /\ h.saw = [a \in Abouts |-> h.saw[a]]

\* A write that reads what it will be compared with.
Comparing(h) == h.cmd.op = "ingest" /\ ConsistentRead(h.cmd)

\* Which command may stand where, and what it has sampled by then.
Placed(h) ==
    /\ h.pc \in Steps
    /\ h.pc # "idle" => h.cmd \in Commands
    /\ h.pc \in {"existing", "coordinates", "relabel"} => h.cmd.op = "relabel"
    /\ h.pc \in {"enter", "read", "foreign_read", "review"} => Comparing(h)
    /\ h.pc \in {"catalogue", "facts"} => h.cmd.op = "ingest" /\ ~ConsistentRead(h.cmd)
    /\ h.pc \in {"sample", "foreign"} => h.cmd.op = "ingest"
    /\ h.pc \in {"enter", "sample"} => \A a \in Abouts : h.saw[a] = None
    /\ h.pc = "read" => h.sampled[h.cmd.about] \in Nat
    /\ h.pc = "foreign_read" => h.owner \in Abouts /\ h.sampled[h.owner] \in Nat

StateShaped ==
    /\ rev \in [Abouts -> Nat]
    /\ memory = [a \in Abouts |-> memory[a]]
    /\ accepted \in [Keys -> [cmd : Commands, rev : Nat] \cup {None}]
    /\ call = [t \in Tasks |-> call[t]]
    /\ \A t \in Tasks : Shaped(call[t]) /\ Placed(call[t])

\* What a comparing call saw of an about at the revision it sampled is what
\* the about holds while it stands at that revision.
Sampled(h) ==
    h.pc # "idle" /\ Comparing(h) =>
        \A a \in Abouts :
            /\ h.sampled[a] \in Nat => h.sampled[a] <= rev[a]
            /\ h.saw[a] # None =>
                  /\ h.sampled[a] \in Nat
                  /\ h.sampled[a] = rev[a] => h.saw[a] = memory[a]

ShownToken(h) ==
    h.token = Neighborhood(h.cmd, h.saw, {a \in Abouts : h.saw[a] # None})

\* A reviewed call on its way to the commit has the token of what it saw,
\* unless its key was accepted before.
Reviewed(h) ==
    /\ h.pc \in {"wait", "key"} /\ Reviewing(h.cmd) =>
          accepted[h.cmd.key] # None \/ ShownToken(h)
    /\ h.pc = "append" /\ Reviewing(h.cmd) => ShownToken(h)

\* StateShaped and the two facts about calls are kept by every step together.
IInv ==
    /\ StateShaped
    /\ \A t \in Tasks : Sampled(call[t]) /\ Reviewed(call[t])

-----------------------------------------------------------------------------
(* Steps that leave the store alone.                                       *)

LEMMA CommandFacts ==
    ASSUME NEW c \in Commands
    PROVE  /\ c.about \in Abouts /\ c.key \in Keys
           /\ c.op \in {"ingest", "relabel"}
           /\ Reviewing(c) => c.op = "ingest" /\ ConsistentRead(c)
BY CommandAssumption DEF Ingest, Relabel, Reviewing, ConsistentRead

LEMMA IdleHolds ==
    ASSUME NEW reply
    PROVE  /\ Shaped(Idle(reply)) /\ Placed(Idle(reply))
           /\ Sampled(Idle(reply)) /\ Reviewed(Idle(reply))
           /\ Idle(reply).pc = "idle"
           /\ \A a \in Abouts : Idle(reply).sampled[a] = None /\ Idle(reply).saw[a] = None
<1> DEFINE h == Idle(reply)
<1>1. h.pc = "idle" /\ h.sampled = [a \in Abouts |-> None] /\ h.saw = [a \in Abouts |-> None]
  BY DEF Idle
<1>2. IsCall(h)
  BY DEF Idle, IsCall, Fields
<1> QED
  BY <1>1, <1>2 DEF Shaped, Placed, Sampled, Reviewed, Steps

\* A step that changes one call and nothing of the store keeps the invariant
\* if that call keeps its part.
LEMMA OneCallMoves ==
    ASSUME IInv, NEW t \in Tasks, NEW h, UNCHANGED store,
           call' = [call EXCEPT ![t] = h],
           Shaped(h), Placed(h), Sampled(h), Reviewed(h)
    PROVE  IInv'
<1>1. /\ call' = [u \in Tasks |-> call'[u]]
      /\ \A u \in Tasks : call'[u] = IF u = t THEN h ELSE call[u]
  BY DEF IInv, StateShaped
<1>2. rev' = rev /\ memory' = memory /\ accepted' = accepted
  BY DEF store
<1>3. ASSUME NEW u \in Tasks PROVE
        /\ Shaped(call[u])' /\ Placed(call[u])' /\ Sampled(call[u])' /\ Reviewed(call[u])'
  <2>1. CASE u = t
    BY <1>1, <1>2, <2>1 DEF Sampled, Reviewed, Shaped, Placed, IsCall, Fields, Comparing, ShownToken
  <2>2. CASE u # t
    <3>1. call'[u] = call[u] /\ Shaped(call[u]) /\ Placed(call[u])
          /\ Sampled(call[u]) /\ Reviewed(call[u])
      BY <1>1, <2>2 DEF IInv, StateShaped
    <3>2. Shaped(call[u])' /\ Placed(call[u])'
      BY <3>1 DEF Shaped, Placed, IsCall, Fields, Comparing
    <3>3. Sampled(call[u])'
      BY <1>2, <3>1 DEF Sampled, Comparing
    <3>4. Reviewed(call[u])'
      BY <1>2, <3>1 DEF Reviewed, ShownToken, Comparing
    <3> QED
      BY <3>2, <3>3, <3>4
  <2> QED
    BY <2>1, <2>2
<1>4. StateShaped'
  BY <1>1, <1>2, <1>3 DEF IInv, StateShaped
<1> QED
  BY <1>3, <1>4 DEF IInv
LEMMA Facts13 ==
    ASSUME IInv, NEW t \in Tasks
    PROVE  /\ Shaped(call[t]) /\ Placed(call[t]) /\ Sampled(call[t]) /\ Reviewed(call[t])
           /\ rev \in [Abouts -> Nat]
           /\ call = [u \in Tasks |-> call[u]]
BY DEF IInv, StateShaped

LEMMA SampleStep ==
    ASSUME IInv, NEW t \in Tasks, SampleRevision(t)
    PROVE  IInv'
<1> DEFINE c == call[t].cmd
           h == [call[t] EXCEPT !.sampled = [@ EXCEPT ![c.about] = rev[c.about]],
                                !.pc = IF ConsistentRead(c) THEN "read" ELSE "catalogue"]
<1>1. /\ Shaped(call[t]) /\ Placed(call[t]) /\ Sampled(call[t])
      /\ rev \in [Abouts -> Nat] /\ call[t].pc = "sample"
  BY Facts13 DEF SampleRevision
<1>2. c \in Commands /\ c.about \in Abouts /\ c.op = "ingest"
  BY <1>1, CommandFacts DEF Placed
<1>3. /\ h.pc = IF ConsistentRead(c) THEN "read" ELSE "catalogue"
      /\ h.cmd = c /\ h.saw = call[t].saw
      /\ h.sampled = [call[t].sampled EXCEPT ![c.about] = rev[c.about]]
      /\ IsCall(h)
  BY <1>1 DEF Shaped, IsCall, Fields
<1>4. call' = [call EXCEPT ![t] = h] /\ UNCHANGED store
  BY Facts13, <1>1 DEF SampleRevision
<1> HIDE DEF h
<1>5. Shaped(h) /\ Placed(h)
  BY <1>1, <1>2, <1>3 DEF Shaped, Placed, Comparing, Steps
<1>6. Sampled(h)
  BY <1>1, <1>2, <1>3 DEF Shaped, Placed, Sampled, Comparing
<1>7. Reviewed(h)
  BY <1>3 DEF Reviewed
<1> QED
  BY <1>4, <1>5, <1>6, <1>7, OneCallMoves
\* A step of a call that reads nothing and keeps its command and its token.
LEMMA LocalStep ==
    ASSUME IInv, NEW t \in Tasks, NEW h, UNCHANGED store,
           call' = [call EXCEPT ![t] = h], IsCall(h), call[t].pc # "idle",
           h.cmd = call[t].cmd, h.token = call[t].token,
           h.saw = call[t].saw, h.sampled = call[t].sampled,
           Placed(h), Reviewed(h)
    PROVE  IInv'
<1>1. Shaped(call[t]) /\ Sampled(call[t])
  BY Facts13
<1>2. Shaped(h) /\ Sampled(h)
  BY <1>1 DEF Shaped, Sampled, Comparing
<1> QED
  BY <1>2, OneCallMoves

\* An answered call stands nowhere.
LEMMA AnswerStep ==
    ASSUME IInv, NEW t \in Tasks, NEW reply, UNCHANGED store, Answer(t, reply)
    PROVE  IInv'
<1>1. call' = [call EXCEPT ![t] = Idle(reply)]
  BY DEF Answer
<1> QED
  BY <1>1, IdleHolds, OneCallMoves

\* A call that only goes on.
LEMMA GotoStep ==
    ASSUME IInv, NEW t \in Tasks, NEW s \in Steps \ {"idle"}, UNCHANGED store,
           Goto(t, s), call[t].pc # "idle",
           Placed([call[t] EXCEPT !.pc = s]), Reviewed([call[t] EXCEPT !.pc = s])
    PROVE  IInv'
<1> DEFINE h == [call[t] EXCEPT !.pc = s]
<1>1. Shaped(call[t])
  BY Facts13
<1>2. /\ IsCall(h) /\ h.cmd = call[t].cmd /\ h.token = call[t].token
      /\ h.saw = call[t].saw /\ h.sampled = call[t].sampled
  BY <1>1 DEF Shaped, IsCall, Fields
<1>3. call' = [call EXCEPT ![t] = h] /\ Placed(h) /\ Reviewed(h)
  BY Facts13 DEF Goto
<1> HIDE DEF h
<1> QED
  BY <1>2, <1>3, LocalStep

LEMMA CallStep ==
    ASSUME IInv, NEW t \in Tasks, NEW c \in Commands, Call(t, c)
    PROVE  IInv'
<1> DEFINE h == [Idle("none") EXCEPT
                    !.pc = FirstStep(c), !.cmd = c,
                    !.todo = IF c.op = "ingest" THEN Foreign(c) ELSE {},
                    !.token = IF c.op = "ingest" /\ c.review THEN shown[t] ELSE None]
<1>1. call' = [call EXCEPT ![t] = h] /\ UNCHANGED store
  BY DEF Call
<1>2. /\ h.pc = FirstStep(c) /\ h.cmd = c /\ IsCall(h)
      /\ h.sampled = [a \in Abouts |-> None] /\ h.saw = [a \in Abouts |-> None]
  BY DEF Idle, IsCall, Fields
<1> HIDE DEF h
<1>3. /\ c.op \in {"ingest", "relabel"}
      /\ FirstStep(c) = IF c.op = "relabel" THEN "existing"
                        ELSE IF ConsistentRead(c) THEN "enter" ELSE "sample"
  BY CommandFacts DEF FirstStep
<1>4. Shaped(h) /\ Placed(h)
  BY <1>2, <1>3 DEF Shaped, Placed, Comparing, Steps
<1>5. Sampled(h) /\ Reviewed(h)
  BY <1>2, <1>3, NoneAssumption DEF Sampled, Reviewed
<1> QED
  BY <1>1, <1>4, <1>5, OneCallMoves

\* Entering the guard, to read or to write.
LEMMA EnterSteps ==
    ASSUME IInv, NEW t \in Tasks, EnterRead(t) \/ EnterWrite(t)
    PROVE  IInv'
<1>1. Shaped(call[t]) /\ Placed(call[t]) /\ Reviewed(call[t])
  BY Facts13
<1>2. CASE EnterRead(t)
  <2> DEFINE h == [call[t] EXCEPT !.pc = "sample"]
  <2>1. h.pc = "sample" /\ h.cmd = call[t].cmd /\ h.saw = call[t].saw
    BY <1>1 DEF Shaped, IsCall, Fields
  <2>2. Placed(h) /\ Reviewed(h)
    BY <1>1, <1>2, <2>1 DEF EnterRead, Placed, Reviewed, Comparing, Steps
  <2>3. Goto(t, "sample") /\ UNCHANGED store /\ call[t].pc = "enter"
    BY <1>2 DEF EnterRead
  <2> QED
    BY <2>2, <2>3, GotoStep DEF Steps
<1>3. CASE EnterWrite(t)
  <2> DEFINE h == [call[t] EXCEPT !.pc = "key"]
  <2>1. /\ h.pc = "key" /\ h.cmd = call[t].cmd /\ h.saw = call[t].saw
        /\ h.token = call[t].token
    BY <1>1 DEF Shaped, IsCall, Fields
  <2>2. Goto(t, "key") /\ UNCHANGED store /\ call[t].pc = "wait"
    BY <1>3 DEF EnterWrite
  <2>3. Placed(h)
    BY <1>1, <2>1, <2>2 DEF Placed, Steps
  <2>4. Reviewed(h)
    BY <1>1, <2>1, <2>2 DEF Reviewed, ShownToken
  <2> QED
    BY <2>2, <2>3, <2>4, GotoStep DEF Steps
<1> QED
  BY <1>2, <1>3
\* A call that reads an about whole, or the entries of one it is not compared
\* on.
LEMMA ReadStep ==
    ASSUME IInv, NEW t \in Tasks, NEW a \in Abouts, NEW h,
           UNCHANGED store, call' = [call EXCEPT ![t] = h],
           IsCall(h), h.cmd = call[t].cmd, call[t].pc # "idle",
           \/ h.pc = "foreign" /\ h.cmd.op = "ingest"
           \/ h.pc = "coordinates" /\ h.cmd.op = "relabel",
           h.sampled = call[t].sampled,
           h.saw = [call[t].saw EXCEPT ![a] = h.saw[a]],
           Comparing(call[t]) => h.saw[a] = memory[a] /\ call[t].sampled[a] \in Nat
    PROVE  IInv'
<1>1. /\ Shaped(call[t]) /\ Placed(call[t]) /\ Sampled(call[t])
      /\ rev \in [Abouts -> Nat]
  BY Facts13
<1>2. Shaped(h)
  BY <1>1 DEF Shaped
<1>3. Placed(h)
  BY <1>1 DEF Placed, Steps
<1>4. Sampled(h)
  BY <1>1 DEF Shaped, Sampled, Comparing
<1>5. Reviewed(h)
  BY DEF Reviewed
<1> QED
  BY <1>2, <1>3, <1>4, <1>5, OneCallMoves

LEMMA ReadSteps ==
    ASSUME IInv, NEW t \in Tasks,
           Read(t) \/ Facts(t) \/ ReadForeign(t) \/ ReadExisting(t)
    PROVE  IInv'
<1> DEFINE g == call[t]
           c == g.cmd
<1>1. Shaped(g) /\ Placed(g) /\ g.pc # "idle"
  BY Facts13 DEF Read, Facts, ReadForeign, ReadExisting
<1>2. c \in Commands /\ c.about \in Abouts /\ IsCall(g)
  BY <1>1, CommandFacts DEF Placed, Shaped
<1>3. CASE Read(t)
  <2> DEFINE h == [g EXCEPT !.saw = [@ EXCEPT ![c.about] = memory[c.about]], !.pc = "foreign"]
  <2>1. /\ IsCall(h) /\ h.pc = "foreign" /\ h.cmd = c /\ h.sampled = g.sampled
        /\ h.saw = [g.saw EXCEPT ![c.about] = memory[c.about]]
        /\ h.saw[c.about] = memory[c.about]
    BY <1>1, <1>2 DEF IsCall, Fields, Shaped
  <2>2. call' = [call EXCEPT ![t] = h] /\ UNCHANGED store /\ g.pc = "read"
    BY <1>2, <1>3, Facts13 DEF Read
  <2>3. Comparing(g) /\ g.sampled[c.about] \in Nat
    BY <1>1, <2>2 DEF Placed
  <2> HIDE DEF h
  <2> QED
    BY <1>1, <1>2, <2>1, <2>2, <2>3, ReadStep DEF Comparing
<1>4. CASE ReadForeign(t)
  <2> DEFINE h == [g EXCEPT !.saw = [@ EXCEPT ![g.owner] = memory[g.owner]], !.pc = "foreign"]
  <2>1. call' = [call EXCEPT ![t] = h] /\ UNCHANGED store /\ g.pc = "foreign_read"
    BY <1>2, <1>4, Facts13 DEF ReadForeign
  <2>2. Comparing(g) /\ g.owner \in Abouts /\ g.sampled[g.owner] \in Nat
    BY <1>1, <2>1 DEF Placed
  <2>3. /\ IsCall(h) /\ h.pc = "foreign" /\ h.cmd = c /\ h.sampled = g.sampled
        /\ h.saw = [g.saw EXCEPT ![g.owner] = memory[g.owner]]
        /\ h.saw[g.owner] = memory[g.owner]
    BY <1>1, <1>2, <2>2 DEF IsCall, Fields, Shaped
  <2> HIDE DEF h
  <2> QED
    BY <1>1, <2>1, <2>2, <2>3, ReadStep DEF Comparing
<1>5. CASE Facts(t)
  <2> DEFINE slice == [memory[c.about] EXCEPT !.at = {}]
             top == [s \in Scopes |-> IF s \in OpenScopes(c) /\ g.top[s] = None
                                        THEN Frontier(memory[c.about], s) ELSE g.top[s]]
             h == [g EXCEPT !.saw = [@ EXCEPT ![c.about] = slice], !.top = top, !.pc = "foreign"]
  <2>2. g.pc = "facts" /\ UNCHANGED store
    BY <1>5 DEF Facts
  <2>3. call' = [call EXCEPT ![t].saw[c.about] = slice, ![t].top = top, ![t].pc = "foreign"]
    BY <1>5 DEF Facts
  <2> HIDE DEF slice, top
  <2>1. /\ IsCall(h) /\ h.pc = "foreign" /\ h.cmd = c /\ h.sampled = g.sampled
        /\ h.saw = [g.saw EXCEPT ![c.about] = slice]
        /\ h.saw[c.about] = slice
    BY <1>1, <1>2 DEF IsCall, Fields, Shaped
  <2>4. call' = [call EXCEPT ![t] = h]
    BY <1>2, <2>3, Facts13
  <2>5. c.op = "ingest" /\ ~Comparing(g)
    BY <1>1, <2>2 DEF Placed, Comparing
  <2> HIDE DEF h
  <2> QED
    BY <1>1, <1>2, <2>1, <2>2, <2>4, <2>5, ReadStep
<1>6. CASE ReadExisting(t)
  <2> DEFINE h == [g EXCEPT !.saw = [@ EXCEPT ![c.about] = memory[c.about]],
                            !.pc = "coordinates"]
  <2>1. /\ IsCall(h) /\ h.pc = "coordinates" /\ h.cmd = c /\ h.sampled = g.sampled
        /\ h.saw = [g.saw EXCEPT ![c.about] = memory[c.about]]
        /\ h.saw[c.about] = memory[c.about]
    BY <1>1, <1>2 DEF IsCall, Fields, Shaped
  <2>2. call' = [call EXCEPT ![t] = h] /\ UNCHANGED store /\ g.pc = "existing"
    BY <1>2, <1>6, Facts13 DEF ReadExisting
  <2>3. c.op = "relabel" /\ ~Comparing(g)
    BY <1>1, <2>2 DEF Placed, Comparing
  <2> HIDE DEF h
  <2> QED
    BY <1>1, <1>2, <2>1, <2>2, <2>3, ReadStep
<1> QED
  BY <1>3, <1>4, <1>5, <1>6

\* The catalogue, and a relabel's look at its entry.
LEMMA CatalogueStep ==
    ASSUME IInv, NEW t \in Tasks, Catalogue(t)
    PROVE  IInv'
<1> DEFINE g == call[t]
           c == g.cmd
           top == [s \in Scopes |-> IF s \in OpenScopes(c) THEN Cached(t, s) ELSE None]
           h == [g EXCEPT !.top = top, !.pc = "facts"]
           i == [g EXCEPT !.pc = "foreign"]
<1>1. Shaped(g) /\ Placed(g) /\ IsCall(g) /\ g.pc = "catalogue" /\ UNCHANGED store
  BY Facts13 DEF Catalogue, Shaped
<1>2. c.op = "ingest" /\ ~ConsistentRead(c) /\ c \in Commands
  BY <1>1 DEF Placed
<1>3. Goto(t, "foreign") \/ call' = [call EXCEPT ![t].top = top, ![t].pc = "facts"]
  BY DEF Catalogue
<1> HIDE DEF top
<1>4. CASE Goto(t, "foreign")
  <2>1. i.pc = "foreign" /\ i.cmd = c /\ i.sampled = g.sampled /\ i.saw = g.saw
    BY <1>1 DEF IsCall, Fields
  <2>2. Placed(i) /\ Reviewed(i)
    BY <1>2, <2>1 DEF Placed, Reviewed, Comparing, Steps
  <2> QED
    BY <1>1, <1>4, <2>2, GotoStep DEF Steps
<1>5. CASE call' = [call EXCEPT ![t].top = top, ![t].pc = "facts"]
  <2>1. /\ IsCall(h) /\ h.pc = "facts" /\ h.cmd = c /\ h.sampled = g.sampled
        /\ h.saw = g.saw /\ h.token = g.token
    BY <1>1 DEF IsCall, Fields
  <2>2. call' = [call EXCEPT ![t] = h]
    BY <1>5, Facts13
  <2> HIDE DEF h
  <2>3. Placed(h) /\ Reviewed(h)
    BY <1>2, <2>1 DEF Placed, Reviewed, Comparing, Steps
  <2> QED
    BY <1>1, <2>1, <2>2, <2>3, LocalStep
<1> QED
  BY <1>3, <1>4, <1>5
\* The endpoint of an equivalence: an about is sampled before it is first read.
LEMMA LocateStep ==
    ASSUME IInv, NEW t \in Tasks, NEW e \in Entries, Locate(t, e)
    PROVE  IInv'
<1> DEFINE g == call[t]
           c == g.cmd
           o == Owner[e]
           held == e \in memory[o].known
           first == held /\ ConsistentRead(c) /\ g.saw[o] = None
           found == g.found \cup (IF held THEN {e} ELSE {})
           todo == g.todo \ {e}
           sample == IF first THEN rev[o] ELSE g.sampled[o]
           s == IF first THEN "foreign_read" ELSE "foreign"
           h == [g EXCEPT !.todo = todo, !.found = found, !.owner = o,
                          !.sampled[o] = sample, !.pc = s]
<1>1. /\ Shaped(g) /\ Placed(g) /\ Sampled(g) /\ IsCall(g)
      /\ g.pc = "foreign" /\ UNCHANGED store /\ rev \in [Abouts -> Nat]
  BY Facts13 DEF Locate, Shaped
<1>2. c \in Commands /\ c.op = "ingest" /\ o \in Abouts
  BY <1>1, OwnerAssumption DEF Placed
<1>3. call' = [call EXCEPT ![t] = h]
  BY DEF Locate
<1>4. first => ConsistentRead(c) /\ g.saw[o] = None
  OBVIOUS
<1> HIDE DEF held, first, o
<1>5. /\ s \in {"foreign", "foreign_read"}
      /\ s = "foreign_read" => ConsistentRead(c) /\ sample = rev[o]
      /\ sample = g.sampled[o] \/ (sample = rev[o] /\ g.saw[o] = None)
  BY <1>4
<1> HIDE DEF found, todo, sample, s
<1>6. /\ IsCall(h) /\ h.pc = s /\ h.cmd = c /\ h.saw = g.saw /\ h.owner = o
      /\ h.sampled = [g.sampled EXCEPT ![o] = sample]
  BY <1>1 DEF IsCall, Fields
<1> HIDE DEF h
<1>7. Shaped(h)
  BY <1>1, <1>2, <1>5, <1>6 DEF Shaped
<1>8. Placed(h)
  BY <1>1, <1>2, <1>5, <1>6 DEF Placed, Shaped, Comparing, Steps
<1>9. Sampled(h)
  BY <1>1, <1>2, <1>5, <1>6 DEF Sampled, Shaped, Comparing
<1>10. Reviewed(h)
  BY <1>5, <1>6 DEF Reviewed
<1> QED
  BY <1>1, <1>3, <1>7, <1>8, <1>9, <1>10, OneCallMoves

\* A call that has decided has the token, or a key that was accepted.
LEMMA LeaveStep ==
    ASSUME IInv, NEW t \in Tasks, NEW plan, UNCHANGED store, Leave(t, plan),
           call[t].pc # "idle",
           Reviewing(call[t].cmd) =>
              accepted[call[t].cmd.key] # None \/ ShownToken(call[t])
    PROVE  IInv'
<1> DEFINE h == [call[t] EXCEPT !.plan = plan, !.pc = "wait"]
<1>1. IsCall(call[t]) /\ Placed(call[t])
  BY Facts13 DEF Shaped
<1>2. /\ IsCall(h) /\ h.pc = "wait" /\ h.cmd = call[t].cmd /\ h.saw = call[t].saw
      /\ h.sampled = call[t].sampled /\ h.token = call[t].token
  BY <1>1 DEF IsCall, Fields
<1>3. call' = [call EXCEPT ![t] = h]
  BY <1>1, Facts13 DEF Leave
<1> HIDE DEF h
<1>4. Placed(h) /\ Reviewed(h)
  BY <1>1, <1>2 DEF Placed, Reviewed, ShownToken, Steps
<1> QED
  BY <1>2, <1>3, <1>4, LocalStep

LEMMA TranslateSteps ==
    ASSUME IInv, NEW t \in Tasks, TranslateIngest(t) \/ TranslateRelabel(t)
    PROVE  IInv'
<1> DEFINE g == call[t]
           c == g.cmd
<1>1. IsCall(g) /\ Placed(g) /\ g.pc \in {"foreign", "relabel"} /\ UNCHANGED store
  BY Facts13 DEF Shaped, TranslateIngest, TranslateRelabel
<1>2. c \in Commands
  BY <1>1 DEF Placed
<1>3. CASE TranslateIngest(t)
  <2> DEFINE plan == IngestPlan(t)
             todo == ReadAbouts(t)
             h == [g EXCEPT !.plan = plan, !.todo = todo, !.pc = "review"]
  <2>1. \/ Answer(t, "refused")
        \/ /\ Reviewing(c)
           /\ call' = [call EXCEPT ![t].plan = plan, ![t].todo = todo, ![t].pc = "review"]
        \/ Leave(t, plan) /\ ~(Reviewing(c) /\ accepted[c.key] = None)
    BY <1>3 DEF TranslateIngest
  <2> HIDE DEF plan, todo
  <2>2. CASE /\ Reviewing(c)
             /\ call' = [call EXCEPT ![t].plan = plan, ![t].todo = todo, ![t].pc = "review"]
    <3>1. /\ IsCall(h) /\ h.pc = "review" /\ h.cmd = c /\ h.saw = g.saw
          /\ h.sampled = g.sampled /\ h.token = g.token
      BY <1>1 DEF IsCall, Fields
    <3>2. call' = [call EXCEPT ![t] = h]
      BY <1>1, <2>2, Facts13
    <3> HIDE DEF h
    <3>3. Placed(h) /\ Reviewed(h)
      BY <1>2, <2>2, <3>1, CommandFacts DEF Placed, Reviewed, Comparing, Steps
    <3> QED
      BY <1>1, <3>1, <3>2, <3>3, LocalStep
  <2> QED
    BY <1>1, <2>1, <2>2, AnswerStep, LeaveStep
<1>4. CASE TranslateRelabel(t)
  <2>1. c.op = "relabel" /\ ~Reviewing(c)
    BY <1>1, <1>4 DEF TranslateRelabel, Placed, Reviewing
  <2>2. \/ \E r \in Replies : Answer(t, r)
        \/ Leave(t, RelabelPlan(t))
    BY <1>4 DEF TranslateRelabel, Replies
  <2> QED
    BY <1>1, <2>1, <2>2, AnswerStep, LeaveStep
<1> QED
  BY <1>3, <1>4

LEMMA ReviewSteps ==
    ASSUME IInv, NEW t \in Tasks,
           Review(t) \/ \E a \in Abouts : Recheck(t, a)
    PROVE  IInv'
<1> DEFINE g == call[t]
<1>1. IsCall(g) /\ Placed(g) /\ g.pc = "review" /\ UNCHANGED store
  BY Facts13 DEF Shaped, Review, Recheck
<1>2. CASE Review(t)
  <2>1. \/ Leave(t, g.plan) /\ ShownToken(g)
        \/ Answer(t, "review")
    BY <1>2 DEF Review, ShownToken, ReadAbouts
  <2> QED
    BY <1>1, <2>1, AnswerStep, LeaveStep
<1>3. ASSUME NEW a \in Abouts, Recheck(t, a) PROVE IInv'
  <2> DEFINE todo == g.todo \ {a}
             h == [g EXCEPT !.todo = todo]
  <2>1. call' = [call EXCEPT ![t].todo = todo] \/ Answer(t, "retry")
    BY <1>3 DEF Recheck
  <2> HIDE DEF todo
  <2>2. CASE call' = [call EXCEPT ![t].todo = todo]
    <3>1. /\ IsCall(h) /\ h.pc = "review" /\ h.cmd = g.cmd /\ h.saw = g.saw
          /\ h.sampled = g.sampled /\ h.token = g.token
      BY <1>1 DEF IsCall, Fields
    <3>2. call' = [call EXCEPT ![t] = h]
      BY <1>1, <2>2, Facts13
    <3> HIDE DEF h
    <3>3. Placed(h) /\ Reviewed(h)
      BY <1>1, <3>1 DEF Placed, Reviewed, Comparing
    <3> QED
      BY <1>1, <3>1, <3>2, <3>3, LocalStep
  <2> QED
    BY <1>1, <2>1, <2>2, AnswerStep
<1> QED
  BY <1>2, <1>3

LEMMA CoordinatesStep ==
    ASSUME IInv, NEW t \in Tasks, ReadCoordinates(t)
    PROVE  IInv'
<1> DEFINE g == call[t]
           stood == Labels(memory[g.cmd.about], g.cmd.entry)
           h == [g EXCEPT !.stood = stood, !.pc = "relabel"]
<1>1. IsCall(g) /\ Placed(g) /\ g.pc = "coordinates" /\ UNCHANGED store
  BY Facts13 DEF Shaped, ReadCoordinates
<1>2. \/ call' = [call EXCEPT ![t].stood = stood, ![t].pc = "relabel"]
      \/ Answer(t, "refused")
  BY DEF ReadCoordinates
<1> HIDE DEF stood
<1>3. CASE call' = [call EXCEPT ![t].stood = stood, ![t].pc = "relabel"]
  <2>1. /\ IsCall(h) /\ h.pc = "relabel" /\ h.cmd = g.cmd /\ h.saw = g.saw
        /\ h.sampled = g.sampled /\ h.token = g.token
    BY <1>1 DEF IsCall, Fields
  <2>2. call' = [call EXCEPT ![t] = h]
    BY <1>1, <1>3, Facts13
  <2> HIDE DEF h
  <2>3. Placed(h) /\ Reviewed(h)
    BY <1>1, <2>1 DEF Placed, Reviewed, Steps
  <2> QED
    BY <1>1, <2>1, <2>2, <2>3, LocalStep
<1> QED
  BY <1>1, <1>2, <1>3, AnswerStep
LEMMA CommittedStep ==
    ASSUME IInv, NEW t \in Tasks, NEW r, NEW replayed, UNCHANGED store,
           Committed(t, r, replayed), call[t].pc = "key"
    PROVE  IInv'
<1> DEFINE done == [rev |-> r, replayed |-> replayed]
           h == [call[t] EXCEPT !.done = done, !.pc = "remember"]
<1>1. IsCall(call[t]) /\ Placed(call[t])
  BY Facts13 DEF Shaped
<1>2. call' = [call EXCEPT ![t].done = done, ![t].pc = "remember"]
  BY DEF Committed
<1> HIDE DEF done
<1>3. /\ IsCall(h) /\ h.pc = "remember" /\ h.cmd = call[t].cmd /\ h.saw = call[t].saw
      /\ h.sampled = call[t].sampled /\ h.token = call[t].token
  BY <1>1 DEF IsCall, Fields
<1>4. call' = [call EXCEPT ![t] = h]
  BY <1>1, <1>2, Facts13
<1> HIDE DEF h
<1>5. Placed(h) /\ Reviewed(h)
  BY <1>1, <1>3 DEF Placed, Reviewed, Steps
<1> QED
  BY <1>3, <1>4, <1>5, LocalStep

LEMMA KeyStep ==
    ASSUME IInv, NEW t \in Tasks, CheckKey(t)
    PROVE  IInv'
<1> DEFINE g == call[t]
           h == [g EXCEPT !.pc = "append"]
<1>1. /\ IsCall(g) /\ Placed(g) /\ Reviewed(g) /\ g.pc = "key" /\ UNCHANGED store
  BY Facts13 DEF Shaped, CheckKey
<1>2. \/ accepted[g.cmd.key] = None /\ Goto(t, "append")
      \/ Committed(t, accepted[g.cmd.key].rev, TRUE)
      \/ Answer(t, "refused")
  BY DEF CheckKey
<1>3. CASE accepted[g.cmd.key] = None /\ Goto(t, "append")
  <2>1. h.pc = "append" /\ h.cmd = g.cmd /\ h.saw = g.saw /\ h.token = g.token
    BY <1>1 DEF IsCall, Fields
  <2>2. Placed(h)
    BY <1>1, <2>1 DEF Placed, Steps
  <2>3. Reviewed(h)
    BY <1>1, <1>3, <2>1 DEF Reviewed, ShownToken
  <2> QED
    BY <1>1, <1>3, <2>2, <2>3, GotoStep DEF Steps
<1> QED
  BY <1>1, <1>2, <1>3, CommittedStep, AnswerStep

-----------------------------------------------------------------------------
(* The commit: the one step that moves the store.                          *)

LEMMA CommitFacts ==
    ASSUME IInv, NEW t \in Tasks, Commit(t), call[t].pc = "append"
    PROVE  /\ rev' \in [Abouts -> Nat] /\ memory' = [a \in Abouts |-> memory'[a]]
           /\ accepted' \in [Keys -> [cmd : Commands, rev : Nat] \cup {None}]
           /\ \A a \in Abouts : /\ rev[a] <= rev'[a]
                                /\ rev'[a] = rev[a] => memory'[a] = memory[a]
           /\ \A k \in Keys : accepted[k] # None => accepted'[k] # None
<1> DEFINE c == call[t].cmd
           slice == Applied(memory[c.about], call[t].plan)
           entry == [cmd |-> c, rev |-> rev[c.about] + 1]
<1>1. /\ Placed(call[t]) /\ rev \in [Abouts -> Nat]
      /\ memory = [a \in Abouts |-> memory[a]]
      /\ accepted \in [Keys -> [cmd : Commands, rev : Nat] \cup {None}]
  BY DEF IInv, StateShaped
<1>2. c \in Commands /\ c.about \in Abouts /\ c.key \in Keys
  BY <1>1, CommandFacts DEF Placed
<1>3. entry \in [cmd : Commands, rev : Nat] /\ entry # None
  BY <1>1, <1>2, NoneAssumption
<1>4. /\ rev' = [rev EXCEPT ![c.about] = @ + 1]
      /\ memory' = [memory EXCEPT ![c.about] = slice]
      /\ accepted' = [accepted EXCEPT ![c.key] = entry]
  BY DEF Commit
<1> HIDE DEF slice, entry
<1>5. \A a \in Abouts : /\ rev[a] <= rev'[a]
                        /\ rev'[a] = rev[a] => memory'[a] = memory[a]
  BY <1>1, <1>2, <1>4
<1>6. /\ rev' \in [Abouts -> Nat] /\ memory' = [a \in Abouts |-> memory'[a]]
  BY <1>1, <1>2, <1>4
<1>7. /\ accepted' \in [Keys -> [cmd : Commands, rev : Nat] \cup {None}]
      /\ \A k \in Keys : accepted[k] # None => accepted'[k] # None
  BY <1>1, <1>2, <1>3, <1>4
<1> QED
  BY <1>5, <1>6, <1>7

\* What a call saw at a revision still stands at it, whoever commits.
LEMMA CommitKeeps ==
    ASSUME IInv, NEW t \in Tasks, Commit(t), call[t].pc = "append",
           NEW u \in Tasks, call'[u] = call[u]
    PROVE  /\ Shaped(call[u])' /\ Placed(call[u])' /\ Sampled(call[u])' /\ Reviewed(call[u])'
<1>1. /\ Shaped(call[u]) /\ Placed(call[u]) /\ Sampled(call[u]) /\ Reviewed(call[u])
      /\ rev \in [Abouts -> Nat]
  BY Facts13
<1>2. Shaped(call[u])' /\ Placed(call[u])'
  BY <1>1 DEF Shaped, Placed, IsCall, Comparing
<1>3. Sampled(call[u])'
  <2> SUFFICES ASSUME call[u].pc # "idle", Comparing(call[u]), NEW a \in Abouts
               PROVE  /\ call[u].sampled[a] \in Nat => call[u].sampled[a] <= rev'[a]
                      /\ call[u].saw[a] # None =>
                            /\ call[u].sampled[a] \in Nat
                            /\ call[u].sampled[a] = rev'[a] => call[u].saw[a] = memory'[a]
    BY DEF Sampled, Comparing
  <2>1. rev[a] \in Nat /\ rev'[a] \in Nat /\ rev[a] <= rev'[a]
        /\ (rev'[a] = rev[a] => memory'[a] = memory[a])
    BY CommitFacts, <1>1
  <2>2. /\ call[u].sampled[a] \in Nat => call[u].sampled[a] <= rev[a]
        /\ call[u].saw[a] # None =>
              /\ call[u].sampled[a] \in Nat
              /\ call[u].sampled[a] = rev[a] => call[u].saw[a] = memory[a]
    BY <1>1 DEF Sampled
  <2> QED
    BY <2>1, <2>2
<1>4. Reviewed(call[u])'
  <2>1. call[u].pc # "idle" => call[u].cmd.key \in Keys
    BY <1>1, CommandFacts DEF Placed
  <2> QED
    BY <1>1, <2>1, CommitFacts DEF Reviewed, ShownToken
<1> QED
  BY <1>2, <1>3, <1>4

LEMMA AppendStep ==
    ASSUME IInv, NEW t \in Tasks, AppendEvent(t)
    PROVE  IInv'
<1> DEFINE g == call[t]
<1>1. g.pc = "append" /\ (Commit(t) \/ (Answer(t, "retry") /\ UNCHANGED store))
  BY Zenon DEF AppendEvent
<1>2. CASE Commit(t)
  <2> DEFINE done == [rev |-> rev[g.cmd.about] + 1, replayed |-> FALSE]
             h == [g EXCEPT !.done = done, !.pc = "remember"]
  <2>1. call' = [call EXCEPT ![t].done = done, ![t].pc = "remember"]
    BY <1>2 DEF Commit, Committed
  <2> HIDE DEF done
  <2>2. /\ Shaped(g) /\ Placed(g) /\ Sampled(g) /\ IsCall(g)
        /\ call = [u \in Tasks |-> call[u]]
    BY Facts13 DEF Shaped
  <2>3. /\ IsCall(h) /\ h.pc = "remember" /\ h.cmd = g.cmd /\ h.saw = g.saw
        /\ h.sampled = g.sampled /\ h.token = g.token
    BY <2>2 DEF IsCall, Fields
  <2>4. call' = [call EXCEPT ![t] = h]
    BY <2>1, <2>2
  <2> HIDE DEF h
  <2>5. /\ call' = [u \in Tasks |-> call'[u]]
        /\ \A u \in Tasks : call'[u] = IF u = t THEN h ELSE call[u]
    BY <2>2, <2>4
  <2>6. Shaped(call[t])' /\ Placed(call[t])' /\ Reviewed(call[t])'
    BY <1>1, <2>2, <2>3, <2>5 DEF Shaped, Placed, Reviewed, IsCall, Comparing, Steps
  <2>7. Sampled(call[t])'
    <3> SUFFICES ASSUME Comparing(g), NEW a \in Abouts
                 PROVE  /\ g.sampled[a] \in Nat => g.sampled[a] <= rev'[a]
                        /\ g.saw[a] # None =>
                              /\ g.sampled[a] \in Nat
                              /\ g.sampled[a] = rev'[a] => g.saw[a] = memory'[a]
      BY <2>3, <2>5 DEF Sampled, Comparing
    <3>1. rev[a] \in Nat /\ rev'[a] \in Nat /\ rev[a] <= rev'[a]
          /\ (rev'[a] = rev[a] => memory'[a] = memory[a])
      BY <1>1, <1>2, CommitFacts, Facts13
    <3>2. /\ g.sampled[a] \in Nat => g.sampled[a] <= rev[a]
          /\ g.saw[a] # None =>
                /\ g.sampled[a] \in Nat
                /\ g.sampled[a] = rev[a] => g.saw[a] = memory[a]
      BY <1>1, <2>2 DEF Sampled
    <3> QED
      BY <3>1, <3>2
  <2>8. ASSUME NEW u \in Tasks PROVE
          Shaped(call[u])' /\ Placed(call[u])' /\ Sampled(call[u])' /\ Reviewed(call[u])'
    BY <1>1, <1>2, <2>5, <2>6, <2>7, CommitKeeps
  <2>9. StateShaped'
    BY <1>1, <1>2, <2>5, <2>8, CommitFacts DEF StateShaped
  <2> QED
    BY <2>8, <2>9 DEF IInv
<1> QED
  BY <1>1, <1>2, AnswerStep

-----------------------------------------------------------------------------
(* The theorems.                                                           *)

LEMMA InitHolds == Init => IInv
<1> SUFFICES ASSUME Init PROVE IInv
  OBVIOUS
<1>1. /\ rev \in [Abouts -> Nat] /\ memory = [a \in Abouts |-> memory[a]]
      /\ accepted \in [Keys -> [cmd : Commands, rev : Nat] \cup {None}]
      /\ call = [t \in Tasks |-> Idle("none")]
  BY StoredAssumption DEF Init
<1> QED
  BY <1>1, IdleHolds DEF IInv, StateShaped

LEMMA NextHolds == IInv /\ [Next]_vars => IInv'
<1> SUFFICES ASSUME IInv, [Next]_vars PROVE IInv'
  OBVIOUS
<1>1. ASSUME UNCHANGED vars PROVE IInv'
  <2>1. rev' = rev /\ memory' = memory /\ accepted' = accepted /\ call' = call
    BY <1>1 DEF vars, store
  <2>2. ASSUME NEW t \in Tasks PROVE
          Shaped(call[t])' /\ Placed(call[t])' /\ Sampled(call[t])' /\ Reviewed(call[t])'
    <3>1. Shaped(call[t]) /\ Placed(call[t]) /\ Sampled(call[t]) /\ Reviewed(call[t])
      BY Facts13
    <3> QED
      BY <2>1, <3>1 DEF Shaped, Placed, Sampled, Reviewed, IsCall, Comparing, ShownToken
  <2> QED
    BY <2>1, <2>2 DEF IInv, StateShaped
<1>2. ASSUME NEW t \in Tasks, NEW c \in Commands, Call(t, c) PROVE IInv'
  BY <1>2, CallStep
<1>3. ASSUME NEW t \in Tasks, EnterRead(t) \/ EnterWrite(t) PROVE IInv'
  BY <1>3, EnterSteps
<1>4. ASSUME NEW t \in Tasks, DryRun(t) \/ Fail(t) \/ Finish(t) PROVE IInv'
  <2>1. UNCHANGED store /\ \E r \in Replies : Answer(t, r)
    BY <1>4 DEF DryRun, Fail, Finish, Replies
  <2> QED
    BY <2>1, AnswerStep
<1>5. ASSUME NEW t \in Tasks, Work(t) PROVE IInv'
  BY <1>4, <1>5, SampleStep, ReadSteps, CatalogueStep, LocateStep, TranslateSteps,
     ReviewSteps, CoordinatesStep, KeyStep, AppendStep DEF Work
<1> QED
  BY <1>1, <1>2, <1>3, <1>4, <1>5 DEF Next, Quiet

\* A call is judged on what it read: what a reviewed or attached write saw of
\* an about at the revision it compares is what the about holds while that
\* revision stands (projection_application's guard and the sampled revisions).
THEOREM Invariant == Spec => []IInv
<1>1. Init => IInv
  BY InitHolds
<1>2. IInv /\ [Next]_vars => IInv'
  BY NextHolds
<1> QED
  BY <1>1, <1>2, PTL DEF Spec

\* The neighbourhood of the store is the one a call saw, where it is equal in
\* every about the call read.
LEMMA SameNeighborhood ==
    ASSUME NEW c, NEW m, NEW n, NEW read, \A a \in read : m[a] = n[a]
    PROVE  Neighborhood(c, m, read) = Neighborhood(c, n, read)
<1>1. UNION {Bearing(c, a, m[a]) : a \in read} = UNION {Bearing(c, a, n[a]) : a \in read}
  OBVIOUS
<1>2. UNION {m[a].links : a \in read} = UNION {n[a].links : a \in read}
  OBVIOUS
<1>3. \A s : UNION {Edges(c, a, m[a], s) : a \in read}
             = UNION {Edges(c, a, n[a], s) : a \in read}
  OBVIOUS
<1> DEFINE Sources(k) == UNION {Bearing(c, a, k[a]) : a \in read}
           All(k) == UNION {k[a].links : a \in read}
           Near(k) == UNION {Edges(c, a, k[a], Sources(k)) : a \in read}
           Linked(k) == {l \in All(k) : {l[1], l[2]} \cap Sources(k) # {}}
<1>4. \A k : Neighborhood(c, k, read)
               = [cmd |-> c, sources |-> Near(k), links |-> Linked(k)]
  BY DEF Neighborhood
<1>5. Sources(m) = Sources(n) /\ All(m) = All(n)
  BY <1>1, <1>2
<1>6. Near(m) = Near(n)
  BY <1>3, <1>5
<1>7. Linked(m) = Linked(n)
  BY <1>5
<1> QED
  BY <1>4, <1>6, <1>7
\* The step of a task leaves the calls of the others where they are.
LEMMA OthersStay ==
    ASSUME IInv, NEW u \in Tasks, NEW t \in Tasks \ {u},
           \/ \E c \in Commands : Call(u, c)
           \/ EnterRead(u) \/ Work(u) \/ DryRun(u) \/ EnterWrite(u) \/ Fail(u)
    PROVE  call'[t] = call[t]
<1>0. call = [v \in Tasks |-> call[v]]
  BY Facts13
<1>1. ASSUME NEW r, Answer(u, r) PROVE call'[t] = call[t]
  BY <1>0, <1>1 DEF Answer
<1>2. ASSUME NEW s, Goto(u, s) PROVE call'[t] = call[t]
  BY <1>0, <1>2 DEF Goto
<1>3. ASSUME NEW plan, Leave(u, plan) PROVE call'[t] = call[t]
  BY <1>0, <1>3 DEF Leave
<1>4. ASSUME NEW r, NEW b, Committed(u, r, b) PROVE call'[t] = call[t]
  BY <1>0, <1>4 DEF Committed
<1>5. ASSUME NEW c \in Commands, Call(u, c) PROVE call'[t] = call[t]
  BY <1>0, <1>5 DEF Call
<1>6. CASE EnterRead(u) \/ EnterWrite(u) \/ DryRun(u) \/ Fail(u) \/ Finish(u)
  BY <1>1, <1>2, <1>6 DEF EnterRead, EnterWrite, DryRun, Fail, Finish
<1>7. CASE SampleRevision(u) \/ Read(u) \/ Facts(u) \/ ReadForeign(u) \/ ReadExisting(u)
  BY <1>0, <1>7 DEF SampleRevision, Read, Facts, ReadForeign, ReadExisting
<1>8. CASE Catalogue(u)
  BY <1>0, <1>2, <1>8 DEF Catalogue
<1>9. ASSUME NEW e \in Entries, Locate(u, e) PROVE call'[t] = call[t]
  BY <1>0, <1>9 DEF Locate
<1>10. CASE TranslateIngest(u) \/ TranslateRelabel(u)
  BY <1>0, <1>1, <1>3, <1>10 DEF TranslateIngest, TranslateRelabel
<1>11. ASSUME NEW a \in Abouts, Recheck(u, a) PROVE call'[t] = call[t]
  BY <1>0, <1>1, <1>11 DEF Recheck
<1>12. CASE Review(u) \/ ReadCoordinates(u)
  BY <1>0, <1>1, <1>3, <1>12 DEF Review, ReadCoordinates
<1>13. CASE CheckKey(u) \/ AppendEvent(u)
  BY <1>1, <1>2, <1>4, <1>13 DEF CheckKey, AppendEvent, Commit
<1> QED
  BY <1>5, <1>6, <1>7, <1>8, <1>9, <1>10, <1>11, <1>12, <1>13 DEF Work

\* Only an append whose revisions stand commits.
LEMMA CommitsStand ==
    ASSUME IInv, NEW t \in Tasks, Next, Commits(t)
    PROVE  Stands(t)
<1>1. call[t].pc = "append" /\ call'[t].pc = "remember"
  BY DEF Commits
<1>2. PICK u \in Tasks :
         \/ \E c \in Commands : Call(u, c)
         \/ EnterRead(u) \/ Work(u) \/ DryRun(u) \/ EnterWrite(u) \/ Fail(u)
  BY <1>1 DEF Next, Quiet, vars
<1>3. u = t
  BY <1>1, <1>2, OthersStay
<1>4. ASSUME NEW r, Answer(t, r) PROVE FALSE
  <2>1. call'[t] = Idle(r)
    BY <1>4, Facts13 DEF Answer
  <2> QED
    BY <1>1, <2>1, IdleHolds
<1>5. AppendEvent(t)
  <2>1. ~(\E c \in Commands : Call(t, c)) /\ ~EnterRead(t) /\ ~DryRun(t) /\ ~EnterWrite(t)
    BY <1>1 DEF Call, EnterRead, DryRun, EnterWrite
  <2>2. ~Fail(t)
    BY <1>4 DEF Fail
  <2>3. Work(t)
    BY <1>2, <1>3, <2>1, <2>2
  <2> QED
    BY <1>1, <2>3 DEF Work, SampleRevision, Read, Catalogue, Facts, Locate, ReadForeign,
       TranslateIngest, Recheck, Review, ReadExisting, ReadCoordinates, TranslateRelabel,
       CheckKey, Finish
<1> QED
  BY <1>4, <1>5 DEF AppendEvent

\* A reviewed write commits only onto the neighbourhood its writer was shown:
\* it holds the token of what it read, and what it read still stands.
THEOREM ReviewedIsAlwaysCurrent == Spec => ReviewedIsCurrent
<1> DEFINE Current(t) ==
             Commits(t) /\ Reviewing(call[t].cmd) =>
                LET read == {a \in Abouts : call[t].saw[a] # None} IN
                call[t].token = Neighborhood(call[t].cmd, memory, read)
<1>1. ASSUME IInv, Next, NEW t \in Tasks PROVE Current(t)
  <2> DEFINE g == call[t]
             read == {a \in Abouts : g.saw[a] # None}
  <2> SUFFICES ASSUME Commits(t), Reviewing(g.cmd)
               PROVE  g.token = Neighborhood(g.cmd, memory, read)
    OBVIOUS
  <2>1. /\ Placed(g) /\ Sampled(g) /\ Reviewed(g) /\ g.pc = "append"
    BY <1>1, Facts13 DEF Commits
  <2>2. g.token = Neighborhood(g.cmd, g.saw, read)
    BY <2>1 DEF Reviewed, ShownToken
  <2>3. Comparing(g)
    BY <2>1, CommandFacts DEF Placed, Comparing
  <2>4. \A a \in Abouts : g.sampled[a] \in {None, rev[a]}
    BY <1>1, <2>3, CommitsStand DEF Stands, Comparing
  <2>5. \A a \in read : g.saw[a] = memory[a]
    BY <2>1, <2>3, <2>4, NoneAssumption DEF Sampled
  <2> QED
    BY <2>2, <2>5, SameNeighborhood
<1>2. IInv /\ [Next]_vars => [\A t \in Tasks : Current(t)]_vars
  BY <1>1
<1> QED
  BY <1>2, Invariant, PTL DEF Spec, ReviewedIsCurrent
-----------------------------------------------------------------------------
(* The projection guard.                                                   *)

\* The calls that read under it, and those that write under it.
Deciding(h) == /\ h.pc \in {"sample", "read", "foreign", "foreign_read", "review"}
               /\ Comparing(h)
Writing(h) == h.pc \in {"key", "append"}

\* The guard of a process is held by these and by nobody else.
GuardInv ==
    /\ readers \in [Kernels -> SUBSET Tasks]
    /\ writer \in [Kernels -> Tasks \cup {None}]
    /\ \A k \in Kernels, t \in Tasks :
          /\ t \in readers[k] <=> Host[t] = k /\ Deciding(call[t])
          /\ writer[k] = t <=> Host[t] = k /\ Writing(call[t])
    /\ \A k \in Kernels : writer[k] = None \/ readers[k] = {}

\* A step of a call under the guard leaves it alone, one that ends there, or
\* elsewhere, drops it.
KeepsGuard(u) ==
    \/ /\ UNCHANGED guard
       /\ Deciding(call'[u]) <=> Deciding(call[u])
       /\ Writing(call'[u]) <=> Writing(call[u])
    \/ Release(u) /\ ~Deciding(call'[u]) /\ ~Writing(call'[u])

LEMMA GuardKept ==
    ASSUME IInv, GuardInv, NEW u \in Tasks, KeepsGuard(u),
           \A t \in Tasks \ {u} : call'[t] = call[t]
    PROVE  GuardInv'
<1>0. Host \in [Tasks -> Kernels] /\ None \notin Tasks
  BY HostAssumption, NoneAssumption
<1>1. \A t \in Tasks \ {u} : /\ Deciding(call'[t]) <=> Deciding(call[t])
                             /\ Writing(call'[t]) <=> Writing(call[t])
  BY DEF Deciding, Writing, Comparing
<1>2. CASE /\ UNCHANGED guard
           /\ Deciding(call'[u]) <=> Deciding(call[u])
           /\ Writing(call'[u]) <=> Writing(call[u])
  BY <1>1, <1>2 DEF guard, GuardInv
<1>3. CASE Release(u) /\ ~Deciding(call'[u]) /\ ~Writing(call'[u])
  <2>1. /\ readers' = [readers EXCEPT ![Host[u]] = @ \ {u}]
        /\ writer' = [writer EXCEPT ![Host[u]] = IF @ = u THEN None ELSE @]
    BY <1>3 DEF Release
  <2> QED
    BY <1>0, <1>1, <1>3, <2>1 DEF GuardInv
<1> QED
  BY <1>2, <1>3 DEF KeepsGuard

LEMMA EnterReadGuard ==
    ASSUME IInv, GuardInv, NEW u \in Tasks, EnterRead(u)
    PROVE  GuardInv'
<1> DEFINE k0 == Host[u]
<1>0. k0 \in Kernels /\ None \notin Tasks
  BY HostAssumption, NoneAssumption
<1>1. /\ IsCall(call[u]) /\ Placed(call[u]) /\ call[u].pc = "enter"
      /\ call = [t \in Tasks |-> call[t]]
  BY Facts13 DEF Shaped, EnterRead
<1>2. /\ call'[u].pc = "sample" /\ call'[u].cmd = call[u].cmd
      /\ \A t \in Tasks \ {u} : call'[t] = call[t]
  BY <1>1 DEF EnterRead, Goto, IsCall, Fields
<1>3. /\ Deciding(call'[u]) /\ ~Writing(call'[u]) /\ ~Writing(call[u])
      /\ \A t \in Tasks \ {u} : /\ Deciding(call'[t]) <=> Deciding(call[t])
                             /\ Writing(call'[t]) <=> Writing(call[t])
  BY <1>1, <1>2 DEF Deciding, Writing, Comparing, Placed
<1>4. /\ readers' = [readers EXCEPT ![k0] = @ \cup {u}] /\ writer' = writer
      /\ writer[k0] = None
  BY DEF EnterRead
<1>5. /\ readers' \in [Kernels -> SUBSET Tasks]
      /\ writer' \in [Kernels -> Tasks \cup {None}]
      /\ \A k \in Kernels : readers'[k] = readers[k] \cup (IF k = k0 THEN {u} ELSE {})
  BY <1>0, <1>4 DEF GuardInv
<1>6. ASSUME NEW k \in Kernels, NEW t \in Tasks
      PROVE  /\ t \in readers'[k] <=> Host[t] = k /\ Deciding(call'[t])
             /\ writer'[k] = t <=> Host[t] = k /\ Writing(call'[t])
  <2>1. /\ t \in readers[k] <=> Host[t] = k /\ Deciding(call[t])
        /\ writer[k] = t <=> Host[t] = k /\ Writing(call[t])
    BY DEF GuardInv
  <2>2. CASE t = u
    BY <1>3, <1>4, <1>5, <2>1, <2>2
  <2>3. CASE t # u
    <3>1. call'[t] = call[t]
      BY <1>2, <2>3
    <3> QED
      BY <1>0, <1>4, <1>5, <2>1, <2>3, <3>1
  <2> QED
    BY <2>2, <2>3
<1>7. \A k \in Kernels : writer'[k] = None \/ readers'[k] = {}
  BY <1>4, <1>5 DEF GuardInv
<1> QED
  BY <1>5, <1>6, <1>7 DEF GuardInv

LEMMA EnterWriteGuard ==
    ASSUME IInv, GuardInv, NEW u \in Tasks, EnterWrite(u)
    PROVE  GuardInv'
<1> DEFINE k0 == Host[u]
<1>0. k0 \in Kernels /\ None \notin Tasks
  BY HostAssumption, NoneAssumption
<1>1. /\ IsCall(call[u]) /\ Placed(call[u]) /\ call[u].pc = "wait"
      /\ call = [t \in Tasks |-> call[t]]
  BY Facts13 DEF Shaped, EnterWrite
<1>2. /\ call'[u].pc = "key" /\ call'[u].cmd = call[u].cmd
      /\ \A t \in Tasks \ {u} : call'[t] = call[t]
  BY <1>1 DEF EnterWrite, Goto, IsCall, Fields
<1>3. /\ Writing(call'[u]) /\ ~Deciding(call'[u]) /\ ~Deciding(call[u])
      /\ \A t \in Tasks \ {u} : /\ Deciding(call'[t]) <=> Deciding(call[t])
                             /\ Writing(call'[t]) <=> Writing(call[t])
  BY <1>1, <1>2 DEF Deciding, Writing, Comparing, Placed
<1>4. /\ writer' = [writer EXCEPT ![k0] = u] /\ readers' = readers
      /\ writer[k0] = None /\ readers[k0] = {}
  BY DEF EnterWrite
<1>5. /\ readers' \in [Kernels -> SUBSET Tasks]
      /\ writer' \in [Kernels -> Tasks \cup {None}]
      /\ \A k \in Kernels : writer'[k] = IF k = k0 THEN u ELSE writer[k]
  BY <1>0, <1>4 DEF GuardInv
<1>6. ASSUME NEW k \in Kernels, NEW t \in Tasks
      PROVE  /\ t \in readers'[k] <=> Host[t] = k /\ Deciding(call'[t])
             /\ writer'[k] = t <=> Host[t] = k /\ Writing(call'[t])
  <2>1. /\ t \in readers[k] <=> Host[t] = k /\ Deciding(call[t])
        /\ writer[k] = t <=> Host[t] = k /\ Writing(call[t])
    BY DEF GuardInv
  <2>2. CASE t = u
    BY <1>3, <1>4, <1>5, <2>1, <2>2
  <2>3. CASE t # u
    <3>1. call'[t] = call[t]
      BY <1>2, <2>3
    <3> QED
      BY <1>0, <1>4, <1>5, <2>1, <2>3, <3>1
  <2> QED
    BY <2>2, <2>3
<1>7. \A k \in Kernels : writer'[k] = None \/ readers'[k] = {}
  BY <1>4, <1>5 DEF GuardInv
<1> QED
  BY <1>5, <1>6, <1>7 DEF GuardInv

\* Ends of a call, and of its reading, drop the guard.
LEMMA DropsGuard ==
    ASSUME IInv, NEW u \in Tasks,
           \/ \E r : Answer(u, r)
           \/ \E plan : Leave(u, plan)
           \/ \E r, b : Committed(u, r, b)
    PROVE  KeepsGuard(u)
<1>0. IsCall(call[u]) /\ call = [t \in Tasks |-> call[t]]
  BY Facts13 DEF Shaped
<1>1. ASSUME NEW r, Answer(u, r) PROVE KeepsGuard(u)
  <2>1. call'[u].pc = "idle" /\ Release(u)
    BY <1>0, <1>1, IdleHolds DEF Answer
  <2> QED
    BY <2>1 DEF KeepsGuard, Deciding, Writing
<1>2. ASSUME NEW plan, Leave(u, plan) PROVE KeepsGuard(u)
  <2>1. call'[u].pc = "wait" /\ Release(u)
    BY <1>0, <1>2 DEF Leave, IsCall, Fields
  <2> QED
    BY <2>1 DEF KeepsGuard, Deciding, Writing
<1>3. ASSUME NEW r, NEW b, Committed(u, r, b) PROVE KeepsGuard(u)
  <2>1. call'[u].pc = "remember" /\ Release(u)
    BY <1>0, <1>3 DEF Committed, IsCall, Fields
  <2> QED
    BY <2>1 DEF KeepsGuard, Deciding, Writing
<1> QED
  BY <1>1, <1>2, <1>3
\* A call that goes on reading, or has nothing to do with the guard.
LEMMA StaysGuarded ==
    ASSUME IInv, NEW u \in Tasks, UNCHANGED guard,
           call'[u].cmd = call[u].cmd,
           \/ /\ Deciding(call[u])
              /\ call'[u].pc \in {"read", "foreign", "foreign_read", "review"}
           \/ /\ ~Comparing(call[u]) /\ ~Writing(call[u])
              /\ call'[u].pc \notin {"key", "append"}
           \/ call[u].pc = "key" /\ call'[u].pc = "append"
    PROVE  KeepsGuard(u)
BY DEF KeepsGuard, Deciding, Writing, Comparing

LEMMA CallKeepsGuard ==
    ASSUME IInv, NEW u \in Tasks, NEW c \in Commands, Call(u, c)
    PROVE  KeepsGuard(u)
<1>1. /\ call[u].pc = "idle" /\ UNCHANGED guard
      /\ call'[u].pc = FirstStep(c) /\ call'[u].cmd = c
  BY Facts13 DEF Call, Idle
<1>2. c.op \in {"ingest", "relabel"}
  BY CommandFacts
<1>3. CASE c.op = "relabel"
  BY <1>1, <1>3 DEF FirstStep, KeepsGuard, Deciding, Writing
<1>4. CASE c.op = "ingest"
  BY <1>1, <1>4 DEF FirstStep, KeepsGuard, Deciding, Writing, Comparing
<1> QED
  BY <1>2, <1>3, <1>4

LEMMA WorkKeepsGuard ==
    ASSUME IInv, NEW u \in Tasks, Work(u) \/ DryRun(u) \/ Fail(u)
    PROVE  KeepsGuard(u)
<1> DEFINE g == call[u]
<1>0. IsCall(g) /\ Placed(g) /\ call = [t \in Tasks |-> call[t]]
  BY Facts13 DEF Shaped
<1>1. CASE DryRun(u) \/ Fail(u) \/ Finish(u)
  BY <1>1, DropsGuard DEF DryRun, Fail, Finish
<1>2. CASE SampleRevision(u) \/ Read(u) \/ ReadForeign(u)
  <2>1. /\ g.pc \in {"sample", "read", "foreign_read"} /\ UNCHANGED guard /\ g.cmd.op = "ingest"
    BY <1>0, <1>2 DEF SampleRevision, Read, ReadForeign, Placed, Comparing
  <2>2. call'[u].cmd = g.cmd
    BY <1>0, <1>2 DEF SampleRevision, Read, ReadForeign, IsCall, Fields
  <2>3. /\ Comparing(g) => Deciding(g) /\ call'[u].pc \in {"read", "foreign"}
        /\ ~Comparing(g) => call'[u].pc \in {"catalogue", "foreign"}
    <3>1. CASE SampleRevision(u)
      <4>1. g.pc = "sample" /\ call'[u].pc = IF ConsistentRead(g.cmd) THEN "read" ELSE "catalogue"
        BY <1>0, <3>1 DEF SampleRevision, IsCall, Fields
      <4> QED
        BY <2>1, <4>1 DEF Deciding, Comparing
    <3>2. CASE Read(u)
      BY <1>0, <2>1, <3>2 DEF Read, IsCall, Fields, Deciding, Comparing, Placed
    <3>3. CASE ReadForeign(u)
      BY <1>0, <2>1, <3>3 DEF ReadForeign, IsCall, Fields, Deciding, Comparing, Placed
    <3> QED
      BY <1>2, <3>1, <3>2, <3>3
  <2> QED
    BY <2>1, <2>2, <2>3, StaysGuarded DEF Writing
<1>3. CASE Catalogue(u) \/ Facts(u) \/ ReadExisting(u)
  <2>1. /\ g.pc \in {"catalogue", "facts", "existing"} /\ UNCHANGED guard
        /\ ~Comparing(g) /\ ~Writing(g)
    BY <1>0, <1>3 DEF Catalogue, Facts, ReadExisting, Placed, Comparing, Writing
  <2>2. call'[u].cmd = g.cmd /\ call'[u].pc \in {"foreign", "facts", "coordinates"}
    <3> DEFINE top == [s \in Scopes |->
                         IF s \in OpenScopes(g.cmd) THEN Cached(u, s) ELSE None]
    <3>1. CASE Facts(u)
      <4> DEFINE slice == [memory[g.cmd.about] EXCEPT !.at = {}]
                 loaded == [s \in Scopes |-> IF s \in OpenScopes(g.cmd) /\ g.top[s] = None
                                             THEN Frontier(memory[g.cmd.about], s) ELSE g.top[s]]
      <4>1. call' = [call EXCEPT ![u].saw[g.cmd.about] = slice, ![u].top = loaded,
                                 ![u].pc = "foreign"]
        BY <3>1 DEF Facts
      <4> HIDE DEF slice, loaded
      <4> QED
        BY <1>0, <4>1 DEF IsCall, Fields
    <3>3. CASE ReadExisting(u)
      BY <1>0, <3>3 DEF ReadExisting, IsCall, Fields
    <3>2. CASE Catalogue(u)
      <4>1. \/ Goto(u, "foreign")
            \/ call' = [call EXCEPT ![u].top = top, ![u].pc = "facts"]
        BY <3>2 DEF Catalogue
      <4> HIDE DEF top
      <4> QED
        <5>1. CASE Goto(u, "foreign")
          BY <1>0, <5>1 DEF Goto, IsCall, Fields
        <5>2. CASE call' = [call EXCEPT ![u].top = top, ![u].pc = "facts"]
          BY <1>0, <5>2 DEF IsCall, Fields
        <5> QED
          BY <4>1, <5>1, <5>2
    <3> QED
      BY <1>3, <3>1, <3>2, <3>3
  <2> QED
    BY <2>1, <2>2, StaysGuarded
<1>4. ASSUME NEW e \in Entries, Locate(u, e) PROVE KeepsGuard(u)
  <2>1. /\ g.pc = "foreign" /\ UNCHANGED guard /\ g.cmd.op = "ingest"
    BY <1>0, <1>4 DEF Locate, Placed
  <2>2. call'[u].cmd = g.cmd /\ call'[u].pc \in {"foreign", "foreign_read"}
    BY <1>0, <1>4 DEF Locate, IsCall, Fields
  <2> QED
    BY <2>1, <2>2, StaysGuarded DEF Deciding, Comparing, Writing
<1>5. CASE TranslateIngest(u)
  <2>1. \/ Answer(u, "refused")
        \/ /\ Reviewing(g.cmd) /\ UNCHANGED guard
           /\ call' = [call EXCEPT ![u].plan = IngestPlan(u), ![u].todo = ReadAbouts(u),
                                   ![u].pc = "review"]
        \/ Leave(u, IngestPlan(u))
    BY <1>5 DEF TranslateIngest
  <2>2. CASE /\ Reviewing(g.cmd) /\ UNCHANGED guard
             /\ call' = [call EXCEPT ![u].plan = IngestPlan(u), ![u].todo = ReadAbouts(u),
                                     ![u].pc = "review"]
    <3>1. g.pc = "foreign" /\ Comparing(g)
      BY <1>0, <1>5, <2>2, CommandFacts DEF TranslateIngest, Placed, Comparing
    <3>2. call'[u].cmd = g.cmd /\ call'[u].pc = "review"
      BY <1>0, <2>2 DEF IsCall, Fields
    <3> QED
      BY <2>2, <3>1, <3>2, StaysGuarded DEF Deciding
  <2> QED
    BY <2>1, <2>2, DropsGuard
<1>6. CASE TranslateRelabel(u)
  <2>1. \/ \E r : Answer(u, r)
        \/ Leave(u, RelabelPlan(u))
    BY <1>6 DEF TranslateRelabel
  <2> QED
    BY <2>1, DropsGuard
<1>7. ASSUME NEW a \in Abouts, Recheck(u, a) PROVE KeepsGuard(u)
  <2>1. \/ UNCHANGED guard /\ call' = [call EXCEPT ![u].todo = @ \ {a}]
        \/ Answer(u, "retry")
    BY <1>7 DEF Recheck
  <2>2. g.pc = "review" /\ Deciding(g)
    BY <1>0, <1>7 DEF Recheck, Placed, Deciding
  <2>3. CASE UNCHANGED guard /\ call' = [call EXCEPT ![u].todo = @ \ {a}]
    <3>1. call'[u].cmd = g.cmd /\ call'[u].pc = "review"
      BY <1>0, <2>2, <2>3 DEF IsCall, Fields
    <3> QED
      BY <2>2, <2>3, <3>1, StaysGuarded
  <2> QED
    BY <2>1, <2>3, DropsGuard
<1>8. CASE Review(u)
  <2>1. Leave(u, g.plan) \/ Answer(u, "review")
    BY <1>8 DEF Review
  <2> QED
    BY <2>1, DropsGuard
<1>9. CASE ReadCoordinates(u)
  <2>1. \/ /\ UNCHANGED guard
           /\ call' = [call EXCEPT ![u].stood = Labels(memory[g.cmd.about], g.cmd.entry),
                                   ![u].pc = "relabel"]
        \/ Answer(u, "refused")
    BY <1>9 DEF ReadCoordinates
  <2>2. ~Comparing(g) /\ ~Writing(g)
    BY <1>0, <1>9 DEF ReadCoordinates, Placed, Comparing, Writing
  <2>3. ASSUME NEW l, UNCHANGED guard,
               call' = [call EXCEPT ![u].stood = l, ![u].pc = "relabel"]
        PROVE  KeepsGuard(u)
    <3>1. call'[u].cmd = g.cmd /\ call'[u].pc = "relabel"
      BY <1>0, <2>3 DEF IsCall, Fields
    <3> QED
      BY <2>2, <2>3, <3>1, StaysGuarded
  <2> QED
    BY <2>1, <2>3, DropsGuard
<1>10. CASE CheckKey(u)
  <2>1. \/ UNCHANGED guard /\ Goto(u, "append")
        \/ Committed(u, accepted[g.cmd.key].rev, TRUE)
        \/ Answer(u, "refused")
    BY <1>10 DEF CheckKey
  <2>2. CASE UNCHANGED guard /\ Goto(u, "append")
    <3>1. call'[u].cmd = g.cmd /\ call'[u].pc = "append" /\ g.pc = "key"
      BY <1>0, <1>10, <2>2 DEF CheckKey, Goto, IsCall, Fields
    <3> QED
      BY <2>2, <3>1, StaysGuarded
  <2> QED
    BY <2>1, <2>2, DropsGuard
<1>11. CASE AppendEvent(u)
  <2>1. Committed(u, rev[g.cmd.about] + 1, FALSE) \/ Answer(u, "retry")
    BY <1>11 DEF AppendEvent, Commit
  <2> QED
    BY <2>1, DropsGuard
<1> QED
  BY <1>1, <1>2, <1>3, <1>4, <1>5, <1>6, <1>7, <1>8, <1>9, <1>10, <1>11 DEF Work

LEMMA GuardNext == IInv /\ GuardInv /\ [Next]_vars => GuardInv'
<1> SUFFICES ASSUME IInv, GuardInv, [Next]_vars PROVE GuardInv'
  OBVIOUS
<1>1. ASSUME UNCHANGED vars PROVE GuardInv'
  BY <1>1 DEF vars, guard, GuardInv
<1>2. ASSUME NEW u \in Tasks, KeepsGuard(u),
             \/ \E c \in Commands : Call(u, c)
             \/ Work(u) \/ DryRun(u) \/ Fail(u)
      PROVE  GuardInv'
  BY <1>2, OthersStay, GuardKept
<1>3. ASSUME NEW u \in Tasks,
             \/ \E c \in Commands : Call(u, c)
             \/ Work(u) \/ DryRun(u) \/ Fail(u)
      PROVE  GuardInv'
  BY <1>2, <1>3, CallKeepsGuard, WorkKeepsGuard
<1> QED
  BY <1>1, <1>3, EnterReadGuard, EnterWriteGuard DEF Next, Quiet

LEMMA GuardHeld == Spec => []GuardInv
<1>1. Init => GuardInv
  <2> SUFFICES ASSUME Init PROVE GuardInv
    OBVIOUS
  <2>1. \A t \in Tasks : call[t].pc = "idle"
    BY IdleHolds DEF Init
  <2> QED
    BY <2>1, NoneAssumption DEF Init, GuardInv, Deciding, Writing
<1> QED
  BY <1>1, GuardNext, Invariant, PTL DEF Spec

\* No call of a process writes while another of it writes, or reads what it
\* will be compared with; and a call that waits for the guard holds none of
\* it, so no call waits for itself (service.rs drops its reading guard before
\* it takes the writing one).
THEOREM GuardIsShared ==
    Spec => [](/\ \A t, u \in Tasks :
                     t # u /\ Host[t] = Host[u] /\ Writing(call[t]) =>
                        ~Writing(call[u]) /\ ~Deciding(call[u])
               /\ \A t \in Tasks : call[t].pc \in {"enter", "wait"} =>
                     t \notin readers[Host[t]] /\ writer[Host[t]] # t)
<1> DEFINE Shared ==
             /\ \A t, u \in Tasks :
                   t # u /\ Host[t] = Host[u] /\ Writing(call[t]) =>
                      ~Writing(call[u]) /\ ~Deciding(call[u])
             /\ \A t \in Tasks : call[t].pc \in {"enter", "wait"} =>
                   t \notin readers[Host[t]] /\ writer[Host[t]] # t
<1>1. GuardInv => Shared
  <2> SUFFICES ASSUME GuardInv PROVE Shared
    OBVIOUS
  <2>1. ASSUME NEW t \in Tasks, NEW u \in Tasks, t # u, Host[t] = Host[u], Writing(call[t])
        PROVE  ~Writing(call[u]) /\ ~Deciding(call[u])
    <3>1. Host[t] \in Kernels /\ writer[Host[t]] = t /\ t # None
      BY <2>1, HostAssumption, NoneAssumption DEF GuardInv
    <3> QED
      BY <2>1, <3>1 DEF GuardInv
  <2>2. ASSUME NEW t \in Tasks, call[t].pc \in {"enter", "wait"}
        PROVE  t \notin readers[Host[t]] /\ writer[Host[t]] # t
    BY <2>2, HostAssumption DEF GuardInv, Deciding, Writing
  <2> QED
    BY <2>1, <2>2
<1> QED
  BY <1>1, GuardHeld, PTL
=============================================================================
