---------------------- MODULE ProjectionRuntimeProofs ----------------------
(***************************************************************************)
(* What the projection runtime guarantees for any number of servers, any   *)
(* stream and any number of failures.  A mutation that stands keeps        *)
(* standing whatever is written after it, so what a handler has written    *)
(* when it records an event is there whenever somebody reads the record;   *)
(* and nothing else comes into the stores, because what a server holds was *)
(* published before.                                                       *)
(***************************************************************************)
EXTENDS ProjectionRuntime, SequenceTheorems, TLAPS

Writes == [op : {"node", "edge", "detail"}, node : Nodes, target : Nodes]

\* A handler that applies has written what it counts, and one that is past
\* applying handles a recorded event.
HonestHandler(s, l) ==
    /\ loop[s][l].pc = "apply" =>
          /\ loop[s][l].msg \in Messages
          /\ loop[s][l].done \in 0 .. Len(Mutations(Event(s, l)))
          /\ \A i \in 1 .. loop[s][l].done : Stands(Mutations(Event(s, l))[i])
    /\ loop[s][l].pc \in {"checkpoint", "ack"} =>
          /\ loop[s][l].msg \in Messages
          /\ Event(s, l) \in processed

HandlersAreHonest ==
    \A s \in Servers, l \in Subjects : HonestHandler(s, l)

IInv == TypeOK /\ HandlersAreHonest /\ SettledIsApplied

-----------------------------------------------------------------------------
(* Lemmas about the stores. *)

\* The mutations of an event are a sequence of writes.
LEMMA MutationsAreWrites ==
    ASSUME NEW e \in Events
    PROVE  Mutations(e) \in Seq(Writes)
<1> DEFINE c == Content[e]
           Write(op, target) == [op |-> op, node |-> c.node, target |-> target]
           relations == [i \in DOMAIN c.related |-> Write("edge", c.related[i])]
<1>1. /\ c.kind \in {"node", "relation", "detail"}
      /\ c.node \in Nodes
      /\ c.related \in Seq(Nodes)
  BY ProjectionAssumption
<1>2. DOMAIN c.related = 1 .. Len(c.related) /\ Len(c.related) \in Nat
  BY <1>1
<1>3. \A i \in 1 .. Len(c.related) : Write("edge", c.related[i]) \in Writes
  BY <1>1 DEF Writes
<1>4. relations \in Seq(Writes)
  BY <1>2, <1>3
<1>5. <<Write("node", c.node)>> \in Seq(Writes) /\ <<Write("detail", c.node)>> \in Seq(Writes)
  BY <1>1 DEF Writes
<1>6. <<Write("node", c.node)>> \o relations \in Seq(Writes)
  BY <1>4, <1>5, ConcatProperties
<1>7. \/ c.kind = "node" /\ Mutations(e) = <<Write("node", c.node)>> \o relations
      \/ c.kind = "relation" /\ Mutations(e) = relations
      \/ c.kind = "detail" /\ Mutations(e) = <<Write("detail", c.node)>>
  BY <1>1 DEF Mutations
<1> QED
  BY <1>4, <1>5, <1>6, <1>7

\* A write leaves the stores typed, stands, and leaves standing what stood.
LEMMA WritesStand ==
    ASSUME TypeOK, NEW e \in Events, NEW w \in Writes, Perform(w, e)
    PROVE  /\ nodes' \in [Nodes -> Events \cup {Placeholder, Absent}]
           /\ edges' \in [Pairs -> Events \cup {Absent}]
           /\ details' \in [Nodes -> Events \cup {Absent}]
           /\ Stands(w)'
           /\ \A v \in Writes : Stands(v) => Stands(v)'
           /\ \A n \in Nodes : nodes[n] \in Events => nodes'[n] \in Events
<1>0. /\ Absent \notin Events /\ Placeholder \notin Events /\ Absent # Placeholder
      /\ w.node \in Nodes /\ w.target \in Nodes
      /\ <<w.node, w.target>> \in Pairs
  BY ProjectionAssumption DEF Writes, Pairs
<1>1. CASE w.op = "node"
  <2>1. nodes' = [nodes EXCEPT ![w.node] = e] /\ edges' = edges /\ details' = details
    BY <1>1 DEF Perform
  <2>2. \A n \in Nodes : nodes[n] # Absent => nodes'[n] # Absent
    BY <2>1, <1>0 DEF TypeOK
  <2>3. \A n \in Nodes : nodes[n] \in Events => nodes'[n] \in Events
    BY <2>1, <1>0 DEF TypeOK
  <2>4. Stands(w)'
    BY <2>1, <1>0, <1>1 DEF TypeOK, Stands
  <2>5. ASSUME NEW v \in Writes, Stands(v) PROVE Stands(v)'
    BY <2>1, <2>2, <2>3, <2>5 DEF Stands, Writes
  <2> QED
    BY <2>1, <2>3, <2>4, <2>5, <1>0 DEF TypeOK
<1>2. CASE w.op = "edge"
  <2>1. /\ nodes' = [n \in Nodes |-> IF n \in {w.node, w.target}
                                        THEN Named(n) ELSE nodes[n]]
        /\ edges' = [edges EXCEPT ![<<w.node, w.target>>] = e]
        /\ details' = details
    BY <1>2 DEF Perform
  <2>2. \A n \in Nodes : /\ nodes'[n] \in {nodes[n], Named(n)}
                         /\ n \in {w.node, w.target} => nodes'[n] = Named(n)
    BY <2>1
  <2>3. \A n \in Nodes : /\ Named(n) \in Events \cup {Placeholder}
                         /\ nodes[n] # Absent => Named(n) = nodes[n]
    BY <1>0 DEF Named, TypeOK
  <2>4. \A p \in Pairs : edges'[p] = IF p = <<w.node, w.target>> THEN e ELSE edges[p]
    BY <2>1, <1>0 DEF TypeOK
  <2>5. Stands(w)'
    BY <2>2, <2>3, <2>4, <1>0, <1>2 DEF Stands
  <2>6. ASSUME NEW v \in Writes, Stands(v) PROVE Stands(v)'
    <3>1. v.node \in Nodes /\ v.target \in Nodes /\ <<v.node, v.target>> \in Pairs
      BY DEF Writes, Pairs
    <3> QED
      BY <2>1, <2>2, <2>3, <2>4, <2>6, <3>1, <1>0 DEF Stands
  <2>7. \A n \in Nodes : nodes[n] \in Events => nodes'[n] \in Events
    BY <2>2, <2>3, <1>0
  <2>8. /\ nodes' \in [Nodes -> Events \cup {Placeholder, Absent}]
        /\ edges' \in [Pairs -> Events \cup {Absent}]
    BY <2>1, <2>3, <1>0 DEF TypeOK
  <2> QED
    BY <2>1, <2>5, <2>6, <2>7, <2>8 DEF TypeOK
<1>3. CASE w.op = "detail"
  <2>1. nodes' = nodes /\ edges' = edges /\ details' = [details EXCEPT ![w.node] = e]
    BY <1>3 DEF Perform
  <2>2. \A n \in Nodes : details[n] \in Events => details'[n] \in Events
    BY <2>1, <1>0 DEF TypeOK
  <2>3. Stands(w)'
    BY <2>1, <1>0, <1>3 DEF TypeOK, Stands
  <2>4. ASSUME NEW v \in Writes, Stands(v) PROVE Stands(v)'
    BY <2>1, <2>2, <2>4 DEF Stands, Writes
  <2> QED
    BY <2>1, <2>3, <2>4, <1>0 DEF TypeOK
<1> QED
  BY <1>1, <1>2, <1>3 DEF Writes

\* The writes of an event all stand when the counted ones are all of them.
LEMMA WholeIsApplied ==
    ASSUME NEW e \in Events,
           \A i \in 1 .. Len(Mutations(e)) : Stands(Mutations(e)[i])
    PROVE  Applied(e)
BY MutationsAreWrites DEF Applied

\* What is applied stays applied when every standing write stays.
LEMMA AppliedStays ==
    ASSUME NEW e \in Events, Applied(e),
           \A v \in Writes : Stands(v) => Stands(v)'
    PROVE  Applied(e)'
<1>1. \A i \in DOMAIN Mutations(e) : Mutations(e)[i] \in Writes
  BY MutationsAreWrites
<1> QED
  BY <1>1 DEF Applied, Mutations

-----------------------------------------------------------------------------
(* Type correctness. *)

Handler == [pc : {"idle", "apply", "checkpoint", "ack"},
            msg : Messages \cup {NoMessage}, done : Nat]

\* A handler put in place of another leaves the rest as they were.
LEMMA OneHandlerMoves ==
    ASSUME loop \in [Servers -> [Subjects -> Handler]],
           NEW s \in Servers, NEW l \in Subjects, NEW h \in Handler,
           loop' = [loop EXCEPT ![s][l] = h]
    PROVE  /\ loop' \in [Servers -> [Subjects -> Handler]]
           /\ \A t \in Servers, k \in Subjects :
                 loop'[t][k] = IF t = s /\ k = l THEN h ELSE loop[t][k]
OBVIOUS

\* The same of the fetched messages.
LEMMA OneInboxMoves ==
    ASSUME inbox \in [Servers -> [Subjects -> Seq(Messages)]],
           NEW s \in Servers, NEW l \in Subjects, NEW q \in Seq(Messages),
           inbox' = [inbox EXCEPT ![s][l] = q]
    PROVE  inbox' \in [Servers -> [Subjects -> Seq(Messages)]]
OBVIOUS

\* A server that ends leaves idle handlers and no fetched messages.
LEMMA DownIsTyped ==
    ASSUME TypeOK, NEW s \in Servers, Down(s)
    PROVE  /\ loop' \in [Servers -> [Subjects -> Handler]]
           /\ \A t \in Servers, k \in Subjects : loop'[t][k] \in {loop[t][k], Idle}
           /\ inbox' \in [Servers -> [Subjects -> Seq(Messages)]]
           /\ up' \subseteq Servers
           /\ UNCHANGED <<stream, graph, processed>>
<1>1. Idle \in Handler
  BY DEF Idle, Handler
<1>2. loop \in [Servers -> [Subjects -> Handler]]
  BY DEF TypeOK, Handler
<1>3. loop' = [loop EXCEPT ![s] = [k \in Subjects |-> Idle]]
  BY DEF Down
<1>4. inbox' = [inbox EXCEPT ![s] = [k \in Subjects |-> <<>>]]
  BY DEF Down
<1>5. [k \in Subjects |-> <<>>] \in [Subjects -> Seq(Messages)]
  OBVIOUS
<1> QED
  BY <1>1, <1>2, <1>3, <1>4, <1>5 DEF Down, TypeOK

\* The handler that a step of loop l of server s leaves.
LEMMA LoopIsTyped ==
    ASSUME TypeOK, NEW s \in Servers, NEW l \in Subjects,
           Loop(s, l), ~Reject(s, l)
    PROVE  \E h \in Handler : loop' = [loop EXCEPT ![s][l] = h]
<1>0. loop[s][l] \in Handler /\ inbox[s][l] \in Seq(Messages)
  BY DEF TypeOK, Handler
<1>1. CASE Take(s, l)
  <2>1. Head(inbox[s][l]) \in Messages
    BY <1>0, <1>1 DEF Take
  <2>2. \A pc \in {"ack", "apply"} :
            [pc |-> pc, msg |-> Head(inbox[s][l]), done |-> 0] \in Handler
    BY <2>1 DEF Handler
  <2> QED
    BY <2>2, <1>1 DEF Take
<1>2. CASE Apply(s, l)
  <2>1. [loop[s][l] EXCEPT !.done = @ + 1] \in Handler
    BY <1>0 DEF Handler
  <2>2. loop' = [loop EXCEPT ![s][l] = [loop[s][l] EXCEPT !.done = @ + 1]]
    BY <1>2 DEF Apply
  <2> QED
    BY <2>1, <2>2
<1>3. CASE RecordProcessed(s, l) \/ SaveCheckpoint(s, l)
  <2>1. \A pc \in {"checkpoint", "ack"} :
            [loop[s][l] EXCEPT !.pc = pc, !.done = 0] \in Handler
    BY <1>0 DEF Handler
  <2>2. \E pc \in {"checkpoint", "ack"} :
            loop' = [loop EXCEPT ![s][l] = [loop[s][l] EXCEPT !.pc = pc, !.done = 0]]
    BY <1>3 DEF RecordProcessed, SaveCheckpoint, Goto
  <2> QED
    BY <2>1, <2>2
<1>4. CASE Ack(s, l)
  BY <1>4 DEF Ack, Idle, Handler
<1> QED
  BY <1>1, <1>2, <1>3, <1>4 DEF Loop

\* A step outside the handlers: what they hold is kept or dropped, the stores
\* and the records stay, and nothing is acknowledged.
Aside ==
    /\ \A t \in Servers, k \in Subjects : loop'[t][k] \in {loop[t][k], Idle}
    /\ UNCHANGED <<graph, processed>>
    /\ \A m \in Messages : delivery'[m] = "acked" => delivery[m] = "acked"

\* The steps of Next that are such steps keep the types too.
LEMMA AsideSteps ==
    ASSUME TypeOK,
           \/ \E m \in Messages : Publish(m) \/ Expire(m)
           \/ \E s \in Servers, l \in Subjects :
                   \/ Reject(s, l) \/ Break(s, l) \/ LoseAck(s, l)
                   \/ \E m \in Messages : Fetch(s, l, m)
           \/ \E s \in Servers : Crash(s) \/ Restart(s)
    PROVE  TypeOK' /\ Aside
<1>0. /\ Messages = 1 .. Len(EventOf) /\ Len(EventOf) \in Nat
      /\ MaxFailures \in Nat
  BY ProjectionAssumption DEF Messages
<1>1. ASSUME NEW m \in Messages, Publish(m) PROVE TypeOK' /\ Aside
  BY <1>0, <1>1 DEF Publish, TypeOK, Aside, graph
<1>2. ASSUME NEW m \in Messages, Expire(m) PROVE TypeOK' /\ Aside
  <2>1. failures' \in 0 .. MaxFailures
    BY <1>0, <1>2 DEF Expire, TypeOK
  <2> QED
    BY <1>2, <2>1 DEF Expire, TypeOK, Aside, graph
<1>3. ASSUME NEW s \in Servers, NEW l \in Subjects, NEW m \in Messages, Fetch(s, l, m)
      PROVE  TypeOK' /\ Aside
  <2>1. Append(inbox[s][l], m) \in Seq(Messages)
    BY DEF TypeOK
  <2>2. inbox' = [inbox EXCEPT ![s][l] = Append(inbox[s][l], m)]
    BY <1>3 DEF Fetch
  <2>3. inbox' \in [Servers -> [Subjects -> Seq(Messages)]]
    BY <2>1, <2>2, OneInboxMoves DEF TypeOK
  <2> QED
    BY <1>3, <2>3 DEF Fetch, TypeOK, Aside, graph
<1>4. ASSUME NEW m \in Messages, Nak(m)
      PROVE  /\ delivery' \in [Messages -> {"absent", "new", "held", "due", "acked"}]
             /\ \A n \in Messages : delivery'[n] = "acked" => delivery[n] = "acked"
  BY <1>4 DEF Nak, TypeOK
<1>5. ASSUME NEW s \in Servers, Down(s), failures' \in 0 .. MaxFailures,
             \/ UNCHANGED delivery
             \/ \E m \in Messages : Nak(m)
             \/ \E m : m \notin Messages /\ Nak(m)
      PROVE  TypeOK' /\ Aside
  <2>1. /\ delivery' \in [Messages -> {"absent", "new", "held", "due", "acked"}]
        /\ \A n \in Messages : delivery'[n] = "acked" => delivery[n] = "acked"
    <3>1. CASE UNCHANGED delivery
      BY <3>1 DEF TypeOK
    <3>2. CASE \E m \in Messages : Nak(m)
      BY <3>2, <1>4
    <3>3. CASE \E m : m \notin Messages /\ Nak(m)
      BY <3>3 DEF Nak, TypeOK
    <3> QED
      BY <1>5, <3>1, <3>2, <3>3
  <2> QED
    BY <1>5, <2>1, DownIsTyped DEF TypeOK, Handler, Aside, graph
<1>6. ASSUME NEW s \in Servers, NEW l \in Subjects, Reject(s, l)
      PROVE  TypeOK' /\ Aside
  <2>1. failures' \in 0 .. MaxFailures
    BY <1>6 DEF Reject, TypeOK
  <2> QED
    BY <1>5, <1>6, <2>1 DEF Reject
<1>7. ASSUME NEW s \in Servers, NEW l \in Subjects, Break(s, l)
      PROVE  TypeOK' /\ Aside
  <2>1. failures' \in 0 .. MaxFailures
    BY <1>0, <1>7 DEF Break, TypeOK
  <2> QED
    BY <1>5, <1>7, <2>1 DEF Break
<1>8. ASSUME NEW s \in Servers, Crash(s) PROVE TypeOK' /\ Aside
  <2>1. failures' \in 0 .. MaxFailures
    BY <1>0, <1>8 DEF Crash, TypeOK
  <2> QED
    BY <1>5, <1>8, <2>1 DEF Crash
<1>9. ASSUME NEW s \in Servers, Restart(s) PROVE TypeOK' /\ Aside
  BY <1>9 DEF Restart, TypeOK, Aside, graph
<1>10. ASSUME NEW s \in Servers, NEW l \in Subjects, LoseAck(s, l)
       PROVE  TypeOK' /\ Aside
  <2>1. Idle \in Handler
    BY DEF Idle, Handler
  <2>2. failures' \in 0 .. MaxFailures
    BY <1>0, <1>10 DEF LoseAck, TypeOK
  <2>3. loop' = [loop EXCEPT ![s][l] = Idle] /\ UNCHANGED <<stream, delivery, inbox, up, graph, processed>>
    BY <1>10 DEF LoseAck
  <2> HIDE DEF Idle
  <2>4. /\ loop' \in [Servers -> [Subjects -> Handler]]
        /\ \A t \in Servers, k \in Subjects : loop'[t][k] \in {loop[t][k], Idle}
    BY <2>1, <2>3 DEF TypeOK, Handler
  <2> QED
    BY <2>2, <2>3, <2>4 DEF TypeOK, Aside, Handler, graph
<1> QED
  BY <1>1, <1>2, <1>3, <1>6, <1>7, <1>8, <1>9, <1>10

-----------------------------------------------------------------------------
(* The invariant. *)

LEMMA InitHolds == Init => IInv
<1> SUFFICES ASSUME Init PROVE IInv
  OBVIOUS
<1>1. Len(EventOf) \in Nat /\ MaxFailures \in Nat
  BY ProjectionAssumption
<1>2. Idle \in Handler /\ Idle.pc = "idle"
  BY DEF Idle, Handler
<1>3. TypeOK
  <2>1. loop \in [Servers -> [Subjects -> Handler]]
    BY <1>2 DEF Init
  <2>2. inbox \in [Servers -> [Subjects -> Seq(Messages)]]
    BY DEF Init
  <2> QED
    BY <1>1, <2>1, <2>2 DEF Init, TypeOK, Handler
<1>4. HandlersAreHonest
  BY <1>2 DEF Init, HandlersAreHonest, HonestHandler
<1>5. SettledIsApplied
  BY DEF Init, SettledIsApplied
<1> QED
  BY <1>3, <1>4, <1>5 DEF IInv

\* A step aside disturbs neither what handlers count nor what is settled.
LEMMA AsideIsHarmless ==
    ASSUME IInv, TypeOK', Aside
    PROVE  IInv'
<1>1. \A e \in Events : Applied(e) => Applied(e)'
  BY DEF Applied, Stands, Aside, graph
<1>2. \A w : Stands(w) => Stands(w)'
  BY DEF Stands, Aside, graph
<1>3. SettledIsApplied'
  BY <1>1 DEF IInv, TypeOK, SettledIsApplied, Aside
<1>4. ASSUME NEW t \in Servers, NEW k \in Subjects, loop'[t][k] = loop[t][k]
      PROVE  HonestHandler(t, k)'
  <2>1. Mutations(Event(t, k))' = Mutations(Event(t, k))
    BY <1>4 DEF Event, Mutations
  <2>2. HonestHandler(t, k)
    BY DEF IInv, HandlersAreHonest
  <2> QED
    BY <1>2, <1>4, <2>1, <2>2 DEF HonestHandler, Event, Aside
<1>5. Idle.pc = "idle"
  BY DEF Idle
<1>6. HandlersAreHonest'
  BY <1>4, <1>5 DEF HandlersAreHonest, HonestHandler, Aside, Event
<1> QED
  BY <1>3, <1>6 DEF IInv

\* The steps of a loop.
LEMMA LoopSteps ==
    ASSUME IInv, NEW s \in Servers, NEW l \in Subjects, Loop(s, l), ~Reject(s, l)
    PROVE  /\ IInv'
           /\ \A n \in Nodes : nodes[n] \in Events => nodes'[n] \in Events
<1> USE DEF Messages
<1>1. PICK h \in Handler : loop' = [loop EXCEPT ![s][l] = h]
  BY LoopIsTyped DEF IInv
<1>2. /\ loop \in [Servers -> [Subjects -> Handler]]
      /\ loop' \in [Servers -> [Subjects -> Handler]]
      /\ \A t \in Servers, k \in Subjects :
            loop'[t][k] = IF t = s /\ k = l THEN h ELSE loop[t][k]
  BY <1>1, OneHandlerMoves, SMTT(30) DEF IInv, TypeOK, Handler
<1>3. HonestHandler(s, l) /\ TypeOK /\ HandlersAreHonest /\ SettledIsApplied
  BY DEF IInv, HandlersAreHonest
<1>4. inbox' \in [Servers -> [Subjects -> Seq(Messages)]]
  <2>1. CASE Take(s, l)
    <3>1. Tail(inbox[s][l]) \in Seq(Messages)
      <4>1. inbox[s][l] \in Seq(Messages) /\ inbox[s][l] # <<>>
        BY <1>3, <2>1 DEF TypeOK, Take
      <4> QED
        BY <4>1, HeadTailProperties
    <3>2. inbox' = [inbox EXCEPT ![s][l] = Tail(inbox[s][l])]
      BY <2>1 DEF Take
    <3> QED
      BY <1>3, <3>1, <3>2, OneInboxMoves DEF TypeOK
  <2>2. CASE UNCHANGED inbox
    BY <1>3, <2>2 DEF TypeOK
  <2> QED
    BY <2>1, <2>2 DEF Loop, Apply, RecordProcessed, SaveCheckpoint, Ack
\* What every step but Apply leaves of the stores, and what that keeps.
<1>5. ASSUME UNCHANGED graph
      PROVE  /\ \A w : Stands(w) => Stands(w)'
             /\ \A e \in Events : Applied(e) => Applied(e)'
  BY <1>5 DEF Stands, Applied, graph
<1>6. ASSUME \A w \in Writes : Stands(w) => Stands(w)', processed \subseteq processed',
             HonestHandler(s, l)'
      PROVE  HandlersAreHonest'
  <2>1. ASSUME NEW t \in Servers, NEW k \in Subjects, ~(t = s /\ k = l)
        PROVE  HonestHandler(t, k)'
    <3>1. loop'[t][k] = loop[t][k] /\ HonestHandler(t, k)
      BY <1>2, <1>3, <2>1 DEF HandlersAreHonest
    <3>2. Event(t, k)' = Event(t, k) /\ Mutations(Event(t, k))' = Mutations(Event(t, k))
      BY <3>1 DEF Event, Mutations
    <3>3. ASSUME loop[t][k].pc = "apply", NEW i \in 1 .. loop[t][k].done
          PROVE  Stands(Mutations(Event(t, k))[i])'
      <4>1. Event(t, k) \in Events
        BY <3>1, <3>3, ProjectionAssumption DEF HonestHandler, Event
      <4>2. Mutations(Event(t, k)) \in Seq(Writes) /\ i \in 1 .. Len(Mutations(Event(t, k)))
        BY <3>1, <3>3, <4>1, MutationsAreWrites DEF HonestHandler
      <4>3. Mutations(Event(t, k))[i] \in Writes
        BY <4>2
      <4> QED
        BY <1>6, <3>1, <3>2, <3>3, <4>3 DEF HonestHandler
    <3> QED
      BY <1>6, <3>1, <3>2, <3>3 DEF HonestHandler
  <2> QED
    BY <1>6, <2>1 DEF HandlersAreHonest
<1>7. CASE Take(s, l)
  <2>1. UNCHANGED <<graph, processed, delivery, stream, up, failures>>
    BY <1>7 DEF Take
  <2>2. Head(inbox[s][l]) \in Messages
    BY <1>3, <1>7 DEF Take, TypeOK
  <2>3. /\ h.msg = Head(inbox[s][l]) /\ h.done = 0
        /\ h.pc \in {"apply", "ack"}
        /\ h.pc = "ack" => EventOf[h.msg] \in processed
    <3> PICK m \in Messages : m = Head(inbox[s][l])
      BY <2>2
    <3>1. \/ EventOf[m] \in processed /\ h = [pc |-> "ack", msg |-> m, done |-> 0]
          \/ h = [pc |-> "apply", msg |-> m, done |-> 0]
      <4>1. \/ EventOf[m] \in processed /\ loop'[s][l] = [pc |-> "ack", msg |-> m, done |-> 0]
            \/ loop'[s][l] = [pc |-> "apply", msg |-> m, done |-> 0]
        BY <1>2, <1>7 DEF Take
      <4> QED
        BY <1>2, <4>1
    <3> QED
      BY <3>1
  <2>4. Len(Mutations(EventOf[h.msg])) \in Nat
    BY <2>2, <2>3, MutationsAreWrites, ProjectionAssumption
  <2>5. HonestHandler(s, l)'
    <3>1. Event(s, l)' = EventOf[h.msg] /\ loop'[s][l] = h
      BY <1>2 DEF Event
    <3>2. Mutations(Event(s, l))' = Mutations(EventOf[h.msg])
      BY <3>1 DEF Mutations
    <3> QED
      BY <2>1, <2>2, <2>3, <2>4, <3>1, <3>2 DEF HonestHandler
  <2>6. HandlersAreHonest'
    BY <1>5, <1>6, <2>1, <2>5
  <2>7. SettledIsApplied'
    BY <1>3, <1>5, <2>1 DEF SettledIsApplied, TypeOK
  <2>8. TypeOK'
    BY <1>2, <1>3, <1>4, <2>1 DEF TypeOK, Handler, graph
  <2> QED
    BY <2>1, <2>6, <2>7, <2>8 DEF IInv, graph
<1>8. CASE Apply(s, l)
  <2>0. Event(s, l) \in Events /\ loop[s][l].done \in Nat
    BY <1>3, <1>8, ProjectionAssumption DEF Apply, At, HonestHandler, Event, TypeOK
  <2> PICK e \in Events, d \in Nat : e = Event(s, l) /\ d = loop[s][l].done
    BY <2>0
  <2> DEFINE w == Mutations(e)[d + 1]
  <2>1. /\ loop[s][l].pc = "apply" /\ loop[s][l].msg \in Messages
        /\ d # Len(Mutations(e)) /\ d \in 0 .. Len(Mutations(e))
        /\ \A i \in 1 .. d : Stands(Mutations(e)[i])
    BY <1>3, <1>8 DEF Apply, At, AllDone, HonestHandler
  <2>2. Mutations(e) \in Seq(Writes)
    BY MutationsAreWrites
  <2>3. w \in Writes
    BY <2>1, <2>2
  <2>4. Perform(w, e) /\ UNCHANGED <<stream, delivery, inbox, up, processed, failures>>
    BY <1>8 DEF Apply
  <2>5. /\ nodes' \in [Nodes -> Events \cup {Placeholder, Absent}]
        /\ edges' \in [Pairs -> Events \cup {Absent}]
        /\ details' \in [Nodes -> Events \cup {Absent}]
        /\ Stands(w)'
        /\ \A v \in Writes : Stands(v) => Stands(v)'
        /\ \A n \in Nodes : nodes[n] \in Events => nodes'[n] \in Events
    BY <1>3, <2>2, <2>3, <2>4, WritesStand
  <2>6. HonestHandler(s, l)'
    <3>1. loop'[s][l] = [loop[s][l] EXCEPT !.done = @ + 1]
      BY <1>2, <1>8 DEF Apply
    <3>2. /\ loop'[s][l].pc = "apply" /\ loop'[s][l].msg = loop[s][l].msg
          /\ loop'[s][l].done = d + 1
      BY <1>2, <2>1, <3>1 DEF Handler
    <3>3. Event(s, l)' = e
      BY <3>2 DEF Event
    <3>4. ASSUME NEW i \in 1 .. (d + 1) PROVE Stands(Mutations(e)[i])'
      <4>1. CASE i = d + 1
        BY <2>5, <4>1
      <4>2. CASE i \in 1 .. d
        <5>1. Stands(Mutations(e)[i]) /\ Mutations(e)[i] \in Writes
          BY <2>1, <2>2, <4>2
        <5> QED
          BY <2>5, <5>1
      <4> QED
        BY <4>1, <4>2
    <3>5. d + 1 \in 0 .. Len(Mutations(e))
      BY <2>1, <2>2
    <3> QED
      BY <2>1, <3>2, <3>3, <3>4, <3>5 DEF HonestHandler
  <2>7. HandlersAreHonest'
    BY <1>6, <2>4, <2>5, <2>6
  <2>8. SettledIsApplied'
    BY <1>3, <2>4, <2>5, AppliedStays DEF SettledIsApplied, TypeOK
  <2>9. TypeOK'
    BY <1>2, <1>3, <1>4, <2>4, <2>5 DEF TypeOK, Handler
  <2> QED
    BY <2>5, <2>7, <2>8, <2>9 DEF IInv
<1>9. CASE RecordProcessed(s, l)
  <2>1. /\ loop[s][l].pc = "apply" /\ loop[s][l].msg \in Messages
        /\ loop[s][l].done = Len(Mutations(Event(s, l)))
        /\ \A i \in 1 .. loop[s][l].done : Stands(Mutations(Event(s, l))[i])
        /\ processed' = processed \cup {Event(s, l)}
        /\ UNCHANGED <<stream, delivery, inbox, up, graph, failures>>
    BY <1>3, <1>9 DEF RecordProcessed, At, AllDone, HonestHandler
  <2>2. Event(s, l) \in Events
    BY <2>1, ProjectionAssumption DEF Event
  <2>3. Applied(Event(s, l))
    BY <2>1, <2>2, WholeIsApplied
  <2>4. loop'[s][l] = [loop[s][l] EXCEPT !.pc = "checkpoint", !.done = 0]
    BY <1>2, <1>9 DEF RecordProcessed, Goto
  <2>5. loop'[s][l].pc = "checkpoint" /\ loop'[s][l].msg = loop[s][l].msg
    BY <1>2, <2>4 DEF Handler
  <2>6. HonestHandler(s, l)'
    BY <2>1, <2>5 DEF HonestHandler, Event
  <2>7. HandlersAreHonest'
    BY <1>5, <1>6, <2>1, <2>6
  <2>8. SettledIsApplied'
    <3>1. ASSUME NEW x \in processed' PROVE Applied(x)'
      BY <1>3, <1>5, <2>1, <2>2, <2>3, <3>1 DEF SettledIsApplied, TypeOK
    <3> QED
      BY <1>3, <2>1, <3>1 DEF SettledIsApplied
  <2>9. TypeOK'
    BY <1>2, <1>3, <1>4, <2>1, <2>2 DEF TypeOK, Handler, graph
  <2> QED
    BY <2>1, <2>7, <2>8, <2>9 DEF IInv, graph
<1>10. CASE SaveCheckpoint(s, l)
  <2>1. /\ loop[s][l].pc = "checkpoint"
        /\ UNCHANGED <<stream, delivery, inbox, up, graph, processed, failures>>
    BY <1>10 DEF SaveCheckpoint, At
  <2>2. loop'[s][l] = [loop[s][l] EXCEPT !.pc = "ack", !.done = 0]
    BY <1>2, <1>10 DEF SaveCheckpoint, Goto
  <2>3. loop'[s][l].pc = "ack" /\ loop'[s][l].msg = loop[s][l].msg
    BY <1>2, <2>2 DEF Handler
  <2>4. HonestHandler(s, l)'
    BY <1>3, <2>1, <2>3 DEF HonestHandler, Event
  <2>5. HandlersAreHonest'
    BY <1>5, <1>6, <2>1, <2>4
  <2>6. SettledIsApplied'
    BY <1>3, <1>5, <2>1 DEF SettledIsApplied, TypeOK
  <2>7. TypeOK'
    BY <1>2, <1>3, <1>4, <2>1 DEF TypeOK, Handler, graph
  <2> QED
    BY <2>1, <2>5, <2>6, <2>7 DEF IInv, graph
<1>11. CASE Ack(s, l)
  <2>1. /\ loop[s][l].msg \in Messages /\ EventOf[loop[s][l].msg] \in processed
        /\ delivery' = [delivery EXCEPT ![loop[s][l].msg] = "acked"]
        /\ UNCHANGED <<stream, inbox, up, graph, processed, failures>>
    BY <1>3, <1>11 DEF Ack, At, HonestHandler, Event
  <2>2. loop'[s][l].pc = "idle"
    BY <1>2, <1>11 DEF Ack, Idle
  <2>3. HonestHandler(s, l)'
    BY <2>2 DEF HonestHandler
  <2>4. HandlersAreHonest'
    BY <1>5, <1>6, <2>1, <2>3
  <2>5. SettledIsApplied'
    BY <1>3, <1>5, <2>1 DEF SettledIsApplied, TypeOK
  <2>6. TypeOK'
    BY <1>2, <1>3, <1>4, <2>1 DEF TypeOK, Handler, graph
  <2> QED
    BY <2>1, <2>4, <2>5, <2>6 DEF IInv, graph
<1> QED
  BY <1>7, <1>8, <1>9, <1>10, <1>11 DEF Loop

\* Every step keeps the invariant and every materialized node.
LEMMA NextHolds ==
    ASSUME IInv, [Next]_vars
    PROVE  /\ IInv'
           /\ \A n \in Nodes : nodes[n] \in Events => nodes'[n] \in Events
<1>1. ASSUME NEW s \in Servers, NEW l \in Subjects, Loop(s, l), ~Reject(s, l)
      PROVE  /\ IInv'
             /\ \A n \in Nodes : nodes[n] \in Events => nodes'[n] \in Events
  BY <1>1, LoopSteps
<1>2. ASSUME \/ \E m \in Messages : Publish(m) \/ Expire(m)
             \/ \E s \in Servers, l \in Subjects :
                     \/ Reject(s, l) \/ Break(s, l) \/ LoseAck(s, l)
                   \/ \E m \in Messages : Fetch(s, l, m)
             \/ \E s \in Servers : Crash(s) \/ Restart(s)
      PROVE  /\ IInv'
             /\ \A n \in Nodes : nodes[n] \in Events => nodes'[n] \in Events
  <2>1. TypeOK' /\ Aside
    BY <1>2, AsideSteps DEF IInv
  <2>2. IInv'
    BY <2>1, AsideIsHarmless
  <2> QED
    BY <2>1, <2>2 DEF Aside, graph
<1>3. CASE UNCHANGED vars
  <2>1. TypeOK' /\ UNCHANGED <<graph, processed, loop, delivery>>
    BY <1>3 DEF vars, graph, IInv, TypeOK
  <2>2. Aside
    BY <2>1 DEF Aside
  <2> QED
    BY <2>1, <2>2, AsideIsHarmless DEF graph
<1> QED
  BY <1>1, <1>2, <1>3 DEF Next

-----------------------------------------------------------------------------
(* Nothing but the stream: the second half of convergence. *)

\* Whatever a consumer, a server or a handler has was published.
MessagesArePublished ==
    /\ \A m \in Messages : delivery[m] # "absent" => m <= stream
    /\ \A s \in Servers, l \in Subjects :
          /\ \A i \in DOMAIN inbox[s][l] : inbox[s][l][i] <= stream
          /\ loop[s][l].msg # NoMessage => loop[s][l].msg <= stream

\* Whatever a store shows was written by a published event, a placeholder by
\* one that names the node.
StoresShowTheStream ==
    /\ \A n, t \in Nodes : edges[<<n, t>>] \in Writers("edge", n, t) \cup {Absent}
    /\ \A n \in Nodes :
          /\ details[n] \in Writers("detail", n, n) \cup {Absent}
          /\ nodes[n] \in Writers("node", n, n) \cup {Placeholder, Absent}
          /\ nodes[n] = Placeholder => Naming(n) # {}

Origin == MessagesArePublished /\ StoresShowTheStream

\* A write that is not an edge has its node as its target.
LEMMA OnlyEdgesReach ==
    ASSUME NEW e \in Events, NEW i \in DOMAIN Mutations(e),
           Mutations(e)[i].op # "edge"
    PROVE  Mutations(e)[i].target = Mutations(e)[i].node
<1> DEFINE c == Content[e]
           Write(op, target) == [op |-> op, node |-> c.node, target |-> target]
           relations == [j \in DOMAIN c.related |-> Write("edge", c.related[j])]
<1>1. /\ c.kind \in {"node", "relation", "detail"}
      /\ c.node \in Nodes
      /\ c.related \in Seq(Nodes)
  BY ProjectionAssumption
<1>2. \A j \in DOMAIN relations : relations[j].op = "edge"
  OBVIOUS
<1>3. CASE c.kind = "node"
  <2>1. Mutations(e) = <<Write("node", c.node)>> \o relations
    BY <1>3 DEF Mutations
  <2>2. relations \in Seq(Writes) /\ <<Write("node", c.node)>> \in Seq(Writes)
    <3>1. DOMAIN c.related = 1 .. Len(c.related) /\ Len(c.related) \in Nat
      BY <1>1
    <3>2. \A j \in 1 .. Len(c.related) : Write("edge", c.related[j]) \in Writes
      BY <1>1 DEF Writes
    <3>3. Write("node", c.node) \in Writes
      BY <1>1 DEF Writes
    <3> QED
      BY <3>1, <3>2, <3>3
  <2>3. /\ Len(relations) \in Nat /\ DOMAIN relations = 1 .. Len(relations)
        /\ DOMAIN Mutations(e) = 1 .. (1 + Len(relations))
        /\ Mutations(e)[1] = Write("node", c.node)
        /\ \A j \in 2 .. (1 + Len(relations)) : Mutations(e)[j] = relations[j - 1]
    BY <2>1, <2>2
  <2>4. CASE i = 1
    BY <2>3, <2>4
  <2>5. CASE i # 1
    <3>1. Mutations(e)[i] = relations[i - 1] /\ i - 1 \in DOMAIN relations
      BY <2>3, <2>5
    <3> QED
      BY <3>1, <1>2
  <2> QED
    BY <2>4, <2>5
<1>4. CASE c.kind = "relation"
  <2>1. Mutations(e) = relations
    BY <1>4 DEF Mutations
  <2> QED
    BY <2>1, <1>2
<1>5. CASE c.kind = "detail"
  <2>1. Mutations(e) = <<Write("detail", c.node)>>
    BY <1>5 DEF Mutations
  <2> QED
    BY <2>1
<1> QED
  BY <1>1, <1>3, <1>4, <1>5

\* The writers are events.
LEMMA WritersAreEvents ==
    ASSUME TypeOK, NEW op, NEW n, NEW t
    PROVE  Writers(op, n, t) \subseteq Events
BY ProjectionAssumption DEF TypeOK, Writers, Published

\* The writers only become more.
LEMMA WritersGrow ==
    ASSUME stream \in Nat, stream' \in Nat, stream <= stream'
    PROVE  /\ \A op, n, t : Writers(op, n, t) \subseteq Writers(op, n, t)'
           /\ \A n : Naming(n) # {} => Naming(n)' # {}
<1>1. Published \subseteq Published'
  BY DEF Published
<1>2. \A op, n, t : Writers(op, n, t) \subseteq Writers(op, n, t)'
  BY <1>1 DEF Writers, Mutations
<1>3. \A n : Naming(n) \subseteq Naming(n)'
  BY <1>2 DEF Naming
<1> QED
  BY <1>2, <1>3

\* A published event is a writer of each of its mutations.
LEMMA PublishedWrites ==
    ASSUME TypeOK, NEW m \in Messages, m <= stream,
           NEW i \in DOMAIN Mutations(EventOf[m])
    PROVE  LET w == Mutations(EventOf[m])[i]
           IN  EventOf[m] \in Writers(w.op, w.node, w.target)
<1> DEFINE w == Mutations(EventOf[m])[i]
<1>1. m \in 1 .. stream
  BY ProjectionAssumption DEF TypeOK, Messages
<1>2. EventOf[m] \in Published
  BY <1>1 DEF Published
<1>3. EventOf[m] \in Events
  BY ProjectionAssumption DEF Messages
<1>4. w \in Writes
  BY <1>3, MutationsAreWrites
<1>5. w = [op |-> w.op, node |-> w.node, target |-> w.target]
  BY <1>4 DEF Writes
<1> QED
  BY <1>2, <1>5 DEF Writers

\* What a published event writes leaves stores that show the stream.
LEMMA PerformShowsTheStream ==
    ASSUME TypeOK, StoresShowTheStream, UNCHANGED stream,
           NEW e \in Events, NEW w \in Writes, Perform(w, e),
           e \in Writers(w.op, w.node, w.target),
           w.op # "edge" => w.target = w.node
    PROVE  StoresShowTheStream'
<1>0. /\ Absent \notin Events /\ Placeholder \notin Events /\ Absent # Placeholder
      /\ w.node \in Nodes /\ w.target \in Nodes
      /\ <<w.node, w.target>> \in Pairs
  BY ProjectionAssumption DEF Writes, Pairs
<1>1. /\ \A op, n, t : Writers(op, n, t)' = Writers(op, n, t)
      /\ \A n : Naming(n)' = Naming(n)
  BY DEF Writers, Published, Naming, Mutations
<1>2. \A n, t \in Nodes : edges'[<<n, t>>] \in Writers("edge", n, t) \cup {Absent}
  <2>1. CASE w.op # "edge"
    BY <2>1 DEF Perform, StoresShowTheStream
  <2>2. CASE w.op = "edge"
    <3>1. \A p \in Pairs : edges'[p] = IF p = <<w.node, w.target>> THEN e ELSE edges[p]
      BY <2>2, <1>0 DEF Perform, TypeOK
    <3>2. ASSUME NEW n \in Nodes, NEW t \in Nodes
          PROVE  edges'[<<n, t>>] \in Writers("edge", n, t) \cup {Absent}
      <4>1. edges'[<<n, t>>] = IF n = w.node /\ t = w.target THEN e ELSE edges[<<n, t>>]
        BY <3>1 DEF Pairs
      <4> QED
        BY <2>2, <4>1 DEF StoresShowTheStream
    <3> QED
      BY <3>2
  <2> QED
    BY <2>1, <2>2
<1>3. \A n \in Nodes : details'[n] \in Writers("detail", n, n) \cup {Absent}
  <2>1. CASE w.op # "detail"
    BY <2>1 DEF Perform, StoresShowTheStream
  <2>2. CASE w.op = "detail"
    <3>1. \A n \in Nodes : details'[n] = IF n = w.node THEN e ELSE details[n]
      BY <2>2, <1>0 DEF Perform, TypeOK
    <3> QED
      BY <2>2, <3>1 DEF StoresShowTheStream
  <2> QED
    BY <2>1, <2>2
<1>4. ASSUME NEW n \in Nodes
      PROVE  /\ nodes'[n] \in Writers("node", n, n) \cup {Placeholder, Absent}
             /\ nodes'[n] = Placeholder => Naming(n) # {}
  <2>0. /\ nodes[n] \in Writers("node", n, n) \cup {Placeholder, Absent}
        /\ nodes[n] = Placeholder => Naming(n) # {}
    BY DEF StoresShowTheStream
  <2>1. CASE w.op = "node"
    <3>1. nodes'[n] = IF n = w.node THEN e ELSE nodes[n]
      BY <2>1, <1>0 DEF Perform, TypeOK
    <3> QED
      BY <2>0, <2>1, <3>1, <1>0
  <2>2. CASE w.op = "edge"
    <3>1. nodes'[n] = IF n \in {w.node, w.target} THEN Named(n) ELSE nodes[n]
      BY <2>2 DEF Perform
    <3>2. n \in {w.node, w.target} => Naming(n) # {}
      BY <2>2, <1>0 DEF Naming
    <3> QED
      BY <2>0, <3>1, <3>2, <1>0 DEF Named
  <2>3. CASE w.op = "detail"
    BY <2>0, <2>3 DEF Perform
  <2> QED
    BY <2>1, <2>2, <2>3 DEF Writes
<1> QED
  BY <1>1, <1>2, <1>3, <1>4 DEF StoresShowTheStream

\* Stores that a step leaves alone show a stream that only grows.
LEMMA StoresStayOfTheStream ==
    ASSUME TypeOK, TypeOK', StoresShowTheStream, UNCHANGED graph, stream <= stream'
    PROVE  StoresShowTheStream'
<1>1. /\ \A op, n, t : Writers(op, n, t) \subseteq Writers(op, n, t)'
      /\ \A n : Naming(n) # {} => Naming(n)' # {}
  <2>1. stream \in Nat /\ stream' \in Nat
    BY ProjectionAssumption DEF TypeOK
  <2> QED
    BY <2>1, WritersGrow
<1> QED
  BY <1>1 DEF StoresShowTheStream, graph

\* A failed or finished message is no new one.
LEMMA NakPublishes ==
    ASSUME TypeOK, MessagesArePublished, NEW m, Nak(m)
    PROVE  \A n \in Messages : delivery'[n] # "absent" => n <= stream
BY DEF Nak, TypeOK, MessagesArePublished

\* A server that ends holds nothing, and no other holds more.
LEMMA DownPublishes ==
    ASSUME TypeOK, MessagesArePublished, NEW s \in Servers, Down(s),
           \A n \in Messages : delivery'[n] # "absent" => n <= stream
    PROVE  MessagesArePublished'
<1>1. \A t \in Servers, k \in Subjects : loop'[t][k] \in {loop[t][k], Idle}
  BY DownIsTyped
<1>2. \A t \in Servers, k \in Subjects : inbox'[t][k] \in {inbox[t][k], <<>>}
  BY DEF Down, TypeOK
<1>3. Idle.msg = NoMessage /\ UNCHANGED stream
  BY DEF Idle, Down
<1>4. ASSUME NEW t \in Servers, NEW k \in Subjects
      PROVE  \A i \in DOMAIN inbox'[t][k] : inbox'[t][k][i] <= stream
  <2>1. CASE inbox'[t][k] = inbox[t][k]
    BY <2>1 DEF MessagesArePublished
  <2>2. CASE inbox'[t][k] = <<>>
    BY <2>2
  <2> QED
    BY <1>2, <2>1, <2>2
<1>5. ASSUME NEW t \in Servers, NEW k \in Subjects
      PROVE  loop'[t][k].msg # NoMessage => loop'[t][k].msg <= stream
  BY <1>1, <1>3 DEF MessagesArePublished
<1> QED
  BY <1>3, <1>4, <1>5 DEF MessagesArePublished

\* The handler and the inbox of one loop change, the rest stays.
LEMMA OneLoopPublishes ==
    ASSUME TypeOK, MessagesArePublished, UNCHANGED stream,
           NEW s \in Servers, NEW l \in Subjects,
           NEW h \in Handler, loop' = [loop EXCEPT ![s][l] = h],
           h.msg # NoMessage => h.msg <= stream,
           NEW q \in Seq(Messages), inbox' = [inbox EXCEPT ![s][l] = q],
           \A i \in DOMAIN q : q[i] <= stream,
           \A n \in Messages : delivery'[n] # "absent" => n <= stream
    PROVE  MessagesArePublished'
<1>1. /\ \A t \in Servers, k \in Subjects :
            loop'[t][k] = IF t = s /\ k = l THEN h ELSE loop[t][k]
  BY OneHandlerMoves DEF TypeOK, Handler
<1>2. \A t \in Servers, k \in Subjects :
            inbox'[t][k] = IF t = s /\ k = l THEN q ELSE inbox[t][k]
  BY DEF TypeOK
<1>3. ASSUME NEW t \in Servers, NEW k \in Subjects
      PROVE  \A i \in DOMAIN inbox'[t][k] : inbox'[t][k][i] <= stream
  <2>1. CASE t = s /\ k = l
    BY <1>2, <2>1
  <2>2. CASE ~(t = s /\ k = l)
    <3>1. inbox'[t][k] = inbox[t][k]
      BY <1>2, <2>2
    <3> QED
      BY <3>1 DEF MessagesArePublished
  <2> QED
    BY <2>1, <2>2
<1>4. ASSUME NEW t \in Servers, NEW k \in Subjects
      PROVE  loop'[t][k].msg # NoMessage => loop'[t][k].msg <= stream
  BY <1>1 DEF MessagesArePublished
<1> QED
  BY <1>3, <1>4 DEF MessagesArePublished

\* No step brings a message that was not published.
LEMMA NextPublishes ==
    ASSUME IInv, IInv', MessagesArePublished, [Next]_vars
    PROVE  MessagesArePublished' /\ stream <= stream'
<1>0. /\ Messages = 1 .. Len(EventOf) /\ Len(EventOf) \in Nat
      /\ stream \in Nat /\ TypeOK
  BY ProjectionAssumption DEF Messages, IInv, TypeOK
<1>1. ASSUME NEW m \in Messages, Publish(m)
      PROVE  MessagesArePublished' /\ stream <= stream'
  <2>1. /\ stream' = stream + 1 /\ m = stream + 1 /\ UNCHANGED <<inbox, loop>>
        /\ \A n \in Messages : n # m => delivery'[n] = delivery[n]
    BY <1>1 DEF Publish, IInv, TypeOK
  <2>2. \A n \in Messages : delivery'[n] # "absent" => n <= stream'
    BY <1>0, <2>1 DEF MessagesArePublished
  <2>3. ASSUME NEW t \in Servers, NEW k \in Subjects
        PROVE  /\ \A i \in DOMAIN inbox[t][k] : inbox[t][k][i] <= stream'
               /\ loop[t][k].msg # NoMessage => loop[t][k].msg <= stream'
    <3>1. /\ inbox[t][k] \in Seq(Messages)
          /\ loop[t][k].msg \in Messages \cup {NoMessage}
      BY <1>0 DEF TypeOK
    <3>2. \A i \in DOMAIN inbox[t][k] : inbox[t][k][i] \in Nat
      BY <1>0, <3>1
    <3>3. /\ \A i \in DOMAIN inbox[t][k] : inbox[t][k][i] <= stream
          /\ loop[t][k].msg # NoMessage => loop[t][k].msg <= stream
      BY DEF MessagesArePublished
    <3>4. \A j \in Nat : j <= stream => j <= stream + 1
      BY <1>0
    <3> QED
      BY <1>0, <2>1, <3>1, <3>2, <3>3, <3>4
  <2> QED
    BY <1>0, <2>1, <2>2, <2>3 DEF MessagesArePublished
<1>2. ASSUME NEW m \in Messages, Expire(m) PROVE MessagesArePublished' /\ stream <= stream'
  BY <1>0, <1>2 DEF Expire, MessagesArePublished, TypeOK
<1>3. ASSUME NEW s \in Servers, NEW l \in Subjects, Take(s, l)
      PROVE  MessagesArePublished' /\ stream <= stream'
  <2>1. inbox[s][l] \in Seq(Messages) /\ inbox[s][l] # <<>>
    BY <1>0, <1>3 DEF Take, TypeOK
  <2>2. PICK m \in Messages : m = Head(inbox[s][l])
    BY <2>1
  <2>3. m <= stream
    BY <2>1, <2>2 DEF MessagesArePublished
  <2>4. PICK h \in Handler : loop' = [loop EXCEPT ![s][l] = h] /\ h.msg = m
    <3>1. \A pc \in {"ack", "apply"} :
            /\ [pc |-> pc, msg |-> m, done |-> 0] \in Handler
            /\ [pc |-> pc, msg |-> m, done |-> 0].msg = m
      BY DEF Handler
    <3>2. \E pc \in {"ack", "apply"} :
            loop' = [loop EXCEPT ![s][l] = [pc |-> pc, msg |-> m, done |-> 0]]
      BY <1>3, <2>2 DEF Take
    <3> QED
      BY <3>1, <3>2
  <2>5. PICK q \in Seq(Messages) : q = Tail(inbox[s][l])
    BY <2>1, HeadTailProperties
  <2>6. \A i \in DOMAIN q : q[i] <= stream
    <3>1. /\ Len(inbox[s][l]) \in Nat \ {0} /\ DOMAIN inbox[s][l] = 1 .. Len(inbox[s][l])
          /\ DOMAIN q = 1 .. (Len(inbox[s][l]) - 1)
          /\ \A i \in DOMAIN q : q[i] = inbox[s][l][i + 1]
      BY <2>1, <2>5
    <3>2. \A i \in DOMAIN q : i + 1 \in DOMAIN inbox[s][l]
      BY <3>1
    <3> QED
      BY <3>1, <3>2 DEF MessagesArePublished
  <2>7. /\ inbox' = [inbox EXCEPT ![s][l] = q] /\ UNCHANGED <<stream, delivery>>
    BY <1>3, <2>5 DEF Take
  <2>8. \A n \in Messages : delivery'[n] # "absent" => n <= stream
    BY <2>7 DEF MessagesArePublished
  <2>9. MessagesArePublished'
    BY <1>0, <2>3, <2>4, <2>6, <2>7, <2>8, OneLoopPublishes
  <2> QED
    BY <1>0, <2>3, <2>5, <2>7, <2>9
<1>4. ASSUME NEW s \in Servers, NEW l \in Subjects,
             Apply(s, l) \/ RecordProcessed(s, l) \/ SaveCheckpoint(s, l)
      PROVE  MessagesArePublished' /\ stream <= stream'
  <2>1. UNCHANGED <<stream, delivery, inbox>>
    BY <1>4 DEF Apply, RecordProcessed, SaveCheckpoint
  <2>0. loop[s][l] \in Handler /\ loop \in [Servers -> [Subjects -> Handler]]
    BY <1>0 DEF TypeOK, Handler
  <2>3. PICK h \in Handler : loop' = [loop EXCEPT ![s][l] = h] /\ h.msg = loop[s][l].msg
    <3>1. CASE Apply(s, l)
      <4>1. loop' = [loop EXCEPT ![s][l] = [loop[s][l] EXCEPT !.done = @ + 1]]
        BY <3>1 DEF Apply
      <4>2. [loop[s][l] EXCEPT !.done = @ + 1] \in Handler
        <5>1. PICK h \in Handler : h = loop[s][l]
          BY <2>0
        <5>2. [h EXCEPT !.done = h.done + 1] \in Handler
          BY DEF Handler
        <5> QED
          BY <5>1, <5>2
      <4>3. [loop[s][l] EXCEPT !.done = @ + 1].msg = loop[s][l].msg
        BY <2>0 DEF Handler
      <4> QED
        BY <4>1, <4>2, <4>3
    <3>2. CASE RecordProcessed(s, l) \/ SaveCheckpoint(s, l)
      <4>1. \E pc \in {"checkpoint", "ack"} :
              loop' = [loop EXCEPT ![s][l] = [loop[s][l] EXCEPT !.pc = pc, !.done = 0]]
        BY <3>2 DEF RecordProcessed, SaveCheckpoint, Goto
      <4>2. \A pc \in {"checkpoint", "ack"} :
              /\ [loop[s][l] EXCEPT !.pc = pc, !.done = 0] \in Handler
              /\ [loop[s][l] EXCEPT !.pc = pc, !.done = 0].msg = loop[s][l].msg
        BY <2>0 DEF Handler
      <4> QED
        BY <4>1, <4>2
    <3> QED
      BY <1>4, <3>1, <3>2
  <2>2. \A t \in Servers, k \in Subjects : loop'[t][k].msg = loop[t][k].msg
    BY <2>0, <2>3, OneHandlerMoves
  <2> QED
    BY <1>0, <2>1, <2>2 DEF MessagesArePublished
<1>5. ASSUME NEW s \in Servers, NEW l \in Subjects, Ack(s, l)
      PROVE  MessagesArePublished' /\ stream <= stream'
  <2>1. loop[s][l].msg \in Messages
    BY <1>5 DEF Ack, At, IInv, HandlersAreHonest, HonestHandler
  <2>2. loop[s][l].msg <= stream
    BY <1>0, <2>1, ProjectionAssumption DEF MessagesArePublished
  <2>3. \A n \in Messages : delivery'[n] # "absent" => n <= stream
    BY <1>0, <1>5, <2>1, <2>2 DEF Ack, TypeOK, MessagesArePublished
  <2>4. Idle \in Handler /\ Idle.msg = NoMessage
    BY DEF Idle, Handler
  <2>5. UNCHANGED <<stream, inbox>> /\ loop' = [loop EXCEPT ![s][l] = Idle]
    BY <1>5 DEF Ack
  <2>6. PICK q \in Seq(Messages) : q = inbox[s][l]
    BY <1>0 DEF TypeOK
  <2>7. inbox' = [inbox EXCEPT ![s][l] = q] /\ \A i \in DOMAIN q : q[i] <= stream
    BY <1>0, <2>5, <2>6 DEF TypeOK, MessagesArePublished
  <2>9. MessagesArePublished'
    BY <1>0, <2>3, <2>4, <2>5, <2>7, OneLoopPublishes
  <2> QED
    BY <1>0, <2>3, <2>5, <2>7, <2>9
<1>6. ASSUME NEW s \in Servers, NEW l \in Subjects, Reject(s, l) \/ Break(s, l)
      PROVE  MessagesArePublished' /\ stream <= stream'
  <2>1. PICK m : Nak(m)
    BY <1>6 DEF Reject, Break
  <2>2. Down(s)
    BY <1>6 DEF Reject, Break
  <2>3. UNCHANGED stream
    BY <2>2 DEF Down
  <2> QED
    BY <1>0, <2>1, <2>2, <2>3, NakPublishes, DownPublishes
<1>7. ASSUME NEW s \in Servers, NEW l \in Subjects, NEW m \in Messages, Fetch(s, l, m)
      PROVE  MessagesArePublished' /\ stream <= stream'
  <2>1. m <= stream
    BY <1>7 DEF Fetch, MessagesArePublished
  <2>2. PICK q \in Seq(Messages) : q = Append(inbox[s][l], m)
    <3>1. inbox[s][l] \in Seq(Messages)
      BY <1>0 DEF TypeOK
    <3>2. Append(inbox[s][l], m) \in Seq(Messages)
      BY <3>1, AppendProperties
    <3> QED
      BY <3>2
  <2>3. /\ inbox' = [inbox EXCEPT ![s][l] = q] /\ UNCHANGED <<stream, loop>>
        /\ delivery' = [delivery EXCEPT ![m] = "held"]
    BY <1>7, <2>2 DEF Fetch
  <2>4. \A i \in DOMAIN q : q[i] <= stream
    <3>1. /\ inbox[s][l] \in Seq(Messages)
          /\ \A i \in DOMAIN inbox[s][l] : inbox[s][l][i] <= stream
      BY <1>0 DEF TypeOK, MessagesArePublished
    <3> QED
      BY <2>1, <2>2, <3>1
  <2>5. \A n \in Messages : delivery'[n] # "absent" => n <= stream
    BY <1>0, <2>1, <2>3 DEF TypeOK, MessagesArePublished
  <2>6. PICK h \in Handler : h = loop[s][l]
    BY <1>0 DEF TypeOK, Handler
  <2>7. loop' = [loop EXCEPT ![s][l] = h] /\ (h.msg # NoMessage => h.msg <= stream)
    BY <1>0, <2>3, <2>6 DEF TypeOK, MessagesArePublished
  <2>9. MessagesArePublished'
    BY <1>0, <2>3, <2>4, <2>5, <2>7, OneLoopPublishes
  <2> QED
    BY <1>0, <2>3, <2>5, <2>7, <2>9
<1>8. ASSUME NEW s \in Servers, Crash(s) PROVE MessagesArePublished' /\ stream <= stream'
  <2>1. Down(s) /\ UNCHANGED delivery
    BY <1>8 DEF Crash
  <2>2. UNCHANGED stream
    BY <2>1 DEF Down
  <2> QED
    BY <1>0, <2>1, <2>2, DownPublishes DEF MessagesArePublished
<1>9. ASSUME NEW s \in Servers, NEW l \in Subjects, LoseAck(s, l)
       PROVE  MessagesArePublished' /\ stream <= stream'
  <2>1. /\ UNCHANGED <<stream, delivery, inbox>>
        /\ \A t \in Servers, k \in Subjects : loop'[t][k] = loop[t][k] \/ loop'[t][k].msg = NoMessage
    BY <1>0, <1>9 DEF LoseAck, TypeOK, Idle
  <2> QED
    BY <1>0, <2>1 DEF MessagesArePublished
<1>10. ASSUME \/ \E s \in Servers : Restart(s)
             \/ UNCHANGED vars
      PROVE  MessagesArePublished' /\ stream <= stream'
  BY <1>0, <1>10 DEF Restart, vars, MessagesArePublished
<1> QED
  BY <1>1, <1>2, <1>3, <1>4, <1>5, <1>6, <1>7, <1>8, <1>9, <1>10 DEF Next, Loop

\* No step shows what the stream does not hold.
LEMMA NextShowsTheStream ==
    ASSUME IInv, IInv', Origin, [Next]_vars
    PROVE  Origin'
<1>1. MessagesArePublished' /\ stream <= stream'
  BY NextPublishes DEF Origin
<1>2. ASSUME NEW s \in Servers, NEW l \in Subjects, Apply(s, l)
      PROVE  StoresShowTheStream'
  <2>1. /\ loop[s][l].pc = "apply" /\ loop[s][l].msg \in Messages
        /\ loop[s][l].done \in 0 .. Len(Mutations(Event(s, l)))
        /\ loop[s][l].done # Len(Mutations(Event(s, l)))
    BY <1>2 DEF Apply, At, AllDone, IInv, HandlersAreHonest, HonestHandler
  <2>2. PICK m \in Messages, d \in Nat : m = loop[s][l].msg /\ d = loop[s][l].done
    BY <2>1
  <2>3. PICK e \in Events : e = EventOf[m]
    BY ProjectionAssumption DEF Messages
  <2>4. Mutations(e) \in Seq(Writes)
    BY MutationsAreWrites
  <2>5. d + 1 \in DOMAIN Mutations(e) /\ d + 1 \in Nat
    BY <2>1, <2>2, <2>3, <2>4 DEF Event
  <2>6. PICK w \in Writes : w = Mutations(e)[d + 1]
    BY <2>4, <2>5
  <2>7. Perform(w, e) /\ UNCHANGED stream
    BY <1>2, <2>2, <2>3, <2>6 DEF Apply, Event
  <2>8. m <= stream
    BY <2>2, ProjectionAssumption DEF Origin, MessagesArePublished, Messages
  <2>9. e \in Writers(w.op, w.node, w.target)
    BY <2>3, <2>5, <2>6, <2>8, PublishedWrites DEF IInv
  <2>10. w.op # "edge" => w.target = w.node
    BY <2>5, <2>6, OnlyEdgesReach
  <2> QED
    BY <2>7, <2>9, <2>10, PerformShowsTheStream DEF IInv, Origin
<1>3. ASSUME UNCHANGED graph PROVE StoresShowTheStream'
  BY <1>1, <1>3, StoresStayOfTheStream DEF IInv, Origin
<1>4. (\E s \in Servers, l \in Subjects : Apply(s, l)) \/ UNCHANGED graph
  <2>1. ASSUME NEW s \in Servers, NEW l \in Subjects, Loop(s, l)
        PROVE  Apply(s, l) \/ UNCHANGED graph
    BY <2>1 DEF Loop, Take, RecordProcessed, SaveCheckpoint, Ack, Reject, Down
  <2>2. ASSUME NEW s \in Servers, Crash(s) \/ Restart(s)
        PROVE  UNCHANGED graph
    BY <2>2 DEF Crash, Restart, Down
  <2>3. ASSUME NEW s \in Servers, NEW l \in Subjects,
               \/ Break(s, l) \/ LoseAck(s, l)
               \/ \E m \in Messages : Fetch(s, l, m)
        PROVE  UNCHANGED graph
    BY <2>3 DEF Break, LoseAck, Down, Fetch
  <2>4. ASSUME NEW m \in Messages, Publish(m) \/ Expire(m)
        PROVE  UNCHANGED graph
    BY <2>4 DEF Publish, Expire
  <2>5. CASE UNCHANGED vars
    BY <2>5 DEF vars
  <2> QED
    BY <2>1, <2>2, <2>3, <2>4, <2>5 DEF Next
<1> QED
  BY <1>1, <1>2, <1>3, <1>4 DEF Origin

\* At the start nothing was published and nothing is stored.
LEMMA InitShowsTheStream == Init => Origin
<1> SUFFICES ASSUME Init PROVE Origin
  OBVIOUS
<1>1. MessagesArePublished
  BY DEF Init, MessagesArePublished, Idle
<1>2. Absent # Placeholder
  BY ProjectionAssumption
<1>3. StoresShowTheStream
  BY <1>2 DEF Init, StoresShowTheStream, Pairs
<1> QED
  BY <1>1, <1>3 DEF Origin

\* A writer of a settled stream has what it writes in the stores.
LEMMA SettledWritersStand ==
    ASSUME IInv, Unsettled = {}, NEW op, NEW n, NEW t, Writers(op, n, t) # {}
    PROVE  /\ Stands([op |-> op, node |-> n, target |-> t])
           /\ op = "node" => nodes[n] \in Events
           /\ op = "detail" => details[n] \in Events
           /\ op = "edge" => /\ edges[<<n, t>>] \in Events
                             /\ nodes[n] # Absent /\ nodes[t] # Absent
<1>1. PICK e \in Published : \E i \in DOMAIN Mutations(e) :
            Mutations(e)[i] = [op |-> op, node |-> n, target |-> t]
  BY DEF Writers
<1>2. PICK m \in 1 .. stream : e = EventOf[m]
  BY DEF Published
<1>3. m \in Messages /\ delivery[m] = "acked"
  <2>1. /\ Messages = 1 .. Len(EventOf) /\ Len(EventOf) \in Nat
        /\ stream \in 0 .. Len(EventOf)
    BY ProjectionAssumption DEF Messages, IInv, TypeOK
  <2>2. m \in Messages
    BY <2>1
  <2>3. delivery[m] = "acked"
    BY DEF Unsettled
  <2> QED
    BY <2>2, <2>3
<1>4. Applied(e)
  BY <1>2, <1>3 DEF IInv, SettledIsApplied
<1>5. Stands([op |-> op, node |-> n, target |-> t])
  BY <1>1, <1>4 DEF Applied
<1> QED
  BY <1>5 DEF Stands

\* What stands of a settled stream and shows only the stream is the stream.
LEMMA SettledConverges == IInv /\ Origin => ConvergesToTheStream
<1> SUFFICES ASSUME IInv, Origin, Unsettled = {} PROVE ConvergesToTheStream
  BY DEF ConvergesToTheStream
<1>0. /\ Absent \notin Events /\ Placeholder \notin Events /\ Absent # Placeholder
  BY ProjectionAssumption
<1>1. ASSUME NEW n \in Nodes, NEW t \in Nodes
      PROVE  Shows(edges[<<n, t>>], Writers("edge", n, t), Absent)
  <2>1. edges[<<n, t>>] \in Writers("edge", n, t) \cup {Absent}
    BY DEF Origin, StoresShowTheStream
  <2>2. Writers("edge", n, t) # {} => edges[<<n, t>>] \in Events
    BY SettledWritersStand
  <2> QED
    BY <1>0, <2>1, <2>2 DEF Shows
<1>2. ASSUME NEW n \in Nodes
      PROVE  Shows(details[n], Writers("detail", n, n), Absent)
  <2>1. details[n] \in Writers("detail", n, n) \cup {Absent}
    BY DEF Origin, StoresShowTheStream
  <2>2. Writers("detail", n, n) # {} => details[n] \in Events
    BY SettledWritersStand
  <2> QED
    BY <1>0, <2>1, <2>2 DEF Shows
<1>3. ASSUME NEW n \in Nodes
      PROVE  Shows(nodes[n], Writers("node", n, n),
                   IF Naming(n) # {} THEN Placeholder ELSE Absent)
  <2>1. /\ nodes[n] \in Writers("node", n, n) \cup {Placeholder, Absent}
        /\ nodes[n] = Placeholder => Naming(n) # {}
    BY DEF Origin, StoresShowTheStream
  <2>2. Writers("node", n, n) # {} => nodes[n] \in Events
    BY SettledWritersStand
  <2>3. Naming(n) # {} => nodes[n] # Absent
    <3>1. ASSUME Naming(n) # {} PROVE nodes[n] # Absent
      <4>1. PICK t \in Nodes : Writers("edge", n, t) # {} \/ Writers("edge", t, n) # {}
        BY <3>1 DEF Naming
      <4> QED
        BY <4>1, SettledWritersStand
    <3> QED
      BY <3>1
  <2> QED
    BY <1>0, <2>1, <2>2, <2>3 DEF Shows
<1> QED
  BY <1>1, <1>2, <1>3 DEF ConvergesToTheStream

-----------------------------------------------------------------------------
(* The theorems. *)

\* The invariant holds in every reachable state.
THEOREM Invariant == Spec => []IInv
<1>1. Init => IInv
  BY InitHolds
<1>2. IInv /\ [Next]_vars => IInv'
  BY NextHolds
<1> QED
  BY <1>1, <1>2, PTL DEF Spec

\* Servers, stream and stores keep to their types.
THEOREM TypeCorrect == Spec => []TypeOK
<1>1. IInv => TypeOK
  BY DEF IInv
<1> QED
  BY <1>1, Invariant, PTL

\* An event recorded or acknowledged has all its mutations in the stores,
\* whatever crashed, was redelivered or ran twice at once.
THEOREM Settled == Spec => []SettledIsApplied
<1>1. IInv => SettledIsApplied
  BY DEF IInv
<1> QED
  BY <1>1, Invariant, PTL

\* No relation turns a materialized node back into a placeholder.
THEOREM Materialized == Spec => NodesStayMaterialized
<1>1. IInv /\ [Next]_vars =>
        [\A n \in Nodes : nodes[n] \in Events => nodes'[n] \in Events]_vars
  BY NextHolds
<1> QED
  BY <1>1, Invariant, PTL DEF Spec, NodesStayMaterialized

\* Everything the stores show comes from the stream, in every reachable state.
THEOREM OnlyTheStream == Spec => []Origin
<1>1. Init => Origin
  BY InitShowsTheStream
<1>2. IInv /\ IInv' /\ Origin /\ [Next]_vars => Origin'
  BY NextShowsTheStream
<1> QED
  BY <1>1, <1>2, Invariant, PTL DEF Spec

\* A stream that is all acknowledged is exactly what the stores show: by the
\* record nothing of it is missing, by its origin nothing else is there.
THEOREM Converges == Spec => []ConvergesToTheStream
BY Invariant, OnlyTheStream, SettledConverges, PTL
=============================================================================
