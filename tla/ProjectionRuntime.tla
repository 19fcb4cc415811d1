------------------------- MODULE ProjectionRuntime -------------------------
(***************************************************************************)
(* The asynchronous projection of a split deployment.  Materialization     *)
(* events wait in a JetStream stream; every kernel server runs one loop    *)
(* per subject over a durable consumer that all servers share.  A loop     *)
(* asks whether an event was processed, writes its mutations one request   *)
(* at a time to the graph (Neo4j) and to the details (Valkey), records     *)
(* the event as processed, saves a checkpoint, and only then acknowledges  *)
(* the message.  An error naks the message and ends the loop, its two      *)
(* siblings and the server with it; the server's platform starts it again. *)
(***************************************************************************)
EXTENDS Naturals, Sequences, SequencesExt, FiniteSets

CONSTANTS
    Servers,        \* kernel servers: replicas, or the two of a rolling update
    Events,         \* the ids of the events
    EventOf,        \* the events that are published, in order; a republished
                    \* event has the same id
    Content,        \* event -> [kind, node, related], see Mutations
    Poison,         \* events that do not decode or whose explanation is invalid
    Nodes,          \* graph nodes
    Absent,         \* nothing is stored
    Placeholder,    \* a node that only a relation has named
    NoMessage,      \* a loop that handles none
    MaxFailures     \* bound on failed requests, crashes and handlers too slow

ASSUME ProjectionAssumption ==
    /\ EventOf \in Seq(Events)
    /\ Content \in [Events -> [kind : {"node", "relation", "detail"},
                               node : Nodes, related : Seq(Nodes)]]
    /\ Poison \subseteq Events
    /\ MaxFailures \in Nat
    /\ Absent \notin Events /\ Placeholder \notin Events
    /\ Absent # Placeholder
    /\ NoMessage \notin Nat

VARIABLES
    stream,     \* the messages of the stream are 1 .. stream
    delivery,   \* message -> "absent", "new", "held" by a client, "due" again, "acked"
    inbox,      \* server -> subject -> messages fetched and not yet taken
    loop,       \* server -> subject -> [pc, msg, done]: mutations done
    up,         \* the servers that run
    nodes,      \* node -> the event it shows, Placeholder or Absent
    edges,      \* <<source, target>> -> the event it shows or Absent
    details,    \* node -> the event its detail shows or Absent
    processed,  \* the events recorded as processed
    failures    \* failed requests, crashes and late handlers so far

graph == <<nodes, edges, details>>
vars == <<stream, delivery, inbox, loop, up, graph, processed, failures>>

Messages == DOMAIN EventOf
Subjects == {"node", "relation", "detail"}
SubjectOf(m) == Content[EventOf[m]].kind
Pairs == Nodes \X Nodes
Idle == [pc |-> "idle", msg |-> NoMessage, done |-> 0]

\* mutations_for_event: a node, then each relation it names; a relation; or a
\* detail.  RoutingProjectionWriter's partition keeps that order.
Mutations(e) ==
    LET c == Content[e]
        Write(op, target) == [op |-> op, node |-> c.node, target |-> target]
        relations == [i \in DOMAIN c.related |-> Write("edge", c.related[i])]
    IN CASE c.kind = "node"     -> <<Write("node", c.node)>> \o relations
         [] c.kind = "relation" -> relations
         [] c.kind = "detail"   -> <<Write("detail", c.node)>>

Init ==
    /\ stream = 0
    /\ delivery = [m \in Messages |-> "absent"]
    /\ inbox = [s \in Servers |-> [l \in Subjects |-> <<>>]]
    /\ loop = [s \in Servers |-> [l \in Subjects |-> Idle]]
    /\ up = Servers
    /\ nodes = [n \in Nodes |-> Absent]
    /\ edges = [p \in Pairs |-> Absent]
    /\ details = [n \in Nodes |-> Absent]
    /\ processed = {}
    /\ failures = 0

-----------------------------------------------------------------------------
(* JetStream: the stream and its durable consumers, explicit acknowledgement. *)

\* A producer publishes the next message.
Publish(m) ==
    /\ m = stream + 1
    /\ stream' = m
    /\ delivery' = [delivery EXCEPT ![m] = "new"]
    /\ UNCHANGED <<inbox, loop, up, graph, processed, failures>>

\* No message of the same subject before m waits for its first delivery.
NextInStream(m) ==
    \A i \in 1 .. (m - 1) : SubjectOf(i) = SubjectOf(m) => delivery[i] # "new"

\* A consumer that is not durable: what was delivered once is not again.
Fetch_OnlyNew(s, l, m) ==
    /\ s \in up
    /\ SubjectOf(m) = l
    /\ delivery[m] = "new" /\ NextInStream(m)
    /\ delivery' = [delivery EXCEPT ![m] = "held"]
    /\ inbox' = [inbox EXCEPT ![s][l] = Append(@, m)]
    /\ UNCHANGED <<stream, loop, up, graph, processed, failures>>

\* A server's pull subscription fetches a message: the first deliveries in
\* the order of the stream, a redelivery whenever it falls due.
Fetch(s, l, m) ==
    /\ s \in up
    /\ SubjectOf(m) = l
    /\ \/ delivery[m] = "due"
       \/ delivery[m] = "new" /\ NextInStream(m)
    /\ delivery' = [delivery EXCEPT ![m] = "held"]
    /\ inbox' = [inbox EXCEPT ![s][l] = Append(@, m)]
    /\ UNCHANGED <<stream, loop, up, graph, processed, failures>>

\* Some running server has m before it.
InHand(m) == \E s \in Servers, l \in Subjects :
                loop[s][l].msg = m \/ m \in Range(inbox[s][l])

\* The acknowledgement wait of a message runs out: nobody has it any more, or
\* the server that has it is slow, which counts among the failures.
Expire(m) ==
    /\ delivery[m] = "held"
    /\ InHand(m) => failures < MaxFailures
    /\ failures' = IF InHand(m) THEN failures + 1 ELSE failures
    /\ delivery' = [delivery EXCEPT ![m] = "due"]
    /\ UNCHANGED <<stream, inbox, loop, up, graph, processed>>

-----------------------------------------------------------------------------
(* run_subject_loop and handle_projection_event.                           *)

At(s, l, pc) == s \in up /\ loop[s][l].pc = pc
Event(s, l) == EventOf[loop[s][l].msg]
Goto(s, l, pc) == loop' = [loop EXCEPT ![s][l] = [@ EXCEPT !.pc = pc, !.done = 0]]

\* messages.next(), has_processed and mutations_for_event: what another server
\* records after the answer is not seen.  A duplicate is acknowledged as is.
Take(s, l) ==
    /\ At(s, l, "idle")
    /\ inbox[s][l] # <<>>
    /\ LET m == Head(inbox[s][l])
           e == EventOf[m]
       IN \/ /\ e \in processed
             /\ loop' = [loop EXCEPT ![s][l] = [pc |-> "ack", msg |-> m, done |-> 0]]
          \/ /\ e \notin processed \cup Poison
             /\ loop' = [loop EXCEPT ![s][l] = [pc |-> "apply", msg |-> m, done |-> 0]]
    /\ inbox' = [inbox EXCEPT ![s][l] = Tail(@)]
    /\ UNCHANGED <<stream, delivery, up, graph, processed, failures>>

\* MERGE (n) SET placeholder, whether the node is there or not.
Named_Always(n) == Placeholder

\* MERGE (n) ON CREATE SET placeholder: only a node that is not there.
Named(n) == IF nodes[n] = Absent THEN Placeholder ELSE nodes[n]

\* MATCH instead of MERGE: a relation whose ends are not both there is lost.
Perform_Match(w, e) ==
    \/ /\ w.op = "node"
       /\ nodes' = [nodes EXCEPT ![w.node] = e]
       /\ UNCHANGED <<edges, details>>
    \/ /\ w.op = "edge"
       /\ edges' = IF Absent \in {nodes[w.node], nodes[w.target]} THEN edges
                    ELSE [edges EXCEPT ![<<w.node, w.target>>] = e]
       /\ UNCHANGED <<nodes, details>>
    \/ /\ w.op = "detail"
       /\ details' = [details EXCEPT ![w.node] = e]
       /\ UNCHANGED <<nodes, edges>>

\* One request of apply_mutations: a node is merged and every field set; a
\* relation merges both its ends as placeholders and sets the edge; a detail
\* is SET whatever revision the key holds.
Perform(w, e) ==
    \/ /\ w.op = "node"
       /\ nodes' = [nodes EXCEPT ![w.node] = e]
       /\ UNCHANGED <<edges, details>>
    \/ /\ w.op = "edge"
       /\ nodes' = [n \in Nodes |-> IF n \in {w.node, w.target}
                                        THEN Named(n) ELSE nodes[n]]
       /\ edges' = [edges EXCEPT ![<<w.node, w.target>>] = e]
       /\ UNCHANGED details
    \/ /\ w.op = "detail"
       /\ details' = [details EXCEPT ![w.node] = e]
       /\ UNCHANGED <<nodes, edges>>

AllDone(s, l) == loop[s][l].done = Len(Mutations(Event(s, l)))

Apply(s, l) ==
    /\ At(s, l, "apply")
    /\ ~AllDone(s, l)
    /\ Perform(Mutations(Event(s, l))[loop[s][l].done + 1], Event(s, l))
    /\ loop' = [loop EXCEPT ![s][l].done = @ + 1]
    /\ UNCHANGED <<stream, delivery, inbox, up, processed, failures>>

\* The key of the record is the message's, not the event's id.
RecordProcessed_ByMessage(s, l) ==
    /\ At(s, l, "apply")
    /\ AllDone(s, l)
    /\ processed' = processed \cup {loop[s][l].msg}
    /\ Goto(s, l, "checkpoint")
    /\ UNCHANGED <<stream, delivery, inbox, up, graph, failures>>

\* Recorded before the last mutation is written.
RecordProcessed_Early(s, l) ==
    /\ At(s, l, "apply")
    /\ loop[s][l].done + 1 >= Len(Mutations(Event(s, l)))
    /\ processed' = processed \cup {Event(s, l)}
    /\ Goto(s, l, "checkpoint")
    /\ UNCHANGED <<stream, delivery, inbox, up, graph, failures>>

RecordProcessed(s, l) ==
    /\ At(s, l, "apply")
    /\ AllDone(s, l)
    /\ processed' = processed \cup {Event(s, l)}
    /\ Goto(s, l, "checkpoint")
    /\ UNCHANGED <<stream, delivery, inbox, up, graph, failures>>

\* save_checkpoint: one key for the three loops, which no server reads; the
\* request is a step at which a handler may fail.
SaveCheckpoint(s, l) ==
    /\ At(s, l, "checkpoint")
    /\ Goto(s, l, "ack")
    /\ UNCHANGED <<stream, delivery, inbox, up, graph, processed, failures>>

\* message.ack().
Ack(s, l) ==
    /\ At(s, l, "ack")
    /\ delivery' = [delivery EXCEPT ![loop[s][l].msg] = "acked"]
    /\ loop' = [loop EXCEPT ![s][l] = Idle]
    /\ UNCHANGED <<stream, inbox, up, graph, processed, failures>>

-----------------------------------------------------------------------------
(* Failures.                                                               *)

\* The process ends: its loops stop where they are and what it fetched is
\* held by nobody.
Down(s) ==
    /\ up' = up \ {s}
    /\ loop' = [loop EXCEPT ![s] = [l \in Subjects |-> Idle]]
    /\ inbox' = [inbox EXCEPT ![s] = [l \in Subjects |-> <<>>]]
    /\ UNCHANGED <<stream, graph, processed>>

\* ack_with(Nak): due again, if no other holder settled it meanwhile.
Nak(m) ==
    delivery' = [delivery EXCEPT ![m] = IF @ = "held" THEN "due" ELSE @]

\* The loop ends with the message it cannot decode or translate, try_join!
\* drops its siblings, and main returns the error.
Reject(s, l) ==
    /\ At(s, l, "idle")
    /\ inbox[s][l] # <<>>
    /\ EventOf[Head(inbox[s][l])] \in Poison
    /\ Nak(Head(inbox[s][l]))
    /\ Down(s)
    /\ UNCHANGED failures

\* A request of a handler fails: before its effect, or after it, which is the
\* failure of the request that follows.
Break(s, l) ==
    /\ s \in up
    /\ loop[s][l].pc \in {"apply", "checkpoint"}
    /\ failures < MaxFailures
    /\ failures' = failures + 1
    /\ Nak(loop[s][l].msg)
    /\ Down(s)

\* The server is killed, or the acknowledgement itself fails.
Crash(s) ==
    /\ s \in up
    /\ failures < MaxFailures
    /\ failures' = failures + 1
    /\ Down(s)
    /\ UNCHANGED delivery

\* Nobody confirms an acknowledgement: one may be lost with the server going on.
LoseAck(s, l) ==
    /\ At(s, l, "ack")
    /\ failures < MaxFailures
    /\ failures' = failures + 1
    /\ loop' = [loop EXCEPT ![s][l] = Idle]
    /\ UNCHANGED <<stream, delivery, inbox, up, graph, processed>>

Restart(s) ==
    /\ s \notin up
    /\ up' = up \cup {s}
    /\ UNCHANGED <<stream, delivery, inbox, loop, graph, processed, failures>>

Loop(s, l) ==
    \/ Take(s, l)
    \/ Apply(s, l)
    \/ RecordProcessed(s, l)
    \/ SaveCheckpoint(s, l)
    \/ Ack(s, l)
    \/ Reject(s, l)

Next ==
    \/ \E m \in Messages : Publish(m) \/ Expire(m)
    \/ \E s \in Servers, l \in Subjects :
            \/ Loop(s, l) \/ Break(s, l) \/ LoseAck(s, l)
            \/ \E m \in Messages : Fetch(s, l, m)
    \/ \E s \in Servers : Crash(s) \/ Restart(s)

Spec == Init /\ [][Next]_vars

\* While there is something to do, some loop handles, some subscription is
\* given a message, a wait runs out, and a server that ended is started again.
FairSpec ==
    /\ Spec
    /\ WF_vars(\E s \in Servers, l \in Subjects : Loop(s, l))
    /\ WF_vars(\E s \in Servers, l \in Subjects, m \in Messages : Fetch(s, l, m))
    /\ WF_vars(\E m \in Messages : Expire(m))
    /\ WF_vars(\E s \in Servers : Restart(s))

-----------------------------------------------------------------------------
(* Properties.                                                             *)

\* Every variable keeps to its type: what the servers, the stream and the
\* stores may hold.
TypeOK ==
    /\ stream \in 0 .. Len(EventOf)
    /\ delivery \in [Messages -> {"absent", "new", "held", "due", "acked"}]
    /\ inbox \in [Servers -> [Subjects -> Seq(Messages)]]
    /\ loop \in [Servers -> [Subjects ->
            [pc : {"idle", "apply", "checkpoint", "ack"},
             msg : Messages \cup {NoMessage},
             done : Nat]]]
    /\ up \subseteq Servers
    /\ nodes \in [Nodes -> Events \cup {Placeholder, Absent}]
    /\ edges \in [Pairs -> Events \cup {Absent}]
    /\ details \in [Nodes -> Events \cup {Absent}]
    /\ processed \subseteq Events
    /\ failures \in 0 .. MaxFailures

\* The effect of a mutation stands, of this event or of a later writer.
Stands(w) ==
    \/ w.op = "node"   /\ nodes[w.node] \in Events
    \/ w.op = "edge"   /\ edges[<<w.node, w.target>>] \in Events
                       /\ nodes[w.node] # Absent /\ nodes[w.target] # Absent
    \/ w.op = "detail" /\ details[w.node] \in Events

Applied(e) == \A i \in DOMAIN Mutations(e) : Stands(Mutations(e)[i])

\* What is settled is there: an event that is recorded as processed or whose
\* message is acknowledged has every one of its mutations in the graph or the
\* details, whichever server wrote them and wherever a server stopped (the
\* handler records after apply_mutations, and run_subject_loop acknowledges
\* after the handler).
SettledIsApplied ==
    /\ \A e \in processed : Applied(e)
    /\ \A m \in Messages : delivery[m] = "acked" => EventOf[m] \in processed

\* A relation never hides a node: a node that was materialized is never a
\* placeholder again, in whatever order the two subjects are delivered and
\* redelivered (ON CREATE SET in upsert_relation_projection_query).
NodesStayMaterialized ==
    [][\A n \in Nodes : nodes[n] \in Events => nodes'[n] \in Events]_vars

\* Once every published message is acknowledged the stores are the projection
\* of the stream, in whatever order, how often and by whom its events were
\* applied, and also while a late handler still writes one of them again:
\* exactly the nodes, edges and details some event writes, placeholders for the
\* rest of the ends, and each of the events that write it (the only one, where
\* there is one).
Published == {EventOf[m] : m \in 1 .. stream}
Unsettled == {m \in 1 .. stream : delivery[m] # "acked"}
Writers(op, n, t) ==
    {e \in Published : \E i \in DOMAIN Mutations(e) :
        Mutations(e)[i] = [op |-> op, node |-> n, target |-> t]}
Naming(n) == UNION {Writers("edge", n, t) \cup Writers("edge", t, n) : t \in Nodes}
Shows(value, writers, otherwise) ==
    IF writers = {} THEN value = otherwise ELSE value \in writers
ConvergesToTheStream ==
    Unsettled = {} =>
        /\ \A n, t \in Nodes : Shows(edges[<<n, t>>], Writers("edge", n, t), Absent)
        /\ \A n \in Nodes :
            /\ Shows(details[n], Writers("detail", n, n), Absent)
            /\ Shows(nodes[n], Writers("node", n, n),
                     IF Naming(n) # {} THEN Placeholder ELSE Absent)

\* Whatever was published comes to be acknowledged, every message of it,
\* through crashes, failed requests, naks and expired waits, unless an event
\* that cannot be applied is among it (durable consumers, explicit
\* acknowledgement, restarts, and finitely many failures).
EventsAreSettled ==
    Unsettled # {} ~> (Unsettled = {} \/ Published \cap Poison # {})
=============================================================================
