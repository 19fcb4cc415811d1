---------------------------- MODULE MemoryIngest ----------------------------
(***************************************************************************)
(* Ingest and relabel: how a memory command is decided on what was read of *)
(* the projection, and what of that reading is compared again when the     *)
(* translated change is committed.                                         *)
(*                                                                         *)
(*   reviewed   the write proposes relations and carries a review token:   *)
(*              it reads under the projection guard, samples the revision  *)
(*              of every about it reads, and commits only on those         *)
(*   attached   a write of relations alone: read and compared alike, not   *)
(*              reviewed                                                   *)
(*   pointed    any other ingest: reads the catalogue and the frontiers of *)
(*              the coordinates it leaves to the kernel, some of them from *)
(*              this process's cache, and compares nothing                 *)
(*   relabel    reads catalogue and coordinates, and compares nothing      *)
(*                                                                         *)
(* The command path below it is what ContextEvents shows it to be over     *)
(* SQLite: the key is looked up under the process's write guard, then one  *)
(* transaction compares the sampled revisions and commits event and        *)
(* projection.  A load of the head and the append against it either commit *)
(* on the head of that moment or fail; they are one step.                  *)
(*                                                                         *)
(* A definition whose name ends in "_" and a word is a faulty variant of   *)
(* the definition after it.  No specification uses one.                    *)
(***************************************************************************)
EXTENDS Naturals, Sequences, FiniteSets, FiniteSetsExt

CONSTANTS
    Tasks, Kernels,
    Host,           \* the process each task runs in
    Abouts,
    Entries,
    Owner,          \* the about an entry belongs to (its ref names it)
    Scopes,         \* labels: a dimension and its scope id
    Keys,           \* idempotency keys
    Commands,       \* the ingests and relabels callers may send
    Stored,         \* what the store holds of each about at the start
    CacheLimit,     \* frontiers a process keeps before it starts over
    MaxCalls,       \* bound on the calls made in one behaviour
    None

\* A contains_entry edge from a label to an entry.  Sequences are positive:
\* 0 stands for an edge that carries none a frontier counts.
Coordinate == [entry : Entries, scope : Scopes, seq : Nat]

\* What is projected of one about: its entries, the contains_entry edge of
\* each coordinate, and the relations its entries declare.  A relation inside
\* an about stands for "contradicts", one that leaves it for an equivalence.
Slice == [known : SUBSET Entries, at : SUBSET Coordinate,
          links : SUBSET (Entries \X Entries)]

EmptySlice == [known |-> {}, at |-> {}, links |-> {}]

\* A coordinate of an ingest names its sequence or leaves it to the kernel.
\* Beside its links an ingest may relate a label to an entry by contains_entry
\* with a coordinate of the relation's own; of two for one edge the later one
\* stands.  One without a coordinate repeats the entry's and changes nothing.
Ingest ==
    [op : {"ingest"}, about : Abouts, key : Keys,
     writes : Seq([entry : Entries, scope : Scopes, seq : Nat \cup {None}]),
     links : SUBSET (Entries \X Entries),
     places : {p \in SUBSET Coordinate : IsFiniteSet(p)}, review : BOOLEAN]

Relabel ==
    [op : {"relabel"}, about : Abouts, key : Keys, entry : Entries,
     add : SUBSET Scopes, remove : SUBSET Scopes]

ASSUME HostAssumption == Host \in [Tasks -> Kernels]
ASSUME OwnerAssumption == Owner \in [Entries -> Abouts]
ASSUME CommandAssumption == Commands \subseteq Ingest \cup Relabel
ASSUME StoredAssumption == Stored \in [Abouts -> Slice]
                           /\ \A a \in Abouts : IsFiniteSet(Stored[a].at)
ASSUME BoundAssumption == MaxCalls \in Nat /\ CacheLimit \in Nat
ASSUME NoneAssumption ==
    None \notin Nat \cup Tasks \cup Slice \cup [cmd : Commands, rev : Nat]

VARIABLES
    rev,        \* per about: its revision
    memory,     \* per about: what is projected of it
    accepted,   \* per key: the command it was accepted with, and the revision
    cache,      \* per process, about and scope: the frontier kept, if any
    readers,    \* per process: the tasks holding its projection guard to read
    writer,     \* per process: the task holding it to write
    call,       \* per task: the call it is making
    shown,      \* per task: the token of the last neighbourhood it was shown
    calls       \* calls made so far

store == <<rev, memory, accepted>>
guard == <<readers, writer>>
vars == <<store, cache, guard, call, shown, calls>>

NoPlan == [known |-> {}, sets |-> {}, gone |-> {}, links |-> {}]

Idle(reply) ==
    [pc |-> "idle", cmd |-> None, token |-> None,
     sampled |-> [a \in Abouts |-> None], saw |-> [a \in Abouts |-> None],
     top |-> [s \in Scopes |-> None], stood |-> {}, todo |-> {},
     found |-> {}, plan |-> NoPlan, owner |-> None, done |-> None, reply |-> reply]

Init ==
    /\ memory = Stored
    /\ rev = [a \in Abouts |-> IF Stored[a] = EmptySlice THEN 0 ELSE 1]
    /\ accepted = [k \in Keys |-> None]
    /\ cache = [k \in Kernels |-> [x \in Abouts \X Scopes |-> None]]
    /\ readers = [k \in Kernels |-> {}]
    /\ writer = [k \in Kernels |-> None]
    /\ call = [t \in Tasks |-> Idle("none")]
    /\ shown = [t \in Tasks |-> None]
    /\ calls = 0

-----------------------------------------------------------------------------
(* What a command reads and asks. *)

\* Several relations of the reviewed kind make a write one to be reviewed.
Reviewing(c) == c.op = "ingest" /\ c.review /\ c.links # {}

ConsistentRead(c) == Reviewing(c) \/ c.writes = <<>>

Foreign(c) == {e \in {l[2] : l \in c.links} : Owner[e] # c.about}

\* The coordinates whose sequence is left to the kernel.
OpenScopes(c) == {c.writes[i].scope : i \in {j \in 1..Len(c.writes) :
                                               c.writes[j].seq = None}}

Written(c) == {c.writes[i].entry : i \in 1..Len(c.writes)}

\* The labels under which its relations place entries, and those entries.
PlaceScopes(c) == {p.scope : p \in c.places}

PlaceEntries(c) == {p.entry : p \in c.places}

\* The highest sequence a coordinate of the about holds.
Frontier(slice, s) ==
    Max({0} \cup {x.seq : x \in {y \in slice.at : y.scope = s}})

Labels(slice, e) == {x.scope : x \in {y \in slice.at : y.entry = e}}

\* Where coordinate w leaves the frontiers it is numbered from; a frontier
\* that was not loaded stays unknown.
After(top, w) ==
    IF top[w.scope] = None THEN top
    ELSE [top EXCEPT ![w.scope] = IF w.seq = None THEN @ + 1 ELSE Max({@, w.seq})]

\* The frontiers before the first coordinate of c and after each, in order.
Tops(c, base) ==
    LET top[i \in 0 .. Len(c.writes)] ==
            IF i = 0 THEN base ELSE After(top[i - 1], c.writes[i])
    IN top

\* The edges `at` with those of `over` written over them: an edge is known by
\* its ends alone, and the last upsert of it stands.
Over(at, over) ==
    {x \in at : \A y \in over : <<y.entry, y.scope>> # <<x.entry, x.scope>>}
    \cup over

\* namespaced_memory: coordinates take their sequences in order, each past
\* the frontier left by those before it.
Numbered(c, base) ==
    LET top == Tops(c, base)
        Coord(i) == [entry |-> c.writes[i].entry, scope |-> c.writes[i].scope,
                     seq |-> IF c.writes[i].seq = None THEN top[i][c.writes[i].scope]
                                                       ELSE c.writes[i].seq]
    IN {Coord(i) : i \in 1 .. Len(c.writes)}

\* write_catalogue::advanced computes over again, from the frontiers that
\* were loaded, where those sequences left them.
Advanced(c, top) == Tops(c, top)[Len(c.writes)]

-----------------------------------------------------------------------------
(* build_neighborhood: what the token of a reviewed write is a digest of.  *)

\* The stored entries of about a that bear on command c: its endpoints and
\* what is related to them; in its own about also what shares a label with
\* the entries written (with the endpoints, if none is).
Bearing(c, a, slice) ==
    LET endpoints == UNION {{l[1], l[2]} : l \in c.links} \cup PlaceEntries(c)
        labels == IF c.writes = <<>>
                    THEN UNION {Labels(slice, e) : e \in endpoints}
                    ELSE {c.writes[i].scope : i \in 1..Len(c.writes)}
        scoped == {e \in Entries : a = c.about
                                   /\ Labels(slice, e) \cap labels # {}}
        conflicts == UNION {{l[1], l[2]} : l \in {k \in slice.links :
                       {k[1], k[2]} \cap (endpoints \cup scoped) # {}}}
    IN slice.known \cap (endpoints \cup scoped \cup conflicts)

\* The edges of about a that end in what bears on c; a label that a relation
\* of c starts from is an endpoint too, with all its edges.
Edges(c, a, slice, sources) ==
    {x \in slice.at : \/ x.entry \in sources
                      \/ a = c.about /\ x.scope \in PlaceScopes(c)}

Neighborhood(c, m, read) ==
    LET sources == UNION {Bearing(c, a, m[a]) : a \in read}
        all == UNION {m[a].links : a \in read}
    IN [cmd |-> c,
        sources |-> UNION {Edges(c, a, m[a], sources) : a \in read},
        links |-> {l \in all : {l[1], l[2]} \cap sources # {}}]

-----------------------------------------------------------------------------
(* Steps of a call *)

Goto(t, step) == call' = [call EXCEPT ![t].pc = step]

Release(t) ==
    /\ readers' = [readers EXCEPT ![Host[t]] = @ \ {t}]
    /\ writer' = [writer EXCEPT ![Host[t]] = IF @ = t THEN None ELSE @]

\* The call is answered; whatever guard it holds is dropped with its frame.
Answer(t, reply) ==
    /\ call' = [call EXCEPT ![t] = Idle(reply)]
    /\ Release(t)

FirstStep(c) ==
    IF c.op = "relabel" THEN "existing"
    ELSE IF ConsistentRead(c) THEN "enter" ELSE "sample"

\* A reviewed write carries the token its caller was last shown.
Call(t, c) ==
    /\ call[t].pc = "idle"
    /\ calls < MaxCalls
    /\ calls' = calls + 1
    /\ call' = [call EXCEPT ![t] = [Idle("none") EXCEPT
                    !.pc = FirstStep(c), !.cmd = c,
                    !.todo = IF c.op = "ingest" THEN Foreign(c) ELSE {},
                    !.token = IF c.op = "ingest" /\ c.review THEN shown[t]
                                                             ELSE None]]
    /\ UNCHANGED <<store, cache, guard, shown>>

EnterRead(t) ==
    /\ call[t].pc = "enter"
    /\ writer[Host[t]] = None
    /\ readers' = [readers EXCEPT ![Host[t]] = @ \cup {t}]
    /\ Goto(t, "sample")
    /\ UNCHANGED <<store, cache, writer, shown, calls>>

SampleRevision(t) ==
    LET c == call[t].cmd IN
    /\ call[t].pc = "sample"
    /\ call' = [call EXCEPT
                  ![t].sampled[c.about] = rev[c.about],
                  ![t].pc = IF ConsistentRead(c) THEN "read" ELSE "catalogue"]
    /\ UNCHANGED <<store, cache, guard, shown, calls>>

Read(t) ==
    LET a == call[t].cmd.about IN
    /\ call[t].pc = "read"
    /\ call' = [call EXCEPT ![t].saw[a] = memory[a],
                            ![t].pc = "foreign"]
    /\ UNCHANGED <<store, cache, guard, shown, calls>>

\* The cached frontier of a scope, if it was kept at the sampled revision.
Cached(t, s) ==
    LET a == call[t].cmd.about
        kept == cache[Host[t]][<<a, s>>] IN
    IF kept # None /\ kept.rev = call[t].sampled[a] THEN kept.top ELSE None

\* The catalogue: does the about exist, and which of the frontiers the write
\* needs does this process already hold?
Catalogue(t) ==
    LET c == call[t].cmd IN
    /\ call[t].pc = "catalogue"
    /\ IF rev[c.about] = 0
         THEN Goto(t, "foreign")
         ELSE call' = [call EXCEPT
                 ![t].top = [s \in Scopes |->
                     IF s \in OpenScopes(c) THEN Cached(t, s) ELSE None],
                 ![t].pc = "facts"]
    /\ UNCHANGED <<store, cache, guard, shown, calls>>

\* The refs that stand in the about, and the frontiers not held in memory.
Facts(t) ==
    LET c == call[t].cmd IN
    /\ call[t].pc = "facts"
    /\ call' = [call EXCEPT
                  ![t].saw[c.about] = [memory[c.about] EXCEPT !.at = {}],
                  ![t].top = [s \in Scopes |->
                      IF s \in OpenScopes(c) /\ @[s] = None
                        THEN Frontier(memory[c.about], s) ELSE @[s]],
                  ![t].pc = "foreign"]
    /\ UNCHANGED <<store, cache, guard, shown, calls>>

\* The endpoint of an equivalence is looked for in the other abouts; a
\* consistent read samples its about before reading it.
Locate(t, e) ==
    LET c == call[t].cmd
        o == Owner[e]
        held == e \in memory[o].known
        first == held /\ ConsistentRead(c) /\ call[t].saw[o] = None IN
    /\ call[t].pc = "foreign"
    /\ e \in call[t].todo
    /\ call' = [call EXCEPT ![t] = [@ EXCEPT
                  !.todo = call[t].todo \ {e},
                  !.found = call[t].found \cup (IF held THEN {e} ELSE {}),
                  !.owner = o,
                  !.sampled[o] = IF first THEN rev[o] ELSE call[t].sampled[o],
                  !.pc = IF first THEN "foreign_read" ELSE "foreign"]]
    /\ UNCHANGED <<store, cache, guard, shown, calls>>

ReadForeign(t) ==
    LET o == call[t].owner IN
    /\ call[t].pc = "foreign_read"
    /\ call' = [call EXCEPT ![t].saw[o] = memory[o], ![t].pc = "foreign"]
    /\ UNCHANGED <<store, cache, guard, shown, calls>>

ReadAbouts(t) == {a \in Abouts : call[t].saw[a] # None}

\* The refs a relation may name: what was read of the about, what the write
\* itself brings, and the equivalences found in other abouts.
IsKnown(t, e) ==
    LET c == call[t].cmd IN
    \/ call[t].saw[c.about] # None /\ e \in call[t].saw[c.about].known
    \/ e \in Written(c)
    \/ e \in call[t].found

\* The frontiers numbering starts from.
Base(t) ==
    LET c == call[t].cmd IN
    [s \in Scopes |->
        IF ConsistentRead(c)
          THEN Frontier(call[t].saw[c.about], s)
          ELSE IF call[t].top[s] = None THEN 0 ELSE call[t].top[s]]

IngestPlan_Unnumbered(t) ==
    LET c == call[t].cmd IN
    [known |-> Written(c),
     sets |-> Over({c.writes[i] : i \in 1..Len(c.writes)}, c.places),
     gone |-> {}, links |-> c.links]

\* The changes of an event are its entries and then its relations: an edge
\* one of them places stands over the coordinate of the entry.
IngestPlan(t) ==
    LET c == call[t].cmd IN
    [known |-> Written(c), sets |-> Over(Numbered(c, Base(t)), c.places),
     gone |-> {}, links |-> c.links]

Leave_Guarded(t, plan) ==
    /\ call' = [call EXCEPT ![t].plan = plan, ![t].pc = "wait"]
    /\ UNCHANGED guard

\* Decided: the projection guard is dropped, and the change may be committed.
Leave(t, plan) ==
    /\ call' = [call EXCEPT ![t].plan = plan, ![t].pc = "wait"]
    /\ Release(t)

\* translate_memory_ingest, and whether what it stands on is to be reviewed:
\* not under a key that was accepted before.
TranslateIngest(t) ==
    LET c == call[t].cmd IN
    /\ call[t].pc = "foreign"
    /\ call[t].todo = {}
    /\ IF \/ \E l \in c.links : ~IsKnown(t, l[1]) \/ ~IsKnown(t, l[2])
          \/ \E e \in PlaceEntries(c) : ~IsKnown(t, e)
         THEN Answer(t, "refused")
         ELSE IF Reviewing(c) /\ accepted[c.key] = None
                THEN /\ call' = [call EXCEPT ![t].plan = IngestPlan(t),
                                             ![t].todo = ReadAbouts(t),
                                             ![t].pc = "review"]
                     /\ UNCHANGED guard
                ELSE Leave(t, IngestPlan(t))
    /\ UNCHANGED <<store, cache, shown, calls>>

\* A neighbourhood is coherent when no about of it moved while it was read.
Recheck(t, a) ==
    /\ call[t].pc = "review"
    /\ a \in call[t].todo
    /\ IF rev[a] = call[t].sampled[a]
         THEN call' = [call EXCEPT ![t].todo = @ \ {a}] /\ UNCHANGED guard
         ELSE Answer(t, "retry")
    /\ UNCHANGED <<store, cache, shown, calls>>

\* Only the token of this very neighbourhood lets the write through; any
\* other answer is the neighbourhood itself.
Review(t) ==
    LET c == call[t].cmd
        token == Neighborhood(c, call[t].saw, ReadAbouts(t)) IN
    /\ call[t].pc = "review"
    /\ call[t].todo = {}
    /\ IF call[t].token = token
         THEN Leave(t, call[t].plan) /\ UNCHANGED shown
         ELSE Answer(t, "review") /\ shown' = [shown EXCEPT ![t] = token]
    /\ UNCHANGED <<store, cache, calls>>

-----------------------------------------------------------------------------
(* Relabel: the catalogue, the entry's coordinates, the key. *)

ReadExisting(t) ==
    LET a == call[t].cmd.about IN
    /\ call[t].pc = "existing"
    /\ call' = [call EXCEPT ![t].saw[a] = memory[a],
                            ![t].pc = "coordinates"]
    /\ UNCHANGED <<store, cache, guard, shown, calls>>

ReadCoordinates(t) ==
    LET c == call[t].cmd IN
    /\ call[t].pc = "coordinates"
    /\ IF c.entry \in call[t].saw[c.about].known
         THEN /\ call' = [call EXCEPT
                            ![t].stood = Labels(memory[c.about], c.entry),
                            ![t].pc = "relabel"]
              /\ UNCHANGED guard
         ELSE Answer(t, "refused")
    /\ UNCHANGED <<store, cache, shown, calls>>

\* A label added must be new to the entry, one removed must stand, and one
\* at least must be left.
MayRelabel(t) ==
    LET c == call[t].cmd IN
    /\ call[t].stood # {}
    /\ c.add \cap (call[t].stood \cup c.remove) = {}
    /\ c.remove \subseteq call[t].stood
    /\ (call[t].stood \ c.remove) \cup c.add # {}

RelabelPlan(t) ==
    LET c == call[t].cmd IN
    [known |-> {},
     sets |-> {[entry |-> c.entry, scope |-> s,
                seq |-> Frontier(call[t].saw[c.about], s) + 1] : s \in c.add},
     gone |-> {<<c.entry, s>> : s \in c.remove},
     links |-> {}]

SameDigest(t) == accepted[call[t].cmd.key].cmd = call[t].cmd

\* An accepted key is answered before the translation, which would refuse
\* the labels its own first apply put there.
TranslateRelabel(t) ==
    LET k == call[t].cmd.key IN
    /\ call[t].pc = "relabel"
    /\ IF accepted[k] # None
         THEN Answer(t, IF SameDigest(t) THEN "replayed" ELSE "refused")
         ELSE IF MayRelabel(t) THEN Leave(t, RelabelPlan(t))
                               ELSE Answer(t, "refused")
    /\ UNCHANGED <<store, cache, shown, calls>>

-----------------------------------------------------------------------------
(* The commit *)

\* A dry run ends where the writing would begin.
DryRun(t) ==
    /\ call[t].pc = "wait"
    /\ Answer(t, "preview")
    /\ UNCHANGED <<store, cache, shown, calls>>

EnterWrite(t) ==
    /\ call[t].pc = "wait"
    /\ writer[Host[t]] = None
    /\ readers[Host[t]] = {}
    /\ writer' = [writer EXCEPT ![Host[t]] = t]
    /\ Goto(t, "key")
    /\ UNCHANGED <<store, cache, readers, shown, calls>>

Committed(t, r, replayed) ==
    /\ call' = [call EXCEPT ![t].done = [rev |-> r, replayed |-> replayed],
                            ![t].pc = "remember"]
    /\ Release(t)

\* A key accepted meanwhile: its outcome stands for this call's, or this is
\* another command under the same key.
CheckKey(t) ==
    LET k == call[t].cmd.key IN
    /\ call[t].pc = "key"
    /\ IF accepted[k] = None THEN Goto(t, "append") /\ UNCHANGED guard
       ELSE IF SameDigest(t) THEN Committed(t, accepted[k].rev, TRUE)
       ELSE Answer(t, "refused")
    /\ UNCHANGED <<store, cache, shown, calls>>

\* Pointed writes and relabels pass no revisions to compare.
Stands_Own(t) ==
    LET c == call[t].cmd IN
    c.op = "ingest" /\ ConsistentRead(c) => call[t].sampled[c.about] = rev[c.about]

Stands_ForeignOnly(t) ==
    LET c == call[t].cmd IN
    c.op = "ingest" /\ ConsistentRead(c) =>
        \A a \in Abouts \ {c.about} : call[t].sampled[a] \in {None, rev[a]}

Stands(t) ==
    LET c == call[t].cmd IN
    c.op = "ingest" /\ ConsistentRead(c) =>
        \A a \in Abouts : call[t].sampled[a] \in {None, rev[a]}

Applied(slice, p) ==
    [known |-> slice.known \cup p.known,
     at |-> Over({x \in slice.at : <<x.entry, x.scope>> \notin p.gone}, p.sets),
     links |-> slice.links \cup p.links]

Commit(t) ==
    LET c == call[t].cmd IN
    /\ rev' = [rev EXCEPT ![c.about] = @ + 1]
    /\ memory' = [memory EXCEPT ![c.about] = Applied(@, call[t].plan)]
    /\ accepted' = [accepted EXCEPT ![c.key] =
                       [cmd |-> c, rev |-> rev[c.about] + 1]]
    /\ Committed(t, rev[c.about] + 1, FALSE)

AppendEvent(t) ==
    /\ call[t].pc = "append"
    /\ IF Stands(t) THEN Commit(t)
                    ELSE Answer(t, "retry") /\ UNCHANGED store
    /\ UNCHANGED <<cache, shown, calls>>

-----------------------------------------------------------------------------
(* SequenceFrontierCache *)

IsPointed(c) == c.op = "ingest" /\ ~ConsistentRead(c)

Kept(k) == {x \in Abouts \X Scopes : cache[k][x] # None}

Loaded(t) == {s \in Scopes : call[t].top[s] # None}

MayRemember_AnyRevision(t) ==
    IsPointed(call[t].cmd) /\ ~call[t].done.replayed

\* Nobody wrote between the sample and the commit when it moved the about
\* exactly one revision: what the write assigned is the frontier now.
MayRemember(t) ==
    /\ IsPointed(call[t].cmd)
    /\ ~call[t].done.replayed
    /\ call[t].done.rev = call[t].sampled[call[t].cmd.about] + 1

Finish(t) ==
    LET a == call[t].cmd.about
        k == Host[t]
        full == Cardinality(Kept(k)) + Cardinality(Loaded(t)) > CacheLimit
        top == Advanced(call[t].cmd, call[t].top) IN
    /\ call[t].pc = "remember"
    /\ cache' =
         IF ~MayRemember(t) \/ Loaded(t) = {} THEN cache
         ELSE [cache EXCEPT ![k] = [x \in Abouts \X Scopes |->
                 IF x[1] = a /\ x[2] \in Loaded(t)
                   THEN [rev |-> call[t].done.rev, top |-> top[x[2]]]
                   ELSE IF full THEN None ELSE @[x]]]
    /\ Answer(t, IF call[t].done.replayed THEN "replayed" ELSE "accepted")
    /\ UNCHANGED <<store, shown, calls>>

-----------------------------------------------------------------------------
\* A request fails or the caller goes away: the call is over, its guard gone.
Fail(t) ==
    /\ call[t].pc # "idle"
    /\ Answer(t, "error")
    /\ UNCHANGED <<store, cache, shown, calls>>

Work(t) ==
    \/ SampleRevision(t)
    \/ Read(t)
    \/ Catalogue(t)
    \/ Facts(t)
    \/ \E e \in Entries : Locate(t, e)
    \/ ReadForeign(t)
    \/ TranslateIngest(t)
    \/ \E a \in Abouts : Recheck(t, a)
    \/ Review(t)
    \/ ReadExisting(t)
    \/ ReadCoordinates(t)
    \/ TranslateRelabel(t)
    \/ CheckKey(t)
    \/ AppendEvent(t)
    \/ Finish(t)

\* No further call is made and none is in progress.
Quiet ==
    /\ calls = MaxCalls
    /\ \A t \in Tasks : call[t].pc = "idle"
    /\ UNCHANGED vars

Next ==
    \/ \E t \in Tasks :
          \/ \E c \in Commands : Call(t, c)
          \/ EnterRead(t) \/ Work(t) \/ DryRun(t) \/ EnterWrite(t) \/ Fail(t)
    \/ Quiet

Spec == Init /\ [][Next]_vars

\* A call that can go on does, and tokio's RwLock queues its waiters.
Fairness ==
    \A t \in Tasks :
        WF_vars(Work(t)) /\ SF_vars(EnterRead(t)) /\ SF_vars(EnterWrite(t))

FairSpec == Spec /\ Fairness

-----------------------------------------------------------------------------
(* Properties *)

Steps == {"idle", "enter", "sample", "read", "catalogue", "facts", "foreign",
          "foreign_read", "review", "existing", "coordinates", "relabel",
          "wait", "key", "append", "remember"}

Replies == {"none", "accepted", "replayed", "refused", "retry", "review",
            "preview", "error"}

\* The type of every variable; in particular every stored coordinate has a
\* sequence, and a plan never holds one that was left open.
TypeOK ==
    /\ rev \in [Abouts -> Nat]
    /\ \A a \in Abouts : memory[a] \in Slice
    /\ \A k \in Keys : accepted[k] = None \/ accepted[k].rev \in Nat
    /\ \A k \in Kernels : \A x \in Abouts \X Scopes :
          cache[k][x] = None \/ cache[k][x] \in [rev : Nat, top : Nat]
    /\ readers \in [Kernels -> SUBSET Tasks]
    /\ writer \in [Kernels -> Tasks \cup {None}]
    /\ \A t \in Tasks :
          /\ call[t].pc \in Steps
          /\ call[t].reply \in Replies
          /\ call[t].sampled \in [Abouts -> Nat \cup {None}]
          /\ call[t].top \in [Scopes -> Nat \cup {None}]
          /\ call[t].plan.sets \subseteq Coordinate
    /\ calls \in Nat

\* A frontier kept of a label is the store's while its revision is the about's.
KeptIsExact(k, a, s) ==
    LET kept == cache[k][<<a, s>>] IN
    kept # None /\ kept.rev = rev[a] => kept.top = Frontier(memory[a], s)

\* No caller leaves a sequence under this label to the kernel in a pointed
\* write that also places an entry there by a relation.
Unplaced(a, s) ==
    \A c \in Commands :
        c.about = a /\ IsPointed(c) => s \notin OpenScopes(c) \cap PlaceScopes(c)

\* Whatever was read late, replayed, relabelled, placed by relation or written
\* by other processes, the numbers a process gives from memory are those of
\* the store, under every label that is unplaced: what a relation of the very
\* write that is remembered did there, `advanced` does not count.
FrontierIsExact ==
    \A k \in Kernels, a \in Abouts, s \in Scopes :
        Unplaced(a, s) => KeptIsExact(k, a, s)

Commits(t) == call[t].pc = "append" /\ call'[t].pc = "remember"

\* A reviewed write commits only onto the neighbourhood its writer was shown,
\* in its own about and in those its equivalences reach, although other
\* processes write between the showing, the reading and the commit.
ReviewedIsCurrent ==
    [][\A t \in Tasks :
         Commits(t) /\ Reviewing(call[t].cmd) =>
            LET read == {a \in Abouts : call[t].saw[a] # None} IN
            call[t].token = Neighborhood(call[t].cmd, memory, read)]_vars

\* The edges whose sequence is the kernel's: left open by an entry, and not
\* placed over by a relation of the same write.
Assigned(c) ==
    {<<c.writes[i].entry, c.writes[i].scope>> :
        i \in {j \in 1..Len(c.writes) : c.writes[j].seq = None}}
    \ {<<p.entry, p.scope>> : p \in c.places}

\* The edges `sets` give edge p a sequence past n.
Past(sets, p, n) == \E x \in sets : <<x.entry, x.scope>> = p /\ x.seq > n

\* A consistent write takes sequences nobody has: each one the kernel assigns
\* is past everything the about holds of its label when the write commits.
ConsistentIsFresh ==
    [][\A t \in Tasks :
         LET c == call[t].cmd IN
         Commits(t) /\ c.op = "ingest" /\ ConsistentRead(c) =>
            \A p \in Assigned(c) :
               Past(call[t].plan.sets, p, Frontier(memory[c.about], p[2]))]_vars

\* Every call is answered: no path keeps the projection guard it read under
\* while it waits to write.
CallsAreAnswered ==
    \A t \in Tasks : call[t].pc # "idle" ~> call[t].pc = "idle"

\* "An entry stands in at least one [label], which is where its time lives."
EntryKeepsALabel ==
    \A a \in Abouts : \A e \in memory[a].known : Labels(memory[a], e) # {}
=============================================================================
