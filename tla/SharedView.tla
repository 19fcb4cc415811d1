----------------------------- MODULE SharedView -----------------------------
(***************************************************************************)
(* The view registry of one process (kmp-viewer, view/): the open sessions *)
(* under one lock, the bell that rings when any view moves, and the        *)
(* clients around them, agents over MCP and browsers over HTTP.            *)
(*                                                                         *)
(* The lock makes every judgment atomic.  The bell is rung after the lock  *)
(* is released, a browser's report is a read, an open and an intent, and a *)
(* long poll listens, reads and waits: between these, others move.         *)
(*                                                                         *)
(* Sessions live in memory.  A view untouched for VIEW_TTL is pruned, and  *)
(* a process that ends takes all of them along; Forget is either.          *)
(*                                                                         *)
(* As in ViewSession, a definition whose name ends in "_" and a word is a  *)
(* faulty variant of the one after it.                                     *)
(***************************************************************************)
EXTENDS ViewSession

CONSTANTS
    Clients, Views,
    Intents,       \* the intents clients may send
    Prepared,      \* facets an agent prepares and a browser never reports
    MayForget,     \* sessions may be pruned, or the process restarted
    MaxCalls       \* bound on the calls made in one behaviour

ASSUME ViewsAssumption == Views # {}
ASSUME IntentsAssumption == Intents \subseteq Intent
ASSUME PreparedAssumption == Prepared \subseteq Facets
ASSUME CallsAssumption == MaxCalls \in Nat /\ MayForget \in BOOLEAN

VARIABLES
    views,      \* per view id: the open session
    pc, id,     \* per client: where its call stands, and the view it is on
    intent,     \* per client: what its report says
    since,      \* per client: the revision its poll has
    woken,      \* per client: whether the bell rang since its poll listened
    seen,       \* per client and view: the last state it was shown
    calls,      \* calls made so far
    basis,      \* per client: the state a checked move was decided on and
                \* the state it replaced (a history variable)
    claims      \* per view: every key judged anew since the view was opened,
                \* in order (a history variable)

vars == <<views, pc, id, intent, since, woken, seen, calls, basis, claims>>

Init ==
    /\ views = [v \in Views |-> None]
    /\ pc = [c \in Clients |-> "idle"]
    /\ id = [c \in Clients |-> CHOOSE v \in Views : TRUE]
    /\ intent = [c \in Clients |-> None]
    /\ since = [c \in Clients |-> 0]
    /\ woken = [c \in Clients |-> FALSE]
    /\ seen = [c \in Clients |-> [v \in Views |-> None]]
    /\ calls = 0
    /\ basis = [c \in Clients |-> None]
    /\ claims = [v \in Views |-> <<>>]

-----------------------------------------------------------------------------
(* Operations *)

Starts(c, v, step) ==
    /\ pc[c] = "idle"
    /\ calls < MaxCalls
    /\ calls' = calls + 1
    /\ id' = [id EXCEPT ![c] = v]
    /\ pc' = [pc EXCEPT ![c] = step]

Shows(c, v, state) == seen' = [seen EXCEPT ![c][v] = state]

\* What a caller may expect: nothing, that no view is open (0), or the
\* revision it was last shown.
Expectations(c, v) ==
    {None, 0} \cup (IF seen[c][v] = None THEN {} ELSE {seen[c][v].revision})

\* The outcome of an operation on an open view, and what c learns of it: an
\* error names the revision, not the state.
Answered(c, v, outcome, expected) ==
    /\ views' = [views EXCEPT ![v] = outcome.session]
    /\ IF outcome.kind \in {"same", "moved"} THEN Shows(c, v, outcome.shown)
                                            ELSE UNCHANGED seen
    /\ basis' = [basis EXCEPT ![c] =
                    IF expected # None /\ outcome.kind = "moved"
                      THEN [seen |-> seen[c][v], replaced |-> views[v].state]
                      ELSE None]

NextStep(outcome) == IF outcome.kind = "moved" THEN "ring" ELSE "idle"

Opens(c, v, about) ==
    /\ views' = [views EXCEPT ![v] = Opened(about)]
    /\ claims' = [claims EXCEPT ![v] = <<>>]
    /\ Shows(c, v, Fresh(about))
    /\ basis' = [basis EXCEPT ![c] = None]

\* OpenView.  A vacant slot satisfies only the expectation of absence, or
\* none; with another, and for every other operation on it, the answer is
\* that no such view is known.
Open(c, v, about, expected) ==
    /\ views[v] = None
    /\ expected \in {None, 0}
    /\ Starts(c, v, "ring")
    /\ Opens(c, v, about)
    /\ UNCHANGED <<intent, since, woken>>

OpenAgain(c, v, about, actor, expected) ==
    LET outcome == Reopen(views[v], about, expected, actor) IN
    /\ views[v] # None
    /\ Starts(c, v, NextStep(outcome))
    /\ Answered(c, v, outcome, expected)
    /\ UNCHANGED <<intent, since, woken, claims>>

\* What an intent adds to the record of a view's claims.
Claimed(v, i, outcome) ==
    claims' = IF \/ i.claim = None
                 \/ Honors(views[v], i.claim)
                 \/ outcome.kind = "conflict"
                THEN claims
                ELSE [claims EXCEPT ![v] = Append(@, i.claim.key)]

ApplyIntent(c, v, i, expected) ==
    LET outcome == Judge(views[v], i, expected) IN
    /\ views[v] # None
    /\ Starts(c, v, NextStep(outcome))
    /\ Answered(c, v, outcome, expected)
    /\ Claimed(v, i, outcome)
    /\ UNCHANGED <<intent, since, woken>>

TakeViewControl(c, v, expected) ==
    LET outcome == TakeControl(views[v], expected) IN
    /\ views[v] # None
    /\ expected # None
    /\ Starts(c, v, NextStep(outcome))
    /\ Answered(c, v, outcome, expected)
    /\ UNCHANGED <<intent, since, woken, claims>>

UndoViewMove_Silent(c, v, actor) ==
    LET outcome == Undo(views[v], actor) IN
    /\ views[v] # None
    /\ Starts(c, v, "idle")
    /\ Answered(c, v, outcome, None)
    /\ UNCHANGED <<intent, since, woken, claims>>

UndoViewMove(c, v, actor) ==
    LET outcome == Undo(views[v], actor) IN
    /\ views[v] # None
    /\ Starts(c, v, NextStep(outcome))
    /\ Answered(c, v, outcome, None)
    /\ UNCHANGED <<intent, since, woken, claims>>

GetViewState(c, v) ==
    /\ views[v] # None
    /\ Starts(c, v, "idle")
    /\ Shows(c, v, views[v].state)
    /\ UNCHANGED <<views, intent, since, woken, basis, claims>>

Ring_Nobody(c) ==
    /\ pc[c] \in {"ring", "ringreport"}
    /\ pc' = [pc EXCEPT ![c] = IF @ = "ring" THEN "idle" ELSE "report"]
    /\ UNCHANGED <<views, id, intent, since, woken, seen, calls, basis, claims>>

\* notify_waiters: every poll that listens by now, on any view.
Ring(c) ==
    /\ pc[c] \in {"ring", "ringreport"}
    /\ pc' = [pc EXCEPT ![c] = IF @ = "ring" THEN "idle" ELSE "report"]
    /\ woken' = [p \in Clients |-> woken[p] \/ pc[p] \in {"read", "waiting"}]
    /\ UNCHANGED <<views, id, intent, since, seen, calls, basis, claims>>

-----------------------------------------------------------------------------
(* view_report: is a view open, open one unconditionally if not, apply. *)

Report(c, v, i) ==
    /\ i.actor = Human
    /\ i.claim = None
    /\ DOMAIN i.patch.sets \cap Prepared = {}
    /\ Starts(c, v, IF views[v] = None THEN "ensure" ELSE "report")
    /\ intent' = [intent EXCEPT ![c] = i]
    /\ UNCHANGED <<views, since, woken, seen, basis, claims>>

\* ensure_open, in the actor "agent".
EnsureOpen(c, actor) ==
    LET v == id[c]
        about == intent[c].patch.about
        outcome == Reopen(views[v], about, None, actor)
    IN
    /\ pc[c] = "ensure"
    /\ actor # Human
    /\ IF views[v] = None
         THEN /\ Opens(c, v, about)
              /\ pc' = [pc EXCEPT ![c] = "ringreport"]
         ELSE /\ Answered(c, v, outcome, None)
              /\ pc' = [pc EXCEPT ![c] = IF outcome.kind = "moved"
                                           THEN "ringreport" ELSE "report"]
              /\ UNCHANGED claims
    /\ UNCHANGED <<id, intent, since, woken, calls>>

ReportIntent(c) ==
    LET v == id[c]
        outcome == Judge(views[v], intent[c], None)
    IN
    /\ pc[c] = "report"
    /\ IF views[v] = None
         THEN /\ pc' = [pc EXCEPT ![c] = "idle"]
              /\ UNCHANGED <<views, seen, basis>>
         ELSE /\ Answered(c, v, outcome, None)
              /\ pc' = [pc EXCEPT ![c] = NextStep(outcome)]
    /\ intent' = [intent EXCEPT ![c] = None]
    /\ UNCHANGED <<id, since, woken, calls, claims>>

-----------------------------------------------------------------------------
(* AwaitViewChange: one long poll. *)

Poll(c, v) ==
    /\ seen[c][v] # None
    /\ Starts(c, v, "listen")
    /\ since' = [since EXCEPT ![c] = seen[c][v].revision]
    /\ UNCHANGED <<views, intent, woken, seen, basis, claims>>

Listen(c) ==
    /\ pc[c] = "listen"
    /\ pc' = [pc EXCEPT ![c] = "read"]
    /\ woken' = [woken EXCEPT ![c] = FALSE]
    /\ UNCHANGED <<views, id, intent, since, seen, calls, basis, claims>>

Read(c) ==
    LET view == views[id[c]] IN
    /\ pc[c] = "read"
    /\ IF view = None \/ view.state.revision > since[c]
         THEN /\ pc' = [pc EXCEPT ![c] = "idle"]
              /\ Shows(c, id[c], IF view = None THEN None ELSE view.state)
         ELSE /\ pc' = [pc EXCEPT ![c] = "waiting"]
              /\ UNCHANGED seen
    /\ UNCHANGED <<views, id, intent, since, woken, calls, basis, claims>>

Wake(c) ==
    /\ pc[c] = "waiting"
    /\ woken[c]
    /\ pc' = [pc EXCEPT ![c] = "listen"]
    /\ UNCHANGED <<views, id, intent, since, woken, seen, calls, basis, claims>>

\* The poll's patience runs out.
Expire(c) ==
    /\ pc[c] = "waiting"
    /\ ~woken[c]
    /\ pc' = [pc EXCEPT ![c] = "last"]
    /\ UNCHANGED <<views, id, intent, since, woken, seen, calls, basis, claims>>

LastRead(c) ==
    LET view == views[id[c]] IN
    /\ pc[c] = "last"
    /\ pc' = [pc EXCEPT ![c] = "idle"]
    /\ Shows(c, id[c], IF view = None THEN None ELSE view.state)
    /\ UNCHANGED <<views, id, intent, since, woken, calls, basis, claims>>

-----------------------------------------------------------------------------
\* The view is pruned, or the process is started anew: nobody is told.
Forget(v) ==
    /\ MayForget
    /\ views[v] # None
    /\ \A c \in Clients : pc[c] = "idle"
    /\ views' = [views EXCEPT ![v] = None]
    /\ UNCHANGED <<pc, id, intent, since, woken, seen, calls, basis, claims>>

Quiet ==
    /\ calls = MaxCalls
    /\ \A c \in Clients : pc[c] \in {"idle", "waiting"}
    /\ UNCHANGED vars

Calls(c) ==
    \E v \in Views :
        \/ \E e \in Expectations(c, v) :
              \/ \E about \in Optional(Abouts) :
                    \/ Open(c, v, about, e)
                    \/ \E actor \in Actors : OpenAgain(c, v, about, actor, e)
              \/ \E i \in Intents : ApplyIntent(c, v, i, e)
              \/ TakeViewControl(c, v, e)
        \/ \E actor \in Actors : UndoViewMove(c, v, actor)
        \/ GetViewState(c, v)
        \/ \E i \in Intents : Report(c, v, i)
        \/ Poll(c, v)

\* The step a call in progress takes by itself.
Proceeds(c) ==
    \/ Ring(c)
    \/ \E actor \in Actors : EnsureOpen(c, actor)
    \/ ReportIntent(c)
    \/ Listen(c)
    \/ Read(c)
    \/ Wake(c)
    \/ LastRead(c)

Next ==
    \/ \E c \in Clients : Calls(c) \/ Proceeds(c) \/ Expire(c)
    \/ \E v \in Views : Forget(v)
    \/ Quiet

Spec == Init /\ [][Next]_vars

\* A call that can go on does.  No client has to call, and a poll's patience
\* is not relied upon.
Fairness == \A c \in Clients : WF_vars(Proceeds(c))

FairSpec == Spec /\ Fairness

-----------------------------------------------------------------------------
(* Properties *)

Steps == {"idle", "ring", "ensure", "ringreport", "report", "listen", "read",
          "waiting", "last"}

\* The type of the registry and of the calls on it.
TypeOK ==
    /\ views \in [Views -> Optional(Session)]
    /\ pc \in [Clients -> Steps]
    /\ id \in [Clients -> Views]
    /\ intent \in [Clients -> Optional(Intents)]
    /\ since \in [Clients -> Nat]
    /\ woken \in [Clients -> BOOLEAN]
    /\ seen \in [Clients -> [Views -> Optional(ViewState)]]
    /\ calls \in Nat
    /\ basis \in [Clients ->
                    Optional([seen : Optional(ViewState),
                              replaced : ViewState])]
    /\ claims \in [Views -> Seq(Keys)]

\* The revision is the identity of what is shown: no operation, a step back
\* or a change of about included, changes an open view and keeps or reuses
\* its revision.
NothingMovesSilently ==
    [][\A v \in Views :
          /\ views[v] # None
          /\ views'[v] # None
          /\ views'[v].state # views[v].state
          => views'[v].state.revision = views[v].state.revision + 1]_vars

\* "If the human moved the loom while the agent was thinking, the agent is
\* told so": a checked operation moves the view only from the very state its
\* caller was shown.
MovesFromWhatWasSeen ==
    \A c \in Clients :
        basis[c] # None => basis[c].seen = basis[c].replaced

\* A retried key is not a second intent while the session still remembers it,
\* that is, until IdempotencyLimit other keys were judged.
KeysAreJudgedOnce ==
    \A v \in Views : \A i, j \in 1..Len(claims[v]) :
        i < j /\ claims[v][i] = claims[v][j] => j - i > IdempotencyLimit

\* A replay never answers with a revision the view has not reached, however
\* often it was reopened since: judge's max() changes nothing.
HonoredIsPast ==
    \A v \in Views :
        views[v] # None =>
            \A i \in 1..Len(views[v].honored) :
                views[v].honored[i].revision <= views[v].state.revision

\* can_undo is the truth: the flag both faces read says whether a step back
\* would succeed, also once the oldest moves have dropped out.
CanUndoIsTrue ==
    \A v \in Views :
        views[v] # None =>
            (views[v].state.canUndo <=> views[v].history # <<>>)

\* "A change that lands between the read and the await would otherwise be
\* missed": a poll that waits unwoken while its view is past the revision it
\* has is about to be woken.
NoNewsIsMissed ==
    \A c \in Clients :
        /\ pc[c] = "waiting"
        /\ ~woken[c]
        /\ views[id[c]] # None
        /\ views[id[c]].state.revision > since[c]
        => \E d \in Clients : pc[d] \in {"ring", "ringreport"}

\* A waiting poll whose view has moved is answered, by the bell and not by
\* its patience.
NewsArrives ==
    \A c \in Clients :
        /\ pc[c] = "waiting"
        /\ views[id[c]] # None
        /\ views[id[c]].state.revision > since[c]
        ~> pc[c] = "idle"
=============================================================================
