---------------------------- MODULE ViewSession ----------------------------
(***************************************************************************)
(* The aggregate behind one shared loom (kmp-viewer, view/domain): the     *)
(* state a person and an agent both read, its reversible history and the   *)
(* idempotency keys it has honored.  The session is pure, and so is this   *)
(* module: each operation maps a session to an outcome.  SharedView runs   *)
(* the sessions of a process.                                              *)
(*                                                                         *)
(* What a view shows is its about and one value per facet (clock, focus,   *)
(* projection, selection, trace, paths, search).  A patch names the facets *)
(* it sets and leaves the others alone.                                    *)
(***************************************************************************)
EXTENDS Naturals, Sequences

CONSTANTS
    Abouts, Facets, Settings, Actors, Keys, Digests,
    Human,              \* the actor "human"
    Default,            \* the setting of a facet nobody has touched
    HistoryLimit,       \* moves that stay reversible
    IdempotencyLimit,   \* honored keys remembered
    None

Optional(S) == S \cup {None}

Looks == [Facets -> Settings]

ASSUME SettingsAssumption == Default \in Settings /\ Human \in Actors
ASSUME LimitAssumption == {HistoryLimit, IdempotencyLimit} \subseteq Nat \ {0}
ASSUME AbsenceAssumption ==
    None \notin Abouts \cup Settings \cup Actors \cup Keys \cup Digests

ViewState ==
    [about : Optional(Abouts), look : Looks, revision : Nat,
     last : Optional(Actors), canUndo : BOOLEAN]

Claim == [key : Keys, digest : Digests]

Record == [key : Keys, digest : Digests, revision : Nat]

Session ==
    [state : ViewState, history : Seq(ViewState), honored : Seq(Record)]

ASSUME AbsentAssumption == None \notin ViewState /\ None \notin Session

Patch ==
    [about : Optional(Abouts),
     sets : UNION {[F -> Settings] : F \in SUBSET Facets}]

Intent ==
    [patch : Patch, claim : Optional(Claim), actor : Actors]

Fresh(about) ==
    [about |-> about, look |-> [f \in Facets |-> Default], revision |-> 1,
     last |-> None, canUndo |-> FALSE]

Opened(about) ==
    [state |-> Fresh(about), history |-> <<>>, honored |-> <<>>]

\* The answer to an operation, the session it leaves and the state it hands
\* back; "conflict" and "refused" leave the session as it was.
Outcome(kind, session) ==
    [kind |-> kind, session |-> session, shown |-> session.state]

Newest(seq, limit) ==
    IF Len(seq) > limit THEN Tail(seq) ELSE seq

Stale(s, expected) == expected # None /\ expected # s.state.revision

Reopen_Rehydrate(s, about, expected, actor) ==
    IF about = None \/ about = s.state.about THEN Outcome("same", s)
    ELSE IF Stale(s, expected) THEN Outcome("conflict", s)
    ELSE Outcome("moved",
           [s EXCEPT !.state = [Fresh(about) EXCEPT !.last = actor],
                     !.history = <<>>])

\* The same about is a rehydrate; another one resets the camera.
Reopen(s, about, expected, actor) ==
    IF about = None \/ about = s.state.about THEN Outcome("same", s)
    ELSE IF Stale(s, expected) THEN Outcome("conflict", s)
    ELSE Outcome("moved",
           [s EXCEPT !.state = [Fresh(about) EXCEPT
                                  !.revision = s.state.revision + 1,
                                  !.last = actor],
                     !.history = <<>>])

Patched_Cleared(state, patch) ==
    [state EXCEPT
        !.about = IF patch.about = None THEN @ ELSE patch.about,
        !.look = [f \in Facets |->
                    IF f \in DOMAIN patch.sets THEN patch.sets[f] ELSE None]]

\* A facet the patch does not set survives untouched.
Patched(state, patch) ==
    [state EXCEPT
        !.about = IF patch.about = None THEN @ ELSE patch.about,
        !.look = [f \in Facets |->
                    IF f \in DOMAIN patch.sets THEN patch.sets[f] ELSE @[f]]]

Honors(s, claim) ==
    \E i \in 1..Len(s.honored) : s.honored[i].key = claim.key

Remember_Oldest(s, claim) ==
    IF claim = None \/ Len(s.honored) = IdempotencyLimit THEN s
    ELSE [s EXCEPT !.honored =
            Append(@, [key |-> claim.key, digest |-> claim.digest,
                       revision |-> s.state.revision])]

Remember(s, claim) ==
    IF claim = None THEN s
    ELSE [s EXCEPT !.honored =
            Newest(Append(@, [key |-> claim.key, digest |-> claim.digest,
                              revision |-> s.state.revision]),
                   IdempotencyLimit)]

\* next.apply(patch), the revision, the provenance and the undo step.
Moved(s, intent) ==
    [s EXCEPT
        !.history = Newest(Append(@, s.state), HistoryLimit),
        !.state = [Patched(s.state, intent.patch) EXCEPT
                     !.revision = @ + 1,
                     !.canUndo = TRUE,
                     !.last = intent.actor]]

Honored(s, claim) ==
    s.honored[CHOOSE i \in 1..Len(s.honored) :
                 s.honored[i].key = claim.key]

Later(m, n) == IF m < n THEN n ELSE m

\* A replayed key is answered with the present state.
Replay(s, claim) ==
    IF Honored(s, claim).digest = claim.digest
      THEN [Outcome("same", s) EXCEPT
              !.shown.revision = Later(@, Honored(s, claim).revision)]
      ELSE Outcome("refused", s)

Judge_Unchecked(s, intent, expected) ==
    LET claim == intent.claim IN
    IF claim # None /\ Honors(s, claim) THEN Replay(s, claim)
    ELSE IF Patched(s.state, intent.patch) = s.state
      THEN Outcome("same", Remember(s, claim))
    ELSE Outcome("moved", Remember(Moved(s, intent), claim))

\* A key already honored answers first: the same digest is the same intent,
\* another is a collision.  Then the expectation, then whether the patch
\* changes anything (an empty one never does).
Judge(s, intent, expected) ==
    LET claim == intent.claim IN
    IF claim # None /\ Honors(s, claim) THEN Replay(s, claim)
    ELSE IF Stale(s, expected) THEN Outcome("conflict", s)
    ELSE IF Patched(s.state, intent.patch) = s.state
      THEN Outcome("same", Remember(s, claim))
    ELSE Outcome("moved", Remember(Moved(s, intent), claim))

\* Attributes the unchanged frame to the human; the undo step stays.
TakeControl(s, expected) ==
    IF expected # s.state.revision THEN Outcome("conflict", s)
    ELSE IF s.state.last \in {None, Human} THEN Outcome("same", s)
    ELSE Outcome("moved",
           [s EXCEPT !.state.revision = @ + 1, !.state.last = Human])

Front(seq) == SubSeq(seq, 1, Len(seq) - 1)

Undo_Restored(s, actor) ==
    IF s.history = <<>> THEN Outcome("refused", s)
    ELSE Outcome("moved",
           [s EXCEPT
              !.history = Front(@),
              !.state = [s.history[Len(s.history)] EXCEPT
                           !.revision = s.state.revision + 1,
                           !.last = actor]])

Undo_OldRevision(s, actor) ==
    IF s.history = <<>> THEN Outcome("refused", s)
    ELSE Outcome("moved",
           [s EXCEPT
              !.history = Front(@),
              !.state = [s.history[Len(s.history)] EXCEPT
                           !.canUndo = Len(s.history) > 1,
                           !.last = actor]])

\* Steps back one move: the frame is the previous one, the revision is new.
Undo(s, actor) ==
    IF s.history = <<>> THEN Outcome("refused", s)
    ELSE Outcome("moved",
           [s EXCEPT
              !.history = Front(@),
              !.state = [s.history[Len(s.history)] EXCEPT
                           !.revision = s.state.revision + 1,
                           !.canUndo = Len(s.history) > 1,
                           !.last = actor]])
=============================================================================
