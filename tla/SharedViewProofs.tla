-------------------------- MODULE SharedViewProofs --------------------------
(***************************************************************************)
(* What the shared view guarantees for any number of clients and views and *)
(* any limits.  Every operation of the session is sound: it leaves a       *)
(* session healthy, and changes the state exactly when it says so and then *)
(* at the next revision.  The properties of the registry rest on that      *)
(* alone.                                                                  *)
(***************************************************************************)
EXTENDS SharedView, SequenceTheorems, TLAPS

Kinds == {"same", "moved", "conflict", "refused"}

\* A session whose flag tells the truth and whose records lie in its past.
Healthy(s) ==
    /\ s \in Session
    /\ s.state.revision > 0
    /\ s.state.canUndo <=> s.history # <<>>
    /\ \A i \in 1..Len(s.honored) :
          s.honored[i].revision <= s.state.revision

\* An outcome o of an operation on s that does what its kind says, and
\* shows the state it leaves.
Sound(s, o) ==
    /\ Healthy(o.session)
    /\ o.shown = o.session.state
    /\ o.kind \in Kinds
    /\ o.kind = "moved" =>
          o.session.state.revision = s.state.revision + 1
    /\ o.kind # "moved" => o.session.state = s.state

-----------------------------------------------------------------------------
(* The session. *)

\* The ways an operation updates a state, and a session.
Stamped(state, r, undo, actor) ==
    [state EXCEPT !.revision = r, !.canUndo = undo, !.last = actor]

Attributed(state, r, actor) ==
    [state EXCEPT !.revision = r, !.last = actor]

Continued(s, history, state) ==
    [s EXCEPT !.history = history, !.state = state]

\* A state at another revision, with another flag and attribution.
LEMMA StampedIsTyped ==
    ASSUME NEW state \in ViewState, NEW r \in Nat, NEW undo \in BOOLEAN,
           NEW actor \in Actors
    PROVE  /\ Stamped(state, r, undo, actor) \in ViewState
           /\ Stamped(state, r, undo, actor).revision = r
           /\ Stamped(state, r, undo, actor).canUndo <=> undo
<1>1. Stamped(state, r, undo, actor) \in ViewState
  BY DEF Stamped, ViewState, Optional
<1>2. Stamped(state, r, undo, actor).revision = r
  BY DEF Stamped, ViewState
<1>3. Stamped(state, r, undo, actor).canUndo <=> undo
  BY DEF Stamped, ViewState
<1> QED
  BY <1>1, <1>2, <1>3

\* The same with the flag left alone.
LEMMA AttributedIsTyped ==
    ASSUME NEW state \in ViewState, NEW r \in Nat, NEW actor \in Actors
    PROVE  /\ Attributed(state, r, actor) \in ViewState
           /\ Attributed(state, r, actor).revision = r
           /\ Attributed(state, r, actor).canUndo <=> state.canUndo
<1>1. Attributed(state, r, actor) \in ViewState
  BY DEF Attributed, ViewState, Optional
<1>2. Attributed(state, r, actor).revision = r
  BY DEF Attributed, ViewState
<1>3. Attributed(state, r, actor).canUndo <=> state.canUndo
  BY DEF Attributed, ViewState
<1> QED
  BY <1>1, <1>2, <1>3

\* The parts of a healthy session.
LEMMA SessionParts ==
    ASSUME NEW s, Healthy(s)
    PROVE  /\ s \in Session
           /\ s.state \in ViewState
           /\ s.state.revision \in Nat
           /\ s.state.canUndo \in BOOLEAN
           /\ s.history \in Seq(ViewState)
           /\ s.honored \in Seq(Record)
           /\ \A i \in 1..Len(s.honored) :
                 /\ s.honored[i] \in Record
                 /\ s.honored[i].revision \in Nat
                 /\ s.honored[i].revision <= s.state.revision
<1>1. /\ s \in Session
      /\ s.state \in ViewState
      /\ s.history \in Seq(ViewState)
      /\ s.honored \in Seq(Record)
  BY DEF Healthy, Session
<1>2. s.state.revision \in Nat /\ s.state.canUndo \in BOOLEAN
  BY <1>1 DEF ViewState
<1>3. \A i \in 1..Len(s.honored) : s.honored[i] \in Record
  BY <1>1
<1>4. \A i \in 1..Len(s.honored) : s.honored[i].revision \in Nat
  BY <1>3 DEF Record
<1>5. \A i \in 1..Len(s.honored) :
         s.honored[i].revision <= s.state.revision
  BY DEF Healthy
<1> QED
  BY <1>1, <1>2, <1>3, <1>4, <1>5

\* A session with another state, at the next revision, and a history the
\* state's flag tells of.
LEMMA NextSession ==
    ASSUME NEW s, Healthy(s), NEW state \in ViewState,
           NEW history \in Seq(ViewState),
           state.revision = s.state.revision + 1,
           state.canUndo <=> history # <<>>
    PROVE  /\ Healthy(Continued(s, history, state))
           /\ Continued(s, history, state).state = state
<1> DEFINE after == Continued(s, history, state)
<1>1. /\ after \in Session
      /\ after.state = state
      /\ after.history = history
      /\ after.honored = s.honored
  <2>1. s \in Session
    BY SessionParts
  <2> QED  BY <2>1, Zenon DEF Session, Continued
<1>2. \A i \in 1..Len(after.honored) :
         after.honored[i].revision <= after.state.revision
  <2>1. s.state.revision \in Nat
    BY SessionParts
  <2>2. \A i \in 1..Len(s.honored) :
           /\ s.honored[i].revision \in Nat
           /\ s.honored[i].revision <= s.state.revision
    BY SessionParts
  <2> QED  BY <1>1, <2>1, <2>2
<1> HIDE DEF after
<1>3. s.state.revision \in Nat
  BY SessionParts
<1>4. Healthy(after) /\ after.state = state
  BY <1>1, <1>2, <1>3 DEF Healthy
<1> QED
  BY <1>4 DEF after

\* A fresh state is a state, at revision 1 and with nothing to undo.
LEMMA FreshIsTyped ==
    ASSUME NEW about \in Optional(Abouts)
    PROVE  /\ Fresh(about) \in ViewState
           /\ Healthy(Opened(about))
<1>1. [f \in Facets |-> Default] \in Looks
  BY SettingsAssumption DEF Looks
<1>2. Fresh(about) \in ViewState
  BY <1>1 DEF Fresh, ViewState, Optional
<1>3. Opened(about) \in Session
  BY <1>2 DEF Opened, Session
<1> QED
  BY <1>2, <1>3 DEF Healthy, Opened, Fresh

\* Every element of new is e or one of seq's.
Keeps(new, seq, e) ==
    \A i \in 1..Len(new) :
        new[i] = e \/ \E j \in 1..Len(seq) : new[i] = seq[j]

\* Dropping the oldest of a bounded sequence leaves a sequence of the same
\* kind that is not empty.
LEMMA NewestIsTyped ==
    ASSUME NEW S, NEW seq \in Seq(S), NEW e \in S, NEW limit \in Nat \ {0}
    PROVE  /\ Newest(Append(seq, e), limit) \in Seq(S)
           /\ Newest(Append(seq, e), limit) # <<>>
           /\ Keeps(Newest(Append(seq, e), limit), seq, e)
<1> DEFINE a == Append(seq, e)
<1>1. /\ a \in Seq(S)
      /\ Len(a) = Len(seq) + 1
      /\ \A i \in 1..Len(a) : a[i] = IF i = Len(seq) + 1 THEN e ELSE seq[i]
  OBVIOUS
<1>2. Len(seq) \in Nat
  OBVIOUS
<1>3. CASE Len(a) > limit
  <2>1. a # <<>>
    BY <1>1, <1>2
  <2>2. /\ Tail(a) \in Seq(S)
        /\ Len(Tail(a)) = Len(a) - 1
        /\ \A i \in 1..Len(Tail(a)) : Tail(a)[i] = a[i + 1]
    BY <1>1, <2>1, HeadTailProperties
  <2>3. Tail(a) # <<>>
    BY <2>2, <1>1, <1>2, <1>3
  <2>4. \A i \in 1..Len(Tail(a)) :
           i + 1 \in 1..Len(a) /\ Tail(a)[i] = a[i + 1]
    BY <2>2, <1>1, <1>2
  <2>5. Keeps(Tail(a), seq, e)
    <3> SUFFICES ASSUME NEW i \in 1..Len(Tail(a))
                 PROVE  Tail(a)[i] = e
                        \/ \E j \in 1..Len(seq) : Tail(a)[i] = seq[j]
      BY DEF Keeps
    <3>1. i \in Nat /\ Tail(a)[i] = IF i + 1 = Len(seq) + 1 THEN e ELSE seq[i + 1]
      BY <2>4, <1>1
    <3>2. i + 1 # Len(seq) + 1 => i + 1 \in 1..Len(seq)
      BY <2>2, <1>1, <1>2
    <3> QED  BY <3>1, <3>2
  <2>6. Newest(a, limit) = Tail(a)
    BY <1>3 DEF Newest
  <2> QED  BY <2>2, <2>3, <2>5, <2>6
<1>4. CASE ~(Len(a) > limit)
  <2>1. Newest(a, limit) = a
    BY <1>4 DEF Newest
  <2>2. a # <<>>
    BY <1>1, <1>2
  <2>3. Keeps(a, seq, e)
    BY <1>1, <1>2 DEF Keeps
  <2> QED  BY <1>1, <2>1, <2>2, <2>3
<1> QED  BY <1>3, <1>4

\* A refusal and a plain answer leave the session as it was.
LEMMA KeepIsSound ==
    ASSUME NEW s, Healthy(s), NEW kind \in Kinds \ {"moved"}
    PROVE  Sound(s, Outcome(kind, s))
<1>1. s.state \in ViewState
  BY DEF Healthy, Session
<1> QED
  BY <1>1 DEF Sound, Outcome, Kinds

\* Remembering a key changes nothing a client sees.
LEMMA RememberIsHealthy ==
    ASSUME NEW s, Healthy(s), NEW claim \in Optional(Claim)
    PROVE  /\ Healthy(Remember(s, claim))
           /\ Remember(s, claim).state = s.state
<1>1. CASE claim = None
  BY <1>1 DEF Remember
<1>2. CASE claim # None
  <2> DEFINE r == [key |-> claim.key, digest |-> claim.digest,
                   revision |-> s.state.revision]
             h == Newest(Append(s.honored, r), IdempotencyLimit)
  <2>1. claim \in Claim
    BY <1>2 DEF Optional
  <2>2. s \in Session /\ s.state \in ViewState /\ s.honored \in Seq(Record)
        /\ s.history \in Seq(ViewState) /\ s.state.revision \in Nat
    BY DEF Healthy, Session, ViewState
  <2>3. r \in Record
    BY <2>1, <2>2 DEF Claim, Record
  <2>4. IdempotencyLimit \in Nat \ {0}
    BY LimitAssumption
  <2>5. /\ h \in Seq(Record)
        /\ Keeps(h, s.honored, r)
    <3> HIDE DEF r
    <3>1. s.honored \in Seq(Record)
      BY <2>2
    <3> QED  BY <3>1, <2>3, <2>4, NewestIsTyped
  <2>6. \A i \in 1..Len(h) : h[i].revision <= s.state.revision
    <3>1. r.revision <= s.state.revision
      BY <2>2
    <3>2. \A j \in 1..Len(s.honored) :
             s.honored[j].revision <= s.state.revision
      BY DEF Healthy
    <3> HIDE DEF r, h
    <3> QED  BY <3>1, <3>2, <2>5 DEF Keeps
  <2>7. Remember(s, claim) = [s EXCEPT !.honored = h]
    BY <1>2 DEF Remember
  <2> HIDE DEF h, r
  <2>8. [s EXCEPT !.honored = h] \in Session
    BY <2>2, <2>5 DEF Session
  <2>9. /\ [s EXCEPT !.honored = h].state = s.state
        /\ [s EXCEPT !.honored = h].history = s.history
        /\ [s EXCEPT !.honored = h].honored = h
    BY <2>2 DEF Session
  <2> QED  BY <2>6, <2>7, <2>8, <2>9 DEF Healthy
<1> QED  BY <1>1, <1>2

\* An about switch starts over at the next revision, and is the only change
\* opening again makes.
LEMMA ReopenIsSound ==
    ASSUME NEW s, Healthy(s), NEW about \in Optional(Abouts), NEW expected,
           NEW actor \in Actors
    PROVE  Sound(s, Reopen(s, about, expected, actor))
<1> DEFINE new == [Fresh(about) EXCEPT !.revision = s.state.revision + 1,
                                       !.last = actor]
           after == [s EXCEPT !.state = new, !.history = <<>>]
<1>1. CASE about = None \/ about = s.state.about
  BY <1>1, KeepIsSound DEF Reopen, Kinds
<1>2. CASE ~(about = None \/ about = s.state.about) /\ Stale(s, expected)
  BY <1>2, KeepIsSound DEF Reopen, Kinds
<1>3. CASE ~(about = None \/ about = s.state.about) /\ ~Stale(s, expected)
  <2>1. s \in Session /\ s.state.revision + 1 \in Nat
    BY SessionParts
  <2>2. Fresh(about) \in ViewState /\ ~Fresh(about).canUndo
    BY FreshIsTyped DEF Fresh
  <2>3. /\ new \in ViewState
        /\ new.revision = s.state.revision + 1
        /\ ~new.canUndo
    BY <2>1, <2>2, AttributedIsTyped DEF Attributed
  <2> HIDE DEF new
  <2>4. after = Continued(s, <<>>, new)
    BY <2>1 DEF Session, Continued
  <2>5. <<>> \in Seq(ViewState)
    OBVIOUS
  <2>6. new.canUndo <=> <<>> # <<>>
    BY <2>3
  <2>7. Reopen(s, about, expected, actor) = Outcome("moved", after)
    BY <1>3 DEF Reopen, new
  <2> HIDE DEF after
  <2>8. Healthy(after) /\ after.state = new
    BY <2>3, <2>4, <2>5, <2>6, NextSession
  <2> QED
    BY <2>3, <2>7, <2>8 DEF Sound, Outcome, Kinds
<1> QED  BY <1>1, <1>2, <1>3

\* A patch makes a state of a state.
LEMMA PatchedIsTyped ==
    ASSUME NEW state \in ViewState, NEW patch \in Patch
    PROVE  /\ Patched(state, patch) \in ViewState
           /\ Patched(state, patch).revision = state.revision
<1> DEFINE look == [f \in Facets |->
                      IF f \in DOMAIN patch.sets THEN patch.sets[f]
                                                 ELSE state.look[f]]
           about == IF patch.about = None THEN state.about ELSE patch.about
<1>1. \A f \in DOMAIN patch.sets : patch.sets[f] \in Settings
  BY DEF Patch
<1>2. \A f \in Facets : state.look[f] \in Settings
  BY DEF ViewState, Looks
<1>3. look \in Looks
  BY <1>1, <1>2 DEF Looks
<1>4. about \in Optional(Abouts)
  BY DEF ViewState, Patch
<1>5. Patched(state, patch) = [state EXCEPT !.about = about, !.look = look]
  BY DEF Patched
<1> HIDE DEF look, about
<1> QED  BY <1>3, <1>4, <1>5 DEF ViewState

\* A move is one revision on and can be undone.
LEMMA MovedIsHealthy ==
    ASSUME NEW s, Healthy(s), NEW i \in Intent
    PROVE  /\ Healthy(Moved(s, i))
           /\ Moved(s, i).state.revision = s.state.revision + 1
<1> DEFINE p == Patched(s.state, i.patch)
           new == [p EXCEPT !.revision = @ + 1, !.canUndo = TRUE,
                            !.last = i.actor]
           h == Newest(Append(s.history, s.state), HistoryLimit)
<1>1. i.patch \in Patch /\ i.actor \in Actors
  BY DEF Intent
<1>2. p \in ViewState /\ p.revision = s.state.revision
  BY <1>1, PatchedIsTyped, SessionParts
<1>3. s.state.revision + 1 \in Nat
  BY SessionParts
<1>4. Moved(s, i) = Continued(s, h, new)
  BY DEF Moved, Continued
<1> HIDE DEF p
<1>5. TRUE \in BOOLEAN
  OBVIOUS
<1>6. /\ new \in ViewState
      /\ new.revision = s.state.revision + 1
      /\ new.canUndo
  <2> DEFINE r == s.state.revision + 1
             other == Stamped(p, r, TRUE, i.actor)
  <2>1. r \in Nat
    BY <1>3
  <2>2. new = other
    BY <1>2 DEF Stamped
  <2> HIDE DEF r
  <2>3. other \in ViewState /\ other.revision = r /\ other.canUndo
    <3>1. i.actor \in Actors /\ p \in ViewState
      BY <1>1, <1>2
    <3> DEFINE actor == i.actor
    <3> HIDE DEF actor
    <3> QED
      BY <1>5, <2>1, <3>1, StampedIsTyped DEF actor
  <2> HIDE DEF new, other
  <2> QED  BY <2>2, <2>3 DEF r
<1> HIDE DEF new
<1>7. h \in Seq(ViewState) /\ h # <<>>
  BY SessionParts, NewestIsTyped, LimitAssumption
<1> HIDE DEF h
<1>8. new.canUndo <=> h # <<>>
  BY <1>6, <1>7
<1> QED
  BY <1>4, <1>6, <1>7, <1>8, NextSession

\* A replay is answered with the present state.
LEMMA ReplayIsSound ==
    ASSUME NEW s, Healthy(s), NEW claim \in Claim, Honors(s, claim)
    PROVE  Sound(s, Replay(s, claim))
<1> DEFINE r == Honored(s, claim)
           shown == [s.state EXCEPT !.revision = Later(@, r.revision)]
<1>1. s.state \in ViewState /\ s.state.revision \in Nat
  BY SessionParts
<1>2. r.revision \in Nat /\ r.revision <= s.state.revision
  <2> DEFINE k == CHOOSE i \in 1..Len(s.honored) :
                     s.honored[i].key = claim.key
  <2>1. k \in 1..Len(s.honored)
    BY DEF Honors
  <2> QED  BY <2>1, SessionParts DEF Honored
<1> HIDE DEF r
<1>3. CASE r.digest = claim.digest
  <2>1. Later(s.state.revision, r.revision) = s.state.revision
    BY <1>1, <1>2 DEF Later
  <2>2. shown = s.state
    BY <1>1, <2>1 DEF ViewState
  <2>3. /\ Replay(s, claim).kind = "same"
        /\ Replay(s, claim).session = s
        /\ Replay(s, claim).shown = shown
    BY <1>3 DEF Replay, Outcome, r
  <2> QED  BY <2>2, <2>3 DEF Sound, Kinds
<1>4. CASE r.digest # claim.digest
  BY <1>4, KeepIsSound DEF Replay, Kinds, r
<1> QED  BY <1>3, <1>4

\* An intent is judged soundly.
LEMMA JudgeIsSound ==
    ASSUME NEW s, Healthy(s), NEW i \in Intent, NEW expected
    PROVE  Sound(s, Judge(s, i, expected))
<1> DEFINE claim == i.claim
           replayed == claim # None /\ Honors(s, claim)
           same == Patched(s.state, i.patch) = s.state
<1>1. claim \in Optional(Claim)
  BY DEF Intent
<1>2. CASE replayed
  <2>1. claim \in Claim
    BY <1>1, <1>2 DEF Optional
  <2> QED  BY <1>2, <2>1, ReplayIsSound DEF Judge
<1>3. CASE ~replayed /\ Stale(s, expected)
  BY <1>3, KeepIsSound DEF Judge, Kinds
<1>4. CASE ~replayed /\ ~Stale(s, expected) /\ same
  <2>1. Judge(s, i, expected) = Outcome("same", Remember(s, claim))
    BY <1>4 DEF Judge
  <2>2. Healthy(Remember(s, claim)) /\ Remember(s, claim).state = s.state
    BY <1>1, RememberIsHealthy
  <2>3. s.state \in ViewState
    BY DEF Healthy, Session
  <2> QED  BY <2>1, <2>2, <2>3 DEF Sound, Outcome, Kinds
<1>5. CASE ~replayed /\ ~Stale(s, expected) /\ ~same
  <2> DEFINE m == Moved(s, i)
  <2>1. Judge(s, i, expected) = Outcome("moved", Remember(m, claim))
    BY <1>5 DEF Judge
  <2>2. Healthy(m) /\ m.state.revision = s.state.revision + 1
    BY MovedIsHealthy
  <2> HIDE DEF m
  <2>3. Healthy(Remember(m, claim)) /\ Remember(m, claim).state = m.state
    BY <1>1, <2>2, RememberIsHealthy
  <2>4. m.state \in ViewState
    BY <2>2 DEF Healthy, Session
  <2> QED  BY <2>1, <2>2, <2>3, <2>4 DEF Sound, Outcome, Kinds
<1> QED  BY <1>2, <1>3, <1>4, <1>5

\* A handoff changes the attribution and the revision alone.
LEMMA TakeControlIsSound ==
    ASSUME NEW s, Healthy(s), NEW expected
    PROVE  Sound(s, TakeControl(s, expected))
<1> DEFINE new == [s.state EXCEPT !.revision = @ + 1, !.last = Human]
           after == [s EXCEPT !.state = new]
<1>1. CASE expected # s.state.revision
  BY <1>1, KeepIsSound DEF TakeControl, Kinds
<1>2. CASE expected = s.state.revision /\ s.state.last \in {None, Human}
  BY <1>2, KeepIsSound DEF TakeControl, Kinds
<1>3. CASE expected = s.state.revision /\ s.state.last \notin {None, Human}
  <2>1. /\ s \in Session
        /\ s.state \in ViewState
        /\ s.state.revision + 1 \in Nat
        /\ s.state.canUndo \in BOOLEAN
        /\ s.history \in Seq(ViewState)
    BY SessionParts
  <2>3. /\ new \in ViewState
        /\ new.revision = s.state.revision + 1
        /\ new.canUndo <=> s.state.canUndo
    <3> DEFINE st == s.state
               r == s.state.revision + 1
               other == Attributed(st, r, Human)
    <3>1. new = other
      BY DEF Attributed
    <3> HIDE DEF r, st
    <3>2. r \in Nat /\ st \in ViewState
      BY <2>1 DEF r, st
    <3>3. /\ other \in ViewState
          /\ other.revision = r
          /\ other.canUndo <=> st.canUndo
      BY <3>2, AttributedIsTyped, SettingsAssumption
    <3> HIDE DEF new, other
    <3> QED  BY <3>1, <3>3 DEF r, st
  <2>4. TakeControl(s, expected) = Outcome("moved", after)
    BY <1>3, <2>1 DEF TakeControl, Session, ViewState
  <2> HIDE DEF new
  <2>5. after = Continued(s, s.history, new)
    BY <2>1 DEF Session, Continued
  <2> HIDE DEF after
  <2>6. new.canUndo <=> s.history # <<>>
    BY <2>3 DEF Healthy
  <2>7. Healthy(after) /\ after.state = new
    BY <2>1, <2>3, <2>5, <2>6, NextSession
  <2> QED  BY <2>3, <2>4, <2>7 DEF Sound, Outcome, Kinds
<1> QED  BY <1>1, <1>2, <1>3

\* A step back is a move to the newest remembered state.
LEMMA UndoIsSound ==
    ASSUME NEW s, Healthy(s), NEW actor \in Actors
    PROVE  Sound(s, Undo(s, actor))
<1> DEFINE n == Len(s.history)
           old == s.history[n]
           new == [old EXCEPT !.revision = s.state.revision + 1,
                              !.canUndo = n > 1,
                              !.last = actor]
           after == [s EXCEPT !.history = Front(@), !.state = new]
<1>1. CASE s.history = <<>>
  BY <1>1, KeepIsSound DEF Undo, Kinds
<1>2. CASE s.history # <<>>
  <2>1. /\ s \in Session
        /\ s.state.revision + 1 \in Nat
        /\ s.history \in Seq(ViewState)
    BY SessionParts
  <2>2. n \in Nat \ {0} /\ old \in ViewState
    BY <1>2, <2>1
  <2>3. /\ Front(s.history) \in Seq(ViewState)
        /\ Len(Front(s.history)) = n - 1
    BY <2>1, <2>2, SubSeqProperties DEF Front
  <2>4. (n > 1) <=> Front(s.history) # <<>>
    BY <2>2, <2>3
  <2>5. Undo(s, actor) = Outcome("moved", after)
    BY <1>2 DEF Undo
  <2>6. after = Continued(s, Front(s.history), new)
    BY <2>1 DEF Session, Continued
  <2> HIDE DEF after
  <2>7. (n > 1) \in BOOLEAN
    OBVIOUS
  <2> DEFINE undo == n > 1
             r == s.state.revision + 1
  <2>8. /\ new \in ViewState
        /\ new.revision = r
        /\ new.canUndo <=> undo
    <3> HIDE DEF old, undo, r
    <3>1. r \in Nat
      BY <2>1 DEF r
    <3>2. undo \in BOOLEAN
      BY <2>7 DEF undo
    <3>3. new = Stamped(old, r, undo, actor)
      BY DEF r, undo, Stamped
    <3> HIDE DEF new
    <3> QED  BY <2>2, <3>1, <3>2, <3>3, StampedIsTyped
  <2> HIDE DEF new
  <2>9. Healthy(after) /\ after.state = new
    BY <2>3, <2>4, <2>6, <2>8, NextSession
  <2> QED  BY <2>5, <2>8, <2>9 DEF Sound, Outcome, Kinds
<1> QED  BY <1>1, <1>2

\* An operation that expects a revision moves the view from that one only.
LEMMA MovesAsExpected ==
    ASSUME NEW s, NEW e, e # None
    PROVE  /\ \A about, actor :
                 Reopen(s, about, e, actor).kind = "moved"
                   => e = s.state.revision
           /\ \A i : Judge(s, i, e).kind = "moved" => e = s.state.revision
           /\ TakeControl(s, e).kind = "moved" => e = s.state.revision
<1>1. ASSUME NEW about, NEW actor
      PROVE  Reopen(s, about, e, actor).kind = "moved"
               => e = s.state.revision
  BY DEF Reopen, Outcome, Stale
<1>2. ASSUME NEW claim
      PROVE  Replay(s, claim).kind # "moved"
  BY DEF Replay, Outcome
<1>3. ASSUME NEW i
      PROVE  Judge(s, i, e).kind = "moved" => e = s.state.revision
  <2>1. CASE i.claim # None /\ Honors(s, i.claim)
    BY <1>2, <2>1 DEF Judge
  <2>2. CASE ~(i.claim # None /\ Honors(s, i.claim)) /\ Stale(s, e)
    BY <2>2 DEF Judge, Outcome
  <2>3. CASE ~Stale(s, e)
    BY <2>3 DEF Stale
  <2> QED  BY <2>1, <2>2, <2>3
<1>4. TakeControl(s, e).kind = "moved" => e = s.state.revision
  BY DEF TakeControl, Outcome
<1> QED  BY <1>1, <1>3, <1>4

-----------------------------------------------------------------------------
(* The registry. *)

\* Every open view is healthy, and a report in progress knows what it says.
AllHealthy == \A v \in Views : views[v] # None => Healthy(views[v])

ReportsSpeak ==
    \A c \in Clients :
        pc[c] \in {"ensure", "ringreport", "report"} => intent[c] \in Intents

Inv == TypeOK /\ AllHealthy /\ ReportsSpeak

\* The views, and what their clients know of them, after an operation.
Registry ==
    /\ views \in [Views -> Optional(Session)]
    /\ AllHealthy
    /\ seen \in [Clients -> [Views -> Optional(ViewState)]]
    /\ basis \in [Clients ->
                    Optional([seen : Optional(ViewState),
                              replaced : ViewState])]

\* Showing a client a state, or that there is none.
LEMMA ShowsIsTyped ==
    ASSUME seen \in [Clients -> [Views -> Optional(ViewState)]],
           NEW c \in Clients, NEW v \in Views,
           NEW state \in Optional(ViewState), Shows(c, v, state)
    PROVE  seen' \in [Clients -> [Views -> Optional(ViewState)]]
<1>1. [seen[c] EXCEPT ![v] = state] \in [Views -> Optional(ViewState)]
  OBVIOUS
<1>2. seen' = [seen EXCEPT ![c] = [seen[c] EXCEPT ![v] = state]]
  BY DEF Shows
<1> QED
  BY <1>1, <1>2

\* A sound outcome leaves the registry in order.
LEMMA AnsweredIsTyped ==
    ASSUME Registry, NEW c \in Clients, NEW v \in Views, views[v] # None,
           NEW o, Sound(views[v], o), NEW e, Answered(c, v, o, e)
    PROVE  Registry'
<1>1. /\ o.session \in Session
      /\ o.session.state \in ViewState
      /\ o.shown \in ViewState
      /\ Healthy(o.session)
  BY SessionParts DEF Sound
<1>2. views' = [views EXCEPT ![v] = o.session]
  BY DEF Answered
<1>3. views' \in [Views -> Optional(Session)]
  BY <1>1, <1>2 DEF Registry, Optional
<1>4. AllHealthy'
  <2> SUFFICES ASSUME NEW w \in Views, views'[w] # None
               PROVE  Healthy(views'[w])
    BY DEF AllHealthy
  <2>1. CASE w = v
    BY <1>1, <1>2, <2>1 DEF Registry
  <2>2. CASE w # v
    BY <1>2, <2>2 DEF Registry, AllHealthy
  <2> QED  BY <2>1, <2>2
<1>5. seen' \in [Clients -> [Views -> Optional(ViewState)]]
  <2>1. CASE Shows(c, v, o.shown)
    <3>1. o.shown \in Optional(ViewState)
      BY <1>1 DEF Optional
    <3> QED  BY <2>1, <3>1, ShowsIsTyped DEF Registry
  <2>2. CASE UNCHANGED seen
    BY <2>2 DEF Registry
  <2> QED  BY <2>1, <2>2 DEF Answered
<1>6. views[v].state \in ViewState
  BY SessionParts DEF Registry, AllHealthy
<1>7. [seen |-> seen[c][v], replaced |-> views[v].state]
        \in [seen : Optional(ViewState), replaced : ViewState]
  BY <1>6 DEF Registry
<1>8. basis' \in [Clients -> Optional([seen : Optional(ViewState),
                                      replaced : ViewState])]
  BY <1>7 DEF Answered, Registry, Optional
<1> QED
  BY <1>3, <1>4, <1>5, <1>8 DEF Registry

\* Opening a vacant id.
LEMMA OpensIsTyped ==
    ASSUME Registry, NEW c \in Clients, NEW v \in Views,
           NEW about \in Optional(Abouts), Opens(c, v, about)
    PROVE  Registry'
<1>1. /\ Opened(about) \in Session
      /\ Healthy(Opened(about))
      /\ Fresh(about) \in ViewState
  BY FreshIsTyped, SessionParts
<1>2. views' = [views EXCEPT ![v] = Opened(about)]
  BY DEF Opens
<1>3. views' \in [Views -> Optional(Session)]
  BY <1>1, <1>2 DEF Registry, Optional
<1>4. AllHealthy'
  BY <1>1, <1>2 DEF Registry, AllHealthy
<1>5. seen' \in [Clients -> [Views -> Optional(ViewState)]]
  BY <1>1 DEF Opens, Shows, Registry, Optional
<1>6. basis' \in [Clients -> Optional([seen : Optional(ViewState),
                                      replaced : ViewState])]
  BY DEF Opens, Registry, Optional
<1> QED
  BY <1>3, <1>4, <1>5, <1>6 DEF Registry

\* Opening a view begins the record of its claims anew.
LEMMA OpensForgets ==
    ASSUME claims \in [Views -> Seq(Keys)], NEW c, NEW v \in Views,
           NEW about, Opens(c, v, about)
    PROVE  claims' \in [Views -> Seq(Keys)]
<1>1. claims' = [claims EXCEPT ![v] = <<>>]
  BY DEF Opens
<1> DEFINE none == <<>>
<1>2. none \in Seq(Keys)
  OBVIOUS
<1> HIDE DEF none
<1>3. [claims EXCEPT ![v] = none] \in [Views -> Seq(Keys)]
  BY <1>2
<1> QED
  BY <1>1, <1>3 DEF none

\* What a call in progress keeps beside the registry.
Local ==
    /\ pc \in [Clients -> Steps]
    /\ id \in [Clients -> Views]
    /\ intent \in [Clients -> Optional(Intents)]
    /\ since \in [Clients -> Nat]
    /\ woken \in [Clients -> BOOLEAN]
    /\ calls \in Nat
    /\ claims \in [Views -> Seq(Keys)]
    /\ ReportsSpeak

\* The invariant, as these two parts.
LEMMA InvParts == (Inv <=> Registry /\ Local) /\ (Inv' <=> Registry' /\ Local')
  BY DEF Inv, TypeOK, Registry, Local

\* A call begins with a step that speaks for no report.
LEMMA StartsIsTyped ==
    ASSUME Local, NEW c \in Clients, NEW v \in Views,
           NEW step \in {"ring", "idle", "listen"}, Starts(c, v, step),
           UNCHANGED <<intent, woken>>, since' \in [Clients -> Nat],
           claims' \in [Views -> Seq(Keys)]
    PROVE  Local'
<1>1. /\ pc' \in [Clients -> Steps]
      /\ id' \in [Clients -> Views]
      /\ calls' \in Nat
  BY DEF Starts, Local, Steps
<1>2. ReportsSpeak'
  BY DEF Starts, Local, ReportsSpeak
<1> QED
  BY <1>1, <1>2 DEF Local

\* Every operation a client calls.
LEMMA CallsKeepInv ==
    ASSUME Inv, NEW c \in Clients, Calls(c)
    PROVE  Inv'
<1>1. Registry /\ Local
  BY InvParts
<1> USE <1>1
<1>2. ASSUME NEW v \in Views, views[v] # None
      PROVE  Healthy(views[v])
  BY <1>2 DEF Registry, AllHealthy
<1>3. ASSUME NEW v \in Views, NEW o
      PROVE  NextStep(o) \in {"ring", "idle", "listen"}
  BY DEF NextStep
<1>4. ASSUME NEW v \in Views, NEW e \in Expectations(c, v),
             NEW about \in Optional(Abouts), Open(c, v, about, e)
      PROVE  Inv'
  <2>1. Registry'
    BY <1>4, OpensIsTyped DEF Open
  <2>2. claims' \in [Views -> Seq(Keys)]
    BY <1>4 DEF Open, Opens, Local
  <2>3. since' \in [Clients -> Nat]
    BY <1>4 DEF Open, Local
  <2>4. Local'
    BY <1>4, <2>2, <2>3, StartsIsTyped DEF Open
  <2> QED  BY <2>1, <2>4, InvParts
<1>5. ASSUME NEW v \in Views, NEW e \in Expectations(c, v),
             NEW about \in Optional(Abouts), NEW actor \in Actors,
             OpenAgain(c, v, about, actor, e)
      PROVE  Inv'
  <2> DEFINE o == Reopen(views[v], about, e, actor)
  <2>1. Sound(views[v], o)
    BY <1>2, <1>5, ReopenIsSound DEF OpenAgain
  <2>2. /\ views[v] # None
        /\ Starts(c, v, NextStep(o))
        /\ Answered(c, v, o, e)
        /\ UNCHANGED <<intent, since, woken, claims>>
    BY <1>5 DEF OpenAgain
  <2> HIDE DEF o
  <2>3. Registry'
    BY <2>1, <2>2, AnsweredIsTyped
  <2>4. Local'
    BY <1>3, <2>2, StartsIsTyped DEF Local
  <2> QED  BY <2>3, <2>4, InvParts
<1>6. ASSUME NEW v \in Views, NEW e \in Expectations(c, v),
             NEW i \in Intents, ApplyIntent(c, v, i, e)
      PROVE  Inv'
  <2> DEFINE o == Judge(views[v], i, e)
  <2>1. i \in Intent
    BY IntentsAssumption
  <2>2. Sound(views[v], o)
    BY <1>2, <1>6, <2>1, JudgeIsSound DEF ApplyIntent
  <2>3. /\ views[v] # None
        /\ Starts(c, v, NextStep(o))
        /\ Answered(c, v, o, e)
        /\ Claimed(v, i, o)
        /\ UNCHANGED <<intent, since, woken>>
    BY <1>6 DEF ApplyIntent
  <2> HIDE DEF o
  <2>4. Registry'
    BY <2>2, <2>3, AnsweredIsTyped
  <2>5. claims' \in [Views -> Seq(Keys)]
    <3>1. i.claim # None => i.claim.key \in Keys
      BY <2>1 DEF Intent, Claim, Optional
    <3>2. i.claim # None => Append(claims[v], i.claim.key) \in Seq(Keys)
      BY <3>1 DEF Local
    <3> QED  BY <2>3, <3>2 DEF Claimed, Local
  <2>6. Local'
    BY <1>3, <2>3, <2>5, StartsIsTyped DEF Local
  <2> QED  BY <2>4, <2>6, InvParts
<1>7. ASSUME NEW v \in Views, NEW e \in Expectations(c, v),
             TakeViewControl(c, v, e)
      PROVE  Inv'
  <2> DEFINE o == TakeControl(views[v], e)
  <2>1. Sound(views[v], o)
    BY <1>2, <1>7, TakeControlIsSound DEF TakeViewControl
  <2>2. /\ views[v] # None
        /\ Starts(c, v, NextStep(o))
        /\ Answered(c, v, o, e)
        /\ UNCHANGED <<intent, since, woken, claims>>
    BY <1>7 DEF TakeViewControl
  <2> HIDE DEF o
  <2>3. Registry'
    BY <2>1, <2>2, AnsweredIsTyped
  <2>4. Local'
    BY <1>3, <2>2, StartsIsTyped DEF Local
  <2> QED  BY <2>3, <2>4, InvParts
<1>8. ASSUME NEW v \in Views, NEW actor \in Actors,
             UndoViewMove(c, v, actor)
      PROVE  Inv'
  <2> DEFINE o == Undo(views[v], actor)
  <2>1. Sound(views[v], o)
    BY <1>2, <1>8, UndoIsSound DEF UndoViewMove
  <2>2. /\ views[v] # None
        /\ Starts(c, v, NextStep(o))
        /\ Answered(c, v, o, None)
        /\ UNCHANGED <<intent, since, woken, claims>>
    BY <1>8 DEF UndoViewMove
  <2> HIDE DEF o
  <2>3. Registry'
    BY <2>1, <2>2, AnsweredIsTyped
  <2>4. Local'
    BY <1>3, <2>2, StartsIsTyped DEF Local
  <2> QED  BY <2>3, <2>4, InvParts
<1>9. ASSUME NEW v \in Views, GetViewState(c, v)
      PROVE  Inv'
  <2>1. views[v].state \in Optional(ViewState)
    BY <1>2, <1>9, SessionParts DEF GetViewState, Optional
  <2>2. seen' \in [Clients -> [Views -> Optional(ViewState)]]
    BY <1>9, <2>1, ShowsIsTyped DEF GetViewState, Registry
  <2>3. Registry'
    BY <1>9, <2>2 DEF GetViewState, Registry, AllHealthy
  <2>4. Local'
    BY <1>9, StartsIsTyped DEF GetViewState, Local
  <2> QED  BY <2>3, <2>4, InvParts
<1>10. ASSUME NEW v \in Views, NEW i \in Intents, Report(c, v, i)
       PROVE  Inv'
  <2>1. Registry'
    BY <1>10 DEF Report, Registry, AllHealthy
  <2>2. /\ pc' \in [Clients -> Steps]
        /\ id' \in [Clients -> Views]
        /\ calls' \in Nat
        /\ intent' \in [Clients -> Optional(Intents)]
    BY <1>10 DEF Report, Starts, Local, Steps, Optional
  <2>3. ReportsSpeak'
    BY <1>10 DEF Report, Starts, Local, ReportsSpeak
  <2>4. Local'
    BY <1>10, <2>2, <2>3 DEF Report, Local
  <2> QED  BY <2>1, <2>4, InvParts
<1>11. ASSUME NEW v \in Views, Poll(c, v)
       PROVE  Inv'
  <2>1. Registry'
    BY <1>11 DEF Poll, Registry, AllHealthy
  <2>2. seen[c][v].revision \in Nat
    BY <1>11 DEF Poll, Registry, Optional, ViewState
  <2>3. since' \in [Clients -> Nat]
    BY <1>11, <2>2 DEF Poll, Local
  <2>4. claims' \in [Views -> Seq(Keys)]
    BY <1>11 DEF Poll, Local
  <2>5. Local'
    BY <1>11, <2>3, <2>4, StartsIsTyped DEF Poll
  <2> QED  BY <2>1, <2>5, InvParts
<1> QED
  BY <1>4, <1>5, <1>6, <1>7, <1>8, <1>9, <1>10, <1>11 DEF Calls

\* The step a call in progress takes by itself, or its patience running out.
LEMMA ProgressKeepsInv ==
    ASSUME Inv, NEW c \in Clients, Proceeds(c) \/ Expire(c)
    PROVE  Inv'
<1>1. Registry /\ Local
  BY InvParts
<1> USE <1>1
<1>2. id[c] \in Views
  BY DEF Local
<1>3. ASSUME views[id[c]] # None
      PROVE  Healthy(views[id[c]]) /\ views[id[c]].state \in ViewState
  BY <1>2, <1>3, SessionParts DEF Registry, AllHealthy
<1>4. ASSUME Shows(c, id[c], IF views[id[c]] = None THEN None
                                                    ELSE views[id[c]].state),
             UNCHANGED <<views, basis>>
      PROVE  Registry'
  <2> DEFINE state == IF views[id[c]] = None THEN None ELSE views[id[c]].state
  <2>1. state \in Optional(ViewState)
    BY <1>3 DEF Optional
  <2>2. Shows(c, id[c], state)
    BY <1>4
  <2> HIDE DEF state
  <2>3. seen' \in [Clients -> [Views -> Optional(ViewState)]]
    BY <1>2, <2>1, <2>2, ShowsIsTyped DEF Registry
  <2> QED  BY <1>4, <2>3 DEF Registry, AllHealthy
<1>5. CASE Ring(c)
  <2>1. Registry'
    BY <1>5 DEF Ring, Registry, AllHealthy
  <2>2. pc' \in [Clients -> Steps] /\ woken' \in [Clients -> BOOLEAN]
    BY <1>5 DEF Ring, Local, Steps
  <2>3. ReportsSpeak'
    BY <1>5 DEF Ring, Local, ReportsSpeak
  <2>4. Local'
    BY <1>5, <2>2, <2>3 DEF Ring, Local
  <2> QED  BY <2>1, <2>4, InvParts
<1>6. ASSUME NEW actor \in Actors, EnsureOpen(c, actor)
      PROVE  Inv'
  <2> DEFINE v == id[c]
             about == intent[c].patch.about
             o == Reopen(views[v], about, None, actor)
  <2>1. intent[c] \in Intent
    BY <1>6, IntentsAssumption DEF EnsureOpen, Local, ReportsSpeak
  <2>2. about \in Optional(Abouts)
    BY <2>1 DEF Intent, Patch
  <2>3. Registry' /\ claims' \in [Views -> Seq(Keys)]
    <3>1. CASE views[v] = None
      <4> HIDE DEF v, about, o
      <4>1. Opens(c, v, about)
        BY <1>6, <3>1 DEF EnsureOpen, v, about
      <4>2. v \in Views
        BY <1>2 DEF v
      <4>3. Registry'
        BY <2>2, <4>1, <4>2, OpensIsTyped
      <4>4. claims' \in [Views -> Seq(Keys)]
        BY <4>1, <4>2, OpensForgets DEF Local
      <4> QED  BY <4>3, <4>4
    <3>2. CASE views[v] # None
      <4>1. Sound(views[v], o)
        BY <1>3, <2>2, <3>2, ReopenIsSound
      <4>2. Answered(c, v, o, None) /\ UNCHANGED claims
        BY <1>6, <3>2 DEF EnsureOpen
      <4> HIDE DEF o, about
      <4> QED  BY <1>2, <3>2, <4>1, <4>2, AnsweredIsTyped DEF Local
    <3> QED  BY <3>1, <3>2
  <2>4. pc' \in [Clients -> Steps] /\ pc'[c] \in {"ringreport", "report"}
        /\ \A d \in Clients \ {c} : pc'[d] = pc[d]
    BY <1>6, Zenon DEF EnsureOpen, Local, Steps
  <2>5. pc[c] = "ensure" /\ UNCHANGED <<id, intent, since, woken, calls>>
    BY <1>6 DEF EnsureOpen
  <2>6. ReportsSpeak'
    BY <2>4, <2>5 DEF Local, ReportsSpeak
  <2>7. Local'
    BY <2>3, <2>4, <2>5, <2>6 DEF Local
  <2> QED  BY <2>3, <2>7, InvParts
<1>7. CASE ReportIntent(c)
  <2> DEFINE v == id[c]
             o == Judge(views[v], intent[c], None)
  <2>1. intent[c] \in Intent
    BY <1>7, IntentsAssumption DEF ReportIntent, Local, ReportsSpeak
  <2>2. Registry'
    <3>1. CASE views[v] = None
      BY <1>7, <3>1 DEF ReportIntent, Registry, AllHealthy
    <3>2. CASE views[v] # None
      <4>1. Sound(views[v], o)
        BY <1>3, <2>1, <3>2, JudgeIsSound
      <4>2. Answered(c, v, o, None)
        BY <1>7, <3>2 DEF ReportIntent
      <4> HIDE DEF o
      <4> QED  BY <1>2, <3>2, <4>1, <4>2, AnsweredIsTyped
    <3> QED  BY <3>1, <3>2
  <2>3. pc' \in [Clients -> Steps] /\ pc'[c] \in {"ring", "idle"}
        /\ \A d \in Clients \ {c} : pc'[d] = pc[d]
    BY <1>7, Zenon DEF ReportIntent, Local, Steps, NextStep
  <2>4. /\ intent' = [intent EXCEPT ![c] = None]
        /\ UNCHANGED <<id, since, woken, calls, claims>>
    BY <1>7 DEF ReportIntent
  <2>5. ReportsSpeak' /\ intent' \in [Clients -> Optional(Intents)]
    BY <2>3, <2>4 DEF Local, ReportsSpeak, Optional
  <2>6. Local'
    BY <2>3, <2>4, <2>5 DEF Local
  <2> QED  BY <2>2, <2>6, InvParts
<1>8. CASE Listen(c) \/ Wake(c) \/ Expire(c)
  <2>1. Registry'
    BY <1>8 DEF Listen, Wake, Expire, Registry, AllHealthy
  <2>2. pc' \in [Clients -> Steps] /\ woken' \in [Clients -> BOOLEAN]
    BY <1>8 DEF Listen, Wake, Expire, Local, Steps
  <2>3. ReportsSpeak'
    BY <1>8 DEF Listen, Wake, Expire, Local, ReportsSpeak
  <2>4. Local'
    BY <1>8, <2>2, <2>3 DEF Listen, Wake, Expire, Local
  <2> QED  BY <2>1, <2>4, InvParts
<1>9. CASE Read(c) \/ LastRead(c)
  <2>1. Registry'
    <3>1. CASE UNCHANGED <<views, seen, basis>>
      BY <3>1 DEF Registry, AllHealthy
    <3> QED  BY <1>4, <1>9, <3>1 DEF Read, LastRead
  <2>2. pc' \in [Clients -> Steps]
    BY <1>9 DEF Read, LastRead, Local, Steps
  <2>3. ReportsSpeak'
    BY <1>9 DEF Read, LastRead, Local, ReportsSpeak
  <2>4. Local'
    BY <1>9, <2>2, <2>3 DEF Read, LastRead, Local
  <2> QED  BY <2>1, <2>4, InvParts
<1> QED
  BY <1>5, <1>6, <1>7, <1>8, <1>9 DEF Proceeds

\* No view is open and nobody calls at first.
LEMMA InitIsTyped ==
    ASSUME Init
    PROVE  Inv
<1>1. (CHOOSE v \in Views : TRUE) \in Views
  BY ViewsAssumption
<1>2. TypeOK
  BY <1>1 DEF Init, TypeOK, Optional, Steps
<1>3. AllHealthy /\ ReportsSpeak
  BY DEF Init, AllHealthy, ReportsSpeak
<1> QED
  BY <1>2, <1>3 DEF Inv

\* Every step keeps the registry typed and its sessions healthy.
LEMMA StepKeepsInv ==
    ASSUME Inv, [Next]_vars
    PROVE  Inv'
<1>1. ASSUME NEW c \in Clients, Calls(c) \/ Proceeds(c) \/ Expire(c)
      PROVE  Inv'
  BY <1>1, CallsKeepInv, ProgressKeepsInv
<1>2. ASSUME NEW v \in Views, Forget(v)
      PROVE  Inv'
  <2>1. views' \in [Views -> Optional(Session)]
    BY <1>2 DEF Forget, Inv, TypeOK, Optional
  <2>2. AllHealthy'
    BY <1>2 DEF Forget, Inv, TypeOK, AllHealthy
  <2> QED  BY <1>2, <2>1, <2>2 DEF Forget, Inv, TypeOK, ReportsSpeak
<1>3. CASE UNCHANGED vars
  BY <1>3 DEF vars, Inv, TypeOK, AllHealthy, ReportsSpeak
<1> QED
  BY <1>1, <1>2, <1>3 DEF Next, Quiet

-----------------------------------------------------------------------------
(* What one step does to the views. *)

Ringing == {"ring", "ringreport"}

\* A step of c that rings no bell and disturbs no other client's call; it
\* leaves c waiting only if there is no news for it.
Acts(c) ==
    /\ pc[c] \notin Ringing
    /\ \A d \in Clients \ {c} :
          /\ pc'[d] = pc[d]
          /\ id'[d] = id[d]
          /\ since'[d] = since[d]
          /\ woken'[d] = woken[d]
    /\ pc'[c] = "waiting" =>
          /\ UNCHANGED <<views, id, since>>
          /\ views[id[c]] # None
          /\ ~(views[id[c]].state.revision > since[c])

\* It opens a vacant view and is about to ring,
Opening(c) ==
    /\ Acts(c)
    /\ pc'[c] \in Ringing
    /\ \E v \in Views, about \in Optional(Abouts) :
          views[v] = None /\ Opens(c, v, about)

\* or operates soundly on an open one and is about to ring if that moved it,
Operating(c, v, o, e) ==
    /\ Acts(c)
    /\ views[v] # None
    /\ Sound(views[v], o)
    /\ Answered(c, v, o, e)
    /\ o.kind = "moved" => pc'[c] \in Ringing
    /\ e # None /\ o.kind = "moved" =>
          e \in Expectations(c, v) /\ e = views[v].state.revision

\* or at most looks at it.
Looking(c) ==
    /\ Acts(c)
    /\ UNCHANGED <<views, basis>>
    /\ \/ UNCHANGED seen
       \/ \E v \in Views :
             Shows(c, v, IF views[v] = None THEN None ELSE views[v].state)

\* The three ways a client's step can meet the views.
Meets(c) ==
    \/ Opening(c)
    \/ \E v \in Views : \E o, e : Operating(c, v, o, e)
    \/ Looking(c)

\* An operation a client calls is one of the three.
LEMMA CallsMeet ==
    ASSUME Inv, NEW c \in Clients, Calls(c)
    PROVE  Meets(c)
<1>1. Registry /\ Local
  BY InvParts
<1> USE <1>1
<1>2. ASSUME NEW v \in Views, views[v] # None
      PROVE  Healthy(views[v])
  BY <1>2 DEF Registry, AllHealthy
<1>3. ASSUME NEW v \in Views, NEW step \in Steps \ {"waiting"},
             Starts(c, v, step), UNCHANGED woken,
             \A d \in Clients \ {c} : since'[d] = since[d]
      PROVE  Acts(c) /\ pc'[c] = step
  BY <1>3 DEF Starts, Local, Acts, Ringing
<1>4. ASSUME NEW o
      PROVE  /\ NextStep(o) \in Steps \ {"waiting"}
             /\ o.kind = "moved" => NextStep(o) \in Ringing
  BY DEF NextStep, Steps, Ringing
<1>5. ASSUME NEW v \in Views, NEW e \in Expectations(c, v),
             NEW about \in Optional(Abouts), Open(c, v, about, e)
      PROVE  Opening(c)
  <2>1. Acts(c) /\ pc'[c] = "ring"
    BY <1>3, <1>5 DEF Open, Steps
  <2>2. views[v] = None /\ Opens(c, v, about)
    BY <1>5 DEF Open
  <2> QED  BY <2>1, <2>2 DEF Opening, Ringing
<1>6. ASSUME NEW v \in Views, NEW o, NEW e \in Expectations(c, v),
             views[v] # None, Sound(views[v], o),
             Starts(c, v, NextStep(o)), Answered(c, v, o, e),
             UNCHANGED <<since, woken>>,
             e # None /\ o.kind = "moved" => e = views[v].state.revision
      PROVE  Operating(c, v, o, e)
  <2>1. Acts(c) /\ pc'[c] = NextStep(o)
    BY <1>3, <1>4, <1>6
  <2>2. o.kind = "moved" => pc'[c] \in Ringing
    BY <1>4, <2>1
  <2> QED  BY <1>6, <2>1, <2>2 DEF Operating
<1>7. ASSUME NEW v \in Views, NEW e \in Expectations(c, v),
             NEW about \in Optional(Abouts), NEW actor \in Actors,
             OpenAgain(c, v, about, actor, e)
      PROVE  \E o : Operating(c, v, o, e)
  <2> DEFINE o == Reopen(views[v], about, e, actor)
  <2>1. Sound(views[v], o)
    BY <1>2, <1>7, ReopenIsSound DEF OpenAgain
  <2>2. e # None /\ o.kind = "moved" => e = views[v].state.revision
    BY MovesAsExpected
  <2>3. /\ views[v] # None
        /\ Starts(c, v, NextStep(o))
        /\ Answered(c, v, o, e)
        /\ UNCHANGED <<since, woken>>
    BY <1>7 DEF OpenAgain
  <2> HIDE DEF o
  <2> QED  BY <1>6, <2>1, <2>2, <2>3
<1>8. ASSUME NEW v \in Views, NEW e \in Expectations(c, v),
             NEW i \in Intents, ApplyIntent(c, v, i, e)
      PROVE  \E o : Operating(c, v, o, e)
  <2> DEFINE o == Judge(views[v], i, e)
  <2>1. Sound(views[v], o)
    BY <1>2, <1>8, JudgeIsSound, IntentsAssumption DEF ApplyIntent
  <2>2. e # None /\ o.kind = "moved" => e = views[v].state.revision
    BY MovesAsExpected
  <2>3. /\ views[v] # None
        /\ Starts(c, v, NextStep(o))
        /\ Answered(c, v, o, e)
        /\ UNCHANGED <<since, woken>>
    BY <1>8 DEF ApplyIntent
  <2> HIDE DEF o
  <2> QED  BY <1>6, <2>1, <2>2, <2>3
<1>9. ASSUME NEW v \in Views, NEW e \in Expectations(c, v),
             TakeViewControl(c, v, e)
      PROVE  \E o : Operating(c, v, o, e)
  <2> DEFINE o == TakeControl(views[v], e)
  <2>1. Sound(views[v], o)
    BY <1>2, <1>9, TakeControlIsSound DEF TakeViewControl
  <2>2. e # None /\ o.kind = "moved" => e = views[v].state.revision
    BY MovesAsExpected
  <2>3. /\ views[v] # None
        /\ Starts(c, v, NextStep(o))
        /\ Answered(c, v, o, e)
        /\ UNCHANGED <<since, woken>>
    BY <1>9 DEF TakeViewControl
  <2> HIDE DEF o
  <2> QED  BY <1>6, <2>1, <2>2, <2>3
<1>10. ASSUME NEW v \in Views, NEW actor \in Actors,
              UndoViewMove(c, v, actor)
       PROVE  \E o, e : Operating(c, v, o, e)
  <2> DEFINE o == Undo(views[v], actor)
  <2>1. Sound(views[v], o)
    BY <1>2, <1>10, UndoIsSound DEF UndoViewMove
  <2>2. /\ views[v] # None
        /\ Starts(c, v, NextStep(o))
        /\ Answered(c, v, o, None)
        /\ UNCHANGED <<since, woken>>
    BY <1>10 DEF UndoViewMove
  <2>3. None \in Expectations(c, v)
    BY DEF Expectations
  <2> HIDE DEF o
  <2> QED  BY <1>6, <2>1, <2>2, <2>3
<1>11. ASSUME NEW v \in Views, GetViewState(c, v)
       PROVE  Looking(c)
  <2>1. Acts(c)
    BY <1>3, <1>11 DEF GetViewState, Steps
  <2> QED  BY <1>11, <2>1 DEF GetViewState, Looking
<1>12. ASSUME NEW v \in Views, NEW i \in Intents, Report(c, v, i)
       PROVE  Looking(c)
  <2>1. Acts(c)
    BY <1>3, <1>12 DEF Report, Steps
  <2> QED  BY <1>12, <2>1 DEF Report, Looking
<1>13. ASSUME NEW v \in Views, Poll(c, v)
       PROVE  Looking(c)
  <2>1. \A d \in Clients \ {c} : since'[d] = since[d]
    BY <1>13 DEF Poll, Local
  <2>2. Acts(c)
    BY <1>3, <1>13, <2>1 DEF Poll, Steps
  <2> QED  BY <1>13, <2>2 DEF Poll, Looking
<1> QED
  BY <1>5, <1>7, <1>8, <1>9, <1>10, <1>11, <1>12, <1>13 DEF Calls, Meets

\* So is a step of a call in progress that is not its ring.
LEMMA ProgressMeets ==
    ASSUME Inv, NEW c \in Clients, Proceeds(c) \/ Expire(c), ~Ring(c)
    PROVE  Meets(c)
<1>1. Registry /\ Local
  BY InvParts
<1> USE <1>1
<1>2. id[c] \in Views
  BY DEF Local
<1>3. views[id[c]] # None => Healthy(views[id[c]])
  BY <1>2 DEF Registry, AllHealthy
<1>4. ASSUME NEW actor \in Actors, EnsureOpen(c, actor)
      PROVE  Meets(c)
  <2> DEFINE v == id[c]
             about == intent[c].patch.about
             o == Reopen(views[v], about, None, actor)
  <2>1. about \in Optional(Abouts)
    BY <1>4, IntentsAssumption DEF EnsureOpen, Local, ReportsSpeak, Intent,
       Patch
  <2>2. /\ \A d \in Clients \ {c} : pc'[d] = pc[d]
        /\ pc'[c] \in {"ringreport", "report"}
        /\ views[v] = None => pc'[c] = "ringreport"
        /\ views[v] # None /\ o.kind = "moved" => pc'[c] = "ringreport"
    BY <1>4 DEF EnsureOpen, Local
  <2>3. pc[c] = "ensure" /\ UNCHANGED <<id, since, woken>>
    BY <1>4 DEF EnsureOpen
  <2>4. Acts(c)
    BY <2>2, <2>3 DEF Acts, Ringing
  <2>5. CASE views[v] = None
    <3>1. Opens(c, v, about)
      BY <1>4, <2>5 DEF EnsureOpen
    <3> QED  BY <1>2, <2>1, <2>2, <2>4, <2>5, <3>1 DEF Opening, Meets, Ringing
  <2>6. CASE views[v] # None
    <3>1. Sound(views[v], o)
      BY <1>3, <2>1, <2>6, ReopenIsSound
    <3>2. Answered(c, v, o, None)
      BY <1>4, <2>6 DEF EnsureOpen
    <3>3. o.kind = "moved" => pc'[c] \in Ringing
      BY <2>2, <2>6 DEF Ringing
    <3> HIDE DEF o, about
    <3>4. Operating(c, v, o, None)
      BY <2>4, <2>6, <3>1, <3>2, <3>3 DEF Operating
    <3> QED  BY <1>2, <3>4 DEF Meets
  <2> QED  BY <2>5, <2>6
<1>5. CASE ReportIntent(c)
  <2> DEFINE v == id[c]
             o == Judge(views[v], intent[c], None)
  <2>1. intent[c] \in Intent
    BY <1>5, IntentsAssumption DEF ReportIntent, Local, ReportsSpeak
  <2>2. /\ \A d \in Clients \ {c} : pc'[d] = pc[d]
        /\ pc'[c] \in {"ring", "idle"}
        /\ views[v] # None /\ o.kind = "moved" => pc'[c] = "ring"
    BY <1>5 DEF ReportIntent, Local, NextStep
  <2>3. pc[c] = "report" /\ UNCHANGED <<id, since, woken>>
    BY <1>5 DEF ReportIntent
  <2>4. Acts(c)
    BY <2>2, <2>3 DEF Acts, Ringing
  <2>5. CASE views[v] = None
    BY <1>5, <2>4, <2>5 DEF ReportIntent, Looking, Meets
  <2>6. CASE views[v] # None
    <3>1. Sound(views[v], o)
      BY <1>3, <2>1, <2>6, JudgeIsSound
    <3>2. Answered(c, v, o, None)
      BY <1>5, <2>6 DEF ReportIntent
    <3>3. o.kind = "moved" => pc'[c] \in Ringing
      BY <2>2, <2>6 DEF Ringing
    <3> HIDE DEF o
    <3>4. Operating(c, v, o, None)
      BY <2>4, <2>6, <3>1, <3>2, <3>3 DEF Operating
    <3> QED  BY <1>2, <3>4 DEF Meets
  <2> QED  BY <2>5, <2>6
<1>6. CASE Listen(c) \/ Wake(c) \/ Expire(c)
  <2>1. Acts(c)
    BY <1>6 DEF Listen, Wake, Expire, Local, Acts, Ringing
  <2> QED  BY <1>6, <2>1 DEF Listen, Wake, Expire, Looking, Meets
<1>7. CASE Read(c) \/ LastRead(c)
  <2>1. Acts(c)
    BY <1>7 DEF Read, LastRead, Local, Acts, Ringing
  <2>2. /\ UNCHANGED <<views, basis>>
        /\ \/ UNCHANGED seen
           \/ Shows(c, id[c], IF views[id[c]] = None
                                THEN None ELSE views[id[c]].state)
    BY <1>7 DEF Read, LastRead
  <2> QED  BY <1>2, <2>1, <2>2 DEF Looking, Meets
<1> QED
  BY <1>4, <1>5, <1>6, <1>7 DEF Proceeds

\* Every step of the registry and its clients.
LEMMA StepsMeet ==
    ASSUME Inv, [Next]_vars
    PROVE  \/ \E c \in Clients : Meets(c) \/ Ring(c)
           \/ \E v \in Views : Forget(v)
           \/ UNCHANGED vars
  BY CallsMeet, ProgressMeets DEF Next, Quiet

-----------------------------------------------------------------------------
(* What holds of every behaviour. *)

\* The registry and the calls on it keep their types.
THEOREM TypeCorrect == Spec => []TypeOK
<1>1. Inv => TypeOK
  BY DEF Inv
<1> QED
  BY <1>1, InitIsTyped, StepKeepsInv, PTL DEF Spec

\* can_undo, the flag both faces read, says whether a step back would
\* succeed, whatever the limit of the history.
THEOREM CanUndoIsAlwaysTrue == Spec => []CanUndoIsTrue
<1>1. Inv => CanUndoIsTrue
  BY DEF Inv, AllHealthy, Healthy, CanUndoIsTrue
<1> QED
  BY <1>1, InitIsTyped, StepKeepsInv, PTL DEF Spec

\* A replay answers with a revision the view has reached.
THEOREM HonoredIsAlwaysPast == Spec => []HonoredIsPast
<1>1. Inv => HonoredIsPast
  BY DEF Inv, AllHealthy, Healthy, HonoredIsPast
<1> QED
  BY <1>1, InitIsTyped, StepKeepsInv, PTL DEF Spec

\* What a step makes of a view that stays open.
Changes ==
    \A v \in Views :
        /\ views[v] # None
        /\ views'[v] # None
        /\ views'[v].state # views[v].state
        => views'[v].state.revision = views[v].state.revision + 1

\* No operation changes an open view without taking it to the next revision,
\* or takes it there without the change: a step back and a change of about
\* included.
THEOREM NothingEverMovesSilently == Spec => NothingMovesSilently
<1>1. ASSUME Inv, [Next]_vars
      PROVE  Changes
  <2> SUFFICES ASSUME NEW v \in Views, views[v] # None, views'[v] # None,
                      views'[v].state # views[v].state
               PROVE  views'[v].state.revision = views[v].state.revision + 1
    BY DEF Changes
  <2>1. views \in [Views -> Optional(Session)]
    BY <1>1 DEF Inv, TypeOK
  <2>2. CASE \E c \in Clients : Opening(c)
    BY <2>1, <2>2 DEF Opening, Opens
  <2>3. CASE \E c \in Clients, w \in Views : \E o, e : Operating(c, w, o, e)
    BY <2>1, <2>3 DEF Operating, Answered, Sound
  <2>4. CASE \E c \in Clients : Looking(c) \/ Ring(c)
    BY <2>4 DEF Looking, Ring
  <2>5. CASE \E w \in Views : Forget(w)
    BY <2>1, <2>5 DEF Forget
  <2>6. CASE UNCHANGED vars
    BY <2>6 DEF vars
  <2> QED  BY <1>1, <2>2, <2>3, <2>4, <2>5, <2>6, StepsMeet DEF Meets
<1>2. Inv /\ [Next]_vars => [Changes]_vars
  BY <1>1
<1> QED
  BY <1>2, InitIsTyped, StepKeepsInv, PTL DEF Spec, NothingMovesSilently, Changes

\* A poll that waits unwoken has no news, unless the bell is about to ring.
THEOREM NoNewsIsEverMissed == Spec => []NoNewsIsMissed
<1>1. Init => NoNewsIsMissed
  BY DEF Init, NoNewsIsMissed
<1>2. ASSUME Inv, NoNewsIsMissed, [Next]_vars
      PROVE  NoNewsIsMissed'
  <2> SUFFICES ASSUME NEW c \in Clients, pc'[c] = "waiting", ~woken'[c],
                      views'[id'[c]] # None,
                      views'[id'[c]].state.revision > since'[c]
               PROVE  \E d \in Clients : pc'[d] \in Ringing
    BY DEF NoNewsIsMissed, Ringing
  <2>1. TypeOK
    BY <1>2 DEF Inv
  <2>2. ASSUME NEW d \in Clients, Acts(d), c # d, pc'[d] \notin Ringing,
               views[id[c]] # None,
               views'[id[c]].state = views[id[c]].state
        PROVE  \E x \in Clients : pc'[x] \in Ringing
    <3>1. /\ pc[c] = "waiting" /\ ~woken[c]
          /\ views[id[c]].state.revision > since[c]
      BY <2>2 DEF Acts
    <3>2. PICK x \in Clients : pc[x] \in Ringing
      BY <1>2, <2>2, <3>1 DEF NoNewsIsMissed, Ringing
    <3>3. pc'[x] = pc[x]
      BY <2>2, <3>2 DEF Acts
    <3> QED  BY <3>2, <3>3
  <2>3. ASSUME NEW d \in Clients, Acts(d)
        PROVE  c # d /\ id'[c] = id[c] /\ id[c] \in Views
    BY <2>1, <2>3 DEF Acts, TypeOK
  <2>4. CASE \E d \in Clients : Opening(d)
    BY <2>4 DEF Opening
  <2>5. ASSUME NEW d \in Clients, NEW v \in Views, NEW o, NEW e,
               Operating(d, v, o, e)
        PROVE  \E x \in Clients : pc'[x] \in Ringing
    <3>1. c # d /\ id'[c] = id[c] /\ id[c] \in Views /\ Acts(d)
      BY <2>3, <2>5 DEF Operating
    <3>2. CASE o.kind = "moved"
      BY <2>5, <3>2 DEF Operating
    <3>3. CASE o.kind # "moved"
      <4>1. views[id[c]] # None /\ views'[id[c]].state = views[id[c]].state
        BY <2>1, <2>5, <3>1, <3>3 DEF Operating, Answered, Sound, TypeOK
      <4> QED  BY <2>2, <3>1, <4>1
    <3> QED  BY <3>2, <3>3
  <2>6. ASSUME NEW d \in Clients, Looking(d)
        PROVE  \E x \in Clients : pc'[x] \in Ringing
    <3>1. c # d /\ id'[c] = id[c] /\ Acts(d) /\ UNCHANGED views
      BY <2>3, <2>6 DEF Looking
    <3> QED  BY <2>2, <3>1
  <2>7. ASSUME NEW d \in Clients, Ring(d)
        PROVE  FALSE
    <3>1. pc'[d] # "waiting" /\ pc[c] = "waiting"
      BY <2>1, <2>7 DEF Ring, TypeOK
    <3> QED  BY <2>7, <3>1 DEF Ring
  <2>8. ASSUME NEW v \in Views, Forget(v)
        PROVE  FALSE
    BY <2>8 DEF Forget
  <2>9. CASE UNCHANGED vars
    BY <1>2, <2>9 DEF vars, NoNewsIsMissed, Ringing
  <2> QED
    BY <1>2, <2>4, <2>5, <2>6, <2>7, <2>8, <2>9, StepsMeet DEF Meets
<1> QED
  BY <1>1, <1>2, InitIsTyped, StepKeepsInv, PTL DEF Spec

\* While no session is forgotten, what a client was shown of a view is its
\* past or its present.
Known ==
    \A c \in Clients, v \in Views :
        seen[c][v] # None =>
            /\ views[v] # None
            /\ \/ seen[c][v].revision < views[v].state.revision
               \/ seen[c][v] = views[v].state

\* A step may only take a view on, or leave its state as it was.
Onward ==
    \A v \in Views :
        views[v] # None =>
            /\ views'[v] # None
            /\ \/ views'[v].state = views[v].state
               \/ views'[v].state.revision = views[v].state.revision + 1

\* Knowledge stays good as the views go on, for whoever learns nothing or
\* is shown the present state.
LEMMA KnowledgeKeeps ==
    ASSUME Inv, Known, Onward, NEW c \in Clients, NEW v \in Views,
           \/ UNCHANGED seen
           \/ /\ views'[v] # None
              /\ Shows(c, v, views'[v].state)
           \/ Shows(c, v, None)
    PROVE  Known'
<1> SUFFICES ASSUME NEW d \in Clients, NEW w \in Views, seen'[d][w] # None
             PROVE  /\ views'[w] # None
                    /\ \/ seen'[d][w].revision < views'[w].state.revision
                       \/ seen'[d][w] = views'[w].state
  BY DEF Known
<1>1. seen \in [Clients -> [Views -> Optional(ViewState)]]
  BY DEF Inv, TypeOK
<1>2. CASE seen'[d][w] = seen[d][w]
  <2>1. /\ views[w] # None
        /\ \/ seen[d][w].revision < views[w].state.revision
           \/ seen[d][w] = views[w].state
    BY <1>2 DEF Known
  <2>2. /\ seen[d][w].revision \in Nat
        /\ views[w].state.revision \in Nat
    BY <1>1, <1>2, <2>1, SessionParts
    DEF Inv, AllHealthy, Optional, ViewState
  <2>3. /\ views'[w] # None
        /\ \/ views'[w].state = views[w].state
           \/ views'[w].state.revision = views[w].state.revision + 1
    BY <2>1 DEF Onward
  <2> QED  BY <1>2, <2>1, <2>2, <2>3
<1>3. CASE seen'[d][w] # seen[d][w]
  <2>1. d = c /\ w = v
    BY <1>1, <1>3 DEF Shows
  <2> QED  BY <1>1, <1>3, <2>1 DEF Shows
<1> QED
  BY <1>2, <1>3

\* A checked operation moves the view only from the very state its caller
\* was shown, as long as no session is pruned and the process lives.
THEOREM MovesAreInformed ==
    ASSUME MayForget = FALSE
    PROVE  Spec => []MovesFromWhatWasSeen
<1>1. Init => Known /\ MovesFromWhatWasSeen
  BY DEF Init, Known, MovesFromWhatWasSeen
<1>2. ASSUME Inv, Known, MovesFromWhatWasSeen, [Next]_vars
      PROVE  Known' /\ MovesFromWhatWasSeen'
  <2>1. /\ views \in [Views -> Optional(Session)]
        /\ seen \in [Clients -> [Views -> Optional(ViewState)]]
        /\ DOMAIN basis = Clients
        /\ AllHealthy
    BY <1>2 DEF Inv, TypeOK
  <2>2. CASE UNCHANGED <<views, seen, basis>>
    BY <1>2, <2>2 DEF Known, MovesFromWhatWasSeen
  <2>3. ASSUME NEW c \in Clients, NEW v \in Views,
               NEW about \in Optional(Abouts), views[v] = None,
               Opens(c, v, about)
        PROVE  Known' /\ MovesFromWhatWasSeen'
    <3>1. /\ Opened(about) # None
          /\ Opened(about).state = Fresh(about)
      BY FreshIsTyped, AbsentAssumption DEF Healthy, Opened
    <3>2. Onward
      BY <2>1, <2>3 DEF Opens, Onward
    <3>3. views'[v] # None /\ Shows(c, v, views'[v].state)
      BY <2>1, <2>3, <3>1 DEF Opens
    <3>4. Known'
      BY <1>2, <3>2, <3>3, KnowledgeKeeps
    <3>5. MovesFromWhatWasSeen'
      BY <1>2, <2>1, <2>3 DEF Opens, MovesFromWhatWasSeen
    <3> QED  BY <3>4, <3>5
  <2>4. ASSUME NEW c \in Clients, NEW v \in Views, NEW o, NEW e,
               Operating(c, v, o, e)
        PROVE  Known' /\ MovesFromWhatWasSeen'
    <3>1. /\ views[v] # None
          /\ Sound(views[v], o)
          /\ Answered(c, v, o, e)
      BY <2>4 DEF Operating
    <3>2. views'[v] = o.session /\ o.session # None
      BY <2>1, <3>1, AbsentAssumption DEF Answered, Sound, Healthy
    <3>3. Onward
      BY <2>1, <3>1, <3>2 DEF Answered, Onward, Sound
    <3>4. UNCHANGED seen \/ Shows(c, v, views'[v].state)
      BY <3>1, <3>2 DEF Answered, Sound
    <3>5. Known'
      BY <1>2, <3>2, <3>3, <3>4, KnowledgeKeeps
    <3>6. ASSUME e # None, o.kind = "moved"
          PROVE  seen[c][v] = views[v].state
      <4>1. e \in Expectations(c, v) /\ e = views[v].state.revision
        BY <2>4, <3>6 DEF Operating
      <4>2. views[v].state.revision \in Nat /\ views[v].state.revision > 0
        BY <2>1, <3>1, SessionParts DEF AllHealthy, Healthy
      <4>3. seen[c][v] # None /\ e = seen[c][v].revision
        BY <3>6, <4>1, <4>2 DEF Expectations
      <4>4. \/ seen[c][v].revision < views[v].state.revision
            \/ seen[c][v] = views[v].state
        BY <1>2, <2>4, <4>3 DEF Known
      <4>5. ~(seen[c][v].revision < views[v].state.revision)
        BY <4>1, <4>2, <4>3
      <4> QED  BY <4>4, <4>5
    <3>7. MovesFromWhatWasSeen'
      <4> SUFFICES ASSUME NEW d \in Clients, basis'[d] # None
                   PROVE  basis'[d].seen = basis'[d].replaced
        BY DEF MovesFromWhatWasSeen
      <4>1. CASE d = c
        BY <2>1, <3>1, <3>6, <4>1 DEF Answered
      <4>2. CASE d # c
        BY <1>2, <2>1, <3>1, <4>2 DEF Answered, MovesFromWhatWasSeen
      <4> QED  BY <4>1, <4>2
    <3> QED  BY <3>5, <3>7
  <2>5. ASSUME NEW c \in Clients, NEW v \in Views, UNCHANGED <<views, basis>>,
               Shows(c, v, IF views[v] = None THEN None ELSE views[v].state)
        PROVE  Known' /\ MovesFromWhatWasSeen'
    <3>1. Onward
      BY <2>5 DEF Onward
    <3>2. \/ views'[v] # None /\ Shows(c, v, views'[v].state)
          \/ Shows(c, v, None)
      BY <2>5
    <3>3. Known'
      BY <1>2, <3>1, <3>2, KnowledgeKeeps
    <3> QED  BY <1>2, <2>5, <3>3 DEF MovesFromWhatWasSeen
  <2>6. ASSUME NEW c \in Clients, Meets(c)
        PROVE  Known' /\ MovesFromWhatWasSeen'
    BY <2>2, <2>3, <2>4, <2>5, <2>6 DEF Meets, Opening, Looking
  <2>7. ASSUME NEW c \in Clients, Ring(c)
        PROVE  UNCHANGED <<views, seen, basis>>
    BY <2>7 DEF Ring
  <2>8. ASSUME NEW v \in Views, Forget(v)
        PROVE  FALSE
    BY <2>8 DEF Forget
  <2>9. UNCHANGED vars => UNCHANGED <<views, seen, basis>>
    BY DEF vars
  <2> QED
    BY <1>2, <2>2, <2>6, <2>7, <2>8, <2>9, StepsMeet
<1> QED
  BY <1>1, <1>2, InitIsTyped, StepKeepsInv, PTL DEF Spec
-----------------------------------------------------------------------------
(* One intent per key: what a session remembers are the newest of the keys *)
(* it was ever asked to honor, so a key comes back only after the limit.   *)

Ledger(s, cl) ==
    LET n == Len(cl)
        m == Len(s.honored)
    IN  /\ m = IF n < IdempotencyLimit THEN n ELSE IdempotencyLimit
        /\ \A k \in 1..m : s.honored[k].key = cl[n - m + k]

Spread(cl) ==
    \A i, j \in 1..Len(cl) : i < j /\ cl[i] = cl[j] => j - i > IdempotencyLimit

Ledgers == \A v \in Views : /\ Spread(claims[v])
                            /\ views[v] # None => Ledger(views[v], claims[v])

ReportsClaimNothing ==
    \A c \in Clients :
        pc[c] \in {"ensure", "ringreport", "report"} => intent[c].claim = None

\* What appending to a sequence and dropping its oldest leaves, by index.
IsNewest(new, seq, e, limit) ==
    LET d == Len(seq) + 1 - Len(new)
    IN  /\ Len(new) = IF Len(seq) < limit THEN Len(seq) + 1 ELSE limit
        /\ \A k \in 1..Len(new) :
              new[k] = IF k + d = Len(seq) + 1 THEN e ELSE seq[k + d]

\* Newest of a grown sequence is that.
LEMMA NewestByIndex ==
    ASSUME NEW S, NEW seq \in Seq(S), NEW e \in S, NEW limit \in Nat \ {0},
           Len(seq) <= limit
    PROVE  IsNewest(Newest(Append(seq, e), limit), seq, e, limit)
<1> USE DEF IsNewest
<1> DEFINE a == Append(seq, e)
<1>1. /\ a \in Seq(S) /\ Len(seq) \in Nat /\ Len(a) = Len(seq) + 1 /\ a # <<>>
      /\ \A i \in 1..Len(a) : a[i] = IF i = Len(seq) + 1 THEN e ELSE seq[i]
  OBVIOUS
<1> HIDE DEF a
<1>2. CASE Len(a) > limit
  <2> DEFINE t == Tail(a)
  <2>1. /\ Len(t) = Len(a) - 1
        /\ \A i \in 1..Len(t) : t[i] = a[i + 1]
    BY <1>1, HeadTailProperties
  <2>2. Newest(a, limit) = t /\ Len(seq) = limit
    BY <1>1, <1>2 DEF Newest
  <2> HIDE DEF t
  <2>3. Len(t) = limit /\ Len(seq) + 1 - Len(t) = 1
    BY <1>1, <2>1, <2>2
  <2>4. ASSUME NEW k \in 1..Len(t)
        PROVE  t[k] = IF k + 1 = Len(seq) + 1 THEN e ELSE seq[k + 1]
    <3>1. k + 1 \in 1..Len(a) /\ t[k] = a[k + 1]
      BY <1>1, <2>1
    <3> QED
      BY <1>1, <3>1
  <2> QED
    BY <2>2, <2>3, <2>4 DEF a
<1>3. CASE ~(Len(a) > limit)
  <2>1. Newest(a, limit) = a /\ Len(seq) < limit /\ Len(seq) + 1 - Len(a) = 0
    BY <1>1, <1>3 DEF Newest
  <2>2. \A k \in 1..Len(a) : k + 0 = k
    BY <1>1
  <2> QED
    BY <1>1, <2>1, <2>2 DEF a
<1> QED
  BY <1>2, <1>3

\* Remembering a key enters it in the ledger.
LEMMA RememberEnters ==
    ASSUME NEW s, Healthy(s), NEW claim \in Claim, claim # None,
           NEW cl \in Seq(Keys), Ledger(s, cl)
    PROVE  Ledger(Remember(s, claim), Append(cl, claim.key))
<1> DEFINE r == [key |-> claim.key, digest |-> claim.digest, revision |-> s.state.revision]
           q == s.honored
           L == IdempotencyLimit
           h == Newest(Append(q, r), L)
           n == Len(cl)
           m == Len(q)
           c == Append(cl, claim.key)
           d == m + 1 - Len(h)
<1>1. q \in Seq(Record) /\ s \in Session /\ r \in Record /\ r.key = claim.key
  BY DEF Healthy, Session, ViewState, Claim, Record
<1>2. Remember(s, claim).honored = h
  BY <1>1 DEF Remember, Session
<1>3. /\ n \in Nat /\ m \in Nat /\ L \in Nat \ {0}
      /\ m = IF n < L THEN n ELSE L
      /\ \A k \in 1..m : q[k].key = cl[n - m + k]
  BY <1>1, LimitAssumption DEF Ledger
<1>4. /\ Len(c) = n + 1 /\ c[n + 1] = claim.key
      /\ \A i \in 1..n : c[i] = cl[i]
  <2>1. claim.key \in Keys
    BY DEF Claim
  <2> QED
    BY <2>1
<1> HIDE DEF r, q, L
<1>5. /\ Len(h) = IF m < L THEN m + 1 ELSE L
      /\ \A k \in 1..Len(h) : h[k] = IF k + d = m + 1 THEN r ELSE q[k + d]
  <2>1. Len(q) <= L
    BY <1>3
  <2> HIDE DEF h
  <2>2. h = Newest(Append(q, r), L)
    BY DEF h
  <2>3. IsNewest(Newest(Append(q, r), L), q, r, L)
    BY <1>1, <1>3, <2>1, NewestByIndex
  <2> QED
    BY <2>2, <2>3 DEF IsNewest
<1> HIDE DEF h, n, m, c
<1>6. Len(h) = IF Len(c) < L THEN Len(c) ELSE L
  BY <1>3, <1>4, <1>5
<1>7. ASSUME NEW k \in 1..Len(h) PROVE h[k].key = c[Len(c) - Len(h) + k]
  <2>1. k + d \in 1..(m + 1) /\ d \in Nat /\ k \in Nat /\ Len(h) \in Nat
    BY <1>3, <1>5
  <2>2. CASE k + d = m + 1
    <3>1. Len(c) - Len(h) + k = n + 1
      BY <1>3, <1>4, <2>1, <2>2, SMTT(30)
    <3> QED
      BY <1>1, <1>4, <1>5, <2>2, <3>1
  <2>3. CASE k + d # m + 1
    <3>1. k + d \in 1..m /\ n - m + (k + d) \in 1..n
      <4>1. m <= n
        BY <1>3
      <4> DEFINE x == k + d
      <4>2. x \in 1..(m + 1) /\ x # m + 1 /\ m \in Nat /\ n \in Nat
        BY <1>3, <2>1, <2>3
      <4> HIDE DEF x
      <4>3. x \in 1..m /\ n - m + x \in 1..n
        BY <4>1, <4>2
      <4> QED
        BY <4>3 DEF x
    <3>2. Len(c) = n + 1 /\ n \in Nat /\ m \in Nat
      BY <1>3, <1>4
    <3>3. n - m + (k + d) = Len(c) - Len(h) + k
      BY <2>1, <3>2
    <3>4. h[k] = q[k + d] /\ q[k + d].key = cl[n - m + (k + d)]
      BY <1>3, <1>5, <2>3, <3>1
    <3> QED
      BY <1>4, <3>1, <3>3, <3>4
  <2> QED
    BY <2>2, <2>3
<1>8. Ledger(Remember(s, claim), c)
  BY <1>2, <1>6, <1>7 DEF Ledger, L
<1> QED
  BY <1>8 DEF c

\* A key the session does not honor was last judged beyond the limit.
LEMMA NewKeySpreads ==
    ASSUME NEW s, NEW claim \in Claim, NEW cl \in Seq(Keys), Ledger(s, cl), Spread(cl),
           ~Honors(s, claim)
    PROVE  Spread(Append(cl, claim.key))
<1> DEFINE n == Len(cl)
           m == Len(s.honored)
           L == IdempotencyLimit
           c == Append(cl, claim.key)
<1>1. /\ n \in Nat /\ L \in Nat
      /\ m = IF n < L THEN n ELSE L
      /\ \A k \in 1..m : s.honored[k].key = cl[n - m + k] /\ s.honored[k].key # claim.key
  BY LimitAssumption DEF Ledger, Honors
<1>2. /\ Len(c) = n + 1 /\ c[n + 1] = claim.key
      /\ \A i \in 1..n : c[i] = cl[i]
  <2>1. claim.key \in Keys
    BY DEF Claim
  <2> QED
    BY <2>1
<1> HIDE DEF n, m, c, L
<1>3. ASSUME NEW i \in 1..n, cl[i] = claim.key PROVE n + 1 - i > L
  <2>1. CASE i > n - m
    <3>1. i - (n - m) \in 1..m /\ n - m + (i - (n - m)) = i
      BY <1>1, <2>1
    <3> QED
      BY <1>1, <1>3, <3>1
  <2>2. CASE ~(i > n - m)
    BY <1>1, <2>2
  <2> QED
    BY <2>1, <2>2
<1> SUFFICES ASSUME NEW i \in 1..(n + 1), NEW j \in 1..(n + 1), i < j, c[i] = c[j]
             PROVE  j - i > L
  BY <1>2 DEF Spread, L, c
<1>4. CASE j = n + 1
  BY <1>1, <1>2, <1>3, <1>4
<1>5. CASE j \in 1..n
  <2>1. i \in 1..n
    BY <1>1, <1>5
  <2> QED
    BY <1>2, <1>5, <2>1 DEF Spread, n, L
<1> QED
  BY <1>1, <1>4, <1>5

\* What a session remembers is all a ledger is about.
LEMMA SameHonored ==
    ASSUME NEW s, NEW t, t.honored = s.honored
    PROVE  /\ \A cl : Ledger(s, cl) => Ledger(t, cl)
           /\ \A claim : Honors(t, claim) <=> Honors(s, claim)
BY DEF Ledger, Honors

\* The operations that take no key leave what is remembered alone.
LEMMA KeylessKeepHonored ==
    ASSUME NEW s, s \in Session
    PROVE  /\ \A about, e, actor : Reopen(s, about, e, actor).session.honored = s.honored
           /\ \A e : TakeControl(s, e).session.honored = s.honored
           /\ \A actor : Undo(s, actor).session.honored = s.honored
           /\ \A i, e : i.claim = None => Judge(s, i, e).session.honored = s.honored
<1>1. \A about, e, actor : Reopen(s, about, e, actor).session.honored = s.honored
  BY DEF Reopen, Outcome, Session
<1>2. \A e : TakeControl(s, e).session.honored = s.honored
  BY DEF TakeControl, Outcome, Session
<1>3. \A actor : Undo(s, actor).session.honored = s.honored
  BY DEF Undo, Outcome, Session
<1>4. \A i, e : i.claim = None => Judge(s, i, e).session.honored = s.honored
  BY DEF Judge, Remember, Moved, Outcome, Session
<1> QED
  BY <1>1, <1>2, <1>3, <1>4

\* An intent that is judged enters its key, if it has one that is not honored
\* and was not told that its view is stale.
LEMMA JudgeKeepsLedger ==
    ASSUME NEW s, Healthy(s), NEW i \in Intent, NEW e, NEW cl \in Seq(Keys),
           Ledger(s, cl), Spread(cl), NEW now,
           now = IF i.claim = None \/ Honors(s, i.claim) \/ Judge(s, i, e).kind = "conflict"
                   THEN cl ELSE Append(cl, i.claim.key)
    PROVE  Ledger(Judge(s, i, e).session, now) /\ Spread(now)
<1> DEFINE claim == i.claim
           o == Judge(s, i, e)
<1>0. s \in Session /\ claim \in Optional(Claim)
  BY DEF Healthy, Intent
<1>1. CASE claim = None
  BY <1>0, <1>1, KeylessKeepHonored, SameHonored
<1>2. CASE claim # None /\ Honors(s, claim)
  <2>1. o.session = s
    BY <1>2 DEF Judge, Replay, Outcome
  <2> QED
    BY <1>2, <2>1
<1>3. CASE claim # None /\ ~Honors(s, claim) /\ Stale(s, e)
  <2>1. o.session = s /\ o.kind = "conflict"
    BY <1>3 DEF Judge, Outcome
  <2> QED
    BY <2>1
<1>4. CASE claim # None /\ ~Honors(s, claim) /\ ~Stale(s, e)
  <2>1. claim \in Claim
    BY <1>0, <1>4 DEF Optional
  <2>2. PICK m : /\ o.session = Remember(m, claim) /\ o.kind # "conflict"
                 /\ Healthy(m) /\ m.honored = s.honored
    <3>1. CASE Patched(s.state, i.patch) = s.state
      <4>1. o.session = Remember(s, claim) /\ o.kind # "conflict"
        BY <1>4, <3>1 DEF Judge, Outcome
      <4> QED
        BY <4>1
    <3>2. CASE Patched(s.state, i.patch) # s.state
      <4>1. o.session = Remember(Moved(s, i), claim) /\ o.kind # "conflict"
        BY <1>4, <3>2 DEF Judge, Outcome
      <4>2. Healthy(Moved(s, i)) /\ Moved(s, i).honored = s.honored
        BY <1>0, MovedIsHealthy DEF Moved, Session
      <4> QED
        BY <4>1, <4>2
    <3> QED
      BY <3>1, <3>2
  <2>3. now = Append(cl, claim.key)
    BY <1>4, <2>2
  <2>4. Ledger(m, cl)
    BY <2>2, SameHonored
  <2> QED
    BY <1>4, <2>1, <2>2, <2>3, <2>4, RememberEnters, NewKeySpreads
<1> QED
  BY <1>1, <1>2, <1>3, <1>4

\* An answer keeps the ledgers, if it keeps that of its view.
LEMMA AnsweredLedgers ==
    ASSUME Inv, Ledgers, NEW c \in Clients, NEW v \in Views, NEW o, NEW e,
           Answered(c, v, o, e), NEW now, claims' = [claims EXCEPT ![v] = now],
           Ledger(o.session, now), Spread(now)
    PROVE  Ledgers'
<1>1. /\ views' = [views EXCEPT ![v] = o.session]
      /\ views \in [Views -> Optional(Session)] /\ claims \in [Views -> Seq(Keys)]
  BY DEF Answered, Inv, TypeOK
<1> SUFFICES ASSUME NEW w \in Views
             PROVE  Spread(claims'[w]) /\ (views'[w] # None => Ledger(views'[w], claims'[w]))
  BY DEF Ledgers
<1>2. CASE w = v
  <2>1. claims'[w] = now /\ views'[w] = o.session
    BY <1>1, <1>2
  <2> QED
    BY <2>1
<1>3. CASE w # v
  <2>1. claims'[w] = claims[w] /\ views'[w] = views[w]
    BY <1>1, <1>3
  <2> QED
    BY <2>1 DEF Ledgers
<1> QED
  BY <1>2, <1>3

\* A view that begins has an empty ledger.
LEMMA OpensLedgers ==
    ASSUME Inv, Ledgers, NEW c \in Clients, NEW v \in Views, NEW about, Opens(c, v, about)
    PROVE  Ledgers'
<1>1. /\ views' = [views EXCEPT ![v] = Opened(about)] /\ claims' = [claims EXCEPT ![v] = <<>>]
      /\ views \in [Views -> Optional(Session)] /\ claims \in [Views -> Seq(Keys)]
  BY DEF Opens, Inv, TypeOK
<1>2. Spread(<<>>) /\ Ledger(Opened(about), <<>>)
  BY LimitAssumption DEF Spread, Ledger, Opened
<1> SUFFICES ASSUME NEW w \in Views
             PROVE  Spread(claims'[w]) /\ (views'[w] # None => Ledger(views'[w], claims'[w]))
  BY DEF Ledgers
<1>3. CASE w = v
  <2>1. claims'[w] = <<>> /\ views'[w] = Opened(about)
    BY <1>1, <1>3
  <2> QED
    BY <1>2, <2>1
<1>4. CASE w # v
  <2>1. claims'[w] = claims[w] /\ views'[w] = views[w]
    BY <1>1, <1>4
  <2> QED
    BY <2>1 DEF Ledgers
<1> QED
  BY <1>3, <1>4

LEMMA StepKeepsLedgers ==
    ASSUME Inv, Ledgers, ReportsClaimNothing, [Next]_vars
    PROVE  Ledgers' /\ ReportsClaimNothing'
<1>0. /\ views \in [Views -> Optional(Session)] /\ claims \in [Views -> Seq(Keys)]
      /\ pc \in [Clients -> Steps] /\ id \in [Clients -> Views]
      /\ intent \in [Clients -> Optional(Intents)]
      /\ \A v \in Views : views[v] # None => Healthy(views[v]) /\ views[v] \in Session
  BY DEF Inv, TypeOK, AllHealthy, Healthy
<1>1. ASSUME NEW c \in Clients, NEW v \in Views, NEW o, NEW e, views[v] # None,
             Answered(c, v, o, e), o.session.honored = views[v].honored, claims' = claims
      PROVE  Ledgers'
  <2>1. claims' = [claims EXCEPT ![v] = claims[v]]
    BY <1>0, <1>1
  <2>2. Ledger(o.session, claims[v]) /\ Spread(claims[v])
    BY <1>1, SameHonored DEF Ledgers
  <2> QED
    BY <1>1, <2>1, <2>2, AnsweredLedgers
<1>2. ASSUME NEW c \in Clients, NEW v \in Views, NEW i \in Intents, NEW e,
             ApplyIntent(c, v, i, e)
      PROVE  Ledgers'
  <2> DEFINE o == Judge(views[v], i, e)
             new == Append(claims[v], i.claim.key)
             now == IF i.claim = None \/ Honors(views[v], i.claim) \/ o.kind = "conflict"
                      THEN claims[v] ELSE new
  <2>1. views[v] # None /\ Answered(c, v, o, e) /\ Claimed(v, i, o)
    BY <1>2 DEF ApplyIntent
  <2>2. Ledger(o.session, now) /\ Spread(now)
    BY <1>0, <2>1, IntentsAssumption, JudgeKeepsLedger DEF Ledgers
  <2>3. claims' = [claims EXCEPT ![v] = now]
    <3> HIDE DEF o
    <3>1. CASE now = claims[v] /\ claims' = claims
      BY <1>0, <3>1
    <3>2. CASE now = new /\ claims' = [claims EXCEPT ![v] = new]
      BY <3>2
    <3> QED
      BY <2>1, <3>1, <3>2 DEF Claimed
  <2> HIDE DEF o, now
  <2> QED
    BY <2>1, <2>2, <2>3, AnsweredLedgers
<1>3. ASSUME NEW c \in Clients, NEW v \in Views, NEW e \in Expectations(c, v),
             \/ \E about \in Optional(Abouts) :
                   \/ Open(c, v, about, e)
                   \/ \E actor \in Actors : OpenAgain(c, v, about, actor, e)
             \/ TakeViewControl(c, v, e)
             \/ \E actor \in Actors : UndoViewMove(c, v, actor)
      PROVE  Ledgers'
  <2>1. ASSUME NEW about \in Optional(Abouts), Open(c, v, about, e) PROVE Ledgers'
    BY <2>1, OpensLedgers DEF Open
  <2>2. ASSUME NEW about \in Optional(Abouts), NEW actor \in Actors,
               OpenAgain(c, v, about, actor, e)
        PROVE  Ledgers'
    BY <1>0, <1>1, <2>2, KeylessKeepHonored DEF OpenAgain
  <2>3. CASE TakeViewControl(c, v, e)
    BY <1>0, <1>1, <2>3, KeylessKeepHonored DEF TakeViewControl
  <2>4. ASSUME NEW actor \in Actors, UndoViewMove(c, v, actor) PROVE Ledgers'
    BY <1>0, <1>1, <2>4, KeylessKeepHonored DEF UndoViewMove
  <2> QED
    BY <1>3, <2>1, <2>2, <2>3, <2>4
<1>4. ASSUME NEW c \in Clients, NEW actor \in Actors, EnsureOpen(c, actor) PROVE Ledgers'
  <2> DEFINE v == id[c]
             about == intent[c].patch.about
             o == Reopen(views[v], about, None, actor)
  <2>1. v \in Views
    BY <1>0
  <2>2. Opens(c, v, about)
        \/ (views[v] # None /\ Answered(c, v, o, None) /\ claims' = claims)
    BY <1>4 DEF EnsureOpen
  <2>3. views[v] # None => o.session.honored = views[v].honored
    BY <1>0, <2>1, KeylessKeepHonored
  <2> HIDE DEF o, v, about
  <2> QED
    BY <1>1, <2>1, <2>2, <2>3, OpensLedgers
<1>5. ASSUME NEW c \in Clients, ReportIntent(c) PROVE Ledgers'
  <2> DEFINE v == id[c]
             o == Judge(views[v], intent[c], None)
  <2>1. v \in Views /\ intent[c].claim = None /\ claims' = claims
    BY <1>0, <1>5 DEF ReportIntent, ReportsClaimNothing
  <2>2. (views[v] # None /\ Answered(c, v, o, None)) \/ views' = views
    BY <1>5 DEF ReportIntent
  <2>3. views[v] # None => o.session.honored = views[v].honored
    BY <1>0, <2>1, KeylessKeepHonored
  <2> HIDE DEF o, v
  <2> QED
    BY <1>1, <2>1, <2>2, <2>3 DEF Ledgers
<1>6. ASSUME NEW c \in Clients, NEW v \in Views,
             \/ GetViewState(c, v) \/ (\E i \in Intents : Report(c, v, i)) \/ Poll(c, v)
             \/ Ring(c) \/ Listen(c) \/ Read(c) \/ Wake(c) \/ LastRead(c) \/ Expire(c)
      PROVE  Ledgers'
  BY <1>6 DEF GetViewState, Report, Poll, Ring, Listen, Read, Wake, LastRead, Expire, Ledgers
<1>7. ASSUME NEW v \in Views, Forget(v) PROVE Ledgers'
  BY <1>0, <1>7 DEF Forget, Ledgers
<1>8. Ledgers'
  <2>1. CASE UNCHANGED vars
    BY <2>1 DEF vars, Ledgers
  <2>2. ASSUME NEW c \in Clients, Calls(c) \/ Proceeds(c) \/ Expire(c) PROVE Ledgers'
    <3>1. \A v \in Views : None \in Expectations(c, v)
      BY DEF Expectations
    <3>2. CASE Calls(c)
      BY <1>2, <1>3, <1>6, <3>1, <3>2 DEF Calls
    <3>3. CASE Proceeds(c) \/ Expire(c)
      BY <1>4, <1>5, <1>6, <3>3, ViewsAssumption DEF Proceeds
    <3> QED
      BY <2>2, <3>2, <3>3
  <2> QED
    BY <1>7, <2>1, <2>2 DEF Next, Quiet
<1>9. ReportsClaimNothing'
  <2> DEFINE Claimless(c) == pc[c] \in {"ensure", "ringreport", "report"}
                               => intent[c].claim = None
  <2>1. ASSUME NEW c \in Clients, NEW v \in Views, NEW step \in {"ring", "idle", "listen"},
               Starts(c, v, step), UNCHANGED intent
        PROVE  ReportsClaimNothing'
    BY <1>0, <2>1 DEF Starts, ReportsClaimNothing
  <2>2. \A o : NextStep(o) \in {"ring", "idle", "listen"}
    BY DEF NextStep
  <2>3. ASSUME NEW c \in Clients, NEW v \in Views, NEW i \in Intents, Report(c, v, i)
        PROVE  ReportsClaimNothing'
    BY <1>0, <2>3 DEF Report, Starts, ReportsClaimNothing
  <2>4. ASSUME NEW c \in Clients, Calls(c) PROVE ReportsClaimNothing'
    BY <2>1, <2>2, <2>3, <2>4 DEF Calls, Open, OpenAgain, ApplyIntent, TakeViewControl,
                                  UndoViewMove, GetViewState, Poll
  <2>5. ASSUME NEW c \in Clients, Proceeds(c) \/ Expire(c) PROVE ReportsClaimNothing'
    <3>1. CASE Ring(c)
      BY <1>0, <2>2, <3>1 DEF Ring, ReportsClaimNothing
    <3>2. ASSUME NEW actor \in Actors, EnsureOpen(c, actor)
          PROVE  ReportsClaimNothing'
      <4>1. pc[c] = "ensure" /\ intent' = intent
        BY <3>2 DEF EnsureOpen
      <4>2. \A b \in Clients \ {c} : pc'[b] = pc[b]
        BY <1>0, <3>2 DEF EnsureOpen
      <4> QED
        BY <4>1, <4>2 DEF ReportsClaimNothing
    <3>4. CASE ReportIntent(c)
      <4>1. /\ pc'[c] \in {"ring", "idle"}
            /\ \A b \in Clients \ {c} : pc'[b] = pc[b] /\ intent'[b] = intent[b]
        BY <1>0, <3>4 DEF ReportIntent, NextStep
      <4> QED
        BY <4>1 DEF ReportsClaimNothing
    <3>3. CASE Listen(c) \/ Read(c) \/ Wake(c) \/ LastRead(c) \/ Expire(c)
      BY <1>0, <3>3 DEF Listen, Read, Wake, LastRead, Expire, ReportsClaimNothing
    <3> QED
      BY <2>5, <3>1, <3>2, <3>3, <3>4 DEF Proceeds
  <2>6. CASE UNCHANGED vars \/ \E v \in Views : Forget(v)
    BY <2>6 DEF vars, Forget, ReportsClaimNothing
  <2> QED
    BY <2>4, <2>5, <2>6 DEF Next, Quiet
<1> QED
  BY <1>8, <1>9

\* A retried key is not a second intent until as many other keys were judged
\* as the session remembers, whatever that limit, through moves, steps back,
\* handoffs, reports and changes of about.
THEOREM KeysAreAlwaysJudgedOnce == Spec => []KeysAreJudgedOnce
<1>1. Init => Ledgers /\ ReportsClaimNothing
  BY DEF Init, Ledgers, Spread, ReportsClaimNothing
<1>2. Inv /\ Ledgers /\ ReportsClaimNothing /\ [Next]_vars => Ledgers' /\ ReportsClaimNothing'
  BY StepKeepsLedgers
<1>3. Ledgers => KeysAreJudgedOnce
  BY DEF Ledgers, Spread, KeysAreJudgedOnce
<1> QED
  BY <1>1, <1>2, <1>3, InitIsTyped, StepKeepsInv, PTL DEF Spec
-----------------------------------------------------------------------------
(* One undo takes back one move.                                           *)

\* The end and the front of a sequence just appended to, whether or not its
\* oldest element had to go.
HasLast(new, seq, e, limit) ==
    /\ new # <<>>
    /\ new[Len(new)] = e
    /\ Front(new) = IF Len(seq) < limit THEN seq ELSE Tail(seq)

\* Newest of a grown sequence ends so.
LEMMA FrontOfNewest ==
    ASSUME NEW S, NEW seq \in Seq(S), NEW e \in S, NEW limit \in Nat \ {0}
    PROVE  HasLast(Newest(Append(seq, e), limit), seq, e, limit)
<1> USE DEF HasLast
<1> DEFINE a == Append(seq, e)
           n == Len(seq)
<1>1. /\ a \in Seq(S) /\ n \in Nat /\ Len(a) = n + 1 /\ a # <<>>
      /\ a[n + 1] = e
      /\ \A i \in 1..n : a[i] = seq[i]
  OBVIOUS
<1>2. \A t \in Seq(S) : t # <<>> =>
          /\ Len(t) \in Nat \ {0}
          /\ Front(t) \in Seq(S) /\ Len(Front(t)) = Len(t) - 1
          /\ \A i \in 1..(Len(t) - 1) : Front(t)[i] = t[i]
  <2> SUFFICES ASSUME NEW t \in Seq(S), t # <<>>
               PROVE  /\ Len(t) \in Nat \ {0}
                      /\ Front(t) \in Seq(S) /\ Len(Front(t)) = Len(t) - 1
                      /\ \A i \in 1..(Len(t) - 1) : Front(t)[i] = t[i]
    OBVIOUS
  <2>1. Len(t) \in Nat \ {0}
    BY EmptySeq
  <2>2. \A i \in 1..(Len(t) - 1) : t[i] \in S
    BY <2>1
  <2> DEFINE k == Len(t) - 1
             f == SubSeq(t, 1, k)
  <2>3. k \in Nat /\ Front(t) = f
    BY <2>1 DEF Front
  <2> HIDE DEF k
  <2>4. /\ f \in Seq(S) /\ Len(f) = IF 1 <= k THEN k - 1 + 1 ELSE 0
        /\ \A i \in 1..(k - 1 + 1) : f[i] = t[1 + i - 1]
    <3>1. 1 \in Int /\ k \in Int /\ \A i \in 1..k : t[i] \in S
      BY <2>2, <2>3 DEF k
    <3> QED
      BY <3>1, SubSeqProperties
  <2> HIDE DEF f
  <2>5. Len(f) = k
    BY <2>3, <2>4
  <2>6. ASSUME NEW i \in 1..k PROVE f[i] = t[i]
    <3>1. i \in 1..(k - 1 + 1) /\ 1 + i - 1 = i
      BY <2>3
    <3> QED
      BY <2>4, <3>1
  <2> QED
    BY <2>1, <2>3, <2>4, <2>5, <2>6 DEF k
<1> HIDE DEF a
<1>3. CASE n < limit
  <2>1. Newest(a, limit) = a
    BY <1>1, <1>3 DEF Newest
  <2>2. Front(a) = seq
    <3>1. Front(a) \in Seq(S) /\ Len(Front(a)) = Len(seq)
      BY <1>1, <1>2
    <3>2. \A i \in 1..Len(Front(a)) : Front(a)[i] = seq[i]
      BY <1>1, <1>2, <3>1
    <3> QED
      BY <3>1, <3>2, SeqEqual
  <2> QED
    BY <1>1, <1>3, <2>1, <2>2 DEF a
<1>4. CASE ~(n < limit)
  <2> DEFINE t == Tail(a)
             r == Tail(seq)
  <2>1. Newest(a, limit) = t /\ n > 0 /\ seq # <<>>
    BY <1>1, <1>4 DEF Newest
  <2>2. /\ t \in Seq(S) /\ Len(t) = n
        /\ \A i \in 1..n : t[i] = a[i + 1]
    <3>1. /\ Tail(a) \in Seq(S) /\ Len(Tail(a)) = Len(a) - 1
          /\ \A i \in 1..Len(Tail(a)) : Tail(a)[i] = a[i + 1]
      BY <1>1, HeadTailProperties
    <3> QED
      BY <1>1, <3>1
  <2>3. /\ r \in Seq(S) /\ Len(r) = n - 1
        /\ \A i \in 1..Len(r) : r[i] = seq[i + 1]
    BY <2>1, HeadTailProperties
  <2> HIDE DEF t, r, n
  <2>4. t # <<>> /\ t[Len(t)] = e
    BY <1>1, <2>1, <2>2
  <2>5. Front(t) \in Seq(S) /\ Len(Front(t)) = Len(r)
    BY <1>2, <2>2, <2>3, <2>4
  <2>6. ASSUME NEW i \in 1..Len(Front(t)) PROVE Front(t)[i] = r[i]
    <3>1. i \in 1..(n - 1) /\ i \in 1..n /\ i + 1 \in 1..n
      BY <1>1, <2>3, <2>5
    <3>2. Front(t)[i] = t[i]
      BY <1>2, <2>2, <2>4, <3>1
    <3>3. t[i] = a[i + 1] /\ a[i + 1] = seq[i + 1]
      BY <1>1, <2>2, <3>1
    <3>4. r[i] = seq[i + 1]
      BY <2>3, <3>1
    <3> QED
      BY <3>2, <3>3, <3>4
  <2>7. Front(t) = r
    BY <2>3, <2>5, <2>6, SeqEqual
  <2> QED
    BY <1>4, <2>1, <2>4, <2>7 DEF a, r, n
<1> QED
  BY <1>3, <1>4

\* "Steps back one move": after any judged move one undo shows the about and
\* the look the view had, at a new revision, whoever asks and whatever key the
\* move carried, and leaves as many moves reversible as before it (one fewer if
\* the history was full).
THEOREM UndoTakesBackOneMove ==
    ASSUME NEW s, Healthy(s), NEW i \in Intent, NEW expected, NEW actor \in Actors,
           Judge(s, i, expected).kind = "moved"
    PROVE  LET back == Undo(Judge(s, i, expected).session, actor)
           IN  /\ back.kind = "moved"
               /\ back.shown.about = s.state.about
               /\ back.shown.look = s.state.look
               /\ back.shown.revision = s.state.revision + 2
               /\ back.session.history = IF Len(s.history) < HistoryLimit
                                           THEN s.history ELSE Tail(s.history)
<1> DEFINE m == Judge(s, i, expected).session
           h == Newest(Append(s.history, s.state), HistoryLimit)
           p == Undo(m, actor)
<1>1. m = Remember(Moved(s, i), i.claim)
  BY DEF Judge, Outcome, Replay
<1>2. /\ s \in Session /\ s.state \in ViewState /\ s.history \in Seq(ViewState)
      /\ s.state.revision \in Nat
  BY SessionParts
<1>3. Healthy(Moved(s, i)) /\ Moved(s, i).state.revision = s.state.revision + 1
  BY MovedIsHealthy
<1>4. Moved(s, i).history = h
  BY <1>2 DEF Moved, Session
<1>5. /\ m.history = h /\ m.state.revision = s.state.revision + 1
      /\ m \in Session
  <2>1. i.claim \in Optional(Claim)
    BY DEF Intent
  <2>2. Healthy(m) /\ m.state = Moved(s, i).state
    BY <1>1, <1>3, <2>1, RememberIsHealthy
  <2>3. m.history = Moved(s, i).history
    BY <1>1, <1>3 DEF Remember, Healthy, Session
  <2> QED
    BY <1>3, <1>4, <2>2, <2>3 DEF Healthy
<1>6. /\ h # <<>> /\ h[Len(h)] = s.state
      /\ Front(h) = IF Len(s.history) < HistoryLimit THEN s.history ELSE Tail(s.history)
  <2>1. HistoryLimit \in Nat \ {0}
    BY LimitAssumption
  <2> DEFINE q == s.history
             e == s.state
  <2>2. q \in Seq(ViewState) /\ e \in ViewState
    BY <1>2
  <2>3. h = Newest(Append(q, e), HistoryLimit)
    OBVIOUS
  <2> HIDE DEF q, e, h
  <2>4. HasLast(Newest(Append(q, e), HistoryLimit), q, e, HistoryLimit)
    BY <2>1, <2>2, FrontOfNewest
  <2>5. /\ h # <<>> /\ h[Len(h)] = e
        /\ Front(h) = IF Len(q) < HistoryLimit THEN q ELSE Tail(q)
    BY <2>3, <2>4 DEF HasLast
  <2> QED
    BY <2>5 DEF q, e
<1> HIDE DEF m, h
<1> DEFINE new == [s.state EXCEPT !.revision = m.state.revision + 1,
                                  !.canUndo = Len(h) > 1, !.last = actor]
           after == [m EXCEPT !.history = Front(@), !.state = new]
<1>7. p = Outcome("moved", after)
  BY <1>5, <1>6 DEF Undo
<1>8. after.history = Front(h) /\ after.state = new
  BY <1>5 DEF Session
<1>9. /\ new.about = s.state.about /\ new.look = s.state.look
      /\ new.revision = s.state.revision + 2
  BY <1>2, <1>5 DEF ViewState
<1>10. p.kind = "moved" /\ p.session = after /\ p.shown = after.state
  BY <1>7 DEF Outcome
<1> HIDE DEF p, after, new
<1>11. /\ p.kind = "moved" /\ p.shown.about = s.state.about
       /\ p.shown.look = s.state.look /\ p.shown.revision = s.state.revision + 2
       /\ p.session.history = IF Len(s.history) < HistoryLimit
                                 THEN s.history ELSE Tail(s.history)
  BY <1>6, <1>8, <1>9, <1>10
<1> QED
  BY <1>11 DEF p, m
=============================================================================
