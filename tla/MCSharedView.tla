---------------------------- MODULE MCSharedView ----------------------------
(* Instances of SharedView for TLC. *)
EXTENDS SharedView, TLC

CONSTANTS agent, person, a, b, loom, other, focus, overlays, off, on,
          key1, key2, d1, d2

Sets(f, value) == [about |-> None, sets |-> f :> value]

Says(actor, patch, claim) ==
    [patch |-> patch, claim |-> claim, actor |-> actor]

Keyed(key, digest) == [key |-> key, digest |-> digest]

Aligns == Says(agent, Sets(overlays, on), Keyed(key1, d1))

\* An agent's intent, one key used for another intent, a second key, and a
\* person's two gestures.
SharedIntents == {
    Aligns,
    Says(agent, Sets(focus, on), Keyed(key1, d2)),
    Says(agent, Sets(focus, on), Keyed(key2, d2)),
    Says(person, Sets(focus, off), None)}

\* Moves one of which takes the other back.
PollIntents == {
    Says(agent, Sets(focus, on), Keyed(key1, d1)),
    Says(person, Sets(focus, off), None)}
=============================================================================
