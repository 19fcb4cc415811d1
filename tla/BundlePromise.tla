--------------------------- MODULE BundlePromise ---------------------------
(***************************************************************************)
(* What the commit-native guard promises of a memory's two copies.  A      *)
(* write "is bracketed by a local pending marker", which "disappears only  *)
(* after the complete post-write stream is durably published": while none  *)
(* is pending, git has been given everything the store holds.              *)
(***************************************************************************)
CONSTANT Events     \* what a write may add to the store

VARIABLES
    stored,     \* the events that guarded writes and imports left in the store
    published,  \* the events the committed file has held
    announced   \* a pending marker is on disk

vars == <<stored, published, announced>>

Init ==
    /\ stored = {}
    /\ published = {}
    /\ announced = FALSE

\* A write begins when everything is published, and announces itself first.
Announce ==
    /\ ~announced
    /\ stored \subseteq published
    /\ announced' = TRUE
    /\ UNCHANGED <<stored, published>>

\* The store is written under an announcement alone, by a call that goes on or
\* by what a dead one left running.
Write(e) ==
    /\ announced
    /\ stored' = stored \cup {e}
    /\ UNCHANGED <<published, announced>>

\* The file is replaced, by a publication, by git or by an export.
Publish(events) ==
    /\ published' = published \cup events
    /\ UNCHANGED <<stored, announced>>

Withdraw ==
    /\ announced
    /\ stored \subseteq published
    /\ announced' = FALSE
    /\ UNCHANGED <<stored, published>>

\* The operator publishes what the store holds, and clears the marker.
Recover(events) ==
    /\ announced
    /\ stored \subseteq events
    /\ published' = published \cup events
    /\ announced' = FALSE
    /\ UNCHANGED stored

\* An empty store is filled from the file.
Refill(events) ==
    /\ stored = {}
    /\ events \subseteq published
    /\ stored' = events
    /\ UNCHANGED <<published, announced>>

Next ==
    \/ Announce \/ Withdraw
    \/ \E e \in Events : Write(e)
    \/ \E events \in SUBSET Events : Publish(events) \/ Recover(events) \/ Refill(events)

Spec == Init /\ [][Next]_vars
=============================================================================
