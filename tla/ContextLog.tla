----------------------------- MODULE ContextLog -----------------------------
(***************************************************************************)
(* What the context event store promises, whatever the backend: a log that *)
(* only grows, in which the events of one aggregate (an about in a role)   *)
(* carry the revisions 1, 2, 3... in that order.                           *)
(*                                                                         *)
(* With Deduplicated, it promises in addition what a caller who retries    *)
(* under one idempotency key relies on: a key commits at most one event.   *)
(***************************************************************************)
EXTENDS Naturals, Sequences

CONSTANTS
    Abouts,         \* the aggregates
    Keys,           \* the idempotency keys callers use
    NoKey,          \* the event of a call that names no key
    Deduplicated    \* TRUE: a key commits at most one event

VARIABLES
    history,        \* the committed events, oldest first
    revision        \* the revision each aggregate stands at

vars == <<history, revision>>

Init ==
    /\ history = <<>>
    /\ revision = [a \in Abouts |-> 0]

KeyIsFresh(k) ==
    k = NoKey \/ \A i \in 1..Len(history) : history[i].key # k

Commit(a, k) ==
    /\ Deduplicated => KeyIsFresh(k)
    /\ history' = Append(history,
                         [about |-> a, rev |-> revision[a] + 1, key |-> k])
    /\ revision' = [revision EXCEPT ![a] = @ + 1]

Next == \E a \in Abouts, k \in Keys \cup {NoKey} : Commit(a, k)

Spec == Init /\ [][Next]_vars
=============================================================================
