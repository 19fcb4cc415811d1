------------------------ MODULE MCProjectionRuntime ------------------------
(* Instances of ProjectionRuntime for TLC. *)
EXTENDS ProjectionRuntime

CONSTANTS s1, s2, e1, e2, e3, e4, n1, n2

\* Two nodes that name each other, the detail of one, and last a node event that
\* the instances may declare poison.
MCEventOf == <<e1, e2, e4, e3>>
MCContent ==
    (e1 :> [kind |-> "node", node |-> n1, related |-> <<n2>>]) @@
    (e2 :> [kind |-> "node", node |-> n2, related |-> <<n1>>]) @@
    (e3 :> [kind |-> "node", node |-> n1, related |-> <<>>]) @@
    (e4 :> [kind |-> "detail", node |-> n1, related |-> <<>>])
=============================================================================
