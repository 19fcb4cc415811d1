-------------------------- MODULE MCContextEvents --------------------------
(* Instances of ContextEvents for TLC. *)
EXTENDS ContextEvents, TLC

CONSTANTS t1, t2, k1, k2, a, b, key1, key2, d1, d2, h1, h2

OneProcess == (t1 :> k1) @@ (t2 :> k1)
TwoProcesses == (t1 :> k1) @@ (t2 :> k2)

Plain(about, key, digest, hash) ==
    [about |-> about, key |-> key, digest |-> digest, hash |-> hash,
     expected |-> None, expectedHash |-> None, sampled |-> {}]

First == Plain(a, key1, d1, h1)

\* A retry of First (its translation may hash differently), another command
\* under the same key, a write pinned to a revision and a hash, and a write
\* to b decided on what was read of a and b.
KeyedCommands == {
    First,
    [First EXCEPT !.hash = h2],
    Plain(a, key1, d2, h2),
    [Plain(a, key2, None, h2) EXCEPT !.expected = 1, !.expectedHash = h1],
    [Plain(b, None, None, h1) EXCEPT !.sampled = {a, b}]}

\* Writes of one key: the first, its retry, and another command.
RetriedCommands == {
    First,
    [First EXCEPT !.hash = h2],
    Plain(a, key1, d2, h2),
    Plain(a, key2, None, h1)}
=============================================================================
