--------------------------- MODULE MCMemoryIngest ---------------------------
(* Instances of MemoryIngest for TLC. *)
EXTENDS MemoryIngest, TLC

CONSTANTS t1, t2, k1, k2, alpha, beta, e, f, g, x, y, key1, key2, key3

Apart == (t1 :> k1) @@ (t2 :> k2)
Crowded == (t1 :> k1) @@ (t2 :> k1)

EntryOwner == (e :> alpha) @@ (f :> alpha) @@ (g :> beta)

Seen(entry, scope, seq) == [entry |-> entry, scope |-> scope, seq |-> seq]

\* About alpha holds e under both labels, about beta holds g.
Before ==
    (alpha :> [known |-> {e}, at |-> {Seen(e, x, 1), Seen(e, y, 1)}, links |-> {}])
    @@ (beta :> [known |-> {g}, at |-> {Seen(g, x, 1)}, links |-> {}])

Ingests(about, key, writes, links, places, review) ==
    [op |-> "ingest", about |-> about, key |-> key, writes |-> writes,
     links |-> links, places |-> places, review |-> review]

Relabels(key, add, remove) ==
    [op |-> "relabel", about |-> alpha, key |-> key, entry |-> e, add |-> add,
     remove |-> remove]

\* f beside e, its place left to the kernel, and e placed by a relation under
\* the other label; e moved and f left to the kernel under another key; the
\* same reviewed, with an equivalence to g, and e placed where f was open; a
\* relation and a placing alone; a write to beta; and a relabel of e.
Mixed == {
    Ingests(alpha, key1, <<Seen(f, x, None)>>, {}, {Seen(e, y, 4)}, FALSE),
    Ingests(alpha, key2, <<Seen(e, x, 3), Seen(f, x, None), Seen(f, y, None)>>, {}, {}, FALSE),
    Ingests(alpha, key3, <<Seen(f, y, None)>>, {<<f, e>>, <<f, g>>}, {Seen(e, y, 2)}, TRUE),
    Ingests(alpha, key2, <<>>, {<<e, g>>}, {Seen(e, x, 0)}, FALSE),
    Ingests(beta, key2, <<Seen(g, y, None)>>, {}, {}, FALSE),
    Relabels(key1, {}, {x})}

TakeOff == {Relabels(key1, {}, {x}), Relabels(key2, {}, {y}),
            Relabels(key3, {y}, {x})}
=============================================================================
