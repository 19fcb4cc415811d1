----------------------- MODULE MemoryNumberingProofs -----------------------
(***************************************************************************)
(* The sequences ingest gives, for any number of processes, abouts, labels *)
(* and coordinates: those of a compared write are past everything the      *)
(* about holds, and a frontier a process keeps in memory is the store's    *)
(* while the about stands at its revision, under every label that no       *)
(* pointed write both leaves to the kernel and places an entry under.      *)
(*                                                                         *)
(* Sequences are given one coordinate after another, so the facts about    *)
(* them go by induction on the coordinates: the set of the numbers for     *)
(* which a fact fails has no least element.                                *)
(***************************************************************************)
EXTENDS MemoryIngestProofs, FiniteSetTheorems, WellFoundedInduction

-----------------------------------------------------------------------------
(* The invariant.                                                          *)

\* No label of these coordinates has sequences without end.
Bounded(at) ==
    \A s \in Scopes : \E b \in Nat : \A x \in at : x.scope = s => x.seq <= b

SliceOK(m) == m \in Slice /\ Bounded(m.at)

PlanOK(p) ==
    /\ p.known \subseteq Entries
    /\ p.sets \subseteq Coordinate
    /\ p.links \subseteq Entries \X Entries
    /\ Bounded(p.sets)

\* A call has read well-formed slices, has read its own about before it
\* decides where it must, loads no frontier before it has sampled, and has a
\* well-formed plan.
CallOK(h) ==
    /\ h.reply \in Replies
    /\ h.top \in [Scopes -> Nat \cup {None}]
    /\ \A a \in Abouts : h.saw[a] = None \/ SliceOK(h.saw[a])
    /\ PlanOK(h.plan)
    /\ h.pc \in {"foreign", "foreign_read", "review"} /\ Comparing(h)
          => h.saw[h.cmd.about] # None
    /\ h.pc \in {"coordinates", "relabel"} => h.saw[h.cmd.about] # None
    /\ h.pc \in {"enter", "sample"} => \A s \in Scopes : h.top[s] = None
    /\ h.pc = "remember" => h.done.rev \in Nat

\* What a compared call has decided to write is past what it saw.
PastSeen(h) ==
    h.pc \in {"review", "wait", "key", "append"} /\ Comparing(h) =>
        /\ h.saw[h.cmd.about] # None
        /\ \A p \in Assigned(h.cmd) :
              Past(h.plan.sets, p, Frontier(h.saw[h.cmd.about], p[2]))

\* The coordinates of a label, written over a slice whose frontier there is
\* from, leave the frontier to.
Leads(sets, s, from, to) ==
    /\ to \in Nat /\ from < to
    /\ \E x \in sets : x.scope = s /\ x.seq = to
    /\ \A x \in sets : x.scope = s => x.seq <= to

\* What a pointed call may keep when it is done.
Remembers(h) == ~h.done.replayed /\ h.done.rev = h.sampled[h.cmd.about] + 1

\* The frontier a pointed call numbers a label from.
From(h, s) == IF h.top[s] = None THEN 0 ELSE h.top[s]

\* The frontiers of a pointed call are the store's as long as the about
\* stands where it was sampled; what the call leaves there is what it will
\* remember, until the about moves on: all of it under unplaced labels.
Tracked(h) ==
    h.pc # "idle" /\ IsPointed(h.cmd) =>
        LET a == h.cmd.about
            end == Advanced(h.cmd, h.top)
            loaded == {s \in Scopes : h.top[s] # None} IN
        /\ loaded \subseteq OpenScopes(h.cmd)
        /\ h.pc \in {"catalogue", "facts", "foreign", "wait", "key", "append"} =>
              /\ h.sampled[a] \in Nat /\ h.sampled[a] <= rev[a]
              /\ h.sampled[a] = rev[a] =>
                    \A s \in loaded :
                       Unplaced(a, s) => h.top[s] = Frontier(memory[a], s)
        /\ h.pc \in {"foreign", "wait", "key", "append"} /\ h.sampled[a] = rev[a] =>
              \A s \in OpenScopes(h.cmd) :
                 Unplaced(a, s) => From(h, s) = Frontier(memory[a], s)
        /\ h.pc \in {"wait", "key", "append"} =>
              /\ \A s \in loaded :
                    Unplaced(a, s) => Leads(h.plan.sets, s, h.top[s], end[s])
              /\ \A p \in Assigned(h.cmd) : Past(h.plan.sets, p, From(h, p[2]))
        /\ h.pc = "remember" /\ Remembers(h) =>
              /\ h.done.rev <= rev[a]
              /\ h.done.rev = rev[a] =>
                    \A s \in loaded :
                       Unplaced(a, s) => end[s] = Frontier(memory[a], s)

\* A kept frontier is not of a revision to come, and exact at its own.
KeptOK(kept, a, s) ==
    kept # None =>
        /\ kept \in [rev : Nat, top : Nat]
        /\ kept.rev <= rev[a]
        /\ kept.rev = rev[a] /\ Unplaced(a, s) => kept.top = Frontier(memory[a], s)

CachesOK ==
    /\ cache = [k \in Kernels |-> [x \in Abouts \X Scopes |-> cache[k][x]]]
    /\ \A k \in Kernels, a \in Abouts, s \in Scopes : KeptOK(cache[k][<<a, s>>], a, s)

NumberInv ==
    /\ \A a \in Abouts : SliceOK(memory[a]) /\ (rev[a] = 0 => memory[a].at = {})
    /\ CachesOK
    /\ \A t \in Tasks : CallOK(call[t]) /\ PastSeen(call[t]) /\ Tracked(call[t])
    /\ calls \in Nat
-----------------------------------------------------------------------------
(* Naturals, and what has no end.                                          *)

LEMMA Least ==
    ASSUME NEW T \in SUBSET Nat, T # {}
    PROVE  \E n \in T : \A m \in T : n <= m
<1> DEFINE R == {p \in Nat \X Nat : p[1] < p[2]}
<1>1. IsWellFoundedOn(R, Nat)
  BY NatLessThanWellFounded DEF OpToRel
<1>2. \A m, n \in Nat : <<m, n>> \in R <=> m < n
  OBVIOUS
<1> HIDE DEF R
<1>3. PICK n \in T : \A m \in T : ~(<<m, n>> \in R)
  BY <1>1, WFMin, Zenon
<1>4. ASSUME NEW m \in T PROVE n <= m
  <2>1. m \in Nat /\ n \in Nat /\ ~(<<m, n>> \in R)
    BY <1>3
  <2>2. ~(m < n)
    BY <1>2, <2>1
  <2> QED
    BY <2>1, <2>2
<1> QED
  BY <1>4

LEMMA NatSetInduction ==
    ASSUME NEW S, 0 \in S, \A n \in Nat : n \in S => n + 1 \in S
    PROVE  Nat \subseteq S
<1> SUFFICES ASSUME Nat \ S # {} PROVE FALSE
  OBVIOUS
<1>1. PICK n \in Nat \ S : \A m \in Nat \ S : n <= m
  BY Least
<1>2. n # 0 /\ n - 1 \in Nat /\ ~(n <= n - 1)
  BY <1>1
<1>3. n - 1 \in S
  BY <1>1, <1>2
<1> QED
  BY <1>1, <1>2, <1>3

\* A bounded set of naturals has a largest.
LEMMA MaxOfBounded ==
    ASSUME NEW T \in SUBSET Nat, T # {}, NEW b \in Nat, \A x \in T : x <= b
    PROVE  Max(T) \in T /\ \A x \in T : x <= Max(T)
<1> DEFINE U == {n \in Nat : \A x \in T : x <= n}
<1>1. PICK n \in U : \A m \in U : n <= m
  BY Least
<1>2. n \in T
  <2> SUFFICES ASSUME n \notin T PROVE FALSE
    OBVIOUS
  <2>1. \A x \in T : x < n
    BY <1>1
  <2>2. n \in Nat /\ n # 0
    <3>1. PICK x \in T : TRUE
      OBVIOUS
    <3>2. x \in Nat /\ x < n /\ n \in Nat
      BY <1>1, <2>1
    <3> QED
      BY <3>2
  <2>3. n - 1 \in U
    BY <2>1, <2>2
  <2> QED
    BY <1>1, <2>2, <2>3
<1>3. \E m \in T : \A x \in T : m >= x
  BY <1>1, <1>2
<1>4. Max(T) \in T /\ \A x \in T : Max(T) >= x
  BY <1>3 DEF Max
<1> QED
  BY <1>4

\* A finite family of naturals is bounded.
LEMMA FiniteIsBounded ==
    ASSUME NEW n \in Nat, NEW v, \A i \in 1 .. n : v[i] \in Nat
    PROVE  \E b \in Nat : \A i \in 1 .. n : v[i] <= b
<1> DEFINE S == {k \in Nat : k <= n => \E b \in Nat : \A i \in 1 .. k : v[i] <= b}
<1>1. 0 \in S
  OBVIOUS
<1>2. ASSUME NEW k \in Nat, k \in S PROVE k + 1 \in S
  <2> SUFFICES ASSUME k + 1 <= n
               PROVE  \E b \in Nat : \A i \in 1 .. (k + 1) : v[i] <= b
    OBVIOUS
  <2>1. PICK b \in Nat : \A i \in 1 .. k : v[i] <= b
    BY <1>2
  <2>2. v[k + 1] \in Nat
    OBVIOUS
  <2>3. PICK d \in Nat : b <= d /\ v[k + 1] <= d
    BY <2>2
  <2>4. ASSUME NEW i \in 1 .. (k + 1) PROVE v[i] <= d
    <3>1. CASE i = k + 1
      BY <2>3, <3>1
    <3>2. CASE i # k + 1
      <4>1. i \in 1 .. k /\ v[i] \in Nat
        BY <3>2
      <4> QED
        BY <2>1, <2>3, <4>1
    <3> QED
      BY <3>1, <3>2
  <2> QED
    BY <2>4
<1> HIDE DEF S
<1>3. Nat \subseteq S
  BY <1>1, <1>2, NatSetInduction
<1>4. n \in S
  BY <1>3
<1> QED
  BY <1>4 DEF S

\* So a finite set of coordinates has an end in every scope.
LEMMA FiniteHasEnd ==
    ASSUME NEW at \in SUBSET Coordinate, IsFiniteSet(at)
    PROVE  Bounded(at)
<1>1. PICK n \in Nat : ExistsSurjection(1 .. n, at)
  BY FS_NatSurjection
<1>2. PICK f \in Surjection(1 .. n, at) : TRUE
  BY <1>1 DEF ExistsSurjection
<1>3. f \in [1 .. n -> at] /\ \A x \in at : \E i \in 1 .. n : f[i] = x
  BY DEF Surjection
<1> DEFINE v == [i \in 1 .. n |-> f[i].seq]
<1>4. \A i \in 1 .. n : v[i] \in Nat
  BY <1>3 DEF Coordinate
<1> HIDE DEF v
<1>5. PICK b \in Nat : \A i \in 1 .. n : v[i] <= b
  BY <1>4, FiniteIsBounded
<1>6. \A x \in at : x.seq <= b
  BY <1>3, <1>5 DEF v
<1> QED
  BY <1>6 DEF Bounded

-----------------------------------------------------------------------------
(* Frontiers.                                                              *)

\* The frontier of a label is past every sequence there, and one of them.
LEMMA FrontierFacts ==
    ASSUME NEW m, SliceOK(m), NEW s \in Scopes
    PROVE  /\ Frontier(m, s) \in Nat
           /\ \A x \in m.at : x.scope = s => x.seq \in Nat /\ x.seq <= Frontier(m, s)
           /\ \/ Frontier(m, s) = 0
              \/ \E x \in m.at : x.scope = s /\ x.seq = Frontier(m, s)
<1> DEFINE T == {0} \cup {x.seq : x \in {y \in m.at : y.scope = s}}
<1>1. m.at \subseteq Coordinate
  BY DEF SliceOK, Slice
<1>2. PICK b \in Nat : \A x \in m.at : x.scope = s => x.seq <= b
  BY DEF SliceOK, Bounded
<1>3. T \in SUBSET Nat /\ T # {}
  BY <1>1 DEF Coordinate
<1>4. \A n \in T : n <= b
  BY <1>2
<1>5. \A x \in m.at : x.scope = s => x.seq \in T
  OBVIOUS
<1>6. \A n \in T : n = 0 \/ \E x \in m.at : x.scope = s /\ x.seq = n
  OBVIOUS
<1>7. Frontier(m, s) = Max(T)
  BY DEF Frontier
<1> HIDE DEF T
<1>8. Max(T) \in T /\ \A n \in T : n <= Max(T)
  BY <1>2, <1>3, <1>4, MaxOfBounded
<1> QED
  BY <1>3, <1>5, <1>6, <1>7, <1>8

\* A sequence of the label none of the others is past is its frontier.
LEMMA FrontierIs ==
    ASSUME NEW m, SliceOK(m), NEW s \in Scopes, NEW n \in Nat,
           \E x \in m.at : x.scope = s /\ x.seq = n,
           \A x \in m.at : x.scope = s => x.seq <= n
    PROVE  Frontier(m, s) = n
<1>1. /\ Frontier(m, s) \in Nat
      /\ n <= Frontier(m, s)
      /\ Frontier(m, s) = 0 \/ Frontier(m, s) <= n
  BY FrontierFacts
<1> QED
  BY <1>1

LEMMA AppliedIsSlice ==
    ASSUME NEW m, SliceOK(m), NEW p, PlanOK(p)
    PROVE  SliceOK(Applied(m, p))
<1> DEFINE n == Applied(m, p)
           kept == {x \in {y \in m.at : <<y.entry, y.scope>> \notin p.gone} :
                       \A y \in p.sets : <<y.entry, y.scope>> # <<x.entry, x.scope>>}
<1>1. m \in Slice /\ Bounded(m.at) /\ kept \subseteq m.at
  BY DEF SliceOK
<1>2. /\ p.known \subseteq Entries /\ p.sets \subseteq Coordinate
      /\ p.links \subseteq Entries \X Entries /\ Bounded(p.sets)
  BY DEF PlanOK
<1>3. n = [known |-> m.known \cup p.known, at |-> kept \cup p.sets, links |-> m.links \cup p.links]
  BY DEF Applied, Over
<1> HIDE DEF kept
<1>4. n.at = kept \cup p.sets
  BY <1>3
<1>5. n \in Slice
  BY <1>1, <1>2, <1>3 DEF Slice
<1>6. ASSUME NEW s \in Scopes
      PROVE  \E b \in Nat : \A x \in n.at : x.scope = s => x.seq <= b
  <2>1. PICK d \in Nat : \A x \in m.at : x.scope = s => x.seq <= d
    BY <1>1 DEF Bounded
  <2>2. PICK e \in Nat : \A x \in p.sets : x.scope = s => x.seq <= e
    BY <1>2 DEF Bounded
  <2>3. PICK b \in Nat : d <= b /\ e <= b
    OBVIOUS
  <2>4. ASSUME NEW x \in n.at, x.scope = s PROVE x.seq <= b
    <3>1. x.seq \in Nat
      BY <1>5, <2>4 DEF Slice, Coordinate
    <3>2. x.seq <= d \/ x.seq <= e
      BY <1>1, <1>4, <2>1, <2>2, <2>4
    <3> QED
      BY <2>3, <3>1, <3>2
  <2> QED
    BY <2>4
<1> QED
  BY <1>5, <1>6 DEF SliceOK, Bounded

\* Coordinates that lead from the frontier of a label move it where they lead.
LEMMA AppliedFrontier ==
    ASSUME NEW m, SliceOK(m), NEW p, PlanOK(p), NEW s \in Scopes, NEW to,
           Leads(p.sets, s, Frontier(m, s), to)
    PROVE  Frontier(Applied(m, p), s) = to
<1> DEFINE n == Applied(m, p)
<1>1. SliceOK(n)
  BY AppliedIsSlice
<1>2. \A x \in n.at : x \in m.at \/ x \in p.sets
  BY DEF Applied, Over
<1>3. p.sets \subseteq n.at
  BY DEF Applied, Over
<1>4. /\ to \in Nat /\ Frontier(m, s) < to
      /\ \E x \in p.sets : x.scope = s /\ x.seq = to
      /\ \A x \in p.sets : x.scope = s => x.seq <= to
  BY DEF Leads
<1>5. /\ Frontier(m, s) \in Nat
      /\ \A x \in m.at : x.scope = s => x.seq \in Nat /\ x.seq <= Frontier(m, s)
  BY FrontierFacts
<1> HIDE DEF n
<1>6. ASSUME NEW x \in n.at, x.scope = s PROVE x.seq <= to
  <2>1. CASE x \in m.at
    BY <1>4, <1>5, <1>6, <2>1
  <2>2. CASE x \in p.sets
    BY <1>4, <1>6, <2>2
  <2> QED
    BY <1>2, <2>1, <2>2
<1>7. \E x \in n.at : x.scope = s /\ x.seq = to
  BY <1>3, <1>4
<1>8. Frontier(n, s) = to
  BY <1>1, <1>4, <1>6, <1>7, FrontierIs
<1> QED
  BY <1>8 DEF n

-----------------------------------------------------------------------------
(* The frontiers coordinates are numbered from, one after another.         *)

\* They are what their recursion says.
LEMMA TopsUnfold ==
    ASSUME NEW c, NEW base, Len(c.writes) \in Nat
    PROVE  /\ Tops(c, base)[0] = base
           /\ \A i \in 1 .. Len(c.writes) :
                 Tops(c, base)[i] = After(Tops(c, base)[i - 1], c.writes[i])
<1> DEFINE n == Len(c.writes)
           Body(f, k) == [i \in 0 .. k |-> IF i = 0 THEN base
                                           ELSE After(f[i - 1], c.writes[i])]
           S == {k \in Nat : \E f : f = Body(f, k)}
<1>1. 0 \in S
  <2> DEFINE f == [i \in 0 .. 0 |-> base]
  <2>1. f = Body(f, 0)
    OBVIOUS
  <2> QED
    BY <2>1
<1>2. ASSUME NEW k \in Nat, k \in S PROVE k + 1 \in S
  <2>1. PICK f : f = Body(f, k)
    BY <1>2
  <2> DEFINE g == [i \in 0 .. (k + 1) |-> IF i <= k THEN f[i]
                                          ELSE After(f[k], c.writes[k + 1])]
  <2>2. ASSUME NEW i \in 0 .. (k + 1)
        PROVE  g[i] = IF i = 0 THEN base ELSE After(g[i - 1], c.writes[i])
    <3>1. CASE i = 0
      BY <2>1, <3>1
    <3>2. CASE i # 0 /\ i <= k
      <4>1. i \in 0 .. k /\ i - 1 \in 0 .. k
        BY <3>2
      <4>2. f[i] = After(f[i - 1], c.writes[i])
        BY <2>1, <3>2, <4>1
      <4> QED
        BY <3>2, <4>1, <4>2
    <3>3. CASE i = k + 1
      <4>1. i # 0 /\ i - 1 = k /\ k \in 0 .. (k + 1)
        BY <3>3
      <4> QED
        BY <3>3, <4>1
    <3> QED
      BY <3>1, <3>2, <3>3
  <2>3. g = Body(g, k + 1)
    BY <2>2
  <2> HIDE DEF g
  <2>4. \E h : h = Body(h, k + 1)
    BY <2>3
  <2> QED
    BY <2>4
<1> HIDE DEF S
<1>3. Nat \subseteq S
  BY <1>1, <1>2, NatSetInduction
<1>4. n \in S
  BY <1>3
<1>5. \E f : f = Body(f, n)
  BY <1>4 DEF S
<1>6. Tops(c, base) = Body(Tops(c, base), n)
  BY <1>5, Zenon DEF Tops
<1> QED
  BY <1>6

Write == [entry : Entries, scope : Scopes, seq : Nat \cup {None}]
Tables == [Scopes -> Nat \cup {None}]

\* Where coordinate w leaves a frontier n of label s.
Moved(n, w, s) ==
    IF w.scope # s THEN n
    ELSE IF w.seq = None THEN n + 1
    ELSE IF n >= w.seq THEN n ELSE w.seq

LEMMA AfterFacts ==
    ASSUME NEW top \in Tables, NEW w \in Write
    PROVE  /\ After(top, w) \in Tables
           /\ \A s \in Scopes :
                 /\ top[s] = None => After(top, w)[s] = None
                 /\ top[s] \in Nat => /\ After(top, w)[s] = Moved(top[s], w, s)
                                      /\ Moved(top[s], w, s) \in Nat
<1> DEFINE r == w.scope
           n == IF w.seq = None THEN top[r] + 1 ELSE Max({top[r], w.seq})
<1>1. r \in Scopes /\ w.seq \in Nat \cup {None} /\ None \notin Nat
  BY NoneAssumption DEF Write
<1>2. After(top, w) = IF top[r] = None THEN top ELSE [top EXCEPT ![r] = n]
  BY DEF After
<1>3. ASSUME NEW a \in Nat, NEW b \in Nat
      PROVE  Max({a, b}) = IF a >= b THEN a ELSE b
  <2>1. \A x \in {a, b} : x <= a + b
    OBVIOUS
  <2>2. Max({a, b}) \in {a, b} /\ \A x \in {a, b} : x <= Max({a, b})
    BY <2>1, MaxOfBounded
  <2> QED
    BY <2>2
<1>4. top[r] \in Nat => n = Moved(top[r], w, r) /\ n \in Nat
  BY <1>1, <1>3 DEF Moved
<1> HIDE DEF n
<1>5. ASSUME NEW s \in Scopes, s # r, top[s] \in Nat PROVE Moved(top[s], w, s) = top[s]
  BY <1>5 DEF Moved
<1>6. top[r] \in Nat \/ top[r] = None
  BY <1>1 DEF Tables
<1>7. CASE top[r] = None
  BY <1>1, <1>2, <1>5, <1>7
<1>8. CASE top[r] \in Nat
  <2>1. After(top, w) = [top EXCEPT ![r] = n] /\ n \in Nat
    BY <1>1, <1>2, <1>4, <1>8
  <2>2. After(top, w) \in Tables
    BY <2>1 DEF Tables
  <2>3. \A s \in Scopes : After(top, w)[s] = IF s = r THEN n ELSE top[s]
    BY <2>1 DEF Tables
  <2> QED
    BY <1>1, <1>4, <1>5, <1>8, <2>1, <2>2, <2>3
<1> QED
  BY <1>6, <1>7, <1>8

\* Each label climbs by itself, from where it starts.
LEMMA TopsClimb ==
    ASSUME NEW c, c.writes \in Seq(Write), NEW base \in Tables
    PROVE  \A i \in 0 .. Len(c.writes) :
              /\ Tops(c, base)[i] \in Tables
              /\ \A s \in Scopes : base[s] \in Nat => Tops(c, base)[i][s] \in Nat
<1> DEFINE n == Len(c.writes)
           S == {i \in Nat : i <= n =>
                   /\ Tops(c, base)[i] \in Tables
                   /\ \A s \in Scopes : base[s] \in Nat => Tops(c, base)[i][s] \in Nat}
<1>1. n \in Nat /\ \A i \in 1 .. n : c.writes[i] \in Write
  OBVIOUS
<1>2. /\ Tops(c, base)[0] = base
      /\ \A i \in 1 .. n : Tops(c, base)[i] = After(Tops(c, base)[i - 1], c.writes[i])
  BY <1>1, TopsUnfold
<1> HIDE DEF n
<1>3. 0 \in S
  BY <1>2
<1>4. ASSUME NEW i \in Nat, i \in S PROVE i + 1 \in S
  <2> SUFFICES ASSUME i + 1 <= n
               PROVE  /\ Tops(c, base)[i + 1] \in Tables
                      /\ \A s \in Scopes : base[s] \in Nat => Tops(c, base)[i + 1][s] \in Nat
    OBVIOUS
  <2>1. i + 1 \in 1 .. n /\ (i + 1) - 1 = i
    BY <1>1
  <2>2. Tops(c, base)[i + 1] = After(Tops(c, base)[i], c.writes[i + 1])
    BY <1>2, <2>1
  <2>3. /\ Tops(c, base)[i] \in Tables
        /\ \A s \in Scopes : base[s] \in Nat => Tops(c, base)[i][s] \in Nat
    BY <1>1, <1>4
  <2>4. c.writes[i + 1] \in Write
    BY <1>1, <2>1
  <2> DEFINE top == Tops(c, base)[i]
             w == c.writes[i + 1]
  <2>5. top \in Tables /\ w \in Write
    BY <2>3, <2>4
  <2> HIDE DEF top, w
  <2>6. /\ After(top, w) \in Tables
        /\ \A s \in Scopes : top[s] \in Nat => After(top, w)[s] \in Nat
    BY <2>5, AfterFacts
  <2>7. Tops(c, base)[i + 1] = After(top, w)
    BY <2>2 DEF top, w
  <2>8. \A s \in Scopes : base[s] \in Nat => top[s] \in Nat
    BY <2>3 DEF top
  <2> QED
    BY <2>6, <2>7, <2>8
<1> HIDE DEF S
<1>5. Nat \subseteq S
  BY <1>3, <1>4, NatSetInduction
<1>6. ASSUME NEW i \in 0 .. n
      PROVE  /\ Tops(c, base)[i] \in Tables
             /\ \A s \in Scopes : base[s] \in Nat => Tops(c, base)[i][s] \in Nat
  <2>1. i \in S /\ i <= n
    BY <1>1, <1>5, <1>6
  <2> QED
    BY <2>1 DEF S
<1> QED
  BY <1>6 DEF n

LEMMA TopsStep ==
    ASSUME NEW c, c.writes \in Seq(Write), NEW base \in Tables,
           NEW s \in Scopes, base[s] \in Nat, NEW i \in 1 .. Len(c.writes)
    PROVE  /\ i - 1 \in 0 .. Len(c.writes) /\ i \in 0 .. Len(c.writes)
           /\ Tops(c, base)[i - 1][s] \in Nat /\ Tops(c, base)[i][s] \in Nat
           /\ Tops(c, base)[i][s] = Moved(Tops(c, base)[i - 1][s], c.writes[i], s)
<1>1. Len(c.writes) \in Nat /\ c.writes[i] \in Write
  OBVIOUS
<1>2. i - 1 \in 0 .. Len(c.writes) /\ i \in 0 .. Len(c.writes)
  BY <1>1
<1>3. /\ Tops(c, base)[i - 1] \in Tables /\ Tops(c, base)[i - 1][s] \in Nat
      /\ Tops(c, base)[i][s] \in Nat
  BY <1>2, TopsClimb
<1>4. Tops(c, base)[i] = After(Tops(c, base)[i - 1], c.writes[i])
  BY <1>1, TopsUnfold
<1> QED
  BY <1>1, <1>2, <1>3, <1>4, AfterFacts, SMTT(30)

\* The sequence coordinate i is given, and what the coordinates of label s up
\* to i make of its frontier.
Given(c, base, i) ==
    IF c.writes[i].seq = None THEN Tops(c, base)[i][c.writes[i].scope]
                              ELSE c.writes[i].seq

Reached(c, base, s, i, to) ==
    /\ base[s] <= to
    /\ \/ to = base[s]
       \/ \E j \in 1 .. i : c.writes[j].scope = s /\ Given(c, base, j) = to
    /\ \A j \in 1 .. i : c.writes[j].scope = s =>
          /\ Given(c, base, j) \in Nat /\ Given(c, base, j) <= to
          /\ c.writes[j].seq = None => base[s] < Given(c, base, j)

LEMMA ReachedStep ==
    ASSUME NEW c, c.writes \in Seq(Write), NEW base \in Tables,
           NEW s \in Scopes, base[s] \in Nat, NEW i \in 1 .. Len(c.writes),
           Reached(c, base, s, i - 1, Tops(c, base)[i - 1][s])
    PROVE  Reached(c, base, s, i, Tops(c, base)[i][s])
<1> DEFINE w == c.writes[i]
           n == Tops(c, base)[i - 1][s]
           to == Tops(c, base)[i][s]
<1>1. /\ n \in Nat /\ to \in Nat /\ w \in Write /\ i \in Nat \ {0}
      /\ to = Moved(n, w, s) /\ None \notin Nat
  BY TopsStep, NoneAssumption, SMTT(30)
<1>2. /\ base[s] <= n
      /\ n = base[s] \/ \E j \in 1 .. (i - 1) : c.writes[j].scope = s /\ Given(c, base, j) = n
      /\ \A j \in 1 .. (i - 1) : c.writes[j].scope = s =>
            /\ Given(c, base, j) \in Nat /\ Given(c, base, j) <= n
            /\ c.writes[j].seq = None => base[s] < Given(c, base, j)
  BY DEF Reached
<1>3. w.scope = s => Given(c, base, i) = IF w.seq = None THEN to ELSE w.seq
  BY DEF Given
<1>4. \A j \in 1 .. i : j = i \/ j \in 1 .. (i - 1)
  BY <1>1
<1>5. 1 .. (i - 1) \subseteq 1 .. i /\ i \in 1 .. i
  BY <1>1
<1> HIDE DEF n, to
<1>6. n <= to
  BY <1>1 DEF Moved, Write
<1>7. w.scope = s => /\ Given(c, base, i) \in Nat /\ Given(c, base, i) <= to
                     /\ w.seq = None => n < Given(c, base, i)
  BY <1>1, <1>3 DEF Moved, Write
<1>8. to = n \/ (w.scope = s /\ Given(c, base, i) = to)
  BY <1>1, <1>3 DEF Moved, Write
<1>9. base[s] <= to
  BY <1>1, <1>2, <1>6
<1>10. to = base[s] \/ \E j \in 1 .. i : c.writes[j].scope = s /\ Given(c, base, j) = to
  BY <1>2, <1>5, <1>8
<1>11. ASSUME NEW j \in 1 .. i, c.writes[j].scope = s
       PROVE  /\ Given(c, base, j) \in Nat /\ Given(c, base, j) <= to
              /\ c.writes[j].seq = None => base[s] < Given(c, base, j)
  <2>1. CASE j = i
    BY <1>1, <1>2, <1>7, <1>11, <2>1
  <2>2. CASE j \in 1 .. (i - 1)
    BY <1>1, <1>2, <1>6, <1>11, <2>2
  <2> QED
    BY <1>4, <2>1, <2>2
<1>12. Reached(c, base, s, i, to)
  BY <1>9, <1>10, <1>11 DEF Reached
<1> QED
  BY <1>12 DEF to

LEMMA AllReached ==
    ASSUME NEW c, c.writes \in Seq(Write), NEW base \in Tables,
           NEW s \in Scopes, base[s] \in Nat
    PROVE  Reached(c, base, s, Len(c.writes), Tops(c, base)[Len(c.writes)][s])
<1> DEFINE n == Len(c.writes)
           S == {i \in Nat : i <= n => Reached(c, base, s, i, Tops(c, base)[i][s])}
<1>1. n \in Nat
  OBVIOUS
<1>2. Tops(c, base)[0] = base
  BY <1>1, TopsUnfold
<1>3. 0 \in S
  BY <1>2 DEF Reached
<1>4. ASSUME NEW i \in Nat, i \in S PROVE i + 1 \in S
  <2> SUFFICES ASSUME i + 1 <= n
               PROVE  Reached(c, base, s, i + 1, Tops(c, base)[i + 1][s])
    OBVIOUS
  <2>1. i + 1 \in 1 .. n /\ (i + 1) - 1 = i /\ i <= n
    BY <1>1
  <2>2. Reached(c, base, s, (i + 1) - 1, Tops(c, base)[(i + 1) - 1][s])
    BY <1>4, <2>1
  <2> QED
    BY <2>1, <2>2, ReachedStep
<1> HIDE DEF S
<1>5. Nat \subseteq S
  BY <1>3, <1>4, NatSetInduction
<1>6. n \in S
  BY <1>1, <1>5
<1> QED
  BY <1>1, <1>6 DEF S

\* What numbering gives: coordinates that have their sequences, that lead from
\* the frontier of every label left to the kernel to where the recursion ends.
LEMMA NumberedLeads ==
    ASSUME NEW c, c.writes \in Seq(Write), NEW base \in [Scopes -> Nat]
    PROVE  /\ Numbered(c, base) \subseteq Coordinate /\ Bounded(Numbered(c, base))
           /\ \A s \in OpenScopes(c) :
                 /\ s \in Scopes
                 /\ Leads(Numbered(c, base), s, base[s], Tops(c, base)[Len(c.writes)][s])
           /\ \A p \in Assigned(c) : p[2] \in OpenScopes(c) /\ Past(Numbered(c, base), p, base[p[2]])
<1> DEFINE n == Len(c.writes)
           at == Numbered(c, base)
           to(s) == Tops(c, base)[n][s]
           coord(i) == [entry |-> c.writes[i].entry, scope |-> c.writes[i].scope,
                        seq |-> Given(c, base, i)]
<1>1. /\ n \in Nat /\ \A i \in 1 .. n : c.writes[i] \in Write
      /\ base \in Tables /\ \A s \in Scopes : base[s] \in Nat
  BY DEF Tables
<1>2. at = {coord(i) : i \in 1 .. n}
  BY DEF Numbered, Given
<1>3. \A s \in Scopes : Reached(c, base, s, n, to(s)) /\ to(s) \in Nat
  <2>1. n \in 0 .. n
    BY <1>1
  <2>2. \A s \in Scopes : to(s) \in Nat
    BY <1>1, <2>1, TopsClimb
  <2> QED
    BY <1>1, <2>2, AllReached
<1> HIDE DEF n, at, to
<1>4. ASSUME NEW i \in 1 .. n
      PROVE  /\ c.writes[i].entry \in Entries /\ c.writes[i].scope \in Scopes
             /\ Given(c, base, i) \in Nat
             /\ Given(c, base, i) <= to(c.writes[i].scope)
             /\ c.writes[i].seq = None => base[c.writes[i].scope] < Given(c, base, i)
  <2>1. c.writes[i].entry \in Entries /\ c.writes[i].scope \in Scopes
    BY <1>1 DEF Write
  <2> QED
    BY <1>3, <2>1 DEF Reached
<1>5. at \subseteq Coordinate
  BY <1>2, <1>4 DEF Coordinate
<1>6. \A s \in Scopes : \A x \in at : x.scope = s => x.seq <= to(s)
  BY <1>2, <1>4
<1>7. Bounded(at)
  BY <1>3, <1>6 DEF Bounded
<1>8. ASSUME NEW s \in OpenScopes(c) PROVE s \in Scopes /\ Leads(at, s, base[s], to(s))
  <2>1. PICK i \in 1 .. n : c.writes[i].scope = s /\ c.writes[i].seq = None
    BY DEF OpenScopes, n
  <2>2. s \in Scopes /\ base[s] < to(s) /\ base[s] \in Nat
    BY <1>1, <1>3, <1>4, <2>1
  <2>3. to(s) # base[s] /\ Reached(c, base, s, n, to(s))
    BY <1>3, <2>2
  <2>4. PICK j \in 1 .. n : c.writes[j].scope = s /\ Given(c, base, j) = to(s)
    BY <2>3 DEF Reached
  <2>5. coord(j) \in at /\ coord(j).scope = s /\ coord(j).seq = to(s)
    BY <1>2, <2>4
  <2> QED
    BY <1>3, <1>6, <2>2, <2>5 DEF Leads
<1>9. ASSUME NEW p \in Assigned(c) PROVE p[2] \in OpenScopes(c) /\ Past(at, p, base[p[2]])
  <2>1. PICK i \in 1 .. n : c.writes[i].seq = None /\ p = <<c.writes[i].entry, c.writes[i].scope>>
    BY DEF Assigned, n
  <2>2. p[2] \in OpenScopes(c)
    BY <2>1 DEF OpenScopes, n
  <2>3. coord(i) \in at /\ <<coord(i).entry, coord(i).scope>> = p /\ coord(i).seq > base[p[2]]
    BY <1>1, <1>2, <1>4, <2>1
  <2> QED
    BY <2>2, <2>3 DEF Past
<1> QED
  BY <1>5, <1>7, <1>8, <1>9 DEF n, at, to

\* What a relation of the write places stands over what was numbered: it adds
\* no label without end, leaves every edge it does not name as it was, and
\* every label it places nothing under.
LEMMA OverFacts ==
    ASSUME NEW at, at \subseteq Coordinate, Bounded(at),
           NEW places \in SUBSET Coordinate, IsFiniteSet(places)
    PROVE  /\ Over(at, places) \subseteq Coordinate /\ Bounded(Over(at, places))
           /\ \A p, n : p \notin {<<y.entry, y.scope>> : y \in places} /\ Past(at, p, n)
                         => Past(Over(at, places), p, n)
           /\ \A s, from, to : s \notin {y.scope : y \in places} /\ Leads(at, s, from, to)
                         => Leads(Over(at, places), s, from, to)
<1> DEFINE all == Over(at, places)
<1>1. /\ \A x \in all : x \in at \/ x \in places
      /\ \A x \in at : <<x.entry, x.scope>> \notin {<<y.entry, y.scope>> : y \in places} => x \in all
  BY DEF Over
<1>2. all \subseteq Coordinate /\ Bounded(places)
  BY <1>1, FiniteHasEnd
<1> HIDE DEF all
<1>3. ASSUME NEW s \in Scopes
      PROVE  \E b \in Nat : \A x \in all : x.scope = s => x.seq <= b
  <2>1. PICK d \in Nat : \A x \in at : x.scope = s => x.seq <= d
    BY DEF Bounded
  <2>2. PICK e \in Nat : \A x \in places : x.scope = s => x.seq <= e
    BY <1>2 DEF Bounded
  <2>3. PICK b \in Nat : d <= b /\ e <= b
    OBVIOUS
  <2>4. ASSUME NEW x \in all, x.scope = s PROVE x.seq <= b
    <3>1. x.seq \in Nat /\ (x.seq <= d \/ x.seq <= e)
      BY <1>1, <1>2, <2>1, <2>2, <2>4 DEF Coordinate
    <3> QED
      BY <2>3, <3>1
  <2> QED
    BY <2>4
<1>4. ASSUME NEW p, NEW n, p \notin {<<y.entry, y.scope>> : y \in places}, Past(at, p, n)
      PROVE  Past(all, p, n)
  BY <1>1, <1>4 DEF Past
<1>5. ASSUME NEW s, NEW from, NEW to, s \notin {y.scope : y \in places}, Leads(at, s, from, to)
      PROVE  Leads(all, s, from, to)
  <2>1. \A x \in at : x.scope = s => x \in all
    BY <1>1, <1>5
  <2>2. \A x \in all : x.scope = s => x \in at
    BY <1>1, <1>5
  <2> QED
    BY <1>5, <2>1, <2>2 DEF Leads
<1>6. Bounded(all)
  BY <1>3 DEF Bounded
<1> QED
  BY <1>2, <1>4, <1>5, <1>6 DEF all

\* A frontier depends on where its own label starts, on nothing else.
LEMMA TopsAgree ==
    ASSUME NEW c, c.writes \in Seq(Write), NEW base \in Tables, NEW top \in Tables,
           NEW s \in Scopes, base[s] \in Nat, top[s] = base[s]
    PROVE  Tops(c, top)[Len(c.writes)][s] = Tops(c, base)[Len(c.writes)][s]
<1> DEFINE n == Len(c.writes)
           S == {i \in Nat : i <= n => Tops(c, top)[i][s] = Tops(c, base)[i][s]}
<1>1. n \in Nat
  OBVIOUS
<1>2. Tops(c, base)[0] = base /\ Tops(c, top)[0] = top
  BY <1>1, TopsUnfold
<1>3. 0 \in S
  BY <1>2
<1>4. ASSUME NEW i \in Nat, i \in S PROVE i + 1 \in S
  <2> SUFFICES ASSUME i + 1 <= n
               PROVE  Tops(c, top)[i + 1][s] = Tops(c, base)[i + 1][s]
    OBVIOUS
  <2>1. i + 1 \in 1 .. n /\ (i + 1) - 1 = i /\ i <= n
    BY <1>1
  <2>2. Tops(c, base)[i + 1][s] = Moved(Tops(c, base)[(i + 1) - 1][s], c.writes[i + 1], s)
    BY <2>1, TopsStep
  <2>3. Tops(c, top)[i + 1][s] = Moved(Tops(c, top)[(i + 1) - 1][s], c.writes[i + 1], s)
    BY <2>1, TopsStep
  <2> QED
    BY <1>4, <2>1, <2>2, <2>3
<1> HIDE DEF S
<1>5. Nat \subseteq S
  BY <1>3, <1>4, NatSetInduction
<1>6. n \in S
  BY <1>1, <1>5
<1> QED
  BY <1>1, <1>6 DEF S

-----------------------------------------------------------------------------
(* Steps that leave the store and the caches alone.                        *)

LEMMA IngestFacts ==
    ASSUME NEW c \in Commands, c.op = "ingest"
    PROVE  /\ c.writes \in Seq(Write) /\ c.links \subseteq Entries \X Entries
           /\ Written(c) \subseteq Entries /\ OpenScopes(c) \subseteq Scopes
           /\ c.places \in SUBSET Coordinate /\ IsFiniteSet(c.places)
<1>1. /\ c.writes \in Seq(Write) /\ c.links \subseteq Entries \X Entries
      /\ c.places \in SUBSET Coordinate /\ IsFiniteSet(c.places)
  BY CommandAssumption DEF Ingest, Relabel, Write
<1>2. ASSUME NEW i \in 1 .. Len(c.writes)
      PROVE  c.writes[i].entry \in Entries /\ c.writes[i].scope \in Scopes
  <2>1. c.writes[i] \in Write
    BY <1>1
  <2> QED
    BY <2>1 DEF Write
<1> QED
  BY <1>1, <1>2 DEF Written, OpenScopes

LEMMA SliceFacts ==
    ASSUME NEW m, SliceOK(m)
    PROVE  m # None
BY NoneAssumption DEF SliceOK

LEMMA IdleNumbers ==
    ASSUME NEW reply \in Replies
    PROVE  CallOK(Idle(reply)) /\ PastSeen(Idle(reply)) /\ Tracked(Idle(reply))
<1> DEFINE h == Idle(reply)
<1>1. /\ h.pc = "idle" /\ h.reply = reply /\ h.plan = NoPlan
      /\ h.top = [s \in Scopes |-> None] /\ h.saw = [a \in Abouts |-> None]
  BY DEF Idle
<1> HIDE DEF h
<1>2. PlanOK(h.plan)
  BY <1>1 DEF PlanOK, NoPlan, Bounded
<1>3. CallOK(h)
  BY <1>1, <1>2 DEF CallOK
<1>4. PastSeen(h) /\ Tracked(h)
  BY <1>1 DEF PastSeen, Tracked
<1> QED
  BY <1>3, <1>4 DEF h

LEMMA NumberFacts ==
    ASSUME IInv, NumberInv, NEW t \in Tasks
    PROVE  /\ IsCall(call[t]) /\ Placed(call[t]) /\ Shaped(call[t])
           /\ CallOK(call[t]) /\ PastSeen(call[t]) /\ Tracked(call[t])
           /\ \A a \in Abouts : SliceOK(memory[a]) /\ rev[a] \in Nat
                                /\ (rev[a] = 0 => memory[a].at = {})
           /\ call = [u \in Tasks |-> call[u]]
           /\ call[t].pc # "idle" => call[t].cmd \in Commands /\ call[t].cmd.about \in Abouts
<1>1. Shaped(call[t]) /\ Placed(call[t]) /\ rev \in [Abouts -> Nat]
      /\ call = [u \in Tasks |-> call[u]]
  BY Facts13
<1>2. call[t].pc # "idle" => call[t].cmd \in Commands /\ call[t].cmd.about \in Abouts
  BY <1>1, CommandFacts DEF Placed
<1> QED
  BY <1>1, <1>2 DEF NumberInv, Shaped

\* A step of one call that changes nothing else keeps the invariant if that
\* call keeps its part.
LEMMA NumberKept ==
    ASSUME NumberInv, NEW t \in Tasks, UNCHANGED <<store, cache>>, calls' \in Nat,
           \A u \in Tasks \ {t} : call'[u] = call[u],
           CallOK(call'[t]), PastSeen(call'[t]), Tracked(call'[t])
    PROVE  NumberInv'
<1>1. rev' = rev /\ memory' = memory /\ cache' = cache
  BY DEF store
<1>2. ASSUME NEW u \in Tasks
      PROVE  CallOK(call'[u]) /\ PastSeen(call'[u]) /\ Tracked(call'[u])
  BY DEF NumberInv
<1>3. ASSUME NEW u \in Tasks
      PROVE  CallOK(call[u])' /\ PastSeen(call[u])' /\ Tracked(call[u])'
  <2>1. CallOK(call[u])' /\ PastSeen(call[u])'
    BY <1>2 DEF CallOK, PastSeen, Comparing
  <2>2. Tracked(call[u])'
    BY <1>1, <1>2 DEF Tracked, Remembers
  <2> QED
    BY <2>1, <2>2
<1>4. CachesOK'
  <2>1. \A k \in Kernels, a \in Abouts, s \in Scopes : KeptOK(cache[k][<<a, s>>], a, s)
    BY DEF NumberInv, CachesOK
  <2>2. \A k \in Kernels, a \in Abouts, s \in Scopes : KeptOK(cache[k][<<a, s>>], a, s)'
    BY <1>1, <2>1 DEF KeptOK
  <2>3. (cache = [k \in Kernels |-> [x \in Abouts \X Scopes |-> cache[k][x]]])'
    BY <1>1, Zenon DEF NumberInv, CachesOK
  <2> QED
    BY <2>2, <2>3 DEF CachesOK
<1>5. (\A a \in Abouts : SliceOK(memory[a]) /\ (rev[a] = 0 => memory[a].at = {}))'
  BY <1>1 DEF NumberInv
<1> QED
  BY <1>3, <1>4, <1>5 DEF NumberInv

LEMMA AnswerNumbers ==
    ASSUME IInv, NumberInv, NEW t \in Tasks, NEW r \in Replies, Answer(t, r),
           UNCHANGED <<store, cache, calls>>
    PROVE  NumberInv'
<1>1. call' = [call EXCEPT ![t] = Idle(r)] /\ call = [u \in Tasks |-> call[u]]
  BY Facts13 DEF Answer
<1>2. call'[t] = Idle(r) /\ \A u \in Tasks \ {t} : call'[u] = call[u]
  BY <1>1
<1>3. CallOK(call'[t]) /\ PastSeen(call'[t]) /\ Tracked(call'[t])
  BY <1>2, IdleNumbers
<1>4. calls' \in Nat
  BY DEF NumberInv
<1> QED
  BY <1>2, <1>3, <1>4, NumberKept

\* A call that goes on with what it has.
Alike(h, g) ==
    /\ h.cmd = g.cmd /\ h.reply = g.reply /\ h.plan = g.plan /\ h.top = g.top
    /\ h.saw = g.saw /\ h.sampled = g.sampled

LEMMA AlikeMoves ==
    ASSUME IInv, NumberInv, NEW t \in Tasks, NEW h, Alike(h, call[t]),
           <<call[t].pc, h.pc>> \in
              {<<"enter", "sample">>, <<"catalogue", "foreign">>,
               <<"foreign", "foreign">>, <<"review", "review">>, <<"review", "wait">>,
               <<"coordinates", "relabel">>, <<"wait", "key">>, <<"key", "append">>},
           call[t].pc = "catalogue" => rev[call[t].cmd.about] = 0
    PROVE  CallOK(h) /\ PastSeen(h) /\ Tracked(h)
<1> DEFINE g == call[t]
<1>1. /\ Placed(g) /\ CallOK(g) /\ PastSeen(g) /\ Tracked(g)
  BY NumberFacts
<1>2. /\ h.cmd = g.cmd /\ h.reply = g.reply /\ h.plan = g.plan /\ h.top = g.top
      /\ h.saw = g.saw /\ h.sampled = g.sampled
  BY DEF Alike
<1>3. /\ g.pc = "catalogue" => ~Comparing(g)
      /\ g.pc = "review" => Comparing(g)
      /\ Comparing(h) <=> Comparing(g)
      /\ IsPointed(g.cmd) => ~Comparing(g)
  BY <1>1, <1>2 DEF Placed, Comparing, IsPointed
<1>4. CallOK(h)
  BY <1>1, <1>2, <1>3 DEF CallOK
<1>5. PastSeen(h)
  BY <1>1, <1>2, <1>3 DEF PastSeen
<1>6. Tracked(h)
  <2>1. \A s : From(h, s) = From(g, s)
    BY <1>2 DEF From
  <2>2. CASE g.pc # "catalogue"
    <3>1. /\ g.pc # "idle" /\ h.pc # "remember"
          /\ IsPointed(g.cmd) =>
                /\ h.pc \in {"wait", "key", "append"} => g.pc \in {"wait", "key", "append"}
                /\ h.pc \in {"catalogue", "facts", "foreign"} => g.pc = "foreign"
      BY <1>3, <2>2
    <3>2. CASE ~IsPointed(h.cmd)
      BY <3>2 DEF Tracked
    <3>3. CASE IsPointed(h.cmd)
      BY <1>1, <1>2, <2>1, <3>1, <3>3, SMTT(30) DEF Tracked
    <3> QED
      BY <3>2, <3>3
  <2>3. CASE g.pc = "catalogue"
    <3> DEFINE a == g.cmd.about
    <3>1. /\ a \in Abouts /\ SliceOK(memory[a]) /\ memory[a].at = {}
          /\ OpenScopes(g.cmd) \subseteq Scopes /\ h.pc = "foreign"
      BY <1>1, <2>3, NumberFacts, IngestFacts DEF Placed
    <3>2. \A s \in Scopes : Frontier(memory[a], s) = 0
      BY <3>1, FrontierFacts
    <3>3. IsPointed(g.cmd) => \A s \in OpenScopes(g.cmd) :
             g.sampled[a] = rev[a] /\ Unplaced(a, s) => From(h, s) = Frontier(memory[a], s)
      BY <1>1, <1>2, <2>3, <3>1, <3>2 DEF Tracked, From
    <3> QED
      BY <1>1, <1>2, <2>3, <3>1, <3>3 DEF Tracked
  <2> QED
    BY <2>2, <2>3
<1> QED
  BY <1>4, <1>5, <1>6

LEMMA AlikeStep ==
    ASSUME IInv, NumberInv, NEW t \in Tasks, UNCHANGED <<store, cache, calls>>,
           \A u \in Tasks \ {t} : call'[u] = call[u],
           Alike(call'[t], call[t]),
           <<call[t].pc, call'[t].pc>> \in
              {<<"enter", "sample">>, <<"catalogue", "foreign">>,
               <<"foreign", "foreign">>, <<"review", "review">>, <<"review", "wait">>,
               <<"coordinates", "relabel">>, <<"wait", "key">>, <<"key", "append">>},
           call[t].pc = "catalogue" => rev[call[t].cmd.about] = 0
    PROVE  NumberInv'
<1>1. CallOK(call'[t]) /\ PastSeen(call'[t]) /\ Tracked(call'[t])
  BY AlikeMoves
<1>2. calls' \in Nat
  BY DEF NumberInv
<1> QED
  BY <1>1, <1>2, NumberKept

LEMMA EnterNumbers ==
    ASSUME IInv, NumberInv, NEW t \in Tasks, EnterRead(t) \/ EnterWrite(t)
    PROVE  NumberInv'
<1>1. IsCall(call[t]) /\ call = [u \in Tasks |-> call[u]]
  BY NumberFacts
<1>2. \A u \in Tasks \ {t} : call'[u] = call[u]
  BY OthersStay
<1>3. UNCHANGED <<store, cache, calls>>
  BY DEF EnterRead, EnterWrite
<1>4. Alike(call'[t], call[t])
  BY <1>1 DEF EnterRead, EnterWrite, Goto, Alike, IsCall, Fields
<1>5. \/ call[t].pc = "enter" /\ call'[t].pc = "sample"
      \/ call[t].pc = "wait" /\ call'[t].pc = "key"
  BY <1>1 DEF EnterRead, EnterWrite, Goto, IsCall, Fields
<1> QED
  BY <1>2, <1>3, <1>4, <1>5, AlikeStep

LEMMA ReviewNumbers ==
    ASSUME IInv, NumberInv, NEW t \in Tasks,
           \/ Review(t)
           \/ \E a \in Abouts : Recheck(t, a)
           \/ ReadCoordinates(t)
    PROVE  NumberInv'
<1> DEFINE g == call[t]
<1>1. IsCall(g) /\ call = [u \in Tasks |-> call[u]]
  BY NumberFacts
<1>2. \A u \in Tasks \ {t} : call'[u] = call[u]
  BY OthersStay DEF Work
<1>3. UNCHANGED <<store, cache, calls>>
  BY DEF Review, Recheck, ReadCoordinates
<1>4. CASE Review(t)
  <2>1. g.pc = "review" /\ (Leave(t, g.plan) \/ Answer(t, "review"))
    BY <1>4 DEF Review
  <2>2. CASE Leave(t, g.plan)
    <3>1. Alike(call'[t], g) /\ call'[t].pc = "wait"
      BY <1>1, <2>2 DEF Leave, Alike, IsCall, Fields
    <3> QED
      BY <1>2, <1>3, <2>1, <3>1, AlikeStep
  <2> QED
    BY <1>3, <2>1, <2>2, AnswerNumbers DEF Replies
<1>5. ASSUME NEW a \in Abouts, Recheck(t, a) PROVE NumberInv'
  <2>1. /\ g.pc = "review"
        /\ \/ call' = [call EXCEPT ![t].todo = g.todo \ {a}]
           \/ Answer(t, "retry")
    BY <1>5 DEF Recheck
  <2>2. ASSUME NEW todo, call' = [call EXCEPT ![t].todo = todo] PROVE NumberInv'
    <3>1. Alike(call'[t], g) /\ call'[t].pc = g.pc
      BY <1>1, <2>2 DEF Alike, IsCall, Fields
    <3> QED
      BY <1>2, <1>3, <2>1, <3>1, AlikeStep
  <2> QED
    BY <1>3, <2>1, <2>2, AnswerNumbers DEF Replies
<1>6. CASE ReadCoordinates(t)
  <2>1. /\ g.pc = "coordinates"
        /\ \/ call' = [call EXCEPT ![t].stood = Labels(memory[g.cmd.about], g.cmd.entry),
                                   ![t].pc = "relabel"]
           \/ Answer(t, "refused")
    BY <1>6 DEF ReadCoordinates
  <2>2. ASSUME NEW l, call' = [call EXCEPT ![t].stood = l, ![t].pc = "relabel"]
        PROVE  NumberInv'
    <3>1. Alike(call'[t], g) /\ call'[t].pc = "relabel"
      BY <1>1, <2>2 DEF Alike, IsCall, Fields
    <3> QED
      BY <1>2, <1>3, <2>1, <3>1, AlikeStep
  <2> QED
    BY <1>3, <2>1, <2>2, AnswerNumbers DEF Replies
<1> QED
  BY <1>4, <1>5, <1>6

LEMMA LocateNumbers ==
    ASSUME IInv, NumberInv, NEW t \in Tasks, NEW e \in Entries, Locate(t, e)
    PROVE  NumberInv'
<1> DEFINE g == call[t]
           o == Owner[e]
           held == e \in memory[o].known
           first == held /\ ConsistentRead(g.cmd) /\ g.saw[o] = None
           found == g.found \cup (IF held THEN {e} ELSE {})
           todo == g.todo \ {e}
           sample == IF first THEN rev[o] ELSE g.sampled[o]
           s == IF first THEN "foreign_read" ELSE "foreign"
           h == [g EXCEPT !.todo = todo, !.found = found, !.owner = o,
                          !.sampled[o] = sample, !.pc = s]
<1>1. /\ IsCall(g) /\ Shaped(g) /\ CallOK(g) /\ Tracked(g) /\ g.pc = "foreign"
      /\ call = [u \in Tasks |-> call[u]]
  BY NumberFacts DEF Locate
<1>2. \A u \in Tasks \ {t} : call'[u] = call[u]
  BY OthersStay DEF Work
<1>3. UNCHANGED <<store, cache, calls>>
  BY DEF Locate
<1>4. call'[t] = h
  BY <1>1 DEF Locate
<1>5. /\ first => ConsistentRead(g.cmd) /\ s = "foreign_read"
      /\ ~first => sample = g.sampled[o] /\ s = "foreign"
  OBVIOUS
<1> HIDE DEF first, o
<1> HIDE DEF found, todo, sample, s
<1>6. /\ h.cmd = g.cmd /\ h.reply = g.reply /\ h.plan = g.plan /\ h.top = g.top
      /\ h.saw = g.saw /\ h.pc = s /\ h.sampled = [g.sampled EXCEPT ![o] = sample]
  BY <1>1 DEF IsCall, Fields
<1> HIDE DEF h
<1>7. CASE ~first
  <2>1. h.sampled = g.sampled
    BY <1>1, <1>5, <1>6, <1>7 DEF Shaped
  <2>2. Alike(h, g)
    BY <1>6, <2>1 DEF Alike
  <2> QED
    BY <1>1, <1>2, <1>3, <1>4, <1>5, <1>6, <1>7, <2>2, AlikeStep
<1>8. CASE first
  <2>1. h.pc = "foreign_read" /\ ConsistentRead(h.cmd) /\ Comparing(h) = Comparing(g)
    BY <1>5, <1>6, <1>8 DEF Comparing
  <2>2. CallOK(h)
    BY <1>1, <1>6, <2>1 DEF CallOK, Comparing
  <2>3. PastSeen(h) /\ Tracked(h)
    BY <2>1 DEF PastSeen, Tracked, IsPointed
  <2>4. calls' \in Nat
    BY <1>3 DEF NumberInv
  <2> QED
    BY <1>2, <1>3, <1>4, <2>2, <2>3, <2>4, NumberKept
<1> QED
  BY <1>7, <1>8

LEMMA CallNumbers ==
    ASSUME IInv, NumberInv, NEW t \in Tasks, NEW c \in Commands, Call(t, c)
    PROVE  NumberInv'
<1> DEFINE todo == IF c.op = "ingest" THEN Foreign(c) ELSE {}
           token == IF c.op = "ingest" /\ c.review THEN shown[t] ELSE None
           h == [Idle("none") EXCEPT !.pc = FirstStep(c), !.cmd = c,
                                     !.todo = todo, !.token = token]
<1>1. call'[t] = h /\ calls' \in Nat /\ UNCHANGED <<store, cache>>
  BY NumberFacts DEF Call, NumberInv
<1>2. \A u \in Tasks \ {t} : call'[u] = call[u]
  BY OthersStay
<1> HIDE DEF todo, token
<1>3. /\ h.pc = FirstStep(c) /\ h.cmd = c /\ h.reply = "none" /\ h.plan = NoPlan
      /\ h.top = [s \in Scopes |-> None] /\ h.saw = [a \in Abouts |-> None]
  BY DEF Idle
<1> HIDE DEF h
<1>4. FirstStep(c) \in {"existing", "enter", "sample"}
  BY DEF FirstStep
<1>5. PlanOK(h.plan)
  BY <1>3 DEF PlanOK, NoPlan, Bounded
<1>6. CallOK(h)
  BY <1>3, <1>4, <1>5 DEF CallOK, Replies
<1>7. PastSeen(h)
  BY <1>3, <1>4 DEF PastSeen
<1>8. Tracked(h)
  BY <1>3, <1>4 DEF Tracked
<1> QED
  BY <1>1, <1>6, <1>7, <1>8, <1>2, NumberKept

LEMMA SampleNumbers ==
    ASSUME IInv, NumberInv, NEW t \in Tasks, SampleRevision(t)
    PROVE  NumberInv'
<1> DEFINE g == call[t]
           a == g.cmd.about
           h == [g EXCEPT !.sampled = [@ EXCEPT ![a] = rev[a]],
                          !.pc = IF ConsistentRead(g.cmd) THEN "read" ELSE "catalogue"]
<1>1. /\ IsCall(g) /\ Shaped(g) /\ CallOK(g) /\ Tracked(g) /\ g.pc = "sample"
      /\ call = [u \in Tasks |-> call[u]] /\ a \in Abouts /\ rev[a] \in Nat
  BY NumberFacts DEF SampleRevision
<1>2. /\ \A u \in Tasks \ {t} : call'[u] = call[u]
      /\ UNCHANGED <<store, cache>> /\ calls' \in Nat
  BY OthersStay DEF Work, SampleRevision, NumberInv
<1>3. call'[t] = h
  BY <1>1 DEF SampleRevision
<1>4. /\ h.cmd = g.cmd /\ h.reply = g.reply /\ h.plan = g.plan /\ h.top = g.top
      /\ h.saw = g.saw /\ h.pc \in {"read", "catalogue"} /\ h.sampled[a] = rev[a]
  BY <1>1 DEF Shaped, IsCall, Fields
<1> HIDE DEF h
<1>5. \A s \in Scopes : h.top[s] = None
  BY <1>1, <1>4 DEF CallOK
<1>6. CallOK(h)
  BY <1>1, <1>4 DEF CallOK
<1>7. PastSeen(h)
  BY <1>4 DEF PastSeen
<1>8. Tracked(h)
  BY <1>1, <1>4, <1>5, SMTT(30) DEF Tracked
<1> QED
  BY <1>2, <1>3, <1>6, <1>7, <1>8, NumberKept

\* A call that has read slice m of about o.
LEMMA SawNumbers ==
    ASSUME IInv, NumberInv, NEW t \in Tasks, NEW o \in Abouts, NEW m, SliceOK(m),
           NEW h, call'[t] = h, UNCHANGED <<store, cache, calls>>,
           \A u \in Tasks \ {t} : call'[u] = call[u],
           \/ call[t].pc = "read" /\ h.pc = "foreign" /\ o = call[t].cmd.about
           \/ call[t].pc = "foreign_read" /\ h.pc = "foreign"
           \/ call[t].pc = "existing" /\ h.pc = "coordinates" /\ o = call[t].cmd.about,
           h.cmd = call[t].cmd, h.reply = call[t].reply, h.plan = call[t].plan,
           h.top = call[t].top, h.saw = [call[t].saw EXCEPT ![o] = m]
    PROVE  NumberInv'
<1> DEFINE g == call[t]
<1>1. /\ Shaped(g) /\ Placed(g) /\ CallOK(g) /\ Tracked(g)
  BY NumberFacts
<1>2. calls' \in Nat
  BY DEF NumberInv
<1>3. /\ h.saw[o] = m /\ m # None
      /\ \A a \in Abouts : h.saw[a] = IF a = o THEN m ELSE g.saw[a]
  BY <1>1, SliceFacts DEF Shaped
<1>4. /\ g.pc # "existing" => Comparing(g)
      /\ g.pc = "existing" => g.cmd.op = "relabel"
      /\ Comparing(h) = Comparing(g) /\ g.pc # "idle"
      /\ g.cmd.about \in Abouts
  BY <1>1, NumberFacts DEF Placed, Comparing
<1>5. CallOK(h)
  BY <1>1, <1>3, <1>4 DEF CallOK
<1>6. PastSeen(h)
  BY DEF PastSeen
<1>7. Tracked(h)
  BY <1>4 DEF Tracked, IsPointed, Comparing
<1> QED
  BY <1>2, <1>5, <1>6, <1>7, NumberKept

LEMMA ReadNumbers ==
    ASSUME IInv, NumberInv, NEW t \in Tasks, Read(t) \/ ReadForeign(t) \/ ReadExisting(t)
    PROVE  NumberInv'
<1> DEFINE g == call[t]
<1>1. /\ IsCall(g) /\ Placed(g) /\ call = [u \in Tasks |-> call[u]]
      /\ \A a \in Abouts : SliceOK(memory[a])
      /\ g.pc # "idle" => g.cmd.about \in Abouts
  BY NumberFacts
<1>2. /\ UNCHANGED <<store, cache, calls>>
      /\ \A u \in Tasks \ {t} : call'[u] = call[u]
  BY OthersStay DEF Work, Read, ReadForeign, ReadExisting
<1>3. CASE Read(t)
  <2> DEFINE a == g.cmd.about
  <2>1. g.pc = "read" /\ a \in Abouts
    BY <1>1, <1>3 DEF Read
  <2> DEFINE h == [g EXCEPT !.saw[a] = memory[a], !.pc = "foreign"]
  <2>2. call'[t] = h
    BY <1>1, <1>3 DEF Read
  <2>3. PICK m : m = memory[a] /\ SliceOK(m)
    BY <1>1, <2>1
  <2>4. /\ h.pc = "foreign" /\ h.cmd = g.cmd /\ h.reply = g.reply /\ h.plan = g.plan
        /\ h.top = g.top /\ h.saw = [g.saw EXCEPT ![a] = m]
    BY <1>1, <2>3 DEF IsCall, Fields
  <2> HIDE DEF h
  <2> QED
    BY <1>2, <2>1, <2>2, <2>3, <2>4, SawNumbers
<1>4. CASE ReadForeign(t)
  <2> DEFINE o == g.owner
  <2>1. g.pc = "foreign_read" /\ o \in Abouts
    BY <1>1, <1>4 DEF ReadForeign, Placed
  <2> DEFINE h == [g EXCEPT !.saw[o] = memory[o], !.pc = "foreign"]
  <2>2. call'[t] = h
    BY <1>1, <1>4 DEF ReadForeign
  <2>3. PICK m : m = memory[o] /\ SliceOK(m)
    BY <1>1, <2>1
  <2>4. /\ h.pc = "foreign" /\ h.cmd = g.cmd /\ h.reply = g.reply /\ h.plan = g.plan
        /\ h.top = g.top /\ h.saw = [g.saw EXCEPT ![o] = m]
    BY <1>1, <2>3 DEF IsCall, Fields
  <2> HIDE DEF h
  <2> QED
    BY <1>2, <2>1, <2>2, <2>3, <2>4, SawNumbers
<1>5. CASE ReadExisting(t)
  <2> DEFINE a == g.cmd.about
  <2>1. g.pc = "existing" /\ a \in Abouts
    BY <1>1, <1>5 DEF ReadExisting
  <2> DEFINE h == [g EXCEPT !.saw[a] = memory[a], !.pc = "coordinates"]
  <2>2. call'[t] = h
    BY <1>1, <1>5 DEF ReadExisting
  <2>3. PICK m : m = memory[a] /\ SliceOK(m)
    BY <1>1, <2>1
  <2>4. /\ h.pc = "coordinates" /\ h.cmd = g.cmd /\ h.reply = g.reply /\ h.plan = g.plan
        /\ h.top = g.top /\ h.saw = [g.saw EXCEPT ![a] = m]
    BY <1>1, <2>3 DEF IsCall, Fields
  <2> HIDE DEF h
  <2> QED
    BY <1>2, <2>1, <2>2, <2>3, <2>4, SawNumbers
<1> QED
  BY <1>3, <1>4, <1>5

LEMMA CatalogueNumbers ==
    ASSUME IInv, NumberInv, NEW t \in Tasks, Catalogue(t)
    PROVE  NumberInv'
<1> DEFINE g == call[t]
           c == g.cmd
           a == c.about
           top == [s \in Scopes |-> IF s \in OpenScopes(c) THEN Cached(t, s) ELSE None]
           h == [g EXCEPT !.top = top, !.pc = "facts"]
<1>1. /\ IsCall(g) /\ Placed(g) /\ CallOK(g) /\ Tracked(g) /\ g.pc = "catalogue"
      /\ call = [u \in Tasks |-> call[u]] /\ a \in Abouts /\ rev[a] \in Nat
  BY NumberFacts DEF Catalogue
<1>2. /\ UNCHANGED <<store, cache, calls>>
      /\ \A u \in Tasks \ {t} : call'[u] = call[u]
  BY OthersStay DEF Work, Catalogue
<1>3. \/ rev[a] = 0 /\ Goto(t, "foreign")
      \/ call' = [call EXCEPT ![t].top = top, ![t].pc = "facts"]
  BY DEF Catalogue
<1>4. ASSUME NEW s \in Scopes
      PROVE  /\ top[s] \in Nat \cup {None}
             /\ top[s] # None => s \in OpenScopes(c)
             /\ top[s] # None /\ g.sampled[a] = rev[a] /\ Unplaced(a, s)
                  => top[s] = Frontier(memory[a], s)
  <2> DEFINE kept == cache[Host[t]][<<a, s>>]
  <2>1. Host[t] \in Kernels
    BY HostAssumption
  <2>2. KeptOK(kept, a, s)
    BY <1>1, <2>1 DEF NumberInv, CachesOK
  <2>3. top[s] = None \/ (s \in OpenScopes(c) /\ kept # None /\ kept.rev = g.sampled[a] /\ top[s] = kept.top)
    BY DEF Cached
  <2> HIDE DEF kept, top
  <2>4. kept # None => kept.top \in Nat /\ (kept.rev = rev[a] /\ Unplaced(a, s) => kept.top = Frontier(memory[a], s))
    BY <2>2 DEF KeptOK
  <2> QED
    BY <2>3, <2>4
<1>5. top = [s \in Scopes |-> top[s]]
  OBVIOUS
<1> HIDE DEF top
<1>6. CASE rev[a] = 0 /\ Goto(t, "foreign")
  <2>1. Alike(call'[t], g) /\ call'[t].pc = "foreign"
    BY <1>1, <1>6 DEF Goto, Alike, IsCall, Fields
  <2> QED
    BY <1>1, <1>2, <1>6, <2>1, AlikeStep
<1>7. CASE call' = [call EXCEPT ![t].top = top, ![t].pc = "facts"]
  <2>1. call'[t] = h
    BY <1>1, <1>7
  <2>2. /\ h.cmd = c /\ h.reply = g.reply /\ h.plan = g.plan /\ h.top = top
        /\ h.saw = g.saw /\ h.sampled = g.sampled /\ h.pc = "facts"
    BY <1>1 DEF IsCall, Fields
  <2> HIDE DEF h
  <2>3. h.top \in [Scopes -> Nat \cup {None}]
    BY <1>4, <1>5, <2>2
  <2>4. CallOK(h)
    BY <1>1, <2>2, <2>3 DEF CallOK
  <2>5. PastSeen(h)
    BY <2>2 DEF PastSeen
  <2>6. Tracked(h)
    BY <1>1, <1>4, <2>2 DEF Tracked
  <2>7. calls' \in Nat
    BY <1>2 DEF NumberInv
  <2> QED
    BY <1>2, <2>1, <2>4, <2>5, <2>6, <2>7, NumberKept
<1> QED
  BY <1>3, <1>6, <1>7

LEMMA FactsNumbers ==
    ASSUME IInv, NumberInv, NEW t \in Tasks, Facts(t)
    PROVE  NumberInv'
<1> DEFINE g == call[t]
           c == g.cmd
           a == c.about
           slice == [memory[a] EXCEPT !.at = {}]
           top == [s \in Scopes |-> IF s \in OpenScopes(c) /\ g.top[s] = None
                                      THEN Frontier(memory[a], s) ELSE g.top[s]]
           h == [g EXCEPT !.saw = [@ EXCEPT ![a] = slice], !.top = top, !.pc = "foreign"]
<1>1. /\ IsCall(g) /\ Placed(g) /\ Shaped(g) /\ CallOK(g) /\ Tracked(g) /\ g.pc = "facts"
      /\ call = [u \in Tasks |-> call[u]] /\ a \in Abouts /\ rev[a] \in Nat
      /\ SliceOK(memory[a])
  BY NumberFacts DEF Facts
<1>2. /\ UNCHANGED <<store, cache, calls>>
      /\ \A u \in Tasks \ {t} : call'[u] = call[u]
  BY OthersStay DEF Work, Facts
<1>3. call' = [call EXCEPT ![t].saw[a] = slice, ![t].top = top, ![t].pc = "foreign"]
  BY DEF Facts
<1>4. SliceOK(slice)
  <2>1. memory[a] \in Slice
    BY <1>1 DEF SliceOK
  <2>2. slice \in Slice /\ slice.at = {}
    BY <2>1 DEF Slice
  <2> QED
    BY <2>2 DEF SliceOK, Bounded
<1>5. \A s \in Scopes : g.top[s] \in Nat \cup {None} /\ Frontier(memory[a], s) \in Nat
  BY <1>1, FrontierFacts DEF CallOK
<1>6. c.op = "ingest" /\ ~ConsistentRead(c) /\ IsPointed(c) /\ ~Comparing(g)
  BY <1>1 DEF Placed, IsPointed, Comparing
<1>7. /\ g.sampled[a] \in Nat /\ g.sampled[a] <= rev[a]
      /\ \A s \in Scopes : g.top[s] # None =>
            /\ s \in OpenScopes(c)
            /\ g.sampled[a] = rev[a] /\ Unplaced(a, s) => g.top[s] = Frontier(memory[a], s)
  BY <1>1, <1>6 DEF Tracked
<1>8. ASSUME NEW s \in Scopes
      PROVE  /\ top[s] \in Nat \cup {None}
             /\ top[s] # None => s \in OpenScopes(c)
             /\ top[s] # None /\ g.sampled[a] = rev[a] /\ Unplaced(a, s)
                  => top[s] = Frontier(memory[a], s)
  BY <1>5, <1>7
<1>9. top = [s \in Scopes |-> top[s]]
  OBVIOUS
<1> HIDE DEF slice, top
<1>10. call'[t] = h
  BY <1>1, <1>3
<1>11. /\ h.cmd = c /\ h.reply = g.reply /\ h.plan = g.plan /\ h.top = top
       /\ h.sampled = g.sampled /\ h.pc = "foreign" /\ h.saw = [g.saw EXCEPT ![a] = slice]
  BY <1>1 DEF IsCall, Fields
<1> HIDE DEF h
<1>12. \A o \in Abouts : h.saw[o] = IF o = a THEN slice ELSE g.saw[o]
  BY <1>1, <1>11 DEF Shaped
<1>13. h.top \in [Scopes -> Nat \cup {None}]
  BY <1>8, <1>9, <1>11
<1>14. CallOK(h)
  BY <1>1, <1>4, <1>6, <1>11, <1>12, <1>13 DEF CallOK, Comparing
<1>15. PastSeen(h)
  BY <1>11 DEF PastSeen
<1>16. Tracked(h)
  <2>1. OpenScopes(c) \subseteq Scopes
    BY <1>6, NumberFacts, <1>1, IngestFacts
  <2>2. \A s \in OpenScopes(c) : top[s] # None
    BY <1>5, <2>1, NoneAssumption DEF top
  <2>3. \A s \in OpenScopes(c) : From(h, s) = top[s]
    BY <1>11, <2>2 DEF From
  <2> QED
    BY <1>7, <1>8, <1>11, <2>1, <2>2, <2>3 DEF Tracked
<1>17. calls' \in Nat
  BY <1>2 DEF NumberInv
<1> QED
  BY <1>2, <1>10, <1>14, <1>15, <1>16, <1>17, NumberKept

\* What a decided write would set, from the frontiers it stands on.
LEMMA IngestPlanFacts ==
    ASSUME IInv, NumberInv, NEW t \in Tasks, call[t].pc = "foreign"
    PROVE  LET c == call[t].cmd
               sets == IngestPlan(t).sets IN
           /\ PlanOK(IngestPlan(t))
           /\ Comparing(call[t]) =>
                 /\ call[t].saw[c.about] # None
                 /\ \A p \in Assigned(c) :
                       Past(sets, p, Frontier(call[t].saw[c.about], p[2]))
           /\ IsPointed(c) =>
                 /\ \A s \in Scopes : call[t].top[s] # None /\ Unplaced(c.about, s) =>
                       Leads(sets, s, call[t].top[s], Advanced(c, call[t].top)[s])
                 /\ \A p \in Assigned(c) : Past(sets, p, From(call[t], p[2]))
<1> DEFINE g == call[t]
           c == g.cmd
           a == c.about
           base == Base(t)
           given == Numbered(c, base)
           sets == Over(given, c.places)
           to(s) == Tops(c, base)[Len(c.writes)][s]
<1>1. /\ Placed(g) /\ CallOK(g) /\ Tracked(g) /\ c \in Commands /\ a \in Abouts
      /\ c.op = "ingest"
  BY NumberFacts DEF Placed
<1>2. /\ c.writes \in Seq(Write) /\ c.links \subseteq Entries \X Entries
      /\ Written(c) \subseteq Entries /\ OpenScopes(c) \subseteq Scopes
      /\ c.places \in SUBSET Coordinate /\ IsFiniteSet(c.places)
  BY <1>1, IngestFacts
<1>3. /\ IngestPlan(t).known = Written(c) /\ IngestPlan(t).sets = sets
      /\ IngestPlan(t).links = c.links
  BY DEF IngestPlan
<1>4. base = [s \in Scopes |-> IF ConsistentRead(c) THEN Frontier(g.saw[a], s)
                               ELSE IF g.top[s] = None THEN 0 ELSE g.top[s]]
  BY DEF Base
<1>5. ConsistentRead(c) => SliceOK(g.saw[a]) /\ g.saw[a] # None
  BY <1>1 DEF CallOK, Comparing
<1>6. g.top \in Tables /\ \A s \in Scopes : g.top[s] # None => g.top[s] \in Nat
  BY <1>1 DEF CallOK, Tables
<1> HIDE DEF base
<1>7. base \in [Scopes -> Nat]
  <2>1. \A s \in Scopes : ConsistentRead(c) => Frontier(g.saw[a], s) \in Nat
    BY <1>5, FrontierFacts
  <2> QED
    BY <1>4, <1>6, <2>1
<1>8. /\ given \subseteq Coordinate /\ Bounded(given)
      /\ \A s \in OpenScopes(c) : Leads(given, s, base[s], to(s))
      /\ \A p \in Assigned(c) : p[2] \in OpenScopes(c) /\ Past(given, p, base[p[2]])
  BY <1>2, <1>7, NumberedLeads
<1> HIDE DEF given, to
<1>9. /\ sets \subseteq Coordinate /\ Bounded(sets)
      /\ \A p, n : p \notin {<<y.entry, y.scope>> : y \in c.places} /\ Past(given, p, n)
                      => Past(sets, p, n)
      /\ \A s, from, end : s \notin PlaceScopes(c) /\ Leads(given, s, from, end)
                      => Leads(sets, s, from, end)
  BY <1>2, <1>8, OverFacts DEF PlaceScopes
<1> HIDE DEF sets
<1>10. PlanOK(IngestPlan(t))
  BY <1>2, <1>3, <1>9 DEF PlanOK
<1>11. \A p \in Assigned(c) : p[2] \in OpenScopes(c) /\ Past(sets, p, base[p[2]])
  <2>1. \A p \in Assigned(c) : p \notin {<<y.entry, y.scope>> : y \in c.places}
    BY DEF Assigned
  <2> QED
    BY <1>8, <1>9, <2>1
<1>12. ASSUME Comparing(g), NEW p \in Assigned(c)
       PROVE  Past(sets, p, Frontier(g.saw[a], p[2]))
  <2>1. base[p[2]] = Frontier(g.saw[a], p[2])
    BY <1>2, <1>4, <1>11, <1>12 DEF Comparing
  <2> QED
    BY <1>11, <2>1
<1>13. ASSUME IsPointed(c), NEW s \in Scopes, g.top[s] # None, Unplaced(a, s)
       PROVE  Leads(sets, s, g.top[s], Advanced(c, g.top)[s])
  <2>1. s \in OpenScopes(c) /\ s \notin PlaceScopes(c)
    BY <1>1, <1>13 DEF Tracked, Unplaced
  <2>2. base[s] = g.top[s] /\ base[s] \in Nat
    BY <1>4, <1>7, <1>13 DEF IsPointed
  <2>3. base \in Tables
    BY <1>7 DEF Tables
  <2>4. Advanced(c, g.top)[s] = to(s)
    BY <1>2, <1>6, <2>2, <2>3, TopsAgree DEF Advanced, to
  <2> QED
    BY <1>8, <1>9, <2>1, <2>2, <2>4
<1>14. ASSUME IsPointed(c), NEW p \in Assigned(c)
       PROVE  Past(sets, p, From(g, p[2]))
  <2>1. base[p[2]] = From(g, p[2])
    BY <1>2, <1>4, <1>11, <1>14 DEF IsPointed, From
  <2> QED
    BY <1>11, <2>1
<1>15. Comparing(g) => g.saw[a] # None
  BY <1>5 DEF Comparing
<1> QED
  BY <1>3, <1>10, <1>12, <1>13, <1>14, <1>15

\* A call that has a plan goes to its review, or waits to write it.
LEMMA PlannedNumbers ==
    ASSUME IInv, NumberInv, NEW t \in Tasks, NEW h, call'[t] = h,
           UNCHANGED <<store, cache, calls>>,
           \A u \in Tasks \ {t} : call'[u] = call[u],
           call[t].pc \in {"foreign", "relabel"}, h.pc \in {"review", "wait"},
           h.cmd = call[t].cmd, h.reply = call[t].reply, h.top = call[t].top,
           h.saw = call[t].saw, h.sampled = call[t].sampled,
           PlanOK(h.plan), PastSeen(h), h.pc = "review" => Comparing(h),
           IsPointed(h.cmd) =>
              /\ \A s \in Scopes : h.top[s] # None /\ Unplaced(h.cmd.about, s) =>
                    Leads(h.plan.sets, s, h.top[s], Advanced(h.cmd, h.top)[s])
              /\ \A p \in Assigned(h.cmd) : Past(h.plan.sets, p, From(h, p[2]))
    PROVE  NumberInv'
<1> DEFINE g == call[t]
<1>1. Placed(g) /\ CallOK(g) /\ Tracked(g) /\ g.pc # "idle"
  BY NumberFacts
<1>2. calls' \in Nat
  BY DEF NumberInv
<1>3. CallOK(h)
  <2>1. h.pc = "review" => h.saw[h.cmd.about] # None
    BY DEF PastSeen
  <2> QED
    BY <1>1, <2>1 DEF CallOK
<1>4. IsPointed(h.cmd) => g.pc = "foreign" /\ h.pc = "wait"
  BY <1>1 DEF Placed, IsPointed, Comparing
<1>5. Tracked(h)
  BY <1>1, <1>4, SMTT(30) DEF Tracked, From
<1> QED
  BY <1>2, <1>3, <1>5, NumberKept

LEMMA TranslateNumbers ==
    ASSUME IInv, NumberInv, NEW t \in Tasks, TranslateIngest(t)
    PROVE  NumberInv'
<1> DEFINE g == call[t]
           c == g.cmd
           plan == IngestPlan(t)
           todo == ReadAbouts(t)
<1>1. /\ IsCall(g) /\ Placed(g) /\ g.pc = "foreign" /\ c \in Commands
      /\ call = [u \in Tasks |-> call[u]]
  BY NumberFacts DEF TranslateIngest
<1>2. /\ UNCHANGED <<store, cache, calls>>
      /\ \A u \in Tasks \ {t} : call'[u] = call[u]
  BY OthersStay DEF Work, TranslateIngest
<1>3. \/ Answer(t, "refused")
      \/ /\ Reviewing(c)
         /\ call' = [call EXCEPT ![t].plan = plan, ![t].todo = todo, ![t].pc = "review"]
      \/ call' = [call EXCEPT ![t].plan = plan, ![t].pc = "wait"]
  BY DEF TranslateIngest, Leave
<1>4. /\ PlanOK(plan)
      /\ Comparing(g) =>
            /\ g.saw[c.about] # None
            /\ \A p \in Assigned(c) : Past(plan.sets, p, Frontier(g.saw[c.about], p[2]))
      /\ IsPointed(c) =>
            /\ \A s \in Scopes : g.top[s] # None /\ Unplaced(c.about, s) =>
                  Leads(plan.sets, s, g.top[s], Advanced(c, g.top)[s])
            /\ \A p \in Assigned(c) : Past(plan.sets, p, From(g, p[2]))
  BY <1>1, IngestPlanFacts
<1> HIDE DEF plan, todo
<1>5. ASSUME NEW h, call'[t] = h, h.pc \in {"review", "wait"}, h.pc = "review" => Reviewing(c),
             h.cmd = c, h.reply = g.reply, h.top = g.top,
             h.saw = g.saw, h.sampled = g.sampled, h.plan = plan
      PROVE  NumberInv'
  <2>1. PastSeen(h)
    BY <1>4, <1>5 DEF PastSeen, Comparing
  <2>2. h.pc = "review" => Comparing(h)
    BY <1>1, <1>5, CommandFacts DEF Comparing
  <2>3. IsPointed(h.cmd) =>
            /\ \A s \in Scopes : h.top[s] # None /\ Unplaced(h.cmd.about, s) =>
                  Leads(h.plan.sets, s, h.top[s], Advanced(h.cmd, h.top)[s])
            /\ \A p \in Assigned(h.cmd) : Past(h.plan.sets, p, From(h, p[2]))
    BY <1>4, <1>5 DEF From
  <2> QED
    BY <1>1, <1>2, <1>4, <1>5, <2>1, <2>2, <2>3, PlannedNumbers
<1>6. CASE /\ Reviewing(c)
           /\ call' = [call EXCEPT ![t].plan = plan, ![t].todo = todo, ![t].pc = "review"]
  <2> DEFINE h == [g EXCEPT !.plan = plan, !.todo = todo, !.pc = "review"]
  <2>1. call'[t] = h
    BY <1>1, <1>6
  <2>2. /\ h.pc = "review" /\ h.cmd = c /\ h.reply = g.reply /\ h.top = g.top
        /\ h.saw = g.saw /\ h.sampled = g.sampled /\ h.plan = plan
    BY <1>1 DEF IsCall, Fields
  <2> HIDE DEF h
  <2> QED
    BY <1>5, <1>6, <2>1, <2>2
<1>7. CASE call' = [call EXCEPT ![t].plan = plan, ![t].pc = "wait"]
  <2> DEFINE h == [g EXCEPT !.plan = plan, !.pc = "wait"]
  <2>1. call'[t] = h
    BY <1>1, <1>7
  <2>2. /\ h.pc = "wait" /\ h.cmd = c /\ h.reply = g.reply /\ h.top = g.top
        /\ h.saw = g.saw /\ h.sampled = g.sampled /\ h.plan = plan
    BY <1>1 DEF IsCall, Fields
  <2> HIDE DEF h
  <2> QED
    BY <1>5, <2>1, <2>2
<1> QED
  BY <1>2, <1>3, <1>6, <1>7, AnswerNumbers DEF Replies

LEMMA RelabelPlanFacts ==
    ASSUME IInv, NumberInv, NEW t \in Tasks, call[t].pc = "relabel"
    PROVE  PlanOK(RelabelPlan(t))
<1> DEFINE g == call[t]
           c == g.cmd
           n(s) == Frontier(g.saw[c.about], s) + 1
           coord(s) == [entry |-> c.entry, scope |-> s, seq |-> n(s)]
<1>1. /\ CallOK(g) /\ c \in Commands /\ c.op = "relabel" /\ c.about \in Abouts
  BY NumberFacts DEF Placed
<1>2. c.entry \in Entries /\ c.add \subseteq Scopes
  BY <1>1, CommandAssumption DEF Ingest, Relabel
<1>3. SliceOK(g.saw[c.about])
  BY <1>1 DEF CallOK
<1>4. \A s \in Scopes : n(s) \in Nat
  BY <1>3, FrontierFacts
<1> HIDE DEF n
<1>5. /\ RelabelPlan(t).known = {} /\ RelabelPlan(t).links = {}
      /\ RelabelPlan(t).sets = {coord(s) : s \in c.add}
  BY DEF RelabelPlan, n
<1>6. RelabelPlan(t).sets \subseteq Coordinate
  BY <1>2, <1>4, <1>5 DEF Coordinate
<1>7. ASSUME NEW s \in Scopes
      PROVE  \A x \in RelabelPlan(t).sets : x.scope = s => x.seq <= n(s)
  BY <1>2, <1>4, <1>5
<1>8. Bounded(RelabelPlan(t).sets)
  BY <1>4, <1>7 DEF Bounded
<1> QED
  BY <1>5, <1>6, <1>8 DEF PlanOK

LEMMA RelabelNumbers ==
    ASSUME IInv, NumberInv, NEW t \in Tasks, TranslateRelabel(t)
    PROVE  NumberInv'
<1> DEFINE g == call[t]
           c == g.cmd
           plan == RelabelPlan(t)
           h == [g EXCEPT !.plan = plan, !.pc = "wait"]
<1>1. /\ IsCall(g) /\ g.pc = "relabel" /\ c.op = "relabel" /\ PlanOK(plan)
      /\ call = [u \in Tasks |-> call[u]]
  BY NumberFacts, RelabelPlanFacts DEF TranslateRelabel, Placed
<1>2. /\ UNCHANGED <<store, cache, calls>>
      /\ \A u \in Tasks \ {t} : call'[u] = call[u]
  BY OthersStay DEF Work, TranslateRelabel
<1>3. \/ \E r \in Replies : Answer(t, r)
      \/ call' = [call EXCEPT ![t].plan = plan, ![t].pc = "wait"]
  BY DEF TranslateRelabel, Leave, Replies
<1> HIDE DEF plan
<1>4. CASE call' = [call EXCEPT ![t].plan = plan, ![t].pc = "wait"]
  <2>1. call'[t] = h
    BY <1>1, <1>4
  <2>2. /\ h.pc = "wait" /\ h.cmd = c /\ h.reply = g.reply /\ h.top = g.top
        /\ h.saw = g.saw /\ h.sampled = g.sampled /\ h.plan = plan
    BY <1>1 DEF IsCall, Fields
  <2> HIDE DEF h
  <2>3. PastSeen(h) /\ ~IsPointed(h.cmd)
    BY <1>1, <2>2 DEF PastSeen, Comparing, IsPointed
  <2> QED
    BY <1>1, <1>2, <2>1, <2>2, <2>3, PlannedNumbers
<1> QED
  BY <1>2, <1>3, <1>4, AnswerNumbers

LEMMA KeyNumbers ==
    ASSUME IInv, NumberInv, NEW t \in Tasks, CheckKey(t)
    PROVE  NumberInv'
<1> DEFINE g == call[t]
           k == g.cmd.key
           done == [rev |-> accepted[k].rev, replayed |-> TRUE]
           h == [g EXCEPT !.done = done, !.pc = "remember"]
<1>1. /\ IsCall(g) /\ CallOK(g) /\ Tracked(g) /\ g.pc = "key" /\ g.cmd \in Commands
      /\ call = [u \in Tasks |-> call[u]]
  BY NumberFacts DEF CheckKey
<1>2. /\ UNCHANGED <<store, cache, calls>>
      /\ \A u \in Tasks \ {t} : call'[u] = call[u]
  BY OthersStay DEF Work, CheckKey
<1>3. \/ Goto(t, "append")
      \/ accepted[k] # None /\ call' = [call EXCEPT ![t].done = done, ![t].pc = "remember"]
      \/ Answer(t, "refused")
  BY DEF CheckKey, Committed
<1>4. accepted[k] # None => accepted[k].rev \in Nat
  BY <1>1, CommandFacts DEF IInv, StateShaped
<1>5. done.rev = accepted[k].rev /\ done.replayed
  OBVIOUS
<1> HIDE DEF done
<1>6. CASE Goto(t, "append")
  <2>1. Alike(call'[t], g) /\ call'[t].pc = "append"
    BY <1>1, <1>6 DEF Goto, Alike, IsCall, Fields
  <2> QED
    BY <1>1, <1>2, <2>1, AlikeStep
<1>7. CASE accepted[k] # None /\ call' = [call EXCEPT ![t].done = done, ![t].pc = "remember"]
  <2>1. call'[t] = h
    BY <1>1, <1>7
  <2>2. /\ h.pc = "remember" /\ h.cmd = g.cmd /\ h.reply = g.reply /\ h.top = g.top
        /\ h.saw = g.saw /\ h.plan = g.plan /\ h.done = done
    BY <1>1 DEF IsCall, Fields
  <2> HIDE DEF h
  <2>3. CallOK(h)
    BY <1>1, <1>4, <1>5, <1>7, <2>2 DEF CallOK
  <2>4. PastSeen(h)
    BY <2>2 DEF PastSeen
  <2>5. Tracked(h)
    BY <1>1, <1>5, <2>2 DEF Tracked, Remembers
  <2>6. calls' \in Nat
    BY <1>2 DEF NumberInv
  <2> QED
    BY <1>2, <2>1, <2>3, <2>4, <2>5, <2>6, NumberKept
<1> QED
  BY <1>2, <1>3, <1>6, <1>7, AnswerNumbers DEF Replies

-----------------------------------------------------------------------------
(* The cache: what a pointed write keeps when it is done.                  *)

LEMMA FinishKeeps ==
    ASSUME IInv, NumberInv, NEW t \in Tasks, Finish(t)
    PROVE  CachesOK'
<1> DEFINE g == call[t]
           a == g.cmd.about
           k == Host[t]
           full == Cardinality(Kept(k)) + Cardinality(Loaded(t)) > CacheLimit
           end == Advanced(g.cmd, g.top)
           mine(x) == x[1] = a /\ x[2] \in Loaded(t)
           row == [x \in Abouts \X Scopes |->
                     IF mine(x) THEN [rev |-> g.done.rev, top |-> end[x[2]]]
                     ELSE IF full THEN None ELSE cache[k][x]]
<1>1. /\ CallOK(g) /\ Tracked(g) /\ g.pc = "remember" /\ a \in Abouts /\ g.cmd \in Commands
      /\ k \in Kernels
  BY NumberFacts, HostAssumption DEF Finish
<1>2. rev' = rev /\ memory' = memory
  BY DEF Finish, store
<1>3. /\ cache = [l \in Kernels |-> [x \in Abouts \X Scopes |-> cache[l][x]]]
      /\ \A l \in Kernels, b \in Abouts, s \in Scopes : KeptOK(cache[l][<<b, s>>], b, s)
  BY DEF NumberInv, CachesOK
<1>4. \/ cache' = cache
      \/ MayRemember(t) /\ cache' = [cache EXCEPT ![k] = row]
  BY DEF Finish
<1>5. CASE cache' = cache
  <2>1. \A l \in Kernels, b \in Abouts, s \in Scopes : KeptOK(cache[l][<<b, s>>], b, s)'
    BY <1>2, <1>3, <1>5 DEF KeptOK
  <2>2. (cache = [l \in Kernels |-> [x \in Abouts \X Scopes |-> cache[l][x]]])'
    BY <1>3, <1>5, Zenon
  <2> QED
    BY <2>1, <2>2 DEF CachesOK
<1>6. CASE MayRemember(t) /\ cache' = [cache EXCEPT ![k] = row]
  <2>1. IsPointed(g.cmd) /\ Remembers(g)
    BY <1>6 DEF MayRemember, Remembers
  <2>2. ASSUME NEW s \in Loaded(t)
        PROVE  KeptOK([rev |-> g.done.rev, top |-> end[s]], a, s)
    <3>1. g.top \in Tables /\ s \in Scopes /\ g.top[s] \in Nat /\ g.cmd.writes \in Seq(Write)
      BY <1>1, <2>1, IngestFacts DEF Loaded, CallOK, Tables, IsPointed
    <3>2. Len(g.cmd.writes) \in 0 .. Len(g.cmd.writes)
      BY <3>1
    <3>3. end[s] \in Nat
      BY <3>1, <3>2, TopsClimb DEF Advanced
    <3>4. /\ g.done.rev \in Nat /\ g.done.rev <= rev[a]
          /\ g.done.rev = rev[a] /\ Unplaced(a, s) => end[s] = Frontier(memory[a], s)
      BY <1>1, <2>1, <3>1 DEF Tracked, CallOK, Loaded
    <3> HIDE DEF end
    <3> QED
      BY <3>3, <3>4 DEF KeptOK
  <2> HIDE DEF full, end
  <2>3. ASSUME NEW b \in Abouts, NEW s \in Scopes
        PROVE  KeptOK(row[<<b, s>>], b, s)
    <3>1. CASE b = a /\ s \in Loaded(t)
      <4>1. row[<<b, s>>] = [rev |-> g.done.rev, top |-> end[s]]
        BY <3>1
      <4> QED
        BY <2>2, <3>1, <4>1
    <3>2. CASE ~(b = a /\ s \in Loaded(t))
      <4>1. row[<<b, s>>] = None \/ row[<<b, s>>] = cache[k][<<b, s>>]
        BY <3>2
      <4>2. KeptOK(None, b, s)
        BY DEF KeptOK
      <4>3. KeptOK(cache[k][<<b, s>>], b, s)
        BY <1>1, <1>3
      <4> QED
        BY <4>1, <4>2, <4>3
    <3> QED
      BY <3>1, <3>2
  <2>4. row = [x \in Abouts \X Scopes |-> row[x]]
    OBVIOUS
  <2> HIDE DEF row
  <2>5. /\ cache' = [l \in Kernels |-> cache'[l]]
        /\ \A l \in Kernels : cache'[l] = IF l = k THEN row ELSE cache[l]
    BY <1>1, <1>3, <1>6
  <2>6. \A l \in Kernels, b \in Abouts, s \in Scopes : KeptOK(cache'[l][<<b, s>>], b, s)
    BY <1>3, <2>3, <2>5
  <2>7. \A l \in Kernels, b \in Abouts, s \in Scopes : KeptOK(cache[l][<<b, s>>], b, s)'
    BY <1>2, <2>6 DEF KeptOK
  <2>8. \A l \in Kernels : cache[l] = [x \in Abouts \X Scopes |-> cache[l][x]]
    BY <1>3
  <2>9. \A l \in Kernels : cache'[l] = [x \in Abouts \X Scopes |-> cache'[l][x]]
    BY <2>4, <2>5, <2>8
  <2>10. cache' = [l \in Kernels |-> [x \in Abouts \X Scopes |-> cache'[l][x]]]
    BY <2>5, <2>9
  <2> QED
    BY <2>7, <2>10 DEF CachesOK
<1> QED
  BY <1>4, <1>5, <1>6

LEMMA FinishNumbers ==
    ASSUME IInv, NumberInv, NEW t \in Tasks, Finish(t)
    PROVE  NumberInv'
<1>1. PICK r \in Replies : Answer(t, r)
  BY DEF Finish, Replies
<1>2. call' = [call EXCEPT ![t] = Idle(r)] /\ call = [u \in Tasks |-> call[u]]
  BY <1>1, NumberFacts DEF Answer
<1>3. rev' = rev /\ memory' = memory /\ calls' = calls
  BY DEF Finish, store
<1>4. ASSUME NEW u \in Tasks
      PROVE  CallOK(call'[u]) /\ PastSeen(call'[u]) /\ Tracked(call'[u])
  <2>1. call'[u] = Idle(r) \/ call'[u] = call[u]
    BY <1>2
  <2> QED
    BY <2>1, IdleNumbers DEF NumberInv
<1>5. ASSUME NEW u \in Tasks
      PROVE  CallOK(call[u])' /\ PastSeen(call[u])' /\ Tracked(call[u])'
  <2>1. CallOK(call[u])' /\ PastSeen(call[u])'
    BY <1>4 DEF CallOK, PastSeen, Comparing
  <2>2. Tracked(call[u])'
    BY <1>3, <1>4 DEF Tracked, Remembers
  <2> QED
    BY <2>1, <2>2
<1>6. /\ (\A a \in Abouts : SliceOK(memory[a]) /\ (rev[a] = 0 => memory[a].at = {}))'
      /\ (calls \in Nat)'
  BY <1>3 DEF NumberInv
<1> QED
  BY <1>5, <1>6, FinishKeeps DEF NumberInv

-----------------------------------------------------------------------------
(* The commit: the about moves on by a revision and by what was decided.   *)

LEMMA CommitMemory ==
    ASSUME IInv, NumberInv, NEW t \in Tasks, Commit(t), call[t].pc = "append"
    PROVE  /\ rev'[call[t].cmd.about] = rev[call[t].cmd.about] + 1
           /\ memory'[call[t].cmd.about] = Applied(memory[call[t].cmd.about], call[t].plan)
           /\ \A a \in Abouts : /\ SliceOK(memory'[a])
                                /\ rev[a] \in Nat /\ rev'[a] \in Nat /\ rev[a] <= rev'[a]
                                /\ rev'[a] = rev[a] => memory'[a] = memory[a]
<1> DEFINE a == call[t].cmd.about
           slice == Applied(memory[a], call[t].plan)
<1>1. /\ a \in Abouts /\ rev \in [Abouts -> Nat] /\ memory = [b \in Abouts |-> memory[b]]
      /\ CallOK(call[t]) /\ \A b \in Abouts : SliceOK(memory[b])
  BY NumberFacts DEF IInv, StateShaped
<1>2. rev' = [rev EXCEPT ![a] = @ + 1] /\ memory' = [memory EXCEPT ![a] = slice]
  BY DEF Commit
<1>3. SliceOK(slice)
  BY <1>1, AppliedIsSlice DEF CallOK
<1> HIDE DEF slice
<1>4. rev'[a] = rev[a] + 1 /\ memory'[a] = slice
  BY <1>1, <1>2
<1>5. \A b \in Abouts : SliceOK(memory'[b])
  <2>1. \A b \in Abouts : memory'[b] = slice \/ memory'[b] = memory[b]
    BY <1>1, <1>2
  <2> QED
    BY <1>1, <1>3, <2>1
<1>6. \A b \in Abouts : /\ rev[b] \in Nat /\ rev'[b] \in Nat /\ rev[b] <= rev'[b]
                        /\ rev'[b] = rev[b] => memory'[b] = memory[b]
  BY <1>1, CommitFacts
<1> QED
  BY <1>4, <1>5, <1>6 DEF slice

LEMMA CommitNumbers ==
    ASSUME IInv, NumberInv, NEW t \in Tasks, AppendEvent(t)
    PROVE  NumberInv'
<1> DEFINE g == call[t]
           a == g.cmd.about
           done == [rev |-> rev[a] + 1, replayed |-> FALSE]
           h == [g EXCEPT !.done = done, !.pc = "remember"]
           end(f) == Advanced(f.cmd, f.top)
<1>1. g.pc = "append" /\ UNCHANGED <<cache, calls>>
      /\ (Commit(t) \/ (Answer(t, "retry") /\ UNCHANGED store))
  BY Zenon DEF AppendEvent
<1>2. CASE Commit(t)
  <2>1. /\ IsCall(g) /\ CallOK(g) /\ PastSeen(g) /\ Tracked(g)
        /\ call = [u \in Tasks |-> call[u]] /\ a \in Abouts
    BY <1>1, NumberFacts
  <2>2. \A u \in Tasks \ {t} : call'[u] = call[u]
    BY OthersStay DEF Work
  <2>3. /\ rev'[a] = rev[a] + 1 /\ memory'[a] = Applied(memory[a], g.plan)
        /\ \A b \in Abouts : /\ SliceOK(memory'[b])
                             /\ rev[b] \in Nat /\ rev'[b] \in Nat /\ rev[b] <= rev'[b]
                             /\ rev'[b] = rev[b] => memory'[b] = memory[b]
    BY <1>1, <1>2, CommitMemory
  <2>4. call' = [call EXCEPT ![t].done = done, ![t].pc = "remember"]
    BY <1>2 DEF Commit, Committed
  <2>5. done.rev = rev[a] + 1 /\ ~done.replayed
    OBVIOUS
  <2> HIDE DEF done
  <2>6. call'[t] = h
    BY <2>1, <2>4
  <2>7. /\ h.pc = "remember" /\ h.cmd = g.cmd /\ h.reply = g.reply /\ h.top = g.top
        /\ h.saw = g.saw /\ h.plan = g.plan /\ h.sampled = g.sampled /\ h.done = done
    BY <2>1 DEF IsCall, Fields
  <2> HIDE DEF h
  <2>8. CallOK(h) /\ PastSeen(h)
    BY <2>1, <2>3, <2>5, <2>7 DEF CallOK, PastSeen
  \* What the write left is what it will remember.
  <2>9. ASSUME IsPointed(g.cmd), NEW s \in Scopes, g.top[s] # None
        PROVE  /\ s \in OpenScopes(g.cmd)
               /\ Remembers(h) /\ Unplaced(a, s)
                    => Advanced(g.cmd, g.top)[s] = Frontier(memory'[a], s)
    <3>1. /\ s \in OpenScopes(g.cmd) /\ g.sampled[a] \in Nat
          /\ g.sampled[a] = rev[a] /\ Unplaced(a, s) => g.top[s] = Frontier(memory[a], s)
          /\ Unplaced(a, s) => Leads(g.plan.sets, s, g.top[s], Advanced(g.cmd, g.top)[s])
      BY <1>1, <2>1, <2>9 DEF Tracked
    <3>2. Remembers(h) => g.sampled[a] = rev[a]
      BY <2>3, <2>1, <2>5, <2>7, <3>1 DEF Remembers
    <3>3. SliceOK(memory[a]) /\ PlanOK(g.plan)
      BY <2>1, NumberFacts DEF CallOK
    <3>4. ASSUME Remembers(h), Unplaced(a, s)
          PROVE  Frontier(Applied(memory[a], g.plan), s) = Advanced(g.cmd, g.top)[s]
      <4>1. Leads(g.plan.sets, s, Frontier(memory[a], s), Advanced(g.cmd, g.top)[s])
        BY <3>1, <3>2, <3>4
      <4> QED
        BY <3>3, <4>1, AppliedFrontier
    <3> QED
      BY <2>3, <3>1, <3>4
  \* What the others know of the about is of a revision that is past.
  <2>10. ASSUME NEW u \in Tasks PROVE Tracked(call[u])'
    <3>1. CASE u = t
      <4>1. (Tracked(call[t]))' <=>
              (IsPointed(h.cmd) =>
                 /\ {s \in Scopes : h.top[s] # None} \subseteq OpenScopes(h.cmd)
                 /\ Remembers(h) =>
                       /\ h.done.rev <= rev'[a]
                       /\ h.done.rev = rev'[a] =>
                             \A s \in {r \in Scopes : h.top[r] # None} :
                                Unplaced(a, s) => end(h)[s] = Frontier(memory'[a], s))
        BY <2>6, <2>7 DEF Tracked, Remembers
      <4>2. h.done.rev <= rev'[a]
        BY <2>1, <2>3, <2>5, <2>7
      <4>3. ASSUME IsPointed(h.cmd), NEW s \in Scopes, h.top[s] # None
            PROVE  /\ s \in OpenScopes(h.cmd)
                   /\ Remembers(h) /\ Unplaced(a, s) => end(h)[s] = Frontier(memory'[a], s)
        BY <2>7, <2>9, <4>3
      <4> HIDE DEF end
      <4> QED
        BY <3>1, <4>1, <4>2, <4>3
    <3>2. CASE u # t
      <4> DEFINE f == call[u]
                 b == f.cmd.about
                 loaded == {s \in Scopes : f.top[s] # None}
      <4>1. /\ call'[u] = f /\ Tracked(f) /\ CallOK(f)
            /\ f.pc # "idle" => b \in Abouts
        BY <2>2, <3>2, NumberFacts
      <4> SUFFICES ASSUME f.pc # "idle", IsPointed(f.cmd)
                   PROVE  Tracked(call[u])'
        BY <4>1 DEF Tracked
      <4>2. /\ rev[b] \in Nat /\ rev'[b] \in Nat /\ rev[b] <= rev'[b]
            /\ rev'[b] = rev[b] => memory'[b] = memory[b]
        BY <2>3, <4>1
      <4>3. f.pc \in {"catalogue", "facts", "foreign", "wait", "key", "append"} =>
              /\ f.sampled[b] \in Nat /\ f.sampled[b] <= rev'[b]
              /\ f.sampled[b] = rev'[b] =>
                    \A s \in loaded :
                       Unplaced(b, s) => f.top[s] = Frontier(memory'[b], s)
        BY <4>1, <4>2 DEF Tracked
      <4>4. f.pc = "remember" /\ Remembers(f) =>
              /\ f.done.rev <= rev'[b]
              /\ f.done.rev = rev'[b] =>
                    \A s \in loaded :
                       Unplaced(b, s) => end(f)[s] = Frontier(memory'[b], s)
        BY <4>1, <4>2 DEF Tracked, CallOK
      <4>5. /\ loaded \subseteq OpenScopes(f.cmd)
            /\ f.pc \in {"wait", "key", "append"} =>
                  /\ \A s \in loaded :
                        Unplaced(b, s) => Leads(f.plan.sets, s, f.top[s], end(f)[s])
                  /\ \A p \in Assigned(f.cmd) : Past(f.plan.sets, p, From(f, p[2]))
        BY <4>1 DEF Tracked
      <4>6. f.pc \in {"foreign", "wait", "key", "append"} /\ f.sampled[b] = rev'[b] =>
              \A s \in OpenScopes(f.cmd) :
                 Unplaced(b, s) => From(f, s) = Frontier(memory'[b], s)
        BY <4>1, <4>2, <4>3, SMTT(30) DEF Tracked
      <4> QED
        BY <4>1, <4>3, <4>4, <4>5, <4>6 DEF Tracked, Remembers, From
    <3> QED
      BY <3>1, <3>2
  <2>11. ASSUME NEW u \in Tasks PROVE CallOK(call[u])' /\ PastSeen(call[u])'
    <3>1. CallOK(call'[u]) /\ PastSeen(call'[u])
      BY <2>2, <2>6, <2>8 DEF NumberInv
    <3> QED
      BY <3>1 DEF CallOK, PastSeen, Comparing
  <2>12. CachesOK'
    <3>1. ASSUME NEW k \in Kernels, NEW b \in Abouts, NEW s \in Scopes
          PROVE  KeptOK(cache[k][<<b, s>>], b, s)'
      <4>1. KeptOK(cache[k][<<b, s>>], b, s)
        BY DEF NumberInv, CachesOK
      <4> QED
        BY <1>1, <2>3, <4>1 DEF KeptOK
    <3>2. (cache = [k \in Kernels |-> [x \in Abouts \X Scopes |-> cache[k][x]]])'
      BY <1>1, Zenon DEF NumberInv, CachesOK
    <3> QED
      BY <3>1, <3>2 DEF CachesOK
  <2>13. ASSUME NEW b \in Abouts
         PROVE  SliceOK(memory[b])' /\ (rev[b] = 0 => memory[b].at = {})'
    <3>1. /\ rev[b] \in Nat /\ rev'[b] \in Nat /\ rev[b] <= rev'[b]
          /\ rev'[b] = rev[b] => memory'[b] = memory[b]
          /\ rev[b] = 0 => memory[b].at = {}
          /\ SliceOK(memory'[b])
      BY <2>3 DEF NumberInv
    <3>2. b = a => rev'[b] # 0
      BY <2>3, <3>1
    <3>3. b # a => memory'[b] = memory[b] /\ rev'[b] = rev[b]
      BY <1>2, <2>1 DEF Commit, IInv, StateShaped
    <3>4. rev'[b] = 0 => memory'[b].at = {}
      BY <3>1, <3>2, <3>3
    <3> QED
      BY <3>1, <3>4
  <2>14. (calls \in Nat)'
    BY <1>1 DEF NumberInv
  <2> QED
    BY <2>10, <2>11, <2>12, <2>13, <2>14 DEF NumberInv
<1> QED
  BY <1>1, <1>2, AnswerNumbers DEF Replies

-----------------------------------------------------------------------------
(* The theorems.                                                           *)

LEMMA InitNumbers == Init => NumberInv
<1> SUFFICES ASSUME Init PROVE NumberInv
  OBVIOUS
<1>1. /\ memory = Stored /\ calls = 0 /\ call = [t \in Tasks |-> Idle("none")]
      /\ cache = [k \in Kernels |-> [x \in Abouts \X Scopes |-> None]]
  BY DEF Init
<1>2. ASSUME NEW a \in Abouts PROVE SliceOK(memory[a])
  <2>1. Stored[a] \in Slice /\ IsFiniteSet(Stored[a].at)
    BY StoredAssumption
  <2>2. Stored[a].at \in SUBSET Coordinate
    BY <2>1 DEF Slice
  <2> QED
    BY <1>1, <2>1, <2>2, FiniteHasEnd DEF SliceOK
<1>3. CachesOK
  BY <1>1 DEF CachesOK, KeptOK
<1>4. \A t \in Tasks : CallOK(call[t]) /\ PastSeen(call[t]) /\ Tracked(call[t])
  BY <1>1, IdleNumbers DEF Replies
<1>5. \A a \in Abouts : rev[a] = 0 => memory[a].at = {}
  BY <1>1 DEF Init, EmptySlice
<1> QED
  BY <1>1, <1>2, <1>3, <1>4, <1>5 DEF NumberInv

LEMMA NextNumbers == IInv /\ NumberInv /\ [Next]_vars => NumberInv'
<1> SUFFICES ASSUME IInv, NumberInv, [Next]_vars PROVE NumberInv'
  OBVIOUS
<1>1. ASSUME UNCHANGED vars PROVE NumberInv'
  <2>1. /\ rev' = rev /\ memory' = memory /\ cache' = cache /\ call' = call
        /\ calls' = calls
    BY <1>1 DEF vars, store
  <2>2. ASSUME NEW t \in Tasks
        PROVE  CallOK(call[t])' /\ PastSeen(call[t])' /\ Tracked(call[t])'
    <3>1. CallOK(call[t]) /\ PastSeen(call[t]) /\ Tracked(call[t])
      BY NumberFacts
    <3>2. CallOK(call[t])' /\ PastSeen(call[t])'
      BY <2>1, <3>1 DEF CallOK, PastSeen, Comparing
    <3>3. Tracked(call[t])'
      BY <2>1, <3>1 DEF Tracked, Remembers
    <3> QED
      BY <3>2, <3>3
  <2>3. CachesOK'
    <3>1. \A k \in Kernels, a \in Abouts, s \in Scopes : KeptOK(cache[k][<<a, s>>], a, s)
      BY DEF NumberInv, CachesOK
    <3>2. \A k \in Kernels, a \in Abouts, s \in Scopes : KeptOK(cache[k][<<a, s>>], a, s)'
      BY <2>1, <3>1 DEF KeptOK
    <3>3. (cache = [k \in Kernels |-> [x \in Abouts \X Scopes |-> cache[k][x]]])'
      BY <2>1, Zenon DEF NumberInv, CachesOK
    <3> QED
      BY <3>2, <3>3 DEF CachesOK
  <2> QED
    BY <2>1, <2>2, <2>3 DEF NumberInv
<1>2. ASSUME NEW t \in Tasks, DryRun(t) \/ Fail(t) PROVE NumberInv'
  <2>1. UNCHANGED <<store, cache, calls>> /\ \E r \in Replies : Answer(t, r)
    BY <1>2 DEF DryRun, Fail, Replies
  <2> QED
    BY <2>1, AnswerNumbers
<1>3. ASSUME NEW t \in Tasks, Work(t) PROVE NumberInv'
  BY <1>3, SampleNumbers, ReadNumbers, CatalogueNumbers, FactsNumbers, LocateNumbers,
     TranslateNumbers, ReviewNumbers, RelabelNumbers, KeyNumbers, CommitNumbers,
     FinishNumbers DEF Work
<1> QED
  BY <1>1, <1>2, <1>3, CallNumbers, EnterNumbers DEF Next, Quiet

\* Along every behaviour what is stored has an end under every label, and a
\* plan is past what its call stands on; under an unplaced label a frontier
\* kept or loaded is the store's while the revision it was read at stands
\* (numbering in ingest.rs, SequenceFrontierCache).  Under the other labels
\* the code does not have this: a relation of the write that is remembered may
\* have placed an entry there.
THEOREM Numbering == Spec => []NumberInv
BY InitNumbers, NextNumbers, Invariant, PTL DEF Spec

\* Every variable keeps its type: no coordinate is stored, and none is planned,
\* whose sequence was left open (ingest.rs gives each its number before the
\* event is built).
THEOREM TypesHold == Spec => []TypeOK
<1>1. IInv /\ GuardInv /\ NumberInv => TypeOK
  <2> SUFFICES ASSUME IInv, GuardInv, NumberInv PROVE TypeOK
    OBVIOUS
  <2>1. rev \in [Abouts -> Nat] /\ \A k \in Keys : accepted[k] = None \/ accepted[k].rev \in Nat
    BY DEF IInv, StateShaped
  <2>2. \A a \in Abouts : memory[a] \in Slice
    BY DEF NumberInv, SliceOK
  <2>3. ASSUME NEW k \in Kernels, NEW x \in Abouts \X Scopes
        PROVE  cache[k][x] = None \/ cache[k][x] \in [rev : Nat, top : Nat]
    <3>1. PICK a \in Abouts, s \in Scopes : x = <<a, s>>
      OBVIOUS
    <3>2. KeptOK(cache[k][<<a, s>>], a, s)
      BY DEF NumberInv, CachesOK
    <3> QED
      BY <3>1, <3>2 DEF KeptOK
  <2>4. readers \in [Kernels -> SUBSET Tasks] /\ writer \in [Kernels -> Tasks \cup {None}]
    BY DEF GuardInv
  <2>5. ASSUME NEW t \in Tasks
        PROVE  /\ call[t].pc \in Steps /\ call[t].reply \in Replies
               /\ call[t].sampled \in [Abouts -> Nat \cup {None}]
               /\ call[t].top \in [Scopes -> Nat \cup {None}]
               /\ call[t].plan.sets \subseteq Coordinate
    BY NumberFacts DEF Placed, Shaped, CallOK, PlanOK
  <2>6. calls \in Nat
    BY DEF NumberInv
  <2> QED
    BY <2>1, <2>2, <2>3, <2>4, <2>5, <2>6 DEF TypeOK
<1> QED
  BY <1>1, Invariant, GuardHeld, Numbering, PTL

\* A frontier a process keeps of an unplaced label is the about's whenever its
\* revision is, whoever wrote, whatever was replayed, relabelled or placed by
\* relation between (SequenceFrontierCache, may_remember).
THEOREM FrontierIsAlwaysExact == Spec => []FrontierIsExact
<1>1. NumberInv => FrontierIsExact
  BY DEF NumberInv, CachesOK, KeptOK, FrontierIsExact, KeptIsExact
<1> QED
  BY <1>1, Numbering, PTL

\* A compared write takes sequences nobody has: what it saw of its about is
\* what the about holds when it commits, and each edge it was left to number
\* is past that.
THEOREM ConsistentIsAlwaysFresh == Spec => ConsistentIsFresh
<1> DEFINE Fresh(t) ==
             LET c == call[t].cmd IN
             Commits(t) /\ c.op = "ingest" /\ ConsistentRead(c) =>
                \A p \in Assigned(c) :
                   Past(call[t].plan.sets, p, Frontier(memory[c.about], p[2]))
<1>1. ASSUME IInv, NumberInv, Next, NEW t \in Tasks PROVE Fresh(t)
  <2> DEFINE g == call[t]
             a == g.cmd.about
  <2> SUFFICES ASSUME Commits(t), Comparing(g)
               PROVE  \A p \in Assigned(g.cmd) :
                         Past(g.plan.sets, p, Frontier(memory[a], p[2]))
    BY DEF Comparing
  <2>1. /\ Sampled(g) /\ PastSeen(g) /\ g.pc = "append" /\ a \in Abouts
    BY <1>1, Facts13, NumberFacts DEF Commits
  <2>2. g.sampled[a] \in {None, rev[a]}
    BY <1>1, <2>1, CommitsStand DEF Stands, Comparing
  <2>3. /\ g.saw[a] # None
        /\ \A p \in Assigned(g.cmd) :
              Past(g.plan.sets, p, Frontier(g.saw[a], p[2]))
    BY <2>1 DEF PastSeen
  <2>4. g.saw[a] = memory[a]
    BY <2>1, <2>2, <2>3, NoneAssumption DEF Sampled
  <2> QED
    BY <2>3, <2>4
<1>2. IInv /\ NumberInv /\ [Next]_vars => [\A t \in Tasks : Fresh(t)]_vars
  BY <1>1
<1> QED
  BY <1>2, Invariant, Numbering, PTL DEF Spec, ConsistentIsFresh

\* A write that compares nothing takes sequences nobody has, if nobody wrote to
\* its about since it sampled its revision, under an unplaced label: the
\* frontiers it took from memory and those it read are the store's then
\* (existing_memory_refs_for_write).
THEOREM UncontendedIsFresh ==
    Spec => [][\A t \in Tasks :
                 LET c == call[t].cmd IN
                 Commits(t) /\ IsPointed(c) /\ call[t].sampled[c.about] = rev[c.about] =>
                    \A p \in Assigned(c) : Unplaced(c.about, p[2]) =>
                       Past(call[t].plan.sets, p, Frontier(memory[c.about], p[2]))]_vars
<1> DEFINE Fresh(t) ==
             LET c == call[t].cmd IN
             Commits(t) /\ IsPointed(c) /\ call[t].sampled[c.about] = rev[c.about] =>
                \A p \in Assigned(c) : Unplaced(c.about, p[2]) =>
                   Past(call[t].plan.sets, p, Frontier(memory[c.about], p[2]))
<1>1. ASSUME IInv, NumberInv, NEW t \in Tasks PROVE Fresh(t)
  <2> DEFINE g == call[t]
             a == g.cmd.about
  <2> SUFFICES ASSUME Commits(t), IsPointed(g.cmd), g.sampled[a] = rev[a],
                      NEW p \in Assigned(g.cmd), Unplaced(a, p[2])
               PROVE  Past(g.plan.sets, p, Frontier(memory[a], p[2]))
    OBVIOUS
  <2>1. Tracked(g) /\ g.pc = "append"
    BY <1>1, NumberFacts DEF Commits
  <2>2. p[2] \in OpenScopes(g.cmd)
    BY DEF Assigned, OpenScopes
  <2>3. Past(g.plan.sets, p, From(g, p[2]))
    BY <2>1 DEF Tracked
  <2>4. From(g, p[2]) = Frontier(memory[a], p[2])
    BY <2>1, <2>2 DEF Tracked
  <2> QED
    BY <2>3, <2>4
<1>2. IInv /\ NumberInv /\ [Next]_vars => [\A t \in Tasks : Fresh(t)]_vars
  BY <1>1
<1> HIDE DEF Fresh
<1>3. Spec => [][\A t \in Tasks : Fresh(t)]_vars
  BY <1>2, Invariant, Numbering, PTL DEF Spec
<1> QED
  BY <1>3 DEF Fresh

-----------------------------------------------------------------------------
(* The cache at its limit.                                                 *)

\* A process keeps no more frontiers than the limit, or those of one write.
KeptWithin(k) ==
    /\ IsFiniteSet(Kept(k))
    /\ \/ Cardinality(Kept(k)) <= CacheLimit
       \/ \E c \in Commands : Kept(k) \subseteq {c.about} \X OpenScopes(c)

LEMMA OpenScopesFinite ==
    ASSUME NEW c \in Commands, c.op = "ingest"
    PROVE  IsFiniteSet(OpenScopes(c))
<1> DEFINE open == {j \in 1 .. Len(c.writes) : c.writes[j].seq = None}
           scope == [i \in open |-> c.writes[i].scope]
<1>1. Len(c.writes) \in Nat
  BY IngestFacts
<1>2. IsFiniteSet(open)
  <2>1. IsFiniteSet(1 .. Len(c.writes))
    BY <1>1, FS_Interval
  <2>2. open \in SUBSET (1 .. Len(c.writes))
    OBVIOUS
  <2> QED
    BY <2>1, <2>2, FS_Subset
<1>3. scope \in Surjection(open, OpenScopes(c))
  <2>1. OpenScopes(c) = {c.writes[i].scope : i \in open}
    BY DEF OpenScopes
  <2> HIDE DEF open
  <2> QED
    BY <2>1 DEF Surjection
<1> HIDE DEF open, scope
<1> QED
  BY <1>2, <1>3, FS_Surjection

\* Only a call that is done touches the cache of its process.
LEMMA CacheStays ==
    ASSUME Next, \A t \in Tasks : ~Finish(t)
    PROVE  cache' = cache
<1>1. ASSUME NEW t \in Tasks, NEW c \in Commands, Call(t, c)
      PROVE  cache' = cache
  BY <1>1 DEF Call
<1>2. ASSUME NEW t \in Tasks, EnterRead(t) \/ DryRun(t) \/ EnterWrite(t) \/ Fail(t)
      PROVE  cache' = cache
  BY <1>2 DEF EnterRead, DryRun, EnterWrite, Fail
<1>3. ASSUME NEW t \in Tasks, SampleRevision(t) \/ Read(t) \/ Catalogue(t) \/ Facts(t)
      PROVE  cache' = cache
  BY <1>3 DEF SampleRevision, Read, Catalogue, Facts
<1>4. ASSUME NEW t \in Tasks,
             \/ ReadForeign(t) \/ TranslateIngest(t) \/ Review(t)
             \/ \E e \in Entries : Locate(t, e)
             \/ \E a \in Abouts : Recheck(t, a)
      PROVE  cache' = cache
  BY <1>4 DEF Locate, ReadForeign, TranslateIngest, Recheck, Review
<1>5. ASSUME NEW t \in Tasks, ReadExisting(t) \/ ReadCoordinates(t) \/ TranslateRelabel(t)
      PROVE  cache' = cache
  BY <1>5 DEF ReadExisting, ReadCoordinates, TranslateRelabel
<1>6. ASSUME NEW t \in Tasks, CheckKey(t) \/ AppendEvent(t)
      PROVE  cache' = cache
  BY <1>6 DEF CheckKey, AppendEvent
<1>7. CASE Quiet
  BY <1>7 DEF Quiet, vars
<1>8. ASSUME NEW t \in Tasks, Work(t)
      PROVE  cache' = cache
  BY <1>3, <1>4, <1>5, <1>6, <1>8 DEF Work
<1> QED
  BY <1>1, <1>2, <1>7, <1>8 DEF Next

LEMMA FinishWithin ==
    ASSUME IInv, NumberInv, \A k \in Kernels : KeptWithin(k), NEW t \in Tasks, Finish(t),
           NEW k \in Kernels
    PROVE  KeptWithin(k)'
<1> DEFINE g == call[t]
           c == g.cmd
           a == c.about
           mine == {a} \X Loaded(t)
           full == Cardinality(Kept(Host[t])) + Cardinality(Loaded(t)) > CacheLimit
           end == Advanced(c, g.top)
           row == [x \in Abouts \X Scopes |->
                     IF x[1] = a /\ x[2] \in Loaded(t) THEN [rev |-> g.done.rev, top |-> end[x[2]]]
                     ELSE IF full THEN None ELSE cache[Host[t]][x]]
<1>1. /\ Tracked(g) /\ g.pc = "remember" /\ c \in Commands /\ a \in Abouts
      /\ Host[t] \in Kernels /\ CacheLimit \in Nat
  BY NumberFacts, HostAssumption, BoundAssumption DEF Finish
<1>2. cache = [l \in Kernels |-> [x \in Abouts \X Scopes |-> cache[l][x]]]
  BY DEF NumberInv, CachesOK
<1>3. \/ cache' = cache
      \/ MayRemember(t) /\ cache' = [cache EXCEPT ![Host[t]] = row]
  BY DEF Finish
<1>4. CASE cache'[k] = cache[k]
  <2>1. Kept(k)' = Kept(k)
    BY <1>4 DEF Kept
  <2>2. KeptWithin(k)
    OBVIOUS
  <2> QED
    BY <2>1, <2>2, Zenon DEF KeptWithin
<1>5. CASE k = Host[t] /\ MayRemember(t) /\ cache'[k] = row
  <2>1. IsPointed(c)
    BY <1>5 DEF MayRemember
  <2>2. Loaded(t) \subseteq OpenScopes(c) /\ OpenScopes(c) \subseteq Scopes
        /\ IsFiniteSet(OpenScopes(c))
    BY <1>1, <2>1, IngestFacts, OpenScopesFinite DEF Tracked, Loaded, IsPointed
  <2>3. IsFiniteSet(Loaded(t))
    BY <2>2, FS_Subset
  <2>4. IsFiniteSet(mine) /\ Cardinality(mine) = Cardinality(Loaded(t))
    <3> DEFINE pair == [s \in Loaded(t) |-> <<a, s>>]
    <3>1. /\ pair \in [Loaded(t) -> mine]
          /\ \A r, s \in Loaded(t) : pair[r] = pair[s] => r = s
          /\ \A x \in mine : \E s \in Loaded(t) : pair[s] = x
      OBVIOUS
    <3> HIDE DEF pair, mine
    <3>3. pair \in Bijection(Loaded(t), mine)
      BY <3>1 DEF Bijection, Injection, Surjection, IsInjective
    <3>2. ExistsBijection(Loaded(t), mine)
      BY <3>3 DEF ExistsBijection
    <3> QED
      BY <2>3, <3>2, FS_Bijection
  <2>5. Kept(k)' = {x \in Abouts \X Scopes : row[x] # None}
    BY <1>5 DEF Kept
  <2> HIDE DEF end
  <2>6. CASE full
    <3>1. Kept(k)' \subseteq mine
      BY <2>5, <2>6
    <3>2. mine \subseteq {a} \X OpenScopes(c)
      BY <2>2
    <3>3. IsFiniteSet(Kept(k)')
      BY <2>4, <3>1, FS_Subset
    <3> QED
      BY <1>1, <3>1, <3>2, <3>3 DEF KeptWithin
  <2>7. CASE ~full
    <3>1. Kept(k)' \subseteq Kept(k) \cup mine
      BY <1>5, <2>5, <2>7 DEF Kept
    <3>2. IsFiniteSet(Kept(k)) /\ Cardinality(Kept(k)) \in Nat
      BY FS_CardinalityType DEF KeptWithin
    <3>3. Cardinality(Loaded(t)) \in Nat /\ Cardinality(Kept(k)) + Cardinality(Loaded(t)) <= CacheLimit
      BY <1>1, <1>5, <2>3, <2>7, <3>2, FS_CardinalityType
    <3>4. /\ IsFiniteSet(Kept(k) \cup mine)
          /\ Cardinality(Kept(k) \cup mine) <= Cardinality(Kept(k)) + Cardinality(mine)
          /\ Cardinality(Kept(k) \cup mine) \in Nat
      <4>1. /\ IsFiniteSet(Kept(k) \cup mine)
            /\ Cardinality(Kept(k) \cup mine)
                 = Cardinality(Kept(k)) + Cardinality(mine) - Cardinality(Kept(k) \cap mine)
        BY <2>4, <3>2, FS_Union
      <4>2. IsFiniteSet(Kept(k) \cap mine)
        BY <3>2, FS_Intersection
      <4>3. /\ Cardinality(Kept(k) \cap mine) \in Nat /\ Cardinality(mine) \in Nat
            /\ Cardinality(Kept(k) \cup mine) \in Nat
        BY <2>4, <4>1, <4>2, FS_CardinalityType
      <4> QED
        BY <3>2, <4>1, <4>3
    <3>5. /\ IsFiniteSet(Kept(k)') /\ Cardinality(Kept(k)') \in Nat
          /\ Cardinality(Kept(k)') <= Cardinality(Kept(k) \cup mine)
      BY <3>1, <3>4, FS_Subset, FS_CardinalityType
    <3>6. Cardinality(Kept(k)') <= CacheLimit
      BY <1>1, <2>4, <3>2, <3>3, <3>4, <3>5
    <3> QED
      BY <3>5, <3>6 DEF KeptWithin
  <2> QED
    BY <2>6, <2>7
<1> HIDE DEF row
<1>6. cache'[k] = cache[k] \/ (k = Host[t] /\ MayRemember(t) /\ cache'[k] = row)
  BY <1>1, <1>2, <1>3
<1> QED
  BY <1>4, <1>5, <1>6

\* The cache of a process does not grow past its limit by more than one write
\* brings, however many abouts are written (SequenceFrontierCache::remember
\* starts over, it does not evict).
THEOREM CacheIsBounded == Spec => [](\A k \in Kernels : KeptWithin(k))
<1>1. Init => \A k \in Kernels : KeptWithin(k)
  <2> SUFFICES ASSUME Init, NEW k \in Kernels PROVE KeptWithin(k)
    OBVIOUS
  <2>1. Kept(k) = {}
    BY DEF Init, Kept
  <2> QED
    BY <2>1, FS_EmptySet, BoundAssumption DEF KeptWithin
<1>2. ASSUME IInv, NumberInv, \A k \in Kernels : KeptWithin(k), [Next]_vars, NEW k \in Kernels
      PROVE  KeptWithin(k)'
  <2>1. CASE cache' = cache
    <3>1. Kept(k)' = Kept(k)
      BY <2>1 DEF Kept
    <3>2. KeptWithin(k)
      BY <1>2
    <3> QED
      BY <3>1, <3>2, Zenon DEF KeptWithin
  <2>2. CASE \E t \in Tasks : Finish(t)
    BY <1>2, <2>2, FinishWithin
  <2> QED
    BY <1>2, <2>1, <2>2, CacheStays DEF vars
<1>3. IInv /\ NumberInv /\ (\A k \in Kernels : KeptWithin(k)) /\ [Next]_vars
        => (\A k \in Kernels : KeptWithin(k))'
  BY <1>2
<1> QED
  BY <1>1, <1>3, Invariant, Numbering, PTL DEF Spec
=============================================================================
