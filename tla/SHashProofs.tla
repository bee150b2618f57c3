---------------------------- MODULE SHashProofs ----------------------------
(***************************************************************************)
(* What is proved about the hash table, for all keys, values and hash      *)
(* functions and every size of the table: the array, its chains and the    *)
(* list of free nodes stay consistent, and the table is a map.             *)
(*                                                                         *)
(* The inductive invariant Sound speaks of the links between neighbours    *)
(* only.  That the walk of s_hash_get reaches every key follows from it by *)
(* induction over the rank of a node, a number that grows along the links. *)
(***************************************************************************)
EXTENDS SHash, FiniteSets, FiniteSetTheorems, FunctionTheorems, NaturalsInduction,
        SequenceTheorems, WellFoundedInduction, TLAPS

Vals == Value \cup {NULL}
Nodes == [key : Key \cup {NULL}, next : Nat, val : Vals]
Tables == {h \in [p : Seq(Nodes), free : Seq(Nat)] : Len(h.p) > 0}

\* The fields of node n and the main position of its key.
K(h, n) == h.p[n].key
X(h, n) == h.p[n].next
V(h, n) == h.p[n].val
Home(h, n) == MainPos(h, K(h, n))

\* The nodes without a key are in the list of free nodes, each once.
FreeOK(h) ==
  /\ \A i, j \in 1 .. Len(h.free) : h.free[i] = h.free[j] => i = j
  /\ \A i \in 1 .. Len(h.free) : h.free[i] \in 1 .. Len(h.p) /\ h.free[i] \notin Used(h)
  /\ \A n \in 1 .. Len(h.p) : n \notin Used(h) =>
       X(h, n) = NULL /\ \E i \in 1 .. Len(h.free) : h.free[i] = n

\* No key is there twice.
KeysOnce(h) == \A m, n \in Used(h) : K(h, m) = K(h, n) => m = n

\* The main position of a key in the table holds a key of the same chain.
HomesOK(h) == \A n \in Used(h) : Home(h, n) \in Used(h) /\ Home(h, Home(h, n)) = Home(h, n)

\* A node that is not at the main position of its key is behind another one.
Followed(h) == \A n \in Used(h) : Home(h, n) # n => \E m \in Used(h) : X(h, m) = n

\* A link leads to a node of the same chain that is not its first, and no two
\* links lead to the same node.
LinksOK(h) ==
  /\ \A n \in Used(h) : X(h, n) # NULL =>
       /\ X(h, n) \in Used(h)
       /\ Home(h, X(h, n)) = Home(h, n)
       /\ X(h, n) # Home(h, n)
  /\ \A m, n \in Used(h) : X(h, m) = X(h, n) /\ X(h, m) # NULL => m = n

\* The rank d grows along the links.
RankedBy(h, d) == \A n \in Used(h) : X(h, n) # NULL => d[n] < d[X(h, n)]
Ranked(h) == \E d \in [1 .. Len(h.p) -> Nat] : RankedBy(h, d)

Sound(h) ==
  /\ h \in Tables
  /\ FreeOK(h)
  /\ KeysOnce(h)
  /\ HomesOK(h)
  /\ Followed(h)
  /\ LinksOK(h)
  /\ Ranked(h)

\* The keys in the table with their values.
Entries(h) == {<<K(h, n), V(h, n)>> : n \in Used(h)}

---------------------------------------------------------------------------
(* Induction.  A set of numbers has a least element (WFMin).               *)

\* A set of numbers that is not empty has a least element.
LEMMA Least ==
  ASSUME NEW T, T \subseteq Nat, T # {}
  PROVE  \E x \in T : \A y \in T : x <= y
<1> DEFINE R == {ss \in Nat \X Nat : ss[1] < ss[2]}
<1>1. IsWellFoundedOn(R, Nat)
  BY NatLessThanWellFounded, Zenon DEF OpToRel
<1>2. \E x \in T : \A y \in T : ~(<<y, x>> \in R)
  <2> HIDE DEF R
  <2> QED BY <1>1, WFMin
<1>3. ASSUME NEW x \in Nat, NEW y \in Nat, y < x
      PROVE  <<y, x>> \in R
  BY <1>3
<1>4. \A x, y \in Nat : ~(y < x) => x <= y
  OBVIOUS
<1> HIDE DEF R
<1> QED BY <1>2, <1>3, <1>4

\* Induction over the numbers up to n.
LEMMA Induct ==
  ASSUME NEW n \in Nat, NEW U, 0 \in U, \A i \in 1..n : i - 1 \in U => i \in U
  PROVE  \A i \in 0..n : i \in U
<1> DEFINE T == {i \in 0..n : i \notin U}
<1> SUFFICES ASSUME T # {} PROVE FALSE
  OBVIOUS
<1>1. T \subseteq Nat
  OBVIOUS
<1>2. PICK x \in T : \A y \in T : x <= y
  <2> HIDE DEF T
  <2> QED BY <1>1, Least
<1>3. x \in 1..n /\ x \notin U
  OBVIOUS
<1>4. x - 1 \in U
  BY <1>2, <1>3
<1> QED
  BY <1>3, <1>4

\* The states of a loop that starts with b and whose i-th step is g[i].
Runs(n, b, S, g) == {f \in [0..n -> S] : f[0] = b /\ \A i \in 1..n : f[i] = g[i][f[i - 1]]}
Run(n, b, S, g) == CHOOSE f \in Runs(n, b, S, g) : TRUE

\* A loop that starts in S and whose steps stay in S can be run.
LEMMA Steps ==
  ASSUME NEW n \in Nat, NEW b, NEW S, b \in S, NEW g \in [1..n -> [S -> S]]
  PROVE  Run(n, b, S, g) \in Runs(n, b, S, g)
<1> DEFINE P(k, f) == f[0] = b /\ \A i \in 1..k : f[i] = g[i][f[i - 1]]
           U == {k \in 0..n : \E f \in [0..k -> S] : P(k, f)}
<1>1. 0 \in U
  <2> DEFINE f == [i \in 0..0 |-> b]
  <2>1. f \in [0..0 -> S] /\ P(0, f)
    OBVIOUS
  <2> HIDE DEF f, P
  <2>2. \E h \in [0..0 -> S] : P(0, h)
    BY <2>1
  <2>3. 0 \in 0..n
    OBVIOUS
  <2> QED BY <2>2, <2>3
<1>2. ASSUME NEW k \in 1..n, k - 1 \in U
      PROVE  k \in U
  <2>1. PICK f \in [0..(k - 1) -> S] : P(k - 1, f)
    BY <1>2
  <2> DEFINE h == [i \in 0..k |-> IF i < k THEN f[i] ELSE g[k][f[k - 1]]]
  <2>2. g[k] \in [S -> S] /\ f[k - 1] \in S
    OBVIOUS
  <2>3. h \in [0..k -> S]
    BY <2>2
  <2>4. h[0] = b /\ h[k] = g[k][f[k - 1]] /\ \A i \in 0..(k - 1) : h[i] = f[i]
    BY <2>1
  <2> HIDE DEF h
  <2>5. ASSUME NEW i \in 1..k PROVE h[i] = g[i][h[i - 1]]
    <3>1. CASE i = k
      BY <2>4, <3>1
    <3>2. CASE i # k
      <4>1. i \in 1..(k - 1) /\ i \in 0..(k - 1) /\ i - 1 \in 0..(k - 1)
        BY <3>2
      <4>2. f[i] = g[i][f[i - 1]]
        BY <2>1, <4>1
      <4> QED BY <2>4, <4>1, <4>2
    <3> QED BY <3>1, <3>2
  <2> QED
    BY <2>3, <2>4, <2>5
<1>3. n \in U
  <2> HIDE DEF U
  <2>1. \A i \in 0..n : i \in U
    BY <1>1, <1>2, Induct
  <2>2. n \in 0..n
    OBVIOUS
  <2> QED BY <2>1, <2>2
<1>4. PICK f \in [0..n -> S] : P(n, f)
  BY <1>3
<1>5. f \in Runs(n, b, S, g)
  BY <1>4 DEF Runs
<1> QED
  BY <1>5 DEF Run

\* A loop whose steps stay in S ends in S.
LEMMA Stays ==
  ASSUME NEW n \in Nat, NEW f, NEW S, f[0] \in S,
         \A i \in 1..n : f[i - 1] \in S => f[i] \in S
  PROVE  f[n] \in S
<1> DEFINE U == {i \in 0..n : f[i] \in S}
<1>1. 0 \in U /\ \A i \in 1..n : i - 1 \in U => i \in U
  OBVIOUS
<1> HIDE DEF U
<1>2. n \in U
  BY <1>1, Induct
<1> QED BY <1>2 DEF U

---------------------------------------------------------------------------
(* Tables.                                                                 *)

\* A function on 1 .. n is a sequence of length n.
LEMMA IsSeq ==
  ASSUME NEW S, NEW n \in Nat, NEW f \in [1 .. n -> S]
  PROVE  f \in Seq(S) /\ Len(f) = n
OBVIOUS

\* The parts of a table.
LEMMA TableParts ==
  ASSUME NEW h \in Tables
  PROVE  /\ Len(h.p) \in Nat /\ Len(h.p) > 0 /\ Len(h.free) \in Nat
         /\ h.p \in [1 .. Len(h.p) -> Nodes]
         /\ h.free \in [1 .. Len(h.free) -> Nat]
         /\ h.p \in Seq(Nodes) /\ h.free \in Seq(Nat)
         /\ h = [p |-> h.p, free |-> h.free]
<1>1. h \in [p : Seq(Nodes), free : Seq(Nat)] /\ Len(h.p) > 0
  BY DEF Tables
<1>2. h.p \in Seq(Nodes) /\ h.free \in Seq(Nat) /\ h = [p |-> h.p, free |-> h.free]
  BY <1>1
<1> QED  BY <1>1, <1>2

\* The main position of a key is a node of the table.
LEMMA PosIn ==
  ASSUME NEW h \in Tables, NEW k \in Key
  PROVE  MainPos(h, k) \in 1 .. Len(h.p)
<1>1. Len(h.p) \in Nat /\ Len(h.p) > 0
  BY TableParts
<1>2. Hash[k] \in Nat
  BY HashAssumption
<1>3. Hash[k] % Len(h.p) \in 0 .. (Len(h.p) - 1)
  BY <1>1, <1>2
<1> QED  BY <1>1, <1>3 DEF MainPos

\* The fields of a node.
LEMMA NodeParts ==
  ASSUME NEW h \in Tables, NEW n \in 1 .. Len(h.p)
  PROVE  /\ h.p[n] \in Nodes
         /\ h.p[n] = [key |-> K(h, n), next |-> X(h, n), val |-> V(h, n)]
         /\ K(h, n) \in Key \cup {NULL} /\ X(h, n) \in Nat /\ V(h, n) \in Vals
         /\ n \in Used(h) <=> K(h, n) # NULL
         /\ n \in Used(h) <=> K(h, n) \in Key
<1>1. h.p[n] \in Nodes
  BY TableParts
<1>2. K(h, n) \in Key \cup {NULL} /\ X(h, n) \in Nat /\ V(h, n) \in Vals
      /\ h.p[n] = [key |-> K(h, n), next |-> X(h, n), val |-> V(h, n)]
  BY <1>1 DEF Nodes, K, X, V
<1>3. n \in Used(h) <=> K(h, n) # NULL
  BY DEF Used, K
<1>4. \A k \in Key : k # NULL
  BY HashAssumption DEF NULL
<1> QED  BY <1>1, <1>2, <1>3, <1>4

\* A node in use lies in the table and has a key.
LEMMA UsedIn ==
  ASSUME NEW h \in Tables, NEW n \in Used(h)
  PROVE  n \in 1 .. Len(h.p) /\ n \in Nat /\ n # NULL /\ K(h, n) \in Key /\ Home(h, n) \in 1 .. Len(h.p)
<1>1. n \in 1 .. Len(h.p)
  BY DEF Used
<1>2. K(h, n) \in Key
  BY <1>1, NodeParts
<1>3. Home(h, n) \in 1 .. Len(h.p)
  BY <1>2, PosIn DEF Home
<1> QED  BY <1>1, <1>2, <1>3, TableParts DEF NULL

---------------------------------------------------------------------------
(* The walk along a chain.                                                 *)

\* The walk from pos: where it is after i links.
Walk(h, pos) ==
  CHOOSE at : at = [i \in 0 .. Len(h.p) |->
    IF i = 0 THEN pos ELSE LET n == at[i - 1] IN IF n = NULL THEN NULL ELSE h.p[n].next]

\* The chain is what the walk meets before a free node or NULL.
LEMMA ChainIs ==
  ASSUME NEW h, NEW pos
  PROVE  Chain(h, pos) = {n \in {Walk(h, pos)[i] : i \in 0 .. Len(h.p)} : n # NULL /\ h.p[n].key # NULL}
BY DEF Chain, Walk

\* The walk is what its definition says, and stays in the table.
LEMMA WalkIs ==
  ASSUME NEW h \in Tables, NEW pos \in 1 .. Len(h.p), \A n \in 1 .. Len(h.p) : X(h, n) \in 0 .. Len(h.p)
  PROVE  /\ Walk(h, pos)[0] = pos
         /\ \A i \in 1 .. Len(h.p) : Walk(h, pos)[i - 1] \in 1 .. Len(h.p) =>
               Walk(h, pos)[i] = X(h, Walk(h, pos)[i - 1])
         /\ \A i \in 0 .. Len(h.p) : Walk(h, pos)[i] \in 0 .. Len(h.p)
<1> DEFINE L == Len(h.p)
           S == 0 .. L
           step(x) == IF x = NULL THEN NULL ELSE h.p[x].next
           g == [i \in 1 .. L |-> [x \in S |-> step(x)]]
           w == Walk(h, pos)
<1>1. L \in Nat /\ pos \in S
  BY TableParts
<1>2. \A x \in S : step(x) \in S
  BY <1>1 DEF X, NULL
<1>3. g \in [1 .. L -> [S -> S]]
  <2> HIDE DEF step, S, L
  <2> QED BY <1>2
<1> DEFINE f == Run(L, pos, S, g)
<1>4. f \in [0 .. L -> S] /\ f[0] = pos /\ \A i \in 1 .. L : f[i] = g[i][f[i - 1]]
  <2> HIDE DEF g, L, S
  <2>1. Run(L, pos, S, g) \in Runs(L, pos, S, g)
    BY <1>1, <1>3, Steps
  <2> QED BY <2>1 DEF Runs
<1> HIDE DEF f
<1>5. f = [i \in 0 .. L |-> IF i = 0 THEN pos ELSE LET n == f[i - 1] IN IF n = NULL THEN NULL ELSE h.p[n].next]
  <2>1. ASSUME NEW i \in 0 .. L
        PROVE  f[i] = IF i = 0 THEN pos ELSE LET n == f[i - 1] IN IF n = NULL THEN NULL ELSE h.p[n].next
    <3>1. CASE i = 0
      BY <1>4, <3>1
    <3>2. CASE i # 0
      <4>1. i \in 1 .. L /\ i - 1 \in 0 .. L
        BY <1>1, <3>2
      <4>2. f[i] = g[i][f[i - 1]] /\ f[i - 1] \in S
        BY <1>4, <4>1
      <4>3. f[i] = step(f[i - 1])
        BY <4>1, <4>2
      <4> QED BY <3>2, <4>3
    <3> QED BY <3>1, <3>2
  <2> HIDE DEF L
  <2> QED BY <1>4, <2>1
<1>6. w = [i \in 0 .. L |-> IF i = 0 THEN pos ELSE LET n == w[i - 1] IN IF n = NULL THEN NULL ELSE h.p[n].next]
  <2> HIDE DEF L
  <2> QED BY <1>5 DEF Walk, L
<1> HIDE DEF w
<1>7. w[0] = pos
  BY <1>1, <1>6
<1>8. \A i \in 1 .. L : w[i] = step(w[i - 1])
  <2>1. ASSUME NEW i \in 1 .. L PROVE w[i] = step(w[i - 1])
    <3>1. i \in 0 .. L /\ i # 0
      BY <1>1
    <3>2. w[i] = IF i = 0 THEN pos ELSE LET n == w[i - 1] IN IF n = NULL THEN NULL ELSE h.p[n].next
      <4> HIDE DEF L
      <4> QED BY <1>6, <3>1
    <3> QED BY <3>1, <3>2
  <2> QED BY <2>1
<1>9. \A i \in 0 .. L : w[i] \in S
  <2> DEFINE U == {i \in 0 .. L : w[i] \in S}
  <2>1. 0 \in U
    BY <1>1, <1>7
  <2>2. ASSUME NEW i \in 1 .. L, i - 1 \in U PROVE i \in U
    <3>1. w[i - 1] \in S /\ i \in 0 .. L
      BY <1>1, <2>2
    <3>2. w[i] \in S
      <4> HIDE DEF step, S, L
      <4> QED BY <1>2, <1>8, <3>1
    <3> QED BY <3>1, <3>2
  <2> HIDE DEF U
  <2>3. \A i \in 0 .. L : i \in U
    <3> HIDE DEF L
    <3> QED BY <1>1, <2>1, <2>2, Induct
  <2> QED BY <2>3 DEF U
<1>10. \A i \in 1 .. L : w[i - 1] \in 1 .. L => w[i] = X(h, w[i - 1])
  BY <1>1, <1>8 DEF X, NULL
<1> QED BY <1>7, <1>9, <1>10 DEF w

\* All links of a sound table lead into it.
LEMMA LinksIn ==
  ASSUME NEW h, Sound(h), NEW n \in 1 .. Len(h.p)
  PROVE  X(h, n) \in 0 .. Len(h.p)
<1>1. h \in Tables
  BY DEF Sound
<1>2. Len(h.p) \in Nat
  BY <1>1, TableParts
<1>3. CASE n \in Used(h)
  <2>1. X(h, n) = NULL \/ X(h, n) \in Used(h)
    BY <1>3 DEF Sound, LinksOK
  <2> QED BY <1>1, <1>2, <2>1, UsedIn DEF NULL
<1>4. CASE n \notin Used(h)
  BY <1>2, <1>4 DEF Sound, FreeOK, NULL
<1> QED BY <1>3, <1>4

\* The nodes of a walk are in use.
LEMMA ChainUsed ==
  ASSUME NEW h, Sound(h), NEW k \in Key
  PROVE  Chain(h, MainPos(h, k)) \subseteq Used(h)
<1> DEFINE pos == MainPos(h, k)
<1>1. h \in Tables
  BY DEF Sound
<1>2. Len(h.p) \in Nat /\ pos \in 1 .. Len(h.p)
  BY <1>1, TableParts, PosIn
<1>3. \A i \in 0 .. Len(h.p) : Walk(h, pos)[i] \in 0 .. Len(h.p)
  <2> HIDE DEF pos
  <2> QED BY <1>1, <1>2, LinksIn, WalkIs
<1>4. ASSUME NEW n \in Chain(h, pos) PROVE n \in Used(h)
  <2>1. n \in 0 .. Len(h.p) /\ n # NULL /\ h.p[n].key # NULL
    <3> HIDE DEF pos
    <3> QED BY <1>3, <1>4, ChainIs
  <2> QED BY <1>2, <2>1 DEF Used, NULL
<1> QED BY <1>4

\* The walk from the main position of a key reaches its node.
LEMMA Reached ==
  ASSUME NEW h, Sound(h), NEW n \in Used(h)
  PROVE  n \in Chain(h, Home(h, n))
<1> DEFINE L == Len(h.p)
           w(x) == Walk(h, Home(h, x))
           Way(d, x, i) == /\ w(x)[i] = x
                           /\ \A j \in 0 .. i : w(x)[j] \in Used(h) /\ d[w(x)[j]] <= d[x]
                           /\ \A j, k \in 0 .. i : j < k => d[w(x)[j]] < d[w(x)[k]]
<1>1. h \in Tables /\ LinksOK(h) /\ Followed(h) /\ Ranked(h)
  BY DEF Sound
<1>2. L \in Nat /\ L > 0
  BY <1>1, TableParts
<1>3. PICK d \in [1 .. L -> Nat] : RankedBy(h, d)
  BY <1>1 DEF Ranked
<1>4. \A x \in Used(h) : x \in 1 .. L /\ Home(h, x) \in 1 .. L /\ d[x] \in Nat /\ x # NULL
  BY <1>1, UsedIn
<1>5. \A x \in Used(h) : /\ w(x)[0] = Home(h, x)
                         /\ \A i \in 1 .. L : w(x)[i - 1] \in 1 .. L => w(x)[i] = X(h, w(x)[i - 1])
  BY <1>1, <1>4, LinksIn, WalkIs
<1> HIDE DEF w
<1> DEFINE Bad == {x \in Used(h) : \A i \in 0 .. (L - 1) : ~Way(d, x, i)}
           T == {d[x] : x \in Bad}
<1>6. Bad = {}
  <2> SUFFICES ASSUME Bad # {} PROVE FALSE
    OBVIOUS
  <2>1. T \subseteq Nat /\ T # {}
    BY <1>4
  <2>2. PICK t \in T : \A y \in T : t <= y
    <3> HIDE DEF T
    <3> QED BY <2>1, Least
  <2>3. PICK x \in Bad : \A y \in Bad : d[x] <= d[y]
    BY <2>2
  <2>4. x \in Used(h)
    OBVIOUS
  <2>5. Home(h, x) # x
    <3> SUFFICES ASSUME Home(h, x) = x PROVE FALSE
      OBVIOUS
    <3>1. w(x)[0] = x
      BY <1>5, <2>4
    <3>2. Way(d, x, 0)
      BY <1>4, <2>4, <3>1
    <3> HIDE DEF Way
    <3> QED BY <1>2, <3>2
  <2>6. PICK m \in Used(h) : X(h, m) = x
    BY <1>1, <2>4, <2>5 DEF Followed
  <2>7. Home(h, m) = Home(h, x) /\ d[m] < d[x]
    BY <1>1, <1>3, <1>4, <2>4, <2>6 DEF LinksOK, RankedBy
  <2>8. w(m) = w(x)
    BY <2>7 DEF w
  <2>9. m \notin Bad
    <3> HIDE DEF Bad
    <3> QED BY <1>4, <2>3, <2>4, <2>6, <2>7
  <2>10. PICK i \in 0 .. (L - 1) : Way(d, m, i)
    <3> HIDE DEF Way
    <3> QED BY <2>6, <2>9
  <2>11. i \in Nat /\ i + 1 \in 1 .. L /\ (i + 1) - 1 = i
    BY <1>2
  <2> HIDE DEF Bad, T
  <2>12. w(x)[i + 1] = x
    <3>1. w(x)[i] = m
      BY <2>8, <2>10
    <3>2. m \in 1 .. L
      BY <1>4
    <3>3. w(x)[(i + 1) - 1] \in 1 .. L => w(x)[i + 1] = X(h, w(x)[(i + 1) - 1])
      <4> HIDE DEF L
      <4> QED BY <1>5, <2>4, <2>11
    <3> HIDE DEF L
    <3> QED BY <2>6, <2>11, <3>1, <3>2, <3>3
  <2>13. ASSUME NEW j \in 0 .. (i + 1)
         PROVE  w(x)[j] \in Used(h) /\ d[w(x)[j]] <= d[x] /\ (j # i + 1 => d[w(x)[j]] < d[x])
    <3>1. CASE j = i + 1
      <4>1. d[x] \in Nat /\ w(x)[j] = x
        BY <1>4, <2>4, <2>12, <3>1
      <4> QED BY <2>4, <3>1, <4>1
    <3>2. CASE j # i + 1
      <4>1. j \in 0 .. i
        BY <2>11, <3>2
      <4>2. w(x)[j] \in Used(h) /\ d[w(x)[j]] <= d[m]
        BY <2>8, <2>10, <4>1
      <4>3. d[w(x)[j]] \in Nat /\ d[m] \in Nat /\ d[x] \in Nat
        <5> HIDE DEF L
        <5> QED BY <1>4, <2>4, <4>2
      <4>4. d[w(x)[j]] < d[x]
        BY <2>7, <4>2, <4>3
      <4> QED BY <4>2, <4>3, <4>4
    <3> QED BY <3>1, <3>2
  <2>14. ASSUME NEW j \in 0 .. (i + 1), NEW k \in 0 .. (i + 1), j < k
         PROVE  d[w(x)[j]] < d[w(x)[k]]
    <3>1. CASE k = i + 1
      <4>1. j # i + 1
        BY <2>11, <2>14, <3>1
      <4> QED BY <2>12, <2>13, <3>1, <4>1
    <3>2. CASE k # i + 1
      <4>1. j \in 0 .. i /\ k \in 0 .. i
        BY <2>11, <2>14, <3>2
      <4> QED BY <2>8, <2>10, <2>14, <4>1
    <3> QED BY <3>1, <3>2
  <2>15. Way(d, x, i + 1)
    BY <2>12, <2>13, <2>14
  <2>16. i + 1 \in 0 .. (L - 1)
    <3> DEFINE f == [j \in 0 .. (i + 1) |-> w(x)[j]]
    <3>1. f \in [0 .. (i + 1) -> 1 .. L]
      BY <1>4, <2>13
    <3>2. ASSUME NEW j \in 0 .. (i + 1), NEW k \in 0 .. (i + 1), f[j] = f[k]
          PROVE  j = k
      <4>1. w(x)[j] = w(x)[k] /\ d[w(x)[j]] \in Nat
        BY <1>4, <2>13, <3>2
      <4>2. ~(j < k) /\ ~(k < j)
        BY <2>14, <4>1
      <4> QED BY <2>11, <4>2
    <3>3. IsFiniteSet(0 .. (i + 1)) /\ Cardinality(0 .. (i + 1)) = i + 2
      BY <2>11, FS_Interval
    <3>4. IsFiniteSet(1 .. L) /\ Cardinality(1 .. L) = L
      BY <1>2, FS_Interval
    <3>5. ~(L < i + 2)
      <4> HIDE DEF f, L
      <4>1. SUFFICES ASSUME L < i + 2 PROVE FALSE
        OBVIOUS
      <4>2. Cardinality(1 .. L) < Cardinality(0 .. (i + 1))
        BY <3>3, <3>4, <4>1
      <4>3. \E j, k \in 0 .. (i + 1) : j # k /\ f[j] = f[k]
        BY <3>1, <3>3, <3>4, <4>2, FS_PigeonHole
      <4> QED BY <3>2, <4>3
    <3> QED BY <1>2, <2>11, <3>5
  <2> HIDE DEF Way
  <2> QED BY <2>3, <2>15, <2>16 DEF Bad
<1>7. PICK i \in 0 .. (L - 1) : Way(d, n, i)
  <2> HIDE DEF Way
  <2> QED BY <1>6
<1>8. i \in 0 .. L /\ w(n)[i] = n
  BY <1>2, <1>7
<1>9. n # NULL /\ h.p[n].key # NULL
  BY <1>4 DEF Used
<1> QED BY <1>8, <1>9, ChainIs DEF w

\* s_hash_get finds a key that is in the table, and only such a key.
LEMMA GetIs ==
  ASSUME NEW h, Sound(h), NEW k \in Key
  PROVE  /\ \A n \in Used(h) : K(h, n) = k => Get(h, k) = n
         /\ (\A n \in Used(h) : K(h, n) # k) => Get(h, k) = NULL
<1> DEFINE found == {n \in Chain(h, MainPos(h, k)) : h.p[n].key = k}
<1>1. Get(h, k) = IF found = {} THEN NULL ELSE CHOOSE n \in found : TRUE
  BY DEF Get
<1>2. \A n \in found : n \in Used(h) /\ K(h, n) = k
  BY ChainUsed DEF K
<1>3. ASSUME NEW n \in Used(h), K(h, n) = k PROVE Get(h, k) = n
  <2>1. n \in Chain(h, MainPos(h, k))
    BY <1>3, Reached DEF Home
  <2>2. n \in found
    BY <1>3, <2>1 DEF K
  <2>3. \A m \in found : m = n
    <3> HIDE DEF found
    <3> QED BY <1>2, <1>3 DEF Sound, KeysOnce
  <2> HIDE DEF found
  <2> QED BY <1>1, <2>2, <2>3
<1>4. (\A n \in Used(h) : K(h, n) # k) => found = {}
  <2> HIDE DEF found
  <2> QED BY <1>2
<1> HIDE DEF found
<1> QED BY <1>1, <1>3, <1>4

\* The walk of s_hash_set and s_hash_del ends behind the node that links to n.
LEMMA BeforeIs ==
  ASSUME NEW h, Sound(h), NEW n \in Used(h)
  PROVE  Before(h, Home(h, n), n) = {m \in Used(h) : X(h, m) = n}
<1>1. h \in Tables /\ LinksOK(h)
  BY DEF Sound
<1>2. n # NULL /\ K(h, n) \in Key
  BY <1>1, UsedIn
<1>3. ASSUME NEW m \in Used(h), X(h, m) = n PROVE m \in Chain(h, Home(h, n))
  <2>1. Home(h, m) = Home(h, n)
    BY <1>1, <1>2, <1>3 DEF LinksOK
  <2> QED BY <2>1, Reached
<1>4. Chain(h, Home(h, n)) \subseteq Used(h)
  BY <1>2, ChainUsed DEF Home
<1> QED BY <1>3, <1>4 DEF Before, X

---------------------------------------------------------------------------
(* What the three forms of s_hash_set do to the array.                     *)

\* The assignment to a field of a node.
LEMMA Fields ==
  ASSUME NEW a, NEW b, NEW c, NEW x
  PROVE  LET r == [key |-> a, next |-> b, val |-> c]
         IN /\ [r EXCEPT !.key = x] = [key |-> x, next |-> b, val |-> c]
            /\ [r EXCEPT !.next = x] = [key |-> a, next |-> x, val |-> c]
            /\ [r EXCEPT !.val = x] = [key |-> a, next |-> b, val |-> x]
OBVIOUS

\* The main position is free.
LEMMA PutAtMainPos ==
  ASSUME NEW h \in Tables, NEW k \in Key, NEW v \in Vals,
         MainPos(h, k) \notin Used(h)
  PROVE  LET pos == MainPos(h, k)
         IN Put(h, k, v) =
              [p |-> [n \in 1 .. Len(h.p) |->
                        IF n = pos THEN [key |-> k, next |-> NULL, val |-> v] ELSE h.p[n]],
               free |-> RemoveAt(h.free, CHOOSE i \in DOMAIN h.free : h.free[i] = pos)]
<1> DEFINE L == Len(h.p)
           pos == MainPos(h, k)
           fr == RemoveAt(h.free, CHOOSE i \in DOMAIN h.free : h.free[i] = pos)
           q == [n \in 1 .. L |-> IF n = pos THEN [key |-> k, next |-> NULL, val |-> v] ELSE h.p[n]]
           e == [h.p EXCEPT ![pos].key = k, ![pos].next = NULL]
<1>1. pos \in 1 .. L /\ h.p \in [1 .. L -> Nodes] /\ h.p[pos] \in Nodes
  BY PosIn, TableParts, NodeParts
<1>2. h.p[pos].key = NULL
  BY <1>1, NodeParts DEF K
<1>3. Insert(h, k) = [node |-> pos, table |-> [p |-> e, free |-> fr]]
  BY <1>2 DEF Insert, AtMainPos
<1>4. Put(h, k, v) = [[p |-> e, free |-> fr] EXCEPT !.p[pos].val = v]
  <2> HIDE DEF e, fr, pos
  <2> QED BY <1>3 DEF Put, Store
<1>5. Put(h, k, v) = [p |-> [e EXCEPT ![pos].val = v], free |-> fr]
  <2> HIDE DEF e, fr, pos
  <2> QED BY <1>4
<1> HIDE DEF L, pos, fr
<1>6. [e EXCEPT ![pos].val = v] = q
  <2>1. h.p[pos] = [key |-> K(h, pos), next |-> X(h, pos), val |-> V(h, pos)]
    BY <1>1, NodeParts DEF L
  <2>2. e = [n \in 1 .. L |-> e[n]] /\ \A n \in 1 .. L : n # pos => e[n] = h.p[n]
    BY <1>1
  <2>3. e[pos] = [key |-> k, next |-> NULL, val |-> V(h, pos)]
    <3>1. e[pos] = [[h.p[pos] EXCEPT !.key = k] EXCEPT !.next = NULL]
      BY <1>1
    <3> HIDE DEF e
    <3>2. [h.p[pos] EXCEPT !.key = k] = [key |-> k, next |-> X(h, pos), val |-> V(h, pos)]
      BY <2>1, Fields
    <3> QED BY <3>1, <3>2, Fields
  <2> HIDE DEF e
  <2> DEFINE r == [e EXCEPT ![pos].val = v]
  <2>4. r = [n \in 1 .. L |-> r[n]] /\ \A n \in 1 .. L : n # pos => r[n] = e[n]
    BY <1>1, <2>2
  <2>5. r[pos] = [key |-> k, next |-> NULL, val |-> v]
    BY <1>1, <2>2, <2>3
  <2> HIDE DEF r
  <2>6. \A n \in 1 .. L : r[n] = q[n]
    BY <1>1, <2>2, <2>4, <2>5
  <2>7. r = q
    BY <2>4, <2>6
  <2> QED BY <2>7 DEF r
<1> QED BY <1>5, <1>6 DEF L, pos, fr

\* The main position holds a key of the same chain.
LEMMA PutChained ==
  ASSUME NEW h \in Tables, NEW k \in Key, NEW v \in Vals, h.free # << >>,
         MainPos(h, k) \in Used(h), Home(h, MainPos(h, k)) = MainPos(h, k),
         h.free[1] \in 1 .. Len(h.p), h.free[1] # MainPos(h, k)
  PROVE  LET pos == MainPos(h, k)
             f == h.free[1]
         IN Put(h, k, v) =
              [p |-> [n \in 1 .. Len(h.p) |->
                        IF n = f THEN [key |-> k, next |-> X(h, pos), val |-> v]
                          ELSE IF n = pos THEN [key |-> K(h, pos), next |-> f, val |-> V(h, pos)]
                          ELSE h.p[n]],
               free |-> Tail(h.free)]
<1> DEFINE L == Len(h.p)
           pos == MainPos(h, k)
           f == h.free[1]
           fr == Tail(h.free)
           q == [n \in 1 .. L |-> IF n = f THEN [key |-> k, next |-> X(h, pos), val |-> v]
                                    ELSE IF n = pos THEN [key |-> K(h, pos), next |-> f, val |-> V(h, pos)]
                                    ELSE h.p[n]]
           e == [h.p EXCEPT ![f].key = k, ![f].next = h.p[pos].next, ![pos].next = f]
<1>1. pos \in 1 .. L /\ h.p \in [1 .. L -> Nodes] /\ h.p[pos] \in Nodes /\ f \in 1 .. L /\ h.p[f] \in Nodes
      /\ f # pos
  BY PosIn, TableParts, NodeParts
<1>2. h.p[pos].key # NULL /\ MainPos(h, h.p[pos].key) = pos
  BY <1>1, NodeParts DEF K, Home
<1>3. Insert(h, k) = [node |-> f, table |-> [p |-> e, free |-> fr]]
  <2>1. Head(h.free) = f
    BY TableParts
  <2>2. Insert(h, k) = Chained(h, k)
    BY <1>2 DEF Insert
  <2> QED BY <2>1, <2>2 DEF Chained
<1>4. Put(h, k, v) = [[p |-> e, free |-> fr] EXCEPT !.p[f].val = v]
  <2> HIDE DEF e, fr, f
  <2> QED BY <1>3 DEF Put, Store
<1>5. Put(h, k, v) = [p |-> [e EXCEPT ![f].val = v], free |-> fr]
  <2> HIDE DEF e, fr, f
  <2> QED BY <1>4
<1> HIDE DEF L, pos, fr, f
<1>6. [e EXCEPT ![f].val = v] = q
  <2>1. h.p[pos] = [key |-> K(h, pos), next |-> X(h, pos), val |-> V(h, pos)]
    BY <1>1, NodeParts DEF L
  <2>2. h.p[f] = [key |-> K(h, f), next |-> X(h, f), val |-> V(h, f)]
    BY <1>1, NodeParts DEF L
  <2>3. e = [n \in 1 .. L |-> e[n]] /\ \A n \in 1 .. L : n # f /\ n # pos => e[n] = h.p[n]
    BY <1>1
  <2>4. e[f] = [key |-> k, next |-> X(h, pos), val |-> V(h, f)]
    <3>1. e[f] = [[h.p[f] EXCEPT !.key = k] EXCEPT !.next = X(h, pos)]
      BY <1>1 DEF X
    <3> HIDE DEF e
    <3>2. [h.p[f] EXCEPT !.key = k] = [key |-> k, next |-> X(h, f), val |-> V(h, f)]
      BY <2>2, Fields
    <3> QED BY <3>1, <3>2, Fields
  <2>5. e[pos] = [key |-> K(h, pos), next |-> f, val |-> V(h, pos)]
    <3>1. e[pos] = [h.p[pos] EXCEPT !.next = f]
      BY <1>1
    <3> HIDE DEF e
    <3> QED BY <2>1, <3>1, Fields
  <2> HIDE DEF e
  <2> DEFINE r == [e EXCEPT ![f].val = v]
  <2>6. r = [n \in 1 .. L |-> r[n]] /\ \A n \in 1 .. L : n # f => r[n] = e[n]
    BY <1>1, <2>3
  <2>7. r[f] = [key |-> k, next |-> X(h, pos), val |-> v]
    BY <1>1, <2>3, <2>4
  <2> HIDE DEF r
  <2>8. \A n \in 1 .. L : r[n] = q[n]
    BY <1>1, <2>3, <2>5, <2>6, <2>7
  <2>9. r = q
    BY <2>6, <2>8
  <2> QED BY <2>9 DEF r
<1> QED BY <1>5, <1>6 DEF L, pos, fr, f

\* The main position holds a key of another chain; m is the node whose link
\* leads there.
LEMMA PutMoved ==
  ASSUME NEW h, Sound(h), NEW k \in Key, NEW v \in Vals, h.free # << >>,
         MainPos(h, k) \in Used(h), Home(h, MainPos(h, k)) # MainPos(h, k),
         h.free[1] \in 1 .. Len(h.p), h.free[1] # MainPos(h, k),
         NEW m \in Used(h), X(h, m) = MainPos(h, k), m # MainPos(h, k), m # h.free[1]
  PROVE  LET pos == MainPos(h, k)
             f == h.free[1]
         IN Put(h, k, v) =
              [p |-> [n \in 1 .. Len(h.p) |->
                        IF n = f THEN h.p[pos]
                          ELSE IF n = m THEN [key |-> K(h, m), next |-> f, val |-> V(h, m)]
                          ELSE IF n = pos THEN [key |-> k, next |-> NULL, val |-> v]
                          ELSE h.p[n]],
               free |-> Tail(h.free)]
<1> DEFINE L == Len(h.p)
           pos == MainPos(h, k)
           f == h.free[1]
           fr == Tail(h.free)
           prev == CHOOSE x \in Before(h, MainPos(h, h.p[pos].key), pos) : TRUE
           q == [n \in 1 .. L |-> IF n = f THEN h.p[pos]
                                    ELSE IF n = m THEN [key |-> K(h, m), next |-> f, val |-> V(h, m)]
                                    ELSE IF n = pos THEN [key |-> k, next |-> NULL, val |-> v]
                                    ELSE h.p[n]]
           e == [h.p EXCEPT ![f] = h.p[pos], ![m].next = f, ![pos].key = k, ![pos].next = NULL]
<1>a. h \in Tables /\ LinksOK(h)
  BY DEF Sound
<1>1. pos \in 1 .. L /\ h.p \in [1 .. L -> Nodes] /\ h.p[pos] \in Nodes /\ f \in 1 .. L /\ h.p[f] \in Nodes
      /\ f # pos /\ m \in 1 .. L /\ h.p[m] \in Nodes /\ m # pos /\ m # f
  BY <1>a, PosIn, TableParts, NodeParts, UsedIn
<1>2. h.p[pos].key # NULL /\ MainPos(h, h.p[pos].key) # pos /\ MainPos(h, h.p[pos].key) = Home(h, pos)
  BY <1>a, <1>1, NodeParts DEF K, Home
<1>3. prev = m
  <2>1. Before(h, Home(h, pos), pos) = {x \in Used(h) : X(h, x) = pos}
    BY BeforeIs
  <2>2. pos # NULL
    BY <1>a, UsedIn
  <2>3. Before(h, Home(h, pos), pos) = {m}
    BY <1>a, <2>1, <2>2 DEF LinksOK
  <2> QED BY <1>2, <2>3
<1>4. Insert(h, k) = [node |-> pos, table |-> [p |-> e, free |-> fr]]
  <2>1. Head(h.free) = f
    BY <1>a, TableParts
  <2>2. Insert(h, k) = Moved(h, k)
    BY <1>2 DEF Insert
  <2> QED BY <1>3, <2>1, <2>2 DEF Moved
<1>5. Put(h, k, v) = [[p |-> e, free |-> fr] EXCEPT !.p[pos].val = v]
  <2> HIDE DEF e, fr, pos
  <2> QED BY <1>4 DEF Put, Store
<1>6. Put(h, k, v) = [p |-> [e EXCEPT ![pos].val = v], free |-> fr]
  <2> HIDE DEF e, fr, pos
  <2> QED BY <1>5
<1>7. h.p[m] = [key |-> K(h, m), next |-> X(h, m), val |-> V(h, m)]
  BY <1>a, <1>1, NodeParts DEF L
<1> HIDE DEF L, pos, fr, f
<1>8. [e EXCEPT ![pos].val = v] = q
  <2>1. h.p[pos] = [key |-> K(h, pos), next |-> X(h, pos), val |-> V(h, pos)]
    BY <1>a, <1>1, NodeParts DEF L
  <2>2. e = [n \in 1 .. L |-> e[n]] /\ \A n \in 1 .. L : n # f /\ n # pos /\ n # m => e[n] = h.p[n]
    BY <1>1
  <2>3. e[f] = h.p[pos]
    BY <1>1
  <2>4. e[m] = [key |-> K(h, m), next |-> f, val |-> V(h, m)]
    <3>1. e[m] = [h.p[m] EXCEPT !.next = f]
      BY <1>1
    <3> HIDE DEF e
    <3> QED BY <1>7, <3>1, Fields
  <2>5. e[pos] = [key |-> k, next |-> NULL, val |-> V(h, pos)]
    <3>1. e[pos] = [[h.p[pos] EXCEPT !.key = k] EXCEPT !.next = NULL]
      BY <1>1
    <3> HIDE DEF e
    <3>2. [h.p[pos] EXCEPT !.key = k] = [key |-> k, next |-> X(h, pos), val |-> V(h, pos)]
      BY <2>1, Fields
    <3> QED BY <3>1, <3>2, Fields
  <2> HIDE DEF e
  <2> DEFINE r == [e EXCEPT ![pos].val = v]
  <2>6. r = [n \in 1 .. L |-> r[n]] /\ \A n \in 1 .. L : n # pos => r[n] = e[n]
    BY <1>1, <2>2
  <2>7. r[pos] = [key |-> k, next |-> NULL, val |-> v]
    BY <1>1, <2>2, <2>5
  <2> HIDE DEF r
  <2>8. \A n \in 1 .. L : r[n] = q[n]
    BY <1>1, <2>2, <2>3, <2>4, <2>6, <2>7
  <2>9. r = q
    BY <2>6, <2>8
  <2> QED BY <2>9 DEF r
<1> QED BY <1>6, <1>8 DEF L, pos, fr, f

---------------------------------------------------------------------------
(* The list of free nodes.                                                 *)

\* A list without its i-th element.
Without(s, i, t) ==
  /\ Len(t) = Len(s) - 1
  /\ \A j \in 1 .. Len(t) : t[j] = IF j < i THEN s[j] ELSE s[j + 1]

\* free_node without its first element.
LEMMA TailWithout ==
  ASSUME NEW s \in Seq(Nat), s # << >>
  PROVE  Tail(s) \in Seq(Nat) /\ Without(s, 1, Tail(s)) /\ 1 \in 1 .. Len(s)
<1>1. Tail(s) \in Seq(Nat) /\ Len(Tail(s)) = Len(s) - 1 /\ Len(s) \in Nat /\ Len(s) # 0
      /\ \A j \in 1 .. Len(Tail(s)) : Tail(s)[j] = s[j + 1]
  BY HeadTailProperties, EmptySeq
<1> QED BY <1>1 DEF Without

\* free_node without one of its elements.
LEMMA RemoveAtWithout ==
  ASSUME NEW s \in Seq(Nat), NEW i \in 1 .. Len(s)
  PROVE  RemoveAt(s, i) \in Seq(Nat) /\ Without(s, i, RemoveAt(s, i))
<1> DEFINE a == SubSeq(s, 1, i - 1)
           b == SubSeq(s, i + 1, Len(s))
<1>1. Len(s) \in Nat /\ i \in Nat /\ i >= 1 /\ i <= Len(s)
  OBVIOUS
<1>2. a \in Seq(Nat) /\ Len(a) = i - 1 /\ \A j \in 1 .. (i - 1) : a[j] = s[j]
  BY <1>1
<1>3. b \in Seq(Nat) /\ Len(b) = Len(s) - i /\ \A j \in 1 .. (Len(s) - i) : b[j] = s[j + i]
  BY <1>1
<1>4. RemoveAt(s, i) = a \o b
  BY DEF RemoveAt
<1> HIDE DEF a, b
<1>5. a \o b \in Seq(Nat) /\ Len(a \o b) = Len(s) - 1
  <2>1. a \o b \in Seq(Nat) /\ Len(a \o b) = Len(a) + Len(b)
    BY <1>2, <1>3, ConcatProperties
  <2> QED BY <1>1, <1>2, <1>3, <2>1
<1>6. ASSUME NEW j \in 1 .. (Len(s) - 1)
      PROVE  (a \o b)[j] = IF j < i THEN s[j] ELSE s[j + 1]
  <2>1. CASE j < i
    <3>1. (a \o b)[j] = a[j] /\ a[j] = s[j]
      BY <1>1, <1>2, <1>3, <2>1
    <3> QED BY <2>1, <3>1
  <2>2. CASE ~(j < i)
    <3>1. j - (i - 1) \in 1 .. (Len(s) - i) /\ (j - (i - 1)) + i = j + 1
      BY <1>1, <2>2
    <3>2. (a \o b)[j] = b[j - (i - 1)]
      <4>1. j \in 1 .. (Len(a) + Len(b)) /\ ~(j <= Len(a)) /\ j - Len(a) = j - (i - 1)
        BY <1>1, <1>2, <1>3, <2>2
      <4>2. (a \o b)[j] = IF j <= Len(a) THEN a[j] ELSE b[j - Len(a)]
        BY <1>2, <1>3, <4>1, ConcatProperties
      <4> QED BY <4>1, <4>2
    <3>3. b[j - (i - 1)] = s[j + 1]
      BY <1>3, <3>1
    <3> QED BY <2>2, <3>2, <3>3
  <2> QED BY <2>1, <2>2
<1> QED BY <1>4, <1>5, <1>6 DEF Without

\* A node is taken from the list.
LEMMA FreeLess ==
  ASSUME NEW h \in Tables, NEW g \in Tables, FreeOK(h), Len(g.p) = Len(h.p),
         NEW i \in 1 .. Len(h.free), Without(h.free, i, g.free),
         Used(g) = Used(h) \cup {h.free[i]},
         \A n \in 1 .. Len(h.p) : n \notin Used(g) => X(g, n) = X(h, n)
  PROVE  FreeOK(g)
<1> DEFINE s == h.free
           t == g.free
<1>1. Len(s) \in Nat /\ Len(t) \in Nat /\ i \in Nat /\ i \in 1 .. Len(s)
  BY TableParts
<1>2. Len(t) = Len(s) - 1 /\ \A j \in 1 .. Len(t) : t[j] = IF j < i THEN s[j] ELSE s[j + 1]
  BY DEF Without
<1>3. \A j \in 1 .. Len(t) : \E a \in 1 .. Len(s) : t[j] = s[a] /\ a # i /\ (a = j \/ a = j + 1) /\ (a = j <=> j < i)
  <2> HIDE DEF s, t
  <2>1. ASSUME NEW j \in 1 .. Len(t)
        PROVE  \E a \in 1 .. Len(s) : t[j] = s[a] /\ a # i /\ (a = j \/ a = j + 1) /\ (a = j <=> j < i)
    <3>1. CASE j < i
      <4>1. j \in 1 .. Len(s) /\ t[j] = s[j] /\ j # i
        BY <1>1, <1>2, <3>1
      <4> QED BY <3>1, <4>1
    <3>2. CASE ~(j < i)
      <4>1. j + 1 \in 1 .. Len(s) /\ t[j] = s[j + 1] /\ j + 1 # i /\ j + 1 # j
        BY <1>1, <1>2, <3>2
      <4> QED BY <3>2, <4>1
    <3> QED BY <3>1, <3>2
  <2> QED BY <2>1
<1>4. ASSUME NEW a \in 1 .. Len(t), NEW b \in 1 .. Len(t), t[a] = t[b] PROVE a = b
  <2> HIDE DEF s, t
  <2>1. PICK x \in 1 .. Len(s) : t[a] = s[x] /\ x # i /\ (x = a \/ x = a + 1) /\ (x = a <=> a < i)
    BY <1>3
  <2>2. PICK y \in 1 .. Len(s) : t[b] = s[y] /\ y # i /\ (y = b \/ y = b + 1) /\ (y = b <=> b < i)
    BY <1>3
  <2>3. x = y
    BY <1>4, <2>1, <2>2 DEF FreeOK, s
  <2> QED BY <1>1, <2>1, <2>2, <2>3
<1>5. ASSUME NEW j \in 1 .. Len(t) PROVE t[j] \in 1 .. Len(g.p) /\ t[j] \notin Used(g)
  <2> HIDE DEF s, t
  <2>1. PICK x \in 1 .. Len(s) : t[j] = s[x] /\ x # i
    BY <1>3
  <2>2. s[x] \in 1 .. Len(h.p) /\ s[x] \notin Used(h) /\ s[x] # s[i]
    BY <2>1 DEF FreeOK, s
  <2> QED BY <2>1, <2>2 DEF s
<1>6. ASSUME NEW n \in 1 .. Len(g.p), n \notin Used(g)
      PROVE  X(g, n) = NULL /\ \E j \in 1 .. Len(t) : t[j] = n
  <2>1. PICK x \in 1 .. Len(s) : s[x] = n
    BY <1>6 DEF FreeOK
  <2>2. X(g, n) = NULL
    BY <1>6 DEF FreeOK
  <2>3. x # i
    BY <1>6, <2>1
  <2> HIDE DEF s, t
  <2>4. CASE x < i
    <3>1. x \in 1 .. Len(t) /\ t[x] = s[x]
      BY <1>1, <1>2, <2>4
    <3> QED BY <2>1, <2>2, <3>1
  <2>5. CASE x > i
    <3>1. x - 1 \in 1 .. Len(t) /\ ~(x - 1 < i) /\ (x - 1) + 1 = x
      BY <1>1, <1>2, <2>5
    <3>2. t[x - 1] = s[x]
      BY <1>2, <3>1
    <3> QED BY <2>1, <2>2, <3>1, <3>2
  <2> QED BY <1>1, <2>3, <2>4, <2>5
<1> QED BY <1>4, <1>5, <1>6 DEF FreeOK

\* A node is put at the head of the list.
LEMMA FreeMore ==
  ASSUME NEW h \in Tables, NEW g \in Tables, FreeOK(h), Len(g.p) = Len(h.p),
         NEW q \in Used(h), g.free = <<q>> \o h.free,
         Used(g) = Used(h) \ {q}, X(g, q) = NULL,
         \A n \in 1 .. Len(h.p) : n \notin Used(h) => X(g, n) = X(h, n)
  PROVE  FreeOK(g)
<1> DEFINE s == h.free
           t == g.free
<1>1. Len(s) \in Nat /\ s \in Seq(Nat) /\ q \in Nat /\ q \in 1 .. Len(h.p)
  BY TableParts, UsedIn
<1>2. Len(t) = Len(s) + 1 /\ t[1] = q /\ \A j \in 2 .. Len(t) : t[j] = s[j - 1]
  <2> HIDE DEF s
  <2>1. <<q>> \in Seq(Nat) /\ Len(<<q>>) = 1 /\ <<q>>[1] = q
    BY <1>1
  <2> QED BY <1>1, <2>1 DEF s
<1>3. ASSUME NEW j \in 1 .. Len(t), j # 1 PROVE j - 1 \in 1 .. Len(s) /\ t[j] = s[j - 1] /\ t[j] # q
  <2>1. j - 1 \in 1 .. Len(s) /\ t[j] = s[j - 1]
    BY <1>1, <1>2, <1>3
  <2> QED BY <2>1 DEF FreeOK
<1>4. ASSUME NEW a \in 1 .. Len(t), NEW b \in 1 .. Len(t), t[a] = t[b] PROVE a = b
  <2>1. CASE a = 1 \/ b = 1
    <3> HIDE DEF s, t
    <3> QED BY <1>2, <1>3, <1>4, <2>1
  <2>2. CASE a # 1 /\ b # 1
    <3>1. a - 1 \in 1 .. Len(s) /\ b - 1 \in 1 .. Len(s) /\ s[a - 1] = s[b - 1]
      <4> HIDE DEF s, t
      <4> QED BY <1>3, <1>4, <2>2
    <3>2. a - 1 = b - 1
      BY <3>1 DEF FreeOK
    <3> QED BY <1>1, <1>2, <3>2
  <2> QED BY <2>1, <2>2
<1>5. ASSUME NEW j \in 1 .. Len(t) PROVE t[j] \in 1 .. Len(g.p) /\ t[j] \notin Used(g)
  BY <1>1, <1>2, <1>3 DEF FreeOK
<1>6. ASSUME NEW n \in 1 .. Len(g.p), n \notin Used(g)
      PROVE  X(g, n) = NULL /\ \E j \in 1 .. Len(t) : t[j] = n
  <2>1. CASE n = q
    <3>1. 1 \in 1 .. Len(t)
      BY <1>1, <1>2
    <3> QED BY <1>2, <2>1, <3>1
  <2>2. CASE n # q
    <3>1. n \notin Used(h)
      BY <1>6, <2>2
    <3>2. PICK x \in 1 .. Len(s) : s[x] = n
      BY <3>1 DEF FreeOK
    <3>3. x + 1 \in 1 .. Len(t) /\ x + 1 # 1 /\ (x + 1) - 1 = x
      BY <1>1, <1>2
    <3>4. t[x + 1] = n
      <4> HIDE DEF t, s
      <4> QED BY <1>3, <3>2, <3>3
    <3> QED BY <3>1, <3>3, <3>4 DEF FreeOK
  <2> QED BY <2>1, <2>2
<1> QED BY <1>4, <1>5, <1>6 DEF FreeOK

---------------------------------------------------------------------------
(* The chains.                                                             *)

\* A node of g has the key and the link that it has in h.
Same(h, g, n) == K(g, n) = K(h, n) /\ X(g, n) = X(h, n)

\* A table of the same length has the same main positions.
LEMMA SamePos ==
  ASSUME NEW h, NEW g, Len(g.p) = Len(h.p), NEW k
  PROVE  MainPos(g, k) = MainPos(h, k)
BY DEF MainPos

\* The nodes in use are those with a key.
LEMMA UsedIff ==
  ASSUME NEW h, NEW n
  PROVE  n \in Used(h) <=> n \in 1 .. Len(h.p) /\ K(h, n) # NULL
BY DEF Used, K

\* What is known of a sound table.
LEMMA SoundFacts ==
  ASSUME NEW h, Sound(h)
  PROVE  /\ \A n \in Used(h) : n # NULL /\ n \in 1 .. Len(h.p) /\ Home(h, n) \in Used(h)
                               /\ Home(h, Home(h, n)) = Home(h, n)
         /\ \A n \in Used(h) : X(h, n) # NULL =>
              X(h, n) \in Used(h) /\ X(h, n) # n /\ Home(h, X(h, n)) = Home(h, n) /\ X(h, n) # Home(h, n)
                /\ Home(h, X(h, n)) # X(h, n)
         /\ \A m, n \in Used(h) : X(h, m) = X(h, n) /\ X(h, m) # NULL => m = n
         /\ \A n \in Used(h) : Home(h, n) # n => \E m \in Used(h) : X(h, m) = n
         /\ \A m, n \in Used(h) : K(h, m) = K(h, n) => m = n
<1>1. h \in Tables /\ LinksOK(h) /\ HomesOK(h) /\ Followed(h) /\ KeysOnce(h)
  BY DEF Sound
<1>2. PICK d \in [1 .. Len(h.p) -> Nat] : RankedBy(h, d)
  BY DEF Sound, Ranked
<1>3. \A n \in Used(h) : n # NULL /\ n \in 1 .. Len(h.p) /\ d[n] \in Nat
  BY <1>1, UsedIn
<1>4. \A n \in Used(h) : X(h, n) # NULL => X(h, n) # n
  BY <1>2, <1>3 DEF RankedBy
<1> QED BY <1>1, <1>3, <1>4 DEF LinksOK, HomesOK, Followed, KeysOnce

\* A new key at its main position, which is free.
LEMMA SoundAtMainPos ==
  ASSUME NEW h, Sound(h), NEW g \in Tables, Len(g.p) = Len(h.p), FreeOK(g),
         NEW k \in Key, \A n \in Used(h) : K(h, n) # k,
         NEW pos, pos = MainPos(h, k), pos \notin Used(h),
         K(g, pos) = k, X(g, pos) = NULL,
         \A n \in 1 .. Len(h.p) : n # pos => Same(h, g, n)
  PROVE  Sound(g)
<1> DEFINE U == Used(h)
<1>1. h \in Tables /\ pos \in 1 .. Len(h.p) /\ k # NULL
  BY PosIn, HashAssumption DEF Sound, NULL
<1>2. Used(g) = U \cup {pos}
  BY <1>1, UsedIff DEF Same
<1>3. /\ \A n \in U : Same(h, g, n) /\ Home(g, n) = Home(h, n) /\ n # pos
      /\ Home(g, pos) = pos
  BY <1>1, SamePos, SoundFacts DEF Home, Same
<1>4. KeysOnce(g)
  BY <1>2, <1>3, SoundFacts DEF KeysOnce, Same
<1>5. HomesOK(g)
  BY <1>2, <1>3, SoundFacts DEF HomesOK
<1>6. Followed(g)
  BY <1>2, <1>3, SoundFacts DEF Followed, Same
<1>7. LinksOK(g)
  BY <1>2, <1>3, SoundFacts DEF LinksOK, Same
<1>8. Ranked(g)
  <2>1. PICK d \in [1 .. Len(h.p) -> Nat] : RankedBy(h, d)
    BY DEF Sound, Ranked
  <2>2. RankedBy(g, d)
    BY <1>2, <1>3, <2>1 DEF RankedBy, Same
  <2> QED BY <2>2 DEF Ranked
<1> QED BY <1>4, <1>5, <1>6, <1>7, <1>8 DEF Sound

\* A new key behind the one at its main position.
LEMMA SoundChained ==
  ASSUME NEW h, Sound(h), NEW g \in Tables, Len(g.p) = Len(h.p), FreeOK(g),
         NEW k \in Key, \A n \in Used(h) : K(h, n) # k,
         NEW pos \in Used(h), pos = MainPos(h, k), Home(h, pos) = pos,
         NEW f \in 1 .. Len(h.p), f \notin Used(h),
         K(g, f) = k, X(g, f) = X(h, pos),
         K(g, pos) = K(h, pos), X(g, pos) = f,
         \A n \in 1 .. Len(h.p) : n # pos /\ n # f => Same(h, g, n)
  PROVE  Sound(g)
<1> DEFINE U == Used(h)
           L == Len(h.p)
<1>1. h \in Tables /\ L \in Nat /\ k # NULL /\ f # NULL
  BY TableParts, HashAssumption DEF Sound, NULL
<1>2. Used(g) = U \cup {f}
  BY <1>1, UsedIff DEF Same
<1>3. /\ \A n \in U : K(g, n) = K(h, n) /\ Home(g, n) = Home(h, n) /\ n # f
      /\ \A n \in U : n # pos => X(g, n) = X(h, n)
      /\ Home(g, f) = pos
  BY <1>1, SamePos, SoundFacts DEF Home, Same
<1>4. KeysOnce(g)
  BY <1>2, <1>3, SoundFacts DEF KeysOnce
<1>5. HomesOK(g)
  BY <1>2, <1>3, SoundFacts DEF HomesOK
<1>6. Followed(g)
  <2>1. ASSUME NEW n \in Used(g), Home(g, n) # n PROVE \E m \in Used(g) : X(g, m) = n
    <3>1. CASE n = f
      BY <1>2, <3>1
    <3>2. CASE n # f
      <4>1. PICK m \in U : X(h, m) = n
        BY <1>2, <1>3, <2>1, <3>2, SoundFacts
      <4> QED BY <1>2, <1>3, <4>1
    <3> QED BY <3>1, <3>2
  <2> QED BY <2>1 DEF Followed
<1>7. LinksOK(g)
  <2>1. ASSUME NEW n \in Used(g), X(g, n) # NULL
        PROVE  X(g, n) \in Used(g) /\ Home(g, X(g, n)) = Home(g, n) /\ X(g, n) # Home(g, n)
    BY <1>2, <1>3, <2>1, SoundFacts
  <2>2. ASSUME NEW m \in Used(g), NEW n \in Used(g), X(g, m) = X(g, n), X(g, m) # NULL PROVE m = n
    BY <1>2, <1>3, <2>2, SoundFacts
  <2> QED BY <2>1, <2>2 DEF LinksOK
<1>8. Ranked(g)
  <2>1. PICK d \in [1 .. L -> Nat] : RankedBy(h, d)
    BY DEF Sound, Ranked
  <2>2. \A n \in U : d[n] \in Nat
    BY SoundFacts
  <2> DEFINE c == [n \in 1 .. L |-> IF n = f THEN d[pos] + 1
                                    ELSE IF n \in U /\ Home(h, n) = pos /\ n # pos THEN d[n] + 1 ELSE d[n]]
  <2>3. c \in [1 .. L -> Nat]
    BY <2>2
  <2>4. /\ c[f] = d[pos] + 1 /\ c[pos] = d[pos]
        /\ \A n \in U : n # pos => c[n] = IF Home(h, n) = pos THEN d[n] + 1 ELSE d[n]
    BY <1>3, SoundFacts
  <2> HIDE DEF c
  <2>5. ASSUME NEW n \in Used(g), X(g, n) # NULL PROVE c[n] < c[X(g, n)]
    <3>1. CASE n = f
      <4>1. X(h, pos) \in U /\ X(h, pos) # pos /\ Home(h, X(h, pos)) = pos /\ d[pos] < d[X(h, pos)]
        BY <2>1, <2>5, <3>1, SoundFacts DEF RankedBy
      <4>2. c[X(h, pos)] = d[X(h, pos)] + 1 /\ d[X(h, pos)] \in Nat /\ d[pos] \in Nat
        BY <2>2, <2>4, <4>1
      <4> QED BY <2>4, <3>1, <4>1, <4>2
    <3>2. CASE n = pos
      BY <2>2, <2>4, <3>2
    <3>3. CASE n # f /\ n # pos
      <4>1. n \in U /\ X(g, n) = X(h, n)
        BY <1>2, <1>3, <3>3
      <4>2. X(h, n) \in U /\ Home(h, X(h, n)) = Home(h, n) /\ X(h, n) # Home(h, n)
        BY <2>5, <4>1, SoundFacts
      <4>3. d[n] < d[X(h, n)]
        BY <2>1, <2>5, <4>1 DEF RankedBy
      <4>4. X(h, n) # pos
        BY <4>2
      <4>5. c[n] = (IF Home(h, n) = pos THEN d[n] + 1 ELSE d[n])
            /\ c[X(h, n)] = IF Home(h, n) = pos THEN d[X(h, n)] + 1 ELSE d[X(h, n)]
        BY <2>4, <3>3, <4>1, <4>2, <4>4
      <4> QED BY <2>2, <4>1, <4>2, <4>3, <4>5
    <3> QED BY <3>1, <3>2, <3>3
  <2> QED BY <2>3, <2>5 DEF Ranked, RankedBy
<1> QED BY <1>4, <1>5, <1>6, <1>7, <1>8 DEF Sound

\* A new key takes the place of one of another chain, which moves to f.
LEMMA SoundMoved ==
  ASSUME NEW h, Sound(h), NEW g \in Tables, Len(g.p) = Len(h.p), FreeOK(g),
         NEW k \in Key, \A n \in Used(h) : K(h, n) # k,
         NEW pos \in Used(h), pos = MainPos(h, k), Home(h, pos) # pos,
         NEW f \in 1 .. Len(h.p), f \notin Used(h),
         NEW m \in Used(h), X(h, m) = pos,
         K(g, f) = K(h, pos), X(g, f) = X(h, pos),
         K(g, m) = K(h, m), X(g, m) = f,
         K(g, pos) = k, X(g, pos) = NULL,
         \A n \in 1 .. Len(h.p) : n # pos /\ n # f /\ n # m => Same(h, g, n)
  PROVE  Sound(g)
<1> DEFINE U == Used(h)
           L == Len(h.p)
<1>1. h \in Tables /\ L \in Nat /\ k # NULL /\ f # NULL /\ pos # NULL /\ m # pos /\ m # f /\ f # pos
  BY TableParts, HashAssumption, SoundFacts DEF Sound, NULL
<1>2. Used(g) = U \cup {f}
  BY <1>1, UsedIff DEF Same
<1>3. /\ \A n \in U : n # pos => K(g, n) = K(h, n) /\ Home(g, n) = Home(h, n)
      /\ \A n \in U : n # pos /\ n # m => X(g, n) = X(h, n)
      /\ \A n \in U : n # f
      /\ Home(g, f) = Home(h, pos) /\ Home(g, pos) = pos
  BY <1>1, SamePos, SoundFacts DEF Home, Same
<1>4. /\ \A n \in U : Home(h, n) # pos
      /\ \A n \in U : n # m => X(h, n) # pos
      /\ X(h, pos) # f
  BY <1>1, SoundFacts
<1>5. KeysOnce(g)
  BY <1>1, <1>2, <1>3, SoundFacts DEF KeysOnce
<1>6. HomesOK(g)
  <2>1. ASSUME NEW n \in Used(g) PROVE Home(g, n) \in Used(g) /\ Home(g, Home(g, n)) = Home(g, n)
    <3>1. CASE n = f
      <4>1. Home(g, n) = Home(h, pos) /\ Home(h, pos) \in U /\ Home(h, Home(h, pos)) = Home(h, pos)
        BY <1>3, <3>1, SoundFacts
      <4> QED BY <1>2, <1>3, <4>1
    <3>2. CASE n = pos
      BY <1>2, <1>3, <3>2
    <3>3. CASE n # f /\ n # pos
      <4>1. n \in U /\ Home(g, n) = Home(h, n) /\ Home(h, n) \in U /\ Home(h, Home(h, n)) = Home(h, n)
        BY <1>2, <1>3, <3>3, SoundFacts
      <4> QED BY <1>2, <1>3, <1>4, <4>1
    <3> QED BY <3>1, <3>2, <3>3
  <2> QED BY <2>1 DEF HomesOK
<1>7. Followed(g)
  <2>1. ASSUME NEW n \in Used(g), Home(g, n) # n PROVE \E y \in Used(g) : X(g, y) = n
    <3>1. CASE n = f
      BY <1>2, <3>1
    <3>2. CASE n # f
      <4>1. n \in U /\ n # pos /\ Home(h, n) # n
        BY <1>2, <1>3, <2>1, <3>2
      <4>2. PICK y \in U : X(h, y) = n
        BY <4>1, SoundFacts
      <4>3. y # m
        BY <4>1, <4>2
      <4>4. CASE y = pos
        BY <1>2, <4>2, <4>4
      <4>5. CASE y # pos
        BY <1>2, <1>3, <4>2, <4>3, <4>5
      <4> QED BY <4>4, <4>5
    <3> QED BY <3>1, <3>2
  <2> QED BY <2>1 DEF Followed
<1>8. LinksOK(g)
  <2>1. ASSUME NEW n \in Used(g), X(g, n) # NULL
        PROVE  X(g, n) \in Used(g) /\ Home(g, X(g, n)) = Home(g, n) /\ X(g, n) # Home(g, n)
    <3>1. CASE n = f
      <4>1. X(h, pos) \in U /\ X(h, pos) # pos /\ Home(h, X(h, pos)) = Home(h, pos) /\ X(h, pos) # Home(h, pos)
        BY <2>1, <3>1, SoundFacts
      <4> QED BY <1>2, <1>3, <3>1, <4>1
    <3>2. CASE n = m
      <4>1. Home(h, m) = Home(h, pos)
        BY <1>1, SoundFacts
      <4>2. Home(h, m) # f
        BY <1>3, SoundFacts
      <4> QED BY <1>1, <1>2, <1>3, <3>2, <4>1, <4>2
    <3>3. CASE n # f /\ n # m
      <4>1. n \in U /\ n # pos /\ X(g, n) = X(h, n) /\ Home(g, n) = Home(h, n)
        BY <1>2, <1>3, <2>1, <3>3
      <4>2. X(h, n) \in U /\ X(h, n) # pos /\ Home(h, X(h, n)) = Home(h, n) /\ X(h, n) # Home(h, n)
        BY <1>4, <2>1, <3>3, <4>1, SoundFacts
      <4> QED BY <1>2, <1>3, <4>1, <4>2
    <3> QED BY <3>1, <3>2, <3>3
  <2>2. ASSUME NEW y \in Used(g), NEW n \in Used(g), X(g, y) = X(g, n), X(g, y) # NULL PROVE y = n
    <3>1. \A x \in U : X(h, x) # f
      BY <1>1, <1>3, SoundFacts
    <3>2. \A x \in U : x # m => X(g, x) # f
      BY <1>1, <1>3, <3>1
    <3>3. X(g, f) # f
      BY <3>1
    <3> QED BY <1>1, <1>2, <1>3, <2>2, <3>2, <3>3, SoundFacts
  <2> QED BY <2>1, <2>2 DEF LinksOK
<1>9. Ranked(g)
  <2>1. PICK d \in [1 .. L -> Nat] : RankedBy(h, d)
    BY DEF Sound, Ranked
  <2> DEFINE c == [d EXCEPT ![f] = d[pos]]
  <2>2. c \in [1 .. L -> Nat] /\ c[f] = d[pos] /\ \A n \in U : c[n] = d[n]
    BY <1>3, SoundFacts
  <2> HIDE DEF c
  <2>3. ASSUME NEW n \in Used(g), X(g, n) # NULL PROVE c[n] < c[X(g, n)]
    <3>1. CASE n = f
      BY <2>1, <2>2, <2>3, <3>1, SoundFacts DEF RankedBy
    <3>2. CASE n = m
      BY <1>1, <2>1, <2>2, <3>2 DEF RankedBy
    <3>3. CASE n # f /\ n # m
      <4>1. n \in U /\ X(g, n) = X(h, n) /\ X(h, n) \in U
        BY <1>2, <1>3, <2>3, <3>3, SoundFacts
      <4> QED BY <2>1, <2>2, <2>3, <4>1 DEF RankedBy
    <3> QED BY <3>1, <3>2, <3>3
  <2> QED BY <2>2, <2>3 DEF Ranked, RankedBy
<1> QED BY <1>5, <1>6, <1>7, <1>8, <1>9 DEF Sound

\* A node behind another one leaves its chain.
LEMMA SoundCut ==
  ASSUME NEW h, Sound(h), NEW g \in Tables, Len(g.p) = Len(h.p), FreeOK(g),
         NEW n \in Used(h), NEW m \in Used(h), X(h, m) = n,
         K(g, n) = NULL,
         K(g, m) = K(h, m), X(g, m) = X(h, n),
         \A y \in 1 .. Len(h.p) : y # n /\ y # m => Same(h, g, y)
  PROVE  Sound(g)
<1> DEFINE U == Used(h)
<1>1. h \in Tables /\ n # NULL /\ m # n /\ Home(h, n) = Home(h, m)
  BY SoundFacts DEF Sound
<1>2. Used(g) = U \ {n}
  BY <1>1, UsedIff DEF Same
<1>3. /\ \A y \in U : y # n => K(g, y) = K(h, y) /\ Home(g, y) = Home(h, y)
      /\ \A y \in U : y # n /\ y # m => X(g, y) = X(h, y)
  <2>1. /\ \A y \in U : y # n => K(g, y) = K(h, y)
        /\ \A y \in U : y # n /\ y # m => X(g, y) = X(h, y)
    BY <1>1, SoundFacts DEF Same
  <2>2. \A y \in U : y # n => Home(g, y) = Home(h, y)
    BY <2>1, SamePos DEF Home
  <2> QED BY <2>1, <2>2
<1>4. \A y \in U : Home(h, y) # n
  BY <1>1, SoundFacts
<1>5. KeysOnce(g)
  BY <1>2, <1>3, SoundFacts DEF KeysOnce
<1>6. HomesOK(g)
  <2>1. ASSUME NEW y \in Used(g) PROVE Home(g, y) \in Used(g) /\ Home(g, Home(g, y)) = Home(g, y)
    <3>1. Home(g, y) = Home(h, y) /\ Home(h, y) \in U /\ Home(h, y) # n /\ Home(h, Home(h, y)) = Home(h, y)
      BY <1>2, <1>3, <1>4, SoundFacts
    <3> QED BY <1>2, <1>3, <3>1
  <2> QED BY <2>1 DEF HomesOK
<1>7. Followed(g)
  <2>1. ASSUME NEW y \in Used(g), Home(g, y) # y PROVE \E x \in Used(g) : X(g, x) = y
    <3>1. PICK x \in U : X(h, x) = y
      BY <1>2, <1>3, <2>1, SoundFacts
    <3>2. CASE x = n
      BY <1>1, <1>2, <3>1, <3>2
    <3>3. CASE x # n
      <4>1. x # m
        BY <1>2, <3>1
      <4> QED BY <1>2, <1>3, <3>1, <3>3, <4>1
    <3> QED BY <3>2, <3>3
  <2> QED BY <2>1 DEF Followed
<1>8. LinksOK(g)
  <2>1. ASSUME NEW y \in Used(g), X(g, y) # NULL
        PROVE  X(g, y) \in Used(g) /\ Home(g, X(g, y)) = Home(g, y) /\ X(g, y) # Home(g, y)
    <3>1. CASE y = m
      <4>1. X(h, n) \in U /\ X(h, n) # n /\ Home(h, X(h, n)) = Home(h, n) /\ X(h, n) # Home(h, n)
        BY <2>1, <3>1, SoundFacts
      <4> QED BY <1>1, <1>2, <1>3, <3>1, <4>1
    <3>2. CASE y # m
      <4>1. y \in U /\ y # n /\ X(g, y) = X(h, y) /\ Home(g, y) = Home(h, y)
        BY <1>2, <1>3, <3>2
      <4>2. X(h, y) \in U /\ X(h, y) # n /\ Home(h, X(h, y)) = Home(h, y) /\ X(h, y) # Home(h, y)
        BY <1>1, <2>1, <3>2, <4>1, SoundFacts
      <4> QED BY <1>2, <1>3, <4>1, <4>2
    <3> QED BY <3>1, <3>2
  <2>2. ASSUME NEW y \in Used(g), NEW z \in Used(g), X(g, y) = X(g, z), X(g, y) # NULL PROVE y = z
    BY <1>2, <1>3, <2>2, SoundFacts
  <2> QED BY <2>1, <2>2 DEF LinksOK
<1>9. Ranked(g)
  <2>1. PICK d \in [1 .. Len(h.p) -> Nat] : RankedBy(h, d)
    BY DEF Sound, Ranked
  <2>2. \A y \in U : d[y] \in Nat
    BY SoundFacts
  <2>3. ASSUME NEW y \in Used(g), X(g, y) # NULL PROVE d[y] < d[X(g, y)]
    <3>1. CASE y = m
      <4>1. X(h, n) \in U /\ d[n] < d[X(h, n)] /\ d[m] < d[n]
        BY <1>1, <2>1, <2>3, <3>1, SoundFacts DEF RankedBy
      <4> QED BY <2>2, <3>1, <4>1
    <3>2. CASE y # m
      BY <1>2, <1>3, <2>1, <2>3, <3>2 DEF RankedBy
    <3> QED BY <3>1, <3>2
  <2> QED BY <2>3 DEF Ranked, RankedBy
<1> QED BY <1>5, <1>6, <1>7, <1>8, <1>9 DEF Sound

\* The first node of a chain leaves it and the second one takes its place.
LEMMA SoundFirst ==
  ASSUME NEW h, Sound(h), NEW g \in Tables, Len(g.p) = Len(h.p), FreeOK(g),
         NEW n \in Used(h), \A m \in Used(h) : X(h, m) # n,
         NEW s, s = X(h, n), s # NULL,
         K(g, n) = K(h, s), X(g, n) = X(h, s), K(g, s) = NULL,
         \A y \in 1 .. Len(h.p) : y # n /\ y # s => Same(h, g, y)
  PROVE  Sound(g)
<1> DEFINE U == Used(h)
<1>1. h \in Tables /\ s \in U /\ s # n /\ Home(h, n) = n /\ Home(h, s) = n /\ K(h, s) # NULL
  BY SoundFacts, UsedIff DEF Sound
<1>2. Used(g) = U \ {s}
  BY <1>1, UsedIff DEF Same
<1>3. /\ \A y \in U : y # n /\ y # s => K(g, y) = K(h, y) /\ X(g, y) = X(h, y)
      /\ \A y \in U : y # s => Home(g, y) = Home(h, y)
  <2>1. \A y \in U : y # n /\ y # s => K(g, y) = K(h, y) /\ X(g, y) = X(h, y)
    BY SoundFacts DEF Same
  <2>2. Home(g, n) = n
    BY <1>1, SamePos DEF Home
  <2>3. \A y \in U : y # n /\ y # s => Home(g, y) = Home(h, y)
    BY <2>1, SamePos DEF Home
  <2> QED BY <1>1, <2>1, <2>2, <2>3
<1>4. /\ \A y \in U : Home(h, y) # s
      /\ \A y \in U : y # n => X(h, y) # s
  BY <1>1, SoundFacts
<1>5. KeysOnce(g)
  <2>1. ASSUME NEW y \in Used(g), NEW z \in Used(g), K(g, y) = K(g, z) PROVE y = z
    <3>1. \A x \in U : x # s => K(h, x) # K(h, s)
      BY <1>1, SoundFacts
    <3> QED BY <1>2, <1>3, <2>1, <3>1, SoundFacts
  <2> QED BY <2>1 DEF KeysOnce
<1>6. HomesOK(g)
  <2>1. ASSUME NEW y \in Used(g) PROVE Home(g, y) \in Used(g) /\ Home(g, Home(g, y)) = Home(g, y)
    <3>1. Home(g, y) = Home(h, y) /\ Home(h, y) \in U /\ Home(h, y) # s /\ Home(h, Home(h, y)) = Home(h, y)
      BY <1>2, <1>3, <1>4, SoundFacts
    <3> QED BY <1>2, <1>3, <3>1
  <2> QED BY <2>1 DEF HomesOK
<1>7. Followed(g)
  <2>1. ASSUME NEW y \in Used(g), Home(g, y) # y PROVE \E x \in Used(g) : X(g, x) = y
    <3>1. y \in U /\ y # s /\ y # n
      BY <1>1, <1>2, <1>3, <2>1
    <3>2. PICK x \in U : X(h, x) = y
      BY <1>3, <2>1, <3>1, SoundFacts
    <3>3. CASE x = s
      BY <1>1, <1>2, <3>2, <3>3
    <3>4. CASE x # s
      <4>1. x # n
        BY <3>1, <3>2
      <4> QED BY <1>2, <1>3, <3>2, <3>4, <4>1
    <3> QED BY <3>3, <3>4
  <2> QED BY <2>1 DEF Followed
<1>8. LinksOK(g)
  <2>1. ASSUME NEW y \in Used(g), X(g, y) # NULL
        PROVE  X(g, y) \in Used(g) /\ Home(g, X(g, y)) = Home(g, y) /\ X(g, y) # Home(g, y)
    <3>1. CASE y = n
      <4>1. X(h, s) \in U /\ X(h, s) # s /\ Home(h, X(h, s)) = Home(h, s) /\ X(h, s) # Home(h, s)
        BY <1>1, <2>1, <3>1, SoundFacts
      <4> QED BY <1>1, <1>2, <1>3, <3>1, <4>1
    <3>2. CASE y # n
      <4>1. y \in U /\ y # s /\ X(g, y) = X(h, y) /\ Home(g, y) = Home(h, y)
        BY <1>2, <1>3, <3>2
      <4>2. X(h, y) \in U /\ X(h, y) # s /\ Home(h, X(h, y)) = Home(h, y) /\ X(h, y) # Home(h, y)
        BY <1>4, <2>1, <3>2, <4>1, SoundFacts
      <4> QED BY <1>2, <1>3, <4>1, <4>2
    <3> QED BY <3>1, <3>2
  <2>2. ASSUME NEW y \in Used(g), NEW z \in Used(g), X(g, y) = X(g, z), X(g, y) # NULL PROVE y = z
    BY <1>1, <1>2, <1>3, <2>2, SoundFacts
  <2> QED BY <2>1, <2>2 DEF LinksOK
<1>9. Ranked(g)
  <2>1. PICK d \in [1 .. Len(h.p) -> Nat] : RankedBy(h, d)
    BY DEF Sound, Ranked
  <2>2. \A y \in U : d[y] \in Nat
    BY SoundFacts
  <2>3. ASSUME NEW y \in Used(g), X(g, y) # NULL PROVE d[y] < d[X(g, y)]
    <3>1. CASE y = n
      <4>1. X(h, s) \in U /\ d[s] < d[X(h, s)] /\ d[n] < d[s]
        BY <1>1, <2>1, <2>3, <3>1, SoundFacts DEF RankedBy
      <4> QED BY <1>1, <2>2, <3>1, <4>1
    <3>2. CASE y # n
      BY <1>2, <1>3, <2>1, <2>3, <3>2 DEF RankedBy
    <3> QED BY <3>1, <3>2
  <2> QED BY <2>3 DEF Ranked, RankedBy
<1> QED BY <1>5, <1>6, <1>7, <1>8, <1>9 DEF Sound

\* The only node of a chain leaves it.
LEMMA SoundLast ==
  ASSUME NEW h, Sound(h), NEW g \in Tables, Len(g.p) = Len(h.p), FreeOK(g),
         NEW n \in Used(h), \A m \in Used(h) : X(h, m) # n, X(h, n) = NULL,
         K(g, n) = NULL,
         \A y \in 1 .. Len(h.p) : y # n => Same(h, g, y)
  PROVE  Sound(g)
<1> DEFINE U == Used(h)
<1>1. h \in Tables /\ Home(h, n) = n
  BY SoundFacts DEF Sound
<1>2. Used(g) = U \ {n}
  BY <1>1, UsedIff DEF Same
<1>3. \A y \in U : y # n => K(g, y) = K(h, y) /\ X(g, y) = X(h, y) /\ Home(g, y) = Home(h, y)
  BY SamePos, SoundFacts DEF Home, Same
<1>4. PICK d \in [1 .. Len(h.p) -> Nat] : RankedBy(h, d)
  BY DEF Sound, Ranked
<1>5. \A y \in U : y # n => Home(h, y) # n
  <2> DEFINE B == {y \in U : y # n /\ Home(h, y) = n}
             T == {d[y] : y \in B}
  <2> SUFFICES ASSUME B # {} PROVE FALSE
    OBVIOUS
  <2>1. \A y \in U : d[y] \in Nat
    BY <1>4, SoundFacts
  <2>2. T \subseteq Nat /\ T # {}
    BY <2>1
  <2>3. PICK t \in T : \A x \in T : t <= x
    <3> HIDE DEF T
    <3> QED BY <2>2, Least
  <2>4. PICK y \in B : \A x \in B : d[y] <= d[x]
    BY <2>3
  <2>5. PICK m \in U : X(h, m) = y
    BY <2>4, SoundFacts
  <2>6. m # n /\ Home(h, m) = n /\ d[m] < d[y]
    BY <1>4, <2>4, <2>5, SoundFacts DEF RankedBy
  <2>7. m \in B
    BY <2>6
  <2> QED BY <2>1, <2>4, <2>6, <2>7
<1>6. KeysOnce(g)
  BY <1>2, <1>3, SoundFacts DEF KeysOnce
<1>7. HomesOK(g)
  <2>1. ASSUME NEW y \in Used(g) PROVE Home(g, y) \in Used(g) /\ Home(g, Home(g, y)) = Home(g, y)
    <3>1. Home(g, y) = Home(h, y) /\ Home(h, y) \in U /\ Home(h, y) # n /\ Home(h, Home(h, y)) = Home(h, y)
      BY <1>2, <1>3, <1>5, SoundFacts
    <3> QED BY <1>2, <1>3, <3>1
  <2> QED BY <2>1 DEF HomesOK
<1>8. Followed(g)
  <2>1. ASSUME NEW y \in Used(g), Home(g, y) # y PROVE \E x \in Used(g) : X(g, x) = y
    <3>1. PICK x \in U : X(h, x) = y
      BY <1>2, <1>3, <2>1, SoundFacts
    <3>2. x # n
      BY <1>2, <3>1, SoundFacts
    <3> QED BY <1>2, <1>3, <3>1, <3>2
  <2> QED BY <2>1 DEF Followed
<1>9. LinksOK(g)
  BY <1>2, <1>3, SoundFacts DEF LinksOK
<1>10. Ranked(g)
  <2>1. RankedBy(g, d)
    BY <1>2, <1>3, <1>4 DEF RankedBy
  <2> QED BY <2>1 DEF Ranked
<1> QED BY <1>6, <1>7, <1>8, <1>9, <1>10 DEF Sound

---------------------------------------------------------------------------
(* The operations.                                                         *)

\* A table that is put together from an array and a list.
LEMMA Made ==
  ASSUME NEW h \in Tables, NEW q \in [1 .. Len(h.p) -> Nodes], NEW fr \in Seq(Nat),
         NEW g, g = [p |-> q, free |-> fr]
  PROVE  /\ g \in Tables /\ Len(g.p) = Len(h.p) /\ g.p = q /\ g.free = fr
         /\ \A n \in 1 .. Len(h.p) : K(g, n) = q[n].key /\ X(g, n) = q[n].next /\ V(g, n) = q[n].val
<1>1. Len(h.p) \in Nat /\ Len(h.p) > 0
  BY TableParts
<1>2. q \in Seq(Nodes) /\ Len(q) = Len(h.p)
  BY <1>1, IsSeq
<1>3. g \in [p : Seq(Nodes), free : Seq(Nat)] /\ g.p = q /\ g.free = fr
  BY <1>2
<1> QED BY <1>1, <1>2, <1>3 DEF Tables, K, X, V

\* A free node is a node.
LEMMA NullNode == NULL \in Vals /\ NULL \in Nat /\ FreeNode \in Nodes
BY DEF NULL, FreeNode, Nodes, Vals

\* s_hash_set of a new key when a node is free: the table stays sound, holds the
\* key with its value, and has lost one free node.
LEMMA PutSound ==
  ASSUME NEW h, Sound(h), NEW k \in Key, NEW v \in Vals, h.free # << >>,
         \A n \in Used(h) : K(h, n) # k
  PROVE  LET g == Put(h, k, v)
         IN /\ Sound(g)
            /\ Entries(g) = Entries(h) \cup {<<k, v>>}
            /\ Len(g.p) = Len(h.p)
            /\ Len(g.free) = Len(h.free) - 1
<1> DEFINE L == Len(h.p)
           pos == MainPos(h, k)
           f == h.free[1]
           g == Put(h, k, v)
           U == Used(h)
<1>1. h \in Tables /\ FreeOK(h)
  BY DEF Sound
<1>2. pos \in 1 .. L /\ L \in Nat /\ h.free \in Seq(Nat) /\ h.p \in [1 .. L -> Nodes]
  BY <1>1, PosIn, TableParts
<1>3. 1 \in 1 .. Len(h.free) /\ Tail(h.free) \in Seq(Nat) /\ Without(h.free, 1, Tail(h.free))
  BY <1>2, TailWithout
<1>4. f \in 1 .. L /\ f \notin U /\ f \in Nat
  BY <1>1, <1>2, <1>3 DEF FreeOK
<1>5. k # NULL
  BY HashAssumption DEF NULL
<1>6. \A n \in 1 .. L : h.p[n] = [key |-> K(h, n), next |-> X(h, n), val |-> V(h, n)]
                        /\ K(h, n) \in Key \cup {NULL} /\ X(h, n) \in Nat /\ V(h, n) \in Vals
  BY <1>1, NodeParts
<1>a. \A n : h.p[n].key = K(h, n) /\ h.p[n].next = X(h, n) /\ h.p[n].val = V(h, n)
  BY DEF K, X, V
<1>7. CASE pos \notin U
  <2> DEFINE i == CHOOSE i \in DOMAIN h.free : h.free[i] = pos
             fr == RemoveAt(h.free, i)
             q == [n \in 1 .. L |-> IF n = pos THEN [key |-> k, next |-> NULL, val |-> v] ELSE h.p[n]]
  <2>1. i \in 1 .. Len(h.free) /\ h.free[i] = pos
    <3>1. \E j \in 1 .. Len(h.free) : h.free[j] = pos
      BY <1>1, <1>2, <1>7 DEF FreeOK
    <3>2. DOMAIN h.free = 1 .. Len(h.free)
      BY <1>2
    <3> QED BY <3>1, <3>2
  <2>2. fr \in Seq(Nat) /\ Without(h.free, i, fr)
    <3> HIDE DEF i
    <3> QED BY <1>2, <2>1, RemoveAtWithout
  <2>3. g = [p |-> q, free |-> fr]
    BY <1>1, <1>7, PutAtMainPos
  <2>4. q \in [1 .. L -> Nodes]
    BY <1>2, <1>6, NullNode DEF Nodes
  <2>5. \A n \in 1 .. L : n # pos => q[n] = h.p[n]
    OBVIOUS
  <2>6. q[pos] = [key |-> k, next |-> NULL, val |-> v]
    BY <1>2
  <2> HIDE DEF q, fr, i, g, pos, L
  <2>7. g \in Tables /\ Len(g.p) = L /\ g.free = fr
        /\ \A n \in 1 .. L : K(g, n) = q[n].key /\ X(g, n) = q[n].next /\ V(g, n) = q[n].val
    BY <1>1, <2>2, <2>3, <2>4, Made DEF L
  <2>8. /\ K(g, pos) = k /\ X(g, pos) = NULL /\ V(g, pos) = v
        /\ \A n \in 1 .. L : n # pos => Same(h, g, n) /\ V(g, n) = V(h, n)
    <3>1. \A n \in 1 .. L : n # pos => K(g, n) = K(h, n) /\ X(g, n) = X(h, n) /\ V(g, n) = V(h, n)
      BY <1>a, <2>5, <2>7
    <3>2. K(g, pos) = k /\ X(g, pos) = NULL /\ V(g, pos) = v
      BY <1>2, <2>6, <2>7
    <3> QED BY <3>1, <3>2 DEF Same
  <2>9. Used(g) = U \cup {pos}
    BY <1>2, <1>5, <2>7, <2>8, UsedIff DEF Same, L
  <2>10. FreeOK(g)
    BY <1>1, <2>1, <2>2, <2>7, <2>8, <2>9, FreeLess DEF Same, L
  <2>11. Sound(g)
    BY <1>7, <2>7, <2>8, <2>10, SoundAtMainPos DEF L, pos
  <2>12. Entries(g) = Entries(h) \cup {<<k, v>>}
    <3>1. \A n \in U : n \in 1 .. L /\ n # pos
      BY <1>7, UsedIff DEF L
    <3> QED BY <2>8, <2>9, <3>1 DEF Entries, Same
  <2>13. Len(g.free) = Len(h.free) - 1
    BY <2>2, <2>7 DEF Without
  <2> QED BY <2>7, <2>11, <2>12, <2>13 DEF g, L
<1>8. CASE pos \in U /\ Home(h, pos) = pos
  <2> DEFINE q == [n \in 1 .. L |->
                     IF n = f THEN [key |-> k, next |-> X(h, pos), val |-> v]
                     ELSE IF n = pos THEN [key |-> K(h, pos), next |-> f, val |-> V(h, pos)]
                     ELSE h.p[n]]
             fr == Tail(h.free)
  <2>1. f # pos
    BY <1>4, <1>8
  <2>2. g = [p |-> q, free |-> fr]
    BY <1>1, <1>4, <1>8, <2>1, PutChained
  <2>3. q \in [1 .. L -> Nodes]
    BY <1>2, <1>4, <1>6 DEF Nodes
  <2>4. /\ \A n \in 1 .. L : n # f /\ n # pos => q[n] = h.p[n]
        /\ q[f] = [key |-> k, next |-> X(h, pos), val |-> v]
        /\ q[pos] = [key |-> K(h, pos), next |-> f, val |-> V(h, pos)]
    BY <1>2, <1>4, <2>1
  <2> HIDE DEF q, g, pos, L, f
  <2>5. g \in Tables /\ Len(g.p) = L /\ g.free = fr
        /\ \A n \in 1 .. L : K(g, n) = q[n].key /\ X(g, n) = q[n].next /\ V(g, n) = q[n].val
    <3>1. fr \in Seq(Nat)
      BY <1>3
    <3> HIDE DEF fr
    <3> QED BY <1>1, <2>2, <2>3, <3>1, Made DEF L
  <2>6. /\ K(g, f) = k /\ X(g, f) = X(h, pos) /\ V(g, f) = v
        /\ K(g, pos) = K(h, pos) /\ X(g, pos) = f /\ V(g, pos) = V(h, pos)
        /\ \A n \in 1 .. L : n # f /\ n # pos => Same(h, g, n) /\ V(g, n) = V(h, n)
    <3>1. \A n \in 1 .. L : n # f /\ n # pos => K(g, n) = K(h, n) /\ X(g, n) = X(h, n) /\ V(g, n) = V(h, n)
      BY <1>a, <2>4, <2>5
    <3>2. K(g, f) = k /\ X(g, f) = X(h, pos) /\ V(g, f) = v
      BY <1>4, <2>4, <2>5
    <3>3. K(g, pos) = K(h, pos) /\ X(g, pos) = f /\ V(g, pos) = V(h, pos)
      BY <1>2, <2>4, <2>5
    <3> QED BY <3>1, <3>2, <3>3 DEF Same
  <2>7. Used(g) = U \cup {f}
    BY <1>2, <1>4, <1>5, <1>8, <2>5, <2>6, UsedIff DEF Same, L
  <2>8. FreeOK(g)
    <3>1. \A n \in 1 .. L : n \notin Used(g) => X(g, n) = X(h, n)
      BY <1>8, <2>6, <2>7 DEF Same
    <3> QED BY <1>1, <1>3, <2>5, <2>7, <3>1, FreeLess DEF L, f
  <2>9. Sound(g)
    BY <1>4, <1>8, <2>5, <2>6, <2>8, SoundChained DEF L, pos
  <2>10. Entries(g) = Entries(h) \cup {<<k, v>>}
    <3>1. \A n \in U : n \in 1 .. L /\ n # f
      BY <1>4, UsedIff DEF L
    <3>2. \A n \in U : K(g, n) = K(h, n) /\ V(g, n) = V(h, n)
      BY <2>6, <3>1 DEF Same
    <3> QED BY <2>6, <2>7, <3>2 DEF Entries
  <2>11. Len(g.free) = Len(h.free) - 1
    BY <1>3, <2>5 DEF Without
  <2> QED BY <2>5, <2>9, <2>10, <2>11 DEF g, L
<1>9. CASE pos \in U /\ Home(h, pos) # pos
  <2>1. PICK m \in U : X(h, m) = pos
    BY <1>9, SoundFacts
  <2> DEFINE q == [n \in 1 .. L |->
                     IF n = f THEN h.p[pos]
                     ELSE IF n = m THEN [key |-> K(h, m), next |-> f, val |-> V(h, m)]
                     ELSE IF n = pos THEN [key |-> k, next |-> NULL, val |-> v]
                     ELSE h.p[n]]
             fr == Tail(h.free)
  <2>2. f # pos /\ f # m /\ m # pos /\ m \in 1 .. L
    <3>1. m # pos /\ m \in 1 .. L
      BY <2>1, <1>9, SoundFacts
    <3> QED BY <1>4, <1>9, <3>1
  <2>3. g = [p |-> q, free |-> fr]
    BY <1>4, <1>9, <2>1, <2>2, PutMoved
  <2>4. q \in [1 .. L -> Nodes]
    BY <1>2, <1>4, <1>6, <2>2, NullNode DEF Nodes
  <2>5. /\ \A n \in 1 .. L : n # f /\ n # pos /\ n # m => q[n] = h.p[n]
        /\ q[f] = h.p[pos]
        /\ q[m] = [key |-> K(h, m), next |-> f, val |-> V(h, m)]
        /\ q[pos] = [key |-> k, next |-> NULL, val |-> v]
    BY <1>2, <1>4, <2>2
  <2> HIDE DEF q, g, pos, L, f
  <2>6. g \in Tables /\ Len(g.p) = L /\ g.free = fr
        /\ \A n \in 1 .. L : K(g, n) = q[n].key /\ X(g, n) = q[n].next /\ V(g, n) = q[n].val
    <3>1. fr \in Seq(Nat)
      BY <1>3
    <3> HIDE DEF fr
    <3> QED BY <1>1, <2>3, <2>4, <3>1, Made DEF L
  <2>7. /\ K(g, f) = K(h, pos) /\ X(g, f) = X(h, pos) /\ V(g, f) = V(h, pos)
        /\ K(g, m) = K(h, m) /\ X(g, m) = f /\ V(g, m) = V(h, m)
        /\ K(g, pos) = k /\ X(g, pos) = NULL /\ V(g, pos) = v
        /\ \A n \in 1 .. L : n # f /\ n # pos /\ n # m => Same(h, g, n) /\ V(g, n) = V(h, n)
    <3>1. \A n \in 1 .. L : n # f /\ n # pos /\ n # m =>
            K(g, n) = K(h, n) /\ X(g, n) = X(h, n) /\ V(g, n) = V(h, n)
      BY <1>a, <2>5, <2>6
    <3>2. K(g, f) = K(h, pos) /\ X(g, f) = X(h, pos) /\ V(g, f) = V(h, pos)
      BY <1>a, <1>4, <2>5, <2>6
    <3>3. K(g, m) = K(h, m) /\ X(g, m) = f /\ V(g, m) = V(h, m)
      BY <2>2, <2>5, <2>6
    <3>4. K(g, pos) = k /\ X(g, pos) = NULL /\ V(g, pos) = v
      BY <1>2, <2>5, <2>6
    <3> QED BY <3>1, <3>2, <3>3, <3>4 DEF Same
  <2>8. Used(g) = U \cup {f}
    BY <1>2, <1>4, <1>5, <1>9, <2>1, <2>2, <2>6, <2>7, UsedIff DEF Same, L
  <2>9. FreeOK(g)
    <3>1. \A n \in 1 .. L : n \notin Used(g) => X(g, n) = X(h, n)
      BY <1>9, <2>1, <2>7, <2>8 DEF Same
    <3> QED BY <1>1, <1>3, <2>6, <2>8, <3>1, FreeLess DEF L, f
  <2>10. Sound(g)
    BY <1>4, <1>9, <2>1, <2>6, <2>7, <2>9, SoundMoved DEF L, pos
  <2>11. Entries(g) = Entries(h) \cup {<<k, v>>}
    <3>1. \A n \in U : n \in 1 .. L /\ n # f
      BY <1>4, UsedIff DEF L
    <3>2. \A n \in U : n # pos => K(g, n) = K(h, n) /\ V(g, n) = V(h, n)
      BY <2>7, <3>1 DEF Same
    <3>3. \A e \in Entries(g) : e \in Entries(h) \cup {<<k, v>>}
      BY <1>9, <2>7, <2>8, <3>2 DEF Entries
    <3>4. \A e \in Entries(h) : e \in Entries(g)
      BY <1>9, <2>7, <2>8, <3>2 DEF Entries
    <3>5. <<k, v>> \in Entries(g)
      BY <1>9, <2>7, <2>8 DEF Entries
    <3> QED BY <3>3, <3>4, <3>5
  <2>12. Len(g.free) = Len(h.free) - 1
    BY <1>3, <2>6 DEF Without
  <2> QED BY <2>6, <2>10, <2>11, <2>12 DEF g, L
<1> QED BY <1>7, <1>8, <1>9

\* The entries of a sound table without those of a key.
LEMMA EntriesBut ==
  ASSUME NEW h, Sound(h), NEW n \in Used(h)
  PROVE  {e \in Entries(h) : e[1] # K(h, n)} = {<<K(h, y), V(h, y)>> : y \in Used(h) \ {n}}
<1>1. \A y \in Used(h) : y # n => K(h, y) # K(h, n)
  BY SoundFacts
<1>2. ASSUME NEW e \in Entries(h), e[1] # K(h, n)
      PROVE  e \in {<<K(h, y), V(h, y)>> : y \in Used(h) \ {n}}
  BY <1>2 DEF Entries
<1>3. ASSUME NEW y \in Used(h) \ {n}
      PROVE  <<K(h, y), V(h, y)>> \in Entries(h) /\ <<K(h, y), V(h, y)>>[1] # K(h, n)
  BY <1>1 DEF Entries
<1> QED BY <1>2, <1>3

\* s_hash_del of a key that is in the table.
LEMMA RemovedSound ==
  ASSUME NEW h, Sound(h), NEW n \in Used(h)
  PROVE  LET g == Removed(h, n, Before(h, Home(h, n), n))
         IN /\ Sound(g)
            /\ Entries(g) = {e \in Entries(h) : e[1] # K(h, n)}
<1> DEFINE L == Len(h.p)
           U == Used(h)
           prev == Before(h, Home(h, n), n)
           g == Removed(h, n, prev)
           next == X(h, n)
<1>1. h \in Tables /\ FreeOK(h)
  BY DEF Sound
<1>2. L \in Nat /\ h.free \in Seq(Nat) /\ h.p \in [1 .. L -> Nodes] /\ n \in 1 .. L /\ n \in Nat /\ n # NULL
  BY <1>1, UsedIn, TableParts
<1>3. prev = {m \in U : X(h, m) = n}
  BY BeforeIs
<1>4. \A y : h.p[y].key = K(h, y) /\ h.p[y].next = X(h, y) /\ h.p[y].val = V(h, y)
  BY DEF K, X, V
<1>5. \A y \in 1 .. L : h.p[y] \in Nodes /\ h.p[y] = [key |-> K(h, y), next |-> X(h, y), val |-> V(h, y)]
                        /\ K(h, y) \in Key \cup {NULL} /\ X(h, y) \in Nat /\ V(h, y) \in Vals
  BY <1>1, NodeParts
<1>6. \A y \in U : y \in 1 .. L /\ y \in Nat /\ <<y>> \o h.free \in Seq(Nat)
  <2>1. ASSUME NEW y \in U PROVE y \in 1 .. L /\ y \in Nat
    BY <1>1, UsedIn
  <2>2. ASSUME NEW y \in Nat PROVE <<y>> \o h.free \in Seq(Nat)
    <3>1. <<y>> \in Seq(Nat)
      OBVIOUS
    <3> QED BY <1>2, <3>1, ConcatProperties
  <2> QED BY <2>1, <2>2
<1>7. FreeNode.key = NULL /\ FreeNode.next = NULL
  BY DEF FreeNode
<1>8. CASE prev # {}
  <2>1. PICK m \in U : X(h, m) = n
    BY <1>3, <1>8
  <2>2. prev = {m}
    <3>1. \A y \in U : X(h, y) = n => y = m
      BY <1>2, <2>1, SoundFacts
    <3> HIDE DEF prev
    <3> QED BY <1>3, <2>1, <3>1
  <2>3. m # n /\ m \in 1 .. L /\ Home(h, n) = Home(h, m)
    BY <1>2, <2>1, SoundFacts
  <2> DEFINE q == [h.p EXCEPT ![m].next = h.p[n].next, ![n] = FreeNode]
             fr == <<n>> \o h.free
  <2>4. g = [p |-> q, free |-> fr]
    <3>1. (CHOOSE y \in prev : TRUE) = m
      BY <2>2
    <3> HIDE DEF prev
    <3> QED BY <1>8, <3>1 DEF Removed
  <2>5. /\ q = [y \in 1 .. L |-> q[y]] /\ q[n] = FreeNode
        /\ \A y \in 1 .. L : y # n /\ y # m => q[y] = h.p[y]
    BY <1>2, <2>3
  <2>6. q[m] = [key |-> K(h, m), next |-> X(h, n), val |-> V(h, m)]
    <3>1. q[m] = [h.p[m] EXCEPT !.next = X(h, n)]
      BY <1>2, <1>4, <2>3
    <3>2. h.p[m] = [key |-> K(h, m), next |-> X(h, m), val |-> V(h, m)]
      BY <1>1, <2>3, NodeParts
    <3> HIDE DEF q
    <3> QED BY <3>1, <3>2, Fields
  <2> HIDE DEF q, g, prev
  <2>7. q \in [1 .. L -> Nodes]
    <3>1. q[m] \in Nodes
      <4>1. K(h, m) \in Key \cup {NULL} /\ X(h, n) \in Nat /\ V(h, m) \in Vals
        BY <1>1, <1>2, <2>3, NodeParts
      <4> QED BY <2>6, <4>1 DEF Nodes
    <3>2. \A y \in 1 .. L : q[y] \in Nodes
      BY <1>5, <2>5, <3>1, NullNode
    <3> QED BY <2>5, <3>2
  <2>8. fr \in Seq(Nat)
    BY <1>6
  <2> HIDE DEF fr
  <2>9. g \in Tables /\ Len(g.p) = L /\ g.free = fr
        /\ \A y \in 1 .. L : K(g, y) = q[y].key /\ X(g, y) = q[y].next /\ V(g, y) = q[y].val
    BY <1>1, <2>4, <2>7, <2>8, Made DEF L
  <2>10. /\ K(g, n) = NULL /\ X(g, n) = NULL
         /\ K(g, m) = K(h, m) /\ X(g, m) = X(h, n) /\ V(g, m) = V(h, m)
         /\ \A y \in 1 .. L : y # n /\ y # m => K(g, y) = K(h, y) /\ X(g, y) = X(h, y) /\ V(g, y) = V(h, y)
    <3>1. K(g, n) = NULL /\ X(g, n) = NULL
      BY <1>2, <1>7, <2>5, <2>9
    <3>2. K(g, m) = K(h, m) /\ X(g, m) = X(h, n) /\ V(g, m) = V(h, m)
      BY <2>3, <2>6, <2>9
    <3>3. \A y \in 1 .. L : y # n /\ y # m => K(g, y) = K(h, y) /\ X(g, y) = X(h, y) /\ V(g, y) = V(h, y)
      BY <1>4, <2>5, <2>9
    <3> QED BY <3>1, <3>2, <3>3
  <2>11. Used(g) = U \ {n}
    BY <2>9, <2>10, UsedIff DEF L
  <2>12. FreeOK(g)
    BY <1>1, <2>1, <2>9, <2>10, <2>11, FreeMore DEF L, fr
  <2>13. Sound(g)
    BY <2>1, <2>9, <2>10, <2>12, SoundCut DEF L, Same
  <2>14. Entries(g) = {<<K(h, y), V(h, y)>> : y \in U \ {n}}
    <3>1. \A y \in U \ {n} : K(g, y) = K(h, y) /\ V(g, y) = V(h, y)
      BY <1>6, <2>10
    <3> QED BY <2>11, <3>1 DEF Entries
  <2> QED BY <2>13, <2>14, EntriesBut DEF g, prev
<1>9. CASE prev = {} /\ next # NULL
  <2>1. \A m \in U : X(h, m) # n
    BY <1>3, <1>9
  <2>2. next \in U /\ next # n /\ next \in 1 .. L
    BY <1>9, SoundFacts
  <2> DEFINE q == [h.p EXCEPT ![n] = h.p[next], ![next] = FreeNode]
             fr == <<next>> \o h.free
  <2>3. g = [p |-> q, free |-> fr]
    <3> HIDE DEF prev
    <3> QED BY <1>4, <1>9 DEF Removed
  <2>4. /\ q = [y \in 1 .. L |-> q[y]] /\ q[n] = h.p[next] /\ q[next] = FreeNode
        /\ \A y \in 1 .. L : y # n /\ y # next => q[y] = h.p[y]
    <3> HIDE DEF next
    <3> QED BY <1>2, <2>2
  <2> HIDE DEF q, g, prev, next
  <2>5. q \in [1 .. L -> Nodes]
    <3>1. \A y \in 1 .. L : q[y] \in Nodes
      BY <1>5, <2>2, <2>4, NullNode
    <3> QED BY <2>4, <3>1
  <2>6. fr \in Seq(Nat)
    BY <1>6, <2>2
  <2> HIDE DEF fr
  <2>7. g \in Tables /\ Len(g.p) = L /\ g.free = fr
        /\ \A y \in 1 .. L : K(g, y) = q[y].key /\ X(g, y) = q[y].next /\ V(g, y) = q[y].val
    BY <1>1, <2>3, <2>5, <2>6, Made DEF L
  <2>8. /\ K(g, next) = NULL /\ X(g, next) = NULL
        /\ K(g, n) = K(h, next) /\ X(g, n) = X(h, next) /\ V(g, n) = V(h, next)
        /\ \A y \in 1 .. L : y # n /\ y # next => K(g, y) = K(h, y) /\ X(g, y) = X(h, y) /\ V(g, y) = V(h, y)
    BY <1>2, <1>4, <1>7, <2>2, <2>4, <2>7
  <2>9. Used(g) = U \ {next}
    <3>1. K(h, next) # NULL
      BY <2>2, UsedIff
    <3> QED BY <1>2, <2>7, <2>8, <3>1, UsedIff DEF L
  <2>10. FreeOK(g)
    BY <1>1, <2>2, <2>7, <2>8, <2>9, FreeMore DEF L, fr
  <2>11. Sound(g)
    BY <1>9, <2>1, <2>7, <2>8, <2>10, SoundFirst DEF L, Same, next
  <2>12. Entries(g) = {<<K(h, y), V(h, y)>> : y \in U \ {n}}
    <3>1. \A y \in U \ {n} : y # next => K(g, y) = K(h, y) /\ V(g, y) = V(h, y)
      BY <1>6, <2>8
    <3>2. \A e \in Entries(g) : e \in {<<K(h, y), V(h, y)>> : y \in U \ {n}}
      BY <2>2, <2>8, <2>9, <3>1 DEF Entries
    <3>3. ASSUME NEW y \in U \ {n} PROVE <<K(h, y), V(h, y)>> \in Entries(g)
      BY <2>2, <2>8, <2>9, <3>1 DEF Entries
    <3> QED BY <3>2, <3>3
  <2> QED BY <2>11, <2>12, EntriesBut DEF g, prev
<1>10. CASE prev = {} /\ next = NULL
  <2>1. \A m \in U : X(h, m) # n
    BY <1>3, <1>10
  <2> DEFINE q == [h.p EXCEPT ![n] = FreeNode]
             fr == <<n>> \o h.free
  <2>2. g = [p |-> q, free |-> fr]
    <3> HIDE DEF prev
    <3> QED BY <1>4, <1>10 DEF Removed
  <2>3. q = [y \in 1 .. L |-> q[y]] /\ q[n] = FreeNode /\ \A y \in 1 .. L : y # n => q[y] = h.p[y]
    BY <1>2
  <2> HIDE DEF q, g, prev
  <2>4. q \in [1 .. L -> Nodes]
    <3>1. \A y \in 1 .. L : q[y] \in Nodes
      BY <1>5, <2>3, NullNode
    <3> QED BY <2>3, <3>1
  <2>5. fr \in Seq(Nat)
    BY <1>6
  <2> HIDE DEF fr
  <2>6. g \in Tables /\ Len(g.p) = L /\ g.free = fr
        /\ \A y \in 1 .. L : K(g, y) = q[y].key /\ X(g, y) = q[y].next /\ V(g, y) = q[y].val
    BY <1>1, <2>2, <2>4, <2>5, Made DEF L
  <2>7. /\ K(g, n) = NULL /\ X(g, n) = NULL
        /\ \A y \in 1 .. L : y # n => K(g, y) = K(h, y) /\ X(g, y) = X(h, y) /\ V(g, y) = V(h, y)
    BY <1>2, <1>4, <1>7, <2>3, <2>6
  <2>8. Used(g) = U \ {n}
    BY <2>6, <2>7, UsedIff DEF L
  <2>9. FreeOK(g)
    <3>1. \A y \in 1 .. L : y \notin U => X(g, y) = X(h, y)
      BY <2>7
    <3> QED BY <1>1, <2>6, <2>7, <2>8, <3>1, FreeMore DEF L, fr
  <2>10. Sound(g)
    BY <1>10, <2>1, <2>6, <2>7, <2>9, SoundLast DEF L, Same
  <2>11. Entries(g) = {<<K(h, y), V(h, y)>> : y \in U \ {n}}
    <3>1. \A y \in U \ {n} : K(g, y) = K(h, y) /\ V(g, y) = V(h, y)
      BY <1>6, <2>7
    <3> QED BY <2>8, <3>1 DEF Entries
  <2> QED BY <2>10, <2>11, EntriesBut DEF g, prev
<1> QED BY <1>8, <1>9, <1>10

\* The caller's assignment to the value of a key that is in the table.
LEMMA StoreSound ==
  ASSUME NEW h, Sound(h), NEW n \in Used(h), NEW v \in Vals
  PROVE  LET g == Store(h, n, v)
         IN /\ Sound(g)
            /\ Entries(g) = {e \in Entries(h) : e[1] # K(h, n)} \cup {<<K(h, n), v>>}
<1> DEFINE L == Len(h.p)
           U == Used(h)
           q == [h.p EXCEPT ![n].val = v]
           g == Store(h, n, v)
<1>1. h \in Tables /\ h.free \in Seq(Nat) /\ h.p \in [1 .. L -> Nodes] /\ n \in 1 .. L
      /\ h = [p |-> h.p, free |-> h.free]
  <2>1. h \in Tables
    BY DEF Sound
  <2> QED BY <2>1, UsedIn, TableParts
<1>2. g = [p |-> q, free |-> h.free]
  <2>1. g = [h EXCEPT !.p = q]
    BY DEF Store
  <2> HIDE DEF g, q
  <2> QED BY <1>1, <2>1
<1>3. \A y : h.p[y].key = K(h, y) /\ h.p[y].next = X(h, y) /\ h.p[y].val = V(h, y)
  BY DEF K, X, V
<1>4. \A y \in 1 .. L : h.p[y] \in Nodes /\ h.p[y] = [key |-> K(h, y), next |-> X(h, y), val |-> V(h, y)]
                        /\ K(h, y) \in Key \cup {NULL} /\ X(h, y) \in Nat
  BY <1>1, NodeParts
<1>5. q = [y \in 1 .. L |-> q[y]] /\ \A y \in 1 .. L : y # n => q[y] = h.p[y]
  BY <1>1
<1>6. q[n] = [key |-> K(h, n), next |-> X(h, n), val |-> v]
  <2>1. q[n] = [h.p[n] EXCEPT !.val = v]
    BY <1>1
  <2>2. h.p[n] = [key |-> K(h, n), next |-> X(h, n), val |-> V(h, n)]
    BY <1>1, NodeParts
  <2> HIDE DEF q
  <2> QED BY <2>1, <2>2, Fields
<1> HIDE DEF q, g
<1>7. q \in [1 .. L -> Nodes]
  <2>1. q[n] \in Nodes
    <3>1. K(h, n) \in Key \cup {NULL} /\ X(h, n) \in Nat
      BY <1>1, NodeParts
    <3> QED BY <1>6, <3>1 DEF Nodes
  <2>2. \A y \in 1 .. L : q[y] \in Nodes
    BY <1>4, <1>5, <2>1
  <2> QED BY <1>5, <2>2
<1>8. g \in Tables /\ Len(g.p) = L /\ g.free = h.free
      /\ \A y \in 1 .. L : K(g, y) = q[y].key /\ X(g, y) = q[y].next /\ V(g, y) = q[y].val
  BY <1>1, <1>2, <1>7, Made DEF L
<1>9. /\ \A y \in 1 .. L : K(g, y) = K(h, y) /\ X(g, y) = X(h, y)
      /\ \A y \in 1 .. L : y # n => V(g, y) = V(h, y)
      /\ V(g, n) = v
  <2>1. K(g, n) = K(h, n) /\ X(g, n) = X(h, n) /\ V(g, n) = v
    BY <1>1, <1>6, <1>8
  <2>2. \A y \in 1 .. L : y # n => K(g, y) = K(h, y) /\ X(g, y) = X(h, y) /\ V(g, y) = V(h, y)
    BY <1>3, <1>5, <1>8
  <2> QED BY <2>1, <2>2
<1>10. Used(g) = U /\ \A y \in U : y \in 1 .. L
  BY <1>8, <1>9, UsedIff DEF L
<1>11. \A y \in U : K(g, y) = K(h, y) /\ X(g, y) = X(h, y) /\ Home(g, y) = Home(h, y)
  BY <1>8, <1>9, <1>10, SamePos DEF Home, L
<1>12. Sound(g)
  <2>1. FreeOK(g)
    BY <1>8, <1>9, <1>10 DEF FreeOK, Sound, L
  <2>2. KeysOnce(g)
    BY <1>10, <1>11 DEF KeysOnce, Sound
  <2>3. HomesOK(g)
    BY <1>10, <1>11 DEF HomesOK, Sound
  <2>4. Followed(g)
    BY <1>10, <1>11 DEF Followed, Sound
  <2>5. LinksOK(g)
    BY <1>10, <1>11 DEF LinksOK, Sound
  <2>6. Ranked(g)
    BY <1>8, <1>10, <1>11 DEF Ranked, RankedBy, Sound, L
  <2> QED BY <1>8, <2>1, <2>2, <2>3, <2>4, <2>5, <2>6 DEF Sound
<1>13. Entries(g) = {<<K(h, y), V(h, y)>> : y \in U \ {n}} \cup {<<K(h, n), v>>}
  <2>1. \A y \in U \ {n} : K(g, y) = K(h, y) /\ V(g, y) = V(h, y)
    BY <1>9, <1>10
  <2>2. K(g, n) = K(h, n) /\ V(g, n) = v /\ n \in U
    BY <1>1, <1>9
  <2> QED BY <1>10, <2>1, <2>2 DEF Entries
<1> QED BY <1>12, <1>13, EntriesBut DEF g

\* s_hash_create.
LEMMA NewSound ==
  ASSUME NEW n \in Nat, n > 0
  PROVE  LET g == NewTable(n)
         IN Sound(g) /\ Entries(g) = {} /\ Len(g.p) = n /\ Len(g.free) = n
<1> DEFINE g == NewTable(n)
           q == [i \in 1 .. n |-> FreeNode]
           fr == [i \in 1 .. n |-> n + 1 - i]
<1>1. q \in Seq(Nodes) /\ Len(q) = n /\ fr \in Seq(Nat) /\ Len(fr) = n
  <2>1. q \in [1 .. n -> Nodes]
    BY NullNode
  <2>2. fr \in [1 .. n -> Nat]
    OBVIOUS
  <2> HIDE DEF q, fr
  <2> QED BY <2>1, <2>2, IsSeq
<1>2. \A i \in 1 .. n : q[i].key = NULL /\ q[i].next = NULL /\ fr[i] = n + 1 - i
  BY DEF FreeNode
<1>3. g = [p |-> q, free |-> fr]
  BY DEF NewTable
<1> HIDE DEF q, fr, g
<1>4. g.p = q /\ g.free = fr
  BY <1>3
<1>5. g \in Tables
  <2>1. g \in [p : Seq(Nodes), free : Seq(Nat)]
    BY <1>1, <1>3
  <2> QED BY <1>1, <1>4, <2>1 DEF Tables
<1>6. Used(g) = {}
  BY <1>1, <1>2, <1>4 DEF Used
<1>7. FreeOK(g)
  <2>1. ASSUME NEW i \in 1 .. n, NEW j \in 1 .. n, fr[i] = fr[j] PROVE i = j
    BY <1>2, <2>1
  <2>2. \A i \in 1 .. n : fr[i] \in 1 .. n
    BY <1>2
  <2>3. ASSUME NEW y \in 1 .. n PROVE \E i \in 1 .. n : fr[i] = y
    <3>1. n + 1 - y \in 1 .. n /\ n + 1 - (n + 1 - y) = y
      OBVIOUS
    <3>2. fr[n + 1 - y] = y
      BY <1>2, <3>1
    <3> QED BY <3>1, <3>2
  <2>4. \A y \in 1 .. n : X(g, y) = NULL
    BY <1>2, <1>4 DEF X
  <2> QED BY <1>1, <1>4, <1>6, <2>1, <2>2, <2>3, <2>4 DEF FreeOK
<1>8. KeysOnce(g) /\ HomesOK(g) /\ Followed(g) /\ LinksOK(g)
  BY <1>6 DEF KeysOnce, HomesOK, Followed, LinksOK
<1>9. Ranked(g)
  <2> DEFINE d == [i \in 1 .. Len(g.p) |-> 0]
  <2>1. d \in [1 .. Len(g.p) -> Nat] /\ RankedBy(g, d)
    BY <1>6 DEF RankedBy
  <2> HIDE DEF d
  <2> QED BY <2>1 DEF Ranked
<1>10. Entries(g) = {}
  BY <1>6 DEF Entries
<1>11. Sound(g)
  BY <1>5, <1>7, <1>8, <1>9 DEF Sound
<1> QED BY <1>1, <1>4, <1>10, <1>11 DEF g

\* The expansion: after i steps the new table holds the first i nodes of h.
Grown(h, i, x) ==
  /\ Sound(x)
  /\ Entries(x) = {<<K(h, j), V(h, j)>> : j \in 1 .. i}
  /\ Len(x.p) = 2 * Len(h.p)
  /\ Len(x.free) = 2 * Len(h.p) - i

\* One step of the expansion.
LEMMA GrowsOne ==
  ASSUME NEW h, Sound(h), Used(h) = 1 .. Len(h.p), NEW i \in 1 .. Len(h.p), NEW x, Grown(h, i - 1, x)
  PROVE  Grown(h, i, Put(x, K(h, i), V(h, i)))
<1> DEFINE L == Len(h.p)
           k == K(h, i)
           v == V(h, i)
<1>1. h \in Tables /\ x \in Tables
  BY DEF Sound, Grown
<1>2. L \in Nat /\ k \in Key /\ v \in Vals /\ i \in Nat /\ i >= 1 /\ i <= L
  <2>1. L \in Nat
    BY <1>1, TableParts
  <2>2. k \in Key
    BY <1>1, UsedIn
  <2>3. v \in Vals
    BY <1>1, NodeParts
  <2> QED BY <2>1, <2>2, <2>3
<1>3. x.free # << >>
  <2>1. Len(x.free) = 2 * L - (i - 1)
    BY DEF Grown
  <2>2. Len(x.free) # 0
    BY <1>2, <2>1
  <2> QED BY <2>2
<1>4. ASSUME NEW n \in Used(x) PROVE K(x, n) # k
  <2>1. <<K(x, n), V(x, n)>> \in Entries(x)
    BY DEF Entries
  <2>2. PICK j \in 1 .. (i - 1) : <<K(x, n), V(x, n)>> = <<K(h, j), V(h, j)>>
    BY <2>1 DEF Grown
  <2>3. K(x, n) = K(h, j) /\ j \in 1 .. L /\ j # i
    BY <1>2, <2>2
  <2> QED BY <1>2, <2>3, SoundFacts
<1> HIDE DEF k, v
<1>5. LET g == Put(x, k, v)
      IN /\ Sound(g)
         /\ Entries(g) = Entries(x) \cup {<<k, v>>}
         /\ Len(g.p) = Len(x.p)
         /\ Len(g.free) = Len(x.free) - 1
  BY <1>2, <1>3, <1>4, PutSound DEF Grown
<1>6. Entries(Put(x, k, v)) = {<<K(h, j), V(h, j)>> : j \in 1 .. i}
  <2>1. 1 .. i = (1 .. (i - 1)) \cup {i}
    BY <1>2
  <2>2. Entries(x) = {<<K(h, j), V(h, j)>> : j \in 1 .. (i - 1)}
    BY DEF Grown
  <2>3. <<k, v>> = <<K(h, i), V(h, i)>>
    BY DEF k, v
  <2> QED BY <1>5, <2>1, <2>2, <2>3
<1>7. Len(x.free) = 2 * L - (i - 1) /\ Len(x.p) = 2 * L
  BY DEF Grown
<1>8. Len(Put(x, k, v).free) = 2 * L - i
  BY <1>2, <1>5, <1>7
<1> QED BY <1>5, <1>6, <1>7, <1>8 DEF Grown, k, v

\* i_get_free_node of a full table: the new one holds the same and has free nodes.
LEMMA ExpandedSound ==
  ASSUME NEW h, Sound(h), h.free = << >>
  PROVE  LET g == Expanded(h)
         IN Sound(g) /\ Entries(g) = Entries(h) /\ g.free # << >>
<1> DEFINE L == Len(h.p)
           new == CHOOSE new : new = [i \in 0 .. L |->
                    IF i = 0 THEN NewTable(2 * L) ELSE Put(new[i - 1], h.p[i].key, h.p[i].val)]
           S == {x \in Tables : Sound(x)}
           put(i, x) == Put(x, K(h, i), V(h, i))
           step == [i \in 1 .. L |-> [x \in S |-> IF put(i, x) \in S THEN put(i, x) ELSE x]]
<1>1. Expanded(h) = new[L]
  BY DEF Expanded
<1>2. h \in Tables /\ FreeOK(h)
  BY DEF Sound
<1>3. L \in Nat /\ L > 0 /\ 2 * L \in Nat /\ 2 * L > 0
  <2>1. L \in Nat /\ L > 0
    BY <1>2, TableParts
  <2> HIDE DEF L
  <2> QED BY <2>1
<1>4. Used(h) = 1 .. L
  <2>1. Len(h.free) = 0
    OBVIOUS
  <2>2. \A n \in 1 .. L : n \in Used(h)
    BY <1>2, <2>1 DEF FreeOK
  <2> QED BY <1>2, <2>2, UsedIn
<1>5. Grown(h, 0, NewTable(2 * L))
  <2>1. LET g == NewTable(2 * L)
        IN Sound(g) /\ Entries(g) = {} /\ Len(g.p) = 2 * L /\ Len(g.free) = 2 * L
    <3> HIDE DEF L
    <3> QED BY <1>3, NewSound
  <2>2. {<<K(h, j), V(h, j)>> : j \in 1 .. 0} = {}
    OBVIOUS
  <2> QED BY <1>3, <2>1, <2>2 DEF Grown
<1>6. \A i, x : Grown(h, i, x) => x \in S
  BY DEF Grown, Sound
<1>7. \A i \in 1 .. L : \A x : Grown(h, i - 1, x) => Grown(h, i, put(i, x))
  BY <1>4, GrowsOne
<1> HIDE DEF put
<1> DEFINE f == Run(L, NewTable(2 * L), S, step)
<1>8. f \in [0 .. L -> S] /\ f[0] = NewTable(2 * L) /\ \A i \in 1 .. L : f[i] = step[i][f[i - 1]]
  <2>1. step \in [1 .. L -> [S -> S]] /\ NewTable(2 * L) \in S
    <3> HIDE DEF S, L
    <3> QED BY <1>5, <1>6
  <2> HIDE DEF step, S, L
  <2>2. Run(L, NewTable(2 * L), S, step) \in Runs(L, NewTable(2 * L), S, step)
    BY <1>3, <2>1, Steps
  <2> QED BY <2>2 DEF Runs
<1> HIDE DEF f
<1>9. \A i \in 0 .. L : Grown(h, i, f[i])
  <2> DEFINE U == {i \in 0 .. L : Grown(h, i, f[i])}
  <2>1. 0 \in U
    BY <1>3, <1>5, <1>8
  <2>2. ASSUME NEW i \in 1 .. L, i - 1 \in U PROVE i \in U
    <3>1. i \in 0 .. L /\ Grown(h, i - 1, f[i - 1]) /\ f[i - 1] \in S
      BY <1>3, <1>6, <2>2
    <3>2. Grown(h, i, put(i, f[i - 1])) /\ put(i, f[i - 1]) \in S
      <4> HIDE DEF S
      <4> QED BY <1>6, <1>7, <3>1
    <3>3. f[i] = put(i, f[i - 1])
      <4> HIDE DEF S
      <4> QED BY <1>8, <3>1, <3>2
    <3> QED BY <3>1, <3>2, <3>3
  <2> HIDE DEF U
  <2>3. \A i \in 0 .. L : i \in U
    <3> HIDE DEF L
    <3> QED BY <1>3, <2>1, <2>2, Induct
  <2> QED BY <2>3 DEF U
<1>10. \A i \in 1 .. L : f[i] = put(i, f[i - 1])
  <2>1. ASSUME NEW i \in 1 .. L PROVE f[i] = put(i, f[i - 1])
    <3>1. i - 1 \in 0 .. L
      BY <1>3
    <3>2. Grown(h, i - 1, f[i - 1])
      <4> HIDE DEF L
      <4> QED BY <1>9, <3>1
    <3>3. f[i - 1] \in S /\ put(i, f[i - 1]) \in S
      <4> HIDE DEF S
      <4> QED BY <1>6, <1>7, <3>2
    <3> HIDE DEF S, L
    <3> QED BY <1>8, <3>3
  <2> QED BY <2>1
<1>11. f = [i \in 0 .. L |-> IF i = 0 THEN NewTable(2 * L) ELSE Put(f[i - 1], h.p[i].key, h.p[i].val)]
  <2>1. ASSUME NEW i \in 0 .. L
        PROVE  f[i] = IF i = 0 THEN NewTable(2 * L) ELSE Put(f[i - 1], h.p[i].key, h.p[i].val)
    <3>1. CASE i = 0
      BY <1>8, <3>1
    <3>2. CASE i # 0
      <4>1. i \in 1 .. L
        BY <1>3, <3>2
      <4>2. f[i] = Put(f[i - 1], K(h, i), V(h, i))
        BY <1>10, <4>1 DEF put
      <4> QED BY <3>2, <4>2 DEF K, V
    <3> QED BY <3>1, <3>2
  <2> HIDE DEF L, S
  <2> QED BY <1>8, <2>1
<1>12. new = [i \in 0 .. L |-> IF i = 0 THEN NewTable(2 * L) ELSE Put(new[i - 1], h.p[i].key, h.p[i].val)]
  <2> HIDE DEF L
  <2> QED BY <1>11
<1> HIDE DEF new
<1>13. \A i \in 0 .. L : Grown(h, i, new[i])
  <2> DEFINE U == {i \in 0 .. L : Grown(h, i, new[i])}
  <2>1. 0 \in U
    <3>1. 0 \in 0 .. L /\ new[0] = NewTable(2 * L)
      BY <1>3, <1>12
    <3> QED BY <1>5, <3>1
  <2>2. ASSUME NEW i \in 1 .. L, i - 1 \in U PROVE i \in U
    <3>1. i \in 0 .. L /\ i # 0 /\ Grown(h, i - 1, new[i - 1])
      BY <1>3, <2>2
    <3>2. new[i] = Put(new[i - 1], h.p[i].key, h.p[i].val)
      <4> HIDE DEF L
      <4> QED BY <1>12, <3>1
    <3>3. new[i] = put(i, new[i - 1])
      BY <3>2 DEF put, K, V
    <3> QED BY <1>7, <3>1, <3>3
  <2> HIDE DEF U
  <2>3. \A i \in 0 .. L : i \in U
    <3> HIDE DEF L
    <3> QED BY <1>3, <2>1, <2>2, Induct
  <2> QED BY <2>3 DEF U
<1>14. Grown(h, L, new[L])
  BY <1>3, <1>13
<1>15. Entries(new[L]) = Entries(h)
  BY <1>4, <1>14 DEF Grown, Entries
<1>16. new[L].free # << >>
  <2>1. Len(new[L].free) = 2 * L - L
    BY <1>14 DEF Grown
  <2>2. Len(new[L].free) # 0
    <3> HIDE DEF L
    <3> QED BY <1>3, <2>1
  <2> QED BY <2>2
<1> QED BY <1>1, <1>14, <1>15, <1>16 DEF Grown

\* i_get_free_node leaves a sound table with the same entries and a free node.
LEMMA RoomSound ==
  ASSUME NEW h, Sound(h)
  PROVE  LET g == Room(h)
         IN Sound(g) /\ Entries(g) = Entries(h) /\ g.free # << >>
BY ExpandedSound DEF Room

\* What s_hash_set and s_hash_del make of the keys and values.
LEMMA SetEntries ==
  ASSUME Sound(table), NEW k \in Key, NEW v \in Value, Set(k, v)
  PROVE  Sound(table') /\ Entries(table') = {e \in Entries(table) : e[1] # k} \cup {<<k, v>>}
<1>1. v \in Vals
  BY DEF Vals
<1>2. table' = IF Get(table, k) # NULL THEN Store(table, Get(table, k), v) ELSE Put(Room(table), k, v)
  BY DEF Set
<1>3. CASE \E n \in Used(table) : K(table, n) = k
  <2>1. PICK n \in Used(table) : K(table, n) = k
    BY <1>3
  <2>2. Get(table, k) = n /\ n # NULL
    BY <2>1, GetIs, SoundFacts
  <2>3. table' = Store(table, n, v)
    BY <1>2, <2>2
  <2> QED BY <1>1, <2>1, <2>3, StoreSound
<1>4. CASE \A n \in Used(table) : K(table, n) # k
  <2> DEFINE h == Room(table)
  <2>1. Get(table, k) = NULL
    BY <1>4, GetIs
  <2>2. table' = Put(h, k, v)
    BY <1>2, <2>1
  <2>3. Sound(h) /\ Entries(h) = Entries(table) /\ h.free # << >>
    BY RoomSound
  <2>4. \A e \in Entries(table) : e[1] # k
    BY <1>4 DEF Entries
  <2> HIDE DEF h
  <2>5. \A n \in Used(h) : K(h, n) # k
    <3>1. ASSUME NEW n \in Used(h) PROVE K(h, n) # k
      <4>1. <<K(h, n), V(h, n)>> \in Entries(h)
        BY DEF Entries
      <4>2. <<K(h, n), V(h, n)>>[1] # k
        BY <2>3, <2>4, <4>1
      <4> QED BY <4>2
    <3> QED BY <3>1
  <2>6. Sound(table') /\ Entries(table') = Entries(table) \cup {<<k, v>>}
    BY <1>1, <2>2, <2>3, <2>5, PutSound
  <2>7. Entries(table) = {e \in Entries(table) : e[1] # k}
    BY <2>4
  <2> QED BY <2>6, <2>7
<1> QED BY <1>3, <1>4

\* s_hash_del leaves the entries of the other keys.
LEMMA DelEntries ==
  ASSUME Sound(table), NEW k \in Key, Del(k)
  PROVE  Sound(table') /\ Entries(table') = {e \in Entries(table) : e[1] # k}
<1> DEFINE n == Get(table, k)
<1>1. table' = IF n = NULL THEN table ELSE Removed(table, n, Before(table, MainPos(table, k), n))
  BY DEF Del
<1>2. CASE \E m \in Used(table) : K(table, m) = k
  <2>1. PICK m \in Used(table) : K(table, m) = k
    BY <1>2
  <2>2. n = m /\ m # NULL
    BY <2>1, GetIs, SoundFacts
  <2>3. MainPos(table, k) = Home(table, m)
    BY <2>1 DEF Home
  <2> HIDE DEF n
  <2>4. table' = Removed(table, m, Before(table, Home(table, m), m))
    BY <1>1, <2>2, <2>3
  <2> QED BY <2>1, <2>4, RemovedSound
<1>3. CASE \A m \in Used(table) : K(table, m) # k
  <2>1. n = NULL
    BY <1>3, GetIs
  <2>2. table' = table
    BY <1>1, <2>1
  <2>3. \A e \in Entries(table) : e[1] # k
    BY <1>3 DEF Entries
  <2> QED BY <2>2, <2>3
<1> QED BY <1>2, <1>3

---------------------------------------------------------------------------
(* The theorems.                                                           *)

\* s_hash_create makes a sound table without entries.
LEMMA InitSound == Init => Sound(table) /\ Entries(table) = {}
<1>1. NElem \in Nat /\ NElem > 0
  BY HashAssumption
<1> QED BY <1>1, NewSound DEF Init

\* Every operation keeps the table sound.
LEMMA NextSound == Sound(table) /\ [Next]_table => Sound(table)'
<1> SUFFICES ASSUME Sound(table), [Next]_table PROVE Sound(table')
  OBVIOUS
<1>1. CASE UNCHANGED table
  BY <1>1
<1>2. ASSUME NEW k \in Key, Del(k) PROVE Sound(table')
  BY <1>2, DelEntries
<1>3. ASSUME NEW k \in Key, NEW v \in Value, Set(k, v) PROVE Sound(table')
  BY <1>3, SetEntries
<1> QED BY <1>1, <1>2, <1>3 DEF Next

\* The table is sound after every sequence of s_hash_set and s_hash_del.
THEOREM SoundCorrect == Spec => []Sound(table)
BY InitSound, NextSound, PTL DEF Spec

\* s_hash_get finds what s_hash_next gives, free_node is exact and the assert of
\* s_hash_set holds, for all keys, hash functions and sizes.
THEOREM TableSoundCorrect == Spec => []TableSound
<1>1. Sound(table) => TableSound
  <2> SUFFICES ASSUME Sound(table) PROVE TableSound
    OBVIOUS
  <2>1. table \in Tables /\ FreeOK(table)
    BY DEF Sound
  <2>2. IterationMatchesGet
    <3>1. ASSUME NEW n \in Used(table) PROVE Get(table, table.p[n].key) = n
      <4>1. K(table, n) \in Key
        BY <2>1, UsedIn
      <4>2. Get(table, K(table, n)) = n
        BY <4>1, GetIs
      <4> QED BY <4>2 DEF K
    <3> QED BY <3>1 DEF IterationMatchesGet
  <2>3. FreeExact
    <3>1. DOMAIN table.free = 1 .. Len(table.free)
      BY <2>1, TableParts
    <3>2. IsInjective(table.free)
      BY <2>1, <3>1 DEF FreeOK, IsInjective
    <3>3. {table.free[i] : i \in 1 .. Len(table.free)} = (1 .. Len(table.p)) \ Used(table)
      BY <2>1 DEF FreeOK
    <3> QED BY <3>1, <3>2, <3>3 DEF FreeExact
  <2>4. MoveFindsNode
    <3>1. ASSUME NEW n \in Used(table), Home(table, n) # n PROVE Before(table, Home(table, n), n) # {}
      BY <3>1, BeforeIs, SoundFacts
    <3> QED BY <3>1 DEF MoveFindsNode, Home, K
  <2> QED BY <2>2, <2>3, <2>4 DEF TableSound
<1> QED BY <1>1, SoundCorrect, PTL

\* The map that s_hash_get gives.
StoredIn(h) == [k \in {k \in Key : Get(h, k) # NULL} |-> h.p[Get(h, k)].val]

\* The map has the entries of the table.
LEMMA StoredIs ==
  ASSUME NEW h, Sound(h)
  PROVE  /\ StoredIn(h) = [k \in DOMAIN StoredIn(h) |-> StoredIn(h)[k]]
         /\ DOMAIN StoredIn(h) = {e[1] : e \in Entries(h)}
         /\ \A e \in Entries(h) : StoredIn(h)[e[1]] = e[2]
<1>1. h \in Tables
  BY DEF Sound
<1>2. \A n \in Used(h) : K(h, n) \in Key /\ n # NULL
  BY <1>1, UsedIn
<1>3. \A n \in Used(h) : Get(h, K(h, n)) = n
  BY <1>2, GetIs
<1>4. \A k \in Key : Get(h, k) # NULL => \E n \in Used(h) : K(h, n) = k
  BY GetIs
<1>5. {k \in Key : Get(h, k) # NULL} = {e[1] : e \in Entries(h)}
  <2>1. ASSUME NEW k \in Key, Get(h, k) # NULL PROVE k \in {e[1] : e \in Entries(h)}
    <3>1. PICK n \in Used(h) : K(h, n) = k
      BY <1>4, <2>1
    <3>2. <<K(h, n), V(h, n)>> \in Entries(h) /\ <<K(h, n), V(h, n)>>[1] = k
      BY <3>1 DEF Entries
    <3> QED BY <3>2
  <2>2. ASSUME NEW e \in Entries(h) PROVE e[1] \in Key /\ Get(h, e[1]) # NULL
    BY <1>2, <1>3 DEF Entries
  <2> QED BY <2>1, <2>2
<1>6. ASSUME NEW e \in Entries(h) PROVE StoredIn(h)[e[1]] = e[2]
  <2>1. PICK n \in Used(h) : e = <<K(h, n), V(h, n)>>
    BY DEF Entries
  <2>2. e[1] = K(h, n) /\ e[2] = V(h, n) /\ Get(h, e[1]) = n /\ e[1] \in Key /\ Get(h, e[1]) # NULL
    BY <1>2, <1>3, <2>1
  <2> QED BY <2>2 DEF StoredIn, V
<1> QED BY <1>5, <1>6 DEF StoredIn

\* The entries of other keys, and a map after a key was set or deleted.
Others(h, k) == {e \in Entries(h) : e[1] # k}
AfterSet(m, k, v) == [j \in DOMAIN m \cup {k} |-> IF j = k THEN v ELSE m[j]]
AfterDel(m, k) == [j \in DOMAIN m \ {k} |-> m[j]]

\* s_hash_set and s_hash_del are the operations of a map.
LEMMA StoredSet ==
  ASSUME NEW h, NEW g, Sound(h), Sound(g), NEW k, NEW v,
         Entries(g) = Others(h, k) \cup {<<k, v>>}
  PROVE  StoredIn(g) = AfterSet(StoredIn(h), k, v)
<1> USE DEF Others
<1> DEFINE a == StoredIn(h)
           b == StoredIn(g)
<1>1. /\ DOMAIN a = {e[1] : e \in Entries(h)} /\ \A e \in Entries(h) : a[e[1]] = e[2]
      /\ b = [j \in DOMAIN b |-> b[j]]
      /\ DOMAIN b = {e[1] : e \in Entries(g)} /\ \A e \in Entries(g) : b[e[1]] = e[2]
  BY StoredIs
<1> HIDE DEF a, b
<1>2. DOMAIN b = DOMAIN a \cup {k}
  <2>1. ASSUME NEW j \in DOMAIN b PROVE j \in DOMAIN a \cup {k}
    BY <1>1
  <2>2. ASSUME NEW j \in DOMAIN a, j # k PROVE j \in DOMAIN b
    <3>1. PICK e \in Entries(h) : e[1] = j
      BY <1>1
    <3>2. e \in Entries(g)
      BY <2>2, <3>1
    <3> QED BY <1>1, <3>1, <3>2
  <2>3. k \in DOMAIN b
    <3>1. <<k, v>> \in Entries(g) /\ <<k, v>>[1] = k
      OBVIOUS
    <3> QED BY <1>1, <3>1
  <2> QED BY <2>1, <2>2, <2>3
<1>3. ASSUME NEW j \in DOMAIN b PROVE b[j] = IF j = k THEN v ELSE a[j]
  <2>1. CASE j = k
    <3>1. <<k, v>> \in Entries(g) /\ <<k, v>>[1] = k /\ <<k, v>>[2] = v
      OBVIOUS
    <3> QED BY <1>1, <2>1, <3>1
  <2>2. CASE j # k
    <3>1. PICK e \in Entries(g) : e[1] = j
      BY <1>1
    <3>2. e \in Entries(h)
      BY <2>2, <3>1
    <3> QED BY <1>1, <2>2, <3>1, <3>2
  <2> QED BY <2>1, <2>2
<1> QED BY <1>1, <1>2, <1>3 DEF a, b, AfterSet

\* A deletion is the deletion of a map.
LEMMA StoredDel ==
  ASSUME NEW h, NEW g, Sound(h), Sound(g), NEW k,
         Entries(g) = Others(h, k)
  PROVE  StoredIn(g) = AfterDel(StoredIn(h), k)
<1> USE DEF Others
<1> DEFINE a == StoredIn(h)
           b == StoredIn(g)
<1>1. /\ DOMAIN a = {e[1] : e \in Entries(h)} /\ \A e \in Entries(h) : a[e[1]] = e[2]
      /\ b = [j \in DOMAIN b |-> b[j]]
      /\ DOMAIN b = {e[1] : e \in Entries(g)} /\ \A e \in Entries(g) : b[e[1]] = e[2]
  BY StoredIs
<1> HIDE DEF a, b
<1>2. DOMAIN b = DOMAIN a \ {k}
  <2>1. ASSUME NEW j \in DOMAIN b PROVE j \in DOMAIN a \ {k}
    BY <1>1
  <2>2. ASSUME NEW j \in DOMAIN a, j # k PROVE j \in DOMAIN b
    <3>1. PICK e \in Entries(h) : e[1] = j
      BY <1>1
    <3>2. e \in Entries(g)
      BY <2>2, <3>1
    <3> QED BY <1>1, <3>1, <3>2
  <2> QED BY <2>1, <2>2
<1>3. ASSUME NEW j \in DOMAIN b PROVE b[j] = a[j]
  <2>1. PICK e \in Entries(g) : e[1] = j
    BY <1>1
  <2> QED BY <1>1, <2>1
<1> QED BY <1>1, <1>2, <1>3 DEF a, b, AfterDel

\* A table is a map: what s_hash_get gives is what was set last and not deleted
\* since, whatever was moved, and whenever the table grew.
THEOREM MapSpecCorrect == Spec => MapSpec
<1>1. Init => IsMap!Init
  <2> SUFFICES ASSUME Init PROVE IsMap!Init
    OBVIOUS
  <2>1. Sound(table) /\ Entries(table) = {}
    BY InitSound
  <2>2. Stored = StoredIn(table)
    BY DEF Stored, StoredIn
  <2>3. DOMAIN StoredIn(table) = {} /\ StoredIn(table) = [k \in DOMAIN StoredIn(table) |-> StoredIn(table)[k]]
    BY <2>1, StoredIs
  <2> HIDE DEF StoredIn
  <2>4. StoredIn(table) = [k \in {} |-> {}]
    BY <2>3
  <2> QED BY <2>2, <2>4 DEF IsMap!Init
<1>2. Sound(table) /\ [Next]_table => [IsMap!Next]_Stored
  <2> SUFFICES ASSUME Sound(table), [Next]_table PROVE [IsMap!Next]_Stored
    OBVIOUS
  <2>1. Stored = StoredIn(table) /\ Stored' = StoredIn(table')
    BY DEF Stored, StoredIn
  <2>2. CASE UNCHANGED table
    BY <2>2 DEF Stored
  <2>3. ASSUME NEW k \in Key, Del(k) PROVE IsMap!Next
    <3>1. Sound(table') /\ Entries(table') = {e \in Entries(table) : e[1] # k}
      BY <2>3, DelEntries
    <3>2. StoredIn(table') = AfterDel(StoredIn(table), k)
      <4>1. Entries(table') = Others(table, k)
        BY <3>1 DEF Others
      <4> QED BY <3>1, <4>1, StoredDel
    <3>3. IsMap!Del(k)
      BY <2>1, <3>2 DEF IsMap!Del, AfterDel
    <3> QED BY <3>3 DEF IsMap!Next
  <2>4. ASSUME NEW k \in Key, NEW v \in Value, Set(k, v) PROVE IsMap!Next
    <3>1. Sound(table') /\ Entries(table') = {e \in Entries(table) : e[1] # k} \cup {<<k, v>>}
      BY <2>4, SetEntries
    <3>2. Entries(table') = Others(table, k) \cup {<<k, v>>}
      BY <3>1 DEF Others
    <3>3. StoredIn(table') = AfterSet(StoredIn(table), k, v)
      BY <3>1, <3>2, StoredSet
    <3>4. IsMap!Set(k, v)
      BY <2>1, <3>3 DEF IsMap!Set, AfterSet
    <3> QED BY <3>4 DEF IsMap!Next
  <2> QED BY <2>2, <2>3, <2>4 DEF Next
<1>3. Spec => []Sound(table)
  BY SoundCorrect
<1> QED BY <1>1, <1>2, <1>3, PTL DEF Spec, MapSpec, IsMap!Spec
=============================================================================
