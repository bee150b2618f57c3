---------------------------- MODULE PaxosProofs ----------------------------
(***************************************************************************)
(* What holds of Paxos for every number of servers, every set of topics    *)
(* and all situations to start from.                                       *)
(*                                                                         *)
(* The inductive invariant says that version n has n members wherever it   *)
(* stands: in the state of a server, its accept and learn tables, a        *)
(* proposal and every packet on its way; that a call which waits for an    *)
(* answer still has its proposal, and its caller a version; and that       *)
(* learn_count is the number of learn calls.  The handlers walk over the   *)
(* entries of packets and tables: what a loop leaves is shown by induction *)
(* over its steps.                                                         *)
(***************************************************************************)
EXTENDS Paxos, WellFoundedInduction, FiniteSetTheorems, SequenceTheorems, TLAPS

Ids == Int \X Int

\* The sets of n servers.
Groups(n) == {v \in SUBSET Servers : Cardinality(v) = n}

\* The values that can be about topic t: version n has n members.
Vals(t) == IF t \in VersionTopics THEN Groups(t[2]) ELSE SUBSET Nat

AcceptEntries(t) == [value: Vals(t), id: Ids]
LearnEntries(t) == [value: Vals(t), id: Ids, serv: Servers]
AcceptTables == {a \in [Topics -> Seq([value: SUBSET Nat, id: Ids])] :
                   \A t \in Topics : a[t] \in Seq(AcceptEntries(t))}
LearnTables == {l \in [Topics -> Seq([value: SUBSET Nat, id: Ids, serv: Servers])] :
                  \A t \in Topics : l[t] \in Seq(LearnEntries(t))}

\* A server has no version yet, or one with as many members.
States ==
  {p \in [version: Int, servs: SUBSET Nat, dialled: SUBSET Nat, response_version: Int,
          response: [Topics -> Ids], accept: AcceptTables, learn: LearnTables,
          learn_count: Int, id: Int] :
     p.version \in 0..N /\ p.servs \in Groups(p.version)}

\* The entries of the dumps.
Entries == {e \in [topic: Topics, value: SUBSET Nat, id: Ids] : e.value \in Vals(e.topic)}

RequestPkts == [fun: {"REQUEST"}, id: Ids, topic: Topics, type: {"NORMAL", "ADD"}, version: Int]
AcceptPkts == {m \in [fun: {"ACCEPT"}, topic: Topics, id: Ids, value: SUBSET Nat, version: Int] :
                 m.value \in Vals(m.topic)}
ResponsePkts == [fun: {"RESPONSE"}, id: Ids, bad: BOOLEAN, max_id: Ids, value: SUBSET Nat,
                 dump: Seq(Entries)]
AddAcceptPkts == {m \in [fun: {"ADD_ACCEPT"}, id: Ids, version: 1..N, servs: SUBSET Nat,
                         dump: Seq(Entries)] : m.servs \in Groups(m.version)}
OtherPkts == [fun: {"ADD_ME"}] \cup [fun: {"ADDED"}, id: Ids]
               \cup [fun: {"LEARN_REQUEST"}, id: Ids, version: Int]
LearnPkts == [fun: {"LEARN"}, id: Ids, version: Int, dump: Seq(Entries)]
Pkts == RequestPkts \cup AcceptPkts \cup ResponsePkts \cup AddAcceptPkts \cup OtherPkts
          \cup LearnPkts

Props == {p \in [id: Ids, topic: Topics, value: SUBSET Nat, type: {"NORMAL", "ADD"},
                 the_serv: Nat, version: Int, nserv: Int, count: Int, max_id: Ids,
                 rvalue: SUBSET Nat] :
            /\ p.value \in Vals(p.topic)
            /\ p.type = "NORMAL" => p.topic \notin VersionTopics
            /\ p.type = "ADD" => p.the_serv \in Servers}

Calls == [kind: {"REQUEST", "ADD_ACCEPT", "LEARN"}, from: Servers, to: Servers, id: Ids]

TypeOK ==
  /\ st \in [Servers -> States]
  /\ props \subseteq Props
  /\ pending \subseteq Calls
  /\ chan \in [Servers -> [Servers -> Seq(Pkts)]]
  /\ start \in Starts
  /\ started \in [Servers -> Nat]
  /\ learns \in [Servers -> Nat]

\* A server that waits for an answer has a version, and the proposal of a call
\* that belongs to one has not been freed.
CallsBacked ==
  \A c \in pending : /\ st[c.from].version >= 1
                     /\ c.kind # "LEARN" => \E p \in props : p.id = c.id

LearnCalls(P, s) == {c \in P : c.kind = "LEARN" /\ c.from = s}

Inv ==
  /\ TypeOK
  /\ CallsBacked
  /\ \A s \in Servers : IsFiniteSet(LearnCalls(pending, s))
  /\ LearnCountExact
-----------------------------------------------------------------------------
(* Induction.  A set of numbers has a least element (WFMin), which gives    *)
(* induction over a set, and with it what a loop over a sequence computes.  *)

\* A set of numbers that is not empty has a least element.
LEMMA Least ==
  ASSUME NEW T, T \subseteq Nat, T # {}
  PROVE  \E x \in T : \A y \in T : x <= y
<1> DEFINE R == {ss \in Nat \X Nat : ss[1] < ss[2]}
<1>1. IsWellFoundedOn(R, Nat)
  BY NatLessThanWellFounded, Zenon DEF OpToRel
<1>2. \E x \in T : \A y \in T : ~(<<y, x>> \in R)
  <2> HIDE DEF R
  <2> QED BY <1>1, WFMin
<1>3. ASSUME NEW x \in Nat, NEW y \in Nat, y < x
      PROVE  <<y, x>> \in R
  BY <1>3
<1>4. \A x, y \in Nat : ~(y < x) => x <= y
  OBVIOUS
<1> HIDE DEF R
<1> QED BY <1>2, <1>3, <1>4

\* Induction over the numbers up to n.
LEMMA Induct ==
  ASSUME NEW n \in Nat, NEW U, 0 \in U, \A i \in 1..n : i - 1 \in U => i \in U
  PROVE  \A i \in 0..n : i \in U
<1> DEFINE T == {i \in 0..n : i \notin U}
<1> SUFFICES ASSUME T # {} PROVE FALSE
  OBVIOUS
<1>1. T \subseteq Nat
  OBVIOUS
<1>2. PICK x \in T : \A y \in T : x <= y
  <2> HIDE DEF T
  <2> QED BY <1>1, Least
<1>3. x \in 1..n /\ x \notin U
  OBVIOUS
<1>4. x - 1 \in U
  BY <1>2, <1>3
<1> QED
  BY <1>3, <1>4

\* The states of a loop that starts with b and whose i-th step is g[i].
Runs(n, b, S, g) == {f \in [0..n -> S] : f[0] = b /\ \A i \in 1..n : f[i] = g[i][f[i - 1]]}
Run(n, b, S, g) == CHOOSE f \in Runs(n, b, S, g) : TRUE

\* A loop that starts in S and whose steps stay in S can be run.
LEMMA Steps ==
  ASSUME NEW n \in Nat, NEW b, NEW S, b \in S, NEW g \in [1..n -> [S -> S]]
  PROVE  Run(n, b, S, g) \in Runs(n, b, S, g)
<1> DEFINE P(k, f) == f[0] = b /\ \A i \in 1..k : f[i] = g[i][f[i - 1]]
           U == {k \in 0..n : \E f \in [0..k -> S] : P(k, f)}
<1>1. 0 \in U
  <2> DEFINE f == [i \in 0..0 |-> b]
  <2>1. f \in [0..0 -> S] /\ P(0, f)
    OBVIOUS
  <2> HIDE DEF f, P
  <2>2. \E h \in [0..0 -> S] : P(0, h)
    BY <2>1
  <2>3. 0 \in 0..n
    OBVIOUS
  <2> QED BY <2>2, <2>3
<1>2. ASSUME NEW k \in 1..n, k - 1 \in U
      PROVE  k \in U
  <2>1. PICK f \in [0..(k - 1) -> S] : P(k - 1, f)
    BY <1>2
  <2> DEFINE h == [i \in 0..k |-> IF i < k THEN f[i] ELSE g[k][f[k - 1]]]
  <2>2. g[k] \in [S -> S] /\ f[k - 1] \in S
    OBVIOUS
  <2>3. h \in [0..k -> S]
    BY <2>2
  <2>4. h[0] = b /\ h[k] = g[k][f[k - 1]] /\ \A i \in 0..(k - 1) : h[i] = f[i]
    BY <2>1
  <2> HIDE DEF h
  <2>5. ASSUME NEW i \in 1..k PROVE h[i] = g[i][h[i - 1]]
    <3>1. CASE i = k
      BY <2>4, <3>1
    <3>2. CASE i # k
      <4>1. i \in 1..(k - 1) /\ i \in 0..(k - 1) /\ i - 1 \in 0..(k - 1)
        BY <3>2
      <4>2. f[i] = g[i][f[i - 1]]
        BY <2>1, <4>1
      <4> QED BY <2>4, <4>1, <4>2
    <3> QED BY <3>1, <3>2
  <2> QED
    BY <2>3, <2>4, <2>5
<1>3. n \in U
  <2> HIDE DEF U
  <2>1. \A i \in 0..n : i \in U
    BY <1>1, <1>2, Induct
  <2>2. n \in 0..n
    OBVIOUS
  <2> QED BY <2>1, <2>2
<1>4. PICK f \in [0..n -> S] : P(n, f)
  BY <1>3
<1>5. f \in Runs(n, b, S, g)
  BY <1>4 DEF Runs
<1> QED
  BY <1>5 DEF Run

\* A loop whose steps stay in S ends in S.
LEMMA Stays ==
  ASSUME NEW n \in Nat, NEW f, NEW S, f[0] \in S,
         \A i \in 1..n : f[i - 1] \in S => f[i] \in S
  PROVE  f[n] \in S
<1> DEFINE U == {i \in 0..n : f[i] \in S}
<1>1. 0 \in U /\ \A i \in 1..n : i - 1 \in U => i \in U
  OBVIOUS
<1> HIDE DEF U
<1>2. n \in U
  BY <1>1, Induct
<1> QED BY <1>2 DEF U

-----------------------------------------------------------------------------
(* Sequences.                                                               *)

\* A sequence over a set is one over a larger set.
LEMMA Wider ==
  ASSUME NEW S, NEW T, S \subseteq T, NEW s \in Seq(S)
  PROVE  s \in Seq(T)
OBVIOUS

\* Sequences that are put together give a sequence.
LEMMA FlattenIs ==
  ASSUME NEW S, NEW ss \in Seq(Seq(S))
  PROVE  FlattenSeq(ss) \in Seq(S)
<1> DEFINE n == Len(ss)
           fl == CHOOSE fl : fl = [i \in 1..n |-> IF i = 1 THEN ss[i] ELSE fl[i - 1] \o ss[i]]
           g == [i \in 1..(n - 1) |-> [x \in Seq(S) |-> x \o ss[i + 1]]]
<1>1. FlattenSeq(ss) = IF n = 0 THEN ss ELSE fl[n]
  BY DEF FlattenSeq
<1>2. CASE n = 0
  <2>1. ss = <<>>
    BY <1>2
  <2> QED BY <1>1, <1>2, <2>1
<1>3. CASE n # 0
  <2>a. n \in Nat
    BY LenProperties
  <2>1. n - 1 \in Nat /\ n \in Nat /\ n \in 1..n /\ 1 \in 1..n
    <3> HIDE DEF n
    <3> QED BY <1>3, <2>a
  <2>2. \A i \in 1..n : ss[i] \in Seq(S)
    OBVIOUS
  <2>3. g \in [1..(n - 1) -> [Seq(S) -> Seq(S)]] /\ ss[1] \in Seq(S)
    BY <2>1, <2>2
  <2> DEFINE f == Run(n - 1, ss[1], Seq(S), g)
  <2>4. /\ f \in [0..(n - 1) -> Seq(S)] /\ f[0] = ss[1]
        /\ \A i \in 1..(n - 1) : f[i] = g[i][f[i - 1]]
    <3> HIDE DEF g, n
    <3>1. Run(n - 1, ss[1], Seq(S), g) \in Runs(n - 1, ss[1], Seq(S), g)
      BY <2>1, <2>3, Steps
    <3> QED BY <3>1 DEF Runs
  <2> HIDE DEF f
  <2> DEFINE h == [i \in 1..n |-> f[i - 1]]
  <2>5. \A i \in 1..n : h[i] = IF i = 1 THEN ss[i] ELSE h[i - 1] \o ss[i]
    <3> TAKE i \in 1..n
    <3>1. CASE i = 1
      BY <2>4, <3>1
    <3>2. CASE i # 1
      <4>1. i - 1 \in 1..(n - 1) /\ i - 1 \in 0..(n - 1) /\ i - 1 # 0 /\ (i - 1) + 1 = i
            /\ (i - 1) - 1 \in 0..(n - 1) /\ i - 1 \in 1..n
        BY <3>2
      <4>2. f[i - 1] = g[i - 1][f[(i - 1) - 1]] /\ f[(i - 1) - 1] \in Seq(S)
        BY <2>4, <4>1
      <4>3. g[i - 1][f[(i - 1) - 1]] = f[(i - 1) - 1] \o ss[i]
        BY <4>1, <4>2
      <4> QED BY <4>1, <4>2, <4>3, <3>2
    <3> QED BY <3>1, <3>2
  <2>6. h = [i \in 1..n |-> IF i = 1 THEN ss[i] ELSE h[i - 1] \o ss[i]]
    BY <2>5
  <2>7. fl = [i \in 1..n |-> IF i = 1 THEN ss[i] ELSE fl[i - 1] \o ss[i]]
    <3> HIDE DEF n, h
    <3> QED BY <2>6
  <2> HIDE DEF fl
  <2> DEFINE k == [i \in 0..(n - 1) |-> fl[i + 1]]
  <2>8. k[0] \in Seq(S)
    BY <2>1, <2>2, <2>7
  <2>9. ASSUME NEW i \in 1..(n - 1), k[i - 1] \in Seq(S)
        PROVE  k[i] \in Seq(S)
    <3>1. i + 1 \in 1..n /\ i + 1 # 1 /\ (i + 1) - 1 = i /\ i \in 0..(n - 1) /\ i - 1 \in 0..(n - 1)
          /\ (i - 1) + 1 = i
      BY <2>1
    <3>2. k[i] = fl[i + 1] /\ k[i - 1] = fl[i]
      BY <3>1
    <3>3. fl[i + 1] = fl[i] \o ss[i + 1]
      BY <2>7, <3>1
    <3>4. fl[i] \in Seq(S) /\ ss[i + 1] \in Seq(S)
      BY <3>1, <3>2, <2>9, <2>2
    <3>5. fl[i] \o ss[i + 1] \in Seq(S)
      BY <3>4
    <3> QED BY <3>2, <3>3, <3>5
  <2>10. k[n - 1] \in Seq(S)
    <3> HIDE DEF k, n
    <3> QED BY <2>1, <2>8, <2>9, Stays
  <2>11. k[n - 1] = fl[n]
    BY <2>1
  <2> QED BY <1>1, <1>3, <2>10, <2>11
<1> QED BY <1>2, <1>3

\* A finite set can be put into a sequence.
LEMMA ToSeqIs ==
  ASSUME NEW S, IsFiniteSet(S)
  PROVE  SetToSeq(S) \in Seq(S) /\ Len(SetToSeq(S)) = Cardinality(S)
<1>1. Cardinality(S) \in Nat /\ \E f : f \in Bijection(1..Cardinality(S), S)
  BY FS_CardinalityType, FS_NatBijection DEF ExistsBijection
<1>2. \E f \in [1..Cardinality(S) -> S] : IsInjective(f)
  BY <1>1 DEF Bijection, Injection, IsInjective
<1>3. SetToSeq(S) \in [1..Cardinality(S) -> S]
  BY <1>2 DEF SetToSeq
<1> QED
  BY <1>1, <1>3

-----------------------------------------------------------------------------
(* Topics, values and tables.                                               *)

\* The constants.
LEMMA Bounds ==
  /\ N \in Nat /\ N >= 1
  /\ \A b \in Starts : /\ b.members \in 1..N /\ b.learns \in [Servers -> Nat]
                       /\ b.values \in [Servers -> Seq(SUBSET Nat)]
<1>1. Seq((SUBSET Nat) \ {{}}) \subseteq Seq(SUBSET Nat)
  OBVIOUS
<1>2. N \in Nat \ {0} /\ \A b \in Starts : b \in Situations /\ b.members <= N
  BY PaxosAssumption
<1>3. ASSUME NEW b \in Starts
      PROVE  /\ b.members \in Nat \ {0} /\ b.learns \in [Servers -> Nat]
             /\ b.values \in [Servers -> Seq((SUBSET Nat) \ {{}})]
  BY <1>2 DEF Situations
<1>4. ASSUME NEW b \in Starts
      PROVE  b.values \in [Servers -> Seq(SUBSET Nat)]
  BY <1>1, <1>3
<1> QED
  BY <1>2, <1>3, <1>4

\* Groups of servers.
LEMMA GroupsAre ==
  /\ IsFiniteSet(Servers) /\ Cardinality(Servers) = N
  /\ \A n : Groups(n) \subseteq SUBSET Servers /\ Groups(n) \subseteq SUBSET Nat
  /\ \A n : \A v \in Groups(n) : /\ IsFiniteSet(v) /\ Cardinality(v) = n
                               /\ n \in Nat /\ n <= N
<1>1. IsFiniteSet(1..N) /\ Cardinality(1..N) = N
  <2>1. 1 \in Int /\ N \in Int /\ N - 1 + 1 = N /\ ~(1 > N)
    BY Bounds
  <2> QED BY <2>1, FS_Interval
<1>2. 1..N \subseteq Nat
  BY Bounds
<1>3. ASSUME NEW v \in SUBSET Servers
      PROVE  IsFiniteSet(v) /\ Cardinality(v) \in Nat /\ Cardinality(v) <= N
  BY <1>1, FS_Subset, FS_CardinalityType DEF Servers
<1> QED
  BY <1>1, <1>2, <1>3 DEF Groups, Servers

\* The topic of version n and its values.
LEMMA VersionVals ==
  ASSUME NEW n \in 2..(N + 1)
  PROVE  /\ VersionTopic(n) \in Topics
         /\ VersionTopic(n) \in VersionTopics
         /\ NewVersion(VersionTopic(n)) = n
         /\ Vals(VersionTopic(n)) = Groups(n)
<1>1. VersionTopic(n) \in VersionTopics /\ VersionTopic(n)[2] = n
  BY DEF VersionTopics, VersionTopic
<1>2. VersionTopic(n) \in Topics
  BY <1>1 DEF Topics
<1>3. NewVersion(VersionTopic(n)) = n
  BY <1>1 DEF NewVersion
<1> QED
  BY <1>1, <1>2, <1>3 DEF Vals

\* Values of ordinary topics, and of any.
LEMMA NormalVals ==
  /\ \A x \in NormalTopics :
       <<x, 0>> \in Topics /\ <<x, 0>> \notin VersionTopics /\ Vals(<<x, 0>>) = SUBSET Nat
  /\ \A t \in Topics : t \notin VersionTopics => Vals(t) = SUBSET Nat
  /\ \A t \in Topics : Vals(t) \subseteq SUBSET Nat
  /\ \A t \in Topics : NewVersion(t) \in Int
<1>1. ASSUME NEW x \in NormalTopics
      PROVE  <<x, 0>> \in Topics /\ <<x, 0>> \notin VersionTopics
  <2>1. \A n \in 2..(N + 1) : n # 0
    BY Bounds
  <2>2. \A n \in 2..(N + 1) : <<"version:", n>> # <<x, 0>>
    BY <2>1
  <2> QED
    BY <2>2 DEF Topics, VersionTopics, VersionTopic
<1>2. \A t : t \notin VersionTopics => Vals(t) = SUBSET Nat
  BY DEF Vals
<1>3. ASSUME NEW t \in VersionTopics
      PROVE  Vals(t) \subseteq SUBSET Nat /\ NewVersion(t) \in Int
  <2>1. PICK n \in 2..(N + 1) : t = VersionTopic(n)
    BY DEF VersionTopics
  <2>2. n \in Int
    BY <2>1, Bounds
  <2> QED
    BY <2>1, <2>2, VersionVals, GroupsAre
<1>4. \A t : t \notin VersionTopics => NewVersion(t) \in Int
  BY DEF NewVersion
<1> QED
  BY <1>1, <1>2, <1>3, <1>4

\* There are finitely many topics.
LEMMA TopicsFinite == IsFiniteSet(Topics)
<1> DEFINE I == 2..(N + 1)
           f == [n \in I |-> VersionTopic(n)]
           normal == {<<x, 0>> : x \in NormalTopics}
           g == [x \in NormalTopics |-> <<x, 0>>]
<1>1. IsFiniteSet(I) /\ IsFiniteSet(NormalTopics)
  BY Bounds, PaxosAssumption, FS_Interval
<1>2. f \in Surjection(I, VersionTopics)
  BY DEF Surjection, VersionTopics
<1>3. g \in Surjection(NormalTopics, normal)
  BY DEF Surjection
<1> HIDE DEF I, f, g, normal
<1>4. IsFiniteSet(VersionTopics) /\ IsFiniteSet(normal)
  BY <1>1, <1>2, <1>3, FS_Surjection
<1>5. IsFiniteSet(normal \cup VersionTopics)
  BY <1>4, FS_Union
<1> QED
  BY <1>5 DEF Topics, normal

\* The hash table walks over the topics.
LEMMA TopicSeqIs == TopicSeq \in Seq(Topics)
BY TopicsFinite, ToSeqIs DEF TopicSeq

\* A table of accept entries after the entry of topic t has changed.
LEMMA AcceptUpdate ==
  ASSUME NEW a \in AcceptTables, NEW t \in Topics, NEW arr \in Seq(AcceptEntries(t))
  PROVE  [a EXCEPT ![t] = arr] \in AcceptTables
<1>1. AcceptEntries(t) \subseteq [value: SUBSET Nat, id: Ids]
  BY NormalVals DEF AcceptEntries
<1>2. arr \in Seq([value: SUBSET Nat, id: Ids])
  BY <1>1, Wider
<1> QED
  BY <1>2 DEF AcceptTables

\* The same of a table of votes.
LEMMA LearnUpdate ==
  ASSUME NEW l \in LearnTables, NEW t \in Topics, NEW arr \in Seq(LearnEntries(t))
  PROVE  [l EXCEPT ![t] = arr] \in LearnTables
<1>1. LearnEntries(t) \subseteq [value: SUBSET Nat, id: Ids, serv: Servers]
  BY NormalVals DEF LearnEntries
<1>2. arr \in Seq([value: SUBSET Nat, id: Ids, serv: Servers])
  BY <1>1, Wider
<1> QED
  BY <1>2 DEF LearnTables

\* The fields of a server's state.
LEMMA StateFields ==
  ASSUME NEW p \in States
  PROVE  /\ p.version \in Nat /\ p.version \in Int /\ p.version \in 0..N
         /\ p.servs \in Groups(p.version)
         /\ p.version >= 0 /\ p.version <= N
         /\ p.servs \in SUBSET Servers /\ p.servs \in SUBSET Nat /\ p.dialled \in SUBSET Nat
         /\ IsFiniteSet(p.servs) /\ Cardinality(p.servs) = p.version
         /\ p.response_version \in Int /\ p.response \in [Topics -> Ids]
         /\ p.accept \in AcceptTables /\ p.learn \in LearnTables
         /\ p.learn_count \in Int /\ p.id \in Int
<1>1. /\ p.version \in Int /\ p.version \in 0..N /\ p.servs \in Groups(p.version)
      /\ p.servs \in SUBSET Nat /\ p.dialled \in SUBSET Nat
      /\ p.response_version \in Int /\ p.response \in [Topics -> Ids]
      /\ p.accept \in AcceptTables /\ p.learn \in LearnTables
      /\ p.learn_count \in Int /\ p.id \in Int
  BY DEF States
<1>2. p.version \in Nat /\ p.version <= N
  BY <1>1, Bounds
<1> QED
  BY <1>1, <1>2, GroupsAre

\* A server that has members has a version.
LEMMA MemberHasVersion ==
  ASSUME NEW p \in States, NEW s \in p.servs
  PROVE  p.version >= 1
<1>1. IsFiniteSet(p.servs) /\ Cardinality(p.servs) = p.version /\ p.version \in Nat
  BY StateFields
<1>2. p.version # 0
  BY <1>1, FS_EmptySet
<1> QED
  BY <1>1, <1>2

-----------------------------------------------------------------------------
(* The acceptor and the learner.                                            *)

\* The array of a topic stays one of values that can be about it.
LEMMA AcceptIntoIs ==
  ASSUME NEW t \in Topics, NEW arr \in Seq(AcceptEntries(t)), NEW value \in Vals(t), NEW id \in Ids
  PROVE  AcceptInto(arr, value, id) \in Seq(AcceptEntries(t))
<1> DEFINE same == FirstOf({i \in DOMAIN arr : arr[i].value = value})
           new == [i \in DOMAIN arr |-> IF i \in same /\ IdGt(id, arr[i].id)
                                        THEN [arr[i] EXCEPT !.id = id] ELSE arr[i]]
<1>1. [value |-> value, id |-> id] \in AcceptEntries(t)
  BY DEF AcceptEntries
<1>2. Append(arr, [value |-> value, id |-> id]) \in Seq(AcceptEntries(t))
  BY <1>1
<1>3. \A i \in DOMAIN arr : arr[i] \in AcceptEntries(t) /\ [arr[i] EXCEPT !.id = id] \in AcceptEntries(t)
  <2> TAKE i \in DOMAIN arr
  <2>1. arr[i] \in AcceptEntries(t)
    OBVIOUS
  <2> QED BY <2>1 DEF AcceptEntries
<1> HIDE DEF same
<1>4. new \in Seq(AcceptEntries(t))
  <2>1. \A i \in DOMAIN arr : new[i] \in AcceptEntries(t)
    BY <1>3
  <2>2. DOMAIN arr = 1..Len(arr) /\ Len(arr) \in Nat
    BY LenProperties
  <2>3. DOMAIN new = 1..Len(arr) /\ new = [i \in 1..Len(arr) |-> new[i]]
    BY <2>2
  <2> HIDE DEF new
  <2> QED BY <2>1, <2>2, <2>3
<1> QED
  BY <1>2, <1>4 DEF AcceptInto, same

\* iaccept changes the accept table only.
LEMMA IAcceptIs ==
  ASSUME NEW p \in States, NEW t \in Topics, NEW value \in Vals(t), NEW id \in Ids, NEW v
  PROVE  /\ IAccept(p, t, id, value, v) \in States
         /\ IAccept(p, t, id, value, v).version = p.version
         /\ IAccept(p, t, id, value, v).learn_count = p.learn_count
<1> DEFINE arr == AcceptInto(p.accept[t], value, id)
           q == [p EXCEPT !.accept[t] = AcceptInto(@, value, id)]
<1>1. p.accept \in AcceptTables /\ p.accept[t] \in Seq(AcceptEntries(t))
  BY StateFields DEF AcceptTables
<1>2. arr \in Seq(AcceptEntries(t))
  BY <1>1, AcceptIntoIs
<1>3. [p.accept EXCEPT ![t] = arr] \in AcceptTables
  <2> HIDE DEF arr
  <2> QED BY <1>1, <1>2, AcceptUpdate
<1>4. q = [p EXCEPT !.accept = [p.accept EXCEPT ![t] = arr]]
  BY DEF States
<1> HIDE DEF q, arr
<1>5. q \in States /\ q.version = p.version /\ q.learn_count = p.learn_count
  BY <1>3, <1>4 DEF States
<1> QED
  BY <1>5 DEF IAccept, q

\* icheck_new_version: version n that is adopted has n members.
LEMMA CheckNewVersionIs ==
  ASSUME NEW p \in States, p.version >= 1, NEW me
  PROVE  /\ CheckNewVersion(p, me) \in States
         /\ CheckNewVersion(p, me).version >= 1
         /\ CheckNewVersion(p, me).learn_count = p.learn_count
<1> DEFINE v == p.version + 1
           topic == VersionTopic(v)
           arr == p.learn[topic]
           won == {i \in DOMAIN arr : \/ Votes(arr, i) > Majority(p)
                                      \/ Cardinality(p.servs) = 2 /\ me = 1}
           w == CHOOSE i \in won : \A j \in won : i <= j
           q == [p EXCEPT !.version = @ + 1, !.servs = arr[w].value,
                          !.dialled = @ \cup arr[w].value]
<1>1. v \in 2..(N + 1) /\ p.version \in Nat
  BY StateFields, Bounds
<1>2. topic \in Topics /\ Vals(topic) = Groups(v)
  <2> HIDE DEF v
  <2> QED BY <1>1, VersionVals
<1>3. arr \in Seq(LearnEntries(topic))
  <2> HIDE DEF topic
  <2> QED BY <1>2, StateFields DEF LearnTables
<1>d. CheckNewVersion(p, me) = IF won = {} THEN p ELSE IAccept(q, topic, arr[w].id, arr[w].value, -1)
  BY DEF CheckNewVersion
<1>4. CASE won = {}
  BY <1>4, <1>d
<1>5. CASE won # {}
  <2>1. won \subseteq DOMAIN arr /\ won \subseteq Nat
    <3> HIDE DEF arr
    <3> QED BY <1>3
  <2>2. w \in DOMAIN arr
    <3> HIDE DEF won, arr
    <3>1. \E i \in won : \A j \in won : i <= j
      BY <1>5, <2>1, Least
    <3> QED BY <2>1, <3>1
  <2> HIDE DEF w, won
  <2>3. arr[w].value \in Vals(topic) /\ arr[w].id \in Ids
    <3> HIDE DEF arr, topic
    <3>1. arr[w] \in LearnEntries(topic)
      BY <1>3, <2>2
    <3> QED BY <3>1 DEF LearnEntries
  <2>4. arr[w].value \in Groups(v) /\ arr[w].value \in SUBSET Nat /\ v <= N
    <3> HIDE DEF v, topic, arr
    <3> QED BY <1>2, <2>3, GroupsAre
  <2>5. p.dialled \cup arr[w].value \in SUBSET Nat
    BY <2>4, StateFields
  <2>6. v \in 0..N /\ v \in Int /\ v >= 1
    BY <1>1, <2>4, Bounds
  <2> HIDE DEF q, v
  <2>7. q \in States /\ q.version = v /\ q.learn_count = p.learn_count
    BY <2>4, <2>5, <2>6 DEF States, q, v
  <2> HIDE DEF topic, arr
  <2>8. /\ IAccept(q, topic, arr[w].id, arr[w].value, -1) \in States
        /\ IAccept(q, topic, arr[w].id, arr[w].value, -1).version = q.version
        /\ IAccept(q, topic, arr[w].id, arr[w].value, -1).learn_count = q.learn_count
    BY <1>2, <2>3, <2>7, IAcceptIs
  <2> QED BY <1>5, <1>d, <2>6, <2>7, <2>8
<1> QED BY <1>4, <1>5

\* ilearn leaves a state, and the number of outstanding learn calls.
LEMMA ILearnIs ==
  ASSUME NEW p \in States, p.version >= 1, NEW me, NEW e \in Entries, NEW from \in Servers
  PROVE  /\ ILearn(p, me, e.topic, e.value, e.id, from) \in States
         /\ ILearn(p, me, e.topic, e.value, e.id, from).version >= 1
         /\ ILearn(p, me, e.topic, e.value, e.id, from).learn_count = p.learn_count
<1> DEFINE t == e.topic
           arr == p.learn[t]
           same == FirstOf({i \in DOMAIN arr : arr[i].serv = from /\ arr[i].value = e.value})
           raised == [i \in DOMAIN arr |-> IF i \in same /\ IdGt(e.id, arr[i].id)
                                           THEN [arr[i] EXCEPT !.id = e.id] ELSE arr[i]]
           vote == [value |-> e.value, id |-> e.id, serv |-> from]
           q1 == [p EXCEPT !.learn = [p.learn EXCEPT ![t] = raised]]
           q2 == [p EXCEPT !.learn = [p.learn EXCEPT ![t] = Append(arr, vote)]]
<1>1. t \in Topics /\ e.value \in Vals(t) /\ e.id \in Ids
  BY DEF Entries
<1>2. p.learn \in LearnTables /\ arr \in Seq(LearnEntries(t))
  <2> HIDE DEF t
  <2> QED BY <1>1, StateFields DEF LearnTables
<1>d. ILearn(p, me, e.topic, e.value, e.id, from) = IF same # {} THEN q1 ELSE CheckNewVersion(q2, me)
  BY DEF ILearn, States
<1> HIDE DEF t, same, arr
<1>3. raised \in Seq(LearnEntries(t))
  <2>1. ASSUME NEW i \in DOMAIN arr
        PROVE  arr[i] \in LearnEntries(t) /\ [arr[i] EXCEPT !.id = e.id] \in LearnEntries(t)
    <3>1. arr[i] \in LearnEntries(t)
      BY <1>2
    <3> QED BY <1>1, <3>1 DEF LearnEntries
  <2>2. \A i \in DOMAIN arr : raised[i] \in LearnEntries(t)
    BY <2>1
  <2>3. DOMAIN arr = 1..Len(arr) /\ Len(arr) \in Nat
    BY <1>2, LenProperties
  <2>4. DOMAIN raised = 1..Len(arr) /\ raised = [i \in 1..Len(arr) |-> raised[i]]
    BY <2>3
  <2> HIDE DEF raised
  <2> QED BY <2>2, <2>3, <2>4
<1>4. Append(arr, vote) \in Seq(LearnEntries(t))
  <2>1. vote \in LearnEntries(t)
    BY <1>1 DEF LearnEntries
  <2> HIDE DEF vote
  <2> QED BY <1>2, <2>1
<1> HIDE DEF raised, vote
<1>5. /\ [p.learn EXCEPT ![t] = raised] \in LearnTables
      /\ [p.learn EXCEPT ![t] = Append(arr, vote)] \in LearnTables
  BY <1>1, <1>2, <1>3, <1>4, LearnUpdate
<1>6. q1 \in States /\ q1.version = p.version /\ q1.learn_count = p.learn_count
  BY <1>5 DEF States
<1>7. q2 \in States /\ q2.version = p.version /\ q2.learn_count = p.learn_count
  BY <1>5 DEF States
<1> HIDE DEF q1, q2
<1>8. /\ CheckNewVersion(q2, me) \in States
      /\ CheckNewVersion(q2, me).version >= 1
      /\ CheckNewVersion(q2, me).learn_count = p.learn_count
  BY <1>7, CheckNewVersionIs
<1> QED
  BY <1>6, <1>8, <1>d

-----------------------------------------------------------------------------
(* The loops over dumps and tables.                                         *)

\* The states of a server that has a version, with learn_count k.
Learners(k) == {p \in States : p.version >= 1 /\ p.learn_count = k}

\* The states of a server with version v and learn_count k.
Holders(v, k) == {p \in States : p.version = v /\ p.learn_count = k}

\* The loop of i_receive_response_add over the accept table of q.
LEMMA LearnTableIs ==
  ASSUME NEW k, NEW p \in Learners(k), NEW s, NEW q \in Servers, NEW dump \in Seq(Entries)
  PROVE  LearnTable(p, s, q, dump) \in Learners(k)
<1> DEFINE arr == dump
           n == Len(arr)
           b == p
           S == Learners(k)
           Step(x, i) == ILearn(x, s, arr[i].topic, arr[i].value, arr[i].id, q)
           f == CHOOSE f : f = [i \in 0..n |-> IF i = 0 THEN b ELSE Step(f[i - 1], i)]
           g == [i \in 1..n |-> [x \in S |-> Step(x, i)]]
           h == Run(n, b, S, g)
<1>1. LearnTable(p, s, q, dump) = f[n]
  BY DEF LearnTable, ForEach
<1>2. n \in Nat
  BY LenProperties
<1>3. b \in S
  OBVIOUS
<1>4. ASSUME NEW i \in 1..n, NEW x \in S
      PROVE  Step(x, i) \in S
  <2>1. dump[i] \in Entries
    OBVIOUS
  <2> QED BY <2>1, ILearnIs DEF Learners
<1> HIDE DEF S, n, b, Step
<1>5. h \in [0..n -> S] /\ h[0] = b /\ \A i \in 1..n : h[i] = g[i][h[i - 1]]
  <2>1. g \in [1..n -> [S -> S]]
    BY <1>4
  <2> HIDE DEF g
  <2>2. Run(n, b, S, g) \in Runs(n, b, S, g)
    BY <1>2, <1>3, <2>1, Steps
  <2> QED BY <2>2 DEF Runs
<1> HIDE DEF h
<1>6. \A i \in 0..n : h[i] = IF i = 0 THEN b ELSE Step(h[i - 1], i)
  <2> TAKE i \in 0..n
  <2>1. CASE i = 0
    BY <1>5, <2>1
  <2>2. CASE i # 0
    <3>1. i \in 1..n /\ i - 1 \in 0..n
      BY <1>2, <2>2
    <3>2. h[i] = g[i][h[i - 1]] /\ h[i - 1] \in S
      BY <1>5, <3>1
    <3> QED BY <2>2, <3>1, <3>2
  <2> QED BY <2>1, <2>2
<1>7. h = [i \in 0..n |-> IF i = 0 THEN b ELSE Step(h[i - 1], i)]
  BY <1>5, <1>6
<1>8. f = [i \in 0..n |-> IF i = 0 THEN b ELSE Step(f[i - 1], i)]
  BY <1>7
<1> HIDE DEF f
<1>9. f[0] \in S /\ \A i \in 1..n : f[i] = Step(f[i - 1], i)
  BY <1>2, <1>3, <1>8
<1>10. f[n] \in S
  <2>1. \A i \in 1..n : f[i - 1] \in S => f[i] \in S
    BY <1>4, <1>9
  <2> QED BY <1>2, <1>9, <2>1, Stays
<1> QED
  BY <1>1, <1>10 DEF S

\* The loop of ireceive_learn, which stops when the version has changed.
LEMMA LearnVotesIs ==
  ASSUME NEW k \in Int, NEW p \in Learners(k + 1), NEW s, NEW q \in Servers, NEW m, m.dump \in Seq(Entries)
  PROVE  LearnVotes(p, s, q, m) \in Learners(k)
<1> DEFINE arr == m.dump
           n == Len(arr)
           b == [p EXCEPT !.learn_count = @ - 1]
           S == Learners(k)
           Step(x, i) == IF x.version = m.version THEN ILearn(x, s, arr[i].topic, arr[i].value, arr[i].id, q) ELSE x
           f == CHOOSE f : f = [i \in 0..n |-> IF i = 0 THEN b ELSE Step(f[i - 1], i)]
           g == [i \in 1..n |-> [x \in S |-> Step(x, i)]]
           h == Run(n, b, S, g)
<1>1. LearnVotes(p, s, q, m) = f[n]
  BY DEF LearnVotes, ForEach
<1>2. n \in Nat
  BY LenProperties
<1>3. b \in S
  BY DEF Learners, States
<1>4. ASSUME NEW i \in 1..n, NEW x \in S
      PROVE  Step(x, i) \in S
  <2>1. arr[i] \in Entries
    OBVIOUS
  <2>2. ILearn(x, s, arr[i].topic, arr[i].value, arr[i].id, q) \in Learners(k)
    <3> HIDE DEF arr
    <3> QED BY <2>1, ILearnIs DEF Learners
  <2> QED BY <2>2
<1> HIDE DEF S, n, b, Step
<1>5. h \in [0..n -> S] /\ h[0] = b /\ \A i \in 1..n : h[i] = g[i][h[i - 1]]
  <2>1. g \in [1..n -> [S -> S]]
    BY <1>4
  <2> HIDE DEF g
  <2>2. Run(n, b, S, g) \in Runs(n, b, S, g)
    BY <1>2, <1>3, <2>1, Steps
  <2> QED BY <2>2 DEF Runs
<1> HIDE DEF h
<1>6. \A i \in 0..n : h[i] = IF i = 0 THEN b ELSE Step(h[i - 1], i)
  <2> TAKE i \in 0..n
  <2>1. CASE i = 0
    BY <1>5, <2>1
  <2>2. CASE i # 0
    <3>1. i \in 1..n /\ i - 1 \in 0..n
      BY <1>2, <2>2
    <3>2. h[i] = g[i][h[i - 1]] /\ h[i - 1] \in S
      BY <1>5, <3>1
    <3> QED BY <2>2, <3>1, <3>2
  <2> QED BY <2>1, <2>2
<1>7. h = [i \in 0..n |-> IF i = 0 THEN b ELSE Step(h[i - 1], i)]
  BY <1>5, <1>6
<1>8. f = [i \in 0..n |-> IF i = 0 THEN b ELSE Step(f[i - 1], i)]
  BY <1>7
<1> HIDE DEF f
<1>9. f[0] \in S /\ \A i \in 1..n : f[i] = Step(f[i - 1], i)
  BY <1>2, <1>3, <1>8
<1>10. f[n] \in S
  <2>1. \A i \in 1..n : f[i - 1] \in S => f[i] \in S
    BY <1>4, <1>9
  <2> QED BY <1>2, <1>9, <2>1, Stays
<1> QED
  BY <1>1, <1>10 DEF S

\* The loop of ireceive_add_accept.
LEMMA AcceptTableIs ==
  ASSUME NEW v, NEW k, NEW p \in Holders(v, k), NEW dump \in Seq(Entries)
  PROVE  AcceptTable(p, dump) \in Holders(v, k)
<1> DEFINE arr == dump
           n == Len(arr)
           b == p
           S == Holders(v, k)
           Step(x, i) == IAccept(x, arr[i].topic, arr[i].id, arr[i].value, -1)
           f == CHOOSE f : f = [i \in 0..n |-> IF i = 0 THEN b ELSE Step(f[i - 1], i)]
           g == [i \in 1..n |-> [x \in S |-> Step(x, i)]]
           h == Run(n, b, S, g)
<1>1. AcceptTable(p, dump) = f[n]
  BY DEF AcceptTable, ForEach
<1>2. n \in Nat
  BY LenProperties
<1>3. b \in S
  OBVIOUS
<1>4. ASSUME NEW i \in 1..n, NEW x \in S
      PROVE  Step(x, i) \in S
  <2>1. dump[i] \in Entries
    OBVIOUS
  <2>2. dump[i].topic \in Topics /\ dump[i].value \in Vals(dump[i].topic) /\ dump[i].id \in Ids
    BY <2>1 DEF Entries
  <2> QED BY <2>2, IAcceptIs DEF Holders
<1> HIDE DEF S, n, b, Step
<1>5. h \in [0..n -> S] /\ h[0] = b /\ \A i \in 1..n : h[i] = g[i][h[i - 1]]
  <2>1. g \in [1..n -> [S -> S]]
    BY <1>4
  <2> HIDE DEF g
  <2>2. Run(n, b, S, g) \in Runs(n, b, S, g)
    BY <1>2, <1>3, <2>1, Steps
  <2> QED BY <2>2 DEF Runs
<1> HIDE DEF h
<1>6. \A i \in 0..n : h[i] = IF i = 0 THEN b ELSE Step(h[i - 1], i)
  <2> TAKE i \in 0..n
  <2>1. CASE i = 0
    BY <1>5, <2>1
  <2>2. CASE i # 0
    <3>1. i \in 1..n /\ i - 1 \in 0..n
      BY <1>2, <2>2
    <3>2. h[i] = g[i][h[i - 1]] /\ h[i - 1] \in S
      BY <1>5, <3>1
    <3> QED BY <2>2, <3>1, <3>2
  <2> QED BY <2>1, <2>2
<1>7. h = [i \in 0..n |-> IF i = 0 THEN b ELSE Step(h[i - 1], i)]
  BY <1>5, <1>6
<1>8. f = [i \in 0..n |-> IF i = 0 THEN b ELSE Step(f[i - 1], i)]
  BY <1>7
<1> HIDE DEF f
<1>9. f[0] \in S /\ \A i \in 1..n : f[i] = Step(f[i - 1], i)
  BY <1>2, <1>3, <1>8
<1>10. f[n] \in S
  <2>1. \A i \in 1..n : f[i - 1] \in S => f[i] \in S
    BY <1>4, <1>9
  <2> QED BY <1>2, <1>9, <2>1, Stays
<1> QED
  BY <1>1, <1>10 DEF S

\* The first loop of idump_learn, over the votes for topic t.
LEMMA MemberVotesIs ==
  ASSUME NEW p \in States, NEW t \in Topics
  PROVE  MemberVotes(p, t) \in Seq(LearnEntries(t))
<1> DEFINE arr == p.learn[t]
           n == Len(arr)
           b == <<>>
           S == Seq(LearnEntries(t))
           Step(x, i) == IF IsIn(p, arr[i].serv) THEN Append(x, arr[i]) ELSE x
           f == CHOOSE f : f = [i \in 0..n |-> IF i = 0 THEN b ELSE Step(f[i - 1], i)]
           g == [i \in 1..n |-> [x \in S |-> Step(x, i)]]
           h == Run(n, b, S, g)
<1>1. MemberVotes(p, t) = f[n]
  BY DEF MemberVotes, ForEach
<1>a. p.learn[t] \in Seq(LearnEntries(t))
  BY StateFields DEF LearnTables
<1>2. n \in Nat
  BY <1>a, LenProperties
<1>3. b \in S
  OBVIOUS
<1>4. ASSUME NEW i \in 1..n, NEW x \in S
      PROVE  Step(x, i) \in S
  <2>1. arr[i] \in LearnEntries(t)
    BY <1>a
  <2>2. Append(x, arr[i]) \in Seq(LearnEntries(t))
    <3> HIDE DEF arr
    <3> QED BY <2>1
  <2> QED BY <2>2
<1> HIDE DEF S, n, b, Step
<1>5. h \in [0..n -> S] /\ h[0] = b /\ \A i \in 1..n : h[i] = g[i][h[i - 1]]
  <2>1. g \in [1..n -> [S -> S]]
    BY <1>4
  <2> HIDE DEF g
  <2>2. Run(n, b, S, g) \in Runs(n, b, S, g)
    BY <1>2, <1>3, <2>1, Steps
  <2> QED BY <2>2 DEF Runs
<1> HIDE DEF h
<1>6. \A i \in 0..n : h[i] = IF i = 0 THEN b ELSE Step(h[i - 1], i)
  <2> TAKE i \in 0..n
  <2>1. CASE i = 0
    BY <1>5, <2>1
  <2>2. CASE i # 0
    <3>1. i \in 1..n /\ i - 1 \in 0..n
      BY <1>2, <2>2
    <3>2. h[i] = g[i][h[i - 1]] /\ h[i - 1] \in S
      BY <1>5, <3>1
    <3> QED BY <2>2, <3>1, <3>2
  <2> QED BY <2>1, <2>2
<1>7. h = [i \in 0..n |-> IF i = 0 THEN b ELSE Step(h[i - 1], i)]
  BY <1>5, <1>6
<1>8. f = [i \in 0..n |-> IF i = 0 THEN b ELSE Step(f[i - 1], i)]
  BY <1>7
<1> HIDE DEF f
<1>9. f[0] \in S /\ \A i \in 1..n : f[i] = Step(f[i - 1], i)
  BY <1>2, <1>3, <1>8
<1>10. f[n] \in S
  <2>1. \A i \in 1..n : f[i - 1] \in S => f[i] \in S
    BY <1>4, <1>9
  <2> QED BY <1>2, <1>9, <2>1, Stays
<1> QED
  BY <1>1, <1>10 DEF S

\* The second one, over the numbers of these votes.
LEMMA WinnersAre ==
  ASSUME NEW p \in States, NEW t \in Topics
  PROVE  Winners(p, t) \in Seq(Entries)
<1> DEFINE arr == [j \in DOMAIN p.learn[t] |-> j]
           n == Len(arr)
           b == <<>>
           S == Seq(Entries)
           Step(x, i) == IF HasMajority(p, p.learn[t], arr[i])
                         THEN Append(x, [topic |-> t, value |-> p.learn[t][arr[i]].value,
                                         id |-> p.learn[t][arr[i]].id])
                         ELSE x
           f == CHOOSE f : f = [i \in 0..n |-> IF i = 0 THEN b ELSE Step(f[i - 1], i)]
           g == [i \in 1..n |-> [x \in S |-> Step(x, i)]]
           h == Run(n, b, S, g)
<1>1. Winners(p, t) = f[n]
  BY DEF Winners, ForEach
<1>a. p.learn[t] \in Seq(LearnEntries(t))
  BY StateFields DEF LearnTables
<1>b. Len(p.learn[t]) \in Nat /\ DOMAIN p.learn[t] = 1..Len(p.learn[t])
  BY <1>a, LenProperties
<1>c. arr \in Seq(Int) /\ n = Len(p.learn[t])
  BY <1>b
<1>2. n \in Nat
  BY <1>b, <1>c
<1>3. b \in S
  OBVIOUS
<1>4. ASSUME NEW i \in 1..n, NEW x \in S
      PROVE  Step(x, i) \in S
  <2>1. arr[i] \in DOMAIN p.learn[t]
    BY <1>b, <1>c
  <2> HIDE DEF arr
  <2>2. p.learn[t][arr[i]] \in LearnEntries(t)
    BY <1>a, <2>1
  <2>3. [topic |-> t, value |-> p.learn[t][arr[i]].value, id |-> p.learn[t][arr[i]].id] \in Entries
    BY <2>2, NormalVals DEF LearnEntries, Entries
  <2> QED BY <2>3
<1> HIDE DEF S, n, b, Step
<1>5. h \in [0..n -> S] /\ h[0] = b /\ \A i \in 1..n : h[i] = g[i][h[i - 1]]
  <2>1. g \in [1..n -> [S -> S]]
    BY <1>4
  <2> HIDE DEF g
  <2>2. Run(n, b, S, g) \in Runs(n, b, S, g)
    BY <1>2, <1>3, <2>1, Steps
  <2> QED BY <2>2 DEF Runs
<1> HIDE DEF h
<1>6. \A i \in 0..n : h[i] = IF i = 0 THEN b ELSE Step(h[i - 1], i)
  <2> TAKE i \in 0..n
  <2>1. CASE i = 0
    BY <1>5, <2>1
  <2>2. CASE i # 0
    <3>1. i \in 1..n /\ i - 1 \in 0..n
      BY <1>2, <2>2
    <3>2. h[i] = g[i][h[i - 1]] /\ h[i - 1] \in S
      BY <1>5, <3>1
    <3> QED BY <2>2, <3>1, <3>2
  <2> QED BY <2>1, <2>2
<1>7. h = [i \in 0..n |-> IF i = 0 THEN b ELSE Step(h[i - 1], i)]
  BY <1>5, <1>6
<1>8. f = [i \in 0..n |-> IF i = 0 THEN b ELSE Step(f[i - 1], i)]
  BY <1>7
<1> HIDE DEF f
<1>9. f[0] \in S /\ \A i \in 1..n : f[i] = Step(f[i - 1], i)
  BY <1>2, <1>3, <1>8
<1>10. f[n] \in S
  <2>1. \A i \in 1..n : f[i - 1] \in S => f[i] \in S
    BY <1>4, <1>9
  <2> QED BY <1>2, <1>9, <2>1, Stays
<1> QED
  BY <1>1, <1>10 DEF S

\* idump_learn changes nothing but the votes.
LEMMA PrunedIs ==
  ASSUME NEW p \in States
  PROVE  /\ Pruned(p) \in States
         /\ Pruned(p).version = p.version /\ Pruned(p).learn_count = p.learn_count
<1> DEFINE l == [t \in Topics |-> MemberVotes(p, t)]
<1>1. l \in LearnTables
  <2>1. \A t \in Topics : l[t] \in Seq(LearnEntries(t))
    BY MemberVotesIs
  <2>2. \A t \in Topics : LearnEntries(t) \subseteq [value: SUBSET Nat, id: Ids, serv: Servers]
    BY NormalVals DEF LearnEntries
  <2>3. \A t \in Topics : l[t] \in Seq([value: SUBSET Nat, id: Ids, serv: Servers])
    <3> HIDE DEF l
    <3> QED BY <2>1, <2>2, Wider
  <2> QED BY <2>1, <2>3 DEF LearnTables
<1>2. Pruned(p) = [p EXCEPT !.learn = l]
  BY DEF Pruned
<1> HIDE DEF l
<1> QED
  BY <1>1, <1>2 DEF States

\* What it reports are entries of topics, with values that can be about them.
LEMMA DumpLearnIs ==
  ASSUME NEW p \in States
  PROVE  DumpLearn(p) \in Seq(Entries)
<1> DEFINE ss == [k \in DOMAIN TopicSeq |-> Winners(p, TopicSeq[k])]
<1>1. Len(TopicSeq) \in Nat /\ DOMAIN TopicSeq = 1..Len(TopicSeq)
  BY TopicSeqIs, LenProperties
<1>2. \A k \in DOMAIN TopicSeq : Winners(p, TopicSeq[k]) \in Seq(Entries)
  BY TopicSeqIs, WinnersAre
<1>3. ss \in Seq(Seq(Entries))
  BY <1>1, <1>2
<1> HIDE DEF ss
<1>4. FlattenSeq(ss) \in Seq(Entries)
  BY <1>3, FlattenIs
<1> QED
  BY <1>4 DEF DumpLearn, ss

\* So are the accept entries that a reply carries.
LEMMA DumpAcceptIs ==
  ASSUME NEW p \in States
  PROVE  DumpAccept(p) \in Seq(Entries)
<1> DEFINE row(k) == [i \in DOMAIN p.accept[TopicSeq[k]] |->
                        [topic |-> TopicSeq[k], value |-> p.accept[TopicSeq[k]][i].value,
                         id |-> p.accept[TopicSeq[k]][i].id]]
           ss == [k \in DOMAIN TopicSeq |-> row(k)]
<1>1. Len(TopicSeq) \in Nat /\ DOMAIN TopicSeq = 1..Len(TopicSeq)
  BY TopicSeqIs, LenProperties
<1>2. ASSUME NEW k \in DOMAIN TopicSeq
      PROVE  row(k) \in Seq(Entries)
  <2> DEFINE t == TopicSeq[k]
             arr == p.accept[t]
  <2>1. t \in Topics
    BY TopicSeqIs
  <2>2. arr \in Seq(AcceptEntries(t))
    <3> HIDE DEF t
    <3> QED BY <2>1, StateFields DEF AcceptTables
  <2>3. row(k) = [i \in DOMAIN arr |-> [topic |-> t, value |-> arr[i].value, id |-> arr[i].id]]
    OBVIOUS
  <2> HIDE DEF arr, t, row
  <2>4. ASSUME NEW i \in DOMAIN arr
        PROVE  [topic |-> t, value |-> arr[i].value, id |-> arr[i].id] \in Entries
    <3>1. arr[i] \in AcceptEntries(t)
      BY <2>2
    <3> QED BY <2>1, <3>1, NormalVals DEF AcceptEntries, Entries
  <2>5. Len(arr) \in Nat /\ DOMAIN arr = 1..Len(arr)
    BY <2>2, LenProperties
  <2> QED BY <2>3, <2>4, <2>5
<1>3. ss \in Seq(Seq(Entries))
  <2> HIDE DEF row
  <2> QED BY <1>1, <1>2
<1>4. DumpAccept(p) = FlattenSeq(ss)
  BY DEF DumpAccept
<1> HIDE DEF ss
<1> QED
  BY <1>3, <1>4, FlattenIs

-----------------------------------------------------------------------------
(* Packets.                                                                 *)

Outs == [Servers -> Seq(Pkts)]
Chans == [Servers -> Outs]

\* A packet is of the kind that its number says.
LEMMA Kinds ==
  ASSUME NEW m \in Pkts
  PROVE  /\ m.fun = "REQUEST" => m \in RequestPkts
         /\ m.fun = "ACCEPT" => m \in AcceptPkts
         /\ m.fun = "RESPONSE" => m \in ResponsePkts
         /\ m.fun = "ADD_ACCEPT" => m \in AddAcceptPkts
         /\ m.fun = "ADDED" => m.id \in Ids
         /\ m.fun = "LEARN_REQUEST" => m.id \in Ids /\ m.version \in Int
         /\ m.fun = "LEARN" => m \in LearnPkts
<1>1. \/ m \in RequestPkts /\ m.fun = "REQUEST"
      \/ m \in AcceptPkts /\ m.fun = "ACCEPT"
      \/ m \in ResponsePkts /\ m.fun = "RESPONSE"
      \/ m \in AddAcceptPkts /\ m.fun = "ADD_ACCEPT"
      \/ m.fun = "ADD_ME"
      \/ m.id \in Ids /\ m.fun = "ADDED"
      \/ m.id \in Ids /\ m.version \in Int /\ m.fun = "LEARN_REQUEST"
      \/ m \in LearnPkts /\ m.fun = "LEARN"
  BY DEF Pkts, RequestPkts, AcceptPkts, ResponsePkts, AddAcceptPkts, OtherPkts, LearnPkts
<1> QED
  BY <1>1

\* What a handler sends is packets.
LEMMA OutsAre ==
  /\ Nothing \in Outs
  /\ \A D, m : m \in Pkts => ToAll(D, m) \in Outs
BY DEF Nothing, ToAll, Outs

\* They are appended to the connections.
LEMMA RouteIs ==
  ASSUME NEW ch \in Chans, NEW s \in Servers, NEW out \in Outs
  PROVE  Route(ch, s, out) \in Chans
<1>1. ch[s] \in Outs
  BY DEF Chans
<1>2. \A d \in Servers : ch[s][d] \o out[d] \in Seq(Pkts)
  BY <1>1 DEF Outs
<1>3. [d \in Servers |-> ch[s][d] \o out[d]] \in Outs
  BY <1>2 DEF Outs
<1> QED
  BY <1>3 DEF Route, Chans

\* A handler has sent its packets.
LEMMA Served ==
  ASSUME NEW s \in Servers, NEW part, NEW ch \in Chans, NEW out \in Outs, Serve(s, part, ch, out)
  PROVE  chan' \in Chans
BY RouteIs DEF Serve

\* Taking the next packet from a connection.
LEMMA Took ==
  ASSUME TypeOK, NEW q \in Servers, NEW s \in Servers, chan[q][s] # <<>>
  PROVE  Head(chan[q][s]) \in Pkts /\ [chan EXCEPT ![q][s] = Tail(@)] \in Chans
<1>1. chan \in Chans /\ chan[q] \in Outs /\ chan[q][s] \in Seq(Pkts)
  BY DEF TypeOK, Chans, Outs
<1>2. Head(chan[q][s]) \in Pkts /\ Tail(chan[q][s]) \in Seq(Pkts)
  BY <1>1
<1>3. [chan EXCEPT ![q][s] = Tail(@)] = [chan EXCEPT ![q] = [chan[q] EXCEPT ![s] = Tail(chan[q][s])]]
  BY <1>1 DEF Chans
<1>4. [chan[q] EXCEPT ![s] = Tail(chan[q][s])] \in Outs
  BY <1>1, <1>2 DEF Outs
<1> QED
  BY <1>1, <1>2, <1>3, <1>4 DEF Chans

\* A handler has taken its packet and sent its own.
LEMMA HandledIs ==
  ASSUME TypeOK, NEW q \in Servers, NEW s \in Servers, NEW m, Arrives(q, s, m),
         NEW out \in Outs, Handled(q, s, out)
  PROVE  chan' \in Chans
<1>1. chan[q][s] # <<>>
  BY DEF Arrives
<1>2. [chan EXCEPT ![q][s] = Tail(@)] \in Chans
  BY <1>1, Took
<1>3. Serve(s, IF q = s THEN Drain ELSE Net, [chan EXCEPT ![q][s] = Tail(@)], out)
  BY DEF Handled
<1> QED
  BY <1>2, <1>3, Served

\* What arrives is a packet.
LEMMA ArrivesIs ==
  ASSUME TypeOK, NEW q \in Servers, NEW s \in Servers, NEW m, Arrives(q, s, m)
  PROVE  m \in Pkts
BY Took DEF Arrives

-----------------------------------------------------------------------------
(* Calls.                                                                   *)

\* What has to be shown of a step that leaves the learn calls alone.
Backs(c) == /\ st'[c.from].version >= 1
            /\ c.kind # "LEARN" => \E p \in props' : p.id = c.id

\* Such a step keeps the invariant.
LEMMA Preserved ==
  ASSUME Inv, TypeOK', \A c \in pending' : Backs(c),
         \A s \in Servers : /\ st'[s].learn_count = st[s].learn_count
                            /\ LearnCalls(pending', s) = LearnCalls(pending, s)
  PROVE  Inv'
<1>1. CallsBacked'
  BY DEF CallsBacked, Backs
<1>2. \A s \in Servers : IsFiniteSet(LearnCalls(pending', s))
  BY DEF Inv
<1>3. LearnCountExact'
  <2>1. \A s \in Servers : st[s].learn_count = Cardinality(LearnCalls(pending, s))
    BY DEF Inv, LearnCountExact, LearnCalls
  <2>2. \A s \in Servers : st'[s].learn_count = Cardinality(LearnCalls(pending', s))
    BY <2>1
  <2> QED BY <2>2 DEF LearnCountExact, LearnCalls
<1> QED
  BY <1>1, <1>2, <1>3 DEF Inv

\* One server's state has changed and no call.
LEMMA StateChanged ==
  ASSUME Inv, NEW s \in Servers, NEW d \in States, st' = [st EXCEPT ![s] = d],
         d.learn_count = st[s].learn_count, st[s].version >= 1 => d.version >= 1,
         chan' \in Chans, props' = props, pending' = pending, start' \in Starts, started' \in [Servers -> Nat],
         learns' \in [Servers -> Nat]
  PROVE  Inv'
<1>1. TypeOK'
  BY DEF Inv, TypeOK, Chans, Outs
<1>2. \A t \in Servers : /\ st'[t].learn_count = st[t].learn_count
                         /\ st[t].version >= 1 => st'[t].version >= 1
  BY DEF Inv, TypeOK
<1>3. \A c \in pending' : Backs(c)
  BY <1>2 DEF Inv, CallsBacked, Backs, TypeOK, Calls
<1> QED
  BY <1>1, <1>2, <1>3, Preserved

\* No state and no call has changed.
LEMMA OnlyPackets ==
  ASSUME Inv, st' = st, chan' \in Chans, props' = props, pending' = pending,
         start' \in Starts, started' \in [Servers -> Nat], learns' \in [Servers -> Nat]
  PROVE  Inv'
<1>1. TypeOK'
  BY DEF Inv, TypeOK, Chans, Outs
<1>2. \A c \in pending' : Backs(c)
  BY DEF Inv, CallsBacked, Backs
<1> QED
  BY <1>1, <1>2, Preserved

\* The proposal of a call that waits is in props.
LEMMA ProposalIs ==
  ASSUME Inv, NEW c \in pending, c.kind # "LEARN"
  PROVE  ProposalOf(c) \in props /\ ProposalOf(c).id = c.id /\ ProposalOf(c) \in Props
<1>1. \E p \in props : p.id = c.id
  BY DEF Inv, CallsBacked
<1> QED
  BY <1>1 DEF ProposalOf, Inv, TypeOK

\* A call that belongs to a proposal is over, whatever it leaves of the proposal.
LEMMA OverIs ==
  ASSUME Inv, NEW c \in pending, c.kind # "LEARN", NEW p \in Props, p.id = c.id,
         NEW more \in SUBSET Calls,
         \A x \in more : x.kind # "LEARN" /\ x.id = c.id /\ x.from = c.from,
         CallOver(c, p, more),
         NEW d \in States, st' = [st EXCEPT ![c.from] = d],
         d.learn_count = st[c.from].learn_count, d.version >= 1,
         chan' \in Chans, start' \in Starts, started' \in [Servers -> Nat], learns' \in [Servers -> Nat]
  PROVE  Inv'
<1>1. /\ pending' = (pending \ {c}) \cup more
      /\ props' = {x \in (props \ {ProposalOf(c)}) \cup {p} : \E y \in pending' : y.id = x.id}
  BY DEF CallOver, Referenced
<1>2. ProposalOf(c) \in props /\ ProposalOf(c).id = c.id /\ c \in Calls
  BY ProposalIs DEF Inv, TypeOK
<1>3. TypeOK'
  BY <1>1, <1>2 DEF Inv, TypeOK, Chans, Outs, Calls
<1>4. \A t \in Servers : /\ st'[t].learn_count = st[t].learn_count
                         /\ st[t].version >= 1 => st'[t].version >= 1
                         /\ t = c.from => st'[t].version >= 1
  BY DEF Inv, TypeOK
<1>5. ASSUME NEW y \in pending'
      PROVE  Backs(y)
  <2>1. y \in Calls /\ y.from \in Servers
    BY <1>3 DEF TypeOK, Calls
  <2>2. CASE y \in more
    <3>1. p \in props' /\ p.id = y.id
      BY <1>1, <2>2
    <3>2. st'[y.from].version >= 1
      BY <1>4, <2>1, <2>2
    <3> QED BY <3>1, <3>2 DEF Backs
  <2>3. CASE y \in pending
    <3>1. st[y.from].version >= 1 /\ (y.kind # "LEARN" => \E x \in props : x.id = y.id)
      BY <2>3 DEF Inv, CallsBacked
    <3>2. st'[y.from].version >= 1
      BY <1>4, <2>1, <3>1
    <3>3. ASSUME y.kind # "LEARN" PROVE \E x \in props' : x.id = y.id
      <4>1. PICK x \in props : x.id = y.id
        BY <3>1, <3>3
      <4>2. CASE x = ProposalOf(c)
        <5>1. p \in props' /\ p.id = y.id
          BY <1>1, <1>2, <4>1, <4>2
        <5> QED BY <5>1
      <4>3. CASE x # ProposalOf(c)
        <5>1. x \in props'
          BY <1>1, <4>1, <4>3
        <5> QED BY <4>1, <5>1
      <4> QED BY <4>2, <4>3
    <3> QED BY <3>2, <3>3 DEF Backs
  <2> QED BY <1>1, <2>2, <2>3
<1>6. \A t \in Servers : LearnCalls(pending', t) = LearnCalls(pending, t)
  BY <1>1 DEF LearnCalls
<1> QED
  BY <1>3, <1>4, <1>5, <1>6, Preserved

\* The same when the state of the caller stays.
LEMMA OverOnly ==
  ASSUME Inv, NEW c \in pending, c.kind # "LEARN", NEW p \in Props, p.id = c.id,
         CallOver(c, p, {}), st' = st,
         chan' \in Chans, start' \in Starts, started' \in [Servers -> Nat], learns' \in [Servers -> Nat]
  PROVE  Inv'
<1> DEFINE d == st[c.from]
<1>1. c.from \in Servers /\ st \in [Servers -> States]
  BY DEF Inv, TypeOK, Calls
<1>2. d \in States /\ d.version >= 1
  BY <1>1 DEF Inv, CallsBacked
<1>3. st' = [st EXCEPT ![c.from] = d]
  BY <1>1
<1>4. {} \in SUBSET Calls
  OBVIOUS
<1>5. d.learn_count = st[c.from].learn_count
  OBVIOUS
<1> HIDE DEF d
<1> QED
  BY <1>2, <1>3, <1>4, <1>5, OverIs

\* A learn call is over.
LEMMA LearnOver ==
  ASSUME Inv, NEW c \in pending, c.kind = "LEARN", pending' = pending \ {c}, props' = props,
         NEW d \in States, st' = [st EXCEPT ![c.from] = d],
         d.learn_count = st[c.from].learn_count - 1, d.version >= 1,
         chan' \in Chans, start' \in Starts, started' \in [Servers -> Nat], learns' \in [Servers -> Nat]
  PROVE  Inv'
<1>1. TypeOK' /\ c.from \in Servers
  BY DEF Inv, TypeOK, Chans, Outs, Calls
<1>2. \A t \in Servers : /\ t # c.from => st'[t] = st[t]
                         /\ t = c.from => st'[t] = d
  BY DEF Inv, TypeOK
<1>3. CallsBacked'
  <2> SUFFICES ASSUME NEW y \in pending' 
               PROVE  /\ st'[y.from].version >= 1
                      /\ y.kind # "LEARN" => \E p \in props' : p.id = y.id
    BY DEF CallsBacked
  <2>1. y \in pending /\ y.from \in Servers
    BY <1>1 DEF TypeOK, Calls
  <2> QED BY <1>2, <2>1 DEF Inv, CallsBacked
<1>4. ASSUME NEW t \in Servers
      PROVE  /\ IsFiniteSet(LearnCalls(pending', t))
             /\ st'[t].learn_count = Cardinality(LearnCalls(pending', t))
  <2>1. IsFiniteSet(LearnCalls(pending, t)) /\ st[t].learn_count = Cardinality(LearnCalls(pending, t))
    BY DEF Inv, LearnCountExact, LearnCalls
  <2>2. CASE t # c.from
    <3>1. LearnCalls(pending', t) = LearnCalls(pending, t)
      BY <2>2 DEF LearnCalls
    <3> QED BY <1>2, <2>1, <2>2, <3>1
  <2>3. CASE t = c.from
    <3>1. LearnCalls(pending', t) = LearnCalls(pending, t) \ {c} /\ c \in LearnCalls(pending, t)
      BY <2>3 DEF LearnCalls
    <3>2. /\ IsFiniteSet(LearnCalls(pending, t) \ {c})
          /\ Cardinality(LearnCalls(pending, t) \ {c}) = Cardinality(LearnCalls(pending, t)) - 1
      BY <2>1, <3>1, FS_RemoveElement
    <3> QED BY <1>2, <2>1, <2>3, <3>1, <3>2
  <2> QED BY <2>2, <2>3
<1>5. LearnCountExact'
  BY <1>4 DEF LearnCountExact, LearnCalls
<1> QED
  BY <1>1, <1>3, <1>4, <1>5 DEF Inv

-----------------------------------------------------------------------------
(* The actions.                                                             *)

\* A member starts a proposal.
LEMMA Started ==
  ASSUME Inv, NEW s \in Servers, IsIn(st[s], s), NEW t \in Topics, NEW value \in Vals(t),
         NEW type \in {"NORMAL", "ADD"}, NEW the_serv \in Nat,
         type = "NORMAL" => t \notin VersionTopics, type = "ADD" => the_serv \in Servers,
         NEW p, p = Proposal(s, t, value, type, the_serv),
         st' = [st EXCEPT ![s].id = @ + 1],
         props' = props \cup {p}, pending' = pending \cup RequestCalls(s, p),
         chan' \in Chans, start' \in Starts, started' \in [Servers -> Nat], learns' \in [Servers -> Nat]
  PROVE  Inv'
<1> DEFINE x == st[s]
           d == [x EXCEPT !.id = @ + 1]
<1>1. x \in States /\ st \in [Servers -> States] /\ s \in Nat
  BY Bounds DEF Inv, TypeOK, Servers
<1>2. st' = [st EXCEPT ![s] = d]
  BY <1>1
<1> HIDE DEF x
<1>3. d \in States /\ d.version = x.version /\ d.learn_count = x.learn_count
  <2>1. x.id + 1 \in Int
    BY <1>1, StateFields
  <2> QED BY <1>1, <2>1 DEF States
<1>4. x.version >= 1 /\ x.servs \subseteq Servers
  <2>1. s \in x.servs
    BY DEF IsIn, x
  <2> QED BY <1>1, <2>1, MemberHasVersion, StateFields
<1>5. p \in Props /\ p.id \in Ids
  <2>1. <<x.id, s>> \in Ids /\ x.version \in Int /\ Cardinality(x.servs) \in Int /\ NoId \in Ids
    BY <1>1, StateFields DEF Ids, NoId
  <2>2. value \in SUBSET Nat /\ NoValue \in SUBSET Nat
    BY NormalVals DEF NoValue
  <2>3. p = [id |-> <<x.id, s>>, topic |-> t, value |-> value, type |-> type,
             the_serv |-> the_serv, version |-> x.version,
             nserv |-> Cardinality(x.servs), count |-> 0, max_id |-> NoId, rvalue |-> NoValue]
    BY DEF Proposal, x
  <2> HIDE DEF x
  <2> QED BY <2>1, <2>2, <2>3 DEF Props
<1>6. \A y \in RequestCalls(s, p) : y \in Calls /\ y.kind = "REQUEST" /\ y.from = s /\ y.id = p.id
  <2>1. ActiveMembers(s) \subseteq Servers
    BY <1>4 DEF ActiveMembers, x
  <2> QED BY <1>5, <2>1 DEF RequestCalls, Call, Calls
<1> HIDE DEF d
<1>7. TypeOK'
  BY <1>2, <1>3, <1>5, <1>6 DEF Inv, TypeOK, Chans, Outs
<1>8. \A u \in Servers : /\ st'[u].learn_count = st[u].learn_count
                         /\ st[u].version >= 1 => st'[u].version >= 1
                         /\ u = s => st'[u].version >= 1
  BY <1>1, <1>2, <1>3, <1>4 DEF x
<1>9. \A y \in pending' : Backs(y)
  <2>1. ASSUME NEW y \in pending PROVE Backs(y)
    <3>1. y.from \in Servers /\ st[y.from].version >= 1 /\ (y.kind # "LEARN" => \E z \in props : z.id = y.id)
      BY DEF Inv, TypeOK, CallsBacked, Calls
    <3> QED BY <1>8, <3>1 DEF Backs
  <2>2. ASSUME NEW y \in RequestCalls(s, p) PROVE Backs(y)
    <3>1. p \in props'
      OBVIOUS
    <3> QED BY <1>6, <1>8, <3>1 DEF Backs
  <2> QED BY <2>1, <2>2
<1>10. \A u \in Servers : LearnCalls(pending', u) = LearnCalls(pending, u)
  BY <1>6 DEF LearnCalls
<1> QED
  BY <1>7, <1>8, <1>9, <1>10, Preserved

\* A proposal's request is a packet.
LEMMA RequestIs ==
  ASSUME Inv, NEW s \in Servers, NEW t \in Topics, NEW value,
         NEW type \in {"NORMAL", "ADD"}, NEW the_serv
  PROVE  RequestPkt(Proposal(s, t, value, type, the_serv)) \in Pkts
<1>1. st[s] \in States /\ s \in Int
  BY Bounds DEF Inv, TypeOK, Servers
<1>2. <<st[s].id, s>> \in Ids /\ st[s].version \in Int
  BY <1>1, StateFields DEF Ids
<1> QED
  BY <1>2 DEF RequestPkt, Proposal, RequestPkts, Pkts

\* s_ud_client_update of a proposer keeps the invariant.
LEMMA StartNormalKeeps ==
  ASSUME Inv, NEW s \in Servers, NEW x \in NormalTopics, StartNormal(s, <<x, 0>>)
  PROVE  Inv'
<1> DEFINE t == <<x, 0>>
           value == start.values[s][started[s] + 1]
           p == Proposal(s, t, value, "NORMAL", 0)
<1>1. t \in Topics /\ t \notin VersionTopics /\ Vals(t) = SUBSET Nat
  BY NormalVals
<1>2. value \in Vals(t)
  <2>1. start \in Starts /\ started[s] \in Nat /\ started[s] < Len(start.values[s])
    BY DEF StartNormal, Inv, TypeOK
  <2>2. start.values[s] \in Seq(SUBSET Nat)
    BY <2>1, Bounds
  <2>3. started[s] + 1 \in DOMAIN start.values[s]
    BY <2>1, <2>2
  <2> QED BY <1>1, <2>2, <2>3
<1>3. /\ IsIn(st[s], s) /\ started' = [started EXCEPT ![s] = @ + 1]
      /\ st' = [st EXCEPT ![s].id = @ + 1]
      /\ props' = props \cup {p} /\ pending' = pending \cup RequestCalls(s, p)
      /\ Serve(s, UpdateStart, chan, ToAll(ActiveMembers(s), RequestPkt(p)))
      /\ learns' = learns /\ start' = start
  BY DEF StartNormal
<1> HIDE DEF t, value
<1>4. RequestPkt(p) \in Pkts
  BY <1>1, RequestIs
<1>5. chan' \in Chans
  <2>1. chan \in Chans /\ ToAll(ActiveMembers(s), RequestPkt(p)) \in Outs
    BY <1>4, OutsAre DEF Inv, TypeOK, Chans, Outs
  <2> QED BY <1>3, <2>1, Served
<1>6. /\ start' \in Starts /\ started' \in [Servers -> Nat] /\ learns' \in [Servers -> Nat]
      /\ 0 \in Nat
  BY <1>3 DEF Inv, TypeOK
<1>7. PICK y : y = p
  OBVIOUS
<1> QED
  BY <1>1, <1>2, <1>3, <1>5, <1>6, <1>7, Started

\* So does that of a server that asks to be added.
LEMMA AskToJoinKeeps ==
  ASSUME Inv, NEW s \in Servers, AskToJoin(s)
  PROVE  Inv'
<1> DEFINE out == ToAll({start.contact[s]}, [fun |-> "ADD_ME"])
<1>1. /\ Serve(s, UpdateStart, chan, out)
      /\ UNCHANGED <<start, st, props, pending, started, learns>>
  BY DEF AskToJoin
<1>2. [fun |-> "ADD_ME"] \in Pkts
  BY DEF Pkts, OtherPkts
<1>3. chan \in Chans /\ out \in Outs
  BY <1>2, OutsAre DEF Inv, TypeOK, Chans, Outs
<1> HIDE DEF out
<1>4. chan' \in Chans
  BY <1>1, <1>3, Served
<1>5. start' \in Starts /\ started' \in [Servers -> Nat] /\ learns' \in [Servers -> Nat]
  BY <1>1 DEF Inv, TypeOK
<1> QED
  BY <1>1, <1>4, <1>5, OnlyPackets

\* The learn calls of a server that asks are as many as its members.
LEMMA LearnAllKeeps ==
  ASSUME Inv, NEW s \in Servers, LearnAll(s)
  PROVE  Inv'
<1> DEFINE x == st[s]
           id == <<learns'[s], 0>>
           D == ActiveMembers(s)
           new == {Call("LEARN", s, d, id) : d \in D}
           empty == [t \in Topics |-> <<>>]
           y == [x EXCEPT !.learn = empty, !.learn_count = LearnCount(s)]
           pkt == [fun |-> "LEARN_REQUEST", id |-> id, version |-> x.version]
<1>1. /\ x.version > 0 /\ ~\E c \in pending : c.kind = "LEARN" /\ c.from = s
      /\ learns' = [learns EXCEPT ![s] = @ + 1]
      /\ pending' = pending \cup new
      /\ Serve(s, UpdateLearn, chan, ToAll(D, pkt))
      /\ props' = props /\ started' = started /\ start' = start
  BY DEF LearnAll
<1>2. x \in States /\ st \in [Servers -> States]
  BY DEF Inv, TypeOK
<1>3. st' = [st EXCEPT ![s] = y]
  BY <1>2 DEF LearnAll
<1>4. learns' \in [Servers -> Nat] /\ learns'[s] \in Nat /\ id \in Ids
  BY <1>1 DEF Inv, TypeOK, Ids
<1> HIDE DEF x, id
<1>5. /\ x.version >= 1 /\ x.version \in Int /\ D \subseteq Servers
      /\ IsFiniteSet(D) /\ Cardinality(D) \in Int
      /\ LearnCount(s) = Cardinality(D)
  <2>1. /\ x.version >= 1 /\ x.version \in Int /\ x.servs \subseteq Servers
        /\ IsFiniteSet(x.servs)
    BY <1>1, <1>2, StateFields, Bounds
  <2>2. D \subseteq x.servs
    BY DEF ActiveMembers, x
  <2> HIDE DEF D
  <2>3. IsFiniteSet(D) /\ Cardinality(D) \in Nat
    BY <2>1, <2>2, FS_Subset, FS_CardinalityType
  <2> QED BY <2>1, <2>2, <2>3 DEF LearnCount, D
<1> HIDE DEF D
<1>6. y \in States /\ y.version = x.version /\ y.learn_count = Cardinality(D)
  <2>1. empty \in LearnTables
    <3>1. \A S : <<>> \in Seq(S)
      OBVIOUS
    <3> QED BY <3>1 DEF LearnTables
  <2> HIDE DEF empty
  <2> QED BY <1>2, <1>5, <2>1 DEF States
<1> HIDE DEF y
<1>7. chan' \in Chans
  <2>1. pkt \in Pkts
    BY <1>4, <1>5 DEF Pkts, OtherPkts
  <2> HIDE DEF pkt
  <2>2. chan \in Chans /\ ToAll(D, pkt) \in Outs
    BY <2>1, OutsAre DEF Inv, TypeOK, Chans, Outs
  <2> QED BY <1>1, <2>2, Served
<1>8. \A c \in new : c \in Calls /\ c.kind = "LEARN" /\ c.from = s
  BY <1>4, <1>5 DEF Call, Calls
<1>9. IsFiniteSet(new) /\ Cardinality(new) = Cardinality(D)
  <2> DEFINE f == [d \in D |-> Call("LEARN", s, d, id)]
  <2>1. f \in Bijection(D, new)
    <3>1. f \in [D -> new] /\ \A d, e \in D : f[d] = f[e] => d = e
      BY DEF Call
    <3>2. \A c \in new : \E d \in D : f[d] = c
      OBVIOUS
    <3> HIDE DEF new, f
    <3>3. f \in Injection(D, new)
      BY <3>1 DEF Injection, IsInjective
    <3>4. f \in Surjection(D, new)
      BY <3>1, <3>2 DEF Surjection
    <3> QED BY <3>3, <3>4 DEF Bijection
  <2> HIDE DEF new, f
  <2> QED BY <1>5, <2>1, FS_Bijection DEF ExistsBijection
<1> HIDE DEF new
<1>10. TypeOK'
  BY <1>1, <1>3, <1>4, <1>6, <1>7, <1>8 DEF Inv, TypeOK, Chans, Outs
<1>11. /\ st'[s] = y
       /\ \A t \in Servers : t # s => st'[t] = st[t]
  BY <1>2, <1>3
<1>12. CallsBacked'
  <2>1. ASSUME NEW c \in pending'
        PROVE  st'[c.from].version >= 1 /\ (c.kind # "LEARN" => \E p \in props' : p.id = c.id)
    <3>1. CASE c \in new
      BY <1>5, <1>6, <1>8, <1>11, <3>1
    <3>2. CASE c \in pending
      <4>1. c.from \in Servers /\ st[c.from].version >= 1
        BY <3>2 DEF Inv, TypeOK, CallsBacked, Calls
      <4>2. st'[c.from].version >= 1
        BY <1>5, <1>6, <1>11, <4>1
      <4> QED BY <1>1, <3>2, <4>2 DEF Inv, CallsBacked
    <3> QED BY <1>1, <3>1, <3>2
  <2> QED BY <2>1 DEF CallsBacked
<1>13. ASSUME NEW t \in Servers
       PROVE  /\ IsFiniteSet(LearnCalls(pending', t))
              /\ st'[t].learn_count = Cardinality(LearnCalls(pending', t))
  <2>1. CASE t = s
    <3>1. LearnCalls(pending', t) = new
      BY <1>1, <1>8, <2>1 DEF LearnCalls
    <3> QED BY <1>6, <1>9, <1>11, <2>1, <3>1
  <2>2. CASE t # s
    <3>1. LearnCalls(pending', t) = LearnCalls(pending, t)
      BY <1>1, <1>8, <2>2 DEF LearnCalls
    <3>2. IsFiniteSet(LearnCalls(pending, t)) /\ st[t].learn_count = Cardinality(LearnCalls(pending, t))
      BY DEF Inv, LearnCountExact, LearnCalls
    <3> QED BY <1>11, <2>2, <3>1, <3>2
  <2> QED BY <2>1, <2>2
<1>14. LearnCountExact'
  BY <1>13 DEF LearnCountExact, LearnCalls
<1> QED
  BY <1>10, <1>12, <1>13, <1>14 DEF Inv

\* The next version has the sender as its new member.
LEMMA NextVersion ==
  ASSUME NEW p \in States, NEW s \in Servers, NEW q \in Servers, IsIn(p, s), ~IsIn(p, q)
  PROVE  /\ VersionTopic(p.version + 1) \in Topics
         /\ p.servs \cup {q} \in Vals(VersionTopic(p.version + 1))
<1>1. /\ p.version \in Nat /\ p.version <= N /\ p.servs \subseteq Servers
      /\ IsFiniteSet(p.servs) /\ Cardinality(p.servs) = p.version
  BY StateFields
<1>2. p.version >= 1
  BY MemberHasVersion DEF IsIn
<1>3. p.version + 1 \in 2..(N + 1)
  BY <1>1, <1>2, Bounds
<1>4. Cardinality(p.servs \cup {q}) = p.version + 1
  <2>1. PICK S : S = p.servs
    OBVIOUS
  <2>2. IsFiniteSet(S) /\ q \notin S
    BY <1>1, <2>1 DEF IsIn
  <2>3. Cardinality(S \cup {q}) = Cardinality(S) + 1
    BY <2>2, FS_AddElement
  <2> QED BY <1>1, <2>1, <2>3
<1>5. p.servs \cup {q} \in Groups(p.version + 1)
  BY <1>1, <1>4 DEF Groups
<1> QED
  BY <1>3, <1>5, VersionVals

\* ireceive_add keeps the invariant.
LEMMA ReceiveAddKeeps ==
  ASSUME Inv, NEW q \in Servers, NEW s \in Servers, NEW m, ReceiveAdd(q, s, m)
  PROVE  Inv'
<1> DEFINE x == st[s]
           t == VersionTopic(x.version + 1)
           value == x.servs \cup {q}
           p == Proposal(s, t, value, "ADD", q)
<1>1. Arrives(q, s, m) /\ start' = start /\ started' = started /\ learns' = learns
  BY DEF ReceiveAdd, driverVars
<1>2. x \in States /\ st \in [Servers -> States] /\ TypeOK
  BY DEF Inv, TypeOK
<1>3. start' \in Starts /\ started' \in [Servers -> Nat] /\ learns' \in [Servers -> Nat]
  BY <1>1, <1>2 DEF TypeOK
<1>4. CASE IsIn(x, s) /\ ~IsIn(x, q)
  <2>1. t \in Topics /\ value \in Vals(t)
    <3> HIDE DEF x
    <3> QED BY <1>2, <1>4, NextVersion
  <2>2. /\ st' = [st EXCEPT ![s].id = @ + 1]
        /\ props' = props \cup {p} /\ pending' = pending \cup RequestCalls(s, p)
        /\ Handled(q, s, ToAll(ActiveMembers(s), RequestPkt(p)))
    BY <1>4 DEF ReceiveAdd
  <2>3. q \in Nat
    BY Bounds DEF Servers
  <2> HIDE DEF t, value
  <2>4. RequestPkt(p) \in Pkts
    BY <2>1, RequestIs
  <2>5. chan' \in Chans
    <3>1. ToAll(ActiveMembers(s), RequestPkt(p)) \in Outs
      BY <2>4, OutsAre
    <3> HIDE DEF x, p
    <3> QED BY <1>1, <1>2, <2>2, <3>1, HandledIs
  <2>6. PICK y : y = p
    OBVIOUS
  <2> QED BY <1>3, <1>4, <2>1, <2>2, <2>3, <2>5, <2>6, Started
<1>5. CASE ~(IsIn(x, s) /\ ~IsIn(x, q))
  <2> DEFINE d == [x EXCEPT !.id = IF IsIn(x, s) THEN @ + 1 ELSE @]
  <2>1. /\ st' = [st EXCEPT ![s] = d]
        /\ Handled(q, s, Nothing) /\ props' = props /\ pending' = pending
    BY <1>2, <1>5 DEF ReceiveAdd
  <2>2. chan' \in Chans
    BY <1>1, <1>2, <2>1, OutsAre, HandledIs
  <2>3. d \in States /\ d.version = x.version /\ d.learn_count = x.learn_count
    <3> HIDE DEF x
    <3>1. x.id + 1 \in Int /\ x.id \in Int
      BY <1>2, StateFields
    <3> QED BY <1>2, <3>1 DEF States
  <2> HIDE DEF d
  <2>4. d.learn_count = st[s].learn_count /\ (st[s].version >= 1 => d.version >= 1)
    BY <2>3
  <2> QED BY <1>3, <2>1, <2>2, <2>3, <2>4, StateChanged
<1> QED
  BY <1>4, <1>5

\* What a request is answered with.
LEMMA ResponseIs ==
  ASSUME NEW p \in States, NEW m \in RequestPkts
  PROVE  Response(p, m) \in Pkts /\ BadVersion(m) \in Pkts
<1> DEFINE arr == p.accept[m.topic]
           below == {i \in DOMAIN arr : IdGt(m.id, arr[i].id)}
           best == {i \in below : \A j \in below :
                      IdGt(arr[i].id, arr[j].id) \/ (arr[i].id = arr[j].id /\ i <= j)}
           w == CHOOSE i \in best : TRUE
           dump == IF m.type = "NORMAL" THEN <<>> ELSE DumpAccept(p)
           max_id == IF best = {} THEN NoId ELSE arr[w].id
           value == IF best = {} THEN NoValue ELSE arr[w].value
<1>1. m.topic \in Topics /\ m.id \in Ids
  BY DEF RequestPkts
<1>2. arr \in Seq(AcceptEntries(m.topic))
  BY <1>1, StateFields DEF AcceptTables
<1>3. dump \in Seq(Entries) /\ <<>> \in Seq(Entries)
  BY DumpAcceptIs
<1>4. NoId \in Ids /\ NoValue \in SUBSET Nat
  BY DEF NoId, NoValue, Ids
<1>5. best # {} => w \in DOMAIN arr
  OBVIOUS
<1>d. Response(p, m) = [fun |-> "RESPONSE", id |-> m.id, bad |-> FALSE, max_id |-> max_id,
                        value |-> value, dump |-> dump]
  BY DEF Response
<1> HIDE DEF arr, best, w
<1>6. ASSUME NEW i \in DOMAIN arr
      PROVE  arr[i].id \in Ids /\ arr[i].value \in SUBSET Nat
  <2>1. arr[i] \in AcceptEntries(m.topic)
    BY <1>2
  <2> QED BY <1>1, <2>1, NormalVals DEF AcceptEntries
<1>7. max_id \in Ids /\ value \in SUBSET Nat
  BY <1>4, <1>5, <1>6
<1> HIDE DEF dump, max_id, value
<1>8. Response(p, m) \in ResponsePkts
  BY <1>1, <1>3, <1>7, <1>d DEF ResponsePkts
<1>9. BadVersion(m) \in ResponsePkts
  BY <1>1, <1>3, <1>4 DEF BadVersion, ResponsePkts
<1> QED
  BY <1>8, <1>9 DEF Pkts

\* ireceive_request keeps the invariant.
LEMMA ReceiveRequestKeeps ==
  ASSUME Inv, NEW q \in Servers, NEW s \in Servers, NEW m, ReceiveRequest(q, s, m)
  PROVE  Inv'
<1> DEFINE x == st[s]
<1>1. /\ Arrives(q, s, m) /\ m.fun = "REQUEST"
      /\ UNCHANGED <<props, pending, start, started, learns>>
  BY DEF ReceiveRequest, driverVars
<1>2. x \in States /\ st \in [Servers -> States] /\ TypeOK
      /\ start' \in Starts /\ started' \in [Servers -> Nat] /\ learns' \in [Servers -> Nat]
  BY <1>1 DEF Inv, TypeOK
<1>3. m \in RequestPkts
  BY <1>1, <1>2, ArrivesIs, Kinds
<1>4. Response(x, m) \in Pkts /\ BadVersion(m) \in Pkts
  <2> HIDE DEF x
  <2> QED BY <1>2, <1>3, ResponseIs
<1>5. ToAll({q}, Response(x, m)) \in Outs /\ ToAll({q}, BadVersion(m)) \in Outs
  BY <1>4, OutsAre
<1>6. /\ m.topic \in Topics /\ m.id \in Ids /\ NewVersion(m.topic) \in Int
      /\ x.id + 1 \in Int /\ x.response \in [Topics -> Ids] /\ x.response_version \in Int
  BY <1>2, <1>3, NormalVals, StateFields DEF RequestPkts
<1>7. CASE /\ st' = [st EXCEPT ![s].id = @ + 1]
           /\ Handled(q, s, ToAll({q}, BadVersion(m)))
  <2> DEFINE d == [x EXCEPT !.id = @ + 1]
  <2>1. st' = [st EXCEPT ![s] = d]
    BY <1>2, <1>7
  <2>2. chan' \in Chans
    BY <1>1, <1>2, <1>5, <1>7, HandledIs
  <2>3. d \in States /\ d.version = x.version /\ d.learn_count = x.learn_count
    <3> HIDE DEF x
    <3> QED BY <1>2, <1>6 DEF States
  <2> HIDE DEF d
  <2>4. d.learn_count = st[s].learn_count /\ (st[s].version >= 1 => d.version >= 1)
    BY <2>3
  <2> QED BY <1>1, <1>2, <2>1, <2>2, <2>3, <2>4, StateChanged
<1>8. CASE /\ st' = [st EXCEPT
                ![s].id = @ + 1,
                ![s].response_version = IF m.type = "NORMAL" THEN @ ELSE NewVersion(m.topic),
                ![s].response[m.topic] = IF IdGt(m.id, @) THEN m.id ELSE @]
           /\ Handled(q, s, ToAll({q}, Response(x, m)))
  <2> DEFINE r == [x.response EXCEPT ![m.topic] = IF IdGt(m.id, @) THEN m.id ELSE @]
             v == IF m.type = "NORMAL" THEN x.response_version ELSE NewVersion(m.topic)
             d == [x EXCEPT !.id = x.id + 1, !.response_version = v, !.response = r]
  <2>1. st' = [st EXCEPT ![s] = d]
    BY <1>2, <1>8 DEF States
  <2>2. chan' \in Chans
    BY <1>1, <1>2, <1>5, <1>8, HandledIs
  <2>3. r \in [Topics -> Ids] /\ v \in Int
    <3> HIDE DEF x
    <3> QED BY <1>6
  <2> HIDE DEF r, v
  <2>4. d \in States /\ d.version = x.version /\ d.learn_count = x.learn_count
    <3> HIDE DEF x
    <3> QED BY <1>2, <1>6, <2>3 DEF States
  <2> HIDE DEF d
  <2>5. d.learn_count = st[s].learn_count /\ (st[s].version >= 1 => d.version >= 1)
    BY <2>4
  <2> QED BY <1>1, <1>2, <2>1, <2>2, <2>4, <2>5, StateChanged
<1> QED
  BY <1>7, <1>8 DEF ReceiveRequest

\* ireceive_accept keeps the invariant.
LEMMA ReceiveAcceptKeeps ==
  ASSUME Inv, NEW q \in Servers, NEW s \in Servers, NEW m, ReceiveAccept(q, s, m)
  PROVE  Inv'
<1> DEFINE d == IAccept(st[s], m.topic, m.id, m.value, m.version)
<1>1. /\ Arrives(q, s, m) /\ m.fun = "ACCEPT" /\ Handled(q, s, Nothing)
      /\ UNCHANGED <<props, pending, start, started, learns>>
      /\ st' = [st EXCEPT ![s] = d]
  BY DEF ReceiveAccept, driverVars
<1>2. st[s] \in States /\ TypeOK /\ start' \in Starts /\ started' \in [Servers -> Nat] /\ learns' \in [Servers -> Nat]
  BY <1>1 DEF Inv, TypeOK
<1>3. m \in AcceptPkts
  BY <1>1, <1>2, ArrivesIs, Kinds
<1>4. m.topic \in Topics /\ m.value \in Vals(m.topic) /\ m.id \in Ids
  BY <1>3 DEF AcceptPkts
<1>5. d \in States /\ d.version = st[s].version /\ d.learn_count = st[s].learn_count
  BY <1>2, <1>4, IAcceptIs
<1> HIDE DEF d
<1>6. chan' \in Chans
  BY <1>1, <1>2, OutsAre, HandledIs
<1>7. st[s].version >= 1 => d.version >= 1
  BY <1>5
<1> QED
  BY <1>1, <1>2, <1>5, <1>6, <1>7, StateChanged

\* What a reply leaves of a proposal.
LEMMA NotedIs ==
  ASSUME NEW p \in Props, NEW m, m.max_id \in Ids, m.value \in SUBSET Nat
  PROVE  /\ Noted(p, m) \in Props
         /\ Noted(p, m).id = p.id /\ Noted(p, m).type = p.type
         /\ Noted(p, m).the_serv = p.the_serv
BY DEF Noted, Props

\* Counting a reply leaves a proposal.
LEMMA CountIs ==
  ASSUME NEW p \in Props
  PROVE  LET c == [p EXCEPT !.count = @ + 1]
         IN c \in Props /\ c.id = p.id /\ c.type = p.type /\ c.the_serv = p.the_serv
<1>1. p.count + 1 \in Int
  BY DEF Props
<1> QED
  BY <1>1 DEF Props

\* An ordinary proposal may take over any value.
LEMMA CountedIs ==
  ASSUME NEW p \in Props, p.type = "NORMAL", NEW m, m.max_id \in Ids, m.value \in SUBSET Nat
  PROVE  Counted(p, m) \in Props /\ Counted(p, m).id = p.id
<1> DEFINE n == Noted(p, m)
<1>1. n \in Props /\ n.id = p.id /\ n.type = "NORMAL"
  BY NotedIs
<1>2. Counted(p, m) = [n EXCEPT !.count = n.count + 1,
                                !.value = IF n.max_id = p.max_id THEN n.value ELSE n.rvalue]
  BY DEF Counted
<1> HIDE DEF n
<1>3. n.topic \in Topics /\ n.topic \notin VersionTopics /\ n.count + 1 \in Int
      /\ n.value \in SUBSET Nat /\ n.rvalue \in SUBSET Nat
  BY <1>1 DEF Props
<1>4. Vals(n.topic) = SUBSET Nat
  BY <1>3, NormalVals
<1>5. PICK val \in SUBSET Nat : val = IF n.max_id = p.max_id THEN n.value ELSE n.rvalue
  BY <1>3
<1>6. PICK k \in Int : k = n.count + 1
  BY <1>3
<1>7. Counted(p, m) = [n EXCEPT !.count = k, !.value = val] /\ val \in Vals(n.topic)
  BY <1>2, <1>4, <1>5, <1>6
<1>8. [n EXCEPT !.count = k, !.value = val] \in Props
      /\ [n EXCEPT !.count = k, !.value = val].id = n.id
  BY <1>1, <1>5, <1>6, <1>7 DEF Props
<1> QED
  BY <1>1, <1>7, <1>8

\* The accept request of a proposal is a packet.
LEMMA AcceptPktIs ==
  ASSUME NEW p \in Props
  PROVE  AcceptPkt(p) \in Pkts
<1>1. AcceptPkt(p) \in AcceptPkts
  BY DEF AcceptPkt, AcceptPkts, Props
<1> QED
  BY <1>1 DEF Pkts

\* iresponse of an ordinary proposal keeps the invariant.
LEMMA ResponseNormalKeeps ==
  ASSUME Inv, NEW q \in Servers, NEW s \in Servers, NEW m \in ResponsePkts, Arrives(q, s, m),
         NEW c \in pending, c.kind = "REQUEST", ProposalOf(c).type = "NORMAL",
         ResponseNormal(q, s, m, c), UNCHANGED <<start, started, learns>>
  PROVE  Inv'
<1> DEFINE old == ProposalOf(c)
           p == Counted(old, m)
<1>1. old \in Props /\ old.id = c.id /\ c.kind # "LEARN"
  BY ProposalIs
<1>2. m.max_id \in Ids /\ m.value \in SUBSET Nat
  BY DEF ResponsePkts
<1>3. TypeOK /\ start' \in Starts /\ started' \in [Servers -> Nat] /\ learns' \in [Servers -> Nat]
  BY DEF Inv, TypeOK
<1>4. p \in Props /\ p.id = c.id
  <2> HIDE DEF old
  <2> QED BY <1>1, <1>2, CountedIs DEF old
<1>5. st' = st
  BY DEF ResponseNormal
<1>6. CASE CallOver(c, old, {}) /\ Handled(q, s, Nothing)
  <2>1. chan' \in Chans
    BY <1>3, <1>6, OutsAre, HandledIs
  <2> HIDE DEF old
  <2> QED BY <1>1, <1>3, <1>5, <1>6, <2>1, OverOnly
<1>7. CASE /\ CallOver(c, p, {})
           /\ \/ Handled(q, s, ToAll(ActiveMembers(s), AcceptPkt(p)))
              \/ Handled(q, s, Nothing)
  <2> HIDE DEF p
  <2>1. ToAll(ActiveMembers(s), AcceptPkt(p)) \in Outs /\ Nothing \in Outs
    BY <1>4, AcceptPktIs, OutsAre
  <2>2. chan' \in Chans
    BY <1>3, <1>7, <2>1, HandledIs
  <2> QED BY <1>1, <1>3, <1>4, <1>5, <1>7, <2>2, OverOnly
<1> QED
  BY <1>6, <1>7 DEF ResponseNormal

\* What i_receive_response_add computes from a reply, or from none.
LEMMA AddResultIs ==
  ASSUME Inv, NEW c \in pending, c.kind = "REQUEST", ProposalOf(c).type # "NORMAL",
         NEW q \in Servers, NEW m, m.max_id \in Ids, m.value \in SUBSET Nat,
         m.dump \in Seq(Entries), NEW r, r = AddResult(c.from, q, m, c)
  PROVE  /\ r.p \in Props /\ r.p.id = c.id /\ r.p.the_serv \in Servers
         /\ r.st \in Learners(st[c.from].learn_count)
         /\ AddOut(r) \in Outs
<1> DEFINE s == c.from
           x == st[s]
           old == ProposalOf(c)
           p == [Noted(old, m) EXCEPT !.count = @ + 1]
           learnt == LearnTable(x, s, q, m.dump)
<1>1. old \in Props /\ old.id = c.id
  BY ProposalIs
<1>2. old.type = "ADD" /\ old.the_serv \in Servers
  BY <1>1 DEF Props
<1>3. p \in Props /\ p.id = c.id /\ p.the_serv \in Servers
  <2> HIDE DEF old
  <2> QED BY <1>1, <1>2, NotedIs, CountIs
<1>4. x \in Learners(x.learn_count)
  BY DEF Inv, TypeOK, CallsBacked, Learners, Calls
<1>5. learnt \in Learners(x.learn_count)
  <2> HIDE DEF x, s
  <2> QED BY <1>4, LearnTableIs
<1>d. /\ r.p = p
      /\ r.st = learnt \/ r.st = Pruned(learnt)
  BY DEF AddResult
<1> HIDE DEF p, learnt
<1>6. Pruned(learnt) \in Learners(x.learn_count)
  BY <1>5, PrunedIs DEF Learners
<1>7. r.st \in Learners(x.learn_count)
  BY <1>5, <1>6, <1>d
<1>8. AddOut(r) \in Outs
  <2>1. r.st \in States /\ r.st.version >= 1
    BY <1>7 DEF Learners
  <2>2. /\ r.st.version \in 1..N /\ r.st.servs \in Groups(r.st.version)
        /\ r.st.servs \in SUBSET Nat
    BY <2>1, StateFields, Bounds
  <2>3. DumpLearn(r.st) \in Seq(Entries)
    BY <2>1, DumpLearnIs
  <2>4. r.p.id \in Ids
    BY <1>3, <1>d DEF Props
  <2>5. AddAcceptPkt(r.p, r.st) \in AddAcceptPkts
    BY <2>2, <2>3, <2>4 DEF AddAcceptPkt, AddAcceptPkts
  <2>6. AddAcceptPkt(r.p, r.st) \in Pkts
    BY <2>5 DEF Pkts
  <2> QED BY <2>6, OutsAre DEF AddOut
<1> QED
  BY <1>3, <1>7, <1>8, <1>d

\* Its effects keep the invariant.
LEMMA AddStepKeeps ==
  ASSUME Inv, NEW c \in pending, c.kind = "REQUEST",
         NEW r, r.p \in Props, r.p.id = c.id, r.p.the_serv \in Servers,
         r.st \in Learners(st[c.from].learn_count), AddStep(c.from, r, c),
         chan' \in Chans, start' \in Starts, started' \in [Servers -> Nat], learns' \in [Servers -> Nat]
  PROVE  Inv'
<1> DEFINE more == IF r.go THEN {Call("ADD_ACCEPT", c.from, r.p.the_serv, r.p.id)} ELSE {}
           d == r.st
           p == r.p
<1>1. st' = [st EXCEPT ![c.from] = d] /\ CallOver(c, p, more)
  BY DEF AddStep
<1>2. d \in States /\ d.learn_count = st[c.from].learn_count /\ d.version >= 1
  BY DEF Learners
<1>3. c.from \in Servers /\ c.id \in Ids
  BY DEF Inv, TypeOK, Calls
<1>4. more \in SUBSET Calls /\ \A x \in more : x.kind # "LEARN" /\ x.id = c.id /\ x.from = c.from
  BY <1>3 DEF Call, Calls
<1>5. p \in Props /\ p.id = c.id /\ c.kind # "LEARN"
  OBVIOUS
<1> HIDE DEF more, d, p
<1> QED
  BY <1>1, <1>2, <1>4, <1>5, OverIs

\* ireceive_response keeps the invariant.
LEMMA ReceiveResponseKeeps ==
  ASSUME Inv, NEW q \in Servers, NEW s \in Servers, NEW m, ReceiveResponse(q, s, m)
  PROVE  Inv'
<1> DEFINE c == Call("REQUEST", s, q, m.id)
<1>1. /\ Arrives(q, s, m) /\ m.fun = "RESPONSE" /\ c \in pending
      /\ UNCHANGED <<start, started, learns>>
      /\ ProposalOf(c).type = "NORMAL" => ResponseNormal(q, s, m, c)
      /\ ProposalOf(c).type # "NORMAL" => ResponseAdd(q, s, m, c)
  BY DEF ReceiveResponse, driverVars
<1>2. TypeOK /\ start' \in Starts /\ started' \in [Servers -> Nat] /\ learns' \in [Servers -> Nat]
  BY <1>1 DEF Inv, TypeOK
<1>3. m \in ResponsePkts
  BY <1>1, <1>2, ArrivesIs, Kinds
<1>4. c.kind = "REQUEST" /\ c.kind # "LEARN" /\ c.from = s /\ c.to = q
  BY DEF Call
<1> HIDE DEF c
<1>5. CASE ProposalOf(c).type = "NORMAL"
  BY <1>1, <1>3, <1>4, <1>5, ResponseNormalKeeps
<1>6. CASE ProposalOf(c).type # "NORMAL"
  <2>1. CASE m.bad
    <3>1. CallOver(c, ProposalOf(c), {}) /\ Handled(q, s, Nothing) /\ st' = st
      BY <1>1, <1>6, <2>1 DEF ResponseAdd
    <3>2. chan' \in Chans
      BY <1>1, <1>2, <3>1, OutsAre, HandledIs
    <3>3. PICK p \in Props : p = ProposalOf(c) /\ p.id = c.id
      BY <1>1, <1>4, ProposalIs
    <3> QED BY <1>1, <1>2, <1>4, <3>1, <3>2, <3>3, OverOnly
  <2>2. CASE ~m.bad
    <3>1. m.max_id \in Ids /\ m.value \in SUBSET Nat /\ m.dump \in Seq(Entries)
      BY <1>3 DEF ResponsePkts
    <3>2. PICK r : r = AddResult(s, q, m, c)
      OBVIOUS
    <3>3. AddStep(s, r, c) /\ Handled(q, s, AddOut(r))
      BY <1>1, <1>6, <2>2, <3>2 DEF ResponseAdd
    <3>4. /\ r.p \in Props /\ r.p.id = c.id /\ r.p.the_serv \in Servers
          /\ r.st \in Learners(st[c.from].learn_count) /\ AddOut(r) \in Outs
      BY <1>1, <1>4, <1>6, <3>1, <3>2, AddResultIs
    <3>5. chan' \in Chans
      BY <1>1, <1>2, <3>3, <3>4, HandledIs
    <3>6. AddStep(c.from, r, c)
      BY <1>4, <3>3
    <3> QED BY <1>1, <1>2, <1>4, <3>4, <3>5, <3>6, AddStepKeeps
  <2> QED BY <2>1, <2>2
<1> QED
  BY <1>5, <1>6

\* ireceive_add_accept keeps the invariant.
LEMMA ReceiveAddAcceptKeeps ==
  ASSUME Inv, NEW q \in Servers, NEW s \in Servers, NEW m, ReceiveAddAccept(q, s, m)
  PROVE  Inv'
<1> DEFINE x == st[s]
           y == TakeOver(x, s, m)
           d == AcceptTable(y, m.dump)
           pkt == [fun |-> "ADDED", id |-> m.id]
<1>1. /\ Arrives(q, s, m) /\ m.fun = "ADD_ACCEPT" /\ Handled(q, s, ToAll({q}, pkt))
      /\ UNCHANGED <<props, pending, start, started, learns>>
      /\ st' = [st EXCEPT ![s] = d]
  BY DEF ReceiveAddAccept, driverVars
<1>2. x \in States /\ TypeOK /\ start' \in Starts /\ started' \in [Servers -> Nat] /\ learns' \in [Servers -> Nat]
  BY <1>1 DEF Inv, TypeOK
<1>3. m \in AddAcceptPkts
  BY <1>1, <1>2, ArrivesIs, Kinds
<1>4. /\ m.version \in 1..N /\ m.servs \in Groups(m.version) /\ m.servs \in SUBSET Nat
      /\ m.dump \in Seq(Entries) /\ m.id \in Ids
  BY <1>3 DEF AddAcceptPkts
<1>5. m.version \in Int /\ m.version >= 1 /\ m.version \in 0..N
  BY <1>4, Bounds
<1>6. y \in Holders(m.version, x.learn_count)
  <2> HIDE DEF x
  <2>1. y = [x EXCEPT !.version = m.version, !.servs = m.servs]
    BY DEF TakeOver
  <2>2. y \in States /\ y.version = m.version /\ y.learn_count = x.learn_count
    BY <1>2, <1>4, <1>5, <2>1 DEF States
  <2> QED BY <2>2 DEF Holders
<1>7. d \in Holders(m.version, x.learn_count)
  <2> HIDE DEF x, y
  <2> QED BY <1>4, <1>6, AcceptTableIs
<1> HIDE DEF d, y
<1>8. d \in States /\ d.version >= 1 /\ d.learn_count = st[s].learn_count
  BY <1>5, <1>7 DEF Holders
<1>9. pkt \in Pkts
  BY <1>4 DEF Pkts, OtherPkts
<1> HIDE DEF pkt
<1>10. ToAll({q}, pkt) \in Outs
  BY <1>9, OutsAre
<1>11. chan' \in Chans
  BY <1>1, <1>2, <1>10, HandledIs
<1> QED
  BY <1>1, <1>2, <1>8, <1>11, StateChanged

\* The accept request the proposer sends when the new member has answered.
LEMMA NewServOkIs ==
  ASSUME Inv, NEW c \in pending, c.kind # "LEARN", NEW s
  PROVE  NewServOk(s, c) \in Outs
BY ProposalIs, AcceptPktIs, OutsAre DEF NewServOk

\* i_add_new_serv_ok, after the answer, keeps the invariant.
LEMMA ReceiveAddedKeeps ==
  ASSUME Inv, NEW q \in Servers, NEW s \in Servers, NEW m, ReceiveAdded(q, s, m)
  PROVE  Inv'
<1> DEFINE c == Call("ADD_ACCEPT", s, q, m.id)
<1>1. /\ Arrives(q, s, m) /\ c \in pending /\ CallOver(c, ProposalOf(c), {})
      /\ Handled(q, s, NewServOk(s, c)) /\ UNCHANGED <<st, start, started, learns>>
  BY DEF ReceiveAdded, driverVars
<1>2. TypeOK /\ start' \in Starts /\ started' \in [Servers -> Nat] /\ learns' \in [Servers -> Nat]
  BY <1>1 DEF Inv, TypeOK
<1>3. c.kind # "LEARN"
  BY DEF Call
<1> HIDE DEF c
<1>4. NewServOk(s, c) \in Outs
  BY <1>1, <1>3, NewServOkIs
<1>5. chan' \in Chans
  BY <1>1, <1>2, <1>4, HandledIs
<1>6. PICK p \in Props : p = ProposalOf(c) /\ p.id = c.id
  BY <1>1, <1>3, ProposalIs
<1> QED
  BY <1>1, <1>2, <1>3, <1>5, <1>6, OverOnly

\* ireceive_learn_request keeps the invariant.
LEMMA ReceiveLearnRequestKeeps ==
  ASSUME Inv, NEW q \in Servers, NEW s \in Servers, NEW m, ReceiveLearnRequest(q, s, m)
  PROVE  Inv'
<1> DEFINE pkt == [fun |-> "LEARN", id |-> m.id, version |-> m.version, dump |-> DumpAccept(st[s])]
<1>1. /\ Arrives(q, s, m) /\ m.fun = "LEARN_REQUEST" /\ Handled(q, s, ToAll({q}, pkt))
      /\ UNCHANGED <<st, props, pending, start, started, learns>>
  BY DEF ReceiveLearnRequest, driverVars
<1>2. st[s] \in States /\ TypeOK /\ start' \in Starts /\ started' \in [Servers -> Nat] /\ learns' \in [Servers -> Nat]
  BY <1>1 DEF Inv, TypeOK
<1>3. m.id \in Ids /\ m.version \in Int
  BY <1>1, <1>2, ArrivesIs, Kinds
<1>4. DumpAccept(st[s]) \in Seq(Entries)
  BY <1>2, DumpAcceptIs
<1>5. pkt \in Pkts
  BY <1>3, <1>4 DEF Pkts, LearnPkts
<1> HIDE DEF pkt
<1>6. ToAll({q}, pkt) \in Outs
  BY <1>5, OutsAre
<1>7. chan' \in Chans
  BY <1>1, <1>2, <1>6, HandledIs
<1> QED
  BY <1>1, <1>2, <1>7, OnlyPackets

\* What the last answer leaves, or any other.
LEMMA LearnEndIs ==
  ASSUME NEW s, NEW k, NEW p \in Learners(k), LearnEnd(s, p)
  PROVE  \E d \in Learners(k) : st' = [st EXCEPT ![s] = d]
<1> DEFINE d == IF p.learn_count = 0 THEN Pruned(p) ELSE p
<1>1. st' = [st EXCEPT ![s] = d]
  BY DEF LearnEnd
<1>2. d \in Learners(k)
  BY PrunedIs DEF Learners
<1> HIDE DEF d
<1> QED
  BY <1>1, <1>2

\* ireceive_learn with a packet counts one call down.
LEMMA ReceiveLearnKeeps ==
  ASSUME Inv, NEW q \in Servers, NEW s \in Servers, NEW m, ReceiveLearn(q, s, m)
  PROVE  Inv'
<1> DEFINE c == Call("LEARN", s, q, m.id)
           k == st[s].learn_count - 1
<1>0. PICK p : p = LearnVotes(st[s], s, q, m)
  OBVIOUS
<1>1. /\ Arrives(q, s, m) /\ m.fun = "LEARN" /\ c \in pending /\ pending' = pending \ {c}
      /\ LearnEnd(s, p) \/ st' = [st EXCEPT ![s] = p]
      /\ Handled(q, s, Nothing) /\ UNCHANGED <<props, start, started, learns>>
  BY <1>0 DEF ReceiveLearn, driverVars
<1>2. st[s] \in States /\ TypeOK /\ start' \in Starts /\ started' \in [Servers -> Nat] /\ learns' \in [Servers -> Nat]
  BY <1>1 DEF Inv, TypeOK
<1>3. c.kind = "LEARN" /\ c.from = s
  BY DEF Call
<1> HIDE DEF c
<1>4. st[s].version >= 1
  BY <1>1, <1>3 DEF Inv, CallsBacked
<1>5. k \in Int /\ k + 1 = st[s].learn_count
  BY <1>2, StateFields
<1>6. st[s] \in Learners(k + 1)
  BY <1>2, <1>4, <1>5 DEF Learners
<1>7. m.dump \in Seq(Entries)
  BY <1>1, <1>2, ArrivesIs, Kinds DEF LearnPkts
<1> HIDE DEF k
<1>8. p \in Learners(k)
  BY <1>0, <1>5, <1>6, <1>7, LearnVotesIs
<1>9. PICK d \in Learners(k) : st' = [st EXCEPT ![s] = d]
  BY <1>1, <1>8, LearnEndIs
<1>10. d \in States /\ d.version >= 1 /\ d.learn_count = st[s].learn_count - 1
  BY <1>9 DEF Learners, k
<1>11. chan' \in Chans
  BY <1>1, <1>2, OutsAre, HandledIs
<1> QED
  BY <1>1, <1>2, <1>3, <1>9, <1>10, <1>11, LearnOver

\* A reply that no call waits for changes nothing else.
LEMMA LateReplyKeeps ==
  ASSUME Inv, NEW q \in Servers, NEW s \in Servers, NEW m, LateReply(q, s, m)
  PROVE  Inv'
<1>1. /\ Arrives(q, s, m) /\ Handled(q, s, Nothing)
      /\ UNCHANGED <<st, props, pending, start, started, learns>>
  BY DEF LateReply, driverVars
<1>2. TypeOK /\ start' \in Starts /\ started' \in [Servers -> Nat] /\ learns' \in [Servers -> Nat]
  BY <1>1 DEF Inv, TypeOK
<1>3. chan' \in Chans
  BY <1>1, <1>2, OutsAre, HandledIs
<1> QED
  BY <1>1, <1>2, <1>3, OnlyPackets

\* The callback of a call that has timed out keeps the invariant.
LEMMA TimeoutKeeps ==
  ASSUME Inv, NEW c \in pending, Timeout(c)
  PROVE  Inv'
<1> DEFINE s == c.from
<1>1. /\ UNCHANGED <<start, started, learns>>
      /\ \/ /\ c.kind = "REQUEST"
            /\ ProposalOf(c).type = "NORMAL" =>
                 /\ CallOver(c, ProposalOf(c), {}) /\ Serve(s, Expire, chan, Nothing) /\ st' = st
            /\ ProposalOf(c).type # "NORMAL" =>
                 /\ AddStep(s, AddResult(s, c.to, NoReply, c), c)
                 /\ Serve(s, Expire, chan, AddOut(AddResult(s, c.to, NoReply, c)))
         \/ /\ c.kind = "ADD_ACCEPT" /\ CallOver(c, ProposalOf(c), {})
            /\ Serve(s, Expire, chan, NewServOk(s, c)) /\ st' = st
         \/ /\ c.kind = "LEARN" /\ pending' = pending \ {c} /\ LearnEnd(s, LearnTimedOut(st[s]))
            /\ Serve(s, Expire, chan, Nothing) /\ props' = props
  BY DEF Timeout
<1>2. /\ TypeOK /\ start' \in Starts /\ started' \in [Servers -> Nat] /\ learns' \in [Servers -> Nat]
      /\ c.from \in Servers /\ c.to \in Servers /\ chan \in Chans
  BY <1>1 DEF Inv, TypeOK, Calls, Chans, Outs
<1>3. st[s] \in States /\ st[s].version >= 1
  BY <1>2 DEF Inv, TypeOK, CallsBacked
<1>4. CASE /\ c.kind # "LEARN" /\ CallOver(c, ProposalOf(c), {})
           /\ Serve(s, Expire, chan, Nothing) \/ Serve(s, Expire, chan, NewServOk(s, c))
           /\ st' = st
  <2>1. NewServOk(s, c) \in Outs /\ Nothing \in Outs
    BY <1>4, NewServOkIs, OutsAre
  <2>2. chan' \in Chans
    BY <1>2, <1>4, <2>1, Served
  <2>3. PICK p \in Props : p = ProposalOf(c) /\ p.id = c.id
    BY <1>4, ProposalIs
  <2> QED BY <1>2, <1>4, <2>2, <2>3, OverOnly
<1>5. CASE /\ c.kind = "REQUEST" /\ ProposalOf(c).type # "NORMAL"
           /\ AddStep(s, AddResult(s, c.to, NoReply, c), c)
           /\ Serve(s, Expire, chan, AddOut(AddResult(s, c.to, NoReply, c)))
  <2>1. PICK m : m = NoReply
    OBVIOUS
  <2>2. m.max_id \in Ids /\ m.value \in SUBSET Nat /\ m.dump \in Seq(Entries)
    BY <2>1 DEF NoReply, NoId, NoValue, Ids
  <2>3. PICK r : r = AddResult(c.from, c.to, m, c)
    OBVIOUS
  <2>4. /\ r.p \in Props /\ r.p.id = c.id /\ r.p.the_serv \in Servers
        /\ r.st \in Learners(st[c.from].learn_count) /\ AddOut(r) \in Outs
    BY <1>2, <1>5, <2>2, <2>3, AddResultIs
  <2>5. AddStep(c.from, r, c) /\ Serve(c.from, Expire, chan, AddOut(r))
    BY <1>5, <2>1, <2>3
  <2>6. chan' \in Chans
    BY <1>2, <2>4, <2>5, Served
  <2> QED BY <1>2, <1>5, <2>4, <2>5, <2>6, AddStepKeeps
<1>6. CASE /\ c.kind = "LEARN" /\ pending' = pending \ {c} /\ LearnEnd(s, LearnTimedOut(st[s]))
           /\ Serve(s, Expire, chan, Nothing) /\ props' = props
  <2> DEFINE k == st[s].learn_count - 1
  <2>1. PICK x \in States : x = st[s]
    BY <1>3
  <2>2. PICK p : p = LearnTimedOut(x)
    OBVIOUS
  <2>3. p \in Learners(k)
    <3>1. x.learn_count - 1 \in Int
      BY <2>1, StateFields
    <3>2. p \in States /\ p.version = x.version /\ p.learn_count = x.learn_count - 1
      BY <2>1, <2>2, <3>1 DEF LearnTimedOut, States
    <3> QED BY <1>3, <2>1, <3>2 DEF Learners
  <2>4. LearnEnd(s, p)
    BY <1>6, <2>1, <2>2
  <2> HIDE DEF k
  <2>5. PICK d \in Learners(k) : st' = [st EXCEPT ![s] = d]
    BY <2>3, <2>4, LearnEndIs
  <2>6. d \in States /\ d.version >= 1 /\ d.learn_count = st[c.from].learn_count - 1
    BY <2>5 DEF Learners, k
  <2>7. chan' \in Chans
    BY <1>2, <1>6, OutsAre, Served
  <2> QED BY <1>2, <1>6, <2>5, <2>6, <2>7, LearnOver
<1> QED
  BY <1>1, <1>4, <1>5, <1>6

-----------------------------------------------------------------------------
(* The specification.                                                       *)

\* Sequences of at most one element.
LEMMA Single ==
  ASSUME NEW S, NEW e \in S
  PROVE  <<e>> \in Seq(S) /\ <<>> \in Seq(S)
OBVIOUS

\* The first n servers.
LEMMA FirstServers ==
  ASSUME NEW n \in 0..N
  PROVE  1..n \in Groups(n) /\ 1..n \in SUBSET Nat
<1>1. n \in Nat /\ n <= N
  BY Bounds
<1>2. 1..n \subseteq Servers /\ 1..n \subseteq Nat
  BY <1>1, Bounds DEF Servers
<1>3. Cardinality(1..n) = n
  <2>1. CASE n = 0
    <3>1. 1..n = {}
      BY <2>1
    <3> QED BY <2>1, <3>1, FS_EmptySet
  <2>2. CASE n # 0
    <3>1. 1 \in Int /\ n \in Int /\ n - 1 + 1 = n /\ ~(1 > n)
      BY <1>1, <2>2
    <3> QED BY <3>1, FS_Interval
  <2> QED BY <2>1, <2>2
<1> QED
  BY <1>2, <1>3 DEF Groups

\* s_paxos_create, and the versions up to n.
LEMMA InitStates ==
  ASSUME NEW s \in Servers, NEW n \in 1..N
  PROVE  InitPaxos(s, n) \in States /\ InitPaxos(s, n).learn_count = 0
<1> DEFINE version == IF s <= n THEN n ELSE 0
           servs == IF s <= n THEN 1..n ELSE {}
           rv == IF n > 1 /\ s < n THEN n ELSE 0
           resp == [t \in Topics |->
              IF t[1] = "version:" /\ s < t[2] /\ t[2] <= n THEN AddId(t[2]) ELSE NoId]
           acc == [t \in Topics |->
              IF t[1] = "version:" /\ s <= n /\ t[2] <= n
              THEN <<[value |-> 1..t[2], id |-> AddId(t[2])]>> ELSE <<>>]
           learn == [t \in Topics |-> <<>>]
           id == IF s = 1 THEN 2 * n - 1 ELSE IF s <= n THEN 1 + n - s ELSE 1
<1>1. s \in Int /\ n \in Int /\ n \in 0..N /\ 0 \in 0..N
  BY Bounds DEF Servers
<1>2. version \in 0..N /\ version \in Int /\ servs \in Groups(version) /\ servs \in SUBSET Nat
  <2>1. 1..n \in Groups(n) /\ 1..n \in SUBSET Nat /\ 1..0 \in Groups(0) /\ 1..0 = {}
    BY <1>1, FirstServers
  <2> QED BY <1>1, <2>1
<1>3. rv \in Int /\ id \in Int
  BY <1>1, Bounds
<1>4. ASSUME NEW t \in Topics
      PROVE  t[2] \in Int /\ AddId(t[2]) \in Ids /\ NoId \in Ids
  <2>1. t[2] \in Int
    BY Bounds DEF Topics, VersionTopics, VersionTopic
  <2> QED BY <2>1 DEF AddId, Ids, NoId
<1>5. resp \in [Topics -> Ids]
  BY <1>4
<1>6. acc \in AcceptTables
  <2>1. ASSUME NEW t \in Topics
        PROVE  acc[t] \in Seq(AcceptEntries(t)) /\ acc[t] \in Seq([value: SUBSET Nat, id: Ids])
    <3>1. CASE t \in VersionTopics /\ t[2] <= n
      <4>1. t[2] \in 0..N
        BY <1>1, <1>4, <3>1, Bounds DEF VersionTopics, VersionTopic
      <4>2. 1..t[2] \in Vals(t) /\ 1..t[2] \in SUBSET Nat
        BY <3>1, <4>1, FirstServers DEF Vals
      <4>3. PICK e : e = [value |-> 1..t[2], id |-> AddId(t[2])]
        OBVIOUS
      <4>4. e \in AcceptEntries(t) /\ e \in [value: SUBSET Nat, id: Ids]
        BY <1>4, <4>2, <4>3 DEF AcceptEntries
      <4>5. acc[t] = <<e>> \/ acc[t] = <<>>
        BY <4>3
      <4> HIDE DEF acc
      <4> QED BY <4>4, <4>5, Single
    <3>2. CASE t \in VersionTopics /\ ~(t[2] <= n)
      <4>1. acc[t] = <<>>
        BY <3>2
      <4> HIDE DEF acc
      <4> QED BY <4>1
    <3>3. CASE t \notin VersionTopics
      <4>1. Vals(t) = SUBSET Nat
        BY <3>3, NormalVals
      <4>2. 1..t[2] \in SUBSET Nat
        BY <1>4
      <4>3. PICK e : e = [value |-> 1..t[2], id |-> AddId(t[2])]
        OBVIOUS
      <4>4. e \in AcceptEntries(t) /\ e \in [value: SUBSET Nat, id: Ids]
        BY <1>4, <4>1, <4>2, <4>3 DEF AcceptEntries
      <4>5. acc[t] = <<e>> \/ acc[t] = <<>>
        BY <4>3
      <4> HIDE DEF acc
      <4> QED BY <4>4, <4>5, Single
    <3> QED BY <3>1, <3>2, <3>3
  <2>2. acc = [t \in Topics |-> acc[t]]
    OBVIOUS
  <2> HIDE DEF acc
  <2> QED BY <2>1, <2>2 DEF AcceptTables
<1>7. learn \in LearnTables
  <2>1. \A S : <<>> \in Seq(S)
    OBVIOUS
  <2> QED BY <2>1 DEF LearnTables
<1>8. InitPaxos(s, n) = [version |-> version, servs |-> servs, dialled |-> {},
                         response_version |-> rv, response |-> resp, accept |-> acc,
                         learn |-> learn, learn_count |-> 0, id |-> id]
  BY DEF InitPaxos
<1> HIDE DEF version, servs, rv, resp, acc, learn, id
<1> QED
  BY <1>2, <1>3, <1>5, <1>6, <1>7, <1>8 DEF States

\* The invariant holds at the start ...
LEMMA InvInit == Init => Inv
<1> SUFFICES ASSUME Init PROVE Inv
  OBVIOUS
<1>1. st \in [Servers -> States] /\ \A s \in Servers : st[s].learn_count = 0
  <2>1. start.members \in 1..N
    BY Bounds DEF Init
  <2> QED BY <2>1, InitStates DEF Init
<1>2. chan \in [Servers -> [Servers -> Seq(Pkts)]]
  BY OutsAre DEF Init, Outs
<1>3. TypeOK
  BY <1>1, <1>2 DEF Init, TypeOK
<1>4. CallsBacked
  BY DEF Init, CallsBacked
<1>5. \A s \in Servers : LearnCalls(pending, s) = {}
  BY DEF Init, LearnCalls
<1>6. IsFiniteSet({}) /\ Cardinality({}) = 0
  BY FS_EmptySet
<1>7. LearnCountExact
  <2>1. \A s \in Servers : st[s].learn_count = Cardinality(LearnCalls(pending, s))
    BY <1>1, <1>5, <1>6
  <2> QED BY <2>1 DEF LearnCountExact, LearnCalls
<1> QED
  BY <1>3, <1>4, <1>5, <1>6, <1>7 DEF Inv

\* ... is kept by every step ...
LEMMA InvNext == Inv /\ [Next]_vars => Inv'
<1> SUFFICES ASSUME Inv, [Next]_vars PROVE Inv'
  OBVIOUS
<1>1. CASE \E s \in Servers, x \in NormalTopics : StartNormal(s, <<x, 0>>)
  BY <1>1, StartNormalKeeps
<1>2. CASE \E s \in Servers : AskToJoin(s)
  BY <1>2, AskToJoinKeeps
<1>3. CASE \E s \in Servers : LearnAll(s)
  BY <1>3, LearnAllKeeps
<1>4. ASSUME NEW q \in Servers, NEW s \in Servers, NEW m, Receive(q, s, m)
      PROVE  Inv'
  <2>1. CASE ReceiveAdd(q, s, m)
    BY <2>1, ReceiveAddKeeps
  <2>2. CASE ReceiveRequest(q, s, m)
    BY <2>2, ReceiveRequestKeeps
  <2>3. CASE ReceiveAccept(q, s, m)
    BY <2>3, ReceiveAcceptKeeps
  <2>4. CASE ReceiveResponse(q, s, m)
    BY <2>4, ReceiveResponseKeeps
  <2>5. CASE ReceiveAddAccept(q, s, m)
    BY <2>5, ReceiveAddAcceptKeeps
  <2>6. CASE ReceiveAdded(q, s, m)
    BY <2>6, ReceiveAddedKeeps
  <2>7. CASE ReceiveLearnRequest(q, s, m)
    BY <2>7, ReceiveLearnRequestKeeps
  <2>8. CASE ReceiveLearn(q, s, m)
    BY <2>8, ReceiveLearnKeeps
  <2>9. CASE LateReply(q, s, m)
    BY <2>9, LateReplyKeeps
  <2> QED BY <1>4, <2>1, <2>2, <2>3, <2>4, <2>5, <2>6, <2>7, <2>8, <2>9 DEF Receive
<1>5. CASE \E c \in pending : Timeout(c)
  BY <1>5, TimeoutKeeps
<1>6. CASE UNCHANGED vars \/ \E s, d \in Servers : Connect(s, d)
  <2>1. UNCHANGED <<st, props, pending, chan, start, started, learns>>
    BY <1>6 DEF vars, driverVars, Connect
  <2>2. chan' \in Chans /\ start' \in Starts /\ started' \in [Servers -> Nat] /\ learns' \in [Servers -> Nat]
    BY <2>1 DEF Inv, TypeOK, Chans, Outs
  <2> QED BY <2>1, <2>2, OnlyPackets
<1>7. CASE \E q, s \in Servers : chan[q][s] # <<>> /\ Receive(q, s, Head(chan[q][s]))
  BY <1>4, <1>7
<1> QED
  BY <1>1, <1>2, <1>3, <1>5, <1>6, <1>7 DEF Next

\* ... and hence holds always.
LEMMA InvAlways == Spec => []Inv
BY InvInit, InvNext, PTL DEF Spec

\* learn_req.count, set by s_paxos_learn_all and counted down by ireceive_learn with
\* or without a packet, is always the number of learn calls that are outstanding.
THEOREM LearnCountExactCorrect == Spec => []LearnCountExact
<1>1. Inv => LearnCountExact
  BY DEF Inv
<1> QED
  BY <1>1, InvAlways, PTL
=============================================================================
