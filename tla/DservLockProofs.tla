-------------------------- MODULE DservLockProofs --------------------------
(***************************************************************************)
(* Proofs about DservLock, for any locks, dservs, lists and crashes.       *)
(*                                                                         *)
(* A request exists as one token: its packet, or its place in the waiting  *)
(* list of a dserv.  Struct says where the token of a lock can be, given   *)
(* where the lock has been taken; Order says what the token of a lock that *)
(* was taken second somewhere may no longer overtake, as long as no dserv  *)
(* of both was restarted and forgot one of them.  Ends counts what the     *)
(* clients were told; Wake says why no waiting request is forgotten.       *)
(***************************************************************************)
EXTENDS DservLock, SequenceTheorems, FiniteSetTheorems, TLAPS

\* The dservs of the list of l.
Visits(l) == ToSet(Chain[l])

\* The request l is on its way to u, or waits there.
Token(l, u) ==
  \/ \E m \in msgs : m.type \in LockTypes /\ m.id = l /\ m.to = u
  \/ l \in Waiting(u)

NoToken(l) == \A u \in Servers : ~Token(l, u)

\* Every dserv before the token has taken the lock and kept a copy, unless it was
\* restarted since; no dserv from the token on has taken it.
Place ==
  \A l \in Locks, u \in Servers : Token(l, u) =>
    /\ l \in issued
    /\ u \in Visits(l)
    /\ \A v \in Visits(l) : /\ v < u => l \in lock_sent[v] \cup forgot[v]
                            /\ u <= v => l \notin taken[v]

\* A request packet carries the position of the dserv it is sent to, and is the
\* only token of its lock.
PacketPlace ==
  \A m \in msgs : m.type \in LockTypes =>
    /\ m.to \in Servers
    /\ m.curr \in 0..(Len(Chain[m.id]) - 1)
    /\ Chain[m.id][m.curr + 1] = m.to
    /\ m.id \notin Waiting(m.to)
    /\ \A n \in msgs : n.type \in LockTypes /\ n.id = m.id => n = m

\* A lock waits at a dserv once.
WaitOnce ==
  \A s \in Servers : \A i, j \in DOMAIN lock_waiting[s] :
    lock_waiting[s][i] = lock_waiting[s][j] => i = j

\* The copies at s know their position.
CopyPlace ==
  \A s \in Servers : \A l \in lock_sent[s] \cup Waiting(s) :
    /\ next_pos[s][l] \in 1..Len(Chain[l])
    /\ Chain[l][next_pos[s][l]] = s

\* A lock is taken in the order of its list.
TakenPrefix ==
  \A s \in Servers : \A l \in taken[s] :
    /\ l \in issued
    /\ s \in Visits(l)
    /\ \A v \in Visits(l) : v < s => l \in taken[v]

SentTaken == \A s \in Servers : lock_sent[s] \cup forgot[s] \subseteq taken[s]

\* A dserv is marked as finished only after it has taken the lock.
FinishTaken ==
  \A s \in Servers, l \in Locks : \A t \in finish[s][l] :
    s < t /\ l \in taken[t]

UnlockPlace ==
  \A m \in msgs : m.type = "LOCK_UNLOCK" =>
    /\ m.from \in Servers /\ m.to \in Visits(m.id)
    /\ m.to < m.from
    /\ m.id \in taken[m.from]
    /\ m.id \in lock_sent[m.to] \cup forgot[m.to]

Struct == /\ TypeOK /\ Place /\ PacketPlace /\ WaitOnce /\ CopyPlace
          /\ TakenPrefix /\ SentTaken /\ FinishTaken /\ UnlockPlace

\* The history of one dserv is an order of the locks it has taken.
LocalOrder ==
  \A s \in Servers, a, b \in Locks : <<a, b>> \in before[s] =>
    a \in taken[s] /\ b \in taken[s] /\ <<b, a>> \notin before[s]

\* t is the first dserv from u on that a and b both visit.
Meet(a, b, u, t) ==
  /\ t \in Visits(a) /\ t \in Visits(b) /\ u <= t
  /\ \A v \in Servers : v \in Visits(a) /\ v \in Visits(b) /\ u <= v => t <= v

\* A dserv of both locks was restarted after it took one of them.
Lost(a, b) == \E u \in Servers : /\ u \in Visits(a) /\ u \in Visits(b)
                                 /\ a \in forgot[u] \/ b \in forgot[u]

\* If some dserv took a before b, the token of b meets a next at a dserv that
\* has taken a, unless a goes nowhere any more.
TokenBehind ==
  \A r, u, t \in Servers, a, b \in Locks :
    <<a, b>> \in before[r] /\ Token(b, u) /\ Meet(a, b, u, t) =>
      a \in taken[t] \/ NoToken(a) \/ Lost(a, b)

\* A later dserv that has taken b took a before it, or will never take a.
TakenBehind ==
  \A r, t \in Servers, a, b \in Locks :
    /\ <<a, b>> \in before[r] /\ r < t
    /\ t \in Visits(a) /\ b \in taken[t]
    => \/ <<a, b>> \in before[t]
       \/ a \notin taken[t] /\ NoToken(a)
       \/ Lost(a, b)

Order == LocalOrder /\ TokenBehind /\ TakenBehind

AllTaken(l) == \A v \in Visits(l) : l \in taken[v]

\* LOCK_END leaves the last dserv of the list, once.
EndPlace ==
  \A m \in msgs : m.type = "LOCK_END" =>
    /\ AllTaken(m.id) /\ m.id \notin result
    /\ \A n \in msgs : n.type = "LOCK_END" /\ n.id = m.id => n = m

ResultDone == \A l \in result : AllTaken(l)

ResultsOf(c) == {l \in result : Owner[l] = c}

Counted ==
  \A c \in Clients :
    IsFiniteSet(ResultsOf(c)) /\ C[c] = Cardinality(ResultsOf(c))

Ends == EndPlace /\ ResultDone /\ Counted

\* A request that was issued is somewhere or has been taken everywhere.
Moving == \A l \in issued : AllTaken(l) \/ ~NoToken(l)

\* Every earlier dserv knows that t has taken l, or will be told.
Marked ==
  \A s, t \in Servers, l \in Locks :
    s \in Visits(l) /\ s < t /\ l \in taken[t] =>
      t \in finish[s][l] \/ Packet("LOCK_UNLOCK", l, 0, t, s) \in msgs

\* What waits while no rescan is under way has a reason to wait.
HeldBack ==
  \A s \in Servers : ~scanning[s] =>
    \A b \in Waiting(s) : ConflictAll(s, b, next_pos[s][b], finish[s][b])

\* All connections are up and no dserv has forgotten a lock.
AllActive == /\ \A p \in Nodes : active[p] = Nodes
             /\ \A s \in Servers : forgot[s] = {}

\* Processes that die take requests and notices with them; what waits is
\* checked again whether or not processes die.
Wake == /\ HeldBack
        /\ died = {} => alive = Nodes /\ AllActive /\ Moving /\ Marked

-----------------------------------------------------------------------------
(* The lists.                                                               *)

LEMMA ChainFacts ==
  ASSUME NEW l \in Locks
  PROVE  /\ Chain[l] \in Seq(Servers)
         /\ Len(Chain[l]) \in Nat /\ Len(Chain[l]) > 0
         /\ DOMAIN Chain[l] = 1..Len(Chain[l])
         /\ Visits(l) \subseteq Servers
         /\ \A i \in 1..Len(Chain[l]) :
              /\ Chain[l][i] \in Visits(l)
              /\ Chain[l][i] \in Servers
              /\ Chain[l][i] \in Nat
         /\ \A v \in Visits(l) : \E i \in 1..Len(Chain[l]) : v = Chain[l][i]
         /\ Owner[l] \in Clients
         /\ Owner[l] \notin Servers
  <1>1. Chain[l] \in Seq(Servers) /\ Len(Chain[l]) > 0 /\ Owner[l] \in Clients
    BY ChainAssumption
  <1>2. /\ Len(Chain[l]) \in Nat
        /\ DOMAIN Chain[l] = 1..Len(Chain[l])
        /\ \A i \in 1..Len(Chain[l]) : Chain[l][i] \in Servers
    BY <1>1, LenProperties, ElementOfSeq
  <1>3. Visits(l) = {Chain[l][i] : i \in 1..Len(Chain[l])}
    BY <1>2 DEF Visits, ToSet
  <1> QED BY <1>1, <1>2, <1>3, ChainAssumption

\* The lists are ascending, so that positions and ids compare alike.
LEMMA ChainOrder ==
  ASSUME NEW l \in Locks,
         NEW i \in 1..Len(Chain[l]), NEW j \in 1..Len(Chain[l]),
         Chain[l][i] < Chain[l][j]
  PROVE  i < j
  <1>1. /\ Chain[l][i] \in Nat /\ Chain[l][j] \in Nat
        /\ i \in Nat /\ j \in Nat
    BY ChainFacts
  <1>2. j < i => Chain[l][j] < Chain[l][i]
    BY ChainAssumption
  <1> QED BY <1>1, <1>2

\* What a copy at position pos has still to visit: the later dservs.
LEMMA RestFacts ==
  ASSUME NEW l \in Locks, NEW pos \in 1..Len(Chain[l])
  PROVE  \A t \in Servers :
           t \in Rest(l, pos) <=> t \in Visits(l) /\ Chain[l][pos] < t
  <1> DEFINE n == Len(Chain[l])
  <1>1. n \in Nat
    BY ChainFacts
  <1>2. ASSUME NEW t \in Servers, t \in Rest(l, pos)
        PROVE  t \in Visits(l) /\ Chain[l][pos] < t
    <2>1. PICK i \in (pos + 1)..n : t = Chain[l][i]
      BY <1>2 DEF Rest
    <2>2. i \in 1..n /\ pos < i
      BY <1>1, <2>1
    <2> QED BY <2>1, <2>2, ChainFacts, ChainAssumption
  <1>3. ASSUME NEW t \in Visits(l), Chain[l][pos] < t
        PROVE  t \in Rest(l, pos)
    <2>1. PICK i \in 1..n : t = Chain[l][i]
      BY ChainFacts, SMTT(30)
    <2>2. pos < i
      BY <1>3, <2>1, ChainOrder
    <2>3. i \in (pos + 1)..n
      BY <1>1, <2>1, <2>2
    <2> QED BY <2>1, <2>3 DEF Rest
  <1> QED BY <1>2, <1>3

\* The next hop is the next dserv of the list.
LEMMA HopFacts ==
  ASSUME NEW l \in Locks, NEW pos \in 1..Len(Chain[l]), pos < Len(Chain[l])
  PROVE  /\ NextHop(l, pos) = Chain[l][pos + 1]
         /\ NextHop(l, pos) \in Visits(l) /\ NextHop(l, pos) \in Servers
         /\ Chain[l][pos] < NextHop(l, pos)
         /\ \A v \in Visits(l) : Chain[l][pos] < v => NextHop(l, pos) <= v
  <1> DEFINE n == Len(Chain[l])
  <1>1. n \in Nat /\ pos + 1 \in 1..n /\ pos < pos + 1
    BY ChainFacts
  <1>2. NextHop(l, pos) = Chain[l][pos + 1]
    BY <1>1 DEF NextHop
  <1>3. Chain[l][pos] < Chain[l][pos + 1]
    BY <1>1, ChainAssumption
  <1>4. ASSUME NEW v \in Visits(l), Chain[l][pos] < v
        PROVE  Chain[l][pos + 1] <= v
    <2>1. PICK i \in 1..n : v = Chain[l][i]
      BY ChainFacts
    <2>2. pos < i
      BY <1>4, <2>1, ChainOrder
    <2>3. i = pos + 1 \/ pos + 1 < i
      BY <2>1, <2>2, <1>1
    <2>4. pos + 1 < i => Chain[l][pos + 1] < Chain[l][i]
      BY <1>1, <2>1, ChainAssumption
    <2>5. Chain[l][pos + 1] \in Nat /\ Chain[l][i] \in Nat
      BY <1>1, <2>1, ChainFacts
    <2> QED BY <2>1, <2>3, <2>4, <2>5
  <1> QED BY <1>1, <1>2, <1>3, <1>4, ChainFacts

\* The dservs before a position are the smaller ones.
LEMMA EarlierFacts ==
  ASSUME NEW l \in Locks, NEW pos \in 1..Len(Chain[l]), NEW i \in 1..(pos - 1)
  PROVE  /\ Chain[l][i] \in Visits(l) /\ Chain[l][i] \in Servers
         /\ Chain[l][i] < Chain[l][pos]
  <1>1. i \in 1..Len(Chain[l]) /\ i < pos
    BY ChainFacts
  <1> QED BY <1>1, ChainFacts, ChainAssumption

LEMMA FirstFacts ==
  ASSUME NEW l \in Locks
  PROVE  \A v \in Visits(l) : Chain[l][1] <= v
  <1>1. 1 \in 1..Len(Chain[l]) /\ Len(Chain[l]) \in Nat
    BY ChainFacts
  <1> SUFFICES ASSUME NEW v \in Visits(l) PROVE Chain[l][1] <= v
    OBVIOUS
  <1>2. PICK i \in 1..Len(Chain[l]) : v = Chain[l][i]
    BY ChainFacts
  <1>3. i = 1 \/ 1 < i
    BY <1>1, <1>2
  <1>4. 1 < i => Chain[l][1] < Chain[l][i]
    BY <1>1, <1>2, ChainAssumption
  <1>5. Chain[l][1] \in Nat /\ Chain[l][i] \in Nat
    BY <1>1, <1>2, ChainFacts
  <1> QED BY <1>2, <1>3, <1>4, <1>5

-----------------------------------------------------------------------------
(* The waiting lists.                                                       *)

LEMMA ElementFacts ==
  ASSUME NEW q \in Seq(Locks), NEW x \in ToSet(q)
  PROVE  x \in Locks
  <1>1. DOMAIN q = 1..Len(q)
    BY LenProperties
  <1>2. PICK i \in 1..Len(q) : x = q[i]
    BY <1>1 DEF ToSet
  <1> QED BY <1>2, ElementOfSeq

LEMMA AppendFacts ==
  ASSUME NEW q \in Seq(Locks), NEW l \in Locks
  PROVE  /\ Append(q, l) \in Seq(Locks)
         /\ \A x : x \in ToSet(Append(q, l)) <=> x \in ToSet(q) \/ x = l
         /\ (/\ \A i, j \in DOMAIN q : q[i] = q[j] => i = j
             /\ l \notin ToSet(q))
            => \A i, j \in DOMAIN Append(q, l) :
                 Append(q, l)[i] = Append(q, l)[j] => i = j
  <1> DEFINE r == Append(q, l)
             n == Len(q)
  <1>1. /\ n \in Nat /\ DOMAIN q = 1..n
        /\ r \in Seq(Locks) /\ Len(r) = n + 1 /\ DOMAIN r = 1..(n + 1)
        /\ r[n + 1] = l
        /\ \A i \in 1..n : r[i] = q[i]
    BY AppendProperties, LenProperties
  <1> HIDE DEF r, n
  <1>2. ASSUME NEW x, x \in ToSet(r)
        PROVE  x \in ToSet(q) \/ x = l
    BY <1>1, <1>2 DEF ToSet
  <1>3. \A x : x \in ToSet(q) \/ x = l => x \in ToSet(r)
    BY <1>1 DEF ToSet
  <1>4. ASSUME \A i, j \in DOMAIN q : q[i] = q[j] => i = j,
               l \notin ToSet(q),
               NEW i \in DOMAIN r, NEW j \in DOMAIN r, r[i] = r[j]
        PROVE  i = j
    <2>1. \A k \in 1..n : q[k] # l
      BY <1>1, <1>4 DEF ToSet
    <2> QED BY <1>1, <1>4, <2>1
  <1> QED BY <1>1, <1>2, <1>3, <1>4 DEF r

LEMMA RemoveFacts ==
  ASSUME NEW q \in Seq(Locks), NEW k \in DOMAIN q,
         \A i, j \in DOMAIN q : q[i] = q[j] => i = j
  PROVE  /\ RemoveAt(q, k) \in Seq(Locks)
         /\ \A x : x \in ToSet(RemoveAt(q, k)) <=> x \in ToSet(q) /\ x # q[k]
         /\ \A i, j \in DOMAIN RemoveAt(q, k) :
              RemoveAt(q, k)[i] = RemoveAt(q, k)[j] => i = j
  <1> DEFINE r == RemoveAt(q, k)
             n == Len(q)
             a == SubSeq(q, 1, k - 1)
             b == SubSeq(q, k + 1, n)
  <1>1. n \in Nat /\ DOMAIN q = 1..n /\ k \in 1..n
    BY LenProperties
  <1>2. /\ a \in Seq(Locks) /\ Len(a) = k - 1
        /\ \A i \in 1..(k - 1) : a[i] = q[i]
    BY <1>1, SubSeqProperties
  <1>3. /\ b \in Seq(Locks) /\ Len(b) = n - k
        /\ \A i \in 1..(n - k) : b[i] = q[k + i]
    BY <1>1, SubSeqProperties, SMTT(30)
  <1>4. r = a \o b
    BY DEF RemoveAt
  <1>5. /\ r \in Seq(Locks) /\ Len(r) = n - 1 /\ DOMAIN r = 1..(n - 1)
        /\ \A i \in 1..(n - 1) : r[i] = IF i < k THEN q[i] ELSE q[i + 1]
    <2>0. a \in Seq(Locks) /\ b \in Seq(Locks)
      BY <1>2, <1>3
    <2> HIDE DEF r, n, a, b
    <2>1. /\ a \o b \in Seq(Locks) /\ Len(a \o b) = Len(a) + Len(b)
          /\ \A i \in 1..(Len(a) + Len(b)) :
               (a \o b)[i] = IF i <= Len(a) THEN a[i] ELSE b[i - Len(a)]
      BY <2>0, ConcatProperties, ZenonT(60)
    <2>2. r \in Seq(Locks) /\ Len(r) = n - 1
      <3>1. r \in Seq(Locks) /\ Len(r) = Len(a) + Len(b)
        BY <2>1, <1>4, Zenon
      <3>2. (k - 1) + (n - k) = n - 1
        BY <1>1
      <3>3. Len(a) = k - 1 /\ Len(b) = n - k
        BY <1>2, <1>3, Zenon
      <3> QED BY <3>1, <3>2, <3>3
    <2>3. DOMAIN r = 1..(n - 1)
      BY <2>2, LenProperties
    <2>4. ASSUME NEW i \in 1..(n - 1)
          PROVE  r[i] = IF i < k THEN q[i] ELSE q[i + 1]
      <3>1. CASE i < k
        BY <3>1, <2>1, <1>1, <1>2, <1>3, <1>4, SMTT(30)
      <3>2. CASE ~(i < k)
        <4>1. r[i] = b[i - (k - 1)]
          BY <3>2, <2>1, <1>1, <1>2, <1>3, <1>4, SMTT(30)
        <4>2. i - (k - 1) \in 1..(n - k) /\ k + (i - (k - 1)) = i + 1
          BY <3>2, <1>1
        <4> QED BY <3>2, <4>1, <4>2, <1>3
      <3> QED BY <3>1, <3>2
    <2> QED BY <2>2, <2>3, <2>4
  <1> HIDE DEF r, n, a, b
  <1>6. ASSUME NEW x, x \in ToSet(r)
        PROVE  x \in ToSet(q) /\ x # q[k]
    <2>1. PICK i \in 1..(n - 1) : x = r[i]
      BY <1>5, <1>6 DEF ToSet
    <2>2. PICK j \in 1..n : j # k /\ x = q[j]
      <3>1. CASE i < k
        BY <1>1, <1>5, <2>1, <3>1
      <3>2. CASE ~(i < k)
        <4>1. i + 1 \in 1..n /\ i + 1 # k
          BY <1>1, <2>1, <3>2
        <4> QED BY <1>5, <2>1, <3>2, <4>1
      <3> QED BY <3>1, <3>2
    <2> QED BY <1>1, <2>2 DEF ToSet
  <1>7. ASSUME NEW x, x \in ToSet(q), x # q[k]
        PROVE  x \in ToSet(r)
    <2>1. PICK j \in 1..n : x = q[j]
      BY <1>1, <1>7 DEF ToSet
    <2>2. PICK i \in 1..(n - 1) : x = r[i]
      <3>1. CASE j < k
        BY <3>1, <2>1, <1>1, <1>5
      <3>2. CASE k < j
        <4>1. j - 1 \in 1..(n - 1) /\ ~(j - 1 < k) /\ (j - 1) + 1 = j
          BY <3>2, <2>1, <1>1
        <4> QED BY <4>1, <2>1, <1>5
      <3>3. j # k
        BY <1>7, <2>1
      <3> QED BY <3>1, <3>2, <3>3, <1>1, <2>1
    <2> QED BY <1>5, <2>2 DEF ToSet
  <1>8. ASSUME NEW i \in DOMAIN r, NEW j \in DOMAIN r, r[i] = r[j]
        PROVE  i = j
    <2> DEFINE f(x) == IF x < k THEN x ELSE x + 1
    <2>1. f(i) \in DOMAIN q /\ f(j) \in DOMAIN q
      BY <1>1, <1>5
    <2>2. r[i] = q[f(i)] /\ r[j] = q[f(j)]
      BY <1>5
    <2>3. f(i) = f(j)
      BY <1>8, <2>1, <2>2
    <2> QED BY <2>3, <1>1, <1>5
  <1> QED BY <1>5, <1>6, <1>7, <1>8 DEF r

-----------------------------------------------------------------------------
(* Taking a lock.                                                           *)

\* What the two places that call ilock_take_done have in common: the token of l
\* is at s, leaves its place, and no copy in lock_sent of s conflicts with l.
TakeStep(s, l, pos, fin, rest) ==
  /\ Token(l, s)
  /\ pos \in 1..Len(Chain[l]) /\ Chain[l][pos] = s
  /\ rest \subseteq msgs
  /\ \A m \in rest : ~(m.type \in LockTypes /\ m.id = l)
  /\ \A m \in msgs \ rest : m.type \in LockTypes /\ m.id = l
  /\ fin \subseteq finish[s][l]
  /\ ~ConflictAll(s, l, pos, fin)
  /\ TakeDone(s, l, pos, rest)
  /\ lock_waiting' \in [Servers -> Seq(Locks)] /\ WaitOnce'
  /\ \A u \in Servers : \A x :
       x \in ToSet(lock_waiting'[u]) <=> x \in Waiting(u) /\ ~(u = s /\ x = l)
  /\ next_pos' \in [Servers -> [Locks -> Nat]] /\ next_pos'[s][l] = pos
  /\ \A u \in Servers, x \in Locks :
       ~(u = s /\ x = l) => next_pos'[u][x] = next_pos[u][x]
  /\ finish' \in [Servers -> [Locks -> SUBSET Servers]]
  /\ \A u \in Servers, x \in Locks :
       /\ finish'[u][x] \subseteq finish[u][x]
       /\ ~(u = s /\ x = l) => finish'[u][x] = finish[u][x]
  /\ UNCHANGED <<scanning, clientVars, netVars>>

\* The packets TakeDone sends.
LEMMA TakePackets ==
  ASSUME TypeOK, NEW s \in Servers, NEW l \in Locks, NEW pos, NEW fin, NEW rest,
         TakeStep(s, l, pos, fin, rest)
  PROVE  /\ msgs' \subseteq Message
         /\ \A m \in msgs' :
              \/ m \in rest
              \/ /\ m.type = "LOCK_UNLOCK" /\ m.id = l /\ m.from = s
                 /\ m.to \in Visits(l) /\ m.to < s
              \/ m.type = "LOCK_END"
              \/ /\ m = Packet("LOCK_NEXT", l, pos, s, NextHop(l, pos))
                 /\ pos < Len(Chain[l]) /\ l \in lock_sent'[s]
  <1>1. /\ pos \in 1..Len(Chain[l]) /\ Chain[l][pos] = s /\ pos \in Nat
        /\ Len(Chain[l]) \in Nat
        /\ rest \subseteq Message
    BY ChainFacts DEF TakeStep, TypeOK
  <1>2. msgs' = rest \cup Sent(UnlockPackets(s, l, pos) \cup NextPackets(s, l, pos))
    BY DEF TakeStep, TakeDone
  <1>3. NextRet(s, l, pos) => l \in lock_sent'[s]
    BY DEF TakeStep, TakeDone, TypeOK
  <1>4. ASSUME NEW m \in UnlockPackets(s, l, pos)
        PROVE  /\ m.type = "LOCK_UNLOCK" /\ m.id = l /\ m.from = s
               /\ m.to \in Visits(l) /\ m.to < s
               /\ m \in Message
    <2>1. PICK i \in 1..(pos - 1) : m = Packet("LOCK_UNLOCK", l, 0, s, Chain[l][i])
      BY DEF UnlockPackets
    <2>2. /\ m.type = "LOCK_UNLOCK" /\ m.id = l /\ m.from = s
          /\ m.to = Chain[l][i]
      BY <2>1 DEF Packet
    <2>3. Chain[l][i] \in Visits(l) /\ Chain[l][i] \in Servers /\ Chain[l][i] < s
      BY <1>1, EarlierFacts
    <2>4. m \in Message
      BY <2>1, <2>3 DEF Packet, Message, Nodes
    <2> QED BY <2>2, <2>3, <2>4
  <1>5. ASSUME NEW m \in NextPackets(s, l, pos)
        PROVE  /\ \/ m.type = "LOCK_END"
                  \/ /\ m = Packet("LOCK_NEXT", l, pos, s, NextHop(l, pos))
                     /\ pos < Len(Chain[l]) /\ l \in lock_sent'[s]
               /\ m \in Message
    <2>1. NextHop(l, pos) \in active[s] /\ NextHop(l, pos) \in Nodes
      BY DEF NextPackets, TypeOK, Nodes
    <2>2. CASE pos >= Len(Chain[l])
      <3>1. m = Packet("LOCK_END", l, 0, s, NextHop(l, pos))
        BY <2>1, <2>2 DEF NextPackets
      <3> QED BY <3>1, <2>1 DEF Packet, Message, Nodes
    <2>3. CASE pos < Len(Chain[l])
      <3>1. m = Packet("LOCK_NEXT", l, pos, s, NextHop(l, pos))
        BY <2>1, <2>3, <1>1 DEF NextPackets
      <3>2. NextRet(s, l, pos)
        BY <2>1, <2>3 DEF NextRet
      <3> QED BY <3>1, <3>2, <1>1, <1>3, <2>1, <2>3 DEF Packet, Message, Nodes
    <2> QED BY <2>2, <2>3, <1>1
  <1>6. Sent(UnlockPackets(s, l, pos) \cup NextPackets(s, l, pos))
          \subseteq UnlockPackets(s, l, pos) \cup NextPackets(s, l, pos)
    BY DEF Sent
  <1> QED BY <1>1, <1>2, <1>4, <1>5, <1>6

\* A lock has one token.
LEMMA TokenUnique ==
  ASSUME Place, NEW l \in Locks, NEW u \in Servers, NEW v \in Servers,
         Token(l, u), Token(l, v), SentTaken
  PROVE  u = v
  <1>1. u \in Visits(l) /\ v \in Visits(l) /\ u <= u /\ v <= v
    BY ChainAssumption DEF Place
  <1>2. u < v => l \in taken[u] /\ l \notin taken[u]
    BY <1>1 DEF Place, SentTaken
  <1>3. v < u => l \in taken[v] /\ l \notin taken[v]
    BY <1>1 DEF Place, SentTaken
  <1>4. u \in Nat /\ v \in Nat
    BY ChainAssumption
  <1> QED BY <1>2, <1>3, <1>4

\* Where tokens are after a lock was taken: l has moved to its next hop, or is
\* nowhere; the others have not moved.
LEMMA TakeTokens ==
  ASSUME Struct, NEW s \in Servers, NEW l \in Locks, NEW pos, NEW fin, NEW rest,
         TakeStep(s, l, pos, fin, rest),
         NEW x \in Locks, NEW u \in Servers, Token(x, u)'
  PROVE  \/ x # l /\ Token(x, u)
         \/ /\ x = l /\ u \in Visits(l) /\ s < u
            /\ \A v \in Visits(l) : s < v => u <= v
            /\ l \in lock_sent'[s]
            /\ l \notin ToSet(lock_waiting'[u])
  <1>1. /\ pos \in 1..Len(Chain[l]) /\ Chain[l][pos] = s
        /\ TypeOK /\ Place /\ SentTaken /\ Token(l, s)
    BY DEF TakeStep, Struct
  <1>2. x \in ToSet(lock_waiting'[u]) => x # l /\ Token(x, u)
    <2> HAVE x \in ToSet(lock_waiting'[u])
    <2>1. x \in Waiting(u) /\ ~(u = s /\ x = l)
      BY DEF TakeStep
    <2>2. Token(x, u)
      BY <2>1 DEF Token
    <2>3. x = l => u = s
      BY <2>2, <1>1, TokenUnique
    <2> QED BY <2>1, <2>2, <2>3
  <1>3. ASSUME NEW m \in msgs', m.type \in LockTypes, m.id = x, m.to = u
        PROVE  \/ x # l /\ Token(x, u)
               \/ /\ x = l /\ u = NextHop(l, pos) /\ pos < Len(Chain[l])
                  /\ l \in lock_sent'[s]
    <2>1. CASE m \in rest
      <3>1. m \in msgs /\ m.id # l
        BY <1>3, <2>1 DEF TakeStep
      <3> QED BY <3>1, <1>3 DEF Token
    <2>2. CASE /\ m = Packet("LOCK_NEXT", l, pos, s, NextHop(l, pos))
               /\ pos < Len(Chain[l]) /\ l \in lock_sent'[s]
      BY <2>2, <1>3 DEF Packet
    <2>3. m.type # "LOCK_UNLOCK" /\ m.type # "LOCK_END"
      BY <1>3 DEF LockTypes
    <2> QED BY <2>1, <2>2, <2>3, <1>1, TakePackets
  <1>4. CASE x \in ToSet(lock_waiting'[u])
    BY <1>2, <1>4
  <1>5. CASE x \notin ToSet(lock_waiting'[u])
    <2>1. PICK m \in msgs' : m.type \in LockTypes /\ m.id = x /\ m.to = u
      BY <1>5 DEF Token, Waiting
    <2>2. CASE x # l /\ Token(x, u)
      BY <2>2
    <2>3. CASE /\ x = l /\ u = NextHop(l, pos) /\ pos < Len(Chain[l])
               /\ l \in lock_sent'[s]
      BY <2>3, <1>1, <1>5, HopFacts
    <2> QED BY <2>1, <2>2, <2>3, <1>3
  <1> QED BY <1>4, <1>5

LEMMA TakeType ==
  ASSUME TypeOK, NEW s \in Servers, NEW l \in Locks, NEW pos, NEW fin, NEW rest,
         TakeStep(s, l, pos, fin, rest)
  PROVE  TypeOK'
  <1>1. msgs' \subseteq Message
    BY TakePackets
  <1>2. /\ lock_sent' \in [Servers -> SUBSET Locks]
        /\ taken' \in [Servers -> SUBSET Locks]
    BY DEF TypeOK, TakeStep, TakeDone
  <1>3. before' \in [Servers -> SUBSET (Locks \X Locks)]
    <2>1. taken[s] \X {l} \subseteq Locks \X Locks
      BY DEF TypeOK
    <2> QED BY <2>1 DEF TypeOK, TakeStep, TakeDone
  <1>4. /\ lock_waiting' \in [Servers -> Seq(Locks)]
        /\ next_pos' \in [Servers -> [Locks -> Nat]]
        /\ finish' \in [Servers -> [Locks -> SUBSET Servers]]
    BY DEF TakeStep
  <1>5. UNCHANGED <<scanning, issued, result, C, active, alive, died, forgot>>
    BY DEF TakeStep, clientVars, netVars
  <1> QED BY <1>1, <1>2, <1>3, <1>4, <1>5 DEF TypeOK

\* How the tables change when s takes l.
LEMMA TakeTables ==
  ASSUME TypeOK, NEW s \in Servers, NEW l \in Locks, NEW pos, NEW fin, NEW rest,
         TakeStep(s, l, pos, fin, rest)
  PROVE  /\ \A u \in Servers : \A x :
              /\ x \in taken'[u] <=> x \in taken[u] \/ (u = s /\ x = l)
              /\ x # l => (x \in lock_sent'[u] <=> x \in lock_sent[u])
              /\ u # s => (x \in lock_sent'[u] <=> x \in lock_sent[u])
         /\ \A u \in Servers : \A x, y :
              <<x, y>> \in before'[u] <=>
                <<x, y>> \in before[u] \/ (u = s /\ x \in taken[s] /\ y = l)
  <1>1. /\ taken' = [taken EXCEPT ![s] = @ \cup {l}]
        /\ lock_sent' = [lock_sent EXCEPT ![s] = IF NextRet(s, l, pos)
                                                 THEN @ \cup {l} ELSE @ \ {l}]
        /\ before' = [before EXCEPT ![s] = @ \cup (taken[s] \X {l})]
    BY DEF TakeStep, TakeDone
  <1>2. \A u \in Servers : \A x :
              /\ x \in taken'[u] <=> x \in taken[u] \/ (u = s /\ x = l)
              /\ x # l => (x \in lock_sent'[u] <=> x \in lock_sent[u])
              /\ u # s => (x \in lock_sent'[u] <=> x \in lock_sent[u])
    BY <1>1 DEF TypeOK
  <1>3. ASSUME NEW u \in Servers, NEW x, NEW y
        PROVE  <<x, y>> \in before'[u] <=>
                 <<x, y>> \in before[u] \/ (u = s /\ x \in taken[s] /\ y = l)
    <2>1. <<x, y>> \in taken[s] \X {l} <=> x \in taken[s] /\ y = l
      OBVIOUS
    <2>2. before'[u] = IF u = s THEN before[s] \cup (taken[s] \X {l}) ELSE before[u]
      BY <1>1 DEF TypeOK
    <2> QED BY <2>1, <2>2
  <1> QED BY <1>2, <1>3

LEMMA TakePlace ==
  ASSUME Struct, NEW s \in Servers, NEW l \in Locks, NEW pos, NEW fin, NEW rest,
         TakeStep(s, l, pos, fin, rest)
  PROVE  Place'
  <1>1. /\ Place /\ SentTaken /\ TypeOK /\ Token(l, s) /\ issued' = issued
        /\ forgot' = forgot
    BY DEF Struct, TakeStep, clientVars, netVars
  <1>2. l \in issued /\ s \in Visits(l) /\ s \in Nat
    BY <1>1, ChainAssumption DEF Place
  <1> SUFFICES ASSUME NEW x \in Locks, NEW u \in Servers, Token(x, u)'
               PROVE  /\ x \in issued'
                      /\ u \in Visits(x)
                      /\ \A v \in Visits(x) : /\ v < u => x \in lock_sent'[v] \cup forgot[v]
                                              /\ u <= v => x \notin taken'[v]
    BY <1>1 DEF Place, Visits
  <1>3. CASE x # l /\ Token(x, u)
    <2>1. /\ x \in issued /\ u \in Visits(x)
          /\ \A v \in Visits(x) : /\ v < u => x \in lock_sent[v] \cup forgot[v]
                                  /\ u <= v => x \notin taken[v]
      BY <1>1, <1>3 DEF Place
    <2>2. Visits(x) \subseteq Servers
      BY ChainFacts
    <2> QED BY <1>1, <1>3, <2>1, <2>2, TakeTables
  <1>4. CASE /\ x = l /\ u \in Visits(l) /\ s < u
             /\ \A v \in Visits(l) : s < v => u <= v
             /\ l \in lock_sent'[s]
    <2>1. ASSUME NEW v \in Visits(l)
          PROVE  /\ v < u => l \in lock_sent'[v] \cup forgot[v]
                 /\ u <= v => l \notin taken'[v]
      <3>1. v \in Servers /\ v \in Nat /\ u \in Nat
        BY ChainFacts, ChainAssumption
      <3>2. /\ v < s => l \in lock_sent[v] \cup forgot[v]
            /\ s <= v => l \notin taken[v]
        BY <1>1 DEF Place
      <3>3. v < u => v < s \/ v = s
        BY <1>2, <1>4, <3>1
      <3>4. v < s => v # s
        BY <1>2, <3>1
      <3>5. u <= v => s <= v /\ v # s
        BY <1>2, <1>4, <3>1
      <3> QED BY <1>1, <1>4, <3>1, <3>2, <3>3, <3>4, <3>5, TakeTables
    <2> QED BY <1>1, <1>2, <1>4, <2>1
  <1> QED BY <1>3, <1>4, TakeTokens

LEMMA TakeStruct ==
  ASSUME Struct, NEW s \in Servers, NEW l \in Locks, NEW pos, NEW fin, NEW rest,
         TakeStep(s, l, pos, fin, rest)
  PROVE  Struct'
  <1>1. /\ TypeOK /\ Place /\ PacketPlace /\ WaitOnce /\ CopyPlace
        /\ TakenPrefix /\ SentTaken /\ FinishTaken /\ UnlockPlace
        /\ Token(l, s) /\ issued' = issued
        /\ pos \in 1..Len(Chain[l]) /\ Chain[l][pos] = s
        /\ rest \subseteq msgs
        /\ \A m \in rest : ~(m.type \in LockTypes /\ m.id = l)
        /\ forgot' = forgot
    BY DEF Struct, TakeStep, clientVars, netVars
  <1>2. /\ s \in Visits(l) /\ l \in issued /\ s \in Nat
        /\ \A v \in Visits(l) : /\ v < s => l \in lock_sent[v] \cup forgot[v]
                                /\ s <= v => l \notin taken[v]
    BY <1>1, ChainAssumption DEF Place
  <1>t. \A u \in Servers : \A x :
          /\ x \in taken'[u] <=> x \in taken[u] \/ (u = s /\ x = l)
          /\ x # l => (x \in lock_sent'[u] <=> x \in lock_sent[u])
          /\ u # s => (x \in lock_sent'[u] <=> x \in lock_sent[u])
    BY <1>1, TakeTables
  <1>3. TypeOK'
    BY <1>1, TakeType
  <1>4. Place'
    BY TakePlace
  <1>5. PacketPlace'
    <2> SUFFICES ASSUME NEW m \in msgs', m.type \in LockTypes
                 PROVE  /\ m.to \in Servers
                        /\ m.curr \in 0..(Len(Chain[m.id]) - 1)
                        /\ Chain[m.id][m.curr + 1] = m.to
                        /\ m.id \notin Waiting(m.to)'
                        /\ \A n \in msgs' :
                             n.type \in LockTypes /\ n.id = m.id => n = m
      BY DEF PacketPlace
    <2> DEFINE next == Packet("LOCK_NEXT", l, pos, s, NextHop(l, pos))
    <2>1. \A n \in msgs' : n.type \in LockTypes =>
            (n \in rest /\ n.id # l) \/ (n = next /\ pos < Len(Chain[l]))
      <3> SUFFICES ASSUME NEW n \in msgs', n.type \in LockTypes
                   PROVE  (n \in rest /\ n.id # l) \/ (n = next /\ pos < Len(Chain[l]))
        OBVIOUS
      <3>1. n.type # "LOCK_UNLOCK" /\ n.type # "LOCK_END"
        BY DEF LockTypes
      <3> QED BY <3>1, <1>1, TakePackets
    <2>2. next.id = l /\ next.curr = pos /\ next.to = NextHop(l, pos)
      BY DEF Packet
    <2>3. CASE m \in rest /\ m.id # l
      <3>1. /\ m.to \in Servers
            /\ m.curr \in 0..(Len(Chain[m.id]) - 1)
            /\ Chain[m.id][m.curr + 1] = m.to
            /\ m.id \notin Waiting(m.to)
            /\ \A n \in msgs : n.type \in LockTypes /\ n.id = m.id => n = m
        BY <1>1, <2>3 DEF PacketPlace
      <3>2. m.id \notin Waiting(m.to)'
        BY <3>1 DEF TakeStep, Waiting
      <3>3. ASSUME NEW n \in msgs', n.type \in LockTypes, n.id = m.id
            PROVE  n = m
        BY <2>1, <2>2, <2>3, <3>1, <3>3, <1>1
      <3> QED BY <3>1, <3>2, <3>3
    <2>4. CASE m = next /\ pos < Len(Chain[l])
      <3>1. /\ NextHop(l, pos) = Chain[l][pos + 1]
            /\ NextHop(l, pos) \in Servers
        BY <1>1, <2>4, HopFacts
      <3>2. /\ m.to \in Servers
            /\ Chain[m.id][m.curr + 1] = m.to
        BY <2>2, <2>4, <3>1
      <3>3. m.curr \in 0..(Len(Chain[m.id]) - 1)
        BY <2>2, <2>4, <1>1, ChainFacts
      <3>4. Token(l, m.to)'
        BY <2>2, <2>4 DEF Token
      <3>5. l \notin ToSet(lock_waiting'[m.to])
        BY <3>2, <3>4, TakeTokens
      <3>6. ASSUME NEW n \in msgs', n.type \in LockTypes, n.id = m.id
            PROVE  n = m
        BY <2>1, <2>2, <2>4, <3>6
      <3> QED BY <2>2, <2>4, <3>2, <3>3, <3>5, <3>6 DEF Waiting
    <2> QED BY <2>1, <2>3, <2>4
  <1>6. WaitOnce'
    BY DEF TakeStep
  <1>7. CopyPlace'
    <2> SUFFICES ASSUME NEW u \in Servers, NEW x,
                        x \in lock_sent'[u] \/ x \in Waiting(u)'
                 PROVE  /\ next_pos'[u][x] \in 1..Len(Chain[x])
                        /\ Chain[x][next_pos'[u][x]] = u
      BY DEF CopyPlace
    <2>1. x \in Locks
      <3>1. CASE x \in lock_sent'[u]
        BY <1>3, <3>1 DEF TypeOK
      <3>2. CASE x \in Waiting(u)'
        <4>1. lock_waiting'[u] \in Seq(Locks)
          BY <1>3 DEF TypeOK
        <4> QED BY <3>2, <4>1, ElementFacts DEF Waiting
      <3> QED BY <3>1, <3>2
    <2>2. CASE u = s /\ x = l
      BY <1>1, <2>2 DEF TakeStep
    <2>3. CASE ~(u = s /\ x = l)
      <3>1. x \in lock_sent[u] \/ x \in Waiting(u)
        <4>1. x \in Waiting(u)' => x \in Waiting(u)
          BY DEF TakeStep, Waiting
        <4> QED BY <2>3, <4>1, <1>t
      <3>2. next_pos'[u][x] = next_pos[u][x]
        BY <2>1, <2>3 DEF TakeStep
      <3> QED BY <1>1, <3>1, <3>2 DEF CopyPlace
    <2> QED BY <2>2, <2>3
  <1>8. TakenPrefix'
    <2> SUFFICES ASSUME NEW u \in Servers, NEW x \in taken'[u]
                 PROVE  /\ x \in issued /\ u \in Visits(x)
                        /\ \A v \in Visits(x) : v < u => x \in taken'[v]
      BY <1>1 DEF TakenPrefix, Visits
    <2>1. x \in Locks
      BY <1>3 DEF TypeOK
    <2>2. Visits(x) \subseteq Servers
      BY <2>1, ChainFacts
    <2>3. CASE x \in taken[u]
      BY <1>1, <2>2, <2>3, <1>t DEF TakenPrefix
    <2>4. CASE u = s /\ x = l
      BY <1>1, <1>2, <2>2, <2>4, <1>t DEF SentTaken
    <2> QED BY <1>1, <2>3, <2>4, <1>t
  <1>9. SentTaken'
    BY <1>1, <1>t DEF SentTaken
  <1>10. FinishTaken'
    <2> SUFFICES ASSUME NEW u \in Servers, NEW x \in Locks, NEW t \in finish'[u][x]
                 PROVE  u < t /\ x \in taken'[t]
      BY DEF FinishTaken
    <2>1. t \in finish[u][x] /\ t \in Servers
      BY <1>3 DEF TakeStep, TypeOK
    <2> QED BY <1>1, <2>1, <1>t DEF FinishTaken
  <1>11. UnlockPlace'
    <2> SUFFICES ASSUME NEW m \in msgs', m.type = "LOCK_UNLOCK"
                 PROVE  /\ m.from \in Servers /\ m.to \in Visits(m.id)
                        /\ m.to < m.from
                        /\ m.id \in taken'[m.from]
                        /\ m.id \in lock_sent'[m.to] \cup forgot[m.to]
      BY <1>1 DEF UnlockPlace, Visits
    <2>1. m.id \in Locks
      BY <1>3 DEF TypeOK, Message
    <2>2. CASE m \in rest
      <3>1. /\ m.from \in Servers /\ m.to \in Visits(m.id) /\ m.to < m.from
            /\ m.id \in taken[m.from] /\ m.id \in lock_sent[m.to] \cup forgot[m.to]
        BY <1>1, <2>2 DEF UnlockPlace
      <3>2. m.to \in Servers
        BY <2>1, <3>1, ChainFacts
      <3>3. m.id = l => m.to # s
        <4>1. s <= s
          BY <1>2
        <4>2. l \notin lock_sent[s] \cup forgot[s]
          BY <1>1, <1>2, <4>1 DEF SentTaken
        <4> QED BY <3>1, <4>2
      <3> QED BY <1>1, <3>1, <3>2, <3>3, <1>t
    <2>3. CASE /\ m.id = l /\ m.from = s /\ m.to \in Visits(l) /\ m.to < s
      <3>1. m.to \in Servers /\ m.to # s
        BY <1>2, <2>3, ChainFacts, ChainAssumption
      <3> QED BY <1>1, <1>2, <2>3, <3>1, <1>t
    <2>4. m # Packet("LOCK_NEXT", l, pos, s, NextHop(l, pos)) /\ m.type # "LOCK_END"
      BY DEF Packet
    <2> QED BY <1>1, <2>2, <2>3, <2>4, TakePackets
  <1> QED BY <1>3, <1>4, <1>5, <1>6, <1>7, <1>8, <1>9, <1>10, <1>11 DEF Struct

\* s_core_dserv_lock takes the lock of a packet that nothing holds back.
LEMMA DservLockTakes ==
  ASSUME Struct, NEW s \in Servers, NEW m \in msgs, DservLock(s, m),
         ~ConflictAll(s, m.id, m.curr + 1, {})
  PROVE  m.id \in Locks /\ TakeStep(s, m.id, m.curr + 1, {}, msgs \ {m})
  <1> DEFINE l == m.id
             pos == m.curr + 1
  <1>1. TypeOK /\ PacketPlace /\ WaitOnce
    BY DEF Struct
  <1>2. /\ m.to = s /\ m.type \in LockTypes /\ l \in Locks
        /\ next_pos' = [next_pos EXCEPT ![s][l] = pos]
        /\ finish' = [finish EXCEPT ![s][l] = {}]
        /\ TakeDone(s, l, pos, msgs \ {m})
        /\ lock_waiting' = lock_waiting
        /\ UNCHANGED <<scanning, clientVars, netVars>>
    BY <1>1 DEF DservLock, TypeOK, Message
  <1>3. /\ m.curr \in 0..(Len(Chain[l]) - 1) /\ Chain[l][pos] = s
        /\ l \notin Waiting(s)
        /\ \A n \in msgs : n.type \in LockTypes /\ n.id = l => n = m
    BY <1>1, <1>2 DEF PacketPlace
  <1>4. pos \in 1..Len(Chain[l]) /\ pos \in Nat
    BY <1>2, <1>3, ChainFacts, SMTT(30)
  <1>5. Token(l, s)
    BY <1>2 DEF Token
  <1>6. \A n \in msgs \ {m} : ~(n.type \in LockTypes /\ n.id = l)
    BY <1>3
  <1>7. /\ lock_waiting' \in [Servers -> Seq(Locks)] /\ WaitOnce'
        /\ \A u \in Servers : \A x :
             x \in ToSet(lock_waiting'[u]) <=> x \in Waiting(u) /\ ~(u = s /\ x = l)
    BY <1>1, <1>2, <1>3 DEF TypeOK, WaitOnce, Waiting
  <1> HIDE DEF l, pos
  <1>8. /\ next_pos' \in [Servers -> [Locks -> Nat]] /\ next_pos'[s][l] = pos
        /\ \A u \in Servers, x \in Locks :
             ~(u = s /\ x = l) => next_pos'[u][x] = next_pos[u][x]
    BY <1>1, <1>2, <1>4 DEF TypeOK
  <1>9. /\ finish' \in [Servers -> [Locks -> SUBSET Servers]]
        /\ \A u \in Servers, x \in Locks :
             /\ finish'[u][x] \subseteq finish[u][x]
             /\ ~(u = s /\ x = l) => finish'[u][x] = finish[u][x]
    BY <1>1, <1>2 DEF TypeOK
  <1>10. ~ConflictAll(s, l, pos, {})
    BY DEF l, pos
  <1>11. \A n \in msgs \ (msgs \ {m}) : n.type \in LockTypes /\ n.id = l
    BY <1>2 DEF l
  <1>12. TakeStep(s, l, pos, {}, msgs \ {m})
    BY <1>2, <1>3, <1>4, <1>5, <1>6, <1>7, <1>8, <1>9, <1>10, <1>11 DEF TakeStep
  <1> QED BY <1>2, <1>12 DEF l, pos

\* The rescan takes a waiting lock that nothing holds back any more.
LEMMA ScanTakes ==
  ASSUME Struct, NEW s \in Servers, ScanTake(s)
  PROVE  \E l \in Locks : TakeStep(s, l, next_pos[s][l], finish[s][l], msgs)
  <1>1. TypeOK /\ PacketPlace /\ WaitOnce /\ CopyPlace /\ Place /\ SentTaken
    BY DEF Struct
  <1>2. PICK i \in Free(s) :
          /\ lock_waiting' = [lock_waiting EXCEPT ![s] = RemoveAt(@, i)]
          /\ TakeDone(s, lock_waiting[s][i], next_pos[s][lock_waiting[s][i]], msgs)
    BY DEF ScanTake
  <1> DEFINE q == lock_waiting[s]
             l == q[i]
             pos == next_pos[s][l]
  <1>3. q \in Seq(Locks) /\ \A j, k \in DOMAIN q : q[j] = q[k] => j = k
    BY <1>1 DEF TypeOK, WaitOnce
  <1>4. i \in DOMAIN q /\ ~ConflictAll(s, l, pos, finish[s][l])
    BY DEF Free
  <1>5. l \in Waiting(s) /\ l \in Locks
    BY <1>3, <1>4, ElementFacts DEF Waiting, ToSet
  <1>6. pos \in 1..Len(Chain[l]) /\ Chain[l][pos] = s
    BY <1>1, <1>5 DEF CopyPlace
  <1>7. Token(l, s)
    BY <1>5 DEF Token
  <1>8. \A n \in msgs : ~(n.type \in LockTypes /\ n.id = l)
    <2> SUFFICES ASSUME NEW n \in msgs, n.type \in LockTypes, n.id = l
                 PROVE  FALSE
      OBVIOUS
    <2>1. n.to \in Servers /\ l \notin Waiting(n.to)
      BY <1>1 DEF PacketPlace
    <2>2. Token(l, n.to)
      BY DEF Token
    <2>3. n.to = s
      BY <1>1, <1>5, <1>7, <2>1, <2>2, TokenUnique
    <2> QED BY <1>5, <2>1, <2>3
  <1>9. /\ RemoveAt(q, i) \in Seq(Locks)
        /\ \A x : x \in ToSet(RemoveAt(q, i)) <=> x \in ToSet(q) /\ x # l
        /\ \A j, k \in DOMAIN RemoveAt(q, i) :
             RemoveAt(q, i)[j] = RemoveAt(q, i)[k] => j = k
    BY <1>3, <1>4, RemoveFacts
  <1> DEFINE r == RemoveAt(q, i)
  <1>10. /\ lock_waiting' = [lock_waiting EXCEPT ![s] = r]
         /\ UNCHANGED <<next_pos, finish, scanning, clientVars, netVars>>
    BY <1>2 DEF ScanTake
  <1> HIDE DEF r
  <1>11. /\ lock_waiting' \in [Servers -> Seq(Locks)]
         /\ \A u \in Servers : lock_waiting'[u] = IF u = s THEN r ELSE lock_waiting[u]
    BY <1>1, <1>9, <1>10 DEF TypeOK, r
  <1>12. WaitOnce'
    BY <1>1, <1>9, <1>11 DEF WaitOnce, r
  <1>13. \A u \in Servers : \A x :
           x \in ToSet(lock_waiting'[u]) <=> x \in Waiting(u) /\ ~(u = s /\ x = l)
    BY <1>9, <1>11 DEF Waiting, r
  <1>14. /\ next_pos' = next_pos /\ finish' = finish
         /\ next_pos \in [Servers -> [Locks -> Nat]]
         /\ finish \in [Servers -> [Locks -> SUBSET Servers]]
         /\ TakeDone(s, l, pos, msgs)
         /\ UNCHANGED <<scanning, clientVars, netVars>>
    BY <1>1, <1>2, <1>10 DEF TypeOK
  <1> HIDE DEF l, q
  <1>15. TakeStep(s, l, pos, finish[s][l], msgs)
    BY <1>4, <1>6, <1>7, <1>8, <1>11, <1>12, <1>13, <1>14 DEF TakeStep
  <1> QED BY <1>5, <1>15

-----------------------------------------------------------------------------
(* The other steps.                                                         *)

\* Packets are received or lost and nothing else that Struct speaks of changes.
LEMMA QuietStruct ==
  ASSUME Struct, TypeOK', msgs' \subseteq msgs,
         UNCHANGED <<lock_waiting, lock_sent, next_pos, finish, issued, taken,
                     forgot>>
  PROVE  Struct'
  <1>1. \A s \in Servers : Waiting(s)' = Waiting(s)
    BY DEF Waiting
  <1>2. \A l \in Locks, u \in Servers : Token(l, u)' => Token(l, u)
    BY <1>1 DEF Token
  <1>3. Place'
    BY <1>2 DEF Struct, Place, Visits
  <1>4. PacketPlace'
    BY DEF Struct, PacketPlace, Waiting
  <1>5. WaitOnce' /\ CopyPlace' /\ TakenPrefix' /\ SentTaken' /\ FinishTaken'
    BY <1>1 DEF Struct, WaitOnce, CopyPlace, TakenPrefix, SentTaken, FinishTaken,
                Visits
  <1>6. UnlockPlace'
    BY DEF Struct, UnlockPlace, Visits
  <1> QED BY <1>3, <1>4, <1>5, <1>6 DEF Struct

LEMMA AccessStruct ==
  ASSUME Struct, NEW l \in Locks, AccessData(l)
  PROVE  Struct'
  <1> DEFINE d == Chain[l][1]
             p == Packet("LOCK_START", l, 0, Owner[l], d)
  <1>1. /\ TypeOK /\ Place /\ PacketPlace /\ WaitOnce /\ CopyPlace
        /\ TakenPrefix /\ SentTaken /\ FinishTaken /\ UnlockPlace
    BY DEF Struct
  <1>2. /\ l \notin issued /\ issued' = issued \cup {l}
        /\ UNCHANGED <<lock_waiting, lock_sent, next_pos, finish, scanning,
                       result, C, active, alive, died, forgot, taken, before>>
        /\ msgs' \subseteq msgs \cup {p}
    BY DEF AccessData, Sent, dservVars, netVars, histVars
  <1>3. /\ Len(Chain[l]) \in Nat /\ Len(Chain[l]) > 0
        /\ d \in Servers /\ d \in Visits(l) /\ Owner[l] \in Clients
        /\ \A v \in Visits(l) : d <= v /\ v \in Nat /\ v \in Servers
    BY ChainFacts, FirstFacts, ChainAssumption
  <1>4. /\ p \in Message /\ p.type = "LOCK_START" /\ p.id = l /\ p.curr = 0
        /\ p.to = d
    BY <1>3 DEF Packet, Message, Nodes
  <1> HIDE DEF p, d
  <1>5. TypeOK'
    BY <1>1, <1>2, <1>4 DEF TypeOK
  <1>6. \A u \in Servers : /\ Waiting(u)' = Waiting(u)
                           /\ ~Token(l, u) /\ l \notin taken[u]
    BY <1>1, <1>2 DEF Waiting, Place, TakenPrefix
  <1>7. \A x \in Locks, u \in Servers :
          Token(x, u)' => Token(x, u) \/ (x = l /\ u = d)
    <2> SUFFICES ASSUME NEW x \in Locks, NEW u \in Servers, Token(x, u)'
                 PROVE  Token(x, u) \/ (x = l /\ u = d)
      OBVIOUS
    <2>1. CASE x \in Waiting(u)'
      BY <1>6, <2>1 DEF Token
    <2>2. CASE \E m \in msgs' : m.type \in LockTypes /\ m.id = x /\ m.to = u
      BY <1>2, <1>4, <2>2 DEF Token
    <2> QED BY <2>1, <2>2 DEF Token
  <1>8. Place'
    <2> SUFFICES ASSUME NEW x \in Locks, NEW u \in Servers, Token(x, u)'
                 PROVE  /\ x \in issued' /\ u \in Visits(x)
                        /\ \A v \in Visits(x) :
                             /\ v < u => x \in lock_sent[v] \cup forgot[v]
                             /\ u <= v => x \notin taken[v]
      BY <1>2 DEF Place, Visits
    <2>1. CASE Token(x, u)
      BY <1>1, <1>2, <2>1 DEF Place
    <2>2. CASE x = l /\ u = d
      <3>1. \A v \in Visits(l) : ~(v < d)
        BY <1>3, ChainAssumption
      <3> QED BY <1>2, <1>3, <1>6, <2>2, <3>1
    <2> QED BY <1>7, <2>1, <2>2
  <1>9. PacketPlace'
    <2>1. \A m \in msgs : m.type \in LockTypes => m.id # l
      <3> SUFFICES ASSUME NEW m \in msgs, m.type \in LockTypes, m.id = l
                   PROVE  FALSE
        OBVIOUS
      <3>1. m.to \in Servers /\ Token(l, m.to)
        BY <1>1 DEF PacketPlace, Token
      <3> QED BY <1>6, <3>1
    <2> SUFFICES ASSUME NEW m \in msgs', m.type \in LockTypes
                 PROVE  /\ m.to \in Servers
                        /\ m.curr \in 0..(Len(Chain[m.id]) - 1)
                        /\ Chain[m.id][m.curr + 1] = m.to
                        /\ m.id \notin Waiting(m.to)'
                        /\ \A n \in msgs' :
                             n.type \in LockTypes /\ n.id = m.id => n = m
      BY DEF PacketPlace
    <2>2. CASE m \in msgs
      BY <1>1, <1>2, <1>4, <1>6, <2>1, <2>2 DEF PacketPlace
    <2>3. CASE m = p
      <3>1. /\ m.to \in Servers
            /\ m.curr \in 0..(Len(Chain[m.id]) - 1)
            /\ Chain[m.id][m.curr + 1] = m.to
        BY <1>3, <1>4, <2>3 DEF d
      <3>2. m.id \notin Waiting(m.to)'
        BY <1>3, <1>4, <1>6, <2>3 DEF Token
      <3> QED BY <1>2, <1>4, <2>1, <2>3, <3>1, <3>2
    <2> QED BY <1>2, <2>2, <2>3
  <1>10. WaitOnce' /\ CopyPlace' /\ SentTaken' /\ FinishTaken'
    BY <1>1, <1>2, <1>6 DEF WaitOnce, CopyPlace, SentTaken, FinishTaken
  <1>11. TakenPrefix'
    BY <1>1, <1>2 DEF TakenPrefix, Visits
  <1>12. UnlockPlace'
    <2>1. \A m \in msgs' : m.type = "LOCK_UNLOCK" => m \in msgs
      BY <1>2, <1>4
    <2> QED BY <1>1, <1>2, <2>1 DEF UnlockPlace, Visits
  <1> QED BY <1>5, <1>8, <1>9, <1>10, <1>11, <1>12 DEF Struct

\* s_core_dserv_lock puts a lock that is held back into lock_waiting.
LEMMA WaitStruct ==
  ASSUME Struct, NEW s \in Servers, NEW m \in msgs, DservLock(s, m),
         ConflictAll(s, m.id, m.curr + 1, {})
  PROVE  /\ Struct'
         /\ UNCHANGED <<taken, before, issued, forgot>>
         /\ \A x \in Locks, u \in Servers : Token(x, u)' <=> Token(x, u)
         /\ \A u \in Servers : \A x :
              x \in Waiting(u)' <=> x \in Waiting(u) \/ (u = s /\ x = m.id)
  <1> DEFINE l == m.id
             pos == m.curr + 1
             r == Append(lock_waiting[s], l)
  <1>1. /\ TypeOK /\ Place /\ PacketPlace /\ WaitOnce /\ CopyPlace
        /\ TakenPrefix /\ SentTaken /\ FinishTaken /\ UnlockPlace
    BY DEF Struct
  <1>2. /\ m.to = s /\ m.type \in LockTypes /\ l \in Locks
        /\ next_pos' = [next_pos EXCEPT ![s][l] = pos]
        /\ finish' = [finish EXCEPT ![s][l] = {}]
        /\ lock_waiting' = [lock_waiting EXCEPT ![s] = r]
        /\ msgs' = msgs \ {m}
        /\ UNCHANGED <<lock_sent, taken, before, scanning, issued, result, C,
                       active, alive, died, forgot>>
    BY <1>1 DEF DservLock, TypeOK, Message, histVars, clientVars, netVars
  <1>3. /\ m.curr \in 0..(Len(Chain[l]) - 1) /\ Chain[l][pos] = s
        /\ l \notin Waiting(s)
        /\ \A n \in msgs : n.type \in LockTypes /\ n.id = l => n = m
    BY <1>1, <1>2 DEF PacketPlace
  <1>4. pos \in 1..Len(Chain[l]) /\ pos \in Nat
    BY <1>2, <1>3, ChainFacts
  <1>5. Token(l, s)
    BY <1>2 DEF Token
  <1>6. lock_waiting[s] \in Seq(Locks) /\ l \notin ToSet(lock_waiting[s])
    BY <1>1, <1>3 DEF TypeOK, Waiting
  <1>7. /\ r \in Seq(Locks)
        /\ \A x : x \in ToSet(r) <=> x \in Waiting(s) \/ x = l
        /\ \A i, j \in DOMAIN r : r[i] = r[j] => i = j
    <2>1. \A i, j \in DOMAIN lock_waiting[s] :
            lock_waiting[s][i] = lock_waiting[s][j] => i = j
      BY <1>1 DEF WaitOnce
    <2> QED BY <1>2, <1>6, <2>1, AppendFacts DEF Waiting
  <1> HIDE DEF l, pos, r
  <1>8. \A u \in Servers : lock_waiting'[u] = IF u = s THEN r ELSE lock_waiting[u]
    BY <1>1, <1>2 DEF TypeOK
  <1>9. \A u \in Servers : \A x :
          x \in Waiting(u)' <=> x \in Waiting(u) \/ (u = s /\ x = l)
    BY <1>7, <1>8 DEF Waiting
  <1>10. ASSUME NEW x \in Locks, NEW u \in Servers
         PROVE  Token(x, u)' <=> Token(x, u)
    <2>1. Token(x, u)' => Token(x, u)
      BY <1>2, <1>5, <1>9 DEF Token
    <2>2. ASSUME NEW n \in msgs, n.type \in LockTypes, n.id = x, n.to = u
          PROVE  Token(x, u)'
      <3>1. CASE n = m
        <4>1. x = l /\ u = s
          BY <1>2, <2>2, <3>1 DEF l
        <4> QED BY <1>9, <4>1 DEF Token
      <3>2. CASE n # m
        BY <1>2, <2>2, <3>2 DEF Token
      <3> QED BY <3>1, <3>2
    <2>3. x \in Waiting(u) => Token(x, u)'
      BY <1>9 DEF Token
    <2> QED BY <2>1, <2>2, <2>3 DEF Token
  <1>11. TypeOK'
    BY <1>1, <1>2, <1>4, <1>7 DEF TypeOK
  <1>12. Place'
    BY <1>1, <1>2, <1>10 DEF Place, Visits
  <1>13. PacketPlace'
    <2> SUFFICES ASSUME NEW k \in msgs', k.type \in LockTypes
                 PROVE  /\ k.to \in Servers
                        /\ k.curr \in 0..(Len(Chain[k.id]) - 1)
                        /\ Chain[k.id][k.curr + 1] = k.to
                        /\ k.id \notin Waiting(k.to)'
                        /\ \A n \in msgs' :
                             n.type \in LockTypes /\ n.id = k.id => n = k
      BY DEF PacketPlace
    <2>1. /\ k.to \in Servers
          /\ k.curr \in 0..(Len(Chain[k.id]) - 1)
          /\ Chain[k.id][k.curr + 1] = k.to
          /\ k.id \notin Waiting(k.to)
          /\ \A n \in msgs : n.type \in LockTypes /\ n.id = k.id => n = k
      BY <1>1, <1>2 DEF PacketPlace
    <2>2. k.id # l
      BY <1>2, <1>3
    <2> QED BY <1>2, <1>9, <2>1, <2>2
  <1>14. WaitOnce'
    BY <1>1, <1>7, <1>8 DEF WaitOnce
  <1>15. CopyPlace'
    <2> SUFFICES ASSUME NEW u \in Servers, NEW x,
                        x \in lock_sent[u] \/ x \in Waiting(u)'
                 PROVE  /\ next_pos'[u][x] \in 1..Len(Chain[x])
                        /\ Chain[x][next_pos'[u][x]] = u
      BY <1>2 DEF CopyPlace
    <2>1. CASE u = s /\ x = l
      BY <1>1, <1>2, <1>3, <1>4, <2>1 DEF TypeOK, l, pos
    <2>2. CASE ~(u = s /\ x = l)
      <3>1. x \in lock_sent[u] \/ x \in Waiting(u)
        BY <1>9, <2>2
      <3>2. next_pos'[u][x] = next_pos[u][x]
        BY <1>1, <1>2, <2>2 DEF TypeOK
      <3> QED BY <1>1, <3>1, <3>2 DEF CopyPlace
    <2> QED BY <2>1, <2>2
  <1>16. TakenPrefix' /\ SentTaken'
    BY <1>1, <1>2 DEF TakenPrefix, SentTaken, Visits
  <1>17. FinishTaken'
    <2>1. \A u \in Servers, x \in Locks : finish'[u][x] \subseteq finish[u][x]
      BY <1>1, <1>2 DEF TypeOK
    <2> QED BY <1>1, <1>2, <2>1 DEF FinishTaken
  <1>18. UnlockPlace'
    BY <1>1, <1>2 DEF UnlockPlace, Visits
  <1>19. Struct'
    BY <1>11, <1>12, <1>13, <1>14, <1>15, <1>16, <1>17, <1>18 DEF Struct
  <1> QED BY <1>2, <1>9, <1>10, <1>19 DEF l

\* s_core_dserv_lock_unlock marks the dserv that has taken the lock; the copy
\* is never removed, since the mark of s itself is never set.
LEMMA UnlockStruct ==
  ASSUME Struct, NEW s \in Servers, NEW m \in msgs, DservUnlock(s, m)
  PROVE  /\ Struct'
         /\ UNCHANGED <<lock_waiting, taken, before, issued, forgot>>
         /\ msgs' \subseteq msgs
  <1> DEFINE l == m.id
             fin == finish[s][l] \cup ({m.from} \cap Visits(l))
  <1>1. /\ TypeOK /\ Place /\ PacketPlace /\ WaitOnce /\ CopyPlace
        /\ TakenPrefix /\ SentTaken /\ FinishTaken /\ UnlockPlace
    BY DEF Struct
  <1>2. /\ m.to = s /\ m.type = "LOCK_UNLOCK" /\ l \in Locks
        /\ msgs' = msgs \ {m}
        /\ UNCHANGED <<lock_waiting, next_pos, issued, result, C, active, alive,
                       died, forgot, taken, before>>
    BY <1>1 DEF DservUnlock, TypeOK, Message, clientVars, netVars, histVars
  <1>3. /\ m.from \in Servers /\ s \in Visits(l) /\ s < m.from
        /\ l \in taken[m.from]
    BY <1>1, <1>2 DEF UnlockPlace
  <1>4. s \notin fin
    <2>1. ~(s < s)
      BY ChainAssumption
    <2> QED BY <1>1, <1>2, <1>3, <2>1 DEF FinishTaken
  <1>5. CASE l \notin lock_sent[s]
    <2>1. UNCHANGED <<finish, lock_sent, scanning>>
      BY <1>5 DEF DservUnlock
    <2>2. TypeOK'
      BY <1>1, <1>2, <2>1 DEF TypeOK
    <2> QED BY <1>2, <2>1, <2>2, QuietStruct
  <1>6. CASE l \in lock_sent[s]
    <2>1. /\ finish' = [finish EXCEPT ![s][l] = fin]
          /\ lock_sent' = [lock_sent EXCEPT ![s] =
                             IF Visits(l) \subseteq fin THEN @ \ {l} ELSE @]
          /\ scanning' = [scanning EXCEPT ![s] = TRUE]
      BY <1>6 DEF DservUnlock, Visits
    <2>2. lock_sent' = lock_sent
      BY <1>1, <1>3, <1>4, <2>1 DEF TypeOK
    <2>3. fin \subseteq Servers
      BY <1>1, <1>2, <1>3 DEF TypeOK
    <2>4. \A t \in fin : s < t /\ l \in taken[t]
      BY <1>1, <1>2, <1>3 DEF FinishTaken
    <2> HIDE DEF l, fin
    <2>5. TypeOK'
      BY <1>1, <1>2, <2>1, <2>2, <2>3 DEF TypeOK
    <2>6. \A u \in Servers, x \in Locks :
             finish'[u][x] = IF u = s /\ x = l THEN fin ELSE finish[u][x]
      BY <1>1, <2>1 DEF TypeOK
    <2>7. FinishTaken'
      BY <1>1, <1>2, <2>4, <2>6 DEF FinishTaken
    <2>8. \A u \in Servers : Waiting(u)' = Waiting(u)
      BY <1>2 DEF Waiting
    <2>9. \A x \in Locks, u \in Servers : Token(x, u)' => Token(x, u)
      BY <1>2, <2>8 DEF Token
    <2>10. Place'
      BY <1>1, <1>2, <2>2, <2>9 DEF Place, Visits
    <2>11. PacketPlace'
      BY <1>1, <1>2 DEF PacketPlace, Waiting
    <2>12. WaitOnce' /\ CopyPlace' /\ TakenPrefix' /\ SentTaken'
      BY <1>1, <1>2, <2>2, <2>8 DEF WaitOnce, CopyPlace, TakenPrefix, SentTaken,
                                    Visits
    <2>13. UnlockPlace'
      BY <1>1, <1>2, <2>2 DEF UnlockPlace, Visits
    <2> QED BY <1>2, <2>5, <2>7, <2>10, <2>11, <2>12, <2>13 DEF Struct
  <1> QED BY <1>5, <1>6

\* The remaining steps receive or lose packets, count, or notice a dead peer.
LEMMA QuietSteps ==
  ASSUME Struct,
         \/ \E s \in Servers : ScanEnd(s)
         \/ \E c \in Clients, m \in msgs : LockCallback(c, m)
         \/ \E p \in Nodes : Crash(p)
         \/ \E p, q \in Nodes : Disconnect(p, q)
         \/ \E s \in Servers, q \in Nodes : Reconnect(s, q)
         \/ UNCHANGED vars
  PROVE  /\ TypeOK' /\ msgs' \subseteq msgs
         /\ UNCHANGED <<lock_waiting, lock_sent, next_pos, finish, issued, taken,
                        before, forgot>>
  <1>1. TypeOK
    BY DEF Struct
  <1>2. ASSUME NEW s \in Servers, ScanEnd(s)
        PROVE  /\ TypeOK' /\ msgs' \subseteq msgs
               /\ UNCHANGED <<lock_waiting, lock_sent, next_pos, finish, issued,
                              taken, before, forgot>>
    BY <1>1, <1>2 DEF ScanEnd, TypeOK, clientVars, netVars, histVars
  <1>3. ASSUME NEW c \in Clients, NEW m \in msgs, LockCallback(c, m)
        PROVE  /\ TypeOK' /\ msgs' \subseteq msgs
               /\ UNCHANGED <<lock_waiting, lock_sent, next_pos, finish, issued,
                              taken, before, forgot>>
    <2>1. /\ msgs' = msgs \ {m}
          /\ UNCHANGED <<lock_waiting, lock_sent, next_pos, finish, scanning,
                         issued, active, alive, died, forgot, taken, before>>
      BY <1>3 DEF LockCallback, dservVars, netVars, histVars
    <2>2. result' \subseteq Locks /\ C' \in [Clients -> Nat]
      <3>1. m.id \in Locks /\ result \subseteq Locks /\ C \in [Clients -> Nat]
        BY <1>1 DEF TypeOK, Message
      <3>2. \/ result' = result \cup {m.id} /\ C' = [C EXCEPT ![c] = @ + 1]
            \/ result' = result /\ C' = C
        BY <1>3 DEF LockCallback
      <3> QED BY <3>1, <3>2
    <2> QED BY <1>1, <2>1, <2>2 DEF TypeOK
  <1>4. ASSUME NEW p \in Nodes, Crash(p)
        PROVE  /\ TypeOK' /\ msgs' \subseteq msgs
               /\ UNCHANGED <<lock_waiting, lock_sent, next_pos, finish, issued,
                              taken, before, forgot>>
    BY <1>1, <1>4 DEF Crash, TypeOK, dservVars, clientVars, histVars
  <1>5. ASSUME NEW p \in Nodes, NEW q \in Nodes, Disconnect(p, q)
        PROVE  /\ TypeOK' /\ msgs' \subseteq msgs
               /\ UNCHANGED <<lock_waiting, lock_sent, next_pos, finish, issued,
                              taken, before, forgot>>
    BY <1>1, <1>5 DEF Disconnect, TypeOK, dservVars, clientVars, histVars
  <1>6. ASSUME UNCHANGED vars
        PROVE  /\ TypeOK' /\ msgs' \subseteq msgs
               /\ UNCHANGED <<lock_waiting, lock_sent, next_pos, finish, issued,
                              taken, before, forgot>>
    BY <1>1, <1>6 DEF vars, TypeOK, dservVars, clientVars, netVars, histVars
  <1>7. ASSUME NEW s \in Servers, NEW q \in Nodes, Reconnect(s, q)
        PROVE  /\ TypeOK' /\ msgs' \subseteq msgs
               /\ UNCHANGED <<lock_waiting, lock_sent, next_pos, finish, issued,
                              taken, before, forgot>>
    <2>1. s \in Nodes
      BY DEF Nodes
    <2> QED BY <1>1, <1>7, <2>1 DEF Reconnect, TypeOK, dservVars, clientVars, histVars
  <1> QED BY <1>2, <1>3, <1>4, <1>5, <1>6, <1>7

\* init_dserv of a dserv that is started again: its tables are empty, and what it
\* had taken is what it has forgotten.
LEMMA RestartTables ==
  ASSUME Struct, NEW s \in Servers, Restart(s)
  PROVE  /\ UNCHANGED <<msgs, issued, result, C, taken, before, died>>
         /\ lock_waiting' \in [Servers -> Seq(Locks)]
         /\ lock_waiting'[s] = <<>> /\ Waiting(s)' = {}
         /\ lock_sent'[s] = {} /\ forgot'[s] = taken[s]
         /\ \A x \in Locks : finish'[s][x] = {}
         /\ \A u \in Servers : u # s =>
              /\ lock_waiting'[u] = lock_waiting[u] /\ lock_sent'[u] = lock_sent[u]
              /\ next_pos'[u] = next_pos[u] /\ finish'[u] = finish[u]
              /\ scanning'[u] = scanning[u] /\ forgot'[u] = forgot[u]
         /\ \A u \in Servers : Waiting(u)' \subseteq Waiting(u)
         /\ \A u \in Servers : forgot[u] \subseteq forgot'[u]
         /\ \A x \in Locks, u \in Servers : Token(x, u)' => Token(x, u)
  <1>1. TypeOK /\ SentTaken
    BY DEF Struct
  <1>2. UNCHANGED <<msgs, issued, result, C, taken, before, died>>
    BY DEF Restart, clientVars, histVars
  <1>3. /\ lock_waiting' = [lock_waiting EXCEPT ![s] = <<>>]
        /\ lock_waiting' \in [Servers -> Seq(Locks)]
        /\ lock_waiting'[s] = <<>>
        /\ \A u \in Servers : u # s => lock_waiting'[u] = lock_waiting[u]
    BY <1>1 DEF Restart, TypeOK
  <1>4. /\ lock_sent'[s] = {} /\ forgot'[s] = taken[s]
        /\ \A u \in Servers : u # s =>
              /\ lock_sent'[u] = lock_sent[u]
              /\ next_pos'[u] = next_pos[u]
              /\ scanning'[u] = scanning[u] /\ forgot'[u] = forgot[u]
    BY <1>1 DEF Restart, TypeOK
  <1>5. /\ \A x \in Locks : finish'[s][x] = {}
        /\ \A u \in Servers : u # s => finish'[u] = finish[u]
    BY <1>1 DEF Restart, TypeOK
  <1>6. Waiting(s)' = {} /\ \A u \in Servers : u # s => Waiting(u)' = Waiting(u)
    BY <1>3 DEF Waiting, ToSet
  <1>7. \A u \in Servers : Waiting(u)' \subseteq Waiting(u)
    BY <1>6
  <1>8. \A u \in Servers : forgot[u] \subseteq forgot'[u]
    BY <1>1, <1>4 DEF SentTaken
  <1>9. \A x \in Locks, u \in Servers : Token(x, u)' => Token(x, u)
    BY <1>2, <1>7 DEF Token
  <1> QED BY <1>2, <1>3, <1>4, <1>5, <1>6, <1>7, <1>8, <1>9

LEMMA RestartStruct ==
  ASSUME Struct, NEW s \in Servers, Restart(s)
  PROVE  Struct'
  <1>1. /\ TypeOK /\ Place /\ PacketPlace /\ WaitOnce /\ CopyPlace
        /\ TakenPrefix /\ SentTaken /\ FinishTaken /\ UnlockPlace
    BY DEF Struct
  <1>2. /\ UNCHANGED <<msgs, issued, result, C, taken, before, died>>
        /\ lock_waiting' \in [Servers -> Seq(Locks)]
        /\ lock_waiting'[s] = <<>> /\ Waiting(s)' = {}
        /\ lock_sent'[s] = {} /\ forgot'[s] = taken[s]
        /\ \A x \in Locks : finish'[s][x] = {}
        /\ \A u \in Servers : u # s =>
             /\ lock_waiting'[u] = lock_waiting[u] /\ lock_sent'[u] = lock_sent[u]
             /\ next_pos'[u] = next_pos[u] /\ finish'[u] = finish[u]
             /\ forgot'[u] = forgot[u]
        /\ \A u \in Servers : Waiting(u)' \subseteq Waiting(u)
        /\ \A x \in Locks, u \in Servers : Token(x, u)' => Token(x, u)
    BY RestartTables
  <1>3. TypeOK'
    <2>1. s \in Nodes
      BY DEF Nodes
    <2>2. /\ lock_sent' \in [Servers -> SUBSET Locks]
          /\ next_pos' \in [Servers -> [Locks -> Nat]]
          /\ scanning' \in [Servers -> BOOLEAN]
          /\ forgot' \in [Servers -> SUBSET Locks]
      BY <1>1 DEF Restart, TypeOK
    <2>3. finish' \in [Servers -> [Locks -> SUBSET Servers]]
      BY <1>1 DEF Restart, TypeOK
    <2>4. active' \in [Nodes -> SUBSET Nodes] /\ alive' \subseteq Nodes
      BY <1>1, <2>1 DEF Restart, TypeOK
    <2> QED BY <1>1, <1>2, <2>2, <2>3, <2>4 DEF TypeOK
  <1>4. \A u \in Servers : /\ lock_sent[u] \cup forgot[u] \subseteq
                                lock_sent'[u] \cup forgot'[u]
                           /\ lock_sent'[u] \cup forgot'[u] \subseteq taken[u]
    BY <1>1, <1>2 DEF SentTaken
  <1>5. Place'
    <2> SUFFICES ASSUME NEW x \in Locks, NEW u \in Servers, Token(x, u)'
                 PROVE  /\ x \in issued /\ u \in Visits(x)
                        /\ \A v \in Visits(x) :
                             /\ v < u => x \in lock_sent'[v] \cup forgot'[v]
                             /\ u <= v => x \notin taken[v]
      BY <1>2 DEF Place, Visits
    <2>1. Token(x, u) /\ Visits(x) \subseteq Servers
      BY <1>2, ChainFacts
    <2> QED BY <1>1, <1>4, <2>1 DEF Place
  <1>6. PacketPlace'
    BY <1>1, <1>2 DEF PacketPlace
  <1>7. WaitOnce'
    BY <1>1, <1>2 DEF WaitOnce
  <1>8. CopyPlace'
    BY <1>1, <1>2 DEF CopyPlace
  <1>9. TakenPrefix'
    BY <1>1, <1>2 DEF TakenPrefix, Visits
  <1>10. SentTaken'
    BY <1>2, <1>4 DEF SentTaken
  <1>11. FinishTaken'
    BY <1>1, <1>2 DEF FinishTaken
  <1>12. UnlockPlace'
    <2> SUFFICES ASSUME NEW m \in msgs, m.type = "LOCK_UNLOCK"
                 PROVE  /\ m.from \in Servers /\ m.to \in Visits(m.id)
                        /\ m.to < m.from /\ m.id \in taken[m.from]
                        /\ m.id \in lock_sent'[m.to] \cup forgot'[m.to]
      BY <1>2 DEF UnlockPlace, Visits
    <2>1. m.id \in Locks
      BY <1>1 DEF TypeOK, Message
    <2>2. /\ m.from \in Servers /\ m.to \in Visits(m.id)
          /\ m.to < m.from /\ m.id \in taken[m.from]
          /\ m.id \in lock_sent[m.to] \cup forgot[m.to]
      BY <1>1 DEF UnlockPlace
    <2>3. m.to \in Servers
      BY <2>1, <2>2, ChainFacts
    <2> QED BY <1>4, <2>2, <2>3
  <1> QED BY <1>3, <1>5, <1>6, <1>7, <1>8, <1>9, <1>10, <1>11, <1>12 DEF Struct

LEMMA StructInit == Init => Struct
  <1> SUFFICES ASSUME Init PROVE Struct
    OBVIOUS
  <1>1. TypeOK
    BY DEF Init, TypeOK
  <1>2. \A u \in Servers : Waiting(u) = {}
    BY DEF Init, Waiting, ToSet
  <1>3. \A l \in Locks, u \in Servers : ~Token(l, u)
    BY <1>2 DEF Init, Token
  <1>4. Place /\ PacketPlace /\ UnlockPlace
    BY <1>3 DEF Init, Place, PacketPlace, UnlockPlace
  <1>5. WaitOnce
    BY DEF Init, WaitOnce
  <1>6. CopyPlace /\ TakenPrefix /\ SentTaken /\ FinishTaken
    BY <1>2 DEF Init, CopyPlace, TakenPrefix, SentTaken, FinishTaken
  <1> QED BY <1>1, <1>4, <1>5, <1>6 DEF Struct

LEMMA StructNext == Struct /\ [Next]_vars => Struct'
  <1> SUFFICES ASSUME Struct, [Next]_vars PROVE Struct'
    OBVIOUS
  <1>1. CASE \E l \in Locks : AccessData(l)
    BY <1>1, AccessStruct
  <1>2. ASSUME NEW s \in Servers, NEW m \in msgs, DservLock(s, m)
        PROVE  Struct'
    <2>1. CASE ConflictAll(s, m.id, m.curr + 1, {})
      BY <1>2, <2>1, WaitStruct
    <2>2. CASE ~ConflictAll(s, m.id, m.curr + 1, {})
      BY <1>2, <2>2, DservLockTakes, TakeStruct
    <2> QED BY <2>1, <2>2
  <1>3. CASE \E s \in Servers, m \in msgs : DservUnlock(s, m)
    BY <1>3, UnlockStruct
  <1>4. CASE \E s \in Servers : ScanTake(s)
    BY <1>4, ScanTakes, TakeStruct
  <1>5. CASE \/ \E s \in Servers : ScanEnd(s)
             \/ \E c \in Clients, m \in msgs : LockCallback(c, m)
             \/ \E p \in Nodes : Crash(p)
             \/ \E p, q \in Nodes : Disconnect(p, q)
             \/ \E s \in Servers, q \in Nodes : Reconnect(s, q)
             \/ UNCHANGED vars
    BY <1>5, QuietSteps, QuietStruct
  <1>6. CASE \E s \in Servers : Restart(s)
    BY <1>6, RestartStruct
  <1> QED BY <1>1, <1>2, <1>3, <1>4, <1>5, <1>6 DEF Next

-----------------------------------------------------------------------------
(* The order in which locks are taken.                                      *)

\* A step that takes no lock and moves no request that is under way.
LEMMA OrderStable ==
  ASSUME Struct, Order, taken' = taken, before' = before,
         \A u \in Servers : forgot[u] \subseteq forgot'[u],
         \A x \in Locks, u \in Servers : Token(x, u)' => Token(x, u) \/ x \notin issued
  PROVE  Order'
  <1>1. LocalOrder /\ TokenBehind /\ TakenBehind /\ TakenPrefix
    BY DEF Struct, Order
  <1>2. LocalOrder'
    BY <1>1 DEF LocalOrder
  <1>3. ASSUME NEW r \in Servers, NEW a \in Locks, NEW b \in Locks,
               <<a, b>> \in before[r]
        PROVE  /\ \A u \in Servers : Token(b, u)' => Token(b, u)
               /\ NoToken(a) => NoToken(a)'
               /\ Lost(a, b) => Lost(a, b)'
    <2>1. a \in issued /\ b \in issued
      BY <1>1, <1>3 DEF LocalOrder, TakenPrefix
    <2>2. Lost(a, b) => Lost(a, b)'
      BY DEF Lost, Visits
    <2> QED BY <2>1, <2>2 DEF NoToken
  <1>4. TokenBehind'
    <2> SUFFICES ASSUME NEW r \in Servers, NEW u \in Servers, NEW t \in Servers,
                        NEW a \in Locks, NEW b \in Locks,
                        <<a, b>> \in before[r], Token(b, u)', Meet(a, b, u, t)
                 PROVE  a \in taken[t] \/ NoToken(a)' \/ Lost(a, b)'
      BY DEF TokenBehind, Meet, Visits
    <2>1. a \in taken[t] \/ NoToken(a) \/ Lost(a, b)
      BY <1>1, <1>3 DEF TokenBehind
    <2> QED BY <1>3, <2>1
  <1>5. TakenBehind'
    <2> SUFFICES ASSUME NEW r \in Servers, NEW t \in Servers,
                        NEW a \in Locks, NEW b \in Locks,
                        <<a, b>> \in before[r], r < t, t \in Visits(a),
                        b \in taken[t]
                 PROVE  \/ <<a, b>> \in before[t]
                        \/ a \notin taken[t] /\ NoToken(a)'
                        \/ Lost(a, b)'
      BY DEF TakenBehind, Visits
    <2>1. \/ <<a, b>> \in before[t] \/ (a \notin taken[t] /\ NoToken(a))
          \/ Lost(a, b)
      BY <1>1 DEF TakenBehind
    <2> QED BY <1>3, <2>1
  <1> QED BY <1>2, <1>4, <1>5 DEF Order

\* What ilock_conflict_all buys: when s takes l, a lock x that s took before is
\* past the next dserv the two have in common, or will never get there, or s has
\* been restarted since it took x.
LEMMA TakeMeets ==
  ASSUME Struct, NEW s \in Servers, NEW l \in Locks, NEW pos, NEW fin, NEW rest,
         TakeStep(s, l, pos, fin, rest),
         NEW x \in Locks, x \in taken[s],
         NEW t \in Servers, t \in Visits(x), t \in Visits(l), s < t,
         \A v \in Servers : v \in Visits(x) /\ v \in Visits(l) /\ s < v => t <= v
  PROVE  x \in taken[t] \/ NoToken(x) \/ Lost(x, l)
  <1>1. /\ Place /\ CopyPlace /\ TakenPrefix /\ FinishTaken
        /\ Token(l, s) /\ pos \in 1..Len(Chain[l]) /\ Chain[l][pos] = s
        /\ fin \subseteq finish[s][l] /\ ~ConflictAll(s, l, pos, fin)
    BY DEF Struct, TakeStep
  <1>2. s \in Nat /\ t \in Nat /\ s <= t
    BY ChainAssumption
  <1>5. s \in Visits(x) /\ s \in Visits(l)
    BY <1>1 DEF TakenPrefix, Place
  <1>6. CASE x \in forgot[s]
    BY <1>5, <1>6 DEF Lost
  <1>3. CASE x \notin lock_sent[s] /\ x \notin forgot[s]
    <2> SUFFICES ASSUME NEW u \in Servers, Token(x, u) PROVE FALSE
      BY DEF NoToken
    <2>1. s \in Visits(x)
      BY <1>5
    <2>2. ~(s < u) /\ ~(u <= s)
      BY <1>1, <1>3, <2>1 DEF Place
    <2> QED BY <2>2, ChainAssumption
  <1>4. CASE x \in lock_sent[s]
    <2> DEFINE p == next_pos[s][x]
               common == Rest(x, p) \cap Rest(l, pos)
    <2>1. p \in 1..Len(Chain[x]) /\ Chain[x][p] = s
      BY <1>1, <1>4 DEF CopyPlace
    <2>2. \A v \in Servers : v \in common <=>
            v \in Visits(x) /\ v \in Visits(l) /\ s < v
      BY <1>1, <2>1, RestFacts
    <2>3. common \subseteq Servers
      <3>1. \A i \in (pos + 1)..Len(Chain[l]) : i \in 1..Len(Chain[l])
        BY <1>1, ChainFacts
      <3>2. Rest(l, pos) \subseteq Servers
        BY <3>1, ChainFacts DEF Rest
      <3> QED BY <3>2
    <2>4. ~IsConflict(x, p, finish[s][x], l, pos, fin)
      BY <1>1, <1>4 DEF ConflictAll
    <2>5. t \in common /\ \A v \in common : t <= v
      BY <2>2, <2>3
    <2>6. t \in finish[s][x] \/ t \in fin
      BY <2>4, <2>5 DEF IsConflict
    <2>7. t \notin fin
      BY <1>1, <1>2 DEF FinishTaken, Place
    <2>8. t \in finish[s][x]
      BY <2>6, <2>7
    <2> QED BY <1>1, <2>8 DEF FinishTaken
  <1> QED BY <1>3, <1>4, <1>6

LEMMA TakeOrder ==
  ASSUME Struct, Order,
         NEW s \in Servers, NEW l \in Locks, NEW pos, NEW fin, NEW rest,
         TakeStep(s, l, pos, fin, rest)
  PROVE  Order'
  <1>1. /\ TypeOK /\ Place /\ TakenPrefix /\ Token(l, s)
        /\ LocalOrder /\ TokenBehind /\ TakenBehind
    BY DEF Struct, Order, TakeStep
  <1>2. /\ s \in Nat /\ s <= s /\ s \in Visits(l)
        /\ \A v \in Visits(l) : s <= v => l \notin taken[v]
    BY <1>1, ChainAssumption DEF Place
  <1>3. /\ \A u \in Servers : \A x :
             x \in taken'[u] <=> x \in taken[u] \/ (u = s /\ x = l)
        /\ \A u \in Servers : \A x, y :
             <<x, y>> \in before'[u] <=>
               <<x, y>> \in before[u] \/ (u = s /\ x \in taken[s] /\ y = l)
    BY <1>1, TakeTables
  <1>4. \A x \in Locks : NoToken(x) => x # l /\ NoToken(x)'
    <2> SUFFICES ASSUME NEW x \in Locks, NoToken(x) PROVE x # l /\ NoToken(x)'
      OBVIOUS
    <2>1. x # l
      BY <1>1 DEF NoToken
    <2>2. ASSUME NEW u \in Servers, Token(x, u)' PROVE FALSE
      <3>1. Token(x, u)
        BY <2>1, <2>2, TakeTokens
      <3> QED BY <3>1 DEF NoToken
    <2> QED BY <2>1, <2>2 DEF NoToken
  <1>5. l \notin taken[s]
    BY <1>2
  <1>l. \A x, y : Lost(x, y) => Lost(x, y)'
    <2>1. forgot' = forgot
      BY DEF TakeStep, netVars
    <2> QED BY <2>1 DEF Lost, Visits
  <1>6. LocalOrder'
    <2> SUFFICES ASSUME NEW u \in Servers, NEW a \in Locks, NEW b \in Locks,
                        <<a, b>> \in before'[u]
                 PROVE  /\ a \in taken'[u] /\ b \in taken'[u]
                        /\ <<b, a>> \notin before'[u]
      BY DEF LocalOrder
    <2>1. CASE <<a, b>> \in before[u]
      <3>1. a \in taken[u] /\ b \in taken[u] /\ <<b, a>> \notin before[u]
        BY <1>1, <2>1 DEF LocalOrder
      <3>2. ~(u = s /\ a = l)
        BY <1>5, <3>1
      <3> QED BY <1>3, <3>1, <3>2
    <2>2. CASE u = s /\ a \in taken[s] /\ b = l
      <3>1. <<l, a>> \notin before[s]
        BY <1>1, <1>5 DEF LocalOrder
      <3> QED BY <1>3, <1>5, <2>2, <3>1
    <2> QED BY <1>3, <2>1, <2>2
  <1>7. \* The request l is behind every lock it has to follow where it meets it.
        ASSUME NEW r \in Servers, NEW a \in Locks, <<a, l>> \in before[r],
               NEW t \in Servers, Meet(a, l, s, t)
        PROVE  a \in taken[t] \/ NoToken(a) \/ Lost(a, l)
    BY <1>1, <1>7 DEF TokenBehind
  <1>8. TokenBehind'
    <2> SUFFICES ASSUME NEW r \in Servers, NEW u \in Servers, NEW t \in Servers,
                        NEW a \in Locks, NEW b \in Locks,
                        <<a, b>> \in before'[r], Token(b, u)', Meet(a, b, u, t)
                 PROVE  a \in taken'[t] \/ NoToken(a)' \/ Lost(a, b)'
      BY DEF TokenBehind, Meet, Visits
    <2> SUFFICES a \in taken[t] \/ NoToken(a) \/ Lost(a, b)
      BY <1>3, <1>4, <1>l
    <2>1. CASE b # l /\ Token(b, u)
      <3>1. <<a, b>> \in before[r]
        BY <1>3, <2>1
      <3> QED BY <1>1, <2>1, <3>1 DEF TokenBehind
    <2>2. CASE b = l /\ s < u /\ \A v \in Visits(l) : s < v => u <= v
      <3>1. /\ t \in Visits(a) /\ t \in Visits(l) /\ u <= t
            /\ \A v \in Servers :
                 v \in Visits(a) /\ v \in Visits(l) /\ u <= v => t <= v
        BY <2>2 DEF Meet
      <3>2. \A v \in Servers : v \in Visits(a) /\ v \in Visits(l) /\ s < v => t <= v
        BY <2>2, <3>1
      <3>3. u \in Nat /\ t \in Nat /\ s < t
        BY <1>2, <2>2, <3>1, ChainAssumption
      <3>4. CASE a \in taken[s]
        BY <2>2, <3>1, <3>2, <3>3, <3>4, TakeMeets
      <3>5. CASE a \notin taken[s]
        <4>1. <<a, l>> \in before[r]
          BY <1>3, <2>2, <3>5
        <4>2. CASE s \in Visits(a)
          <5>1. Meet(a, l, s, s)
            BY <1>2, <4>2 DEF Meet
          <5> QED BY <1>7, <2>2, <3>5, <4>1, <5>1
        <4>3. CASE s \notin Visits(a)
          <5>1. ASSUME NEW v \in Servers, v \in Visits(a), v \in Visits(l), s <= v
                PROVE  t <= v
            <6>1. v # s /\ v \in Nat
              BY <4>3, <5>1, ChainAssumption
            <6>2. s < v
              BY <1>2, <5>1, <6>1
            <6> QED BY <3>2, <5>1, <6>2
          <5>2. s <= t
            BY <1>2, <3>3
          <5>3. Meet(a, l, s, t)
            BY <3>1, <5>1, <5>2 DEF Meet
          <5> QED BY <1>7, <2>2, <4>1, <5>3
        <4> QED BY <4>2, <4>3
      <3> QED BY <3>4, <3>5
    <2> QED BY <2>1, <2>2, TakeTokens
  <1>9. TakenBehind'
    <2> SUFFICES ASSUME NEW r \in Servers, NEW t \in Servers,
                        NEW a \in Locks, NEW b \in Locks,
                        <<a, b>> \in before'[r], r < t, t \in Visits(a),
                        b \in taken'[t]
                 PROVE  \/ <<a, b>> \in before'[t]
                        \/ a \notin taken'[t] /\ NoToken(a)'
                        \/ Lost(a, b)'
      BY DEF TakenBehind, Visits
    <2>1. CASE <<a, b>> \notin before[r]
      <3>1. r = s /\ b = l
        BY <1>3, <2>1
      <3>2. s <= t /\ t # s
        BY <3>1, <1>2, ChainAssumption
      <3>3. l \in taken[t]
        BY <1>3, <3>1, <3>2
      <3>4. t \in Visits(l)
        BY <1>1, <3>3 DEF TakenPrefix
      <3> QED BY <1>2, <3>2, <3>3, <3>4
    <2>2. CASE <<a, b>> \in before[r] /\ b \in taken[t]
      <3>1. \/ <<a, b>> \in before[t] \/ (a \notin taken[t] /\ NoToken(a))
            \/ Lost(a, b)
        BY <1>1, <2>2 DEF TakenBehind
      <3> QED BY <1>3, <1>4, <1>l, <3>1
    <2>3. CASE <<a, b>> \in before[r] /\ t = s /\ b = l
      <3>1. Meet(a, l, s, s)
        BY <1>2, <2>3 DEF Meet
      <3>2. a \in taken[s] \/ NoToken(a) \/ Lost(a, b)
        BY <1>7, <2>3, <3>1
      <3>3. a \in taken[s] => <<a, l>> \in before'[s]
        BY <1>3
      <3>4. CASE a \in taken[s]
        BY <2>3, <3>3, <3>4
      <3>5. CASE a \notin taken[s]
        BY <1>3, <1>4, <1>l, <2>3, <3>2, <3>5
      <3> QED BY <3>4, <3>5
    <2> QED BY <1>3, <2>1, <2>2, <2>3
  <1> QED BY <1>6, <1>8, <1>9 DEF Order

LEMMA OrderInit == Init => Order
  BY DEF Init, Order, LocalOrder, TokenBehind, TakenBehind

LEMMA OrderNext == Struct /\ Order /\ [Next]_vars => Order'
  <1> SUFFICES ASSUME Struct, Order, [Next]_vars PROVE Order'
    OBVIOUS
  <1>1. ASSUME NEW l \in Locks, AccessData(l)
        PROVE  Order'
    <2> DEFINE p == Packet("LOCK_START", l, 0, Owner[l], Chain[l][1])
    <2>1. /\ l \notin issued /\ msgs' \subseteq msgs \cup {p}
          /\ UNCHANGED <<lock_waiting, taken, before, forgot>>
      BY <1>1 DEF AccessData, Sent, dservVars, netVars, histVars
    <2>2. p.id = l
      BY DEF Packet
    <2> HIDE DEF p
    <2>3. \A u \in Servers : Waiting(u)' = Waiting(u)
      BY <2>1 DEF Waiting
    <2>4. \A x \in Locks, u \in Servers :
            Token(x, u)' => Token(x, u) \/ x \notin issued
      BY <2>1, <2>2, <2>3 DEF Token
    <2> QED BY <2>1, <2>4, OrderStable
  <1>2. ASSUME NEW s \in Servers, NEW m \in msgs, DservLock(s, m)
        PROVE  Order'
    <2>1. CASE ConflictAll(s, m.id, m.curr + 1, {})
      <3>1. /\ taken' = taken /\ before' = before /\ forgot' = forgot
            /\ \A x \in Locks, u \in Servers : Token(x, u)' => Token(x, u)
        BY <1>2, <2>1, WaitStruct
      <3> QED BY <3>1, OrderStable
    <2>2. CASE ~ConflictAll(s, m.id, m.curr + 1, {})
      BY <1>2, <2>2, DservLockTakes, TakeOrder
    <2> QED BY <2>1, <2>2
  <1>3. CASE \E s \in Servers : ScanTake(s)
    BY <1>3, ScanTakes, TakeOrder
  <1>4. ASSUME msgs' \subseteq msgs, UNCHANGED <<lock_waiting, taken, before, forgot>>
        PROVE  Order'
    <2>1. \A u \in Servers : Waiting(u)' = Waiting(u)
      BY <1>4 DEF Waiting
    <2>2. \A x \in Locks, u \in Servers : Token(x, u)' => Token(x, u)
      BY <1>4, <2>1 DEF Token
    <2> QED BY <1>4, <2>2, OrderStable
  <1>5. CASE \E s \in Servers, m \in msgs : DservUnlock(s, m)
    BY <1>4, <1>5, UnlockStruct
  <1>6. CASE \/ \E s \in Servers : ScanEnd(s)
             \/ \E c \in Clients, m \in msgs : LockCallback(c, m)
             \/ \E p \in Nodes : Crash(p)
             \/ \E p, q \in Nodes : Disconnect(p, q)
             \/ \E s \in Servers, q \in Nodes : Reconnect(s, q)
             \/ UNCHANGED vars
    BY <1>4, <1>6, QuietSteps
  <1>7. CASE \E s \in Servers : Restart(s)
    BY <1>7, RestartTables, OrderStable
  <1> QED BY <1>1, <1>2, <1>3, <1>5, <1>6, <1>7 DEF Next

-----------------------------------------------------------------------------
(* What the clients are told.                                               *)

\* The dserv that sends LOCK_END is the last of the list: all have taken l.
LEMMA TakeEnd ==
  ASSUME Struct, NEW s \in Servers, NEW l \in Locks, NEW pos, NEW fin, NEW rest,
         TakeStep(s, l, pos, fin, rest), pos >= Len(Chain[l])
  PROVE  AllTaken(l)'
  <1>1. /\ TypeOK /\ Place /\ SentTaken /\ Token(l, s)
        /\ pos \in 1..Len(Chain[l]) /\ Chain[l][pos] = s
        /\ Len(Chain[l]) \in Nat /\ pos = Len(Chain[l])
    BY ChainFacts DEF Struct, TakeStep
  <1> SUFFICES ASSUME NEW v \in Visits(l) PROVE l \in taken'[v]
    BY DEF AllTaken, Visits
  <1>2. PICK i \in 1..Len(Chain[l]) : v = Chain[l][i]
    BY ChainFacts
  <1>3. v \in Servers /\ (i = pos \/ i < pos)
    BY <1>1, ChainFacts
  <1>4. i < pos => v < s
    BY <1>1, <1>2, ChainAssumption
  <1>5. v < s => l \in taken[v]
    BY <1>1, <1>3 DEF Place, SentTaken
  <1> QED BY <1>1, <1>2, <1>3, <1>4, <1>5, TakeTables

\* The LOCK_END a step of a dserv adds.
LEMMA EndPackets ==
  ASSUME TypeOK, NEW s \in Servers, NEW l \in Locks, NEW pos, NEW fin, NEW rest,
         TakeStep(s, l, pos, fin, rest),
         NEW m \in msgs', m.type = "LOCK_END", m \notin rest
  PROVE  /\ m = Packet("LOCK_END", l, 0, s, NextHop(l, pos)) /\ m.id = l
         /\ pos >= Len(Chain[l])
  <1>1. msgs' = rest \cup Sent(UnlockPackets(s, l, pos) \cup NextPackets(s, l, pos))
    BY DEF TakeStep, TakeDone
  <1>2. m \in UnlockPackets(s, l, pos) \/ m \in NextPackets(s, l, pos)
    BY <1>1 DEF Sent
  <1>3. m \notin UnlockPackets(s, l, pos)
    BY DEF UnlockPackets, Packet
  <1>4. Packet("LOCK_NEXT", l, pos, s, NextHop(l, pos)).type = "LOCK_NEXT"
    BY DEF Packet
  <1>5. m = Packet("LOCK_END", l, 0, s, NextHop(l, pos)) /\ pos >= Len(Chain[l])
    BY <1>2, <1>3, <1>4 DEF NextPackets
  <1> QED BY <1>5 DEF Packet

\* Nothing that was taken everywhere is undone.
LEMMA AllTakenKept ==
  ASSUME NEW l \in Locks, AllTaken(l), \A u \in Servers : taken[u] \subseteq taken'[u]
  PROVE  AllTaken(l)'
  BY ChainFacts DEF AllTaken, Visits

LEMMA TakeEnds ==
  ASSUME Struct, Ends, NEW s \in Servers, NEW l \in Locks, NEW pos, NEW fin,
         NEW rest, TakeStep(s, l, pos, fin, rest)
  PROVE  Ends'
  <1>1. /\ TypeOK /\ Place /\ Token(l, s) /\ rest \subseteq msgs
        /\ EndPlace /\ ResultDone /\ Counted
        /\ result' = result /\ C' = C
    BY DEF Struct, Ends, TakeStep, clientVars
  <1>2. \A u \in Servers : taken[u] \subseteq taken'[u]
    BY <1>1, TakeTables
  <1>3. ~AllTaken(l)
    <2>1. s \in Visits(l) /\ s <= s
      BY <1>1, ChainAssumption DEF Place
    <2> QED BY <1>1, <2>1 DEF Place, AllTaken
  <1>4. ResultDone'
    BY <1>1, <1>2, AllTakenKept DEF ResultDone, TypeOK
  <1>5. Counted'
    BY <1>1 DEF Counted, ResultsOf
  <1>6. ASSUME NEW m \in msgs', m.type = "LOCK_END"
        PROVE  /\ AllTaken(m.id)' /\ m.id \notin result
               /\ \A n \in msgs' : n.type = "LOCK_END" /\ n.id = m.id => n = m
    <2>1. CASE m \in rest
      <3>1. /\ AllTaken(m.id) /\ m.id \notin result /\ m.id \in Locks /\ m.id # l
            /\ \A n \in msgs : n.type = "LOCK_END" /\ n.id = m.id => n = m
        BY <1>1, <1>3, <1>6, <2>1 DEF EndPlace, TypeOK, Message
      <3>2. AllTaken(m.id)'
        BY <1>2, <3>1, AllTakenKept
      <3>3. ASSUME NEW n \in msgs', n.type = "LOCK_END", n.id = m.id
            PROVE  n \in msgs
        BY <1>1, <3>1, <3>3, EndPackets
      <3> QED BY <3>1, <3>2, <3>3
    <2>2. CASE m \notin rest
      <3>1. m = Packet("LOCK_END", l, 0, s, NextHop(l, pos)) /\ m.id = l
            /\ pos >= Len(Chain[l])
        BY <1>1, <1>6, <2>2, EndPackets
      <3>2. AllTaken(l)'
        BY <3>1, TakeEnd
      <3>3. l \notin result
        BY <1>1, <1>3 DEF ResultDone
      <3>4. ASSUME NEW n \in msgs', n.type = "LOCK_END", n.id = m.id
            PROVE  n = m
        <4>1. n \notin rest
          BY <1>1, <1>3, <3>1, <3>4 DEF EndPlace
        <4>2. n = Packet("LOCK_END", l, 0, s, NextHop(l, pos))
          BY <1>1, <3>4, <4>1, EndPackets
        <4> QED BY <3>1, <4>2
      <3> QED BY <3>1, <3>2, <3>3, <3>4
    <2> QED BY <2>1, <2>2
  <1>7. EndPlace'
    BY <1>1, <1>6 DEF EndPlace
  <1> QED BY <1>4, <1>5, <1>7 DEF Ends

\* A step that sends no LOCK_END and counts nothing.
LEMMA EndsStable ==
  ASSUME Ends, \A m \in msgs' : m.type = "LOCK_END" => m \in msgs,
         UNCHANGED <<taken, result, C>>
  PROVE  Ends'
  <1>1. \A x : AllTaken(x)' <=> AllTaken(x)
    BY DEF AllTaken, Visits
  <1>2. EndPlace'
    BY <1>1 DEF Ends, EndPlace
  <1>3. ResultDone' /\ Counted'
    BY <1>1 DEF Ends, ResultDone, Counted, ResultsOf
  <1> QED BY <1>2, <1>3 DEF Ends

\* lock_callback counts a lock the first time it hears of its end, and hears of
\* it once.
LEMMA CallbackEnds ==
  ASSUME Struct, Ends, NEW c \in Clients, NEW m \in msgs, LockCallback(c, m)
  PROVE  Ends'
  <1>1. /\ TypeOK /\ EndPlace /\ ResultDone /\ Counted
        /\ m.type = "LOCK_END" /\ msgs' = msgs \ {m} /\ taken' = taken
        /\ m.id \in Locks
    BY DEF Struct, Ends, LockCallback, histVars, TypeOK, Message
  <1>2. CASE ~(m.id \in issued /\ Owner[m.id] = c)
    <2>1. result' = result /\ C' = C
      BY <1>2 DEF LockCallback
    <2> QED BY <1>1, <2>1, EndsStable
  <1>3. CASE m.id \in issued /\ Owner[m.id] = c
    <2>1. result' = result \cup {m.id} /\ C' = [C EXCEPT ![c] = @ + 1]
      BY <1>3 DEF LockCallback
    <2>2. \A x : AllTaken(x)' <=> AllTaken(x)
      BY <1>1 DEF AllTaken, Visits
    <2>3. /\ AllTaken(m.id) /\ m.id \notin result
          /\ \A n \in msgs : n.type = "LOCK_END" /\ n.id = m.id => n = m
      BY <1>1 DEF EndPlace
    <2>4. EndPlace'
      BY <1>1, <2>1, <2>2, <2>3 DEF EndPlace
    <2>5. ResultDone'
      BY <1>1, <2>1, <2>2, <2>3 DEF ResultDone
    <2>6. ASSUME NEW d \in Clients
          PROVE  /\ IsFiniteSet(ResultsOf(d)')
                 /\ C'[d] = Cardinality(ResultsOf(d)')
      <3>1. IsFiniteSet(ResultsOf(d)) /\ C[d] = Cardinality(ResultsOf(d))
        BY <1>1 DEF Counted
      <3>2. CASE d = c
        <4>1. ResultsOf(d)' = ResultsOf(d) \cup {m.id} /\ m.id \notin ResultsOf(d)
          BY <1>3, <2>1, <2>3, <3>2 DEF ResultsOf
        <4>2. /\ IsFiniteSet(ResultsOf(d) \cup {m.id})
              /\ Cardinality(ResultsOf(d) \cup {m.id}) = Cardinality(ResultsOf(d)) + 1
          BY <3>1, <4>1, FS_AddElement
        <4>3. C'[d] = C[d] + 1
          BY <1>1, <2>1, <3>2 DEF TypeOK
        <4> QED BY <3>1, <4>1, <4>2, <4>3
      <3>3. CASE d # c
        <4>1. ResultsOf(d)' = ResultsOf(d)
          BY <1>3, <2>1, <3>3 DEF ResultsOf
        <4>2. C'[d] = C[d]
          BY <1>1, <2>1, <3>3 DEF TypeOK
        <4> QED BY <3>1, <4>1, <4>2
      <3> QED BY <3>2, <3>3
    <2>7. Counted'
      BY <2>6 DEF Counted
    <2> QED BY <2>4, <2>5, <2>7 DEF Ends
  <1> QED BY <1>2, <1>3

LEMMA EndsInit == Init => Ends
  <1> SUFFICES ASSUME Init PROVE Ends
    OBVIOUS
  <1>1. msgs = {} /\ result = {} /\ \A c \in Clients : C[c] = 0
    BY DEF Init
  <1>2. EndPlace /\ ResultDone
    BY <1>1 DEF EndPlace, ResultDone
  <1>3. \A c \in Clients : ResultsOf(c) = {}
    BY <1>1 DEF ResultsOf
  <1>4. Counted
    BY <1>1, <1>3, FS_EmptySet DEF Counted
  <1> QED BY <1>2, <1>4 DEF Ends

LEMMA EndsNext == Struct /\ Ends /\ [Next]_vars => Ends'
  <1> SUFFICES ASSUME Struct, Ends, [Next]_vars PROVE Ends'
    OBVIOUS
  <1>1. ASSUME NEW l \in Locks, AccessData(l)
        PROVE  Ends'
    <2> DEFINE p == Packet("LOCK_START", l, 0, Owner[l], Chain[l][1])
    <2>1. msgs' \subseteq msgs \cup {p} /\ UNCHANGED <<taken, result, C>>
      BY <1>1 DEF AccessData, Sent, histVars
    <2>2. p.type = "LOCK_START"
      BY DEF Packet
    <2> HIDE DEF p
    <2> QED BY <2>1, <2>2, EndsStable
  <1>2. ASSUME NEW s \in Servers, NEW m \in msgs, DservLock(s, m)
        PROVE  Ends'
    <2>1. CASE ConflictAll(s, m.id, m.curr + 1, {})
      <3>1. msgs' \subseteq msgs /\ UNCHANGED <<taken, result, C>>
        BY <1>2, <2>1 DEF DservLock, clientVars, histVars
      <3> QED BY <3>1, EndsStable
    <2>2. CASE ~ConflictAll(s, m.id, m.curr + 1, {})
      BY <1>2, <2>2, DservLockTakes, TakeEnds
    <2> QED BY <2>1, <2>2
  <1>3. CASE \E s \in Servers : ScanTake(s)
    BY <1>3, ScanTakes, TakeEnds
  <1>4. CASE \E c \in Clients, m \in msgs : LockCallback(c, m)
    BY <1>4, CallbackEnds
  <1>5. ASSUME \/ \E s \in Servers, m \in msgs : DservUnlock(s, m)
               \/ \E s \in Servers : ScanEnd(s)
               \/ \E p \in Nodes : Crash(p)
               \/ \E p, q \in Nodes : Disconnect(p, q)
               \/ \E s \in Servers : Restart(s)
               \/ \E s \in Servers, q \in Nodes : Reconnect(s, q)
               \/ UNCHANGED vars
        PROVE  Ends'
    <2>1. msgs' \subseteq msgs /\ UNCHANGED <<taken, result, C>>
      BY <1>5 DEF DservUnlock, ScanEnd, Crash, Disconnect, Restart, Reconnect, vars,
                  clientVars, histVars
    <2> QED BY <2>1, EndsStable
  <1> QED BY <1>1, <1>2, <1>3, <1>4, <1>5 DEF Next

-----------------------------------------------------------------------------
(* What is waited for.                                                      *)

\* While every process lives, taking a lock tells all earlier dservs and sends
\* the request on.
LEMMA SentAll ==
  ASSUME TypeOK, NEW s \in Servers, NEW l \in Locks, NEW pos, NEW fin, NEW rest,
         TakeStep(s, l, pos, fin, rest), alive = Nodes, AllActive
  PROVE  /\ \A v \in Visits(l) : v < s => Packet("LOCK_UNLOCK", l, 0, s, v) \in msgs'
         /\ pos < Len(Chain[l]) => ~NoToken(l)'
  <1>1. /\ msgs' = rest \cup Sent(UnlockPackets(s, l, pos) \cup NextPackets(s, l, pos))
        /\ pos \in 1..Len(Chain[l]) /\ Chain[l][pos] = s
    BY DEF TakeStep, TakeDone
  <1>2. /\ active[s] = Nodes /\ Servers \subseteq Nodes /\ Len(Chain[l]) \in Nat
        /\ \A v \in Servers : s \in active[v]
    BY ChainFacts DEF AllActive, Nodes
  <1>3. ASSUME NEW v \in Visits(l), v < s
        PROVE  Packet("LOCK_UNLOCK", l, 0, s, v) \in msgs'
    <2>1. PICK i \in 1..Len(Chain[l]) : v = Chain[l][i]
      BY ChainFacts
    <2>2. i < pos
      BY <1>1, <1>3, <2>1, ChainOrder
    <2>3. i \in 1..(pos - 1) /\ Chain[l][i] \in active[s]
      BY <1>1, <1>2, <2>1, <2>2, ChainFacts
    <2>4. Packet("LOCK_UNLOCK", l, 0, s, v) \in UnlockPackets(s, l, pos)
      BY <2>1, <2>3 DEF UnlockPackets
    <2>5. /\ Packet("LOCK_UNLOCK", l, 0, s, v).to \in alive
          /\ Packet("LOCK_UNLOCK", l, 0, s, v).from
               \in active[Packet("LOCK_UNLOCK", l, 0, s, v).to]
      BY <1>2, <2>1, ChainFacts DEF Packet
    <2> QED BY <1>1, <2>4, <2>5 DEF Sent
  <1>4. ASSUME pos < Len(Chain[l])
        PROVE  ~NoToken(l)'
    <2> DEFINE h == NextHop(l, pos)
               p == Packet("LOCK_NEXT", l, pos, s, h)
    <2>1. h \in Servers
      BY <1>1, <1>4, HopFacts
    <2>2. p \in NextPackets(s, l, pos)
      BY <1>1, <1>2, <1>4, <2>1 DEF NextPackets
    <2>3. p.to = h /\ p.from = s /\ p.id = l /\ p.type \in LockTypes
      BY DEF Packet, LockTypes
    <2>4. p \in msgs'
      BY <1>1, <1>2, <2>1, <2>2, <2>3 DEF Sent
    <2> HIDE DEF p, h
    <2>5. Token(l, h)'
      BY <2>3, <2>4 DEF Token
    <2> QED BY <2>1, <2>5 DEF NoToken
  <1> QED BY <1>3, <1>4

\* A reason to wait stays one while the copies at u are left alone.
LEMMA HeldStable ==
  ASSUME NEW u \in Servers, NEW b, NEW pos, NEW fin, ConflictAll(u, b, pos, fin),
         lock_sent[u] \subseteq lock_sent'[u],
         \A a \in lock_sent[u] : /\ next_pos'[u][a] = next_pos[u][a]
                                 /\ finish'[u][a] = finish[u][a],
         next_pos'[u][b] = pos, finish'[u][b] = fin
  PROVE  ConflictAll(u, b, next_pos[u][b], finish[u][b])'
  <1>1. PICK a \in lock_sent[u] :
          IsConflict(a, next_pos[u][a], finish[u][a], b, pos, fin)
    BY DEF ConflictAll
  <1>2. /\ a \in lock_sent'[u]
        /\ IsConflict(a, next_pos'[u][a], finish'[u][a], b, next_pos'[u][b],
                      finish'[u][b])
    BY <1>1
  <1> QED BY <1>2 DEF ConflictAll, IsConflict, Rest

LEMMA TakeWake ==
  ASSUME Struct, Wake, NEW s \in Servers, NEW l \in Locks, NEW pos, NEW fin,
         NEW rest, TakeStep(s, l, pos, fin, rest)
  PROVE  Wake'
  <1>1. /\ TypeOK /\ Place /\ SentTaken /\ Token(l, s) /\ HeldBack
        /\ rest \subseteq msgs
        /\ \A m \in msgs \ rest : m.type \in LockTypes /\ m.id = l
        /\ pos \in 1..Len(Chain[l]) /\ Len(Chain[l]) \in Nat
    BY ChainFacts DEF Struct, Wake, TakeStep
  <1>2. /\ UNCHANGED <<scanning, issued, active, alive, died, forgot>>
        /\ msgs' = rest \cup Sent(UnlockPackets(s, l, pos) \cup NextPackets(s, l, pos))
    BY DEF TakeStep, TakeDone, clientVars, netVars
  <1>3. \A u \in Servers : \A x :
          x \in Waiting(u)' <=> x \in Waiting(u) /\ ~(u = s /\ x = l)
    BY DEF TakeStep, Waiting
  <1>4. \A u \in Servers, x \in Locks : ~(u = s /\ x = l) =>
          next_pos'[u][x] = next_pos[u][x] /\ finish'[u][x] = finish[u][x]
    BY DEF TakeStep
  <1>5. \A u \in Servers : \A x :
          /\ x \in taken'[u] <=> x \in taken[u] \/ (u = s /\ x = l)
          /\ x # l => (x \in lock_sent'[u] <=> x \in lock_sent[u])
          /\ u # s => (x \in lock_sent'[u] <=> x \in lock_sent[u])
    BY <1>1, TakeTables
  <1>6. /\ s \in Visits(l) /\ l \notin lock_sent[s]
        /\ \A v \in Visits(l) : s <= v => l \notin taken[v]
    <2>1. /\ s \in Visits(l) /\ s <= s
          /\ \A v \in Visits(l) : s <= v => l \notin taken[v]
      BY <1>1, ChainAssumption DEF Place
    <2> QED BY <1>1, <2>1 DEF SentTaken
  <1>7. HeldBack'
    <2> SUFFICES ASSUME NEW u \in Servers, ~scanning[u], NEW b \in Waiting(u)'
                 PROVE  ConflictAll(u, b, next_pos[u][b], finish[u][b])'
      BY <1>2 DEF HeldBack
    <2>1. b \in Waiting(u) /\ ~(u = s /\ b = l)
      BY <1>3
    <2>2. b \in Locks
      <3>1. lock_waiting[u] \in Seq(Locks)
        BY <1>1 DEF TypeOK
      <3> QED BY <2>1, <3>1, ElementFacts DEF Waiting
    <2>3. ConflictAll(u, b, next_pos[u][b], finish[u][b])
      BY <1>1, <2>1 DEF HeldBack
    <2>4. \A a \in lock_sent[u] : a \in Locks /\ ~(u = s /\ a = l)
      BY <1>1, <1>6 DEF TypeOK
    <2>5. lock_sent[u] \subseteq lock_sent'[u]
      BY <1>5, <2>4
    <2> QED BY <1>4, <2>1, <2>2, <2>3, <2>4, <2>5, HeldStable
  <1>8. ASSUME died = {}
        PROVE  alive' = Nodes /\ AllActive' /\ Moving' /\ Marked'
    <2>1. alive = Nodes /\ AllActive /\ Moving /\ Marked
      BY <1>8 DEF Wake
    <2>2. AllActive'
      BY <1>2, <2>1 DEF AllActive
    <2>3. /\ \A v \in Visits(l) : v < s => Packet("LOCK_UNLOCK", l, 0, s, v) \in msgs'
          /\ pos < Len(Chain[l]) => ~NoToken(l)'
      BY <1>1, <1>8, <2>1, SentAll
    <2>4. \A u \in Servers : taken[u] \subseteq taken'[u]
      BY <1>5
    <2>5. ASSUME NEW x \in issued, ~AllTaken(x)'
          PROVE  ~NoToken(x)'
      <3>1. x \in Locks /\ ~AllTaken(x)
        BY <1>1, <2>4, <2>5, AllTakenKept DEF TypeOK
      <3>2. CASE x = l
        <4>1. pos < Len(Chain[l])
          BY <1>1, <2>5, <3>2, TakeEnd
        <4> QED BY <2>3, <3>2, <4>1
      <3>3. CASE x # l
        <4>1. PICK u \in Servers : Token(x, u)
          BY <2>1, <2>5, <3>1 DEF Moving, NoToken
        <4>2. x \in Waiting(u) => x \in Waiting(u)'
          BY <1>3, <3>3
        <4>3. ASSUME NEW m \in msgs, m.type \in LockTypes, m.id = x, m.to = u
              PROVE  m \in msgs'
          BY <1>1, <1>2, <3>3, <4>3
        <4>4. Token(x, u)'
          BY <4>1, <4>2, <4>3 DEF Token
        <4> QED BY <4>1, <4>4 DEF NoToken
      <3> QED BY <3>2, <3>3
    <2>6. Moving'
      BY <1>2, <2>5 DEF Moving
    <2>7. Marked'
      <3> SUFFICES ASSUME NEW u \in Servers, NEW t \in Servers, NEW x \in Locks,
                          u \in Visits(x), u < t, x \in taken'[t]
                   PROVE  \/ t \in finish'[u][x]
                          \/ Packet("LOCK_UNLOCK", x, 0, t, u) \in msgs'
        BY DEF Marked, Visits
      <3>1. CASE t = s /\ x = l
        BY <2>3, <3>1
      <3>2. CASE ~(t = s /\ x = l)
        <4>1. x \in taken[t]
          BY <1>5, <3>2
        <4>2. t \in finish[u][x] \/ Packet("LOCK_UNLOCK", x, 0, t, u) \in msgs
          BY <2>1, <4>1 DEF Marked
        <4>3. ~(u = s /\ x = l)
          <5>1. t \in Visits(x) /\ u <= t
            BY <4>1, ChainAssumption DEF Struct, TakenPrefix
          <5> QED BY <1>6, <4>1, <5>1
        <4>4. finish'[u][x] = finish[u][x]
          BY <1>4, <4>3
        <4>5. Packet("LOCK_UNLOCK", x, 0, t, u).type \notin LockTypes
          BY DEF Packet, LockTypes
        <4>6. Packet("LOCK_UNLOCK", x, 0, t, u) \in msgs =>
                Packet("LOCK_UNLOCK", x, 0, t, u) \in msgs'
          BY <1>1, <1>2, <4>5
        <4> QED BY <4>2, <4>4, <4>6
      <3> QED BY <3>1, <3>2
    <2> QED BY <1>2, <2>1, <2>2, <2>6, <2>7
  <1> QED BY <1>2, <1>7, <1>8 DEF Wake

\* s_core_dserv_lock lets a request wait only when something holds it back.
LEMMA WaitWake ==
  ASSUME Struct, Wake, NEW s \in Servers, NEW m \in msgs, DservLock(s, m),
         ConflictAll(s, m.id, m.curr + 1, {})
  PROVE  Wake'
  <1> DEFINE l == m.id
             pos == m.curr + 1
  <1>1. /\ TypeOK /\ Place /\ SentTaken /\ PacketPlace /\ TakenPrefix /\ HeldBack
    BY DEF Struct, Wake
  <1>2. /\ m.to = s /\ m.type \in LockTypes /\ l \in Locks
        /\ next_pos' = [next_pos EXCEPT ![s][l] = pos]
        /\ finish' = [finish EXCEPT ![s][l] = {}]
        /\ msgs' = msgs \ {m}
        /\ UNCHANGED <<lock_sent, taken, scanning, issued, active, alive, died, forgot>>
    BY <1>1 DEF DservLock, TypeOK, Message, histVars, clientVars, netVars
  <1>3. /\ \A x \in Locks, u \in Servers : Token(x, u)' <=> Token(x, u)
        /\ \A u \in Servers : \A x :
             x \in Waiting(u)' <=> x \in Waiting(u) \/ (u = s /\ x = l)
    BY WaitStruct
  <1>4. /\ s \in Visits(l) /\ l \notin lock_sent[s] /\ l \notin Waiting(s)
        /\ \A v \in Visits(l) : s <= v => l \notin taken[v]
    <2>1. Token(l, s)
      BY <1>2 DEF Token
    <2>2. /\ s \in Visits(l) /\ s <= s
          /\ \A v \in Visits(l) : s <= v => l \notin taken[v]
      BY <1>1, <1>2, <2>1, ChainAssumption DEF Place
    <2> QED BY <1>1, <1>2, <2>2 DEF SentTaken, PacketPlace
  <1>5. ConflictAll(s, l, pos, {}) /\ pos \in Nat
    BY <1>1 DEF TypeOK, Message
  <1> HIDE DEF l, pos
  <1>6. /\ next_pos'[s][l] = pos /\ finish'[s][l] = {}
        /\ \A u \in Servers, x \in Locks : ~(u = s /\ x = l) =>
             next_pos'[u][x] = next_pos[u][x] /\ finish'[u][x] = finish[u][x]
    BY <1>1, <1>2 DEF TypeOK
  <1>7. HeldBack'
    <2> SUFFICES ASSUME NEW u \in Servers, ~scanning[u], NEW b \in Waiting(u)'
                 PROVE  ConflictAll(u, b, next_pos[u][b], finish[u][b])'
      BY <1>2 DEF HeldBack
    <2>1. \A a \in lock_sent[u] : a \in Locks /\ ~(u = s /\ a = l)
      BY <1>1, <1>4 DEF TypeOK
    <2>2. lock_sent[u] \subseteq lock_sent'[u]
      BY <1>2
    <2>3. \A a \in lock_sent[u] : /\ next_pos'[u][a] = next_pos[u][a]
                                  /\ finish'[u][a] = finish[u][a]
      BY <1>6, <2>1
    <2>4. CASE u = s /\ b = l
      <3>1. ConflictAll(u, b, pos, {}) /\ next_pos'[u][b] = pos /\ finish'[u][b] = {}
        BY <1>5, <1>6, <2>4
      <3> QED BY ONLY <3>1, <2>2, <2>3, u \in Servers, HeldStable
    <2>5. CASE ~(u = s /\ b = l)
      <3>1. b \in Waiting(u)
        BY <1>3, <2>5
      <3>2. b \in Locks
        <4>1. lock_waiting[u] \in Seq(Locks)
          BY <1>1 DEF TypeOK
        <4> QED BY <3>1, <4>1, ElementFacts DEF Waiting
      <3>3. ConflictAll(u, b, next_pos[u][b], finish[u][b])
        BY <1>1, <3>1 DEF HeldBack
      <3>4. next_pos'[u][b] = next_pos[u][b] /\ finish'[u][b] = finish[u][b]
        BY <1>6, <2>5, <3>2
      <3> QED BY ONLY <3>3, <3>4, <2>2, <2>3, u \in Servers, HeldStable
    <2> QED BY <2>4, <2>5
  <1>8. ASSUME died = {}
        PROVE  alive' = Nodes /\ AllActive' /\ Moving' /\ Marked'
    <2>1. alive = Nodes /\ AllActive /\ Moving /\ Marked
      BY <1>8 DEF Wake
    <2>2. AllActive'
      BY <1>2, <2>1 DEF AllActive
    <2>3. ASSUME NEW x \in issued
          PROVE  AllTaken(x)' \/ ~NoToken(x)'
      <3>1. x \in Locks /\ (AllTaken(x) \/ ~NoToken(x))
        BY <1>1, <2>1 DEF Moving, TypeOK
      <3>2. AllTaken(x) => AllTaken(x)'
        BY <1>2 DEF AllTaken, Visits
      <3>3. NoToken(x)' => NoToken(x)
        BY <1>3, <3>1 DEF NoToken
      <3> QED BY <3>1, <3>2, <3>3
    <2>4. Moving'
      BY <1>2, <2>3 DEF Moving
    <2>5. Marked'
      <3> SUFFICES ASSUME NEW u \in Servers, NEW t \in Servers, NEW x \in Locks,
                          u \in Visits(x), u < t, x \in taken[t]
                   PROVE  \/ t \in finish'[u][x]
                          \/ Packet("LOCK_UNLOCK", x, 0, t, u) \in msgs'
        BY <1>2 DEF Marked, Visits
      <3>1. t \in finish[u][x] \/ Packet("LOCK_UNLOCK", x, 0, t, u) \in msgs
        BY <2>1 DEF Marked
      <3>2. ~(u = s /\ x = l)
        <4>1. t \in Visits(x) /\ u <= t
          BY <1>1, ChainAssumption DEF TakenPrefix
        <4> QED BY <1>4, <4>1
      <3>3. finish'[u][x] = finish[u][x]
        BY <1>6, <3>2
      <3>4. Packet("LOCK_UNLOCK", x, 0, t, u).type \notin LockTypes
        BY DEF Packet, LockTypes
      <3> QED BY <1>2, <3>1, <3>3, <3>4
    <2> QED BY <1>2, <2>1, <2>2, <2>4, <2>5
  <1> QED BY <1>2, <1>7, <1>8 DEF Wake

\* A step of a dserv or client that moves no request and takes no lock.
LEMMA WakeStable ==
  ASSUME Struct, Wake, HeldBack', UNCHANGED <<lock_waiting, issued, taken>>,
         died' = {} => /\ died = {} /\ UNCHANGED <<active, alive, forgot>> /\ Marked'
                       /\ \A m \in msgs : m.type \in LockTypes => m \in msgs'
  PROVE  Wake'
  <1> SUFFICES ASSUME died' = {} PROVE alive' = Nodes /\ AllActive' /\ Moving'
    BY DEF Wake
  <1>1. Moving /\ AllActive' /\ alive' = Nodes
    BY DEF Wake, AllActive
  <1>2. \A x \in Locks, u \in Servers : Token(x, u) => Token(x, u)'
    BY DEF Token, Waiting
  <1>3. \A x : AllTaken(x) => AllTaken(x)'
    BY DEF AllTaken, Visits
  <1>4. \A x \in Locks : NoToken(x)' => NoToken(x)
    BY <1>2 DEF NoToken
  <1>5. issued \subseteq Locks
    BY DEF Struct, TypeOK
  <1> QED BY <1>1, <1>3, <1>4, <1>5 DEF Moving

\* The reasons to wait are untouched when the tables are.
LEMMA HeldUnchanged ==
  ASSUME Struct, HeldBack,
         UNCHANGED <<lock_waiting, lock_sent, next_pos, finish, scanning>>
  PROVE  HeldBack'
  <1> SUFFICES ASSUME NEW u \in Servers, ~scanning[u], NEW b \in Waiting(u)
               PROVE  ConflictAll(u, b, next_pos[u][b], finish[u][b])'
    BY DEF HeldBack, Waiting
  <1>1. ConflictAll(u, b, next_pos[u][b], finish[u][b])
    BY DEF HeldBack
  <1> QED BY <1>1, HeldStable

\* The unlock handler notes what the packet it consumes says, and then looks at
\* every waiting lock of s again.
LEMMA UnlockWake ==
  ASSUME Struct, Wake, NEW s \in Servers, NEW m \in msgs, DservUnlock(s, m)
  PROVE  Wake'
  <1> DEFINE l == m.id
             fin == finish[s][l] \cup ({m.from} \cap Visits(l))
  <1>1. TypeOK /\ UnlockPlace /\ TakenPrefix /\ FinishTaken /\ HeldBack
    BY DEF Struct, Wake
  <1>2. /\ m.to = s /\ m.type = "LOCK_UNLOCK" /\ l \in Locks
        /\ msgs' = msgs \ {m}
        /\ UNCHANGED <<lock_waiting, next_pos, issued, active, alive, died, forgot, taken>>
    BY <1>1 DEF DservUnlock, TypeOK, Message, clientVars, netVars, histVars
  <1>3. \A n \in msgs : n.type \in LockTypes => n \in msgs'
    BY <1>2 DEF LockTypes
  <1>4. CASE l \in lock_sent[s]
    <2>1. /\ finish' = [finish EXCEPT ![s][l] = fin]
          /\ lock_sent' = [lock_sent EXCEPT ![s] =
                             IF Visits(l) \subseteq fin THEN @ \ {l} ELSE @]
          /\ scanning' = [scanning EXCEPT ![s] = TRUE]
      BY <1>4 DEF DservUnlock, Visits
    <2> HIDE DEF l, fin
    <2>2. /\ scanning'[s]
          /\ \A u \in Servers : u # s => /\ lock_sent'[u] = lock_sent[u]
                                         /\ finish'[u] = finish[u]
                                         /\ scanning'[u] = scanning[u]
          /\ \A u \in Servers, x \in Locks :
               finish'[u][x] = IF u = s /\ x = l THEN fin ELSE finish[u][x]
      BY <1>1, <2>1 DEF TypeOK
    <2>3. HeldBack'
      <3> SUFFICES ASSUME NEW u \in Servers, ~scanning'[u], NEW b \in Waiting(u)
                   PROVE  ConflictAll(u, b, next_pos[u][b], finish[u][b])'
        BY <1>2 DEF HeldBack, Waiting
      <3>1. u # s /\ ~scanning[u]
        BY <2>2
      <3>2. ConflictAll(u, b, next_pos[u][b], finish[u][b])
        BY <1>1, <3>1 DEF HeldBack
      <3> QED BY <1>2, <2>2, <3>1, <3>2, HeldStable
    <2>4. ASSUME died = {}
          PROVE  Marked'
      <3> SUFFICES ASSUME NEW u \in Servers, NEW t \in Servers, NEW x \in Locks,
                          u \in Visits(x), u < t, x \in taken[t]
                   PROVE  \/ t \in finish'[u][x]
                          \/ Packet("LOCK_UNLOCK", x, 0, t, u) \in msgs'
        BY <1>2 DEF Marked, Visits
      <3>1. t \in finish[u][x] \/ Packet("LOCK_UNLOCK", x, 0, t, u) \in msgs
        BY <2>4 DEF Wake, Marked
      <3>2. t \in finish[u][x] => t \in finish'[u][x]
        BY <2>2 DEF fin
      <3>3. CASE Packet("LOCK_UNLOCK", x, 0, t, u) = m
        <4>1. x = l /\ u = s /\ m.from = t
          BY <1>2, <3>3 DEF Packet, l
        <4>2. t \in Visits(l)
          BY <1>1, <4>1 DEF TakenPrefix
        <4> QED BY <2>2, <4>1, <4>2 DEF fin
      <3> QED BY <1>2, <3>1, <3>2, <3>3
    <2> QED BY <1>2, <1>3, <2>3, <2>4, WakeStable
  <1>5. CASE l \notin lock_sent[s]
    <2>1. UNCHANGED <<finish, lock_sent, scanning>>
      BY <1>5 DEF DservUnlock
    <2>2. HeldBack'
      BY <1>2, <2>1, HeldUnchanged DEF Wake
    <2>3. died # {}
      BY <1>1, <1>2, <1>5, ChainFacts DEF UnlockPlace, Wake, AllActive
    <2> QED BY <1>2, <1>3, <2>2, <2>3, WakeStable
  <1> QED BY <1>4, <1>5

\* The client's request reaches the first dserv of its list.
LEMMA AccessWake ==
  ASSUME Struct, Wake, NEW l \in Locks, AccessData(l)
  PROVE  Wake'
  <1> DEFINE d == Chain[l][1]
             p == Packet("LOCK_START", l, 0, Owner[l], d)
  <1>1. /\ issued' = issued \cup {l} /\ msgs \subseteq msgs'
        /\ UNCHANGED <<lock_waiting, lock_sent, next_pos, finish, scanning,
                       active, alive, died, forgot, taken>>
        /\ d \in active[Owner[l]] /\ d \in alive /\ Owner[l] \in active[d] => p \in msgs'
    BY DEF AccessData, Sent, Packet, dservVars, netVars, histVars
  <1>2. d \in Servers /\ Owner[l] \in Clients
    BY ChainFacts
  <1>3. p.id = l /\ p.type \in LockTypes /\ p.to = d
    BY DEF Packet, LockTypes
  <1> HIDE DEF p, d
  <1>4. HeldBack'
    BY <1>1, HeldUnchanged DEF Wake
  <1>5. ASSUME died = {}
        PROVE  alive' = Nodes /\ AllActive' /\ Moving' /\ Marked'
    <2>1. alive = Nodes /\ AllActive /\ Moving /\ Marked
      BY <1>5 DEF Wake
    <2>2. AllActive'
      BY <1>1, <2>1 DEF AllActive
    <2>3. Marked'
      BY <1>1, <2>1 DEF Marked, Visits
    <2>4. \A x \in Locks, u \in Servers : Token(x, u) => Token(x, u)'
      BY <1>1 DEF Token, Waiting
    <2>5. Token(l, d)'
      <3>1. d \in alive /\ d \in active[Owner[l]] /\ Owner[l] \in active[d]
        BY <1>2, <2>1 DEF AllActive, Nodes
      <3> QED BY <1>1, <1>3, <3>1 DEF Token
    <2>6. \A x : AllTaken(x) => AllTaken(x)'
      BY <1>1 DEF AllTaken, Visits
    <2>7. /\ \A x \in Locks : NoToken(x)' => NoToken(x)
          /\ ~NoToken(l)'
      BY <1>2, <2>4, <2>5 DEF NoToken
    <2>8. issued \subseteq Locks
      BY DEF Struct, TypeOK
    <2>9. Moving'
      BY <1>1, <2>1, <2>6, <2>7, <2>8 DEF Moving
    <2> QED BY <1>1, <2>1, <2>2, <2>3, <2>9
  <1> QED BY <1>1, <1>4, <1>5 DEF Wake

\* The rescan returns when it has found a reason for everything that waits.
LEMMA ScanEndWake ==
  ASSUME Struct, Wake, NEW s \in Servers, ScanEnd(s)
  PROVE  Wake'
  <1>1. /\ Free(s) = {} /\ scanning' = [scanning EXCEPT ![s] = FALSE]
        /\ UNCHANGED <<lock_waiting, lock_sent, next_pos, finish, msgs, issued,
                       active, alive, died, forgot, taken>>
    BY DEF ScanEnd, clientVars, netVars, histVars
  <1>2. HeldBack'
    <2> SUFFICES ASSUME NEW u \in Servers, ~scanning'[u], NEW b \in Waiting(u)
                 PROVE  ConflictAll(u, b, next_pos[u][b], finish[u][b])'
      BY <1>1 DEF HeldBack, Waiting
    <2>1. ConflictAll(u, b, next_pos[u][b], finish[u][b])
      <3>1. CASE u = s
        <4>1. PICK i \in DOMAIN lock_waiting[s] : b = lock_waiting[s][i]
          BY <3>1 DEF Waiting, ToSet
        <4>2. i \notin Free(s)
          BY <1>1
        <4> QED BY <3>1, <4>1, <4>2 DEF Free
      <3>2. CASE u # s
        <4>1. ~scanning[u]
          BY <1>1, <3>2 DEF Struct, TypeOK
        <4> QED BY <4>1 DEF Wake, HeldBack
      <3> QED BY <3>1, <3>2
    <2> QED BY <1>1, <2>1, HeldStable
  <1>3. died = {} => Marked'
    BY <1>1 DEF Wake, Marked, Visits
  <1> QED BY <1>1, <1>2, <1>3, WakeStable

LEMMA WakeInit == Init => Wake
  <1> SUFFICES ASSUME Init PROVE Wake
    OBVIOUS
  <1>1. \A u \in Servers : Waiting(u) = {}
    BY DEF Init, Waiting, ToSet
  <1>2. HeldBack
    BY <1>1 DEF HeldBack
  <1>3. alive = Nodes /\ AllActive /\ Moving /\ Marked
    BY DEF Init, AllActive, Moving, Marked
  <1> QED BY <1>2, <1>3 DEF Wake

LEMMA WakeNext == Struct /\ Wake /\ [Next]_vars => Wake'
  <1> SUFFICES ASSUME Struct, Wake, [Next]_vars PROVE Wake'
    OBVIOUS
  <1>1. CASE \E l \in Locks : AccessData(l)
    BY <1>1, AccessWake
  <1>2. ASSUME NEW s \in Servers, NEW m \in msgs, DservLock(s, m)
        PROVE  Wake'
    <2>1. CASE ConflictAll(s, m.id, m.curr + 1, {})
      BY <1>2, <2>1, WaitWake
    <2>2. CASE ~ConflictAll(s, m.id, m.curr + 1, {})
      BY <1>2, <2>2, DservLockTakes, TakeWake
    <2> QED BY <2>1, <2>2
  <1>3. CASE \E s \in Servers, m \in msgs : DservUnlock(s, m)
    BY <1>3, UnlockWake
  <1>4. CASE \E s \in Servers : ScanTake(s)
    BY <1>4, ScanTakes, TakeWake
  <1>5. CASE \E s \in Servers : ScanEnd(s)
    BY <1>5, ScanEndWake
  <1>6. ASSUME NEW c \in Clients, NEW m \in msgs, LockCallback(c, m)
        PROVE  Wake'
    <2>1. /\ m.type = "LOCK_END" /\ msgs' = msgs \ {m}
          /\ UNCHANGED <<lock_waiting, lock_sent, next_pos, finish, scanning,
                         issued, active, alive, died, forgot, taken>>
      BY <1>6 DEF LockCallback, dservVars, netVars, histVars
    <2>2. HeldBack'
      BY <2>1, HeldUnchanged DEF Wake
    <2>3. ASSUME died = {} PROVE Marked'
      <3>1. Marked
        BY <2>3 DEF Wake
      <3>2. \A x, t, u : Packet("LOCK_UNLOCK", x, 0, t, u) # m
        BY <2>1 DEF Packet
      <3> QED BY <2>1, <3>1, <3>2 DEF Marked, Visits
    <2>4. \A n \in msgs : n.type \in LockTypes => n \in msgs'
      BY <2>1 DEF LockTypes
    <2> QED BY <2>1, <2>2, <2>3, <2>4, WakeStable
  <1>7. ASSUME NEW p \in Nodes, Crash(p)
        PROVE  Wake'
    <2>1. /\ died' # {}
          /\ UNCHANGED <<lock_waiting, lock_sent, next_pos, finish, scanning>>
      BY <1>7 DEF Crash, dservVars
    <2>2. HeldBack'
      BY <2>1, HeldUnchanged DEF Wake
    <2> QED BY <2>1, <2>2 DEF Wake
  <1>8. ASSUME NEW p \in Nodes, NEW q \in Nodes, Disconnect(p, q)
        PROVE  Wake'
    <2>1. /\ died' # {}
          /\ UNCHANGED <<lock_waiting, lock_sent, next_pos, finish, scanning>>
      BY <1>8 DEF Disconnect, dservVars, Wake, AllActive
    <2>2. HeldBack'
      BY <2>1, HeldUnchanged DEF Wake
    <2> QED BY <2>1, <2>2 DEF Wake
  <1>9. ASSUME UNCHANGED vars
        PROVE  Wake'
    <2>1. UNCHANGED <<lock_waiting, lock_sent, next_pos, finish, scanning, msgs,
                      issued, active, alive, died, forgot, taken>>
      BY <1>9 DEF vars, dservVars, clientVars, netVars, histVars
    <2>2. HeldBack'
      BY <2>1, HeldUnchanged DEF Wake
    <2>3. died = {} => Marked'
      BY <2>1 DEF Wake, Marked, Visits
    <2> QED BY <2>1, <2>2, <2>3, WakeStable
  <1>10. ASSUME NEW s \in Servers, NEW q \in Nodes, Reconnect(s, q)
         PROVE  Wake'
    <2>1. /\ died' # {}
          /\ UNCHANGED <<lock_waiting, lock_sent, next_pos, finish, scanning>>
      BY <1>10 DEF Reconnect, dservVars, Wake, AllActive, Nodes
    <2>2. HeldBack'
      BY <2>1, HeldUnchanged DEF Wake
    <2> QED BY <2>1, <2>2 DEF Wake
  <1>11. ASSUME NEW s \in Servers, Restart(s)
         PROVE  Wake'
    <2>1. died' # {}
      BY <1>11 DEF Restart, Wake, Nodes
    <2>2. HeldBack'
      <3> SUFFICES ASSUME NEW u \in Servers, ~scanning'[u], NEW b \in Waiting(u)'
                   PROVE  ConflictAll(u, b, next_pos[u][b], finish[u][b])'
        BY DEF HeldBack
      <3>1. /\ u # s /\ b \in Waiting(u) /\ ~scanning[u]
            /\ lock_sent'[u] = lock_sent[u] /\ next_pos'[u] = next_pos[u]
            /\ finish'[u] = finish[u]
        BY <1>11, RestartTables
      <3>2. ConflictAll(u, b, next_pos[u][b], finish[u][b])
        BY <3>1 DEF Wake, HeldBack
      <3> QED BY ONLY <3>1, <3>2, u \in Servers, HeldStable
    <2> QED BY <2>1, <2>2 DEF Wake
  <1> QED BY <1>1, <1>2, <1>3, <1>4, <1>5, <1>6, <1>7, <1>8, <1>9, <1>10, <1>11
          DEF Next

-----------------------------------------------------------------------------
(* The theorems.                                                            *)

\* The tables of the dservs, the packets on their way and the histories agree
\* on how far along its list every lock of s_core_dserv_lock has come.
THEOREM StructCorrect == Spec => []Struct
  <1>1. Init => Struct
    BY StructInit
  <1>2. Struct /\ [Next]_vars => Struct'
    BY StructNext
  <1> QED BY <1>1, <1>2, PTL DEF Spec

\* A lock taken second by one dserv stays behind the first at every later dserv:
\* the check of ilock_conflict_all at one dserv is enough for the whole chain.
THEOREM OrderCorrect == Spec => []Order
  <1>1. Init => Order
    BY OrderInit
  <1>2. Struct /\ Order /\ [Next]_vars => Order'
    BY OrderNext
  <1> QED BY <1>1, <1>2, StructCorrect, PTL DEF Spec

\* The variables of the dservs and clients keep the types of their declarations.
THEOREM TypeCorrect == Spec => []TypeOK
  <1>1. Struct => TypeOK
    BY DEF Struct
  <1> QED BY <1>1, StructCorrect, PTL

\* The assert of s_core_dserv_lock never fails, whichever processes die: a
\* request arrives at the dserv its position points to, and at each one once.
THEOREM ArrivesCorrect == Spec => []ArrivesInPlace
  <1>1. Struct => ArrivesInPlace
    <2> SUFFICES ASSUME Struct, NEW m \in msgs, m.type \in LockTypes
                 PROVE  /\ m.curr < Len(Chain[m.id])
                        /\ Chain[m.id][m.curr + 1] = m.to
                        /\ m.id \notin taken[m.to] \cup Waiting(m.to)
      BY DEF ArrivesInPlace
    <2>1. /\ m.to \in Servers /\ m.to \in Nat /\ m.id \in Locks
          /\ m.curr \in 0..(Len(Chain[m.id]) - 1)
          /\ Chain[m.id][m.curr + 1] = m.to
          /\ m.id \notin Waiting(m.to)
      BY ChainAssumption DEF Struct, TypeOK, Message, PacketPlace
    <2>2. m.curr < Len(Chain[m.id])
      BY <2>1, ChainFacts
    <2>3. Token(m.id, m.to) /\ m.to <= m.to
      BY <2>1 DEF Token
    <2>4. m.id \notin taken[m.to]
      BY <2>1, <2>3 DEF Struct, Place
    <2> QED BY <2>1, <2>2, <2>4
  <1> QED BY <1>1, StructCorrect, PTL

\* The warning path of s_core_dserv_lock_unlock is taken only at a dserv that was
\* restarted after it took the lock; elsewhere LOCK_UNLOCK finds the copy of its
\* lock in lock_sent, whichever processes die.
THEOREM UnlockCorrect == Spec => []UnlockFindsLock
  <1>1. Struct => UnlockFindsLock
    BY DEF Struct, UnlockPlace, UnlockFindsLock
  <1> QED BY <1>1, StructCorrect, PTL

\* Two locks are taken in the same order by all the dservs that take both: what
\* lock_sent and ilock_is_conflict are for.  The exception are locks of which one
\* was taken by a dserv of both that has been restarted since, and lost its copy.
THEOREM SameOrderCorrect == Spec => []SameOrder
  <1>1. Struct /\ Order => SameOrder
    <2> SUFFICES ASSUME Struct, Order, NEW s \in Servers, NEW t \in Servers,
                        NEW a \in Locks, NEW b \in Locks,
                        <<a, b>> \in before[s], <<b, a>> \in before[t],
                        ~Lost(a, b), ~Lost(b, a)
                 PROVE  FALSE
      <3>1. ASSUME NEW a \in Locks, NEW b \in Locks, Lost(a, b) \/ Lost(b, a)
            PROVE  \E u \in ToSet(Chain[a]) \cap ToSet(Chain[b]) :
                     {a, b} \cap forgot[u] # {}
        BY <3>1 DEF Lost, Visits
      <3> QED BY <3>1 DEF SameOrder
    <2>1. /\ a \in taken[s] /\ b \in taken[s] /\ a \in taken[t] /\ b \in taken[t]
          /\ <<b, a>> \notin before[s] /\ <<a, b>> \notin before[t]
      BY DEF Order, LocalOrder
    <2>2. s \in Visits(b) /\ t \in Visits(a)
      BY <2>1 DEF Struct, TakenPrefix
    <2>3. CASE s < t
      BY <2>1, <2>2, <2>3 DEF Order, TakenBehind
    <2>4. CASE t < s
      BY <2>1, <2>2, <2>4 DEF Order, TakenBehind
    <2>5. s # t
      BY <2>1
    <2> QED BY <2>3, <2>4, <2>5, ChainAssumption
  <1> QED BY <1>1, StructCorrect, OrderCorrect, PTL

\* The counter C of lock_callback, which decides when "All End!" is written, is
\* the number of the client's locks that have ended, and a lock ends only after
\* every dserv of its list has taken it, whichever processes die on the way.
THEOREM CountsEndsCorrect == Spec => []CountsEnds
  <1>1. Init => Ends
    BY EndsInit
  <1>2. Struct /\ Ends /\ [Next]_vars => Ends'
    BY EndsNext
  <1>3. Struct /\ Ends => CountsEnds
    <2> SUFFICES ASSUME Struct, Ends, NEW c \in Clients
                 PROVE  /\ C[c] = Cardinality({l \in result : Owner[l] = c})
                        /\ \A l \in result : \A i \in DOMAIN Chain[l] :
                             l \in taken[Chain[l][i]]
      BY DEF CountsEnds
    <2>1. C[c] = Cardinality({l \in result : Owner[l] = c})
      BY DEF Ends, Counted, ResultsOf
    <2>2. ASSUME NEW l \in result, NEW i \in DOMAIN Chain[l]
          PROVE  l \in taken[Chain[l][i]]
      <3>1. l \in Locks /\ AllTaken(l)
        BY DEF Struct, TypeOK, Ends, ResultDone
      <3>2. Chain[l][i] \in Visits(l)
        BY <3>1, ChainFacts
      <3> QED BY <3>1, <3>2 DEF AllTaken
    <2> QED BY <2>1, <2>2
  <1> QED BY <1>1, <1>2, <1>3, StructCorrect, PTL DEF Spec

\* No lost wakeup and no circular wait among the dservs: while no process
\* has died, a lock in lock_waiting waits for a lock that still travels to a later
\* dserv, or whose LOCK_UNLOCK is on its way and will start the rescan.
THEOREM WakeupPendingCorrect == Spec => []WakeupPending
  <1>1. Init => Wake
    BY WakeInit
  <1>2. Struct /\ Wake /\ [Next]_vars => Wake'
    BY WakeNext
  <1>3. Struct /\ Wake => WakeupPending
    <2> SUFFICES ASSUME Struct, Wake, died = {}, NEW s \in Servers,
                        ~scanning[s], NEW b \in Waiting(s)
                 PROVE  \E a \in lock_sent[s], t \in Servers :
                          /\ s < t
                          /\ t \in Visits(a) \cap Visits(b)
                          /\ t \notin finish[s][a]
                          /\ \/ Travelling(a, t)
                             \/ Packet("LOCK_UNLOCK", a, 0, t, s) \in msgs
      BY DEF WakeupPending, Visits
    <2>1. /\ TypeOK /\ CopyPlace /\ SentTaken /\ TakenPrefix /\ Place
          /\ HeldBack /\ Moving /\ Marked
      BY DEF Struct, Wake
    <2>2. PICK a \in lock_sent[s] :
            IsConflict(a, next_pos[s][a], finish[s][a], b, next_pos[s][b], finish[s][b])
      BY <2>1 DEF HeldBack, ConflictAll
    <2>3. PICK t \in Rest(a, next_pos[s][a]) \cap Rest(b, next_pos[s][b]) :
            t \notin finish[s][a] \cup finish[s][b]
      BY <2>2 DEF IsConflict
    <2>4. a \in Locks /\ b \in Locks
      <3>1. lock_waiting[s] \in Seq(Locks)
        BY <2>1 DEF TypeOK
      <3> QED BY <2>1, <3>1, ElementFacts DEF TypeOK, Waiting
    <2>5. /\ next_pos[s][a] \in 1..Len(Chain[a]) /\ Chain[a][next_pos[s][a]] = s
          /\ next_pos[s][b] \in 1..Len(Chain[b]) /\ Chain[b][next_pos[s][b]] = s
      BY <2>1 DEF CopyPlace
    <2>6. t \in Servers
      BY <2>3, <2>4, <2>5, ChainFacts, SMTT(30) DEF Rest
    <2>7. t \in Visits(a) /\ t \in Visits(b) /\ s < t
      BY <2>3, <2>4, <2>5, <2>6, RestFacts
    <2>8. a \in taken[s] /\ a \in issued /\ s \in Visits(a)
      BY <2>1 DEF SentTaken, TakenPrefix
    <2>9. CASE a \in taken[t]
      <3>1. Packet("LOCK_UNLOCK", a, 0, t, s) \in msgs
        BY <2>1, <2>3, <2>4, <2>6, <2>7, <2>8, <2>9 DEF Marked
      <3> QED BY <2>3, <2>6, <2>7, <3>1
    <2>10. CASE a \notin taken[t]
      <3>1. PICK u \in Servers : Token(a, u)
        BY <2>1, <2>7, <2>8, <2>10 DEF Moving, AllTaken, NoToken
      <3>2. ~(t < u)
        BY <2>1, <2>4, <2>6, <2>7, <2>10, <3>1 DEF Place, SentTaken
      <3>3. u <= t
        BY <2>6, <3>2, ChainAssumption
      <3>4. Travelling(a, t)
        BY <3>1, <3>3 DEF Travelling, Token
      <3> QED BY <2>3, <2>6, <2>7, <3>4
    <2> QED BY <2>9, <2>10
  <1> QED BY <1>1, <1>2, <1>3, StructCorrect, PTL DEF Spec
=============================================================================
