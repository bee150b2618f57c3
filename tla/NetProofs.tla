----------------------------- MODULE NetProofs -----------------------------
(***************************************************************************)
(* The streams of the network library stay right, its packets are freed    *)
(* exactly when unused and nothing that arrives is lost, for packets,      *)
(* sockets and rooms of any size, until an s_conn is given to two open     *)
(* sockets.  The inductive invariant ties every open socket to its s_conn  *)
(* and says how far the other end is in what was sent.                     *)
(***************************************************************************)
EXTENDS Net, Integers, FiniteSetTheorems, SequenceTheorems, TLAPS

Parts == [msg: Nat, part: Nat, req: Nat]
Nodes == [pkt: Pkts, req: Nat, curr: Nat]
Events == [ptr: Conns, fd: Socks, in: BOOLEAN, out: BOOLEAN]
Ids == 0 .. MaxSock

SockT == [open: BOOLEAN, ptr: Ids, peer: BOOLEAN, reset: BOOLEAN,
          out: Seq(Parts), in: Nat, inEdge: BOOLEAN, outEdge: BOOLEAN, nospace: BOOLEAN,
          sent: Seq(Nat), heard: Nat, peerSent: Nat, got: Nat, told: Nat, used: BOOLEAN,
          skipped: BOOLEAN, missed: BOOLEAN]
ConnT == [fd: Ids, wq: Seq(Nodes), rbuf: Nat]
PoolT == [next: [Ids -> Ids], prev: [Ids -> Ids]]

\* A packet in memory; its number is whatever s_packet_set_req put there last.
IsPkt(m) == m = [msg |-> m.msg, req |-> m.req, ref |-> m.ref] /\ m.msg \in Nat /\ m.ref \in Int

\* The memory m of the packets.
IsMem(m) == m = [p \in Pkts |-> m[p]] /\ \A p \in Pkts : IsPkt(m[p])

\* An open socket and its s_conn point at each other; an s_conn that is not of
\* an open socket has nothing to write.
LinkOK(sk, cn) ==
  /\ \A s \in Socks : sk[s].open => sk[s].ptr \in Conns /\ cn[sk[s].ptr].fd = s
  /\ \A c \in Conns : cn[c].fd # NULL =>
       sk[cn[c].fd].used /\ (sk[cn[c].fd].open => sk[cn[c].fd].ptr = c)
  /\ \A c \in Conns : cn[c].fd = NULL \/ ~sk[cn[c].fd].open => cn[c].wq = <<>>

\* What the program has not been told to be closed is open; what the other end
\* has not taken is on its way as long as both ends are open.
StateOK(sk) ==
  \A s \in Socks : /\ sk[s].open => sk[s].used /\ sk[s].told = 0
                   /\ sk[s].used /\ ~sk[s].open => sk[s].told > 0
                   /\ sk[s].peer => sk[s].open
                   /\ ~sk[s].peer => sk[s].out = <<>>
                   /\ Len(sk[s].out) <= Room

\* The queue q of a socket k: its packets are the last ones that were sent.
QueueOK(k, q, m) ==
  /\ Len(q) <= Len(k.sent)
  /\ \A j \in DOMAIN q :
       /\ q[j].req = Len(k.sent) - Len(q) + j
       /\ m[q[j].pkt].msg = k.sent[Len(k.sent) - Len(q) + j]
  /\ q # <<>> => q[1].curr < Size

\* How many parts of the packets sent over k have been written.
Position(k, q) == Size * (Len(k.sent) - Len(q)) + (IF q = <<>> THEN 0 ELSE q[1].curr)

Part(k, i) ==
  LET j == ((i - 1) \div Size) + 1
      part == ((i - 1) % Size) + 1
  IN [msg |-> k.sent[j], part |-> part, req |-> IF part = 1 THEN j ELSE 0]

OutOK(k) == \A i \in DOMAIN k.out : k.out[i] = Part(k, k.heard + i)

StreamOK(k, q, m) ==
  /\ QueueOK(k, q, m) /\ OutOK(k)
  /\ k.peer => k.heard + Len(k.out) = Position(k, q)

StreamsOK(sk, cn, m) == \A s \in Socks : sk[s].open => StreamOK(sk[s], cn[sk[s].ptr].wq, m)

\* The places of p in the queues.
Users(cn, p) == UNION {{c} \X {i \in DOMAIN cn[c].wq : cn[c].wq[i].pkt = p} : c \in Conns}

RefsOK(m, cn, h) ==
  \A p \in Pkts : m[p].ref = (IF h = p THEN 1 ELSE 0) + Cardinality(Users(cn, p))

\* What has arrived on k was handed over, is in its read buffer or still to be read.
ReadOK(k, rbuf) == k.got * Size + rbuf + k.in = k.peerSent

ReadsOK(sk, cn) == \A s \in Socks : sk[s].open => ReadOK(sk[s], cn[sk[s].ptr].rbuf)

\* What holds of the sockets, the s_conn, the packets and the packet h that the
\* program holds, after every call of the library and in the middle of s_net_send.
Body(sk, cn, m, h) ==
  /\ sk \in [Socks -> SockT] /\ cn \in [Conns -> ConnT] /\ IsMem(m) /\ h \in 0 .. MaxMsg
  /\ LinkOK(sk, cn) /\ StateOK(sk) /\ StreamsOK(sk, cn, m) /\ RefsOK(m, cn, h) /\ ReadsOK(sk, cn)

\* Sockets are opened in their order, each with at most one new s_conn; events
\* and read buffers are of an s_conn that has been used.
Frame ==
  /\ pool \in PoolT /\ nconn \in Nat /\ nmsg \in Nat /\ batch \in Seq(Events) /\ drain \in Ids
  /\ \A s \in Socks : ~sock[s].used => nconn < s
  /\ \A i \in DOMAIN batch : conn[batch[i].ptr].fd # NULL
  /\ drain # NULL => conn[drain].fd # NULL

Good == Body(sock, conn, mem, pkt) /\ Frame

Inv == ~shared => Good

-----------------------------------------------------------------------------
(* Division.                                                                *)

\* Quotient and remainder.
LEMMA DivMod ==
  ASSUME NEW a \in Nat, NEW n \in Nat \ {0}
  PROVE  /\ a \div n \in Nat /\ a % n \in 0 .. n - 1
         /\ a = n * (a \div n) + (a % n)
  OBVIOUS

\* There is one quotient and one remainder.
LEMMA DivUnique ==
  ASSUME NEW n \in Nat \ {0}, NEW q1 \in Nat, NEW q2 \in Nat,
         NEW r1 \in 0 .. n - 1, NEW r2 \in 0 .. n - 1, n * q1 + r1 = n * q2 + r2
  PROVE  q1 = q2 /\ r1 = r2
<1>1. CASE q1 < q2
  <2>1. PICK d \in Nat : q2 = q1 + 1 + d
    BY <1>1
  <2>2. n * q2 = n * q1 + n + n * d
    BY <2>1
  <2>3. n * d >= 0 /\ n * d \in Nat /\ n * q1 \in Nat
    OBVIOUS
  <2> QED BY <2>2, <2>3
<1>2. CASE q2 < q1
  <2>1. PICK d \in Nat : q1 = q2 + 1 + d
    BY <1>2
  <2>2. n * q1 = n * q2 + n + n * d
    BY <2>1
  <2>3. n * d >= 0 /\ n * d \in Nat /\ n * q2 \in Nat
    OBVIOUS
  <2> QED BY <2>2, <2>3
<1>3. CASE q1 = q2
  BY <1>3
<1> QED BY <1>1, <1>2, <1>3

\* A multiple can be taken out.
LEMMA DivShift ==
  ASSUME NEW n \in Nat \ {0}, NEW a \in Nat, NEW b \in Nat
  PROVE  (n * a + b) \div n = a + (b \div n) /\ (n * a + b) % n = b % n
<1> DEFINE x == n * a + b
           y == b \div n
           z == b % n
           u == x \div n
           v == x % n
<1>1. x \in Nat
  OBVIOUS
<1>2. /\ u \in Nat /\ v \in 0 .. n - 1 /\ x = n * u + v
      /\ y \in Nat /\ z \in 0 .. n - 1 /\ b = n * y + z
  BY <1>1, DivMod
<1>x. x = n * a + b
  OBVIOUS
<1> HIDE DEF x, y, z, u, v
<1>3. n * (a + y) = n * a + n * y
  BY <1>2
<1>4. n * u + v = n * (a + y) + z /\ a + y \in Nat
  BY <1>2, <1>3, <1>x
<1>5. u = a + y /\ v = z
  BY ONLY <1>2, <1>4, DivUnique, n \in Nat \ {0}
<1> QED BY <1>5 DEF x, y, z, u, v

\* Less than m times n is less than m after division.
LEMMA DivBound ==
  ASSUME NEW n \in Nat \ {0}, NEW m \in Nat, NEW b \in Nat
  PROVE  /\ b < n * m => b \div n < m
         /\ b <= n * m => b \div n <= m
         /\ b <= n * m /\ b \div n = m => b % n = 0
<1> DEFINE y == b \div n
           z == b % n
<1>1. y \in Nat /\ z \in 0 .. n - 1 /\ b = n * y + z
  BY DivMod
<1> HIDE DEF y, z
<1>2. CASE y >= m
  <2>1. PICK d \in Nat : y = m + d
    BY <1>1, <1>2
  <2>2. n * y = n * m + n * d /\ n * d \in Nat /\ n * m \in Nat
    BY <2>1
  <2>3. d > 0 => n * d >= n
    <3>1. CASE d > 0
      <4>1. PICK f \in Nat : d = f + 1
        BY <3>1
      <4>2. n * d = n * f + n /\ n * f \in Nat
        BY <4>1
      <4> QED BY <4>2
    <3> QED BY <3>1
  <2>4. b >= n * m /\ (b <= n * m => z = 0 /\ n * d = 0)
    BY <1>1, <2>2
  <2>5. b <= n * m => d = 0
    BY <2>3, <2>4
  <2> QED BY <1>1, <2>1, <2>2, <2>4, <2>5 DEF y, z
<1>3. CASE y < m
  BY <1>1, <1>3 DEF y, z
<1> QED BY <1>1, <1>2, <1>3

-----------------------------------------------------------------------------
(* Counting references.                                                     *)

\* The places of p in q.
Places(q, p) == {i \in DOMAIN q : q[i].pkt = p}

LEMMA RefsNat ==
  ASSUME NEW q \in Seq(Nodes), NEW p
  PROVE  IsFiniteSet(Places(q, p)) /\ Refs(q, p) = Cardinality(Places(q, p)) /\ Refs(q, p) \in Nat
<1>1. DOMAIN q = 1 .. Len(q) /\ Len(q) \in Nat
  OBVIOUS
<1>2. IsFiniteSet(1 .. Len(q))
  BY <1>1, FS_Interval
<1>3. IsFiniteSet(Places(q, p))
  BY <1>1, <1>2, FS_Subset DEF Places
<1> QED BY <1>3, FS_CardinalityType DEF Refs, Places

LEMMA RefsEmpty ==
  ASSUME NEW p PROVE Refs(<<>>, p) = 0
<1>1. {i \in DOMAIN <<>> : <<>>[i].pkt = p} = {}
  OBVIOUS
<1> QED BY <1>1, FS_EmptySet DEF Refs

LEMMA RefsAppend ==
  ASSUME NEW q \in Seq(Nodes), NEW node \in Nodes, NEW p
  PROVE  Refs(Append(q, node), p) = Refs(q, p) + (IF node.pkt = p THEN 1 ELSE 0)
<1> DEFINE r == Append(q, node)
           n == Len(q) + 1
<1>1. /\ r \in Seq(Nodes) /\ DOMAIN r = 1 .. n /\ r[n] = node
      /\ DOMAIN q = 1 .. Len(q) /\ Len(q) \in Nat /\ \A i \in 1 .. Len(q) : r[i] = q[i]
  OBVIOUS
<1> HIDE DEF r
<1>n. n \notin Places(q, p)
  BY <1>1 DEF Places
<1>2. IsFiniteSet(Places(q, p)) /\ n \notin Places(q, p)
  BY <1>n, RefsNat
<1>3. /\ Cardinality(Places(q, p)) \in Nat
      /\ Refs(q, p) = Cardinality(Places(q, p)) /\ Refs(r, p) = Cardinality(Places(r, p))
  BY <1>1, <1>2, FS_CardinalityType, RefsNat
<1>4. CASE node.pkt = p
  <2>1. Places(r, p) = Places(q, p) \cup {n}
    BY <1>1, <1>4 DEF Places
  <2>2. Cardinality(Places(r, p)) = Cardinality(Places(q, p)) + 1
    BY <1>2, <2>1, FS_AddElement
  <2> QED BY <1>3, <1>4, <2>2 DEF r
<1>5. CASE node.pkt # p
  <2>1. Places(r, p) = Places(q, p)
    BY <1>1, <1>5 DEF Places
  <2> QED BY <1>3, <1>5, <2>1 DEF r
<1> QED BY <1>4, <1>5

\* The queue without its first d packets.
LEMMA RefsSplit ==
  ASSUME NEW q \in Seq(Nodes), NEW d \in 0 .. Len(q), NEW p, NEW a \in Seq(Nodes), NEW b \in Seq(Nodes),
         Len(a) = d, Len(b) = Len(q) - d,
         \A i \in 1 .. d : a[i].pkt = q[i].pkt,
         \A i \in 1 .. Len(q) - d : b[i].pkt = q[d + i].pkt
  PROVE  Refs(q, p) = Refs(a, p) + Refs(b, p)
<1> DEFINE high == {i \in Places(q, p) : i > d}
           f == [i \in Places(b, p) |-> d + i]
<1>1. DOMAIN q = 1 .. Len(q) /\ DOMAIN a = 1 .. d /\ DOMAIN b = 1 .. (Len(q) - d) /\ Len(q) \in Nat /\ d \in Nat
  OBVIOUS
<1>2. Places(q, p) = Places(a, p) \cup high /\ Places(a, p) \cap high = {}
  BY <1>1 DEF Places
<1>3. IsFiniteSet(Places(a, p)) /\ IsFiniteSet(Places(b, p)) /\ IsFiniteSet(Places(q, p))
  BY RefsNat
<1>4. f \in Bijection(Places(b, p), high)
  <2>1. f \in [Places(b, p) -> high]
    BY <1>1 DEF Places
  <2>2. \A i, j \in Places(b, p) : f[i] = f[j] => i = j
    BY <1>1 DEF Places
  <2>3. ASSUME NEW k \in high PROVE \E i \in Places(b, p) : f[i] = k
    <3>1. k - d \in Places(b, p) /\ d + (k - d) = k
      BY <1>1 DEF Places
    <3> QED BY <3>1
  <2> HIDE DEF f, high
  <2>4. f \in Injection(Places(b, p), high)
    BY <2>1, <2>2 DEF Injection, IsInjective
  <2>5. f \in Surjection(Places(b, p), high)
    BY <2>1, <2>3 DEF Surjection
  <2> QED BY <2>4, <2>5 DEF Bijection
<1>5. IsFiniteSet(high) /\ Cardinality(high) = Cardinality(Places(b, p))
  BY <1>3, <1>4, FS_Bijection DEF ExistsBijection
<1>6. Cardinality(Places(q, p)) = Cardinality(Places(a, p)) + Cardinality(high) - Cardinality({})
  BY <1>2, <1>3, <1>5, FS_Union
<1> QED BY <1>5, <1>6, RefsNat, FS_EmptySet

\* The places of p in the queues of the s_conn of C.
UsersOf(cn, p, C) == UNION {{c} \X Places(cn[c].wq, p) : c \in C}

LEMMA UsersFinite ==
  ASSUME NEW cn \in [Conns -> ConnT], NEW p, NEW C \in SUBSET Conns
  PROVE  IsFiniteSet(UsersOf(cn, p, C)) /\ Cardinality(UsersOf(cn, p, C)) \in Nat
<1> DEFINE F == [c \in C |-> {c} \X Places(cn[c].wq, p)]
           S == {{c} \X Places(cn[c].wq, p) : c \in C}
<1>1. IsFiniteSet(C)
  <2>1. IsFiniteSet(Conns)
    BY FS_Interval, BoundsAssumption DEF Conns
  <2> QED BY <2>1, FS_Subset
<1>2. F \in Surjection(C, S)
  BY DEF Surjection
<1>3. IsFiniteSet(S)
  BY <1>1, <1>2, FS_Surjection
<1>4. ASSUME NEW c \in C PROVE IsFiniteSet({c} \X Places(cn[c].wq, p))
  <2>1. cn[c].wq \in Seq(Nodes)
    BY DEF ConnT
  <2> QED BY <2>1, RefsNat, FS_Singleton, FS_Product
<1>5. IsFiniteSet(UNION S)
  BY <1>3, <1>4, FS_UNION
<1> QED BY <1>5, FS_CardinalityType DEF UsersOf

\* One queue taken out of the count.
LEMMA UsersSplit ==
  ASSUME NEW cn \in [Conns -> ConnT], NEW p, NEW c \in Conns
  PROVE  Cardinality(Users(cn, p)) = Cardinality(UsersOf(cn, p, Conns \ {c})) + Refs(cn[c].wq, p)
<1> DEFINE A == UsersOf(cn, p, Conns \ {c})
           B == {c} \X Places(cn[c].wq, p)
<1>1. Users(cn, p) = A \cup B
  BY DEF Users, UsersOf, Places
<1>2. A \cap B = {}
  BY DEF UsersOf
<1>3. IsFiniteSet(A) /\ Cardinality(A) \in Nat
  BY UsersFinite
<1>4. cn[c].wq \in Seq(Nodes)
  BY DEF ConnT
<1>5. /\ IsFiniteSet(Places(cn[c].wq, p)) /\ Refs(cn[c].wq, p) = Cardinality(Places(cn[c].wq, p))
      /\ Refs(cn[c].wq, p) \in Nat
  BY <1>4, RefsNat
<1>6. IsFiniteSet(B) /\ Cardinality(B) = 1 * Refs(cn[c].wq, p)
  <2>1. IsFiniteSet({c}) /\ Cardinality({c}) = 1
    BY FS_Singleton
  <2>2. IsFiniteSet(B) /\ Cardinality(B) = Cardinality({c}) * Cardinality(Places(cn[c].wq, p))
    BY <1>5, <2>1, FS_Product
  <2> QED BY <1>5, <2>1, <2>2
<1> HIDE DEF A, B
<1>7. Cardinality(A \cup B) = Cardinality(A) + Cardinality(B) - Cardinality({})
  BY <1>2, <1>3, <1>6, FS_Union
<1> QED BY <1>1, <1>3, <1>5, <1>6, <1>7, FS_EmptySet DEF A

\* What one changed queue does to the count.
LEMMA UsersChange ==
  ASSUME NEW cn \in [Conns -> ConnT], NEW dn \in [Conns -> ConnT], NEW p, NEW c \in Conns,
         \A b \in Conns \ {c} : dn[b].wq = cn[b].wq
  PROVE  /\ Cardinality(Users(dn, p)) = Cardinality(Users(cn, p)) - Refs(cn[c].wq, p) + Refs(dn[c].wq, p)
         /\ Cardinality(Users(cn, p)) \in Nat /\ Cardinality(Users(dn, p)) \in Nat
         /\ Refs(cn[c].wq, p) \in Nat /\ Refs(dn[c].wq, p) \in Nat
<1>1. UsersOf(dn, p, Conns \ {c}) = UsersOf(cn, p, Conns \ {c})
  BY DEF UsersOf
<1>2. Cardinality(UsersOf(cn, p, Conns \ {c})) \in Nat
  BY UsersFinite
<1>3. cn[c].wq \in Seq(Nodes) /\ dn[c].wq \in Seq(Nodes)
  BY DEF ConnT
<1>4. Refs(cn[c].wq, p) \in Nat /\ Refs(dn[c].wq, p) \in Nat
  BY <1>3, RefsNat
<1>5. /\ Cardinality(Users(cn, p)) = Cardinality(UsersOf(cn, p, Conns \ {c})) + Refs(cn[c].wq, p)
      /\ Cardinality(Users(dn, p)) = Cardinality(UsersOf(dn, p, Conns \ {c})) + Refs(dn[c].wq, p)
  BY UsersSplit
<1> QED BY <1>1, <1>2, <1>4, <1>5

\* A packet in a queue is counted.
LEMMA UsersSome ==
  ASSUME NEW cn \in [Conns -> ConnT], NEW c \in Conns, NEW i \in DOMAIN cn[c].wq
  PROVE  Cardinality(Users(cn, cn[c].wq[i].pkt)) > 0
<1> DEFINE p == cn[c].wq[i].pkt
<1>1. Users(cn, p) = UsersOf(cn, p, Conns)
  BY DEF Users, UsersOf, Places
<1>2. IsFiniteSet(Users(cn, p)) /\ Cardinality(Users(cn, p)) \in Nat
  BY <1>1, UsersFinite
<1>3. <<c, i>> \in Users(cn, p)
  BY DEF Users
<1>4. Cardinality(Users(cn, p)) # 0
  BY <1>2, <1>3, FS_EmptySet
<1> QED BY <1>2, <1>4

-----------------------------------------------------------------------------
(* Writing a queue.                                                         *)

\* The locals of iwrite_conn: what is pending, how much of it is written, where
\* that ends and how many packets are done.
Pending(q) == IF q = <<>> THEN 0 ELSE Len(q) * Size - q[1].curr
Amount(k, q) ==
  LET room == IF k.peer THEN Room - Len(k.out) ELSE Pending(q)
  IN IF Pending(q) <= room THEN Pending(q) ELSE room
End(k, q) == IF q = <<>> THEN 0 ELSE q[1].curr + Amount(k, q)
Done(k, q) == End(k, q) \div Size

LEMMA Amounts ==
  ASSUME NEW k \in SockT, NEW q \in Seq(Nodes), q # <<>> => q[1].curr < Size, Len(k.out) <= Room
  PROVE  /\ Amount(k, q) \in Nat /\ (k.peer => Len(k.out) + Amount(k, q) <= Room)
         /\ End(k, q) \in Nat /\ End(k, q) <= Size * Len(q)
         /\ Done(k, q) \in 0 .. Len(q)
         /\ End(k, q) % Size \in 0 .. Size - 1
         /\ End(k, q) = Size * Done(k, q) + (End(k, q) % Size)
         /\ Done(k, q) = Len(q) => End(k, q) % Size = 0
<1>1. Size \in Nat \ {0} /\ Room \in Nat /\ Len(q) \in Nat /\ Len(k.out) \in Nat
  BY SizeAssumption DEF SockT
<1>2. Pending(q) \in Nat /\ (q # <<>> => q[1].curr \in Nat /\ q[1].curr + Pending(q) = Size * Len(q))
  <2>1. CASE q = <<>>
    BY <2>1 DEF Pending
  <2>2. CASE q # <<>>
    <3>0. Len(q) >= 1 /\ q[1] \in Nodes
      BY <2>2
    <3>1. q[1].curr \in Nat /\ Len(q) >= 1
      BY <3>0 DEF Nodes
    <3>2. PICK d \in Nat : Len(q) = d + 1
      BY <1>1, <3>1
    <3>3. Len(q) * Size = d * Size + Size /\ d * Size \in Nat
      BY <1>1, <3>2
    <3> QED BY <1>1, <2>2, <3>1, <3>3 DEF Pending
  <2> QED BY <2>1, <2>2
<1>3. Amount(k, q) \in Nat /\ (k.peer => Len(k.out) + Amount(k, q) <= Room) /\ Amount(k, q) <= Pending(q)
  BY <1>1, <1>2 DEF Amount
<1>4. End(k, q) \in Nat /\ End(k, q) <= Size * Len(q)
  <2>1. Size * Len(q) \in Nat
    BY <1>1
  <2> QED BY <1>2, <1>3, <2>1 DEF End
<1>5. /\ Done(k, q) \in Nat /\ End(k, q) % Size \in 0 .. Size - 1
      /\ End(k, q) = Size * Done(k, q) + (End(k, q) % Size)
  BY <1>1, <1>4, DivMod DEF Done
<1>6. Done(k, q) <= Len(q) /\ (Done(k, q) = Len(q) => End(k, q) % Size = 0)
  BY <1>1, <1>4, DivBound DEF Done
<1> QED BY <1>1, <1>3, <1>4, <1>5, <1>6

\* What is left of the queue.
Left(k, q) ==
  LET rest == SubSeq(q, Done(k, q) + 1, Len(q))
  IN IF rest = <<>> THEN rest ELSE [rest EXCEPT ![1].curr = End(k, q) % Size]

LEMMA LeftOver ==
  ASSUME NEW k \in SockT, NEW q \in Seq(Nodes), q # <<>> => q[1].curr < Size, Len(k.out) <= Room
  PROVE  /\ Left(k, q) \in Seq(Nodes) /\ Len(Left(k, q)) = Len(q) - Done(k, q)
         /\ \A i \in 1 .. Len(q) - Done(k, q) : /\ Left(k, q)[i].pkt = q[Done(k, q) + i].pkt
                                               /\ Left(k, q)[i].req = q[Done(k, q) + i].req
         /\ Left(k, q) # <<>> => Left(k, q)[1].curr = End(k, q) % Size
<1> DEFINE d == Done(k, q)
           rest == SubSeq(q, d + 1, Len(q))
<1>1. d \in 0 .. Len(q) /\ End(k, q) % Size \in Nat /\ Len(q) \in Nat
  BY Amounts, SizeAssumption
<1> HIDE DEF d
<1>2. /\ rest \in Seq(Nodes) /\ Len(rest) = Len(q) - d /\ DOMAIN rest = 1 .. (Len(q) - d)
      /\ \A i \in 1 .. Len(q) - d : rest[i] = q[d + i]
  BY <1>1
<1>l. Left(k, q) = IF rest = <<>> THEN rest ELSE [rest EXCEPT ![1].curr = End(k, q) % Size]
  BY DEF Left, d
<1> HIDE DEF rest
<1>3. CASE rest = <<>>
  BY <1>1, <1>2, <1>3, <1>l DEF d
<1>4. CASE rest # <<>>
  <2> DEFINE e == End(k, q) % Size
             l == [rest EXCEPT ![1].curr = e]
  <2>1. Len(rest) >= 1 /\ rest[1] \in Nodes
    BY <1>2, <1>4
  <2>2. e \in Nat
    BY <1>1
  <2> HIDE DEF e
  <2>3. [rest[1] EXCEPT !.curr = e] \in Nodes
    BY <2>1, <2>2 DEF Nodes
  <2>4. l \in Seq(Nodes) /\ Len(l) = Len(rest)
    BY <1>2, <2>1, <2>3
  <2>5. ASSUME NEW i \in 1 .. Len(q) - d PROVE l[i].pkt = rest[i].pkt /\ l[i].req = rest[i].req
    BY <1>1, <1>2, <2>1 DEF Nodes
  <2>6. l[1].curr = e
    BY <1>2, <2>1 DEF Nodes
  <2>7. Left(k, q) = l
    BY <1>4, <1>l DEF e
  <2> HIDE DEF l
  <2> QED BY <1>2, <2>4, <2>5, <2>6, <2>7 DEF e, d
<1> QED BY <1>3, <1>4

\* The parts that are written are the next ones of what was sent.
LEMMA PartsRight ==
  ASSUME NEW k \in SockT, NEW q \in Seq(Nodes), NEW m, IsMem(m), StreamOK(k, q, m), k.peer, Len(k.out) <= Room
  PROVE  /\ PendingParts(m, q, Amount(k, q)) \in Seq(Parts)
         /\ Len(PendingParts(m, q, Amount(k, q))) = Amount(k, q)
         /\ \A i \in 1 .. Amount(k, q) :
              PendingParts(m, q, Amount(k, q))[i] = Part(k, k.heard + Len(k.out) + i)
<1> DEFINE n == Amount(k, q)
           L == Len(k.sent)
           pp == PendingParts(m, q, n)
<1>0. QueueOK(k, q, m) /\ (q # <<>> => q[1].curr < Size) /\ k.heard + Len(k.out) = Position(k, q)
  BY DEF StreamOK, QueueOK
<1>a. k.sent \in Seq(Nat) /\ k.out \in Seq(Parts) /\ k.heard \in Nat
  BY DEF SockT
<1>b. n \in Nat /\ End(k, q) <= Size * Len(q)
  BY <1>0, Amounts
<1>1. /\ Size \in Nat \ {0} /\ n \in Nat /\ L \in Nat /\ Len(q) \in Nat /\ Len(k.out) \in Nat /\ k.heard \in Nat
      /\ Len(q) <= L /\ End(k, q) <= Size * Len(q)
  BY SMTT(60), <1>0, <1>a, <1>b, SizeAssumption DEF QueueOK
<1>2. ASSUME NEW i \in 1 .. n
      PROVE  pp[i] = Part(k, k.heard + Len(k.out) + i) /\ pp[i] \in Parts
  <2> DEFINE b == q[1].curr + i - 1
             y == b \div Size
             z == b % Size
             node == q[y + 1]
             a == L - Len(q)
  <2>1. q # <<>>
    BY <1>1 DEF Amount, Pending
  <2>2. q[1] \in Nodes
    BY <2>1
  <2>3. q[1].curr \in Nat
    BY <2>2 DEF Nodes
  <2>4. b \in Nat /\ b < Size * Len(q)
    BY SMTT(60), <1>1, <2>1, <2>3 DEF End
  <2>5. y \in Nat /\ y < Len(q) /\ z \in 0 .. Size - 1
    BY <1>1, <2>4, DivMod, DivBound
  <2>6. pp[i] = [msg |-> m[node.pkt].msg, part |-> z + 1, req |-> IF z + 1 = 1 THEN node.req ELSE 0]
    BY DEF PendingParts, Stamp
  <2>7. node \in Nodes /\ y + 1 \in DOMAIN q /\ y + 1 \in 1 .. Len(q)
    BY SMTT(90), <1>1, <2>5
  <2>8. node.pkt \in Pkts /\ node.req \in Nat
    BY <2>7 DEF Nodes
  <2>9. m[node.pkt].msg \in Nat
    BY <2>8 DEF IsMem, IsPkt
  <2>10. node.req = a + y + 1 /\ m[node.pkt].msg = k.sent[a + y + 1]
    <3>1. node.req = L - Len(q) + (y + 1) /\ m[node.pkt].msg = k.sent[L - Len(q) + (y + 1)]
      BY <1>0, <2>7 DEF QueueOK
    <3>2. L - Len(q) + (y + 1) = a + y + 1
      <4> HIDE DEF y, L
      <4> QED BY <1>1, <2>5
    <3> QED BY <3>1, <3>2
  <2>11. (k.heard + Len(k.out) + i) - 1 = Size * a + b
    <3>1. a \in Nat
      BY <1>1
    <3> HIDE DEF a
    <3>2. Size * a \in Nat
      BY <1>1, <3>1
    <3>3. k.heard + Len(k.out) = Size * a + q[1].curr
      BY <1>0, <2>1 DEF Position, a
    <3>4. i \in Nat
      BY <1>1
    <3> DEFINE u == Size * a
               v == q[1].curr
    <3>5. u \in Nat /\ v \in Nat
      BY <2>3, <3>2
    <3> HIDE DEF u, v
    <3>6. (u + v + i) - 1 = u + (v + i - 1)
      BY <3>4, <3>5
    <3> QED BY <3>3, <3>6 DEF u, v
  <2>12. a \in Nat
    BY <1>1
  <2> HIDE DEF b, a
  <2>13. (Size * a + b) \div Size = a + y /\ (Size * a + b) % Size = z
    BY <1>1, <2>4, <2>12, DivShift
  <2>14. Part(k, k.heard + Len(k.out) + i)
           = [msg |-> k.sent[a + y + 1], part |-> z + 1, req |-> IF z + 1 = 1 THEN a + y + 1 ELSE 0]
    BY <2>11, <2>13 DEF Part
  <2>15. pp[i] \in Parts
    <3> HIDE DEF pp, node, z, y
    <3> QED BY <2>5, <2>6, <2>8, <2>9 DEF Parts
  <2> QED BY <2>6, <2>10, <2>14, <2>15
<1>3. pp = [i \in 1 .. n |-> pp[i]]
  BY DEF PendingParts
<1> HIDE DEF pp, n
<1>4. pp \in Seq(Parts) /\ Len(pp) = n
  BY SMTT(90), <1>1, <1>2, <1>3
<1> QED BY <1>2, <1>4 DEF pp, n

\* The fields iwrite_conn leaves alone.
SameSock(k, l) ==
  /\ l.open = k.open /\ l.ptr = k.ptr /\ l.peer = k.peer /\ l.in = k.in /\ l.sent = k.sent
  /\ l.heard = k.heard /\ l.peerSent = k.peerSent /\ l.got = k.got /\ l.told = k.told /\ l.used = k.used

LEMMA DropAllMem ==
  ASSUME NEW m, IsMem(m), NEW q \in Seq(Nodes)
  PROVE  /\ IsMem(DropAll(m, q))
         /\ \A p \in Pkts : DropAll(m, q)[p].msg = m[p].msg /\ DropAll(m, q)[p].ref = m[p].ref - Refs(q, p)
<1>1. ASSUME NEW p \in Pkts
      PROVE  /\ DropAll(m, q)[p].msg = m[p].msg /\ DropAll(m, q)[p].ref = m[p].ref - Refs(q, p)
             /\ IsPkt(DropAll(m, q)[p])
  <2>1. DropAll(m, q)[p] = [m[p] EXCEPT !.ref = @ - Refs(q, p)]
    BY DEF DropAll
  <2>2. IsPkt(m[p]) /\ Refs(q, p) \in Nat
    BY RefsNat DEF IsMem
  <2> QED BY <2>1, <2>2 DEF IsPkt
<1>2. DropAll(m, q) = [p \in Pkts |-> DropAll(m, q)[p]]
  BY DEF DropAll
<1> QED BY <1>1, <1>2 DEF IsMem

\* What is known of an open socket with the queue it writes.
SockOK(k) == k \in SockT /\ Len(k.out) <= Room /\ (~k.peer => k.out = <<>>)

\* iwrite_conn keeps the stream right, and takes from a packet the references of
\* the places it leaves.
LEMMA WrittenRight ==
  ASSUME NEW k, SockOK(k), NEW q \in Seq(Nodes), NEW m, IsMem(m), StreamOK(k, q, m)
  PROVE  LET w == Written(k, q, m)
         IN /\ SockOK(w.sock) /\ SameSock(k, w.sock) /\ w.wq \in Seq(Nodes) /\ IsMem(w.mem)
            /\ StreamOK(w.sock, w.wq, w.mem)
            /\ \A p \in Pkts : /\ w.mem[p].msg = m[p].msg
                               /\ w.mem[p].ref = m[p].ref - Refs(q, p) + Refs(w.wq, p)
                               /\ Refs(q, p) \in Nat /\ Refs(w.wq, p) \in Nat
<1> DEFINE w == Written(k, q, m)
           n == Amount(k, q)
           d == Done(k, q)
           l == w.sock
           wq == w.wq
<1>0. /\ k \in SockT /\ Len(k.out) <= Room /\ (~k.peer => k.out = <<>>) /\ QueueOK(k, q, m) /\ OutOK(k)
      /\ (q # <<>> => q[1].curr < Size) /\ (k.peer => k.heard + Len(k.out) = Position(k, q))
  BY DEF SockOK, StreamOK, QueueOK
<1>1. /\ w.wq = Left(k, q)
      /\ w.sock.out = (IF k.peer THEN k.out \o PendingParts(m, q, n) ELSE k.out)
      /\ SameSock(k, w.sock)
  BY ZenonT(60), <1>0 DEF Written, Left, SameSock, SockT, End, Done, Amount, Pending
<1>2. /\ w.sock.nospace \in BOOLEAN /\ w.sock.skipped \in BOOLEAN /\ w.sock.reset \in BOOLEAN
      /\ w.sock.inEdge \in BOOLEAN /\ w.sock.outEdge \in BOOLEAN /\ w.sock.missed \in BOOLEAN
  BY ZenonT(60), <1>0 DEF Written, SockT
<1>3. PICK req : w.mem = [p \in Pkts |-> [DropAll(m, SubSeq(q, 1, d))[p] EXCEPT !.req = req[p]]]
  <2> DEFINE tried == SubSeq(q, 1, IF d < Len(q) THEN d + 1 ELSE d)
             mine(p) == SelectSeq(tried, LAMBDA node : node.pkt = p)
             r == [p \in Pkts |-> IF mine(p) = <<>> THEN DropAll(m, SubSeq(q, 1, d))[p].req ELSE Last(mine(p)).req]
  <2>1. w.mem = [p \in Pkts |-> [DropAll(m, SubSeq(q, 1, d))[p] EXCEPT !.req = r[p]]]
    BY DEF Written, End, Done, Amount, Pending
  <2> QED BY <2>1
<1> HIDE DEF w
<1> DEFINE e == End(k, q) % Size
<1>a. /\ n \in Nat /\ (k.peer => Len(k.out) + n <= Room)
      /\ End(k, q) \in Nat /\ End(k, q) <= Size * Len(q)
      /\ d \in 0 .. Len(q)
      /\ e \in 0 .. Size - 1
      /\ End(k, q) = Size * d + e
      /\ (d = Len(q) => e = 0)
  BY <1>0, Amounts
<1> HIDE DEF n, d, e
<1>4. /\ Size \in Nat \ {0} /\ n \in Nat /\ d \in 0 .. Len(q) /\ Len(q) \in Nat /\ End(k, q) \in Nat
      /\ (k.peer => Len(k.out) + n <= Room)
      /\ e \in 0 .. Size - 1 /\ End(k, q) = Size * d + e
      /\ (d = Len(q) => e = 0)
  BY <1>a, SizeAssumption
<1>5. /\ wq \in Seq(Nodes) /\ Len(wq) = Len(q) - d
      /\ \A i \in 1 .. Len(q) - d : wq[i].pkt = q[d + i].pkt /\ wq[i].req = q[d + i].req
      /\ (wq # <<>> => wq[1].curr = e)
  BY <1>0, <1>1, LeftOver DEF d, e
<1> HIDE DEF l, wq
<1>b. SameSock(k, l) /\ l = w.sock /\ l.out = (IF k.peer THEN k.out \o PendingParts(m, q, n) ELSE k.out)
  BY <1>1 DEF l
<1>6. /\ k.sent \in Seq(Nat) /\ Len(k.sent) \in Nat /\ k.out \in Seq(Parts) /\ Len(k.out) \in Nat /\ k.heard \in Nat
  BY <1>0 DEF SockT
<1>7. /\ l.out \in Seq(Parts) /\ Len(l.out) <= Room /\ (~l.peer => l.out = <<>>)
      /\ (k.peer => Len(l.out) = Len(k.out) + n)
  <2>1. CASE k.peer
    <3>1. /\ PendingParts(m, q, n) \in Seq(Parts) /\ Len(PendingParts(m, q, n)) = n
      BY <1>0, <2>1, PartsRight DEF n
    <3>2. l.out = k.out \o PendingParts(m, q, n)
      BY <1>b, <2>1
    <3>a. /\ k.out \o PendingParts(m, q, n) \in Seq(Parts)
          /\ Len(k.out \o PendingParts(m, q, n)) = Len(k.out) + Len(PendingParts(m, q, n))
      BY <1>6, <3>1, ConcatProperties
    <3>3. l.out \in Seq(Parts) /\ Len(l.out) = Len(k.out) + n
      BY <3>1, <3>2, <3>a
    <3>4. l.peer
      BY <1>b, <2>1 DEF SameSock
    <3> QED BY <1>4, <2>1, <3>3, <3>4
  <2>2. CASE ~k.peer
    <3>1. l.out = k.out
      BY <1>b, <2>2
    <3> QED BY <1>0, <1>6, <2>2, <3>1
  <2> QED BY <2>1, <2>2
<1>8. SockOK(l)
  <2>1. l = [open |-> l.open, ptr |-> l.ptr, peer |-> l.peer, reset |-> l.reset,
             out |-> l.out, in |-> l.in, inEdge |-> l.inEdge, outEdge |-> l.outEdge, nospace |-> l.nospace,
             sent |-> l.sent, heard |-> l.heard, peerSent |-> l.peerSent, got |-> l.got, told |-> l.told,
             used |-> l.used, skipped |-> l.skipped, missed |-> l.missed]
    BY ZenonT(60), <1>0 DEF l, w, Written, SockT
  <2>2. l \in SockT
    BY <1>0, <1>b, <1>2, <1>7, <2>1 DEF SameSock, SockT
  <2> QED BY <1>7, <2>2 DEF SockOK
<1>9. /\ IsMem(w.mem)
      /\ \A p \in Pkts : /\ w.mem[p].msg = m[p].msg
                         /\ w.mem[p].ref = m[p].ref - Refs(q, p) + Refs(wq, p)
                         /\ Refs(q, p) \in Nat /\ Refs(wq, p) \in Nat
  <2> DEFINE a == SubSeq(q, 1, d)
             D == DropAll(m, a)
  <2>1. a \in Seq(Nodes) /\ Len(a) = d /\ \A i \in 1 .. d : a[i] = q[i]
    BY <1>4
  <2> HIDE DEF a
  <2>2. /\ IsMem(D) /\ \A p \in Pkts : D[p].msg = m[p].msg /\ D[p].ref = m[p].ref - Refs(a, p)
    BY <2>1, DropAllMem
  <2>3. w.mem = [p \in Pkts |-> [D[p] EXCEPT !.req = req[p]]]
    BY <1>3 DEF a, d
  <2> HIDE DEF D
  <2>4. ASSUME NEW p \in Pkts
        PROVE  IsPkt(w.mem[p]) /\ w.mem[p].msg = D[p].msg /\ w.mem[p].ref = D[p].ref
    BY <2>2, <2>3 DEF IsMem, IsPkt
  <2>5. ASSUME NEW p \in Pkts
        PROVE  /\ Refs(q, p) = Refs(a, p) + Refs(wq, p)
               /\ Refs(q, p) \in Nat /\ Refs(wq, p) \in Nat /\ Refs(a, p) \in Nat /\ m[p].ref \in Int
    <3>1. /\ \A i \in 1 .. d : a[i].pkt = q[i].pkt
          /\ \A i \in 1 .. Len(q) - d : wq[i].pkt = q[d + i].pkt
      BY <1>5, <2>1
    <3>2. Refs(q, p) = Refs(a, p) + Refs(wq, p)
      BY ZenonT(120), <1>4, <1>5, <2>1, <3>1, RefsSplit
    <3>3. Refs(q, p) \in Nat /\ Refs(wq, p) \in Nat /\ Refs(a, p) \in Nat
      BY <1>5, <2>1, RefsNat
    <3> QED BY <3>2, <3>3 DEF IsMem, IsPkt
  <2>6. ASSUME NEW p \in Pkts
        PROVE  w.mem[p].ref = m[p].ref - Refs(q, p) + Refs(wq, p)
    BY <2>2, <2>4, <2>5
  <2>7. IsMem(w.mem)
    BY <2>3, <2>4 DEF IsMem
  <2> QED BY <2>2, <2>4, <2>5, <2>6, <2>7
<1>10. QueueOK(l, wq, w.mem)
  <2>1. Len(wq) <= Len(l.sent) /\ l.sent = k.sent
    BY <1>0, <1>b, <1>4, <1>5, <1>6 DEF QueueOK, SameSock
  <2>2. ASSUME NEW j \in DOMAIN wq
        PROVE  /\ wq[j].req = Len(k.sent) - Len(wq) + j
               /\ w.mem[wq[j].pkt].msg = k.sent[Len(k.sent) - Len(wq) + j]
    <3>1. /\ j \in 1 .. Len(q) - d /\ d + j \in DOMAIN q /\ q[d + j] \in Nodes
          /\ Len(k.sent) - Len(wq) + j = Len(k.sent) - Len(q) + (d + j)
      BY SMTT(60), <1>4, <1>5, <1>6
    <3>2. /\ q[d + j].req = Len(k.sent) - Len(q) + (d + j)
          /\ m[q[d + j].pkt].msg = k.sent[Len(k.sent) - Len(q) + (d + j)]
      BY <1>0, <3>1 DEF QueueOK
    <3>3. q[d + j].pkt \in Pkts
      BY <3>1 DEF Nodes
    <3> QED BY <1>5, <1>9, <3>1, <3>2, <3>3
  <2>3. wq # <<>> => wq[1].curr < Size
    BY <1>4, <1>5
  <2> QED BY <2>1, <2>2, <2>3 DEF QueueOK
<1>11. OutOK(l)
  <2>1. ASSUME NEW i PROVE Part(l, i) = Part(k, i)
    BY <1>b DEF Part, SameSock
  <2>2. CASE ~k.peer
    <3>1. l.out = k.out /\ l.heard = k.heard
      BY <1>b, <2>2 DEF SameSock
    <3> QED BY <1>0, <2>1, <3>1 DEF OutOK
  <2>3. CASE k.peer
    <3> DEFINE pp == PendingParts(m, q, n)
    <3>1. pp \in Seq(Parts) /\ Len(pp) = n /\ \A i \in 1 .. n : pp[i] = Part(k, k.heard + Len(k.out) + i)
      BY <1>0, <2>3, PartsRight DEF n
    <3>2. l.out = k.out \o pp
      BY <1>b, <2>3
    <3> HIDE DEF pp
    <3>3. ASSUME NEW i \in DOMAIN l.out PROVE l.out[i] = Part(k, k.heard + i)
      <4>1. CASE i <= Len(k.out)
        <5>1. i \in DOMAIN k.out /\ l.out[i] = k.out[i]
          BY <1>6, <3>1, <3>2, <4>1
        <5> QED BY <1>0, <5>1 DEF OutOK
      <4>2. CASE i > Len(k.out)
        <5>1. /\ i - Len(k.out) \in 1 .. n /\ l.out[i] = pp[i - Len(k.out)]
              /\ k.heard + Len(k.out) + (i - Len(k.out)) = k.heard + i
          <6>1. /\ Len(l.out) = Len(k.out) + n
                /\ \A j \in 1 .. Len(k.out) + Len(pp) :
                     (k.out \o pp)[j] = IF j <= Len(k.out) THEN k.out[j] ELSE pp[j - Len(k.out)]
            BY <1>6, <3>1, <3>2, ConcatProperties
          <6>2. i \in 1 .. Len(k.out) + n
            BY <1>6, <3>1, <3>2, <6>1
          <6>3. i - Len(k.out) \in 1 .. n /\ ~(i <= Len(k.out))
            BY <1>4, <1>6, <4>2, <6>2
          <6>4. k.heard + Len(k.out) + (i - Len(k.out)) = k.heard + i
            BY <1>6, <6>2
          <6> QED BY <3>1, <3>2, <6>1, <6>2, <6>3, <6>4
        <5> QED BY <3>1, <5>1
      <4> QED BY <1>6, <3>1, <3>2, <4>1, <4>2
    <3> QED BY <1>b, <2>1, <3>3 DEF OutOK, SameSock
  <2> QED BY <2>2, <2>3
<1>12. Position(l, wq) = Position(k, q) + n
  <2> DEFINE A == Len(k.sent) - Len(q)
  <2>1. A \in Nat /\ Len(l.sent) - Len(wq) = A + d /\ d \in Nat
    BY <1>0, <1>b, <1>4, <1>5, <1>6 DEF QueueOK, SameSock
  <2> HIDE DEF A
  <2>2. Size * (A + d) = Size * A + Size * d /\ Size * A \in Nat /\ Size * d \in Nat
    BY <1>4, <2>1
  <2>3. (IF wq = <<>> THEN 0 ELSE wq[1].curr) = e
    <3>1. wq = <<>> => d = Len(q)
      BY <1>4, <1>5
    <3> QED BY <1>4, <1>5, <3>1
  <2>4. Position(l, wq) = Size * A + Size * d + e
    BY <2>1, <2>2, <2>3 DEF Position
  <2>5. Size * d + e = End(k, q)
    BY <1>4
  <2>6. Position(k, q) = Size * A + (IF q = <<>> THEN 0 ELSE q[1].curr)
    BY DEF Position, A
  <2>7. End(k, q) = (IF q = <<>> THEN 0 ELSE q[1].curr) + n /\ (q # <<>> => q[1].curr \in Nat)
    <3>1. CASE q = <<>>
      BY <1>0, <1>4, <1>6, <3>1, SizeAssumption DEF n, End, Amount, Pending
    <3>2. CASE q # <<>>
      <4>1. q[1] \in Nodes
        BY <3>2
      <4> QED BY <3>2, <4>1 DEF n, End, Nodes
    <3> QED BY <3>1, <3>2
  <2> DEFINE x == Size * A
             y == Size * d
             c == IF q = <<>> THEN 0 ELSE q[1].curr
  <2>8. x \in Nat /\ y \in Nat /\ c \in Nat /\ e \in Nat
    BY <1>4, <2>2, <2>7
  <2> HIDE DEF x, y, c
  <2>9. Position(l, wq) = x + y + e /\ y + e = c + n /\ Position(k, q) = x + c
    BY <2>4, <2>5, <2>6, <2>7 DEF x, y, c
  <2> QED BY <1>4, <2>8, <2>9
<1>13. StreamOK(l, wq, w.mem)
  <2>1. l.peer => l.heard + Len(l.out) = Position(l, wq)
    <3>1. l.peer = k.peer /\ l.heard = k.heard
      BY <1>b DEF SameSock
    <3> QED BY <1>0, <1>4, <1>6, <1>7, <1>12, <3>1
  <2> QED BY <1>10, <1>11, <2>1 DEF StreamOK
<1> QED BY <1>b, <1>5, <1>8, <1>9, <1>13 DEF w, l, wq

-----------------------------------------------------------------------------
(* One connection changes.                                                  *)

LEMMA NodePkt ==
  ASSUME NEW q \in Seq(Nodes), NEW j \in DOMAIN q PROVE q[j].pkt \in Pkts
<1>1. q[j] \in Nodes
  OBVIOUS
<1> QED BY <1>1 DEF Nodes

LEMMA NoSockT == NoSock \in SockT /\ NoConn \in ConnT
<1>1. 0 \in Ids /\ 0 \in Nat /\ NULL = 0
  BY BoundsAssumption DEF Ids, NULL
<1>2. <<>> \in Seq(Parts) /\ <<>> \in Seq(Nat) /\ <<>> \in Seq(Nodes)
  OBVIOUS
<1> QED BY <1>1, <1>2 DEF NoSock, SockT, NoConn, ConnT

LEMMA ConnOf ==
  ASSUME NEW cn \in [Conns -> ConnT], NEW c \in Conns
  PROVE  /\ cn[c] \in ConnT /\ cn[c].wq \in Seq(Nodes) /\ cn[c].rbuf \in Nat /\ cn[c].fd \in Ids
         /\ cn[c].fd # NULL => cn[c].fd \in Socks
<1>1. cn[c] \in ConnT
  OBVIOUS
<1>2. cn[c].wq \in Seq(Nodes) /\ cn[c].rbuf \in Nat /\ cn[c].fd \in Ids
  BY <1>1 DEF ConnT
<1> QED BY <1>1, <1>2, BoundsAssumption DEF Ids, Socks, NULL

\* A stream depends on the messages of the packets only.
LEMMA StreamMem ==
  ASSUME NEW k, NEW q \in Seq(Nodes), NEW m, NEW n, StreamOK(k, q, m),
         \A j \in DOMAIN q : n[q[j].pkt].msg = m[q[j].pkt].msg
  PROVE  StreamOK(k, q, n)
BY DEF StreamOK, QueueOK

\* It depends on four fields of the socket.
LEMMA StreamSame ==
  ASSUME NEW k, NEW l, NEW q, NEW m, StreamOK(k, q, m),
         l.sent = k.sent, l.out = k.out, l.heard = k.heard, l.peer = k.peer
  PROVE  StreamOK(l, q, m)
BY ZenonT(60) DEF StreamOK, QueueOK, OutOK, Part, Position

\* The socket s becomes k and its s_conn c becomes d.
LEMMA Change ==
  ASSUME NEW sk, NEW cn, NEW m, NEW h, Body(sk, cn, m, h),
         NEW s \in Socks, NEW c \in Conns, cn[c].fd = s,
         NEW k \in SockT, NEW d \in ConnT, d.fd = s,
         k.used, k.open => sk[s].open /\ k.ptr = sk[s].ptr /\ k.told = 0, ~k.open => k.told > 0,
         k.peer => k.open, ~k.peer => k.out = <<>>, Len(k.out) <= Room,
         NEW n, IsMem(n), \A p \in Pkts : n[p].msg = m[p].msg,
         NEW g \in 0 .. MaxMsg, RefsOK(n, [cn EXCEPT ![c] = d], g),
         ~k.open => d.wq = <<>>,
         k.open => StreamOK(k, d.wq, n) /\ ReadOK(k, d.rbuf)
  PROVE  Body([sk EXCEPT ![s] = k], [cn EXCEPT ![c] = d], n, g)
<1> DEFINE tk == [sk EXCEPT ![s] = k]
           dn == [cn EXCEPT ![c] = d]
<1>1. /\ sk \in [Socks -> SockT] /\ cn \in [Conns -> ConnT]
      /\ LinkOK(sk, cn) /\ StateOK(sk) /\ StreamsOK(sk, cn, m) /\ ReadsOK(sk, cn)
  BY DEF Body
<1>2. /\ tk \in [Socks -> SockT] /\ tk[s] = k /\ \A r \in Socks \ {s} : tk[r] = sk[r]
  BY <1>1
<1>3. /\ dn \in [Conns -> ConnT] /\ dn[c] = d /\ \A b \in Conns \ {c} : dn[b] = cn[b]
  BY <1>1
<1> HIDE DEF tk, dn
<1>4. k.open => k.ptr = c
  BY <1>1 DEF LinkOK, Socks, NULL
<1>5. ASSUME NEW r \in Socks \ {s}, sk[r].open
      PROVE  sk[r].ptr \in Conns \ {c} /\ dn[sk[r].ptr] = cn[sk[r].ptr]
  BY <1>1, <1>3, <1>5 DEF LinkOK
<1>6. LinkOK(tk, dn)
  <2>1. ASSUME NEW r \in Socks, tk[r].open PROVE tk[r].ptr \in Conns /\ dn[tk[r].ptr].fd = r
    <3>1. CASE r = s
      BY <1>2, <1>3, <1>4, <2>1, <3>1
    <3>2. CASE r # s
      BY <1>1, <1>2, <1>5, <2>1, <3>2 DEF LinkOK
    <3> QED BY <3>1, <3>2
  <2>2. ASSUME NEW b \in Conns, dn[b].fd # NULL
        PROVE  tk[dn[b].fd].used /\ (tk[dn[b].fd].open => tk[dn[b].fd].ptr = b)
    <3>1. CASE b = c
      BY <1>2, <1>3, <1>4, <3>1
    <3>2. CASE b # c
      <4>1. dn[b] = cn[b] /\ cn[b].fd \in Socks
        BY <1>1, <1>3, <2>2, <3>2 DEF ConnT, Ids, Socks, NULL
      <4>2. CASE cn[b].fd = s
        BY <1>1, <1>2, <1>4, <2>2, <3>2, <4>1, <4>2 DEF LinkOK
      <4>3. CASE cn[b].fd # s
        BY <1>1, <1>2, <2>2, <4>1, <4>3 DEF LinkOK
      <4> QED BY <4>2, <4>3
    <3> QED BY <3>1, <3>2
  <2>3. ASSUME NEW b \in Conns, dn[b].fd = NULL \/ ~tk[dn[b].fd].open PROVE dn[b].wq = <<>>
    <3>1. CASE b = c
      BY <1>2, <1>3, <2>3, <3>1 DEF Socks, NULL
    <3>2. CASE b # c
      <4>1. dn[b] = cn[b] /\ cn[b].fd \in Ids
        BY <1>1, <1>3, <3>2 DEF ConnT
      <4>2. CASE cn[b].fd = s
        BY <1>1, <3>2, <4>1, <4>2 DEF LinkOK, Socks, NULL
      <4>3. CASE cn[b].fd # s
        BY <1>1, <1>2, <2>3, <4>1, <4>3 DEF LinkOK, Socks, Ids, NULL
      <4> QED BY <4>2, <4>3
    <3> QED BY <3>1, <3>2
  <2> QED BY <2>1, <2>2, <2>3 DEF LinkOK
<1>7. StateOK(tk)
  BY <1>1, <1>2 DEF StateOK
<1>8. ASSUME NEW r \in Socks, tk[r].open
      PROVE  StreamOK(tk[r], dn[tk[r].ptr].wq, n) /\ ReadOK(tk[r], dn[tk[r].ptr].rbuf)
  <2>1. CASE r = s
    BY <1>2, <1>3, <1>4, <1>8, <2>1
  <2>2. CASE r # s
    <3>1. tk[r] = sk[r] /\ sk[r].open /\ dn[sk[r].ptr] = cn[sk[r].ptr] /\ sk[r].ptr \in Conns
      BY <1>2, <1>5, <1>8, <2>2
    <3>2. StreamOK(sk[r], cn[sk[r].ptr].wq, m) /\ ReadOK(sk[r], cn[sk[r].ptr].rbuf)
      BY <1>1, <3>1 DEF StreamsOK, ReadsOK
    <3>3. cn[sk[r].ptr].wq \in Seq(Nodes)
      BY <1>1, <3>1 DEF ConnT
    <3>4. \A j \in DOMAIN cn[sk[r].ptr].wq : cn[sk[r].ptr].wq[j].pkt \in Pkts
      BY <3>3, NodePkt
    <3>5. StreamOK(sk[r], cn[sk[r].ptr].wq, n)
      BY <3>2, <3>3, <3>4, StreamMem
    <3> QED BY <3>1, <3>2, <3>5
  <2> QED BY <2>1, <2>2
<1>9. StreamsOK(tk, dn, n) /\ ReadsOK(tk, dn)
  BY <1>8 DEF StreamsOK, ReadsOK
<1> QED BY <1>2, <1>3, <1>6, <1>7, <1>9 DEF Body, tk, dn

\* What Change asks of the references when one queue is exchanged.
LEMMA RefsChange ==
  ASSUME NEW cn \in [Conns -> ConnT], NEW dn \in [Conns -> ConnT], NEW c \in Conns, NEW m, NEW n, NEW h,
         \A b \in Conns \ {c} : dn[b].wq = cn[b].wq, RefsOK(m, cn, h),
         \A p \in Pkts : n[p].ref = m[p].ref - Refs(cn[c].wq, p) + Refs(dn[c].wq, p)
  PROVE  RefsOK(n, dn, h)
<1>1. ASSUME NEW p \in Pkts PROVE n[p].ref = (IF h = p THEN 1 ELSE 0) + Cardinality(Users(dn, p))
  <2>1. /\ Cardinality(Users(dn, p)) = Cardinality(Users(cn, p)) - Refs(cn[c].wq, p) + Refs(dn[c].wq, p)
        /\ Cardinality(Users(cn, p)) \in Nat /\ Refs(cn[c].wq, p) \in Nat /\ Refs(dn[c].wq, p) \in Nat
    BY UsersChange
  <2>2. m[p].ref = (IF h = p THEN 1 ELSE 0) + Cardinality(Users(cn, p))
    BY DEF RefsOK
  <2> QED BY <2>1, <2>2
<1> QED BY <1>1 DEF RefsOK

\* The state after the close of s_conn c: the queue is dropped.
LEMMA ClosedKeeps ==
  ASSUME NEW sk, NEW cn, NEW m, NEW h, Body(sk, cn, m, h), NEW c \in Conns, cn[c].fd # NULL
  PROVE  Body([sk EXCEPT ![cn[c].fd] = [NoSock EXCEPT !.told = sk[cn[c].fd].told + 1, !.used = TRUE]],
              [cn EXCEPT ![c].wq = <<>>], DropAll(m, cn[c].wq), h)
<1> DEFINE s == cn[c].fd
           k == [NoSock EXCEPT !.told = sk[s].told + 1, !.used = TRUE]
           d == [cn[c] EXCEPT !.wq = <<>>]
           n == DropAll(m, cn[c].wq)
           dn == [cn EXCEPT ![c] = d]
<1>1. /\ sk \in [Socks -> SockT] /\ cn \in [Conns -> ConnT] /\ IsMem(m) /\ h \in 0 .. MaxMsg /\ RefsOK(m, cn, h)
  BY DEF Body
<1>2. s \in Socks /\ cn[c] \in ConnT /\ cn[c].wq \in Seq(Nodes)
  BY <1>1, ConnOf
<1> HIDE DEF s
<1>3. sk[s].told \in Nat
  BY <1>1, <1>2 DEF SockT
<1>4. /\ k \in SockT /\ k.used /\ ~k.open /\ k.told > 0 /\ ~k.peer /\ k.out = <<>>
  <2> DEFINE t == sk[s].told + 1
  <2>1. t \in Nat /\ t > 0
    BY <1>3
  <2> HIDE DEF t
  <2>2. [NoSock EXCEPT !.told = t, !.used = TRUE] \in SockT
    BY <2>1, NoSockT DEF SockT
  <2>3. /\ [NoSock EXCEPT !.told = t, !.used = TRUE].used /\ ~[NoSock EXCEPT !.told = t, !.used = TRUE].open
        /\ ~[NoSock EXCEPT !.told = t, !.used = TRUE].peer /\ [NoSock EXCEPT !.told = t, !.used = TRUE].out = <<>>
        /\ [NoSock EXCEPT !.told = t, !.used = TRUE].told = t
    BY DEF NoSock
  <2> QED BY <2>1, <2>2, <2>3 DEF t
<1>5. d \in ConnT /\ d.fd = s /\ d.wq = <<>>
  <2>1. <<>> \in Seq(Nodes)
    OBVIOUS
  <2>2. cn[c] \in ConnT /\ s = cn[c].fd
    BY <1>2 DEF s
  <2> QED BY <2>1, <2>2 DEF ConnT
<1>6. [cn EXCEPT ![c].wq = <<>>] = dn
  OBVIOUS
<1>7. /\ IsMem(n) /\ \A p \in Pkts : n[p].msg = m[p].msg /\ n[p].ref = m[p].ref - Refs(cn[c].wq, p)
  BY <1>1, <1>2, DropAllMem
<1>8. dn \in [Conns -> ConnT] /\ dn[c].wq = <<>> /\ \A b \in Conns \ {c} : dn[b].wq = cn[b].wq
  BY <1>1, <1>5
<1> HIDE DEF n, dn
<1>9. RefsOK(n, dn, h)
  <2>1. ASSUME NEW p \in Pkts PROVE n[p].ref = m[p].ref - Refs(cn[c].wq, p) + Refs(dn[c].wq, p)
    <3>1. Refs(dn[c].wq, p) = 0 /\ Refs(cn[c].wq, p) \in Nat /\ m[p].ref \in Int
      BY <1>1, <1>2, <1>8, RefsEmpty, RefsNat DEF IsMem, IsPkt
    <3> QED BY <1>7, <3>1
  <2> QED BY <1>1, <1>8, <2>1, RefsChange
<1>10. Len(k.out) <= Room
  BY <1>4, SizeAssumption
<1> HIDE DEF k, d
<1>11. Body([sk EXCEPT ![s] = k], dn, n, h)
  BY ZenonT(60), <1>1, <1>2, <1>4, <1>5, <1>7, <1>9, <1>10, Change DEF dn, s
<1> QED BY <1>6, <1>11 DEF n, k, s

\* What the invariant says of an s_conn c that was used, its socket and its queue.
LEMMA ConnSock ==
  ASSUME NEW sk, NEW cn, NEW m, NEW h, Body(sk, cn, m, h), NEW c \in Conns, cn[c].fd # NULL
  PROVE  /\ cn[c].fd \in Socks /\ cn[c] \in ConnT /\ cn[c].wq \in Seq(Nodes) /\ cn[c].rbuf \in Nat
         /\ SockOK(sk[cn[c].fd]) /\ sk[cn[c].fd].used
         /\ (sk[cn[c].fd].open => sk[cn[c].fd].ptr = c /\ sk[cn[c].fd].told = 0)
         /\ (~sk[cn[c].fd].open => sk[cn[c].fd].told > 0 /\ cn[c].wq = <<>>)
         /\ (sk[cn[c].fd].peer => sk[cn[c].fd].open)
         /\ StreamOK(sk[cn[c].fd], cn[c].wq, m)
         /\ (sk[cn[c].fd].open => ReadOK(sk[cn[c].fd], cn[c].rbuf))
<1> DEFINE s == cn[c].fd
           k == sk[s]
           q == cn[c].wq
<1>1. /\ sk \in [Socks -> SockT] /\ cn \in [Conns -> ConnT] /\ LinkOK(sk, cn) /\ StateOK(sk)
      /\ StreamsOK(sk, cn, m) /\ ReadsOK(sk, cn)
  BY DEF Body
<1>2. s \in Socks /\ cn[c] \in ConnT /\ q \in Seq(Nodes) /\ cn[c].rbuf \in Nat
  BY <1>1, ConnOf
<1>3. k.used /\ (k.open => k.ptr = c) /\ (~k.open => q = <<>>)
  BY <1>1 DEF LinkOK
<1>4. /\ (k.open => k.told = 0) /\ (~k.open => k.told > 0) /\ (k.peer => k.open) /\ (~k.peer => k.out = <<>>)
      /\ Len(k.out) <= Room /\ k \in SockT
  BY <1>1, <1>2, <1>3 DEF StateOK
<1>5. CASE k.open
  <2>1. StreamOK(k, cn[k.ptr].wq, m) /\ ReadOK(k, cn[k.ptr].rbuf)
    BY <1>1, <1>2, <1>5 DEF StreamsOK, ReadsOK
  <2> QED BY <1>2, <1>3, <1>4, <1>5, <2>1 DEF SockOK
<1>6. CASE ~k.open
  <2>1. q = <<>> /\ k.out = <<>> /\ ~k.peer /\ k.sent \in Seq(Nat)
    BY <1>3, <1>4, <1>6 DEF SockT
  <2>2. StreamOK(k, q, m)
    BY <2>1 DEF StreamOK, QueueOK, OutOK
  <2> QED BY <1>2, <1>3, <1>4, <1>6, <2>2 DEF SockOK
<1> QED BY <1>5, <1>6

\* The state after iwrite_conn on s_conn c.
LEMMA WriteKeeps ==
  ASSUME NEW sk, NEW cn, NEW m, NEW h, Body(sk, cn, m, h), NEW c \in Conns, cn[c].fd # NULL
  PROVE  LET w == Written(sk[cn[c].fd], cn[c].wq, m)
         IN Body([sk EXCEPT ![cn[c].fd] = w.sock], [cn EXCEPT ![c].wq = w.wq], w.mem, h) /\ w.sock.used
<1> DEFINE s == cn[c].fd
           q == cn[c].wq
           w == Written(sk[s], q, m)
           k == w.sock
           d == [cn[c] EXCEPT !.wq = w.wq]
           dn == [cn EXCEPT ![c] = d]
<1>1. /\ sk \in [Socks -> SockT] /\ cn \in [Conns -> ConnT] /\ IsMem(m) /\ h \in 0 .. MaxMsg /\ RefsOK(m, cn, h)
  BY DEF Body
<1>2. /\ s \in Socks /\ cn[c] \in ConnT /\ q \in Seq(Nodes)
      /\ SockOK(sk[s]) /\ sk[s].used /\ (sk[s].open => sk[s].told = 0)
      /\ (~sk[s].open => sk[s].told > 0 /\ q = <<>>) /\ (sk[s].peer => sk[s].open)
      /\ StreamOK(sk[s], q, m) /\ (sk[s].open => ReadOK(sk[s], cn[c].rbuf))
  BY ConnSock
<1>s. s = cn[c].fd /\ q = cn[c].wq
  OBVIOUS
<1> HIDE DEF s, q
<1>3. /\ SockOK(k) /\ SameSock(sk[s], k) /\ w.wq \in Seq(Nodes) /\ IsMem(w.mem) /\ StreamOK(k, w.wq, w.mem)
      /\ \A p \in Pkts : /\ w.mem[p].msg = m[p].msg
                         /\ w.mem[p].ref = m[p].ref - Refs(q, p) + Refs(w.wq, p)
                         /\ Refs(q, p) \in Nat /\ Refs(w.wq, p) \in Nat
  BY <1>1, <1>2, WrittenRight
<1> HIDE DEF w
<1>4. d \in ConnT /\ d.fd = s /\ d.wq = w.wq /\ d.rbuf = cn[c].rbuf
  BY <1>2, <1>3, <1>s DEF ConnT
<1>5. [cn EXCEPT ![c].wq = w.wq] = dn
  OBVIOUS
<1>6. dn \in [Conns -> ConnT] /\ dn[c].wq = w.wq /\ \A b \in Conns \ {c} : dn[b].wq = cn[b].wq
  BY <1>1, <1>4
<1> HIDE DEF dn, d
<1>7. RefsOK(w.mem, dn, h)
  <2>1. \A p \in Pkts : w.mem[p].ref = m[p].ref - Refs(cn[c].wq, p) + Refs(dn[c].wq, p)
    BY <1>3, <1>6, <1>s
  <2> QED BY <1>1, <1>6, <2>1, RefsChange
<1> HIDE DEF k
<1>8. /\ k \in SockT /\ k.used /\ (k.open => sk[s].open /\ k.ptr = sk[s].ptr /\ k.told = 0)
      /\ (~k.open => k.told > 0) /\ (k.peer => k.open) /\ (~k.peer => k.out = <<>>) /\ Len(k.out) <= Room
  BY <1>2, <1>3 DEF SameSock, SockOK
<1>9. ~k.open => w.wq = <<>>
  <2>1. ASSUME ~k.open PROVE w.wq = <<>>
    <3>1. q = <<>>
      BY <1>2, <1>3, <2>1 DEF SameSock
    <3>2. w.wq = Left(sk[s], q)
      BY ZenonT(60) DEF w, Written, Left, End, Done, Amount, Pending
    <3>3. SubSeq(<<>>, Done(sk[s], <<>>) + 1, Len(<<>>)) = <<>>
      BY <3>1, DivMod, SizeAssumption DEF Done, End
    <3> QED BY <3>1, <3>2, <3>3 DEF Left
  <2> QED BY <2>1
<1>10. k.open => StreamOK(k, d.wq, w.mem) /\ ReadOK(k, d.rbuf)
  BY <1>2, <1>3, <1>4, <1>8 DEF SameSock, ReadOK
<1>11. Body([sk EXCEPT ![s] = k], [cn EXCEPT ![c] = d], w.mem, h)
  <2>1. /\ s \in Socks /\ cn[c].fd = s /\ d \in ConnT /\ d.fd = s /\ (~k.open => d.wq = <<>>)
        /\ RefsOK(w.mem, [cn EXCEPT ![c] = d], h) /\ IsMem(w.mem) /\ \A p \in Pkts : w.mem[p].msg = m[p].msg
        /\ h \in 0 .. MaxMsg
    BY <1>1, <1>2, <1>3, <1>4, <1>7, <1>9, <1>s DEF dn
  <2> QED BY <1>8, <1>10, <2>1, Change
<1> QED BY <1>5, <1>8, <1>11, <1>s DEF k, dn, w

\* A packet more is sent: what is on its way stays what it was.
LEMMA StreamAppend ==
  ASSUME NEW k, SockOK(k), NEW q \in Seq(Nodes), NEW m, StreamOK(k, q, m), NEW x \in Nat, NEW node \in Nodes,
         node.req = Len(k.sent) + 1, node.curr = 0, m[node.pkt].msg = x
  PROVE  StreamOK([k EXCEPT !.sent = Append(@, x)], Append(q, node), m)
<1> DEFINE l == [k EXCEPT !.sent = Append(@, x)]
           r == Append(q, node)
           L == Len(k.sent)
<1>1. /\ k \in SockT /\ (~k.peer => k.out = <<>>) /\ QueueOK(k, q, m) /\ OutOK(k)
      /\ (k.peer => k.heard + Len(k.out) = Position(k, q))
  BY DEF SockOK, StreamOK
<1>2. k.sent \in Seq(Nat) /\ L \in Nat /\ k.out \in Seq(Parts) /\ Len(k.out) \in Nat /\ k.heard \in Nat
  BY <1>1 DEF SockT
<1>3. l.sent = Append(k.sent, x) /\ l.out = k.out /\ l.heard = k.heard /\ l.peer = k.peer
  BY <1>1 DEF SockT
<1>4. /\ Len(l.sent) = L + 1 /\ l.sent[L + 1] = x /\ \A j \in 1 .. L : l.sent[j] = k.sent[j]
  BY <1>2, <1>3
<1>5. /\ r \in Seq(Nodes) /\ Len(r) = Len(q) + 1 /\ DOMAIN r = 1 .. (Len(q) + 1) /\ r[Len(q) + 1] = node
      /\ \A j \in 1 .. Len(q) : r[j] = q[j]
  OBVIOUS
<1>6. /\ Len(q) \in Nat /\ Len(q) <= L /\ DOMAIN q = 1 .. Len(q) /\ Size \in Nat \ {0}
  BY <1>1, SizeAssumption DEF QueueOK
<1>7. (q = <<>> => r[1].curr = 0) /\ (q # <<>> => r[1] = q[1] /\ q[1].curr \in Nat /\ q[1].curr < Size)
  <2>1. CASE q = <<>>
    BY <1>5, <2>1
  <2>2. CASE q # <<>>
    <3>1. q[1] \in Nodes /\ 1 \in 1 .. Len(q)
      BY <2>2
    <3> QED BY <1>1, <1>5, <2>2, <3>1 DEF Nodes, QueueOK
  <2> QED BY <2>1, <2>2
<1> HIDE DEF l, r
<1>8. QueueOK(l, r, m)
  <2>1. ASSUME NEW j \in DOMAIN r
        PROVE  /\ r[j].req = Len(l.sent) - Len(r) + j
               /\ m[r[j].pkt].msg = l.sent[Len(l.sent) - Len(r) + j]
    <3>1. Len(l.sent) - Len(r) + j = L - Len(q) + j
      BY <1>2, <1>4, <1>5, <1>6
    <3>2. CASE j = Len(q) + 1
      <4>1. L - Len(q) + j = L + 1 /\ r[j] = node
        <5>1. r[j] = node
          BY <1>5, <3>2
        <5> DEFINE n == Len(q)
        <5>2. n \in Nat /\ j = n + 1 /\ L \in Nat
          BY <1>2, <1>6, <3>2
        <5> HIDE DEF n, L
        <5>3. L - n + j = L + 1
          BY <5>2
        <5> QED BY <5>1, <5>3 DEF n, L
      <4> QED BY <1>4, <3>1, <4>1
    <3>3. CASE j # Len(q) + 1
      <4>1. j \in DOMAIN q /\ r[j] = q[j] /\ L - Len(q) + j \in 1 .. L
        <5> HIDE DEF L
        <5> QED BY <1>2, <1>5, <1>6, <3>3
      <4>2. q[j].req = L - Len(q) + j /\ m[q[j].pkt].msg = k.sent[L - Len(q) + j]
        BY <1>1, <4>1 DEF QueueOK
      <4> QED BY <1>4, <3>1, <4>1, <4>2
    <3> QED BY <3>2, <3>3
  <2>2. Len(r) <= Len(l.sent) /\ (r # <<>> => r[1].curr < Size)
    BY <1>2, <1>4, <1>5, <1>6, <1>7
  <2> QED BY <2>1, <2>2 DEF QueueOK
<1>9. Position(l, r) = Position(k, q) /\ Position(k, q) <= Size * L
  <2> DEFINE a == L - Len(q)
             b == IF q = <<>> THEN 0 ELSE q[1].curr
  <2>1. Len(l.sent) - Len(r) = a /\ r # <<>> /\ r[1].curr = b /\ a \in Nat /\ b \in Nat
    BY <1>2, <1>4, <1>5, <1>6, <1>7
  <2>2. Position(l, r) = Size * a + b /\ Position(k, q) = Size * a + b
    BY <2>1 DEF Position
  <2>3. Size * a + b <= Size * L
    <3>1. CASE q = <<>>
      BY <1>2, <1>6, <3>1
    <3>2. CASE q # <<>>
      <4>1. PICK t \in Nat : L = a + 1 + t
        <5>1. Len(q) - 1 \in Nat /\ L = a + 1 + (Len(q) - 1)
          BY <1>2, <1>6, <3>2
        <5> QED BY <5>1
      <4> HIDE DEF a, L
      <4>2. Size * L = Size * a + Size + Size * t /\ Size * t \in Nat /\ Size * a \in Nat
        BY <1>6, <2>1, <4>1
      <4>3. b \in Nat /\ b < Size
        BY <1>7, <3>2
      <4> HIDE DEF b
      <4> QED BY <1>6, <4>2, <4>3
    <3> QED BY <3>1, <3>2
  <2> QED BY <2>2, <2>3
<1>10. OutOK(l)
  <2>1. ASSUME NEW i \in DOMAIN l.out PROVE l.out[i] = Part(l, l.heard + i)
    <3>1. i \in 1 .. Len(k.out) /\ i \in DOMAIN k.out /\ k.peer /\ i \in Nat
      BY <1>1, <1>2, <1>3
    <3> DEFINE b == (k.heard + i) - 1
               y == b \div Size
    <3>2. b \in Nat /\ b < Size * L
      <4>1. k.heard + Len(k.out) <= Size * L
        BY <1>1, <1>9, <3>1
      <4>2. Size * L \in Nat
        BY <1>2, <1>6
      <4> QED BY SMTT(60), <1>2, <3>1, <4>1, <4>2
    <3>3. y \in Nat /\ y < L
      BY <1>2, <1>6, <3>2, DivMod, DivBound
    <3>4. l.sent[y + 1] = k.sent[y + 1]
      <4> HIDE DEF y
      <4>1. y + 1 \in 1 .. L
        BY ONLY <1>2, <3>3
      <4> QED BY <1>4, <4>1
    <3>5. Part(l, k.heard + i) = Part(k, k.heard + i)
      BY <3>4 DEF Part
    <3> QED BY <1>1, <1>3, <3>1, <3>5 DEF OutOK
  <2> QED BY <2>1 DEF OutOK
<1> QED BY <1>1, <1>3, <1>8, <1>9, <1>10 DEF StreamOK, l, r

LEMMA PktEdit ==
  ASSUME NEW r, IsPkt(r), NEW v
  PROVE  /\ IsPkt([r EXCEPT !.req = v, !.ref = @ + 1]) /\ [r EXCEPT !.req = v, !.ref = @ + 1].msg = r.msg
         /\ [r EXCEPT !.req = v, !.ref = @ + 1].ref = r.ref + 1
<1> DEFINE R(a, b, f) == [msg |-> a, req |-> b, ref |-> f]
<1>1. \A a, b, f : [R(a, b, f) EXCEPT !.req = v] = R(a, v, f)
  OBVIOUS
<1>a. \A a, b, f, g : [R(a, b, f) EXCEPT !.ref = g] = R(a, b, g)
  OBVIOUS
<1>2. r = R(r.msg, r.req, r.ref) /\ r.msg \in Nat /\ r.ref \in Int
  BY DEF IsPkt
<1>b. [r EXCEPT !.req = v] = R(r.msg, v, r.ref)
  BY <1>1, <1>2
<1>c. R(r.msg, v, r.ref).ref = r.ref
  OBVIOUS
<1>d. [R(r.msg, v, r.ref) EXCEPT !.ref = @ + 1] = R(r.msg, v, r.ref + 1)
  BY <1>a, <1>c
<1>3. [r EXCEPT !.req = v, !.ref = @ + 1] = R(r.msg, v, r.ref + 1)
  BY <1>b, <1>d
<1>4. ASSUME NEW t, t = R(r.msg, v, r.ref + 1) PROVE t.msg = r.msg /\ t.ref = r.ref + 1 /\ t.req = v
  BY <1>4
<1> HIDE DEF R
<1>5. ASSUME NEW t, t = R(r.msg, v, r.ref + 1) PROVE IsPkt(t)
  <2>1. t = R(t.msg, t.req, t.ref) /\ t.msg \in Nat /\ t.ref \in Int
    BY <1>2, <1>4, <1>5
  <2> QED BY <2>1 DEF IsPkt, R
<1> QED BY <1>3, <1>4, <1>5

\* s_net_send up to iwrite_conn: the packet is grabbed and queued.
LEMMA SendStart ==
  ASSUME NEW sk, NEW cn, NEW m, NEW h, Body(sk, cn, m, h), NEW c \in Conns, cn[c].fd # NULL,
         sk[cn[c].fd].open, h # NULL
  PROVE  LET s == cn[c].fd
             req == Len(sk[s].sent) + 1
         IN Body([sk EXCEPT ![s].sent = Append(@, m[h].msg)],
                 [cn EXCEPT ![c].wq = Append(cn[c].wq, [pkt |-> h, req |-> req, curr |-> 0])],
                 Grab([m EXCEPT ![h].req = req], h), h)
<1> DEFINE s == cn[c].fd
           q == cn[c].wq
           x == m[h].msg
           req == Len(sk[s].sent) + 1
           node == [pkt |-> h, req |-> req, curr |-> 0]
           k == [sk[s] EXCEPT !.sent = Append(@, x)]
           d == [cn[c] EXCEPT !.wq = Append(q, node)]
           dn == [cn EXCEPT ![c] = d]
           n == Grab([m EXCEPT ![h].req = req], h)
<1>1. /\ sk \in [Socks -> SockT] /\ cn \in [Conns -> ConnT] /\ IsMem(m) /\ h \in 0 .. MaxMsg /\ RefsOK(m, cn, h)
  BY DEF Body
<1>2. /\ s \in Socks /\ cn[c] \in ConnT /\ q \in Seq(Nodes)
      /\ SockOK(sk[s]) /\ sk[s].used /\ sk[s].told = 0
      /\ StreamOK(sk[s], q, m) /\ ReadOK(sk[s], cn[c].rbuf)
  BY ConnSock
<1>s. s = cn[c].fd /\ q = cn[c].wq /\ sk[s].open
  OBVIOUS
<1> HIDE DEF s, q
<1>3. h \in Pkts /\ IsPkt(m[h]) /\ x \in Nat
  BY <1>1, BoundsAssumption DEF Pkts, NULL, IsMem, IsPkt
<1>4. sk[s] \in SockT /\ sk[s].sent \in Seq(Nat) /\ req \in Nat
  BY <1>2 DEF SockOK, SockT
<1>5. node \in Nodes /\ node.pkt = h /\ node.req = req /\ node.curr = 0
  BY <1>3, <1>4 DEF Nodes
<1>6. /\ IsMem(n)
      /\ \A p \in Pkts : n[p].msg = m[p].msg /\ n[p].ref = m[p].ref + (IF p = h THEN 1 ELSE 0)
  <2>1. n = [p \in Pkts |-> IF p = h THEN [m[h] EXCEPT !.req = req, !.ref = @ + 1] ELSE m[p]]
    BY <1>1, <1>3 DEF IsMem, Grab
  <2>2. /\ IsPkt([m[h] EXCEPT !.req = req, !.ref = @ + 1])
        /\ [m[h] EXCEPT !.req = req, !.ref = @ + 1].msg = m[h].msg
        /\ [m[h] EXCEPT !.req = req, !.ref = @ + 1].ref = m[h].ref + 1
    BY <1>3, PktEdit
  <2> HIDE DEF n, req
  <2>3. ASSUME NEW p \in Pkts
        PROVE  IsPkt(n[p]) /\ n[p].msg = m[p].msg /\ n[p].ref = m[p].ref + (IF p = h THEN 1 ELSE 0)
    <3>1. CASE p = h
      BY <2>1, <2>2, <3>1
    <3>2. CASE p # h
      <4>1. n[p] = m[p] /\ IsPkt(m[p])
        BY <1>1, <2>1, <3>2 DEF IsMem
      <4> QED BY <3>2, <4>1 DEF IsPkt
    <3> QED BY <3>1, <3>2
  <2>4. n = [p \in Pkts |-> n[p]]
    BY <2>1
  <2> QED BY <2>3, <2>4 DEF IsMem
<1> HIDE DEF n, node
<1>7. d \in ConnT /\ d.fd = s /\ d.wq = Append(q, node) /\ d.rbuf = cn[c].rbuf
  <2>1. Append(q, node) \in Seq(Nodes)
    BY <1>2, <1>5
  <2> QED BY <1>2, <1>s, <2>1 DEF ConnT
<1>8. dn \in [Conns -> ConnT] /\ dn[c].wq = Append(q, node) /\ \A b \in Conns \ {c} : dn[b].wq = cn[b].wq
  BY <1>1, <1>7
<1> HIDE DEF d
<1>9. RefsOK(n, dn, h)
  <2>1. ASSUME NEW p \in Pkts PROVE n[p].ref = m[p].ref - Refs(cn[c].wq, p) + Refs(dn[c].wq, p)
    <3>1. Refs(Append(q, node), p) = Refs(q, p) + (IF h = p THEN 1 ELSE 0)
      BY <1>2, <1>5, RefsAppend
    <3>2. Refs(q, p) \in Nat /\ m[p].ref \in Int
      BY <1>1, <1>2, RefsNat DEF IsMem, IsPkt
    <3>3. Refs(dn[c].wq, p) = Refs(q, p) + (IF h = p THEN 1 ELSE 0) /\ Refs(cn[c].wq, p) = Refs(q, p)
      BY <1>8, <1>s, <3>1
    <3>4. n[p].ref = m[p].ref + (IF p = h THEN 1 ELSE 0)
      BY <1>6
    <3> HIDE DEF dn
    <3> QED BY <3>2, <3>3, <3>4
  <2> QED BY <1>1, <1>8, <2>1, RefsChange
<1>10. /\ k \in SockT /\ k.used /\ k.open /\ k.ptr = sk[s].ptr /\ k.told = 0 /\ k.peer = sk[s].peer
       /\ k.out = sk[s].out /\ k.got = sk[s].got /\ k.in = sk[s].in /\ k.peerSent = sk[s].peerSent
  <2>1. Append(sk[s].sent, x) \in Seq(Nat)
    BY <1>3, <1>4
  <2> QED BY <1>2, <1>4, <1>s, <2>1 DEF SockT
<1>11. StreamOK(k, d.wq, n)
  <2>1. StreamOK(sk[s], q, n)
    <3>1. \A j \in DOMAIN q : n[q[j].pkt].msg = m[q[j].pkt].msg
      BY <1>2, <1>6, NodePkt
    <3> QED BY <1>2, <3>1, StreamMem
  <2>2. n[node.pkt].msg = x
    BY <1>3, <1>5, <1>6
  <2>3. StreamOK(k, Append(q, node), n)
    BY <1>2, <1>3, <1>5, <2>1, <2>2, StreamAppend
  <2> QED BY <1>7, <2>3
<1>12. ReadOK(k, d.rbuf)
  BY <1>2, <1>7, <1>10 DEF ReadOK
<1>13. (~k.peer => k.out = <<>>) /\ Len(k.out) <= Room
  BY <1>2, <1>10 DEF SockOK
<1> HIDE DEF k
<1>14. Body([sk EXCEPT ![s] = k], [cn EXCEPT ![c] = d], n, h)
  <2>1. /\ s \in Socks /\ cn[c].fd = s /\ d \in ConnT /\ d.fd = s /\ (~k.open => d.wq = <<>>)
        /\ RefsOK(n, [cn EXCEPT ![c] = d], h) /\ IsMem(n) /\ \A p \in Pkts : n[p].msg = m[p].msg
        /\ h \in 0 .. MaxMsg /\ k \in SockT /\ k.used
        /\ (k.open => sk[s].open /\ k.ptr = sk[s].ptr /\ k.told = 0) /\ (~k.open => k.told > 0)
        /\ (k.peer => k.open) /\ (k.open => StreamOK(k, d.wq, n) /\ ReadOK(k, d.rbuf))
    BY <1>1, <1>2, <1>6, <1>7, <1>9, <1>10, <1>11, <1>12, <1>s
  <2> QED BY <1>13, <2>1, Change
<1>15. [sk EXCEPT ![s].sent = Append(@, m[h].msg)] = [sk EXCEPT ![s] = k]
  BY <1>1, <1>2 DEF k
<1>16. [cn EXCEPT ![c].wq = Append(cn[c].wq, node)] = [cn EXCEPT ![c] = d]
  BY <1>1, <1>s DEF d
<1> QED BY <1>14, <1>15, <1>16 DEF n, node, s

-----------------------------------------------------------------------------
(* The actions.                                                             *)

LEMMA PoolTypes ==
  ASSUME NEW l \in PoolT, NEW c \in Conns
  PROVE  ListDel(l, c) \in PoolT /\ ListInsert(l, c) \in PoolT /\ PutConn(l, c) \in PoolT
<1>1. c \in Ids /\ 0 \in Ids
  BY BoundsAssumption DEF Conns, Ids
<1>2. ASSUME NEW z \in PoolT PROVE ListDel(z, c) \in PoolT /\ ListInsert(z, c) \in PoolT
  BY <1>1, <1>2 DEF PoolT, ListDel, ListInsert
<1> QED BY <1>2 DEF PutConn

\* The event that is handled is of an s_conn that was used.
LEMMA HeadConn ==
  ASSUME Frame, batch # <<>>
  PROVE  Head(batch) \in Events /\ Head(batch).ptr \in Conns /\ conn[Head(batch).ptr].fd # NULL
<1>1. 1 \in DOMAIN batch /\ Head(batch) = batch[1] /\ Head(batch) \in Events
  BY DEF Frame
<1> QED BY <1>1 DEF Frame, Events

\* What an action has to do to the rest of the state.
LEMMA FrameKept ==
  ASSUME Good, pool' \in PoolT, nconn' = nconn, nmsg' \in Nat, drain' \in Ids,
         batch' = batch \/ (batch # <<>> /\ batch' = Tail(batch)),
         \A s \in Socks : sock[s].used => sock'[s].used,
         \A c \in Conns : conn[c].fd # NULL => conn'[c].fd # NULL,
         drain' # NULL => drain' \in Conns /\ conn[drain'].fd # NULL
  PROVE  Frame'
<1>1. nconn \in Nat /\ batch \in Seq(Events) /\ \A i \in DOMAIN batch : conn[batch[i].ptr].fd # NULL
  BY DEF Good, Frame
<1>2. batch' \in Seq(Events) /\ \A i \in DOMAIN batch' : batch'[i].ptr \in Conns /\ conn[batch'[i].ptr].fd # NULL
  <2>1. ASSUME NEW i \in DOMAIN batch PROVE batch[i] \in Events /\ batch[i].ptr \in Conns
    <3>1. batch[i] \in Events
      BY <1>1
    <3> QED BY <3>1 DEF Events
  <2>2. CASE batch' = batch
    BY <1>1, <2>1, <2>2
  <2>3. CASE batch # <<>> /\ batch' = Tail(batch)
    <3>1. batch' \in Seq(Events) /\ \A i \in DOMAIN batch' : i + 1 \in DOMAIN batch /\ batch'[i] = batch[i + 1]
      BY <1>1, <2>3
    <3> QED BY <1>1, <2>1, <3>1
  <2> QED BY <2>2, <2>3
<1>3. \A s \in Socks : ~sock'[s].used => nconn' < s
  BY DEF Good, Frame
<1> QED BY <1>1, <1>2, <1>3 DEF Frame

\* The close of s_conn c.
LEMMA ClosedStep ==
  ASSUME Good, NEW c \in Conns, conn[c].fd # NULL, Closed(c, mem, conn[c].wq, sock),
         nconn' = nconn, pkt' = pkt, nmsg' = nmsg, drain' = drain, batch' = batch \/ (batch # <<>> /\ batch' = Tail(batch))
  PROVE  Good'
<1>1. Body(sock, conn, mem, pkt) /\ pool \in PoolT /\ nmsg \in Nat /\ drain \in Ids
      /\ (drain # NULL => conn[drain].fd # NULL)
  BY DEF Good, Frame
<1>2. Body(sock', conn', mem', pkt')
  BY <1>1, ClosedKeeps DEF Closed
<1>3. pool' \in PoolT
  BY <1>1, PoolTypes DEF Closed
<1>4. sock \in [Socks -> SockT] /\ conn \in [Conns -> ConnT]
  BY <1>1 DEF Body
<1>5. \A s \in Socks : sock[s].used => sock'[s].used
  BY <1>4 DEF Closed, NoSock
<1>6. \A b \in Conns : conn[b].fd # NULL => conn'[b].fd # NULL
  <2>1. conn[c] \in ConnT
    BY <1>4
  <2> QED BY <1>4, <2>1 DEF Closed, ConnT
<1>7. drain' # NULL => drain' \in Conns /\ conn[drain'].fd # NULL
  BY <1>1, BoundsAssumption DEF Ids, Conns, NULL
<1>8. Frame'
  BY <1>1, <1>3, <1>5, <1>6, <1>7, FrameKept
<1> QED BY <1>2, <1>8 DEF Good

LEMMA CloseKeeps ==
  ASSUME Good, NEW c \in Conns, Close(c) PROVE Good'
<1>1. /\ conn[c].fd # NULL /\ Closed(c, mem, conn[c].wq, sock)
      /\ nconn' = nconn /\ pkt' = pkt /\ nmsg' = nmsg /\ drain' = drain /\ batch' = batch
  BY DEF Close, Held
<1> QED BY <1>1, ClosedStep

\* iwrite_conn on s_conn c, from a state in the middle of a call.
LEMMA WriteStep ==
  ASSUME Good, NEW c \in Conns, conn[c].fd # NULL,
         NEW m, NEW q, NEW sk, Body(sk, [conn EXCEPT ![c].wq = q], m, pkt),
         \A s \in Socks : sk[s].used = sock[s].used,
         Write(c, m, q, sk), nconn' = nconn, pkt' = pkt, nmsg' = nmsg, drain' = drain,
         batch' = batch \/ (batch # <<>> /\ batch' = Tail(batch))
  PROVE  Good'
<1> DEFINE cn == [conn EXCEPT ![c].wq = q]
           s == conn[c].fd
<1>1. /\ Body(sock, conn, mem, pkt) /\ pool \in PoolT /\ nmsg \in Nat /\ drain \in Ids
      /\ (drain # NULL => conn[drain].fd # NULL)
  BY DEF Good, Frame
<1>2. sock \in [Socks -> SockT] /\ conn \in [Conns -> ConnT] /\ sk \in [Socks -> SockT]
  BY <1>1 DEF Body
<1>3. conn[c] \in ConnT /\ s \in Socks
  BY <1>2, ConnOf
<1>4. /\ cn[c].fd = s /\ cn[c].wq = q /\ \A r : [cn EXCEPT ![c].wq = r] = [conn EXCEPT ![c].wq = r]
  BY <1>2, <1>3 DEF ConnT
<1> HIDE DEF cn
<1>b. Body(sk, cn, m, pkt) /\ cn[c].fd # NULL
  BY <1>4 DEF cn
<1>5. /\ Body(sock', conn', mem', pkt') /\ pool' \in PoolT
      /\ \A r \in Socks : sk[r].used => sock'[r].used
      /\ \E r : conn' = [conn EXCEPT ![c].wq = r]
  <2>1. CASE WriteFails(s, q)
    <3>1. Closed(c, m, q, sk)
      BY <2>1 DEF Write
    <3>2. Body(sock', conn', mem', pkt')
      BY <1>b, <1>4, <3>1, ClosedKeeps DEF Closed
    <3>3. pool' \in PoolT
      BY <1>1, <3>1, PoolTypes DEF Closed
    <3>4. \A r \in Socks : sk[r].used => sock'[r].used
      BY <1>2, <3>1 DEF Closed, NoSock
    <3> QED BY <3>1, <3>2, <3>3, <3>4 DEF Closed
  <2>2. CASE ~WriteFails(s, q)
    <3> DEFINE w == Written(sk[s], q, m)
    <3>1. /\ sock' = [sk EXCEPT ![s] = w.sock] /\ conn' = [conn EXCEPT ![c].wq = w.wq]
          /\ mem' = w.mem /\ pool' = pool
      BY <2>2 DEF Write
    <3>2. Body([sk EXCEPT ![s] = w.sock], [cn EXCEPT ![c].wq = w.wq], w.mem, pkt) /\ w.sock.used
      BY <1>b, <1>4, WriteKeeps
    <3> HIDE DEF w
    <3>3. Body(sock', conn', mem', pkt')
      BY <1>4, <3>1, <3>2
    <3>4. \A r \in Socks : sk[r].used => sock'[r].used
      BY <1>2, <3>1, <3>2
    <3> QED BY <1>1, <3>1, <3>3, <3>4
  <2> QED BY <2>1, <2>2
<1>6. \A b \in Conns : conn[b].fd # NULL => conn'[b].fd # NULL
  <2>1. PICK r : conn' = [conn EXCEPT ![c].wq = r]
    BY <1>5
  <2> QED BY <1>2, <1>3, <2>1 DEF ConnT
<1>7. drain' # NULL => drain' \in Conns /\ conn[drain'].fd # NULL
  BY <1>1, BoundsAssumption DEF Ids, Conns, NULL
<1>8. Frame'
  BY <1>1, <1>5, <1>6, <1>7, FrameKept
<1> QED BY <1>5, <1>8 DEF Good

LEMMA SendKeeps ==
  ASSUME Good, NEW c \in Conns, Send(c) PROVE Good'
<1> DEFINE s == conn[c].fd
           req == Len(sock[s].sent) + 1
           m == Grab([mem EXCEPT ![pkt].req = req], pkt)
           q == Append(conn[c].wq, [pkt |-> pkt, req |-> req, curr |-> 0])
           sk == [sock EXCEPT ![s].sent = Append(@, mem[pkt].msg)]
<1>1. /\ c \in Held /\ pkt # NULL /\ Write(c, m, q, sk)
      /\ nconn' = nconn /\ pkt' = pkt /\ nmsg' = nmsg /\ drain' = drain /\ batch' = batch
  BY DEF Send
<1>2. Body(sock, conn, mem, pkt) /\ conn[c].fd # NULL /\ sock[s].told = 0
  BY <1>1 DEF Good, Held
<1>3. sock[s].open /\ s \in Socks /\ sock \in [Socks -> SockT]
  <2>1. ~sock[s].open => sock[s].told > 0
    BY <1>2, ConnSock
  <2>2. s \in Socks
    BY SMTT(60), <1>2, ConnSock
  <2> QED BY <1>2, <2>1, <2>2 DEF Body
<1>4. Body(sk, [conn EXCEPT ![c].wq = q], m, pkt)
  BY <1>1, <1>2, <1>3, SendStart
<1>5. \A r \in Socks : sk[r].used = sock[r].used
  <2>1. sock[s] \in SockT
    BY <1>3
  <2> QED BY <1>3, <2>1 DEF SockT
<1> HIDE DEF sk, m, q
<1> QED BY <1>1, <1>2, <1>4, <1>5, WriteStep

LEMMA EventOutKeeps ==
  ASSUME Good, EventOut PROVE Good'
<1> DEFINE c == Head(batch).ptr
<1>1. /\ batch # <<>> /\ Write(c, mem, conn[c].wq, sock) /\ batch' = Tail(batch)
      /\ nconn' = nconn /\ pkt' = pkt /\ nmsg' = nmsg /\ drain' = drain
  BY DEF EventOut
<1>2. c \in Conns /\ conn[c].fd # NULL
  BY <1>1, HeadConn DEF Good, Frame
<1>3. [conn EXCEPT ![c].wq = conn[c].wq] = conn
  BY <1>2 DEF Good, Body, ConnT
<1>4. Body(sock, [conn EXCEPT ![c].wq = conn[c].wq], mem, pkt)
  BY <1>3 DEF Good
<1> HIDE DEF c
<1> QED BY <1>1, <1>2, <1>4, WriteStep

\* Only the socket s changes, and it stays open.
LEMMA SockStep ==
  ASSUME Good, NEW s \in Socks, sock[s].open, NEW k \in SockT, sock' = [sock EXCEPT ![s] = k],
         k.used, k.open, k.ptr = sock[s].ptr, k.told = sock[s].told,
         ~k.peer => k.out = <<>>, Len(k.out) <= Room,
         StreamOK(k, conn[sock[s].ptr].wq, mem), ReadOK(k, conn[sock[s].ptr].rbuf),
         conn' = conn, pool' = pool, nconn' = nconn, mem' = mem, pkt' = pkt, nmsg' = nmsg,
         batch' = batch, drain' = drain
  PROVE  Good'
<1> DEFINE c == sock[s].ptr
<1>1. /\ Body(sock, conn, mem, pkt) /\ pool \in PoolT /\ nmsg \in Nat /\ drain \in Ids
      /\ (drain # NULL => conn[drain].fd # NULL)
  BY DEF Good, Frame
<1>2. /\ sock \in [Socks -> SockT] /\ conn \in [Conns -> ConnT] /\ IsMem(mem) /\ pkt \in 0 .. MaxMsg
      /\ RefsOK(mem, conn, pkt) /\ c \in Conns /\ conn[c].fd = s /\ sock[s].told = 0
  BY <1>1 DEF Body, LinkOK, StateOK
<1>3. conn[c] \in ConnT /\ [conn EXCEPT ![c] = conn[c]] = conn
  BY <1>2
<1> HIDE DEF c
<1>4. Body([sock EXCEPT ![s] = k], [conn EXCEPT ![c] = conn[c]], mem, pkt)
  <2>1. RefsOK(mem, [conn EXCEPT ![c] = conn[c]], pkt)
    BY <1>2, <1>3
  <2>2. k.told = 0 /\ StreamOK(k, conn[c].wq, mem) /\ ReadOK(k, conn[c].rbuf)
    BY <1>2 DEF c
  <2> QED BY <1>1, <1>2, <1>3, <2>1, <2>2, Change
<1>5. Body(sock', conn', mem', pkt')
  BY <1>3, <1>4
<1>6. \A r \in Socks : sock[r].used => sock'[r].used
  BY <1>2
<1>7. drain' # NULL => drain' \in Conns /\ conn[drain'].fd # NULL
  BY <1>1, BoundsAssumption DEF Ids, Conns, NULL
<1>8. Frame'
  BY <1>1, <1>6, <1>7, FrameKept
<1> QED BY <1>5, <1>8 DEF Good

\* What is known of an open socket.
LEMMA OpenSock ==
  ASSUME Good, NEW s \in Socks, sock[s].open
  PROVE  /\ sock[s] \in SockT /\ sock[s].ptr \in Conns /\ conn[sock[s].ptr].fd = s /\ s # NULL
         /\ SockOK(sock[s]) /\ sock[s].used /\ sock[s].told = 0
         /\ StreamOK(sock[s], conn[sock[s].ptr].wq, mem) /\ ReadOK(sock[s], conn[sock[s].ptr].rbuf)
         /\ conn[sock[s].ptr].wq \in Seq(Nodes) /\ conn[sock[s].ptr].rbuf \in Nat
<1> DEFINE c == sock[s].ptr
<1>1. Body(sock, conn, mem, pkt) /\ sock \in [Socks -> SockT] /\ LinkOK(sock, conn)
  BY DEF Good, Body
<1>2. c \in Conns /\ conn[c].fd = s /\ s # NULL
  BY <1>1, BoundsAssumption DEF LinkOK, Socks, NULL
<1> HIDE DEF c
<1>3. /\ SockOK(sock[s]) /\ sock[s].used /\ sock[s].told = 0 /\ StreamOK(sock[s], conn[c].wq, mem)
      /\ ReadOK(sock[s], conn[c].rbuf) /\ conn[c].wq \in Seq(Nodes) /\ conn[c].rbuf \in Nat
  BY <1>1, <1>2, ConnSock
<1> QED BY <1>1, <1>2, <1>3 DEF c

LEMMA PeerReadKeeps ==
  ASSUME Good, NEW s \in Socks, PeerRead(s) PROVE Good'
<1> DEFINE o == sock[s]
           k == [o EXCEPT !.heard = @ + 1, !.out = Tail(@), !.outEdge = @ \/ sock[s].nospace, !.nospace = FALSE]
           q == conn[o.ptr].wq
<1>1. /\ o.open /\ o.peer /\ o.out # <<>> /\ sock' = [sock EXCEPT ![s] = k]
      /\ conn' = conn /\ pool' = pool /\ nconn' = nconn /\ mem' = mem /\ pkt' = pkt /\ nmsg' = nmsg
      /\ batch' = batch /\ drain' = drain
  BY DEF PeerRead
<1>2. /\ o \in SockT /\ SockOK(o) /\ o.used /\ StreamOK(o, q, mem) /\ ReadOK(o, conn[o.ptr].rbuf)
  BY <1>1, OpenSock
<1>3. o.out \in Seq(Parts) /\ o.heard \in Nat /\ o.outEdge \in BOOLEAN /\ o.nospace \in BOOLEAN
  BY <1>2 DEF SockT
<1>4. /\ Tail(o.out) \in Seq(Parts) /\ Len(Tail(o.out)) = Len(o.out) - 1 /\ Len(o.out) \in Nat
      /\ \A i \in 1 .. Len(o.out) - 1 : Tail(o.out)[i] = o.out[i + 1]
  BY <1>1, <1>3
<1>5. /\ k \in SockT /\ k.open /\ k.used /\ k.ptr = o.ptr /\ k.told = o.told /\ k.peer /\ k.sent = o.sent
      /\ k.out = Tail(o.out) /\ k.heard = o.heard + 1 /\ k.got = o.got /\ k.in = o.in /\ k.peerSent = o.peerSent
  <2> DEFINE x == o.heard + 1
             y == Tail(o.out)
             z == o.outEdge \/ sock[s].nospace
  <2>1. x \in Nat /\ y \in Seq(Parts) /\ z \in BOOLEAN
    BY <1>3, <1>4
  <2>2. k = [o EXCEPT !.heard = x, !.out = y, !.outEdge = z, !.nospace = FALSE]
    BY <1>2 DEF SockT
  <2> HIDE DEF x, y, z, o, k
  <2> QED BY <1>1, <1>2, <2>1, <2>2 DEF SockT, x, y
<1> HIDE DEF k, o, q
<1>6. Len(k.out) <= Room
  BY <1>2, <1>4, <1>5, SizeAssumption DEF SockOK
<1>7. OutOK(k)
  <2>1. ASSUME NEW i \in DOMAIN k.out PROVE k.out[i] = Part(k, k.heard + i)
    <3>1. i \in 1 .. Len(o.out) - 1 /\ i + 1 \in DOMAIN o.out /\ k.out[i] = o.out[i + 1]
      BY <1>3, <1>4, <1>5
    <3>2. o.out[i + 1] = Part(o, o.heard + (i + 1))
      BY <1>2, <3>1 DEF StreamOK, OutOK
    <3>3. o.heard + (i + 1) = k.heard + i
      BY <1>3, <1>5, <3>1
    <3>4. Part(k, k.heard + i) = Part(o, k.heard + i)
      BY <1>5 DEF Part
    <3> QED BY <3>1, <3>2, <3>3, <3>4
  <2> QED BY <2>1 DEF OutOK
<1>8. StreamOK(k, q, mem)
  <2>1. QueueOK(k, q, mem) /\ Position(k, q) = Position(o, q)
    BY <1>2, <1>5 DEF StreamOK, QueueOK, Position
  <2>2. o.heard + Len(o.out) = Position(o, q)
    BY <1>1, <1>2 DEF StreamOK
  <2>3. k.heard + Len(k.out) = Position(k, q)
    BY <1>3, <1>4, <1>5, <2>1, <2>2
  <2> QED BY <1>7, <2>1, <2>3 DEF StreamOK
<1>9. ReadOK(k, conn[o.ptr].rbuf)
  BY <1>2, <1>5 DEF ReadOK
<1> QED BY <1>1, <1>5, <1>6, <1>8, <1>9, SockStep DEF o, q

LEMMA PeerSendKeeps ==
  ASSUME Good, NEW s \in Socks, PeerSend(s) PROVE Good'
<1> DEFINE o == sock[s]
           k == [o EXCEPT !.in = @ + 1, !.peerSent = @ + 1, !.inEdge = TRUE]
           q == conn[o.ptr].wq
<1>1. /\ o.open /\ o.peer /\ sock' = [sock EXCEPT ![s] = k]
      /\ conn' = conn /\ pool' = pool /\ nconn' = nconn /\ mem' = mem /\ pkt' = pkt /\ nmsg' = nmsg
      /\ batch' = batch /\ drain' = drain
  BY DEF PeerSend
<1>2. /\ o \in SockT /\ SockOK(o) /\ o.used /\ StreamOK(o, q, mem) /\ ReadOK(o, conn[o.ptr].rbuf)
      /\ conn[o.ptr].rbuf \in Nat
  BY <1>1, OpenSock
<1>3. o.in \in Nat /\ o.peerSent \in Nat /\ o.got \in Nat
  BY <1>2 DEF SockT
<1>5. /\ k \in SockT /\ k.open /\ k.used /\ k.ptr = o.ptr /\ k.told = o.told /\ k.peer = o.peer /\ k.sent = o.sent
      /\ k.out = o.out /\ k.heard = o.heard /\ k.got = o.got /\ k.in = o.in + 1 /\ k.peerSent = o.peerSent + 1
  <2> DEFINE x == o.in + 1
             y == o.peerSent + 1
  <2>1. x \in Nat /\ y \in Nat
    BY <1>3
  <2>2. k = [o EXCEPT !.in = x, !.peerSent = y, !.inEdge = TRUE]
    BY <1>2 DEF SockT
  <2> HIDE DEF x, y, o, k
  <2> QED BY <1>1, <1>2, <2>1, <2>2 DEF SockT, x, y
<1> HIDE DEF k, o, q
<1>6. (~k.peer => k.out = <<>>) /\ Len(k.out) <= Room
  BY <1>2, <1>5 DEF SockOK
<1>8. StreamOK(k, q, mem)
  BY <1>2, <1>5 DEF StreamOK, QueueOK, OutOK, Part, Position
<1>9. ReadOK(k, conn[o.ptr].rbuf)
  <2> DEFINE a == o.got * Size
             b == conn[o.ptr].rbuf
  <2>1. a \in Nat
    BY <1>3, SizeAssumption
  <2> HIDE DEF a, b
  <2>2. a + b + o.in = o.peerSent /\ b \in Nat
    BY <1>2 DEF ReadOK, a, b
  <2>3. a + b + (o.in + 1) = o.peerSent + 1
    BY <1>3, <2>1, <2>2
  <2> QED BY <1>5, <2>3 DEF ReadOK, a, b
<1> QED BY <1>1, <1>5, <1>6, <1>8, <1>9, SockStep DEF o, q

LEMMA PeerCloseKeeps ==
  ASSUME Good, NEW s \in Socks, PeerClose(s) PROVE Good'
<1> DEFINE o == sock[s]
           k == [o EXCEPT !.peer = FALSE, !.inEdge = TRUE, !.out = <<>>, !.nospace = FALSE,
                          !.reset = sock[s].out # <<>>]
           q == conn[o.ptr].wq
<1>1. /\ o.open /\ o.peer /\ sock' = [sock EXCEPT ![s] = k]
      /\ conn' = conn /\ pool' = pool /\ nconn' = nconn /\ mem' = mem /\ pkt' = pkt /\ nmsg' = nmsg
      /\ batch' = batch /\ drain' = drain
  BY DEF PeerClose
<1>2. /\ o \in SockT /\ SockOK(o) /\ o.used /\ StreamOK(o, q, mem) /\ ReadOK(o, conn[o.ptr].rbuf)
  BY <1>1, OpenSock
<1>5. /\ k \in SockT /\ k.open /\ k.used /\ k.ptr = o.ptr /\ k.told = o.told /\ ~k.peer /\ k.sent = o.sent
      /\ k.out = <<>> /\ k.heard = o.heard /\ k.got = o.got /\ k.in = o.in /\ k.peerSent = o.peerSent
  <2> DEFINE z == sock[s].out # <<>>
  <2>1. z \in BOOLEAN /\ <<>> \in Seq(Parts)
    OBVIOUS
  <2>2. k = [o EXCEPT !.peer = FALSE, !.inEdge = TRUE, !.out = <<>>, !.nospace = FALSE, !.reset = z]
    OBVIOUS
  <2> HIDE DEF z, o, k
  <2> QED BY <1>1, <1>2, <2>1, <2>2 DEF SockT
<1> HIDE DEF k, o, q
<1>6. Len(k.out) <= Room
  BY <1>5, SizeAssumption
<1>8. StreamOK(k, q, mem)
  BY <1>2, <1>5 DEF StreamOK, QueueOK, OutOK
<1>9. ReadOK(k, conn[o.ptr].rbuf)
  BY <1>2, <1>5 DEF ReadOK
<1> QED BY <1>1, <1>5, <1>6, <1>8, <1>9, SockStep DEF o, q

\* Only the packets change.
LEMMA MemStep ==
  ASSUME Good, UNCHANGED <<sock, conn, pool, nconn, batch, drain>>, nmsg' \in Nat,
         IsMem(mem'), pkt' \in 0 .. MaxMsg, RefsOK(mem', conn, pkt'),
         \A c \in Conns : \A j \in DOMAIN conn[c].wq :
           mem'[conn[c].wq[j].pkt].msg = mem[conn[c].wq[j].pkt].msg
  PROVE  Good'
<1>1. /\ Body(sock, conn, mem, pkt) /\ pool \in PoolT /\ nmsg \in Nat /\ drain \in Ids
      /\ (drain # NULL => conn[drain].fd # NULL)
  BY DEF Good, Frame
<1>2. /\ sock' = sock /\ conn' = conn /\ pool' = pool /\ nconn' = nconn /\ batch' = batch /\ drain' = drain
  OBVIOUS
<1>3. StreamsOK(sock, conn, mem')
  <2>1. ASSUME NEW s \in Socks, sock[s].open PROVE StreamOK(sock[s], conn[sock[s].ptr].wq, mem')
    <3>1. /\ sock[s].ptr \in Conns /\ StreamOK(sock[s], conn[sock[s].ptr].wq, mem)
          /\ conn[sock[s].ptr].wq \in Seq(Nodes)
      BY <2>1, OpenSock
    <3> QED BY <3>1, StreamMem
  <2> QED BY <2>1 DEF StreamsOK
<1>4. Body(sock', conn', mem', pkt')
  BY <1>1, <1>2, <1>3 DEF Body
<1>5. drain' # NULL => drain' \in Conns /\ conn[drain'].fd # NULL
  BY <1>1, <1>2, BoundsAssumption DEF Ids, Conns, NULL
<1>6. Frame'
  BY <1>1, <1>2, <1>5, FrameKept
<1> QED BY <1>4, <1>6 DEF Good

LEMMA CreateKeeps ==
  ASSUME Good, Create PROVE Good'
<1>1. PICK p \in Pkts : /\ mem[p].ref = 0 /\ pkt' = p
                        /\ mem' = [mem EXCEPT ![p] = [msg |-> nmsg + 1, req |-> 0, ref |-> 1]]
  BY DEF Create
<1>2. pkt = NULL /\ nmsg' = nmsg + 1 /\ UNCHANGED <<sock, conn, pool, nconn, batch, drain>>
  BY DEF Create
<1>3. /\ conn \in [Conns -> ConnT] /\ IsMem(mem) /\ RefsOK(mem, conn, pkt) /\ nmsg \in Nat
  BY DEF Good, Frame, Body
<1>4. nmsg' \in Nat /\ pkt' \in 0 .. MaxMsg
  BY <1>1, <1>2, <1>3, BoundsAssumption DEF Pkts
<1>5. /\ mem'[p] = [msg |-> nmsg + 1, req |-> 0, ref |-> 1] /\ mem' = [r \in Pkts |-> mem'[r]]
      /\ \A r \in Pkts \ {p} : mem'[r] = mem[r]
  BY <1>1, <1>3 DEF IsMem
<1>6. IsMem(mem')
  <2>1. IsPkt(mem'[p])
    BY <1>3, <1>5 DEF IsPkt
  <2> QED BY <1>3, <1>5, <2>1 DEF IsMem
<1>7. \A r \in Pkts : r # NULL /\ mem[r].ref = 0 + Cardinality(Users(conn, r))
  BY <1>2, <1>3 DEF RefsOK, Pkts, NULL
<1>8. \A r \in Pkts : Cardinality(Users(conn, r)) \in Nat
  <2>1. \A r : Users(conn, r) = UsersOf(conn, r, Conns)
    BY DEF Users, UsersOf, Places
  <2> QED BY <1>3, <2>1, UsersFinite
<1>9. Cardinality(Users(conn, p)) = 0
  BY <1>1, <1>7, <1>8
<1>10. RefsOK(mem', conn, pkt')
  <2>1. ASSUME NEW r \in Pkts PROVE mem'[r].ref = (IF pkt' = r THEN 1 ELSE 0) + Cardinality(Users(conn, r))
    <3>1. CASE r = p
      <4>1. mem'[p].ref = 1
        BY <1>5
      <4> QED BY <1>1, <1>9, <3>1, <4>1
    <3>2. CASE r # p
      BY <1>1, <1>5, <1>7, <3>2
    <3> QED BY <3>1, <3>2
  <2> QED BY <2>1 DEF RefsOK
<1>11. ASSUME NEW c \in Conns, NEW j \in DOMAIN conn[c].wq
       PROVE  mem'[conn[c].wq[j].pkt].msg = mem[conn[c].wq[j].pkt].msg
  <2>1. Cardinality(Users(conn, conn[c].wq[j].pkt)) > 0
    BY <1>3, UsersSome
  <2>2. conn[c].wq[j].pkt \in Pkts \ {p}
    <3>1. conn[c].wq \in Seq(Nodes)
      BY <1>3, ConnOf
    <3>2. conn[c].wq[j].pkt \in Pkts
      BY <3>1, NodePkt
    <3> QED BY <1>9, <2>1, <3>2
  <2> QED BY <1>5, <2>2
<1> QED BY <1>2, <1>4, <1>6, <1>10, <1>11, MemStep

LEMMA DropKeeps ==
  ASSUME Good, Drop PROVE Good'
<1>1. /\ pkt # NULL /\ mem' = [mem EXCEPT ![pkt].ref = @ - 1] /\ pkt' = NULL /\ nmsg' = nmsg
      /\ UNCHANGED <<sock, conn, pool, nconn, batch, drain>>
  BY DEF Drop
<1>2. /\ conn \in [Conns -> ConnT] /\ IsMem(mem) /\ RefsOK(mem, conn, pkt) /\ nmsg \in Nat /\ pkt \in 0 .. MaxMsg
  BY DEF Good, Frame, Body
<1>3. pkt \in Pkts /\ pkt' \in 0 .. MaxMsg
  BY <1>1, <1>2, BoundsAssumption DEF Pkts, NULL
<1>4. /\ mem'[pkt] = [mem[pkt] EXCEPT !.ref = @ - 1] /\ mem' = [r \in Pkts |-> mem'[r]]
      /\ \A r \in Pkts \ {pkt} : mem'[r] = mem[r]
  BY <1>1, <1>2, <1>3 DEF IsMem
<1>5. IsPkt(mem'[pkt]) /\ mem'[pkt].msg = mem[pkt].msg /\ mem'[pkt].ref = mem[pkt].ref - 1
  BY <1>2, <1>3, <1>4 DEF IsMem, IsPkt
<1>6. IsMem(mem')
  BY <1>2, <1>4, <1>5 DEF IsMem
<1>7. RefsOK(mem', conn, pkt')
  <2>1. ASSUME NEW r \in Pkts PROVE mem'[r].ref = (IF pkt' = r THEN 1 ELSE 0) + Cardinality(Users(conn, r))
    <3>1. /\ mem[r].ref = (IF pkt = r THEN 1 ELSE 0) + Cardinality(Users(conn, r))
          /\ r # pkt' /\ Cardinality(Users(conn, r)) \in Nat
      <4>1. Users(conn, r) = UsersOf(conn, r, Conns)
        BY DEF Users, UsersOf, Places
      <4> QED BY <1>1, <1>2, <4>1, UsersFinite DEF RefsOK, Pkts, NULL
    <3>2. CASE r = pkt
      BY <1>5, <3>1, <3>2
    <3>3. CASE r # pkt
      BY <1>4, <3>1, <3>3
    <3> QED BY <3>2, <3>3
  <2> QED BY <2>1 DEF RefsOK
<1>8. ASSUME NEW c \in Conns, NEW j \in DOMAIN conn[c].wq
      PROVE  mem'[conn[c].wq[j].pkt].msg = mem[conn[c].wq[j].pkt].msg
  <2>1. conn[c].wq \in Seq(Nodes)
    BY <1>2, ConnOf
  <2>2. conn[c].wq[j].pkt \in Pkts
    BY <2>1, NodePkt
  <2> QED BY <1>4, <1>5, <2>2
<1> QED BY <1>1, <1>2, <1>3, <1>6, <1>7, <1>8, MemStep

\* Only what is read on s_conn c changes.
LEMMA ReadStep ==
  ASSUME Good, NEW c \in Conns, conn[c].fd # NULL, NEW k \in SockT, NEW x \in Nat,
         sock' = [sock EXCEPT ![conn[c].fd] = k], conn' = [conn EXCEPT ![c].rbuf = x],
         k.open = sock[conn[c].fd].open, k.ptr = sock[conn[c].fd].ptr, k.told = sock[conn[c].fd].told,
         k.used = sock[conn[c].fd].used, k.peer = sock[conn[c].fd].peer, k.out = sock[conn[c].fd].out,
         k.sent = sock[conn[c].fd].sent, k.heard = sock[conn[c].fd].heard,
         k.open => ReadOK(k, x),
         pool' = pool, nconn' = nconn, mem' = mem, pkt' = pkt, nmsg' = nmsg,
         batch' = batch \/ (batch # <<>> /\ batch' = Tail(batch)),
         drain' \in Ids, drain' # NULL => drain' \in Conns /\ conn[drain'].fd # NULL
  PROVE  Good'
<1> DEFINE s == conn[c].fd
           d == [conn[c] EXCEPT !.rbuf = x]
<1>1. Body(sock, conn, mem, pkt) /\ pool \in PoolT /\ nmsg \in Nat
  BY DEF Good, Frame
<1>2. /\ sock \in [Socks -> SockT] /\ conn \in [Conns -> ConnT] /\ IsMem(mem) /\ pkt \in 0 .. MaxMsg
      /\ RefsOK(mem, conn, pkt)
  BY SMTT(60), <1>1 DEF Body
<1>3. /\ s \in Socks /\ conn[c] \in ConnT /\ conn[c].wq \in Seq(Nodes)
      /\ SockOK(sock[s]) /\ sock[s].used
      /\ (sock[s].open => sock[s].told = 0)
      /\ (~sock[s].open => sock[s].told > 0 /\ conn[c].wq = <<>>)
      /\ (sock[s].peer => sock[s].open) /\ StreamOK(sock[s], conn[c].wq, mem)
  BY <1>1, ConnSock
<1>4. d \in ConnT /\ d.fd = s /\ d.wq = conn[c].wq /\ d.rbuf = x
  BY <1>3 DEF ConnT
<1>5. conn' = [conn EXCEPT ![c] = d] /\ conn' \in [Conns -> ConnT] /\ \A b \in Conns : conn'[b].wq = conn[b].wq
  BY <1>2, <1>4
<1>6. \A b \in Conns : conn[b].fd # NULL => conn'[b].fd # NULL
  BY <1>2, <1>4
<1> HIDE DEF d
<1>7. RefsOK(mem, [conn EXCEPT ![c] = d], pkt)
  <2>1. \A p \in Pkts : Users(conn', p) = Users(conn, p)
    BY <1>5 DEF Users
  <2>2. RefsOK(mem, conn', pkt)
    BY <1>2, <2>1 DEF RefsOK
  <2> QED BY <1>5, <2>2
<1>8. k.used /\ (k.open => sock[s].open /\ k.ptr = sock[s].ptr /\ k.told = 0) /\ (~k.open => k.told > 0)
      /\ (k.peer => k.open) /\ (~k.peer => k.out = <<>>) /\ Len(k.out) <= Room /\ (~k.open => d.wq = <<>>)
  BY ONLY <1>3, <1>4, k.used = sock[s].used, k.open = sock[s].open, k.ptr = sock[s].ptr, k.told = sock[s].told,
          k.peer = sock[s].peer, k.out = sock[s].out DEF SockOK
<1>9. StreamOK(k, d.wq, mem) /\ (k.open => ReadOK(k, d.rbuf))
  <2>1. StreamOK(k, conn[c].wq, mem)
    BY <1>3, StreamSame
  <2> QED BY <1>4, <2>1
<1>10. Body([sock EXCEPT ![s] = k], [conn EXCEPT ![c] = d], mem, pkt)
  <2>1. conn[c].fd = s /\ d.fd = s /\ d \in ConnT /\ s \in Socks /\ (k.open => StreamOK(k, d.wq, mem) /\ ReadOK(k, d.rbuf))
    BY <1>3, <1>4, <1>9
  <2> QED BY <1>1, <1>2, <1>7, <1>8, <2>1, Change
<1>11. Body(sock', conn', mem', pkt')
  BY <1>5, <1>10
<1>12. \A r \in Socks : sock[r].used => sock'[r].used
  BY <1>2, <1>8
<1>13. Frame'
  BY <1>1, <1>6, <1>12, FrameKept
<1> QED BY <1>11, <1>13 DEF Good

LEMMA EventInKeeps ==
  ASSUME Good, EventIn PROVE Good'
<1> DEFINE e == Head(batch)
           c == e.ptr
           s == conn[c].fd
           o == sock[s]
<1>1. /\ batch # <<>> /\ drain = NULL /\ batch' = Tail(batch) /\ nconn' = nconn /\ pkt' = pkt /\ nmsg' = nmsg
  BY DEF EventIn
<1>2. c \in Conns /\ conn[c].fd # NULL
  BY <1>1, HeadConn DEF Good, Frame
<1>3. CASE ReadFails(s)
  <2>1. Closed(c, mem, conn[c].wq, sock) /\ drain' = drain
    BY SMTT(60), <1>3 DEF EventIn
  <2> QED BY <1>1, <1>2, <2>1, ClosedStep
<1>4. CASE ~ReadFails(s)
  <2> DEFINE y == o.skipped \/ (e.out /\ conn[c].wq # <<>> /\ ~o.nospace)
             z == o.missed \/ (o.in > 0 /\ ~o.peer /\ ~o.inEdge)
             k == [o EXCEPT !.in = 0, !.skipped = y, !.missed = z]
             x == conn[c].rbuf + o.in
  <2>1. /\ conn' = [conn EXCEPT ![c].rbuf = x] /\ sock' = [sock EXCEPT ![s] = k]
        /\ drain' = c /\ pool' = pool /\ mem' = mem
    BY <1>4 DEF EventIn, ReadAll
  <2>2. /\ Body(sock, conn, mem, pkt) /\ o.open
    BY <1>4 DEF ReadFails, Good
  <2>3. SockOK(o) /\ conn[c].rbuf \in Nat /\ ReadOK(o, conn[c].rbuf)
    BY SMTT(30), <1>2, <2>2, ConnSock
  <2>4. o \in SockT /\ o.in \in Nat /\ o.got \in Nat /\ o.peerSent \in Nat /\ o.skipped \in BOOLEAN /\ o.missed \in BOOLEAN
    <3> HIDE DEF o
    <3> QED BY SMTT(60), <2>3 DEF SockOK, SockT
  <2>5. y \in BOOLEAN /\ z \in BOOLEAN /\ x \in Nat /\ 0 \in Nat
    BY <2>3, <2>4
  <2> HIDE DEF y, z
  <2>6. /\ k \in SockT /\ k.open = o.open /\ k.ptr = o.ptr /\ k.told = o.told /\ k.used = o.used /\ k.peer = o.peer
        /\ k.out = o.out /\ k.sent = o.sent /\ k.heard = o.heard /\ k.got = o.got /\ k.peerSent = o.peerSent
        /\ k.in = 0
    <3> HIDE DEF o
    <3> QED BY <2>4, <2>5 DEF SockT
  <2> HIDE DEF k
  <2>7. ReadOK(k, x)
    <3> DEFINE a == o.got * Size
               b == conn[c].rbuf
               i == o.in
    <3>1. a \in Nat /\ b \in Nat /\ i \in Nat /\ a + b + i = o.peerSent
      BY <2>3, <2>4, SizeAssumption DEF ReadOK
    <3>2. k.got * Size = a /\ k.in = 0 /\ k.peerSent = o.peerSent /\ x = b + i
      BY <2>6
    <3> HIDE DEF a, b, i, x
    <3>3. a + x + 0 = o.peerSent
      BY <3>1, <3>2
    <3> QED BY <3>2, <3>3 DEF ReadOK
  <2>8. drain' \in Ids
    BY <1>2, <2>1, BoundsAssumption DEF Conns, Ids
  <2> HIDE DEF x
  <2>9. x \in Nat
    BY <2>5 DEF x
  <2> QED BY ZenonT(60), <1>1, <1>2, <2>1, <2>6, <2>7, <2>8, <2>9, ReadStep
<1> QED BY SMTT(60), <1>3, <1>4

LEMMA NextPacketKeeps ==
  ASSUME Good, NextPacket PROVE Good'
<1> DEFINE c == drain
           s == conn[c].fd
           o == sock[s]
           k == [o EXCEPT !.got = @ + 1]
           x == conn[c].rbuf - Size
<1>1. /\ drain # NULL /\ batch' = batch /\ nconn' = nconn /\ pkt' = pkt /\ nmsg' = nmsg /\ pool' = pool /\ mem' = mem
  BY DEF NextPacket
<1>2. /\ Body(sock, conn, mem, pkt) /\ c \in Ids /\ c \in Conns /\ conn[c].fd # NULL
      /\ sock \in [Socks -> SockT] /\ conn \in [Conns -> ConnT] /\ pool \in PoolT /\ nmsg \in Nat
  BY SMTT(60), <1>1, BoundsAssumption DEF Good, Frame, Body, Ids, Conns, NULL
<1>3. CASE conn[c].rbuf >= Size
  <2>1. /\ s \in Socks /\ SockOK(o) /\ conn[c] \in ConnT /\ conn[c].rbuf \in Nat /\ (o.open => ReadOK(o, conn[c].rbuf))
    BY <1>2, ConnSock
  <2>2. o \in SockT /\ o.in \in Nat /\ o.got \in Nat /\ o.peerSent \in Nat /\ Size \in Nat
    BY <2>1, SizeAssumption DEF SockOK, SockT
  <2>3. /\ conn' = [conn EXCEPT ![c].rbuf = @ - Size] /\ sock' = [sock EXCEPT ![s].got = @ + 1] /\ drain' = drain
    BY <1>3 DEF NextPacket
  <2>4. conn' = [conn EXCEPT ![c].rbuf = x] /\ sock' = [sock EXCEPT ![s] = k] /\ x \in Nat
    BY <1>2, <1>3, <2>1, <2>2, <2>3
  <2>5. /\ k \in SockT /\ k.open = o.open /\ k.ptr = o.ptr /\ k.told = o.told /\ k.used = o.used /\ k.peer = o.peer
        /\ k.out = o.out /\ k.sent = o.sent /\ k.heard = o.heard /\ k.got = o.got + 1 /\ k.peerSent = o.peerSent
        /\ k.in = o.in
    <3> DEFINE g == o.got + 1
    <3>1. g \in Nat /\ k = [o EXCEPT !.got = g]
      BY <2>2
    <3> HIDE DEF g, o, k
    <3> QED BY <2>2, <3>1 DEF SockT, g
  <2> HIDE DEF k
  <2>6. k.open => ReadOK(k, x)
    <3> DEFINE a == o.got * Size
               b == conn[c].rbuf
    <3>1. o.open => a + b + o.in = o.peerSent
      BY <2>1 DEF ReadOK
    <3>2. k.got * Size = a + Size /\ a \in Nat
      <4> DEFINE g == o.got
      <4>1. g \in Nat /\ k.got = g + 1
        BY <2>2, <2>5
      <4> HIDE DEF g
      <4>2. (g + 1) * Size = g * Size + Size /\ g * Size \in Nat
        BY <2>2, <4>1
      <4> QED BY <4>1, <4>2 DEF g
    <3>3. x = b - Size /\ b \in Nat
      BY <2>1
    <3> HIDE DEF a, b, x
    <3>4. o.open => (a + Size) + x + o.in = o.peerSent
      BY <2>2, <3>1, <3>2, <3>3
    <3> QED BY <2>5, <3>2, <3>4 DEF ReadOK
  <2> HIDE DEF x
  <2> QED BY <1>1, <1>2, <2>3, <2>4, <2>5, <2>6, ReadStep
<1>4. CASE ~(conn[c].rbuf >= Size)
  <2>1. sock' = sock /\ conn' = conn /\ drain' = NULL
    BY <1>4 DEF NextPacket
  <2>2. drain' \in Ids
    BY <2>1, BoundsAssumption DEF Ids, NULL
  <2>3. Frame'
    BY <1>1, <1>2, <2>1, <2>2, FrameKept
  <2> QED BY <1>1, <1>2, <2>1, <2>3 DEF Good
<1> QED BY <1>3, <1>4

\* epoll_wait takes edges only.
LEMMA PollKeeps ==
  ASSUME Good, Poll PROVE Good'
<1> DEFINE ready == {s \in Socks : Ready(s)}
           Calm(s) == [sock[s] EXCEPT !.inEdge = FALSE, !.outEdge = FALSE]
<1>1. PICK order \in SetToSeqs(ready) : batch' = [i \in DOMAIN order |-> EventOf(order[i])]
  BY DEF Poll
<1>2. /\ sock' = [s \in Socks |-> IF s \in ready THEN Calm(s) ELSE sock[s]]
      /\ conn' = conn /\ pool' = pool /\ nconn' = nconn /\ mem' = mem /\ pkt' = pkt /\ nmsg' = nmsg
      /\ drain' = drain
  BY DEF Poll
<1>3. /\ Body(sock, conn, mem, pkt) /\ sock \in [Socks -> SockT] /\ conn \in [Conns -> ConnT]
      /\ LinkOK(sock, conn) /\ StateOK(sock)
  BY DEF Good, Body
<1>4. ASSUME NEW s \in Socks
      PROVE  /\ sock'[s] \in SockT /\ SameSock(sock[s], sock'[s]) /\ sock'[s].out = sock[s].out
  <2>1. sock[s] \in SockT
    BY <1>3
  <2>2. Calm(s) \in SockT /\ SameSock(sock[s], Calm(s)) /\ Calm(s).out = sock[s].out
    BY <2>1 DEF SockT, SameSock
  <2>3. SameSock(sock[s], sock[s])
    BY DEF SameSock
  <2> QED BY <1>2, <2>1, <2>2, <2>3
<1>5. sock' \in [Socks -> SockT]
  BY <1>2, <1>4
<1>6. LinkOK(sock', conn)
  <2>1. \A c \in Conns : conn[c].fd # NULL => conn[c].fd \in Socks
    BY <1>3, ConnOf
  <2>2. \A s \in Socks : sock'[s].open = sock[s].open /\ sock'[s].ptr = sock[s].ptr /\ sock'[s].used = sock[s].used
    BY <1>4 DEF SameSock
  <2> QED BY <1>3, <2>1, <2>2 DEF LinkOK
<1>7. StateOK(sock')
  <2>2. \A s \in Socks : /\ sock'[s].open = sock[s].open /\ sock'[s].told = sock[s].told /\ sock'[s].used = sock[s].used
                         /\ sock'[s].peer = sock[s].peer /\ sock'[s].out = sock[s].out
    BY <1>4 DEF SameSock
  <2> QED BY <1>3, <2>2 DEF StateOK
<1>8. ASSUME NEW s \in Socks, sock'[s].open
      PROVE  StreamOK(sock'[s], conn[sock'[s].ptr].wq, mem) /\ ReadOK(sock'[s], conn[sock'[s].ptr].rbuf)
  <2>1. SameSock(sock[s], sock'[s]) /\ sock'[s].out = sock[s].out
    BY <1>4
  <2>2. sock[s].open /\ sock'[s].ptr = sock[s].ptr
    BY <1>8, <2>1 DEF SameSock
  <2>3. StreamOK(sock[s], conn[sock[s].ptr].wq, mem) /\ ReadOK(sock[s], conn[sock[s].ptr].rbuf)
    BY <2>2, OpenSock
  <2>4. StreamOK(sock'[s], conn[sock[s].ptr].wq, mem)
    BY <2>1, <2>3, StreamSame DEF SameSock
  <2>5. ReadOK(sock'[s], conn[sock[s].ptr].rbuf)
    BY <2>1, <2>3 DEF SameSock, ReadOK
  <2> QED BY <2>2, <2>4, <2>5
<1>9. Body(sock', conn', mem', pkt')
  <2>1. StreamsOK(sock', conn, mem) /\ ReadsOK(sock', conn)
    BY <1>8 DEF StreamsOK, ReadsOK
  <2> QED BY <1>2, <1>3, <1>5, <1>6, <1>7, <2>1 DEF Body
<1>10. /\ order \in [1 .. Cardinality(ready) -> ready] /\ Cardinality(ready) \in Nat
  <2>1. IsFiniteSet(Socks)
    BY FS_Interval, BoundsAssumption DEF Socks
  <2>2. IsFiniteSet(ready)
    BY <2>1, FS_Subset
  <2>3. order \in [1 .. Cardinality(ready) -> ready]
    BY <1>1 DEF SetToSeqs
  <2> QED BY <2>2, <2>3, FS_CardinalityType
<1>11. ASSUME NEW s \in ready PROVE EventOf(s) \in Events /\ EventOf(s).ptr \in Conns /\ conn[EventOf(s).ptr].fd # NULL
  <2>1. s \in Socks /\ sock[s].open
    BY DEF Ready
  <2>2. /\ sock[s].ptr \in Conns /\ conn[sock[s].ptr].fd = s /\ s # NULL
    BY <2>1, OpenSock
  <2>3. EventOf(s) \in Events /\ EventOf(s).ptr = sock[s].ptr
    <3> DEFINE a == sock[s].in > 0 \/ ~sock[s].peer
               b == Len(sock[s].out) < Room \/ sock[s].reset
    <3>1. a \in BOOLEAN /\ b \in BOOLEAN
      OBVIOUS
    <3>2. EventOf(s) = [ptr |-> sock[s].ptr, fd |-> s, in |-> a, out |-> b]
      BY DEF EventOf
    <3> HIDE DEF a, b
    <3> QED BY <2>1, <2>2, <3>1, <3>2 DEF Events
  <2> QED BY <2>2, <2>3
<1> HIDE DEF ready
<1>12. batch' = [i \in 1 .. Cardinality(ready) |-> EventOf(order[i])]
  BY <1>1, <1>10
<1>13. batch' \in Seq(Events) /\ \A i \in DOMAIN batch' : conn[batch'[i].ptr].fd # NULL
  <2>1. \A i \in 1 .. Cardinality(ready) : EventOf(order[i]) \in Events
    BY <1>10, <1>11
  <2>2. batch' \in Seq(Events) /\ DOMAIN batch' = 1 .. Cardinality(ready)
    BY <1>10, <1>12, <2>1
  <2> QED BY <1>10, <1>11, <1>12, <2>2
<1>14. \A s \in Socks : sock'[s].used = sock[s].used
  BY <1>4 DEF SameSock
<1>15. Frame'
  BY <1>2, <1>13, <1>14 DEF Good, Frame
<1> QED BY <1>9, <1>15 DEF Good

\* A new socket gets an s_conn that no open socket has.
LEMMA OpenKeeps ==
  ASSUME Good, NEW s \in Socks, Open(s), ~shared' PROVE Good'
<1> DEFINE g == GetConn
           k == [NoSock EXCEPT !.open = TRUE, !.peer = TRUE, !.ptr = GetConn, !.used = TRUE, !.outEdge = TRUE]
           d == [NoConn EXCEPT !.fd = s]
<1>1. /\ ~sock[s].used /\ (\A r \in 1 .. s - 1 : sock[r].used)
      /\ pool' = (IF pool.next[0] # 0 THEN ListDel(pool, g) ELSE pool)
      /\ nconn' = (IF pool.next[0] # 0 THEN nconn ELSE nconn + 1)
      /\ conn' = [conn EXCEPT ![g] = d] /\ sock' = [sock EXCEPT ![s] = k]
      /\ (\A r \in Socks : sock[r].open => sock[r].ptr # g)
      /\ mem' = mem /\ pkt' = pkt /\ nmsg' = nmsg /\ batch' = batch /\ drain' = drain
  BY DEF Open
<1>2. /\ Body(sock, conn, mem, pkt) /\ Frame /\ sock \in [Socks -> SockT] /\ conn \in [Conns -> ConnT]
      /\ LinkOK(sock, conn) /\ StateOK(sock) /\ StreamsOK(sock, conn, mem) /\ ReadsOK(sock, conn)
      /\ RefsOK(mem, conn, pkt) /\ IsMem(mem) /\ pkt \in 0 .. MaxMsg
      /\ pool \in PoolT /\ nconn \in Nat /\ nconn < s /\ nmsg \in Nat
  BY <1>1 DEF Good, Body, Frame
<1>3. g \in Conns /\ g \in Ids /\ s # NULL /\ s \in Ids
  <2>1. pool.next[0] \in Ids
    BY <1>2, BoundsAssumption DEF PoolT, Ids
  <2> QED BY <1>2, <2>1, BoundsAssumption DEF GetConn, Conns, Ids, Socks, NULL
<1> HIDE DEF g
<1>4. /\ k \in SockT /\ k.open /\ k.peer /\ k.ptr = g /\ k.used /\ k.told = 0 /\ k.out = <<>> /\ k.sent = <<>>
      /\ k.heard = 0 /\ k.got = 0 /\ k.in = 0 /\ k.peerSent = 0
  <2>1. k \in SockT
    BY <1>3, NoSockT DEF SockT, g
  <2> QED BY <2>1 DEF NoSock, g
<1>5. d \in ConnT /\ d.fd = s /\ d.wq = <<>> /\ d.rbuf = 0
  <2>1. d \in ConnT
    BY <1>3, NoSockT DEF ConnT
  <2> QED BY <2>1 DEF NoConn
<1> HIDE DEF k, d
<1>6. /\ sock' \in [Socks -> SockT] /\ sock'[s] = k /\ \A r \in Socks \ {s} : sock'[r] = sock[r]
  BY <1>1, <1>2, <1>4
<1>7. /\ conn' \in [Conns -> ConnT] /\ conn'[g] = d /\ \A c \in Conns \ {g} : conn'[c] = conn[c]
  BY <1>1, <1>2, <1>3, <1>5
<1>8. ~sock[s].open
  BY <1>1, <1>2 DEF StateOK
<1>9. conn[g].wq = <<>>
  <2>1. conn[g].fd = NULL \/ ~sock[conn[g].fd].open
    <3>1. CASE conn[g].fd # NULL
      <4>1. conn[g].fd \in Socks
        BY <1>2, <1>3, <3>1, ConnOf
      <4> QED BY <1>1, <1>2, <1>3, <3>1, <4>1 DEF LinkOK
    <3> QED BY <3>1
  <2> QED BY <1>2, <1>3, <2>1 DEF LinkOK
<1>10. \A c \in Conns : conn[c].fd # s
  BY <1>1, <1>2, <1>3 DEF LinkOK
<1>11. ASSUME NEW r \in Socks \ {s}, sock[r].open
       PROVE  sock[r].ptr \in Conns \ {g} /\ conn'[sock[r].ptr] = conn[sock[r].ptr]
  BY <1>1, <1>2, <1>7, <1>11 DEF LinkOK
<1>12. LinkOK(sock', conn')
  <2>1. ASSUME NEW r \in Socks, sock'[r].open PROVE sock'[r].ptr \in Conns /\ conn'[sock'[r].ptr].fd = r
    <3>1. CASE r = s
      BY <1>3, <1>4, <1>5, <1>6, <1>7, <3>1
    <3>2. CASE r # s
      BY <1>2, <1>6, <1>11, <2>1, <3>2 DEF LinkOK
    <3> QED BY <3>1, <3>2
  <2>2. ASSUME NEW c \in Conns, conn'[c].fd # NULL
        PROVE  sock'[conn'[c].fd].used /\ (sock'[conn'[c].fd].open => sock'[conn'[c].fd].ptr = c)
    <3>1. CASE c = g
      BY <1>4, <1>5, <1>6, <1>7, <3>1
    <3>2. CASE c # g
      <4>1. conn'[c] = conn[c]
        BY <1>7, <3>2
      <4>2. conn[c].fd \in Socks \ {s}
        BY <1>2, <1>10, <2>2, <4>1, ConnOf
      <4> QED BY <1>2, <1>6, <2>2, <4>1, <4>2 DEF LinkOK
    <3> QED BY <3>1, <3>2
  <2>3. ASSUME NEW c \in Conns, conn'[c].fd = NULL \/ ~sock'[conn'[c].fd].open PROVE conn'[c].wq = <<>>
    <3>1. CASE c = g
      BY <1>5, <1>7, <3>1
    <3>2. CASE c # g
      <4>1. conn'[c] = conn[c]
        BY <1>7, <3>2
      <4>2. conn[c].fd # NULL => conn[c].fd \in Socks \ {s}
        BY <1>2, <1>10, ConnOf
      <4> QED BY <1>2, <1>6, <2>3, <4>1, <4>2 DEF LinkOK
    <3> QED BY <3>1, <3>2
  <2> QED BY <2>1, <2>2, <2>3 DEF LinkOK
<1>13. StateOK(sock')
  <2>1. Len(k.out) <= Room
    BY <1>4, SizeAssumption
  <2> QED BY <1>2, <1>4, <1>6, <2>1 DEF StateOK
<1>14. ASSUME NEW r \in Socks, sock'[r].open
       PROVE  StreamOK(sock'[r], conn'[sock'[r].ptr].wq, mem) /\ ReadOK(sock'[r], conn'[sock'[r].ptr].rbuf)
  <2>1. CASE r = s
    <3>1. sock'[r] = k /\ conn'[k.ptr] = d
      BY <1>4, <1>6, <1>7, <2>1
    <3>2. QueueOK(k, <<>>, mem) /\ OutOK(k) /\ Position(k, <<>>) = 0
      BY <1>4, SizeAssumption DEF QueueOK, OutOK, Position
    <3>3. StreamOK(k, <<>>, mem)
      BY <1>4, <3>2 DEF StreamOK
    <3>4. ReadOK(k, 0)
      BY <1>4, SizeAssumption DEF ReadOK
    <3> QED BY <1>5, <3>1, <3>3, <3>4
  <2>2. CASE r # s
    <3>1. sock'[r] = sock[r] /\ sock[r].open /\ conn'[sock[r].ptr] = conn[sock[r].ptr]
      BY <1>6, <1>11, <1>14, <2>2
    <3> QED BY <1>2, <3>1 DEF StreamsOK, ReadsOK
  <2> QED BY <2>1, <2>2
<1>15. RefsOK(mem, conn', pkt)
  <2>1. \A c \in Conns : conn'[c].wq = conn[c].wq
    BY <1>5, <1>7, <1>9
  <2>2. \A p : Users(conn', p) = Users(conn, p)
    BY <2>1 DEF Users
  <2> QED BY <1>2, <2>2 DEF RefsOK
<1>16. Body(sock', conn', mem', pkt')
  <2>1. StreamsOK(sock', conn', mem) /\ ReadsOK(sock', conn')
    BY <1>14 DEF StreamsOK, ReadsOK
  <2> QED BY <1>1, <1>2, <1>6, <1>7, <1>12, <1>13, <1>15, <2>1 DEF Body
<1>17. ASSUME NEW r \in Socks, ~sock'[r].used PROVE nconn' < r
  <2>1. r # s /\ ~sock[r].used
    BY <1>4, <1>6, <1>17
  <2>2. r > s
    BY <1>1, <2>1 DEF Socks
  <2> QED BY <1>1, <1>2, <2>2 DEF Socks
<1>18. pool' \in PoolT /\ nconn' \in Nat
  BY <1>1, <1>2, <1>3, PoolTypes
<1>19. \A c \in Conns : conn[c].fd # NULL => conn'[c].fd # NULL
  BY <1>3, <1>5, <1>7
<1>20. /\ batch \in Seq(Events) /\ drain \in Ids
       /\ \A i \in DOMAIN batch : batch[i].ptr \in Conns /\ conn[batch[i].ptr].fd # NULL
       /\ drain # NULL => drain \in Conns /\ conn[drain].fd # NULL
  <2>1. batch \in Seq(Events) /\ drain \in Ids /\ (drain # NULL => conn[drain].fd # NULL)
    BY <1>2 DEF Frame
  <2>2. drain # NULL => drain \in Conns
    BY <2>1, BoundsAssumption DEF Ids, Conns, NULL
  <2>3. ASSUME NEW i \in DOMAIN batch PROVE batch[i].ptr \in Conns /\ conn[batch[i].ptr].fd # NULL
    <3>1. batch[i] \in Events
      BY <2>1
    <3> QED BY <1>2, <3>1 DEF Events, Frame
  <2> QED BY <2>1, <2>2, <2>3
<1>21. Frame'
  BY <1>1, <1>2, <1>17, <1>18, <1>19, <1>20 DEF Frame
<1> QED BY <1>16, <1>21 DEF Good

-----------------------------------------------------------------------------
LEMMA InitGood == Init => Good
<1> SUFFICES ASSUME Init PROVE Good
  OBVIOUS
<1>1. /\ sock = [s \in Socks |-> NoSock] /\ conn = [c \in Conns |-> NoConn] /\ mem = [p \in Pkts |-> NoPkt]
      /\ pkt = 0 /\ nconn = 0 /\ nmsg = 0 /\ batch = <<>> /\ drain = 0
      /\ pool = [next |-> [c \in Ids |-> c], prev |-> [c \in Ids |-> c]]
  BY DEF Init, NULL, Ids
<1>2. sock \in [Socks -> SockT] /\ conn \in [Conns -> ConnT]
  BY <1>1, NoSockT
<1>3. IsMem(mem)
  BY <1>1 DEF IsMem, IsPkt, NoPkt
<1>4. \A s \in Socks : /\ ~sock[s].open /\ ~sock[s].peer /\ ~sock[s].used /\ sock[s].out = <<>>
  BY <1>1 DEF NoSock
<1>5. \A c \in Conns : conn[c].fd = NULL /\ conn[c].wq = <<>>
  BY <1>1 DEF NoConn
<1>6. LinkOK(sock, conn) /\ StateOK(sock) /\ StreamsOK(sock, conn, mem) /\ ReadsOK(sock, conn)
  <2>1. \A s \in Socks : Len(sock[s].out) <= Room
    BY <1>4, SizeAssumption
  <2> QED BY <1>4, <1>5, <2>1 DEF LinkOK, StateOK, StreamsOK, ReadsOK
<1>7. RefsOK(mem, conn, pkt)
  <2>1. ASSUME NEW p \in Pkts PROVE mem[p].ref = (IF pkt = p THEN 1 ELSE 0) + Cardinality(Users(conn, p))
    <3>1. Users(conn, p) = {}
      BY <1>5 DEF Users
    <3>2. mem[p].ref = 0 /\ pkt # p
      BY <1>1 DEF NoPkt, Pkts
    <3> QED BY <3>1, <3>2, FS_EmptySet
  <2> QED BY <2>1 DEF RefsOK
<1>8. Body(sock, conn, mem, pkt)
  BY <1>1, <1>2, <1>3, <1>6, <1>7, BoundsAssumption DEF Body
<1>9. Frame
  <2>1. pool \in PoolT /\ batch \in Seq(Events) /\ DOMAIN batch = {}
    BY <1>1 DEF PoolT
  <2>2. drain \in Ids /\ drain = NULL /\ \A s \in Socks : nconn < s
    BY <1>1, BoundsAssumption DEF Ids, NULL, Socks
  <2> QED BY <1>1, <2>1, <2>2 DEF Frame
<1> QED BY <1>8, <1>9 DEF Good

LEMMA StepGood == Inv /\ [Next]_vars => Inv'
<1> SUFFICES ASSUME Inv, [Next]_vars, ~shared' PROVE Good'
  BY DEF Inv
<1>1. CASE UNCHANGED vars
  <2>1. Good
    BY <1>1 DEF Inv, vars
  <2> QED BY <1>1, <2>1 DEF vars, Good, Frame
<1>2. CASE Next
  <2>1. ~shared
    <3>1. \A s \in Socks : Open(s) => ~shared
      BY DEF Open
    <3>2. ASSUME ~\E s \in Socks : Open(s) PROVE shared' = shared
      BY <1>2, <3>2 DEF Next, PeerRead, PeerSend, PeerClose, Send, Close, Create, Drop, Poll, EventIn, EventOut, NextPacket
    <3> QED BY <3>1, <3>2
  <2>2. Good
    BY <2>1 DEF Inv
  <2>3. CASE \E s \in Socks : Open(s) \/ PeerRead(s) \/ PeerSend(s) \/ PeerClose(s)
    BY <2>2, <2>3, OpenKeeps, PeerReadKeeps, PeerSendKeeps, PeerCloseKeeps
  <2>4. CASE \E c \in Conns : Send(c) \/ Close(c)
    BY <2>2, <2>4, SendKeeps, CloseKeeps
  <2>5. CASE Create \/ Drop \/ Poll \/ EventIn \/ EventOut \/ NextPacket
    BY <2>2, <2>5, CreateKeeps, DropKeeps, PollKeeps, EventInKeeps, EventOutKeeps, NextPacketKeeps
  <2> QED BY <1>2, <2>3, <2>4, <2>5 DEF Next
<1> QED BY <1>1, <1>2

LEMMA InvHolds == Spec => []Inv
<1>1. Init => Inv
  BY InitGood DEF Inv
<1> QED BY <1>1, StepGood, PTL DEF Spec

\* Every other end hears the packets sent to it, in order and each with the
\* number given to it on this connection: iwrite_conn takes every queue up where
\* it stopped, and the stamp of one connection never shows on another.
THEOREM StreamsRightCorrect == Spec => []StreamsRight
<1>1. Inv => StreamsRight
  <2> SUFFICES ASSUME Inv, ~shared, NEW s \in Socks, NEW i \in DOMAIN sock[s].out
               PROVE  sock[s].out[i] = SentPart(s, sock[s].heard + i)
    BY DEF StreamsRight
  <2>1. Good /\ StateOK(sock)
    BY DEF Inv, Good, Body
  <2>2. sock[s].open
    BY <2>1 DEF StateOK
  <2>3. StreamOK(sock[s], conn[sock[s].ptr].wq, mem)
    BY <2>1, <2>2, OpenSock
  <2>4. sock[s].out[i] = Part(sock[s], sock[s].heard + i)
    BY <2>3 DEF StreamOK, OutOK
  <2> QED BY <2>4 DEF Part, SentPart
<1> QED BY <1>1, InvHolds, PTL

\* A packet is referred to exactly by the program and by the places of the
\* queues it is in: s_packet_drop frees it neither too early nor never.
THEOREM RefsExactCorrect == Spec => []RefsExact
<1>1. Inv => RefsExact
  BY DEF Inv, Good, Body, RefsOK, RefsExact, Users
<1> QED BY <1>1, InvHolds, PTL

\* What has arrived is handed over, in the read buffer or still to be read,
\* although reads cut packets in two and s_conn are used again.
THEOREM NothingLostCorrect == Spec => []NothingLost
<1>1. Inv => NothingLost
  BY DEF Inv, Good, Body, ReadsOK, ReadOK, NothingLost
<1> QED BY <1>1, InvHolds, PTL
=============================================================================
