------------------------- MODULE CreateFileProofs -------------------------
(***************************************************************************)
(* Proofs about CreateFile, for any servers, clients, names and bounds.    *)
(*                                                                         *)
(* A request of a client is in one of three places: its packet, the entry  *)
(* of file_creating, the answer.  Requests says that it is in one only;    *)
(* Stored says that what has been reported as created stays in             *)
(* file_meta_metadata, where icheck_can_create finds it.                   *)
(***************************************************************************)
EXTENDS CreateFile, FiniteSetTheorems, SequenceTheorems, TLAPS

\* s is a sequence, of whatever elements.
IsSeq(s) == s \in Seq({s[i] : i \in DOMAIN s})

Files == [file_id: Nat, file_version: Nat, mservs: Seq(MServs)]
Entries == [client: Clients \cup {0}, req_id: Nat, ncheck: Int]
Answers == [client: Clients, req: Nat, name: Names, ok: BOOLEAN]
Funs == {"CREATE", "CREATE_CHECK_AUTH", "CREATE_META_META_DATA", "CREATE_METADATA",
         "RPC_BACK"}

\* The functions of the calls between servers.
CallFuns == {"CREATE_CHECK_AUTH", "CREATE_METADATA"}

\* A packet names a file, and one that carries a descriptor has a real one.
PacketOK(pkt) ==
  /\ pkt.fun \in Funs
  /\ pkt.fun # "RPC_BACK" => pkt.name \in Names
  /\ pkt.fun \in {"CREATE_META_META_DATA", "CREATE_METADATA"} =>
       pkt.file \in Files /\ pkt.file # NoFile

PacketsOK(s) == IsSeq(s) /\ \A i \in DOMAIN s : PacketOK(s[i])

ChanOK(ch) == ch = [e \in Pairs |-> ch[e]] /\ \A e \in Pairs : PacketsOK(ch[e])

CallsOK(s) ==
  /\ IsSeq(s)
  /\ \A i \in DOMAIN s : /\ s[i].fun \in CallFuns
                         /\ s[i].name \in Names

TypeOK ==
  /\ file_creating \in [MServs -> [Names -> Entries]]
  /\ file_meta_metadata \in [MServs -> [Names -> Files]]
  /\ file_metadata \in [MServs -> [Names -> Files]]
  /\ file_id \in [MServs -> Nat]
  /\ req_id \in [MServs \cup Clients -> Nat \ {0}]
  /\ calls = [m \in MServs |-> calls[m]] /\ \A m \in MServs : CallsOK(calls[m])
  /\ ChanOK(chan)
  /\ active \in [MServs -> SUBSET Servers]
  /\ aborted \in SUBSET MServs
  /\ told \in [MServs -> Seq(Answers)]

\* What a client sends to an mserv is CREATE, with a number it has used, and
\* with each number once.
PacketReqs ==
  \A c \in Clients, m \in MServs : \A i \in DOMAIN chan[<<c, m>>] :
    /\ chan[<<c, m>>][i].fun = "CREATE"
    /\ chan[<<c, m>>][i].req \in Nat \ {0}
    /\ chan[<<c, m>>][i].req < req_id[c]
    /\ \A j \in DOMAIN chan[<<c, m>>] :
         chan[<<c, m>>][i].req = chan[<<c, m>>][j].req => i = j

\* The request r of c is in a packet to m, or in the entry of f at m.
InPacket(c, r, m) == \E i \in DOMAIN chan[<<c, m>>] : chan[<<c, m>>][i].req = r

InEntry(c, r, m, f) ==
  /\ file_creating[m][f] # NoCreating
  /\ file_creating[m][f].client = c /\ file_creating[m][f].req_id = r

\* The request r of c that is in the entry of f at m is nowhere else.
EntryOK(c, r, m, f) ==
  /\ c \in Clients /\ r \in Nat \ {0} /\ r < req_id[c]
  /\ ~InPacket(c, r, m)
  /\ \A g \in Names : InEntry(c, r, m, g) => g = f

EntryReqs ==
  \A m \in MServs, f \in Names : file_creating[m][f] # NoCreating =>
    EntryOK(file_creating[m][f].client, file_creating[m][f].req_id, m, f)

\* The request r of c that m has answered is nowhere else.
ToldOK(c, r, m) ==
  r < req_id[c] /\ ~InPacket(c, r, m) /\ \A g \in Names : ~InEntry(c, r, m, g)

ToldReqs ==
  \A m \in MServs : \A i \in DOMAIN told[m] : ToldOK(told[m][i].client, told[m][i].req, m)

Requests == PacketReqs /\ EntryReqs /\ ToldReqs /\ AnsweredOnce

\* The mserv knows the files of the calls in s that send file-meta-data.
Knows(m, s) ==
  \A i \in DOMAIN s : s[i].fun = "CREATE_METADATA" => file_meta_metadata[m][s[i].name] # NoFile

ToldStored ==
  \A m \in MServs : \A i \in DOMAIN told[m] : told[m][i].ok =>
    /\ file_meta_metadata[m][told[m][i].name] # NoFile
    /\ file_creating[m][told[m][i].name] = NoCreating

AllKnow == \A m \in MServs : Knows(m, calls[m])

Stored == AllKnow /\ ToldStored /\ CreatedOnce

Inv == TypeOK /\ Requests /\ Stored /\ EntryIsCalledBack

-----------------------------------------------------------------------------
(* Sequences.                                                               *)

LEMMA SeqFacts ==
  ASSUME NEW s, IsSeq(s)
  PROVE  Len(s) \in Nat /\ DOMAIN s = 1..Len(s)
  BY DEF IsSeq

LEMMA SeqIs ==
  ASSUME NEW S, NEW s \in Seq(S)
  PROVE  IsSeq(s)
<1>1. s \in [1..Len(s) -> {s[i] : i \in DOMAIN s}] /\ Len(s) \in Nat
  OBVIOUS
<1> QED
  BY <1>1 DEF IsSeq

LEMMA TabulateIs ==
  ASSUME NEW n \in Nat, NEW s, DOMAIN s = 1..n, s = [i \in 1..n |-> s[i]]
  PROVE  IsSeq(s) /\ Len(s) = n
<1>1. s \in [1..n -> {s[i] : i \in DOMAIN s}]
  OBVIOUS
<1> QED
  BY <1>1, SMTT(30) DEF IsSeq

\* The provers rewrite \o; under another name it is what the lemmas say.
Cat(s, t) == s \o t

LEMMA ConcatIs ==
  ASSUME NEW s, NEW t, IsSeq(s), IsSeq(t)
  PROVE  /\ IsSeq(Cat(s, t))
         /\ Len(Cat(s, t)) = Len(s) + Len(t)
         /\ \A i \in DOMAIN s : i \in DOMAIN Cat(s, t) /\ Cat(s, t)[i] = s[i]
         /\ \A i \in DOMAIN t : /\ Len(s) + i \in DOMAIN Cat(s, t)
                                /\ Cat(s, t)[Len(s) + i] = t[i]
<1> DEFINE S == {s[i] : i \in DOMAIN s} \cup {t[i] : i \in DOMAIN t}
<1>1. s \in Seq(S) /\ t \in Seq(S)
  <2>1. s \in [1..Len(s) -> S] /\ Len(s) \in Nat /\ t \in [1..Len(t) -> S] /\ Len(t) \in Nat
    BY DEF IsSeq
  <2> QED
    BY <2>1, SMTT(30)
<1>2. Cat(s, t) \in Seq(S)
  BY <1>1 DEF Cat
<1>3. /\ Len(Cat(s, t)) = Len(s) + Len(t)
      /\ DOMAIN Cat(s, t) = 1..(Len(s) + Len(t))
      /\ Len(s) \in Nat /\ Len(t) \in Nat
      /\ DOMAIN s = 1..Len(s) /\ DOMAIN t = 1..Len(t)
  BY <1>1 DEF Cat
<1>4. \A i \in 1..Len(s) : Cat(s, t)[i] = s[i]
  BY <1>1 DEF Cat
<1>5. \A i \in 1..Len(t) : Cat(s, t)[Len(s) + i] = t[i]
  BY <1>1 DEF Cat
<1>6. IsSeq(Cat(s, t))
  BY <1>2, SeqIs
<1>7. \A i \in DOMAIN s : i \in DOMAIN Cat(s, t)
  BY <1>3
<1>8. \A i \in DOMAIN t : Len(s) + i \in DOMAIN Cat(s, t)
  BY <1>3
<1> QED
  BY <1>3, <1>4, <1>5, <1>6, <1>7, <1>8

\* Where an element of the concatenation comes from.
LEMMA ConcatFrom ==
  ASSUME NEW s, NEW t, IsSeq(s), IsSeq(t), NEW i \in DOMAIN Cat(s, t)
  PROVE  \/ i \in DOMAIN s /\ Cat(s, t)[i] = s[i]
         \/ i - Len(s) \in DOMAIN t /\ Cat(s, t)[i] = t[i - Len(s)]
<1>1. /\ IsSeq(Cat(s, t)) /\ Len(Cat(s, t)) = Len(s) + Len(t)
      /\ \A k \in DOMAIN s : Cat(s, t)[k] = s[k]
      /\ \A k \in DOMAIN t : Cat(s, t)[Len(s) + k] = t[k]
  BY ConcatIs
<1>2. /\ Len(s) \in Nat /\ Len(t) \in Nat
      /\ DOMAIN s = 1..Len(s) /\ DOMAIN t = 1..Len(t)
      /\ DOMAIN Cat(s, t) = 1..(Len(s) + Len(t))
  BY <1>1, SeqFacts
<1>3. CASE i \in 1..Len(s)
  BY <1>1, <1>2, <1>3
<1>4. CASE i \notin 1..Len(s)
  <2>1. i - Len(s) \in 1..Len(t) /\ Len(s) + (i - Len(s)) = i
    BY <1>2, <1>4
  <2>2. Cat(s, t)[Len(s) + (i - Len(s))] = t[i - Len(s)]
    BY <2>1, <1>1, <1>2
  <2> QED
    BY <2>1, <2>2, <1>2
<1> QED
  BY <1>3, <1>4

LEMMA TailIs ==
  ASSUME NEW s, IsSeq(s), s # <<>>
  PROVE  /\ IsSeq(Tail(s)) /\ 1 \in DOMAIN s /\ Head(s) = s[1]
         /\ \A i \in DOMAIN Tail(s) : i + 1 \in DOMAIN s /\ i + 1 # 1 /\ Tail(s)[i] = s[i + 1]
<1> DEFINE S == {s[i] : i \in DOMAIN s}
<1>1. s \in Seq(S)
  BY DEF IsSeq
<1>2. Tail(s) \in Seq(S) /\ Len(Tail(s)) = Len(s) - 1 /\ Len(s) \in Nat /\ Len(s) > 0
  BY <1>1
<1>3. IsSeq(Tail(s))
  BY <1>2, SeqIs
<1>4. DOMAIN Tail(s) = 1..(Len(s) - 1) /\ DOMAIN s = 1..Len(s)
  BY <1>1, <1>2
<1>5. \A i \in 1..(Len(s) - 1) : Tail(s)[i] = s[i + 1]
  BY <1>1, <1>2
<1>6. Head(s) = s[1]
  BY <1>1, <1>2
<1> QED
  BY <1>2, <1>3, <1>4, <1>5, <1>6

LEMMA RemoveAtIs ==
  ASSUME NEW s, IsSeq(s), NEW k \in DOMAIN s
  PROVE  /\ IsSeq(RemoveAt(s, k))
         /\ DOMAIN RemoveAt(s, k) = 1..(Len(s) - 1)
         /\ \A i \in DOMAIN RemoveAt(s, k) :
              RemoveAt(s, k)[i] = IF i < k THEN s[i] ELSE s[i + 1]
<1> DEFINE S == {s[i] : i \in DOMAIN s}
           a == SubSeq(s, 1, k - 1)
           b == SubSeq(s, k + 1, Len(s))
           u == Cat(a, b)
<1>1. s \in Seq(S) /\ Len(s) \in Nat /\ k \in 1..Len(s)
  BY DEF IsSeq
<1>2. /\ a \in Seq(S) /\ Len(a) = k - 1
      /\ \A i \in 1..(k - 1) : a[i] = s[i]
  BY <1>1, SubSeqProperties
<1>3. /\ b \in Seq(S) /\ Len(b) = Len(s) - k
      /\ \A i \in 1..(Len(s) - k) : b[i] = s[k + i]
  <2> DEFINE m == k + 1
             n == Len(s)
  <2>1. m \in Int /\ n \in Int /\ \A i \in m..n : s[i] \in S
    BY <1>1
  <2>2. b = SubSeq(s, m, n)
    OBVIOUS
  <2>3. /\ m <= n => n - m + 1 = Len(s) - k
        /\ ~(m <= n) => Len(s) - k = 0
        /\ 1..(n - m + 1) = 1..(Len(s) - k)
        /\ \A i \in 1..(Len(s) - k) : m + i - 1 = k + i
    <3>1. n - m + 1 = Len(s) - k /\ (~(m <= n) => Len(s) - k = 0)
      BY ONLY <1>1, SMTT(30)
    <3>2. \A i \in 1..(Len(s) - k) : m + i - 1 = k + i
      BY ONLY <1>1, SMTT(30)
    <3> HIDE DEF m, n
    <3> QED
      BY ONLY <3>1, <3>2, ZenonT(30)
  <2> HIDE DEF m, n, b, S
  <2>4. /\ b \in Seq(S) /\ Len(b) = IF m <= n THEN n - m + 1 ELSE 0
        /\ \A i \in 1..(n - m + 1) : b[i] = s[m + i - 1]
    <3>1. /\ SubSeq(s, m, n) \in Seq(S)
          /\ Len(SubSeq(s, m, n)) = IF m <= n THEN n - m + 1 ELSE 0
          /\ \A i \in 1..(n - m + 1) : SubSeq(s, m, n)[i] = s[m + i - 1]
      BY ONLY <2>1, SubSeqProperties
    <3> QED
      BY ONLY <2>2, <3>1
  <2>5. Len(b) = Len(s) - k
    <3>1. CASE m <= n
      BY ONLY <3>1, <2>3, <2>4
    <3>2. CASE ~(m <= n)
      BY ONLY <3>2, <2>3, <2>4
    <3> QED
      BY ONLY <3>1, <3>2
  <2>6. ASSUME NEW i \in 1..(Len(s) - k)
        PROVE  b[i] = s[k + i]
    <3>1. i \in 1..(n - m + 1) /\ m + i - 1 = k + i
      BY ONLY <2>3, i \in 1..(Len(s) - k), ZenonT(30)
    <3>2. b[i] = s[m + i - 1]
      BY ONLY <3>1, <2>4, ZenonT(30)
    <3> QED
      BY ONLY <3>1, <3>2, ZenonT(30)
  <2> QED
    BY ONLY <2>4, <2>5, <2>6, ZenonT(30)
<1>u. u = Cat(a, b)
  OBVIOUS
<1> HIDE DEF a, b, u
<1>a. IsSeq(a) /\ IsSeq(b)
  BY <1>2, <1>3, SeqIs
<1>b. (k - 1) + (Len(s) - k) = Len(s) - 1
  BY <1>1
<1>c. /\ IsSeq(u) /\ Len(u) = Len(a) + Len(b)
      /\ \A i \in DOMAIN a : u[i] = a[i]
      /\ \A i \in DOMAIN b : u[Len(a) + i] = b[i]
  BY <1>a, <1>u, ConcatIs
<1>d. DOMAIN a = 1..(k - 1) /\ DOMAIN b = 1..(Len(s) - k)
  BY <1>a, <1>2, <1>3, SeqFacts
<1>4. /\ \A i \in 1..(k - 1) : u[i] = a[i]
      /\ \A i \in 1..(Len(s) - k) : u[(k - 1) + i] = b[i]
  BY <1>2, <1>c, <1>d
<1>5. DOMAIN u = 1..(Len(s) - 1) /\ IsSeq(u)
  BY <1>2, <1>3, <1>b, <1>c, SeqFacts
<1>6. ASSUME NEW i \in 1..(Len(s) - 1)
      PROVE  u[i] = IF i < k THEN s[i] ELSE s[i + 1]
  <2>1. CASE i < k
    <3>1. i \in 1..(k - 1)
      BY <2>1, <1>1
    <3>2. u[i] = a[i] /\ a[i] = s[i]
      BY <3>1, <1>2, <1>4
    <3> QED
      BY <2>1, <3>2
  <2>2. CASE ~(i < k)
    <3>1. i - (k - 1) \in 1..(Len(s) - k) /\ (k - 1) + (i - (k - 1)) = i
          /\ k + (i - (k - 1)) = i + 1
      BY ONLY <2>2, <1>1, i \in 1..(Len(s) - 1), SMTT(30)
    <3>2. u[(k - 1) + (i - (k - 1))] = b[i - (k - 1)]
      BY <3>1, <1>4
    <3>3. b[i - (k - 1)] = s[k + (i - (k - 1))]
      BY <3>1, <1>3
    <3> QED
      BY <3>1, <3>2, <3>3, <2>2
  <2> QED
    BY <2>1, <2>2
<1>7. RemoveAt(s, k) = u
  BY DEF RemoveAt, a, b, u, Cat
<1> QED
  BY <1>5, <1>6, <1>7

LEMMA AscendingIs ==
  ASSUME NEW I, IsFiniteSet(I)
  PROVE  IsSeq(Ascending(I))
<1>1. Cardinality(I) \in Nat
  BY FS_CardinalityType
<1> QED
  BY <1>1, TabulateIs DEF Ascending

-----------------------------------------------------------------------------
(* Counting calls.                                                          *)

\* The calls of s that are about f.
About(s, f) == {i \in DOMAIN s : s[i].name = f}
Count(s, f) == Cardinality(About(s, f))

LEMMA CountType ==
  ASSUME NEW s, IsSeq(s), NEW f
  PROVE  IsFiniteSet(About(s, f)) /\ Count(s, f) \in Nat
<1>a. Len(s) \in Nat /\ DOMAIN s = 1..Len(s) /\ 1 \in Int /\ Len(s) \in Int
  BY SeqFacts
<1>b. IsFiniteSet(1..Len(s))
  BY <1>a, FS_Interval
<1>1. IsFiniteSet(1..Len(s)) /\ About(s, f) \in SUBSET (1..Len(s))
  BY <1>a, <1>b DEF About
<1>2. IsFiniteSet(About(s, f))
  BY <1>1, FS_Subset
<1> QED
  BY <1>2, FS_CardinalityType DEF Count

\* A call that is taken out of the list is about one file.
LEMMA CountRemove ==
  ASSUME NEW s, IsSeq(s), NEW k \in DOMAIN s, NEW f
  PROVE  /\ Count(s, f) <= Count(RemoveAt(s, k), f) + 1
         /\ s[k].name # f => Count(s, f) <= Count(RemoveAt(s, k), f)
<1> DEFINE r == RemoveAt(s, k)
           A == About(s, f) \ {k}
           g == [i \in A |-> IF i < k THEN i ELSE i - 1]
<1>1. /\ Len(s) \in Nat /\ DOMAIN s = 1..Len(s) /\ k \in 1..Len(s)
      /\ IsSeq(r) /\ DOMAIN r = 1..(Len(s) - 1)
      /\ \A i \in DOMAIN r : r[i] = IF i < k THEN s[i] ELSE s[i + 1]
  BY SeqFacts, RemoveAtIs
<1> HIDE DEF r
<1>2. \A i \in A : /\ i \in 1..Len(s) /\ i # k /\ s[i].name = f
                   /\ g[i] = IF i < k THEN i ELSE i - 1
  BY <1>1 DEF About
<1>3. \A i \in A : g[i] \in About(r, f)
  <2> TAKE i \in A
  <2>1. CASE i < k
    <3>1. g[i] = i /\ i \in 1..(Len(s) - 1)
      BY <2>1, <1>1, <1>2
    <3>2. r[i] = s[i]
      BY <3>1, <2>1, <1>1
    <3> QED
      BY <3>1, <3>2, <1>1, <1>2 DEF About
  <2>2. CASE ~(i < k)
    <3>1. g[i] = i - 1 /\ i - 1 \in 1..(Len(s) - 1) /\ ~(i - 1 < k) /\ (i - 1) + 1 = i
      BY <2>2, <1>1, <1>2
    <3>2. r[i - 1] = s[i]
      BY <3>1, <1>1
    <3> QED
      BY <3>1, <3>2, <1>1, <1>2 DEF About
  <2> QED
    BY <2>1, <2>2
<1>4. \A i, j \in A : g[i] = g[j] => i = j
  BY <1>1, <1>2
<1>5. g \in Injection(A, About(r, f))
  <2>1. g \in [A -> About(r, f)] /\ DOMAIN g = A
    BY <1>3
  <2> QED
    BY <2>1, <1>4 DEF Injection, IsInjective
<1>6. /\ IsFiniteSet(About(s, f)) /\ Count(s, f) \in Nat
      /\ IsFiniteSet(About(r, f)) /\ Count(r, f) \in Nat
  BY <1>1, CountType
<1>7. Cardinality(A) <= Count(r, f)
  BY <1>5, <1>6, FS_Injection DEF Count
<1>8. Cardinality(A) = IF k \in About(s, f) THEN Count(s, f) - 1 ELSE Count(s, f)
  BY <1>6, FS_RemoveElement DEF Count
<1>9. s[k].name # f => k \notin About(s, f)
  BY DEF About
<1>10. /\ Count(s, f) <= Count(r, f) + 1
       /\ s[k].name # f => Count(s, f) <= Count(r, f)
  BY <1>6, <1>7, <1>8, <1>9
<1> QED
  BY <1>10 DEF r

LEMMA CountConcat ==
  ASSUME NEW s, NEW t, IsSeq(s), IsSeq(t), NEW f
  PROVE  /\ Count(s, f) <= Count(s \o t, f)
         /\ (\A i \in DOMAIN t : t[i].name = f) => Len(t) <= Count(s \o t, f)
<1> DEFINE u == Cat(s, t)
<1>u. u = Cat(s, t)
  OBVIOUS
<1> HIDE DEF u
<1>1. /\ IsSeq(u) /\ Len(u) = Len(s) + Len(t)
      /\ \A k \in DOMAIN s : k \in DOMAIN u /\ u[k] = s[k]
      /\ \A k \in DOMAIN t : Len(s) + k \in DOMAIN u /\ u[Len(s) + k] = t[k]
  BY <1>u, ConcatIs
<1>2. Len(s) \in Nat /\ Len(t) \in Nat /\ DOMAIN t = 1..Len(t)
  BY SeqFacts
<1> DEFINE g == [i \in 1..Len(t) |-> Len(s) + i]
<1>3. IsFiniteSet(About(u, f)) /\ Count(u, f) \in Nat
  BY <1>1, CountType
<1>4. Count(s, f) <= Count(u, f)
  <2>1. About(s, f) \in SUBSET About(u, f)
    BY <1>1 DEF About
  <2> QED
    BY <2>1, <1>3, FS_Subset DEF Count
<1>5. ASSUME \A i \in DOMAIN t : t[i].name = f
      PROVE  Len(t) <= Count(u, f)
  <2>1. \A i \in 1..Len(t) : g[i] \in About(u, f)
    BY <1>1, <1>2, <1>5 DEF About
  <2>2. \A i, j \in 1..Len(t) : g[i] = g[j] => i = j
    BY <1>2
  <2>3. g \in [1..Len(t) -> About(u, f)] /\ DOMAIN g = 1..Len(t)
    BY <2>1
  <2>4. g \in Injection(1..Len(t), About(u, f))
    BY <2>2, <2>3 DEF Injection, IsInjective
  <2>5. Cardinality(1..Len(t)) <= Count(u, f)
    BY <2>4, <1>3, FS_Injection DEF Count
  <2>a. 1 \in Int /\ Len(t) \in Int
    BY <1>2
  <2>b. Cardinality(1..Len(t)) = IF 1 > Len(t) THEN 0 ELSE Len(t) - 1 + 1
    BY <2>a, FS_Interval
  <2>6. Cardinality(1..Len(t)) = Len(t)
    BY <1>2, <2>b
  <2> QED
    BY <2>5, <2>6
<1> QED
  BY <1>4, <1>5 DEF u, Cat

-----------------------------------------------------------------------------
(* Channels.                                                                *)

LEMMA PacketFields ==
  ASSUME NEW fun, NEW req, NEW f, NEW ret, NEW file
  PROVE  /\ Packet(fun, req, f, ret, file).fun = fun
         /\ Packet(fun, req, f, ret, file).req = req
         /\ Packet(fun, req, f, ret, file).name = f
         /\ Packet(fun, req, f, ret, file).ret = ret
         /\ Packet(fun, req, f, ret, file).file = file
  BY DEF Packet

LEMMA RetOK ==
  ASSUME NEW req, NEW ret
  PROVE  PacketOK(Ret(req, ret))
<1>1. Ret(req, ret).fun = "RPC_BACK"
  BY PacketFields DEF Ret
<1> QED
  BY <1>1 DEF PacketOK, Funs

\* A server is no client.
LEMMA NodesDiffer ==
  /\ \A m \in MServs, c \in Clients : m # c
  /\ \A d \in DServs, c \in Clients : d # c
  /\ \A m \in MServs, q \in Servers : <<m, q>> \in Pairs /\ <<q, m>> \in Pairs
  /\ \A m \in MServs, c \in Clients : <<m, c>> \in Pairs /\ <<c, m>> \in Pairs
  BY CreateAssumption DEF Servers, Nodes, Pairs

LEMMA PacketsConcat ==
  ASSUME NEW s, NEW t, PacketsOK(s), PacketsOK(t)
  PROVE  PacketsOK(s \o t)
<1> DEFINE u == Cat(s, t)
<1>u. u = Cat(s, t)
  OBVIOUS
<1> HIDE DEF u
<1>1. IsSeq(s) /\ IsSeq(t)
  BY DEF PacketsOK
<1>2. IsSeq(u)
  BY <1>u, <1>1, ConcatIs
<1>3. ASSUME NEW i \in DOMAIN u PROVE PacketOK(u[i])
  <2>1. \/ i \in DOMAIN s /\ u[i] = s[i]
        \/ i - Len(s) \in DOMAIN t /\ u[i] = t[i - Len(s)]
    BY <1>u, <1>1, ConcatFrom
  <2> QED
    BY <2>1 DEF PacketsOK
<1> QED
  BY <1>u, <1>2, <1>3 DEF PacketsOK, Cat

LEMMA OnePacket ==
  ASSUME NEW x, PacketOK(x)
  PROVE  PacketsOK(<<x>>)
<1>1. <<x>> \in Seq({x}) /\ DOMAIN <<x>> = {1} /\ <<x>>[1] = x
  OBVIOUS
<1> QED
  BY <1>1, SeqIs DEF PacketsOK

LEMMA SendOK ==
  ASSUME NEW ch, ChanOK(ch), NEW p, NEW q, <<p, q>> \in Pairs, NEW x, PacketOK(x)
  PROVE  /\ ChanOK(Send(ch, p, q, <<x>>))
         /\ Send(ch, p, q, <<x>>)[<<p, q>>] = Cat(ch[<<p, q>>], <<x>>)
         /\ \A e \in Pairs : e # <<p, q>> => Send(ch, p, q, <<x>>)[e] = ch[e]
<1> DEFINE new == Send(ch, p, q, <<x>>)
<1>1. ch = [e \in Pairs |-> ch[e]] /\ \A e \in Pairs : PacketsOK(ch[e])
  BY DEF ChanOK
<1>2. PacketsOK(Cat(ch[<<p, q>>], <<x>>))
  BY <1>1, OnePacket, PacketsConcat DEF Cat
<1>3. new = [e \in Pairs |-> IF e = <<p, q>> THEN Cat(ch[<<p, q>>], <<x>>) ELSE ch[e]]
  BY <1>1 DEF Send, Cat
<1> HIDE DEF new
<1>4. /\ DOMAIN new = Pairs /\ new[<<p, q>>] = Cat(ch[<<p, q>>], <<x>>)
      /\ \A e \in Pairs : e # <<p, q>> => new[e] = ch[e]
      /\ new = [e \in Pairs |-> new[e]]
  BY <1>3
<1>5. ChanOK(new)
  BY <1>1, <1>2, <1>4 DEF ChanOK
<1> QED
  BY <1>4, <1>5 DEF new

LEMMA ReceiveOK ==
  ASSUME ChanOK(chan), NEW p, NEW q, <<p, q>> \in Pairs, chan[<<p, q>>] # <<>>
  PROVE  /\ ChanOK(Receive(p, q))
         /\ Receive(p, q)[<<p, q>>] = Tail(chan[<<p, q>>])
         /\ \A e \in Pairs : e # <<p, q>> => Receive(p, q)[e] = chan[e]
         /\ PacketOK(Head(chan[<<p, q>>]))
<1> DEFINE new == Receive(p, q)
           s == chan[<<p, q>>]
<1>1. chan = [e \in Pairs |-> chan[e]] /\ \A e \in Pairs : PacketsOK(chan[e])
  BY DEF ChanOK
<1>2. /\ IsSeq(Tail(s)) /\ 1 \in DOMAIN s /\ Head(s) = s[1]
      /\ \A i \in DOMAIN Tail(s) : i + 1 \in DOMAIN s /\ Tail(s)[i] = s[i + 1]
  BY <1>1, TailIs DEF PacketsOK
<1>3. PacketsOK(Tail(s)) /\ PacketOK(Head(s))
  BY <1>1, <1>2 DEF PacketsOK
<1>4. new = [e \in Pairs |-> IF e = <<p, q>> THEN Tail(s) ELSE chan[e]]
  BY <1>1 DEF Receive
<1> HIDE DEF new
<1>5. /\ DOMAIN new = Pairs /\ new[<<p, q>>] = Tail(s)
      /\ \A e \in Pairs : e # <<p, q>> => new[e] = chan[e]
      /\ new = [e \in Pairs |-> new[e]]
  BY <1>4
<1>6. ChanOK(new)
  BY <1>1, <1>3, <1>5 DEF ChanOK
<1> QED
  BY <1>3, <1>5, <1>6 DEF new

LEMMA CallsToOK ==
  ASSUME NEW m, NEW q, NEW to, IsSeq(to),
         NEW fun \in CallFuns, NEW f \in Names,
         NEW file, fun = "CREATE_METADATA" => file \in Files /\ file # NoFile
  PROVE  PacketsOK(CallsTo(m, q, to, fun, f, file))
<1> DEFINE I == {i \in DOMAIN to : to[i] = q}
           at == Ascending(I)
           ps == CallsTo(m, q, to, fun, f, file)
<1>1. Len(to) \in Nat /\ DOMAIN to = 1..Len(to) /\ 1 \in Int /\ Len(to) \in Int
  BY SeqFacts
<1>2. IsFiniteSet(1..Len(to)) /\ I \in SUBSET (1..Len(to))
  BY <1>1, FS_Interval
<1>3. IsFiniteSet(I)
  BY <1>2, FS_Subset
<1>4. IsSeq(at)
  BY <1>3, AscendingIs
<1>5. Len(at) \in Nat /\ DOMAIN at = 1..Len(at)
  BY <1>4, SeqFacts
<1>6. ps = [j \in DOMAIN at |-> CallPacket(m, at[j], fun, f, file)]
  BY DEF CallsTo
<1> HIDE DEF at, ps
<1>7. /\ DOMAIN ps = 1..Len(at) /\ ps = [j \in 1..Len(at) |-> ps[j]]
      /\ \A j \in 1..Len(at) : ps[j] = CallPacket(m, at[j], fun, f, file)
  BY <1>5, <1>6
<1>8. IsSeq(ps)
  BY <1>5, <1>7, TabulateIs
<1>9. \A i : PacketOK(CallPacket(m, i, fun, f, file))
  BY PacketFields DEF CallPacket, PacketOK, Funs, CallFuns
<1>10. PacketsOK(ps)
  BY <1>7, <1>8, <1>9 DEF PacketsOK
<1> QED
  BY <1>10 DEF ps

LEMMA SendCallsOK ==
  ASSUME NEW ch, ChanOK(ch), NEW m, NEW to, IsSeq(to),
         NEW fun \in CallFuns, NEW f \in Names,
         NEW file, fun = "CREATE_METADATA" => file \in Files /\ file # NoFile
  PROVE  /\ ChanOK(SendCalls(ch, m, to, fun, f, file))
         /\ \A e \in Pairs : e[1] # m => SendCalls(ch, m, to, fun, f, file)[e] = ch[e]
<1> DEFINE new == SendCalls(ch, m, to, fun, f, file)
<1>1. \A q : PacketsOK(CallsTo(m, q, to, fun, f, file))
  BY CallsToOK
<1>2. \A e \in Pairs : PacketsOK(ch[e])
  BY DEF ChanOK
<1>3. \A e \in Pairs : PacketsOK(ch[e] \o CallsTo(m, e[2], to, fun, f, file))
  BY <1>1, <1>2, PacketsConcat
<1>4. new = [e \in Pairs |-> IF e[1] = m THEN ch[e] \o CallsTo(m, e[2], to, fun, f, file)
                             ELSE ch[e]]
  BY DEF SendCalls
<1> HIDE DEF new
<1>5. /\ new = [e \in Pairs |-> new[e]]
      /\ \A e \in Pairs : e[1] = m => new[e] = ch[e] \o CallsTo(m, e[2], to, fun, f, file)
      /\ \A e \in Pairs : e[1] # m => new[e] = ch[e]
  BY <1>4
<1>6. ChanOK(new)
  BY <1>2, <1>3, <1>5 DEF ChanOK
<1> QED
  BY <1>5, <1>6 DEF new

LEMMA TellOK ==
  ASSUME NEW ch, ChanOK(ch), NEW m \in MServs, NEW cr, cr.client \in Clients, NEW ret
  PROVE  /\ ChanOK(Tell(ch, m, cr, ret))
         /\ \A e \in Pairs : e[1] # m => Tell(ch, m, cr, ret)[e] = ch[e]
<1>1. <<m, cr.client>> \in Pairs
  BY NodesDiffer
<1>2. PacketOK(Ret(cr.req_id, ret))
  BY RetOK
<1>3. /\ ChanOK(Send(ch, m, cr.client, <<Ret(cr.req_id, ret)>>))
      /\ \A e \in Pairs : e # <<m, cr.client>> =>
           Send(ch, m, cr.client, <<Ret(cr.req_id, ret)>>)[e] = ch[e]
  BY <1>1, <1>2, SendOK
<1>4. \A e \in Pairs : e[1] # m => e # <<m, cr.client>>
  OBVIOUS
<1> QED
  BY <1>3, <1>4 DEF Tell

-----------------------------------------------------------------------------
(* The tables and the lists.                                                *)

LEMMA UpdateEntry ==
  ASSUME NEW S, NEW tab \in [MServs -> [Names -> S]],
         NEW m \in MServs, NEW f \in Names, NEW x \in S,
         NEW new, new = [tab EXCEPT ![m][f] = x]
  PROVE  /\ new \in [MServs -> [Names -> S]]
         /\ new[m][f] = x
         /\ \A n \in MServs, g \in Names : n # m \/ g # f => new[n][g] = tab[n][g]
  OBVIOUS

LEMMA UpdateRow ==
  ASSUME NEW tab, tab = [n \in MServs |-> tab[n]], NEW m \in MServs, NEW x,
         NEW new, new = [tab EXCEPT ![m] = x]
  PROVE  /\ new = [n \in MServs |-> new[n]]
         /\ new[m] = x
         /\ \A n \in MServs : n # m => new[n] = tab[n]
  OBVIOUS

LEMMA NewCallsIs ==
  ASSUME NEW m, NEW to, IsSeq(to), NEW f \in Names,
         NEW fun \in CallFuns
  PROVE  /\ CallsOK(NewCalls(m, to, fun, f))
         /\ Len(NewCalls(m, to, fun, f)) = Len(to)
         /\ \A i \in DOMAIN NewCalls(m, to, fun, f) :
              /\ NewCalls(m, to, fun, f)[i].name = f
              /\ NewCalls(m, to, fun, f)[i].fun = fun
<1> DEFINE new == NewCalls(m, to, fun, f)
<1>1. Len(to) \in Nat /\ DOMAIN to = 1..Len(to)
  BY SeqFacts
<1>2. /\ DOMAIN new = 1..Len(to)
      /\ new = [i \in 1..Len(to) |-> new[i]]
      /\ \A i \in 1..Len(to) : new[i].name = f /\ new[i].fun = fun
  BY <1>1 DEF NewCalls
<1> HIDE DEF new
<1>3. IsSeq(new) /\ Len(new) = Len(to)
  BY <1>1, <1>2, TabulateIs
<1>4. CallsOK(new)
  BY <1>2, <1>3 DEF CallsOK
<1> QED
  BY <1>2, <1>3, <1>4 DEF new

LEMMA CallsConcat ==
  ASSUME NEW s, NEW t, CallsOK(s), CallsOK(t)
  PROVE  CallsOK(Cat(s, t))
<1>1. IsSeq(s) /\ IsSeq(t)
  BY DEF CallsOK
<1>2. IsSeq(Cat(s, t))
  BY <1>1, ConcatIs
<1>3. ASSUME NEW i \in DOMAIN Cat(s, t)
      PROVE  /\ Cat(s, t)[i].fun \in CallFuns
             /\ Cat(s, t)[i].name \in Names
  <2>1. \/ i \in DOMAIN s /\ Cat(s, t)[i] = s[i]
        \/ i - Len(s) \in DOMAIN t /\ Cat(s, t)[i] = t[i - Len(s)]
    BY <1>1, ConcatFrom
  <2> QED
    BY <2>1 DEF CallsOK
<1> QED
  BY <1>2, <1>3 DEF CallsOK

LEMMA CallsRemove ==
  ASSUME NEW s, CallsOK(s), NEW k \in DOMAIN s
  PROVE  /\ CallsOK(RemoveAt(s, k))
         /\ \A i \in DOMAIN RemoveAt(s, k) : \E j \in DOMAIN s : RemoveAt(s, k)[i] = s[j]
<1>1. IsSeq(s)
  BY DEF CallsOK
<1>2. /\ IsSeq(RemoveAt(s, k)) /\ DOMAIN RemoveAt(s, k) = 1..(Len(s) - 1)
      /\ \A i \in DOMAIN RemoveAt(s, k) : RemoveAt(s, k)[i] = IF i < k THEN s[i] ELSE s[i + 1]
  BY <1>1, RemoveAtIs
<1>3. DOMAIN s = 1..Len(s) /\ Len(s) \in Nat
  BY <1>1, SeqFacts
<1>4. \A i \in 1..(Len(s) - 1) : i \in DOMAIN s /\ i + 1 \in DOMAIN s
  BY <1>3
<1>5. \A i \in DOMAIN RemoveAt(s, k) : \E j \in DOMAIN s : RemoveAt(s, k)[i] = s[j]
  BY <1>2, <1>4
<1> QED
  BY <1>2, <1>5 DEF CallsOK

LEMMA ActiveFinite ==
  ASSUME TypeOK, NEW m \in MServs, NEW S \in SUBSET active[m]
  PROVE  IsFiniteSet(S)
<1>1. S \in SUBSET Servers /\ IsFiniteSet(Servers)
  BY CreateAssumption DEF TypeOK
<1> QED
  BY <1>1, FS_Subset

LEMMA OthersIs ==
  ASSUME TypeOK, NEW m \in MServs
  PROVE  IsSeq(Others(m))
<1>1. IsFiniteSet(active[m] \cap MServs)
  BY ActiveFinite
<1> QED
  BY <1>1, AscendingIs DEF Others

LEMMA MservListsAre ==
  ASSUME TypeOK, NEW m \in MServs, NEW ms \in MservLists(m)
  PROVE  ms \in Seq(MServs)
<1> DEFINE other == active[m] \cap MServs
<1>1. CASE other = {}
  <2>1. ms \in {<<m>>}
    BY <1>1 DEF MservLists
  <2>2. <<m>> \in Seq(MServs)
    OBVIOUS
  <2> QED
    BY <2>1, <2>2
<1>2. CASE other # {}
  <2>1. PICK s \in other :
          ms \in {<<m, s>> \o e : e \in UNION {[1..k -> MServs] :
                                   k \in 0..Cardinality({o \in other : o < s})}}
    BY <1>2 DEF MservLists
  <2>a. PICK e \in UNION {[1..k -> MServs] : k \in 0..Cardinality({o \in other : o < s})} :
          ms = <<m, s>> \o e
    BY <2>1
  <2>b. PICK k \in 0..Cardinality({o \in other : o < s}) : e \in [1..k -> MServs]
    BY <2>a
  <2>2. k \in Nat /\ e \in Seq(MServs) /\ <<m, s>> \in Seq(MServs)
    BY <2>b
  <2> QED
    BY <2>a, <2>2
<1> QED
  BY <1>1, <1>2

LEMMA DservListsAre ==
  ASSUME TypeOK, NEW m \in MServs, NEW ds \in DservLists(m)
  PROVE  IsSeq(ds)
<1> DEFINE d == active[m] \cap DServs
<1>1. PICK D \in SUBSET d : ds \in SetToSeqs(D)
  BY DEF DservLists, kSubset
<1>2. IsFiniteSet(D)
  BY <1>1, ActiveFinite
<1>3. Cardinality(D) \in Nat
  BY <1>2, FS_CardinalityType
<1>4. ds \in [1..Cardinality(D) -> D]
  BY <1>1 DEF SetToSeqs
<1>5. ds \in Seq(D)
  BY <1>3, <1>4
<1> QED
  BY <1>5, SeqIs

LEMMA ActiveOnesIs ==
  ASSUME NEW m, NEW ms, IsSeq(ms)
  PROVE  IsSeq(ActiveOnes(m, ms))
<1> DEFINE I == {i \in DOMAIN ms : ms[i] \in active[m]}
           at == Ascending(I)
           as == ActiveOnes(m, ms)
<1>1. Len(ms) \in Nat /\ DOMAIN ms = 1..Len(ms) /\ 1 \in Int /\ Len(ms) \in Int
  BY SeqFacts
<1>2. IsFiniteSet(1..Len(ms)) /\ I \in SUBSET (1..Len(ms))
  BY <1>1, FS_Interval
<1>3. IsFiniteSet(I)
  BY <1>2, FS_Subset
<1>4. IsSeq(at)
  BY <1>3, AscendingIs
<1>5. Len(at) \in Nat /\ DOMAIN at = 1..Len(at)
  BY <1>4, SeqFacts
<1>6. as = [j \in DOMAIN at |-> ms[at[j]]]
  BY DEF ActiveOnes
<1> HIDE DEF at, as
<1>7. DOMAIN as = 1..Len(at) /\ as = [j \in 1..Len(at) |-> as[j]]
  BY <1>5, <1>6
<1>8. IsSeq(as)
  BY <1>5, <1>7, TabulateIs
<1> QED
  BY <1>8 DEF as

-----------------------------------------------------------------------------
(* What a step does to the requests of clients.                             *)

\* The clients' packets and numbers stay.
ClientsSame ==
  /\ \A c \in Clients : req_id'[c] = req_id[c]
  /\ \A c \in Clients, m \in MServs : chan'[<<c, m>>] = chan[<<c, m>>]

\* Every entry keeps its request, or goes.
EntriesSame ==
  \A m \in MServs, f \in Names : file_creating'[m][f] # NoCreating =>
    /\ file_creating[m][f] # NoCreating
    /\ file_creating'[m][f].client = file_creating[m][f].client
    /\ file_creating'[m][f].req_id = file_creating[m][f].req_id

\* The mserv m takes the first packet of c.
Takes(m, c) ==
  /\ \A d \in Clients : req_id'[d] = req_id[d]
  /\ chan[<<c, m>>] # <<>>
  /\ chan'[<<c, m>>] = Tail(chan[<<c, m>>])
  /\ \A d \in Clients, n \in MServs : <<d, n>> # <<c, m>> => chan'[<<d, n>>] = chan[<<d, n>>]

\* One more answer of m.
Answers1(m, c, r, f, ok) ==
  told' = [told EXCEPT ![m] = Append(@, [client |-> c, req |-> r, name |-> f, ok |-> ok])]

Stays == ClientsSame /\ EntriesSame /\ told' = told

Finishes(m, f, ok) ==
  /\ ClientsSame /\ EntriesSame
  /\ file_creating[m][f] # NoCreating /\ file_creating'[m][f] = NoCreating
  /\ Answers1(m, file_creating[m][f].client, file_creating[m][f].req_id, f, ok)
  /\ ok => file_meta_metadata[m][f] # NoFile

Refuses(m, c) ==
  /\ Takes(m, c) /\ EntriesSame
  /\ Answers1(m, c, Head(chan[<<c, m>>]).req, Head(chan[<<c, m>>]).name, FALSE)

Enters(m, c) ==
  LET f == Head(chan[<<c, m>>]).name
  IN /\ Takes(m, c) /\ told' = told
     /\ file_creating[m][f] = NoCreating
     /\ file_meta_metadata[m][f] = NoFile
     /\ file_creating'[m][f].client = c
     /\ file_creating'[m][f].req_id = Head(chan[<<c, m>>]).req
     /\ \A n \in MServs, g \in Names : n # m \/ g # f =>
          file_creating'[n][g] = file_creating[n][g]

Asks(c, m) ==
  /\ req_id'[c] = req_id[c] + 1
  /\ \A d \in Clients : d # c => req_id'[d] = req_id[d]
  /\ \E x : /\ chan'[<<c, m>>] = Cat(chan[<<c, m>>], <<x>>)
            /\ x.fun = "CREATE" /\ x.req = req_id[c]
  /\ \A d \in Clients, n \in MServs : <<d, n>> # <<c, m>> => chan'[<<d, n>>] = chan[<<d, n>>]
  /\ file_creating' = file_creating /\ told' = told

\* A descriptor is never forgotten.
Kept ==
  \A m \in MServs, f \in Names : file_meta_metadata[m][f] # NoFile =>
    file_meta_metadata'[m][f] # NoFile

\* The invariant for requests, with the request named.
LEMMA NamedRequests ==
  ASSUME TypeOK, EntryReqs, ToldReqs
  PROVE  /\ \A m \in MServs, f \in Names : \A c, r :
              InEntry(c, r, m, f) => EntryOK(c, r, m, f)
         /\ \A m \in MServs : \A i \in DOMAIN told[m] :
              /\ told[m][i].client \in Clients /\ told[m][i].req \in Nat
              /\ ToldOK(told[m][i].client, told[m][i].req, m)
<1>1. \A m \in MServs : \A i \in DOMAIN told[m] :
        told[m][i].client \in Clients /\ told[m][i].req \in Nat
  <2> TAKE m \in MServs
  <2>1. told[m] \in Seq(Answers)
    BY DEF TypeOK
  <2>2. \A i \in DOMAIN told[m] : told[m][i] \in Answers
    BY <2>1
  <2> QED
    BY <2>2 DEF Answers
<1> QED
  BY <1>1 DEF EntryReqs, ToldReqs, InEntry

\* To show it after a step.
LEMMA EntryReqsNext ==
  ASSUME \A m \in MServs, f \in Names : \A c, r : InEntry(c, r, m, f)' => EntryOK(c, r, m, f)'
  PROVE  EntryReqs'
<1> SUFFICES ASSUME NEW m \in MServs, NEW f \in Names, file_creating'[m][f] # NoCreating,
                    NEW c, NEW r, c = file_creating'[m][f].client,
                    r = file_creating'[m][f].req_id
             PROVE  EntryOK(c, r, m, f)'
  BY DEF EntryReqs, EntryOK, InPacket, InEntry
<1> QED
  BY DEF InEntry

LEMMA ToldReqsNext ==
  ASSUME \A m \in MServs : \A i \in DOMAIN told'[m] : \A c, r :
           c = told'[m][i].client /\ r = told'[m][i].req => ToldOK(c, r, m)'
  PROVE  ToldReqs'
<1> SUFFICES ASSUME NEW m \in MServs, NEW i \in DOMAIN told'[m],
                    NEW c, NEW r, c = told'[m][i].client, r = told'[m][i].req
             PROVE  ToldOK(c, r, m)'
  BY DEF ToldReqs, ToldOK, InPacket, InEntry
<1> QED
  OBVIOUS

LEMMA AppendTold ==
  ASSUME TypeOK, NEW m \in MServs, NEW c, NEW r, NEW f, NEW ok, Answers1(m, c, r, f, ok)
  PROVE  /\ \A n \in MServs : n # m => told'[n] = told[n]
         /\ \A i \in DOMAIN told[m] : i \in DOMAIN told'[m] /\ told'[m][i] = told[m][i]
         /\ \A i \in DOMAIN told'[m] :
              \/ i \in DOMAIN told[m]
              \/ /\ i = Len(told[m]) + 1 /\ i \notin DOMAIN told[m]
                 /\ told'[m][i].client = c /\ told'[m][i].req = r
                 /\ told'[m][i].name = f /\ told'[m][i].ok = ok
<1> DEFINE x == [client |-> c, req |-> r, name |-> f, ok |-> ok]
<1>1. told \in [MServs -> Seq(Answers)] /\ told[m] \in Seq(Answers)
  BY DEF TypeOK
<1>2. told'[m] = Append(told[m], x) /\ \A n \in MServs : n # m => told'[n] = told[n]
  BY <1>1 DEF Answers1
<1>3. x.client = c /\ x.req = r /\ x.name = f /\ x.ok = ok
  OBVIOUS
<1> HIDE DEF x
<1>4. /\ Len(told[m]) \in Nat /\ DOMAIN told[m] = 1..Len(told[m])
      /\ DOMAIN told'[m] = 1..(Len(told[m]) + 1)
      /\ \A i \in 1..Len(told[m]) : told'[m][i] = told[m][i]
      /\ told'[m][Len(told[m]) + 1] = x
  BY <1>1, <1>2
<1>5. \A i \in 1..(Len(told[m]) + 1) :
        i \in 1..Len(told[m]) \/ (i = Len(told[m]) + 1 /\ i \notin 1..Len(told[m]))
  BY <1>4
<1>6. \A i \in 1..Len(told[m]) : i \in 1..(Len(told[m]) + 1)
  BY <1>4
<1> QED
  BY <1>2, <1>3, <1>4, <1>5, <1>6

\* One more answer to a request that m has not answered.
LEMMA AnsweredOnceNext ==
  ASSUME TypeOK, AnsweredOnce, NEW m \in MServs, NEW c, NEW r, NEW f, NEW ok,
         Answers1(m, c, r, f, ok),
         \A i \in DOMAIN told[m] : ~(told[m][i].client = c /\ told[m][i].req = r)
  PROVE  AnsweredOnce'
<1>1. /\ \A n \in MServs : n # m => told'[n] = told[n]
      /\ \A i \in DOMAIN told[m] : told'[m][i] = told[m][i]
      /\ \A i \in DOMAIN told'[m] :
           \/ i \in DOMAIN told[m]
           \/ /\ i = Len(told[m]) + 1
              /\ told'[m][i].client = c /\ told'[m][i].req = r
  BY AppendTold
<1> SUFFICES ASSUME NEW n \in MServs, NEW i \in DOMAIN told'[n], NEW j \in DOMAIN told'[n],
                    told'[n][i].client = told'[n][j].client,
                    told'[n][i].req = told'[n][j].req
             PROVE  i = j
  BY DEF AnsweredOnce
<1>2. CASE n # m
  BY <1>1, <1>2 DEF AnsweredOnce
<1>3. CASE n = m /\ i \in DOMAIN told[m] /\ j \in DOMAIN told[m]
  BY <1>1, <1>3 DEF AnsweredOnce
<1>4. CASE n = m /\ i \in DOMAIN told[m] /\ j \notin DOMAIN told[m]
  BY <1>1, <1>4
<1>5. CASE n = m /\ i \notin DOMAIN told[m] /\ j \in DOMAIN told[m]
  BY <1>1, <1>5
<1>6. CASE n = m /\ i \notin DOMAIN told[m] /\ j \notin DOMAIN told[m]
  BY <1>1, <1>6
<1> QED
  BY <1>2, <1>3, <1>4, <1>5, <1>6

LEMMA PacketReqsSame ==
  ASSUME PacketReqs, ClientsSame
  PROVE  PacketReqs'
<1> SUFFICES ASSUME NEW c \in Clients, NEW m \in MServs, NEW i \in DOMAIN chan'[<<c, m>>]
             PROVE  /\ chan'[<<c, m>>][i].fun = "CREATE"
                    /\ chan'[<<c, m>>][i].req \in Nat \ {0}
                    /\ chan'[<<c, m>>][i].req < req_id'[c]
                    /\ \A j \in DOMAIN chan'[<<c, m>>] :
                         chan'[<<c, m>>][i].req = chan'[<<c, m>>][j].req => i = j
  BY DEF PacketReqs
<1>1. chan'[<<c, m>>] = chan[<<c, m>>] /\ req_id'[c] = req_id[c]
  BY DEF ClientsSame
<1> QED
  BY <1>1 DEF PacketReqs

LEMMA RequestsStays ==
  ASSUME TypeOK, Requests, ClientsSame, EntriesSame, told' = told
  PROVE  Requests'
<1>1. PacketReqs'
  BY PacketReqsSame DEF Requests
<1>2. /\ \A c \in Clients, m \in MServs : \A r : InPacket(c, r, m)' <=> InPacket(c, r, m)
      /\ \A m \in MServs, f \in Names : \A c, r : InEntry(c, r, m, f)' => InEntry(c, r, m, f)
      /\ \A c \in Clients : req_id'[c] = req_id[c]
  <2>1. \A c \in Clients, m \in MServs : \A r : InPacket(c, r, m)' <=> InPacket(c, r, m)
    BY DEF ClientsSame, InPacket
  <2>2. \A m \in MServs, f \in Names : \A c, r : InEntry(c, r, m, f)' => InEntry(c, r, m, f)
    BY DEF EntriesSame, InEntry
  <2> QED
    BY <2>1, <2>2 DEF ClientsSame
<1>3. /\ \A m \in MServs, f \in Names : \A c, r : InEntry(c, r, m, f) => EntryOK(c, r, m, f)
      /\ \A m \in MServs : \A i \in DOMAIN told[m] :
           /\ told[m][i].client \in Clients
           /\ ToldOK(told[m][i].client, told[m][i].req, m)
  BY NamedRequests DEF Requests
<1>4. EntryReqs'
  <2> SUFFICES ASSUME NEW m \in MServs, NEW f \in Names, NEW c, NEW r, InEntry(c, r, m, f)'
               PROVE  EntryOK(c, r, m, f)'
    BY EntryReqsNext
  <2>1. EntryOK(c, r, m, f)
    BY <1>2, <1>3
  <2> QED
    BY <2>1, <1>2 DEF EntryOK
<1>5. ToldReqs'
  <2> SUFFICES ASSUME NEW m \in MServs, NEW i \in DOMAIN told'[m], NEW c, NEW r,
                      c = told'[m][i].client, r = told'[m][i].req
               PROVE  ToldOK(c, r, m)'
    BY ToldReqsNext
  <2>1. ToldOK(c, r, m) /\ c \in Clients
    BY <1>3
  <2> QED
    BY <2>1, <1>2 DEF ToldOK
<1>6. AnsweredOnce'
  BY DEF Requests, AnsweredOnce
<1> QED
  BY <1>1, <1>4, <1>5, <1>6 DEF Requests

LEMMA RequestsFinishes ==
  ASSUME TypeOK, Requests, NEW m \in MServs, NEW f \in Names, NEW ok, Finishes(m, f, ok)
  PROVE  Requests'
<1> DEFINE c0 == file_creating[m][f].client
           r0 == file_creating[m][f].req_id
<1>1. PacketReqs'
  BY PacketReqsSame DEF Requests, Finishes
<1>2. /\ \A c \in Clients, n \in MServs : \A r : InPacket(c, r, n)' <=> InPacket(c, r, n)
      /\ \A n \in MServs, g \in Names : \A c, r : InEntry(c, r, n, g)' =>
           InEntry(c, r, n, g) /\ ~(n = m /\ g = f)
      /\ \A c \in Clients : req_id'[c] = req_id[c]
  <2>1. \A c \in Clients, n \in MServs : \A r : InPacket(c, r, n)' <=> InPacket(c, r, n)
    BY DEF Finishes, ClientsSame, InPacket
  <2>2. \A n \in MServs, g \in Names : \A c, r : InEntry(c, r, n, g)' => InEntry(c, r, n, g)
    BY DEF Finishes, EntriesSame, InEntry
  <2>3. \A c, r : ~InEntry(c, r, m, f)'
    BY DEF Finishes, InEntry
  <2> QED
    BY <2>1, <2>2, <2>3 DEF Finishes, ClientsSame
<1>3. /\ \A n \in MServs, g \in Names : \A c, r : InEntry(c, r, n, g) => EntryOK(c, r, n, g)
      /\ \A n \in MServs : \A i \in DOMAIN told[n] :
           /\ told[n][i].client \in Clients
           /\ ToldOK(told[n][i].client, told[n][i].req, n)
  BY NamedRequests DEF Requests
<1>4. InEntry(c0, r0, m, f)
  BY DEF InEntry, Finishes
<1>5. EntryOK(c0, r0, m, f)
  BY <1>3, <1>4
<1> HIDE DEF c0, r0
<1>6. Answers1(m, c0, r0, f, ok)
  BY DEF Finishes, c0, r0
<1>7. EntryReqs'
  <2> SUFFICES ASSUME NEW n \in MServs, NEW g \in Names, NEW c, NEW r, InEntry(c, r, n, g)'
               PROVE  EntryOK(c, r, n, g)'
    BY EntryReqsNext
  <2>1. EntryOK(c, r, n, g)
    BY <1>2, <1>3
  <2> QED
    BY <2>1, <1>2 DEF EntryOK
<1>8. ToldReqs'
  <2> SUFFICES ASSUME NEW n \in MServs, NEW i \in DOMAIN told'[n], NEW c, NEW r,
                      c = told'[n][i].client, r = told'[n][i].req
               PROVE  ToldOK(c, r, n)'
    BY ToldReqsNext
  <2>1. \/ i \in DOMAIN told[n] /\ told'[n][i] = told[n][i]
        \/ n = m /\ c = c0 /\ r = r0
    BY <1>6, AppendTold
  <2>2. CASE i \in DOMAIN told[n] /\ told'[n][i] = told[n][i]
    <3>1. ToldOK(c, r, n) /\ c \in Clients
      BY <2>2, <1>3
    <3> QED
      BY <3>1, <1>2 DEF ToldOK
  <2>3. CASE n = m /\ c = c0 /\ r = r0
    <3>1. c \in Clients /\ r < req_id[c] /\ ~InPacket(c, r, m)
      BY <2>3, <1>5 DEF EntryOK
    <3>2. \A g \in Names : InEntry(c, r, m, g) => g = f
      BY <2>3, <1>5 DEF EntryOK
    <3> QED
      BY <2>3, <3>1, <3>2, <1>2 DEF ToldOK
  <2> QED
    BY <2>1, <2>2, <2>3
<1>9. AnsweredOnce'
  <2>1. \A i \in DOMAIN told[m] : ~(told[m][i].client = c0 /\ told[m][i].req = r0)
    BY <1>3, <1>4 DEF ToldOK
  <2> QED
    BY <2>1, <1>6, AnsweredOnceNext DEF Requests
<1> QED
  BY <1>1, <1>7, <1>8, <1>9 DEF Requests

\* The packet m takes is the only one with its number.
LEMMA TakesFacts ==
  ASSUME TypeOK, PacketReqs, NEW m \in MServs, NEW c \in Clients, Takes(m, c)
  PROVE  /\ PacketReqs'
         /\ \A d \in Clients, n \in MServs : \A r : InPacket(d, r, n)' => InPacket(d, r, n)
         /\ InPacket(c, Head(chan[<<c, m>>]).req, m)
         /\ \A r : r = Head(chan[<<c, m>>]).req => ~InPacket(c, r, m)'
         /\ Head(chan[<<c, m>>]).req \in Nat \ {0}
         /\ Head(chan[<<c, m>>]).req < req_id[c]
<1> DEFINE s == chan[<<c, m>>]
           h == Head(s)
<1>1. IsSeq(s) /\ s # <<>>
  BY NodesDiffer DEF TypeOK, ChanOK, PacketsOK, Takes
<1>2. chan'[<<c, m>>] = Tail(s) /\ \A d \in Clients : req_id'[d] = req_id[d]
  BY DEF Takes
<1>3. \A d \in Clients, n \in MServs : <<d, n>> # <<c, m>> => chan'[<<d, n>>] = chan[<<d, n>>]
  BY DEF Takes
<1>4. \A i \in DOMAIN s : /\ s[i].fun = "CREATE" /\ s[i].req \in Nat \ {0}
                          /\ s[i].req < req_id[c]
                          /\ \A j \in DOMAIN s : s[i].req = s[j].req => i = j
  BY DEF PacketReqs
<1> HIDE DEF s
<1>5. /\ IsSeq(Tail(s)) /\ 1 \in DOMAIN s /\ h = s[1]
      /\ \A i \in DOMAIN Tail(s) : i + 1 \in DOMAIN s /\ i + 1 # 1 /\ Tail(s)[i] = s[i + 1]
  BY <1>1, TailIs
<1>6. \A i \in DOMAIN Tail(s) : i \in Nat
  BY <1>5, SeqFacts
<1>7. ASSUME NEW d \in Clients, NEW n \in MServs, NEW i \in DOMAIN chan'[<<d, n>>]
      PROVE  /\ chan'[<<d, n>>][i].fun = "CREATE"
             /\ chan'[<<d, n>>][i].req \in Nat \ {0}
             /\ chan'[<<d, n>>][i].req < req_id'[d]
             /\ \A j \in DOMAIN chan'[<<d, n>>] :
                  chan'[<<d, n>>][i].req = chan'[<<d, n>>][j].req => i = j
  <2>1. CASE <<d, n>> # <<c, m>>
    <3>1. chan'[<<d, n>>] = chan[<<d, n>>] /\ req_id'[d] = req_id[d]
      BY <2>1, <1>2, <1>3
    <3> QED
      BY <3>1 DEF PacketReqs
  <2>2. CASE <<d, n>> = <<c, m>>
    <3>1. chan'[<<d, n>>] = Tail(s) /\ d = c
      BY <2>2, <1>2
    <3>2. ASSUME NEW j \in DOMAIN Tail(s), Tail(s)[i].req = Tail(s)[j].req
          PROVE  i = j
      <4>1. s[i + 1].req = s[j + 1].req /\ i + 1 \in DOMAIN s /\ j + 1 \in DOMAIN s
        BY <3>1, <3>2, <1>5
      <4>2. i + 1 = j + 1
        BY <4>1, <1>4
      <4> QED
        BY <4>2, <3>1, <1>6
    <3> QED
      BY <3>1, <3>2, <1>2, <1>4, <1>5
  <2> QED
    BY <2>1, <2>2
<1>8. PacketReqs'
  BY <1>7 DEF PacketReqs
<1>9. ASSUME NEW d \in Clients, NEW n \in MServs, NEW r, InPacket(d, r, n)'
      PROVE  InPacket(d, r, n)
  <2>1. PICK i \in DOMAIN chan'[<<d, n>>] : chan'[<<d, n>>][i].req = r
    BY <1>9 DEF InPacket
  <2>2. CASE <<d, n>> # <<c, m>>
    BY <2>1, <2>2, <1>3 DEF InPacket
  <2>3. CASE <<d, n>> = <<c, m>>
    <3>1. i \in DOMAIN Tail(s) /\ Tail(s)[i].req = r
      BY <2>1, <2>3, <1>2
    <3>2. i + 1 \in DOMAIN s /\ s[i + 1].req = r
      BY <3>1, <1>5
    <3> QED
      BY <3>2, <2>3 DEF InPacket, s
  <2> QED
    BY <2>2, <2>3
<1>10. InPacket(c, h.req, m)
  BY <1>5 DEF InPacket, s
<1>11. ~ \E i \in DOMAIN Tail(s) : Tail(s)[i].req = h.req
  BY <1>4, <1>5
<1>12. \A r : r = h.req => ~InPacket(c, r, m)'
  <2>1. \A r : InPacket(c, r, m)' => \E i \in DOMAIN Tail(s) : Tail(s)[i].req = r
    BY <1>2 DEF InPacket
  <2> QED
    BY <2>1, <1>11
<1> QED
  BY <1>4, <1>5, <1>8, <1>9, <1>10, <1>12 DEF s

LEMMA RequestsRefuses ==
  ASSUME TypeOK, Requests, NEW m \in MServs, NEW c0 \in Clients, Refuses(m, c0)
  PROVE  Requests'
<1> DEFINE r0 == Head(chan[<<c0, m>>]).req
           f0 == Head(chan[<<c0, m>>]).name
<1>1. /\ PacketReqs'
      /\ \A d \in Clients, n \in MServs : \A r : InPacket(d, r, n)' => InPacket(d, r, n)
      /\ InPacket(c0, r0, m) /\ r0 < req_id[c0]
      /\ \A r : r = r0 => ~InPacket(c0, r, m)'
  BY TakesFacts DEF Requests, Refuses
<1>2. \A d \in Clients : req_id'[d] = req_id[d]
  BY DEF Refuses, Takes
<1>3. \A n \in MServs, g \in Names : \A c, r : InEntry(c, r, n, g)' => InEntry(c, r, n, g)
  BY DEF Refuses, EntriesSame, InEntry
<1>4. /\ \A n \in MServs, g \in Names : \A c, r : InEntry(c, r, n, g) => EntryOK(c, r, n, g)
      /\ \A n \in MServs : \A i \in DOMAIN told[n] :
           /\ told[n][i].client \in Clients
           /\ ToldOK(told[n][i].client, told[n][i].req, n)
  BY NamedRequests DEF Requests
<1>5. PICK ok : Answers1(m, c0, r0, f0, ok)
  BY DEF Refuses
<1> HIDE DEF r0, f0
<1>6. EntryReqs'
  <2> SUFFICES ASSUME NEW n \in MServs, NEW g \in Names, NEW c, NEW r, InEntry(c, r, n, g)'
               PROVE  EntryOK(c, r, n, g)'
    BY EntryReqsNext
  <2>1. EntryOK(c, r, n, g)
    BY <1>3, <1>4
  <2> QED
    BY <2>1, <1>1, <1>2, <1>3 DEF EntryOK
<1>7. ToldReqs'
  <2> SUFFICES ASSUME NEW n \in MServs, NEW i \in DOMAIN told'[n], NEW c, NEW r,
                      c = told'[n][i].client, r = told'[n][i].req
               PROVE  ToldOK(c, r, n)'
    BY ToldReqsNext
  <2>1. \/ i \in DOMAIN told[n] /\ told'[n][i] = told[n][i]
        \/ n = m /\ c = c0 /\ r = r0
    BY <1>5, AppendTold
  <2>2. CASE i \in DOMAIN told[n] /\ told'[n][i] = told[n][i]
    <3>1. ToldOK(c, r, n) /\ c \in Clients
      BY <2>2, <1>4
    <3> QED
      BY <3>1, <1>1, <1>2, <1>3 DEF ToldOK
  <2>3. CASE n = m /\ c = c0 /\ r = r0
    <3>1. \A g \in Names : ~InEntry(c, r, m, g)
      BY <2>3, <1>1, <1>4 DEF EntryOK
    <3>2. \A g \in Names : ~InEntry(c, r, m, g)'
      BY <3>1, <1>3
    <3> QED
      BY <2>3, <3>2, <1>1, <1>2 DEF ToldOK
  <2> QED
    BY <2>1, <2>2, <2>3
<1>8. AnsweredOnce'
  <2>1. \A i \in DOMAIN told[m] : ~(told[m][i].client = c0 /\ told[m][i].req = r0)
    BY <1>1, <1>4 DEF ToldOK
  <2> QED
    BY <2>1, <1>5, AnsweredOnceNext DEF Requests
<1> QED
  BY <1>1, <1>6, <1>7, <1>8 DEF Requests

LEMMA RequestsEnters ==
  ASSUME TypeOK, Requests, NEW m \in MServs, NEW c0 \in Clients, Enters(m, c0)
  PROVE  Requests'
<1> DEFINE r0 == Head(chan[<<c0, m>>]).req
           f0 == Head(chan[<<c0, m>>]).name
<1>1. /\ PacketReqs'
      /\ \A d \in Clients, n \in MServs : \A r : InPacket(d, r, n)' => InPacket(d, r, n)
      /\ InPacket(c0, r0, m) /\ r0 \in Nat \ {0} /\ r0 < req_id[c0]
      /\ \A r : r = r0 => ~InPacket(c0, r, m)'
  BY TakesFacts DEF Requests, Enters
<1>2. /\ \A d \in Clients : req_id'[d] = req_id[d]
      /\ told' = told
  BY DEF Enters, Takes
<1>3. \A n \in MServs, g \in Names : \A c, r : InEntry(c, r, n, g)' =>
        InEntry(c, r, n, g) \/ (n = m /\ g = f0 /\ c = c0 /\ r = r0)
  BY DEF Enters, InEntry
<1>4. /\ \A n \in MServs, g \in Names : \A c, r : InEntry(c, r, n, g) => EntryOK(c, r, n, g)
      /\ \A n \in MServs : \A i \in DOMAIN told[n] :
           /\ told[n][i].client \in Clients
           /\ ToldOK(told[n][i].client, told[n][i].req, n)
  BY NamedRequests DEF Requests
<1> HIDE DEF r0, f0
<1>5. \A g \in Names : ~InEntry(c0, r0, m, g)
  BY <1>1, <1>4 DEF EntryOK
<1>6. EntryReqs'
  <2> SUFFICES ASSUME NEW n \in MServs, NEW g \in Names, NEW c, NEW r, InEntry(c, r, n, g)'
               PROVE  EntryOK(c, r, n, g)'
    BY EntryReqsNext
  <2>1. CASE InEntry(c, r, n, g)
    <3>1. EntryOK(c, r, n, g)
      BY <2>1, <1>4
    <3>2. ~(n = m /\ c = c0 /\ r = r0)
      BY <2>1, <1>5
    <3> QED
      BY <3>1, <3>2, <1>1, <1>2, <1>3 DEF EntryOK
  <2>2. CASE n = m /\ g = f0 /\ c = c0 /\ r = r0
    <3>1. \A g2 \in Names : InEntry(c, r, m, g2)' => g2 = f0
      BY <2>2, <1>3, <1>5
    <3> QED
      BY <2>2, <3>1, <1>1, <1>2 DEF EntryOK
  <2> QED
    BY <2>1, <2>2, <1>3
<1>7. ToldReqs'
  <2> SUFFICES ASSUME NEW n \in MServs, NEW i \in DOMAIN told'[n], NEW c, NEW r,
                      c = told'[n][i].client, r = told'[n][i].req
               PROVE  ToldOK(c, r, n)'
    BY ToldReqsNext
  <2>1. ToldOK(c, r, n) /\ c \in Clients
    BY <1>2, <1>4
  <2>2. ~(n = m /\ c = c0 /\ r = r0)
    BY <2>1, <1>1 DEF ToldOK
  <2> QED
    BY <2>1, <2>2, <1>1, <1>2, <1>3 DEF ToldOK
<1>8. AnsweredOnce'
  BY <1>2 DEF Requests, AnsweredOnce
<1> QED
  BY <1>1, <1>6, <1>7, <1>8 DEF Requests

LEMMA RequestsAsks ==
  ASSUME TypeOK, Requests, NEW m \in MServs, NEW c0 \in Clients, Asks(c0, m)
  PROVE  Requests'
<1> DEFINE s == chan[<<c0, m>>]
<1>1. PICK x : chan'[<<c0, m>>] = Cat(s, <<x>>) /\ x.fun = "CREATE" /\ x.req = req_id[c0]
  BY DEF Asks
<1>2. IsSeq(s) /\ IsSeq(<<x>>) /\ DOMAIN <<x>> = {1} /\ <<x>>[1] = x /\ Len(<<x>>) = 1
  <2>1. <<x>> \in Seq({x}) /\ DOMAIN <<x>> = {1} /\ <<x>>[1] = x /\ Len(<<x>>) = 1
    OBVIOUS
  <2> QED
    BY <2>1, SeqIs, NodesDiffer DEF TypeOK, ChanOK, PacketsOK
<1>3. /\ req_id[c0] \in Nat \ {0} /\ req_id'[c0] = req_id[c0] + 1
      /\ \A d \in Clients : d # c0 => req_id'[d] = req_id[d]
      /\ \A d \in Clients : req_id[d] \in Nat
  BY DEF Asks, TypeOK
<1>4. \A d \in Clients, n \in MServs : <<d, n>> # <<c0, m>> => chan'[<<d, n>>] = chan[<<d, n>>]
  BY DEF Asks
<1>5. file_creating' = file_creating /\ told' = told
  BY DEF Asks
<1>6. \A i \in DOMAIN s : /\ s[i].fun = "CREATE" /\ s[i].req \in Nat \ {0}
                          /\ s[i].req < req_id[c0]
                          /\ \A j \in DOMAIN s : s[i].req = s[j].req => i = j
  BY DEF Requests, PacketReqs
<1> DEFINE u == Cat(s, <<x>>)
<1> HIDE DEF s
<1>7. \A i \in DOMAIN u : (i \in DOMAIN s /\ u[i] = s[i]) \/ (i = Len(s) + 1 /\ u[i] = x)
  <2> TAKE i \in DOMAIN u
  <2>1. \/ i \in DOMAIN s /\ u[i] = s[i]
        \/ i - Len(s) \in DOMAIN <<x>> /\ u[i] = <<x>>[i - Len(s)]
    BY <1>2, ConcatFrom
  <2>2. Len(s) \in Nat /\ Len(u) \in Nat /\ DOMAIN u = 1..Len(u)
    BY <1>2, ConcatIs, SeqFacts
  <2>3. i \in Nat
    BY <2>2
  <2>4. CASE i - Len(s) \in DOMAIN <<x>> /\ u[i] = <<x>>[i - Len(s)]
    <3>1. i - Len(s) = 1 /\ u[i] = x
      BY <2>4, <1>2
    <3> QED
      BY <3>1, <2>2, <2>3
  <2> QED
    BY <2>1, <2>4
<1> HIDE DEF u
<1>8. chan'[<<c0, m>>] = u
  BY <1>1 DEF u
<1>9. PacketReqs'
  <2> SUFFICES ASSUME NEW d \in Clients, NEW n \in MServs, NEW i \in DOMAIN chan'[<<d, n>>]
               PROVE  /\ chan'[<<d, n>>][i].fun = "CREATE"
                      /\ chan'[<<d, n>>][i].req \in Nat \ {0}
                      /\ chan'[<<d, n>>][i].req < req_id'[d]
                      /\ \A j \in DOMAIN chan'[<<d, n>>] :
                           chan'[<<d, n>>][i].req = chan'[<<d, n>>][j].req => i = j
    BY DEF PacketReqs
  <2>1. CASE <<d, n>> = <<c0, m>>
    <3>1. chan'[<<d, n>>] = u /\ d = c0
      BY <2>1, <1>8
    <3>2. /\ u[i].fun = "CREATE" /\ u[i].req \in Nat \ {0} /\ u[i].req < req_id[c0] + 1
      BY <3>1, <1>1, <1>3, <1>6, <1>7
    <3>3. ASSUME NEW j \in DOMAIN u, u[i].req = u[j].req
          PROVE  i = j
      <4>1. \A k \in DOMAIN s : s[k].req # req_id[c0]
        BY <1>3, <1>6
      <4> QED
        BY <3>1, <3>3, <4>1, <1>1, <1>6, <1>7
    <3> QED
      BY <3>1, <3>2, <3>3, <1>3
  <2>2. CASE <<d, n>> # <<c0, m>>
    <3>1. chan'[<<d, n>>] = chan[<<d, n>>]
      BY <2>2, <1>4
    <3>2. /\ chan[<<d, n>>][i].fun = "CREATE"
          /\ chan[<<d, n>>][i].req \in Nat \ {0}
          /\ chan[<<d, n>>][i].req < req_id[d]
          /\ \A j \in DOMAIN chan[<<d, n>>] :
               chan[<<d, n>>][i].req = chan[<<d, n>>][j].req => i = j
      BY <3>1 DEF Requests, PacketReqs
    <3>3. chan[<<d, n>>][i].req < req_id'[d]
      BY <3>2, <1>3
    <3> QED
      BY <3>1, <3>2, <3>3
  <2> QED
    BY <2>1, <2>2
<1>10. \A d \in Clients, n \in MServs : \A r : InPacket(d, r, n)' =>
         InPacket(d, r, n) \/ (d = c0 /\ r = req_id[c0])
  <2> SUFFICES ASSUME NEW d \in Clients, NEW n \in MServs, NEW r, InPacket(d, r, n)',
                      ~(d = c0 /\ r = req_id[c0])
               PROVE  InPacket(d, r, n)
    OBVIOUS
  <2>1. PICK i \in DOMAIN chan'[<<d, n>>] : chan'[<<d, n>>][i].req = r
    BY DEF InPacket
  <2>2. CASE <<d, n>> = <<c0, m>>
    <3>1. d = c0 /\ n = m /\ i \in DOMAIN u /\ u[i].req = r
      BY <2>1, <2>2, <1>8
    <3>2. i \in DOMAIN s /\ s[i].req = r
      BY <3>1, <1>1, <1>7
    <3> QED
      BY <3>1, <3>2 DEF InPacket, s
  <2>3. CASE <<d, n>> # <<c0, m>>
    BY <2>1, <2>3, <1>4 DEF InPacket
  <2> QED
    BY <2>2, <2>3
<1>11. \A n \in MServs, g \in Names : \A c, r : InEntry(c, r, n, g)' <=> InEntry(c, r, n, g)
  BY <1>5 DEF InEntry
<1>12. /\ \A n \in MServs, g \in Names : \A c, r : InEntry(c, r, n, g) => EntryOK(c, r, n, g)
       /\ \A n \in MServs : \A i \in DOMAIN told[n] :
            /\ told[n][i].client \in Clients /\ told[n][i].req \in Nat
            /\ ToldOK(told[n][i].client, told[n][i].req, n)
  BY NamedRequests DEF Requests
<1>13. \A c \in Clients, r \in Nat : r < req_id[c] => r < req_id'[c] /\ ~(c = c0 /\ r = req_id[c0])
  BY <1>3
<1>14. EntryReqs'
  <2> SUFFICES ASSUME NEW n \in MServs, NEW g \in Names, NEW c, NEW r, InEntry(c, r, n, g)'
               PROVE  EntryOK(c, r, n, g)'
    BY EntryReqsNext
  <2>1. EntryOK(c, r, n, g)
    BY <1>11, <1>12
  <2>2. c \in Clients /\ r \in Nat \ {0} /\ r < req_id'[c] /\ ~(c = c0 /\ r = req_id[c0])
    BY <2>1, <1>13 DEF EntryOK
  <2> QED
    BY <2>1, <2>2, <1>10, <1>11 DEF EntryOK
<1>15. ToldReqs'
  <2> SUFFICES ASSUME NEW n \in MServs, NEW i \in DOMAIN told'[n], NEW c, NEW r,
                      c = told'[n][i].client, r = told'[n][i].req
               PROVE  ToldOK(c, r, n)'
    BY ToldReqsNext
  <2>1. ToldOK(c, r, n) /\ c \in Clients /\ r \in Nat
    BY <1>5, <1>12
  <2>2. r < req_id'[c] /\ ~(c = c0 /\ r = req_id[c0])
    BY <2>1, <1>13 DEF ToldOK
  <2> QED
    BY <2>1, <2>2, <1>10, <1>11 DEF ToldOK
<1>16. AnsweredOnce'
  BY <1>5 DEF Requests, AnsweredOnce
<1> QED
  BY <1>9, <1>14, <1>15, <1>16 DEF Requests

-----------------------------------------------------------------------------
(* What a step does to the files that are reported as created.              *)

LEMMA ToldNames ==
  ASSUME TypeOK
  PROVE  \A m \in MServs : \A i \in DOMAIN told[m] : told[m][i].name \in Names
<1> TAKE m \in MServs
<1>1. told[m] \in Seq(Answers)
  BY DEF TypeOK
<1>2. \A i \in DOMAIN told[m] : told[m][i] \in Answers
  BY <1>1
<1> QED
  BY <1>2 DEF Answers

LEMMA StoredStays ==
  ASSUME TypeOK, ToldStored, CreatedOnce, Kept, EntriesSame, told' = told
  PROVE  ToldStored' /\ CreatedOnce'
<1>1. CreatedOnce'
  BY DEF CreatedOnce
<1> SUFFICES ASSUME NEW m \in MServs, NEW i \in DOMAIN told[m], told[m][i].ok
             PROVE  /\ file_meta_metadata'[m][told[m][i].name] # NoFile
                    /\ file_creating'[m][told[m][i].name] = NoCreating
  BY <1>1 DEF ToldStored
<1>2. told[m][i].name \in Names
  BY ToldNames
<1> QED
  BY <1>2 DEF ToldStored, Kept, EntriesSame

\* One more answer: a refusal, or the first success for a file that is stored.
LEMMA StoredAnswers ==
  ASSUME TypeOK, ToldStored, CreatedOnce, Kept, EntriesSame,
         NEW m \in MServs, NEW c, NEW r, NEW f \in Names, NEW ok, Answers1(m, c, r, f, ok),
         ok => /\ file_meta_metadata[m][f] # NoFile
               /\ file_creating[m][f] # NoCreating /\ file_creating'[m][f] = NoCreating
  PROVE  ToldStored' /\ CreatedOnce'
<1>1. /\ \A n \in MServs : n # m => told'[n] = told[n]
      /\ \A i \in DOMAIN told[m] : told'[m][i] = told[m][i]
      /\ \A i \in DOMAIN told'[m] :
           \/ i \in DOMAIN told[m]
           \/ i = Len(told[m]) + 1 /\ told'[m][i].name = f /\ told'[m][i].ok = ok
  BY AppendTold
<1>2. \A n \in MServs : \A i \in DOMAIN told[n] : told[n][i].ok =>
        /\ told[n][i].name \in Names
        /\ file_meta_metadata[n][told[n][i].name] # NoFile
        /\ file_creating[n][told[n][i].name] = NoCreating
  BY ToldNames DEF ToldStored
<1>3. ToldStored'
  <2> SUFFICES ASSUME NEW n \in MServs, NEW i \in DOMAIN told'[n], told'[n][i].ok
               PROVE  /\ file_meta_metadata'[n][told'[n][i].name] # NoFile
                      /\ file_creating'[n][told'[n][i].name] = NoCreating
    BY DEF ToldStored
  <2>1. CASE i \in DOMAIN told[n] /\ told'[n][i] = told[n][i]
    BY <2>1, <1>2 DEF Kept, EntriesSame
  <2>2. CASE n = m /\ told'[n][i].name = f /\ told'[n][i].ok = ok
    BY <2>2 DEF Kept
  <2> QED
    BY <2>1, <2>2, <1>1
<1>4. CreatedOnce'
  <2> SUFFICES ASSUME NEW n \in MServs, NEW i \in DOMAIN told'[n], NEW j \in DOMAIN told'[n],
                      told'[n][i].ok, told'[n][j].ok, told'[n][i].name = told'[n][j].name
               PROVE  i = j
    BY DEF CreatedOnce
  <2>1. CASE n # m
    BY <2>1, <1>1 DEF CreatedOnce
  <2>2. CASE n = m /\ i \in DOMAIN told[m] /\ j \in DOMAIN told[m]
    BY <2>2, <1>1 DEF CreatedOnce
  <2>3. CASE n = m /\ i \in DOMAIN told[m] /\ j \notin DOMAIN told[m]
    BY <2>3, <1>1, <1>2
  <2>4. CASE n = m /\ i \notin DOMAIN told[m] /\ j \in DOMAIN told[m]
    BY <2>4, <1>1, <1>2
  <2>5. CASE n = m /\ i \notin DOMAIN told[m] /\ j \notin DOMAIN told[m]
    BY <2>5, <1>1
  <2> QED
    BY <2>1, <2>2, <2>3, <2>4, <2>5
<1> QED
  BY <1>3, <1>4

\* icheck_can_create lets in no request for a file that is reported as created.
LEMMA StoredEnters ==
  ASSUME TypeOK, ToldStored, CreatedOnce, Kept, NEW m \in MServs, NEW c \in Clients,
         Enters(m, c)
  PROVE  ToldStored' /\ CreatedOnce'
<1> DEFINE f == Head(chan[<<c, m>>]).name
<1>1. /\ told' = told /\ file_meta_metadata[m][f] = NoFile
      /\ \A n \in MServs, g \in Names : n # m \/ g # f =>
           file_creating'[n][g] = file_creating[n][g]
  BY DEF Enters
<1> HIDE DEF f
<1>2. CreatedOnce'
  BY <1>1 DEF CreatedOnce
<1> SUFFICES ASSUME NEW n \in MServs, NEW i \in DOMAIN told[n], told[n][i].ok
             PROVE  /\ file_meta_metadata'[n][told[n][i].name] # NoFile
                    /\ file_creating'[n][told[n][i].name] = NoCreating
  BY <1>1, <1>2 DEF ToldStored
<1>3. /\ told[n][i].name \in Names
      /\ file_meta_metadata[n][told[n][i].name] # NoFile
      /\ file_creating[n][told[n][i].name] = NoCreating
  BY ToldNames DEF ToldStored
<1>4. n # m \/ told[n][i].name # f
  BY <1>1, <1>3
<1> QED
  BY <1>1, <1>3, <1>4 DEF Kept

\* What every step does, and what follows from it.
Moves ==
  \/ Stays
  \/ \E m \in MServs, f \in Names, ok \in BOOLEAN : Finishes(m, f, ok)
  \/ \E m \in MServs, c \in Clients : Refuses(m, c) /\ Head(chan[<<c, m>>]).name \in Names
  \/ \E m \in MServs, c \in Clients : Enters(m, c)
  \/ \E m \in MServs, c \in Clients : Asks(c, m)

LEMMA MovesKeep ==
  ASSUME TypeOK, Requests, ToldStored, CreatedOnce, Kept, Moves
  PROVE  Requests' /\ ToldStored' /\ CreatedOnce'
<1>1. CASE Stays
  BY <1>1, RequestsStays, StoredStays DEF Stays
<1>2. CASE \E m \in MServs, f \in Names, ok \in BOOLEAN : Finishes(m, f, ok)
  <2> PICK m \in MServs, f \in Names, ok \in BOOLEAN : Finishes(m, f, ok)
    BY <1>2
  <2>1. Requests'
    BY RequestsFinishes
  <2>2. PICK c, r : Answers1(m, c, r, f, ok)
    BY DEF Finishes
  <2>3. EntriesSame /\ (ok => /\ file_meta_metadata[m][f] # NoFile
                              /\ file_creating[m][f] # NoCreating
                              /\ file_creating'[m][f] = NoCreating)
    BY DEF Finishes
  <2> QED
    BY <2>1, <2>2, <2>3, StoredAnswers
<1>3. CASE \E m \in MServs, c \in Clients : Refuses(m, c) /\ Head(chan[<<c, m>>]).name \in Names
  <2> PICK m \in MServs, c \in Clients : Refuses(m, c) /\ Head(chan[<<c, m>>]).name \in Names
    BY <1>3
  <2>1. Requests'
    BY RequestsRefuses
  <2> DEFINE r == Head(chan[<<c, m>>]).req
             f == Head(chan[<<c, m>>]).name
  <2>2. Answers1(m, c, r, f, FALSE) /\ f \in Names /\ EntriesSame
    BY DEF Refuses
  <2> HIDE DEF r, f
  <2>3. PICK ok : ok = FALSE
    OBVIOUS
  <2>4. Answers1(m, c, r, f, ok)
    BY <2>2, <2>3
  <2>5. ToldStored' /\ CreatedOnce'
    BY <2>2, <2>3, <2>4, StoredAnswers
  <2> QED
    BY <2>1, <2>5
<1>4. CASE \E m \in MServs, c \in Clients : Enters(m, c)
  BY <1>4, RequestsEnters, StoredEnters
<1>5. CASE \E m \in MServs, c \in Clients : Asks(c, m)
  <2>1. Requests'
    BY <1>5, RequestsAsks
  <2>2. EntriesSame /\ told' = told
    BY <1>5 DEF Asks, EntriesSame
  <2> QED
    BY <2>1, <2>2, StoredStays
<1> QED
  BY <1>1, <1>2, <1>3, <1>4, <1>5 DEF Moves

-----------------------------------------------------------------------------
(* The handlers.                                                            *)

LEMMA PacketsAppend ==
  ASSUME NEW s, PacketsOK(s), NEW x, PacketOK(x)
  PROVE  PacketsOK(Append(s, x))
<1> DEFINE S == {s[i] : i \in DOMAIN s} \cup {x}
<1>1. s \in [1..Len(s) -> S] /\ Len(s) \in Nat
  BY DEF PacketsOK, IsSeq
<1>2. s \in Seq(S) /\ x \in S
  BY <1>1
<1> HIDE DEF S
<1>3. Append(s, x) \in Seq(S) /\ DOMAIN s = 1..Len(s) /\ DOMAIN Append(s, x) = 1..(Len(s) + 1)
  BY <1>2
<1>4. \A i \in 1..(Len(s) + 1) : Append(s, x)[i] = IF i <= Len(s) THEN s[i] ELSE x
  BY <1>2
<1>5. \A i \in 1..(Len(s) + 1) : i <= Len(s) => i \in DOMAIN s
  BY <1>1, <1>3
<1>6. IsSeq(Append(s, x))
  BY <1>3, SeqIs
<1> QED
  BY <1>3, <1>4, <1>5, <1>6 DEF PacketsOK

\* The descriptor icreate_fmmd makes.
LEMMA FileIs ==
  ASSUME NEW old \in Files, NEW n \in Nat, NEW ms \in Seq(MServs), NEW known \in BOOLEAN,
         NEW file,
         file = [file_id |-> IF known THEN old.file_id ELSE NewFileId(n),
                 file_version |-> old.file_version + 1, mservs |-> ms]
  PROVE  file \in Files /\ file # NoFile
<1>1. NewFileId(n) \in Nat
  BY DEF NewFileId
<1>2. old.file_id \in Nat /\ old.file_version \in Nat
  BY DEF Files
<1>3. file.file_version = old.file_version + 1
  OBVIOUS
<1>4. NoFile.file_version = 0
  BY DEF NoFile
<1>5. file # NoFile
  BY <1>2, <1>3, <1>4
<1>6. (IF known THEN old.file_id ELSE NewFileId(n)) \in Nat /\ old.file_version + 1 \in Nat
  BY <1>1, <1>2
<1> QED
  BY <1>5, <1>6 DEF Files

\* cs is what is left of the calls of m after at most one about f is called back.
Rest(m, f, cs) ==
  /\ CallsOK(cs)
  /\ \A i \in DOMAIN cs : \E j \in DOMAIN calls[m] : cs[i] = calls[m][j]
  /\ \A g \in Names : g # f => Count(calls[m], g) <= Count(cs, g)
  /\ Count(calls[m], f) <= Count(cs, f) + 1

LEMMA RestAll ==
  ASSUME TypeOK, NEW m \in MServs, NEW f \in Names
  PROVE  Rest(m, f, calls[m])
<1>1. CallsOK(calls[m]) /\ IsSeq(calls[m])
  BY DEF TypeOK, CallsOK
<1>2. \A g : Count(calls[m], g) \in Nat
  BY <1>1, CountType
<1> QED
  BY <1>1, <1>2 DEF Rest

LEMMA RestRemove ==
  ASSUME TypeOK, NEW m \in MServs, NEW i \in DOMAIN calls[m]
  PROVE  Rest(m, calls[m][i].name, RemoveAt(calls[m], i))
<1>1. CallsOK(calls[m]) /\ IsSeq(calls[m])
  BY DEF TypeOK, CallsOK
<1>2. \A g : /\ Count(calls[m], g) <= Count(RemoveAt(calls[m], i), g) + 1
             /\ calls[m][i].name # g => Count(calls[m], g) <= Count(RemoveAt(calls[m], i), g)
  BY <1>1, CountRemove
<1> QED
  BY <1>1, <1>2, CallsRemove DEF Rest

\* The mserv m changes the entry of f and its calls only.
LEMMA CalledBackNext ==
  ASSUME TypeOK, EntryIsCalledBack, aborted \subseteq aborted', NEW m \in MServs,
         \A n \in MServs : n # m => calls'[n] = calls[n],
         \A n \in MServs, g \in Names : n # m => file_creating'[n][g] = file_creating[n][g],
         m \notin aborted' => \A g \in Names : file_creating'[m][g] # NoCreating =>
                                file_creating'[m][g].ncheck <= Count(calls'[m], g)
  PROVE  EntryIsCalledBack'
<1> SUFFICES ASSUME NEW n \in MServs \ aborted', NEW g \in Names,
                    file_creating'[n][g] # NoCreating
             PROVE  file_creating'[n][g].ncheck <= Count(calls'[n], g)
  BY DEF EntryIsCalledBack, Count, About
<1>1. CASE n = m
  BY <1>1
<1>2. CASE n # m
  BY <1>2 DEF EntryIsCalledBack, Count, About
<1> QED
  BY <1>1, <1>2

LEMMA KnowsNext ==
  ASSUME TypeOK, Kept, AllKnow, NEW m \in MServs,
         \A n \in MServs : n # m => calls'[n] = calls[n],
         \A i \in DOMAIN calls'[m] : calls'[m][i].fun = "CREATE_METADATA" =>
           file_meta_metadata'[m][calls'[m][i].name] # NoFile
  PROVE  AllKnow'
<1> SUFFICES ASSUME NEW n \in MServs, NEW i \in DOMAIN calls'[n],
                    calls'[n][i].fun = "CREATE_METADATA"
             PROVE  file_meta_metadata'[n][calls'[n][i].name] # NoFile
  BY DEF AllKnow, Knows
<1>1. CASE n = m
  BY <1>1
<1>2. CASE n # m
  <2>1. calls'[n] = calls[n] /\ calls[n][i].name \in Names
    BY <1>2 DEF TypeOK, CallsOK
  <2> QED
    BY <2>1 DEF AllKnow, Knows, Kept
<1> QED
  BY <1>1, <1>2

\* A handler of m sets the entry of f to x and the list of its calls to new.
Sets(m, f, x, new) ==
  /\ file_creating' = [file_creating EXCEPT ![m][f] = x]
  /\ calls' = [calls EXCEPT ![m] = new]
  /\ x \in Entries /\ CallsOK(new)
  /\ aborted' \in SUBSET MServs /\ aborted \subseteq aborted' /\ ChanOK(chan')
  /\ file_meta_metadata' \in [MServs -> [Names -> Files]]
  /\ file_metadata' \in [MServs -> [Names -> Files]]
  /\ file_id' \in [MServs -> Nat]
  /\ req_id' \in [MServs \cup Clients -> Nat \ {0}]
  /\ active' = active
  /\ told' \in [MServs -> Seq(Answers)]
  /\ \A i \in DOMAIN new : new[i].fun = "CREATE_METADATA" =>
       file_meta_metadata'[m][new[i].name] # NoFile
  /\ m \notin aborted' =>
       /\ x # NoCreating => x.ncheck <= Count(new, f)
       /\ \A g \in Names : g # f => Count(calls[m], g) <= Count(new, g)

LEMMA HandlerKeeps ==
  ASSUME Inv, NEW m \in MServs, NEW f \in Names, NEW x, NEW new, Sets(m, f, x, new), Kept
  PROVE  /\ TypeOK' /\ AllKnow' /\ EntryIsCalledBack'
         /\ file_creating'[m][f] = x
         /\ \A n \in MServs, g \in Names : n # m \/ g # f =>
              file_creating'[n][g] = file_creating[n][g]
<1>1. TypeOK /\ EntryIsCalledBack /\ AllKnow
  BY DEF Inv, Stored
<1>2. /\ file_creating' \in [MServs -> [Names -> Entries]]
      /\ file_creating'[m][f] = x
      /\ \A n \in MServs, g \in Names : n # m \/ g # f =>
           file_creating'[n][g] = file_creating[n][g]
  BY <1>1, UpdateEntry DEF TypeOK, Sets
<1>3. /\ calls' = [n \in MServs |-> calls'[n]]
      /\ calls'[m] = new
      /\ \A n \in MServs : n # m => calls'[n] = calls[n]
  BY <1>1, UpdateRow DEF TypeOK, Sets
<1>4. \A n \in MServs : CallsOK(calls'[n])
  BY <1>1, <1>3 DEF TypeOK, Sets
<1>5. TypeOK'
  <2>1. active' \in [MServs -> SUBSET Servers]
    BY <1>1 DEF TypeOK, Sets
  <2> QED
    BY <2>1, <1>2, <1>3, <1>4 DEF TypeOK, Sets
<1>6. AllKnow'
  <2>1. \A i \in DOMAIN calls'[m] : calls'[m][i].fun = "CREATE_METADATA" =>
          file_meta_metadata'[m][calls'[m][i].name] # NoFile
    BY <1>3 DEF Sets
  <2> QED
    BY <2>1, <1>1, <1>3, KnowsNext
<1>7. ASSUME m \notin aborted', NEW g \in Names, file_creating'[m][g] # NoCreating
      PROVE  file_creating'[m][g].ncheck <= Count(calls'[m], g)
  <2>1. CASE g = f
    BY <2>1, <1>2, <1>3, <1>7 DEF Sets
  <2>2. CASE g # f
    <3>1. file_creating'[m][g] = file_creating[m][g] /\ m \in MServs \ aborted
      BY <2>2, <1>2, <1>7 DEF Sets
    <3>2. file_creating[m][g].ncheck <= Count(calls[m], g)
      BY <3>1, <1>1, <1>7 DEF EntryIsCalledBack, Count, About
    <3>3. Count(calls[m], g) <= Count(new, g)
      BY <2>2, <1>7 DEF Sets
    <3>4. Count(calls[m], g) \in Nat /\ Count(new, g) \in Nat
      BY <1>1, CountType DEF TypeOK, CallsOK, Sets
    <3>5. file_creating[m][g].ncheck \in Int
      BY <1>1 DEF TypeOK, Entries
    <3> QED
      BY <3>1, <3>2, <3>3, <3>4, <3>5, <1>3
  <2> QED
    BY <2>1, <2>2
<1>8. EntryIsCalledBack'
  BY <1>1, <1>2, <1>3, <1>7, CalledBackNext DEF Sets
<1> QED
  BY <1>2, <1>5, <1>6, <1>8

\* A step that leaves the entries and the calls alone.
LEMMA QuietKeeps ==
  ASSUME Inv, file_creating' = file_creating, calls' = calls, aborted' = aborted,
         active' = active, told' \in [MServs -> Seq(Answers)], file_id' = file_id, Kept,
         ChanOK(chan'),
         file_meta_metadata' \in [MServs -> [Names -> Files]],
         file_metadata' \in [MServs -> [Names -> Files]],
         req_id' \in [MServs \cup Clients -> Nat \ {0}]
  PROVE  TypeOK' /\ AllKnow' /\ EntryIsCalledBack'
<1>1. TypeOK /\ EntryIsCalledBack /\ AllKnow
  BY DEF Inv, Stored
<1>2. TypeOK'
  BY <1>1 DEF TypeOK
<1>3. EntryIsCalledBack'
  <2> SUFFICES ASSUME NEW n \in MServs \ aborted', NEW g \in Names,
                      file_creating'[n][g] # NoCreating
               PROVE  file_creating'[n][g].ncheck <= Count(calls'[n], g)
    BY DEF EntryIsCalledBack, Count, About
  <2>1. n \in MServs \ aborted /\ file_creating[n][g] # NoCreating
    OBVIOUS
  <2>2. file_creating[n][g].ncheck <= Count(calls[n], g)
    BY ONLY <1>1, <2>1 DEF EntryIsCalledBack, Count, About
  <2> QED
    BY <2>2
<1>4. \A n \in MServs : \A i \in DOMAIN calls[n] : calls[n][i].name \in Names
  BY <1>1 DEF TypeOK, CallsOK
<1>5. AllKnow'
  BY <1>1, <1>4 DEF AllKnow, Knows, Kept
<1> QED
  BY <1>2, <1>3, <1>5

\* What the calls that are left, and calls about f that are added, satisfy.
LEMMA RestCalls ==
  ASSUME Inv, NEW m \in MServs, NEW f \in Names, NEW cs, Rest(m, f, cs), Kept
  PROVE  /\ CallsOK(cs) /\ IsSeq(cs)
         /\ \A i \in DOMAIN cs : cs[i].fun = "CREATE_METADATA" =>
              file_meta_metadata'[m][cs[i].name] # NoFile
         /\ \A g \in Names : g # f => Count(calls[m], g) <= Count(cs, g)
         /\ Count(calls[m], f) <= Count(cs, f) + 1
<1>1. TypeOK /\ Knows(m, calls[m])
  BY DEF Inv, Stored, AllKnow
<1>2. /\ CallsOK(cs) /\ IsSeq(cs)
      /\ \A i \in DOMAIN cs : \E j \in DOMAIN calls[m] : cs[i] = calls[m][j]
  BY DEF Rest, CallsOK
<1>3. \A j \in DOMAIN calls[m] : calls[m][j].fun = "CREATE_METADATA" =>
        file_meta_metadata'[m][calls[m][j].name] # NoFile
  BY <1>1 DEF Knows, Kept, TypeOK, CallsOK
<1> QED
  BY <1>2, <1>3 DEF Rest

LEMMA AddCalls ==
  ASSUME Inv, NEW m \in MServs, NEW f \in Names, NEW cs, Rest(m, f, cs), Kept,
         NEW to, IsSeq(to), NEW fun \in CallFuns,
         fun = "CREATE_METADATA" => file_meta_metadata'[m][f] # NoFile,
         NEW new, new = Cat(cs, NewCalls(m, to, fun, f))
  PROVE  /\ CallsOK(new)
         /\ \A i \in DOMAIN new : new[i].fun = "CREATE_METADATA" =>
              file_meta_metadata'[m][new[i].name] # NoFile
         /\ Len(to) <= Count(new, f)
         /\ \A g \in Names : g # f => Count(calls[m], g) <= Count(new, g)
<1> DEFINE t == NewCalls(m, to, fun, f)
<1>1. /\ CallsOK(cs) /\ IsSeq(cs)
      /\ \A i \in DOMAIN cs : cs[i].fun = "CREATE_METADATA" =>
           file_meta_metadata'[m][cs[i].name] # NoFile
      /\ \A g \in Names : g # f => Count(calls[m], g) <= Count(cs, g)
  BY RestCalls
<1>a. /\ CallsOK(t) /\ Len(t) = Len(to)
      /\ \A i \in DOMAIN t : t[i].name = f /\ t[i].fun = fun
  BY NewCallsIs
<1>n. new = Cat(cs, t)
  OBVIOUS
<1> HIDE DEF t
<1>2. /\ CallsOK(t) /\ IsSeq(t) /\ Len(t) = Len(to)
      /\ \A i \in DOMAIN t : t[i].name = f /\ t[i].fun = fun
  BY <1>a DEF CallsOK
<1>3. CallsOK(new)
  BY <1>1, <1>2, <1>n, CallsConcat
<1>4. ASSUME NEW i \in DOMAIN new, new[i].fun = "CREATE_METADATA"
      PROVE  file_meta_metadata'[m][new[i].name] # NoFile
  <2>1. \/ i \in DOMAIN cs /\ new[i] = cs[i]
        \/ i - Len(cs) \in DOMAIN t /\ new[i] = t[i - Len(cs)]
    BY <1>1, <1>2, <1>n, ConcatFrom
  <2> QED
    BY <2>1, <1>1, <1>2, <1>4
<1>5. new = cs \o t
  BY <1>n DEF Cat
<1>6. Len(t) <= Count(new, f) /\ \A g \in Names : Count(cs, g) <= Count(new, g)
  BY <1>1, <1>2, <1>5, CountConcat
<1>7. IsSeq(calls[m])
  BY DEF Inv, TypeOK, CallsOK
<1>8. \A g : Count(cs, g) \in Nat /\ Count(new, g) \in Nat /\ Count(calls[m], g) \in Nat
  BY <1>1, <1>3, <1>7, CountType DEF CallsOK
<1>9. \A g \in Names : g # f => Count(calls[m], g) <= Count(new, g)
  BY <1>1, <1>6, <1>8
<1> QED
  BY <1>2, <1>3, <1>4, <1>6, <1>9

\* What a handler of m about f leaves, when it goes on from the channels ch.
Handled(m, f, ch) ==
  /\ TypeOK' /\ Kept /\ AllKnow' /\ EntryIsCalledBack'
  /\ \A c \in Clients : req_id'[c] = req_id[c]
  /\ \A e \in Pairs : e[1] # m => chan'[e] = ch[e]
  /\ \A n \in MServs, g \in Names : n # m \/ g # f =>
       file_creating'[n][g] = file_creating[n][g]

\* The list of servers that get the file-meta-data, and the descriptor.
LEMMA IcreateLists ==
  ASSUME TypeOK, NEW m \in MServs, NEW ms \in MservLists(m), NEW ds \in DservLists(m)
  PROVE  ms \in Seq(MServs) /\ IsSeq(ActiveOnes(m, ms) \o ds)
<1>1. ms \in Seq(MServs) /\ IsSeq(ds)
  BY MservListsAre, DservListsAre
<1>2. IsSeq(ActiveOnes(m, ms))
  BY <1>1, SeqIs, ActiveOnesIs
<1>3. IsSeq(Cat(ActiveOnes(m, ms), ds))
  BY <1>1, <1>2, ConcatIs
<1> QED
  BY <1>1, <1>3 DEF Cat

LEMMA IcreateAborts ==
  ASSUME Inv, NEW m \in MServs, NEW f \in Names, NEW cr \in Entries, NEW ch, ChanOK(ch),
         NEW cs, Rest(m, f, cs), active' = active,
         aborted' = aborted \cup {m}, chan' = ch, calls' = [calls EXCEPT ![m] = cs],
         file_creating' = [file_creating EXCEPT ![m][f] = cr],
         UNCHANGED <<file_meta_metadata, file_metadata, file_id, req_id, told>>
  PROVE  Handled(m, f, ch) /\ file_creating'[m][f] = cr
<1>1. Kept
  BY DEF Kept
<1>2. /\ file_meta_metadata' \in [MServs -> [Names -> Files]]
      /\ file_metadata' \in [MServs -> [Names -> Files]]
      /\ file_id' \in [MServs -> Nat] /\ req_id' \in [MServs \cup Clients -> Nat \ {0}]
      /\ told' \in [MServs -> Seq(Answers)]
      /\ aborted' \in SUBSET MServs /\ aborted \subseteq aborted' /\ m \in aborted'
  BY DEF Inv, TypeOK
<1>3. /\ CallsOK(cs)
      /\ \A i \in DOMAIN cs : cs[i].fun = "CREATE_METADATA" =>
           file_meta_metadata'[m][cs[i].name] # NoFile
  BY <1>1, RestCalls
<1>s. Sets(m, f, cr, cs)
  BY <1>2, <1>3 DEF Sets
<1>4. /\ TypeOK' /\ AllKnow' /\ EntryIsCalledBack'
      /\ file_creating'[m][f] = cr
      /\ \A n \in MServs, g \in Names : n # m \/ g # f =>
           file_creating'[n][g] = file_creating[n][g]
  BY <1>1, <1>s, HandlerKeeps
<1> QED
  BY <1>1, <1>4 DEF Handled

LEMMA IcreateStores ==
  ASSUME Inv, NEW m \in MServs, NEW f \in Names, NEW cr \in Entries, NEW ch, ChanOK(ch),
         NEW cs, Rest(m, f, cs), active' = active,
         NEW to, IsSeq(to), NEW file \in Files, file # NoFile, NEW B,
         file_id' \in [MServs -> Nat], StoreFile(m, f, cr, ch, cs, file, B, to)
  PROVE  /\ Handled(m, f, ch) /\ told' = told
         /\ file_creating'[m][f].client = cr.client /\ file_creating'[m][f].req_id = cr.req_id
<1> DEFINE mmd == Packet("CREATE_META_META_DATA", 0, f, 0, file)
           sent == [e \in Pairs |-> IF e[1] = m /\ e[2] \in B THEN Append(ch[e], mmd) ELSE ch[e]]
           x == [cr EXCEPT !.ncheck = Len(to)]
           new == Cat(cs, NewCalls(m, to, "CREATE_METADATA", f))
<1>1. TypeOK
  BY DEF Inv
<1>2. Len(to) \in Nat
  BY SeqFacts
<1>3. x \in Entries /\ x.client = cr.client /\ x.req_id = cr.req_id /\ x.ncheck = Len(to)
  <2>1. /\ cr = [client |-> cr.client, req_id |-> cr.req_id, ncheck |-> cr.ncheck]
        /\ cr.client \in Clients \cup {0} /\ cr.req_id \in Nat
    BY DEF Entries
  <2>2. x = [client |-> cr.client, req_id |-> cr.req_id, ncheck |-> Len(to)]
    BY <2>1
  <2> QED
    BY <2>1, <2>2, <1>2 DEF Entries
<1>4. /\ file_meta_metadata' \in [MServs -> [Names -> Files]]
      /\ file_meta_metadata'[m][f] = file
      /\ \A n \in MServs, g \in Names : n # m \/ g # f =>
           file_meta_metadata'[n][g] = file_meta_metadata[n][g]
  BY <1>1, UpdateEntry DEF TypeOK, StoreFile
<1>5. file_metadata' \in [MServs -> [Names -> Files]]
  BY <1>1, UpdateEntry DEF TypeOK, StoreFile
<1>6. Kept
  BY <1>4 DEF Kept
<1>7. PacketOK(mmd)
  BY PacketFields DEF PacketOK, Funs
<1>8. ChanOK(sent) /\ \A e \in Pairs : e[1] # m => sent[e] = ch[e]
  <2> HIDE DEF mmd
  <2>1. \A e \in Pairs : PacketsOK(ch[e]) /\ PacketsOK(Append(ch[e], mmd))
    BY <1>7, PacketsAppend DEF ChanOK
  <2>2. sent = [e \in Pairs |-> sent[e]] /\ \A e \in Pairs : e[1] # m => sent[e] = ch[e]
    OBVIOUS
  <2>3. \A e \in Pairs : sent[e] = ch[e] \/ sent[e] = Append(ch[e], mmd)
    OBVIOUS
  <2> QED
    BY <2>1, <2>2, <2>3 DEF ChanOK
<1>9. chan' = SendCalls(sent, m, to, "CREATE_METADATA", f, file)
  BY DEF StoreFile
<1> HIDE DEF sent
<1>10. ChanOK(chan') /\ \A e \in Pairs : e[1] # m => chan'[e] = ch[e]
  <2>1. PICK fun \in CallFuns : fun = "CREATE_METADATA"
    BY DEF CallFuns
  <2>2. chan' = SendCalls(sent, m, to, fun, f, file)
    BY <2>1, <1>9
  <2>3. /\ ChanOK(SendCalls(sent, m, to, fun, f, file))
        /\ \A e \in Pairs : e[1] # m => SendCalls(sent, m, to, fun, f, file)[e] = sent[e]
    BY <1>8, SendCallsOK
  <2> QED
    BY <2>2, <2>3, <1>8
<1>11. /\ req_id' \in [MServs \cup Clients -> Nat \ {0}]
       /\ \A c \in Clients : req_id'[c] = req_id[c]
  <2>1. req_id \in [MServs \cup Clients -> Nat \ {0}] /\ req_id[m] + Len(to) \in Nat \ {0}
    BY <1>1, <1>2 DEF TypeOK
  <2> QED
    BY <2>1, NodesDiffer DEF StoreFile
<1>c. "CREATE_METADATA" \in CallFuns
  BY DEF CallFuns
<1>12. /\ CallsOK(new)
       /\ \A i \in DOMAIN new : new[i].fun = "CREATE_METADATA" =>
            file_meta_metadata'[m][new[i].name] # NoFile
       /\ Len(to) <= Count(new, f)
       /\ \A g \in Names : g # f => Count(calls[m], g) <= Count(new, g)
  BY <1>4, <1>6, <1>c, AddCalls
<1>13. aborted' \in SUBSET MServs /\ aborted \subseteq aborted'
       /\ told' \in [MServs -> Seq(Answers)]
  BY <1>1 DEF TypeOK, StoreFile
<1>14. file_creating' = [file_creating EXCEPT ![m][f] = x] /\ calls' = [calls EXCEPT ![m] = new]
  BY DEF StoreFile, Cat
<1> HIDE DEF x, new
<1>15. /\ TypeOK' /\ AllKnow' /\ EntryIsCalledBack'
       /\ file_creating'[m][f] = x
       /\ \A n \in MServs, g \in Names : n # m \/ g # f =>
            file_creating'[n][g] = file_creating[n][g]
  <2>1. Sets(m, f, x, new)
    BY <1>3, <1>4, <1>5, <1>10, <1>11, <1>12, <1>13, <1>14 DEF Sets
  <2> QED
    BY <1>6, <2>1, HandlerKeeps
<1> QED
  BY <1>3, <1>6, <1>10, <1>11, <1>15 DEF Handled, StoreFile

LEMMA IcreateGood ==
  ASSUME Inv, NEW m \in MServs, NEW f \in Names, NEW cr \in Entries, NEW ch, ChanOK(ch),
         NEW cs, Rest(m, f, cs), active' = active, Icreate(m, f, cr, ch, cs)
  PROVE  /\ Handled(m, f, ch) /\ told' = told
         /\ file_creating'[m][f].client = cr.client /\ file_creating'[m][f].req_id = cr.req_id
<1> DEFINE old == file_meta_metadata[m][f]
           known == old # NoFile
           file(ms) == [file_id |-> IF known THEN old.file_id ELSE NewFileId(file_id[m]),
                        file_version |-> old.file_version + 1, mservs |-> ms]
           Id == file_id' = IF known THEN file_id ELSE [file_id EXCEPT ![m] = (@ + 1) % 65536]
           S(ms, ds) == StoreFile(m, f, cr, ch, cs, file(ms), Broadcast(m, ms),
                                  ActiveOnes(m, ms) \o ds)
<1>1. TypeOK
  BY DEF Inv
<1>2. CASE AssertFails(m, f, cr, ch, cs)
  BY <1>2, IcreateAborts DEF AssertFails
<1>3. ASSUME NEW ms \in MservLists(m), NEW ds \in DservLists(m), Id, S(ms, ds)
      PROVE  /\ Handled(m, f, ch) /\ told' = told
             /\ file_creating'[m][f].client = cr.client
             /\ file_creating'[m][f].req_id = cr.req_id
  <2> DEFINE to == ActiveOnes(m, ms) \o ds
             B == Broadcast(m, ms)
             fl == file(ms)
  <2>1. StoreFile(m, f, cr, ch, cs, fl, B, to)
    BY <1>3
  <2>2. ms \in Seq(MServs) /\ IsSeq(to)
    BY <1>1, IcreateLists
  <2>3. fl \in Files /\ fl # NoFile
    <3>1. old \in Files /\ file_id[m] \in Nat
      BY <1>1 DEF TypeOK
    <3>2. PICK k \in BOOLEAN : k = known
      OBVIOUS
    <3>3. fl = [file_id |-> IF k THEN old.file_id ELSE NewFileId(file_id[m]),
                file_version |-> old.file_version + 1, mservs |-> ms]
      BY <3>2
    <3> HIDE DEF old, fl, known
    <3> QED
      BY <3>1, <3>3, <2>2, FileIs
  <2>4. file_id' \in [MServs -> Nat]
    <3>1. file_id \in [MServs -> Nat] /\ (file_id[m] + 1) % 65536 \in Nat
      BY <1>1 DEF TypeOK
    <3> QED
      BY <3>1, <1>3
  <2> HIDE DEF fl, to, B
  <2> QED
    BY <2>1, <2>2, <2>3, <2>4, IcreateStores
<1>4. \/ AssertFails(m, f, cr, ch, cs)
      \/ Id /\ \E ms \in MservLists(m), ds \in DservLists(m) : S(ms, ds)
  BY DEF Icreate
<1> HIDE DEF Id, S
<1> QED
  BY <1>2, <1>3, <1>4

\* What every step does.
Good == TypeOK' /\ Kept /\ AllKnow' /\ EntryIsCalledBack' /\ Moves

\* The entry that a client waits for.
LEMMA EntryIs ==
  ASSUME Inv, NEW m \in MServs, NEW f \in Names, file_creating[m][f] # NoCreating
  PROVE  /\ file_creating[m][f].client \in Clients /\ file_creating[m][f].req_id \in Nat
         /\ m \notin aborted => file_creating[m][f].ncheck <= Count(calls[m], f)
<1>1. EntryReqs /\ EntryIsCalledBack /\ TypeOK
  BY DEF Inv, Requests
<1>2. EntryOK(file_creating[m][f].client, file_creating[m][f].req_id, m, f)
  BY <1>1 DEF EntryReqs
<1>3. file_creating[m][f].client \in Clients /\ file_creating[m][f].req_id \in Nat
  BY <1>2 DEF EntryOK
<1>4. m \notin aborted => file_creating[m][f].ncheck <= Count(calls[m], f)
  BY <1>1 DEF EntryIsCalledBack, Count, About
<1> QED
  BY <1>3, <1>4

LEMMA LeftIs ==
  ASSUME NEW cr \in Entries, NEW left, left = [cr EXCEPT !.ncheck = @ - 1]
  PROVE  /\ left \in Entries /\ left.client = cr.client /\ left.req_id = cr.req_id
         /\ left.ncheck = cr.ncheck - 1
<1>1. /\ cr = [client |-> cr.client, req_id |-> cr.req_id, ncheck |-> cr.ncheck]
      /\ cr.client \in Clients \cup {0} /\ cr.req_id \in Nat /\ cr.ncheck \in Int
  BY DEF Entries
<1>2. left = [client |-> cr.client, req_id |-> cr.req_id, ncheck |-> cr.ncheck - 1]
  BY <1>1
<1> QED
  BY <1>1, <1>2 DEF Entries

\* A handler of m that touches neither the files nor the numbers.
SetsEntry(m, f, x, ch, cs) ==
  /\ x \in Entries /\ active' = active /\ ChanOK(chan')
  /\ \A e \in Pairs : e[1] # m => chan'[e] = ch[e]
  /\ file_creating' = [file_creating EXCEPT ![m][f] = x]
  /\ calls' = [calls EXCEPT ![m] = cs]
  /\ UNCHANGED <<file_meta_metadata, file_metadata, file_id, req_id, aborted>>
  /\ told' \in [MServs -> Seq(Answers)]
  /\ m \notin aborted => x = NoCreating \/ x.ncheck + 1 <= Count(calls[m], f)

LEMMA OnlyEntry ==
  ASSUME Inv, NEW m \in MServs, NEW f \in Names, NEW x, NEW ch,
         NEW cs, Rest(m, f, cs), SetsEntry(m, f, x, ch, cs)
  PROVE  Handled(m, f, ch) /\ file_creating'[m][f] = x
<1>1. Kept
  BY DEF Kept, SetsEntry
<1>2. /\ file_meta_metadata' \in [MServs -> [Names -> Files]]
      /\ file_metadata' \in [MServs -> [Names -> Files]]
      /\ file_id' \in [MServs -> Nat] /\ req_id' \in [MServs \cup Clients -> Nat \ {0}]
      /\ aborted' \in SUBSET MServs /\ aborted \subseteq aborted'
  BY DEF Inv, TypeOK, SetsEntry
<1>3. /\ CallsOK(cs) /\ IsSeq(cs)
      /\ \A i \in DOMAIN cs : cs[i].fun = "CREATE_METADATA" =>
           file_meta_metadata'[m][cs[i].name] # NoFile
      /\ \A g \in Names : g # f => Count(calls[m], g) <= Count(cs, g)
      /\ Count(calls[m], f) <= Count(cs, f) + 1
  BY <1>1, RestCalls
<1>4. ASSUME m \notin aborted', x # NoCreating
      PROVE  x.ncheck <= Count(cs, f)
  <2>1. IsSeq(calls[m])
    BY DEF Inv, TypeOK, CallsOK
  <2>2. Count(calls[m], f) \in Nat /\ Count(cs, f) \in Nat
    BY <2>1, <1>3, CountType
  <2>3. x.ncheck \in Int /\ x.ncheck + 1 <= Count(calls[m], f)
    BY <1>4 DEF Entries, SetsEntry
  <2> QED
    BY <2>2, <2>3, <1>3
<1>5. Sets(m, f, x, cs)
  BY <1>2, <1>3, <1>4 DEF Sets, SetsEntry
<1>6. /\ TypeOK' /\ AllKnow' /\ EntryIsCalledBack'
      /\ file_creating'[m][f] = x
      /\ \A n \in MServs, g \in Names : n # m \/ g # f =>
           file_creating'[n][g] = file_creating[n][g]
  BY <1>1, <1>5, HandlerKeeps
<1> QED
  BY <1>1, <1>6 DEF Handled, SetsEntry

LEMMA NoCreatingIs == NoCreating \in Entries
  BY DEF NoCreating, Entries

LEMMA KeepGood ==
  ASSUME Inv, NEW m \in MServs, NEW f \in Names, NEW x \in Entries, NEW ch, ChanOK(ch),
         NEW cs, Rest(m, f, cs), active' = active, Keep(m, f, x, ch, cs),
         m \notin aborted => x = NoCreating \/ x.ncheck + 1 <= Count(calls[m], f)
  PROVE  Handled(m, f, ch) /\ file_creating'[m][f] = x /\ told' = told
<1>1. /\ chan' = ch /\ ChanOK(chan') /\ told' = told
      /\ file_creating' = [file_creating EXCEPT ![m][f] = x]
      /\ calls' = [calls EXCEPT ![m] = cs]
      /\ UNCHANGED <<file_meta_metadata, file_metadata, file_id, req_id, aborted>>
  BY DEF Keep
<1>2. told' \in [MServs -> Seq(Answers)]
  BY <1>1 DEF Inv, TypeOK
<1>3. \A e \in Pairs : e[1] # m => chan'[e] = ch[e]
  BY <1>1
<1>4. SetsEntry(m, f, x, ch, cs)
  BY <1>1, <1>2, <1>3 DEF SetsEntry
<1> QED
  BY <1>1, <1>4, OnlyEntry

\* The history after an answer.
LEMMA ToldIs ==
  ASSUME TypeOK, NEW m \in MServs, NEW cr, cr.client \in Clients, cr.req_id \in Nat,
         NEW f \in Names, NEW ret, told' = Told(m, cr, f, ret), NEW ok \in BOOLEAN,
         ok <=> ret = 1
  PROVE  /\ Answers1(m, cr.client, cr.req_id, f, ok)
         /\ told' \in [MServs -> Seq(Answers)]
<1>1. ok = (ret = 1)
  OBVIOUS
<1>2. Answers1(m, cr.client, cr.req_id, f, ok)
  BY <1>1 DEF Told, Answers1
<1> DEFINE x == [client |-> cr.client, req |-> cr.req_id, name |-> f, ok |-> ok]
<1>3. x \in Answers
  BY DEF Answers
<1>4. told' = [told EXCEPT ![m] = Append(@, x)]
  BY <1>2 DEF Answers1
<1> HIDE DEF x
<1>5. told \in [MServs -> Seq(Answers)] /\ Append(told[m], x) \in Seq(Answers)
  BY <1>3 DEF TypeOK
<1> QED
  BY <1>2, <1>4, <1>5

LEMMA FinishGood ==
  ASSUME Inv, NEW m \in MServs, NEW f \in Names, file_creating[m][f] # NoCreating,
         NEW ch, ChanOK(ch), NEW cs, Rest(m, f, cs), active' = active,
         NEW ret, Finish(m, f, ret, ch, cs), NEW ok \in BOOLEAN, ok <=> ret = 1
  PROVE  /\ Handled(m, f, ch) /\ file_creating'[m][f] = NoCreating
         /\ Answers1(m, file_creating[m][f].client, file_creating[m][f].req_id, f, ok)
<1> DEFINE cr == file_creating[m][f]
<1>1. cr.client \in Clients /\ cr.req_id \in Nat
  BY EntryIs
<1>2. /\ chan' = Tell(ch, m, cr, ret) /\ told' = Told(m, cr, f, ret)
      /\ file_creating' = [file_creating EXCEPT ![m][f] = NoCreating]
      /\ calls' = [calls EXCEPT ![m] = cs]
      /\ UNCHANGED <<file_meta_metadata, file_metadata, file_id, req_id, aborted>>
  BY DEF Finish
<1> HIDE DEF cr
<1>3. ChanOK(chan') /\ \A e \in Pairs : e[1] # m => chan'[e] = ch[e]
  BY <1>1, <1>2, TellOK
<1>4. Answers1(m, cr.client, cr.req_id, f, ok) /\ told' \in [MServs -> Seq(Answers)]
  BY <1>1, <1>2, ToldIs DEF Inv
<1>5. Handled(m, f, ch) /\ file_creating'[m][f] = NoCreating
  <2>1. SetsEntry(m, f, NoCreating, ch, cs)
    BY <1>2, <1>3, <1>4, NoCreatingIs DEF SetsEntry
  <2> QED
    BY <2>1, OnlyEntry
<1> QED
  BY <1>4, <1>5 DEF cr

\* The packets from clients are the same in ch.
ClientsKeep(ch) == \A c \in Clients, n \in MServs : ch[<<c, n>>] = chan[<<c, n>>]

\* A callback of m: the entry of f keeps its request, or is answered.
LEMMA CallbackMoves ==
  ASSUME NEW m \in MServs, NEW f \in Names, NEW ch,
         ClientsKeep(ch),
         Handled(m, f, ch), NEW ok \in BOOLEAN,
         \/ /\ told' = told
            /\ \/ file_creating'[m][f] = NoCreating
               \/ /\ file_creating[m][f] # NoCreating
                  /\ file_creating'[m][f].client = file_creating[m][f].client
                  /\ file_creating'[m][f].req_id = file_creating[m][f].req_id
         \/ /\ file_creating[m][f] # NoCreating /\ file_creating'[m][f] = NoCreating
            /\ Answers1(m, file_creating[m][f].client, file_creating[m][f].req_id, f, ok)
            /\ ok => file_meta_metadata[m][f] # NoFile
  PROVE  Good
<1>1. ClientsSame
  <2>1. \A c \in Clients, n \in MServs : <<c, n>> \in Pairs /\ <<c, n>>[1] # m
    BY NodesDiffer
  <2> QED
    BY <2>1 DEF Handled, ClientsSame, ClientsKeep
<1>2. EntriesSame
  BY DEF Handled, EntriesSame
<1>3. Stays \/ Finishes(m, f, ok)
  BY <1>1, <1>2 DEF Stays, Finishes
<1>4. Moves
  BY <1>3 DEF Moves
<1> QED
  BY <1>4 DEF Good, Handled

LEMMA CheckAuthBackGood ==
  ASSUME Inv, NEW m \in MServs, m \notin aborted, NEW f \in Names, NEW ch, ChanOK(ch),
         ClientsKeep(ch),
         NEW cs, Rest(m, f, cs), active' = active, NEW ret,
         IrpcCheckAuthBack(m, f, ret, ch, cs)
  PROVE  Good
<1> DEFINE cr == file_creating[m][f]
           left == [cr EXCEPT !.ncheck = @ - 1]
<1>1. cr \in Entries
  BY DEF Inv, TypeOK
<1>2. /\ left \in Entries /\ left.client = cr.client /\ left.req_id = cr.req_id
      /\ left.ncheck = cr.ncheck - 1
  BY <1>1, LeftIs
<1>3. \/ cr = NoCreating /\ Keep(m, f, cr, ch, cs)
      \/ cr # NoCreating /\ ret = 0 /\ Finish(m, f, 0, ch, cs)
      \/ cr # NoCreating /\ Icreate(m, f, left, ch, cs)
      \/ cr # NoCreating /\ Keep(m, f, left, ch, cs)
  BY Zenon DEF IrpcCheckAuthBack
<1> HIDE DEF left
<1>4. PICK no \in BOOLEAN : ~no
  OBVIOUS
<1>5. CASE cr = NoCreating /\ Keep(m, f, cr, ch, cs)
  <2>1. Handled(m, f, ch) /\ file_creating'[m][f] = cr /\ told' = told
    BY <1>1, <1>5, KeepGood
  <2> QED
    BY <1>4, <1>5, <2>1, CallbackMoves
<1>6. CASE cr # NoCreating /\ ret = 0 /\ Finish(m, f, 0, ch, cs)
  <2>1. PICK z : z = 0
    OBVIOUS
  <2>2. Finish(m, f, z, ch, cs) /\ (no <=> z = 1)
    BY <1>4, <1>6, <2>1
  <2>3. /\ Handled(m, f, ch) /\ file_creating'[m][f] = NoCreating
        /\ Answers1(m, file_creating[m][f].client, file_creating[m][f].req_id, f, no)
    BY <1>6, <2>2, FinishGood
  <2> QED
    BY <1>4, <1>6, <2>3, CallbackMoves
<1>7. CASE cr # NoCreating /\ Icreate(m, f, left, ch, cs)
  <2>1. /\ Handled(m, f, ch) /\ told' = told
        /\ file_creating'[m][f].client = left.client /\ file_creating'[m][f].req_id = left.req_id
    BY <1>2, <1>7, IcreateGood
  <2> QED
    BY <1>2, <1>7, <2>1, CallbackMoves
<1>8. CASE cr # NoCreating /\ Keep(m, f, left, ch, cs)
  <2>1. left.ncheck + 1 <= Count(calls[m], f)
    <3>1. cr.ncheck <= Count(calls[m], f) /\ cr.ncheck \in Int
      BY <1>1, <1>8, EntryIs DEF Entries
    <3> QED
      BY <3>1, <1>2
  <2>2. Handled(m, f, ch) /\ file_creating'[m][f] = left /\ told' = told
    BY <1>2, <1>8, <2>1, KeepGood
  <2> QED
    BY <1>2, <1>8, <2>2, CallbackMoves
<1> QED
  BY <1>3, <1>5, <1>6, <1>7, <1>8

LEMMA SendMdBackGood ==
  ASSUME Inv, NEW m \in MServs, m \notin aborted, NEW f \in Names, NEW ch, ChanOK(ch),
         ClientsKeep(ch),
         NEW cs, Rest(m, f, cs), active' = active, file_meta_metadata[m][f] # NoFile,
         IrpcSendMdBack(m, f, ch, cs)
  PROVE  Good
<1> DEFINE cr == file_creating[m][f]
           left == [cr EXCEPT !.ncheck = @ - 1]
<1>1. cr \in Entries
  BY DEF Inv, TypeOK
<1>2. /\ left \in Entries /\ left.client = cr.client /\ left.req_id = cr.req_id
      /\ left.ncheck = cr.ncheck - 1
  BY <1>1, LeftIs
<1>3. \/ cr = NoCreating /\ Keep(m, f, cr, ch, cs)
      \/ cr # NoCreating /\ \E ret \in {0, 1} : Finish(m, f, ret, ch, cs)
      \/ cr # NoCreating /\ Keep(m, f, left, ch, cs)
  <2>1. \/ cr = NoCreating /\ Keep(m, f, cr, ch, cs)
        \/ cr # NoCreating /\ Finish(m, f, IF file_metadata[m][f] = NoFile THEN 0 ELSE 1, ch, cs)
        \/ cr # NoCreating /\ Keep(m, f, left, ch, cs)
    BY Zenon DEF IrpcSendMdBack
  <2>2. (IF file_metadata[m][f] = NoFile THEN 0 ELSE 1) \in {0, 1}
    OBVIOUS
  <2> QED
    BY <2>1, <2>2, Zenon
<1> HIDE DEF left
<1>4. PICK no \in BOOLEAN : ~no
  OBVIOUS
<1>5. CASE cr = NoCreating /\ Keep(m, f, cr, ch, cs)
  <2>1. Handled(m, f, ch) /\ file_creating'[m][f] = cr /\ told' = told
    BY <1>1, <1>5, KeepGood
  <2> QED
    BY <1>4, <1>5, <2>1, CallbackMoves
<1>6. CASE cr # NoCreating /\ \E ret \in {0, 1} : Finish(m, f, ret, ch, cs)
  <2>1. PICK z : Finish(m, f, z, ch, cs)
    BY <1>6
  <2>2. PICK ok \in BOOLEAN : ok <=> z = 1
    OBVIOUS
  <2>3. /\ Handled(m, f, ch) /\ file_creating'[m][f] = NoCreating
        /\ Answers1(m, file_creating[m][f].client, file_creating[m][f].req_id, f, ok)
    BY <1>6, <2>1, <2>2, FinishGood
  <2> QED
    BY <1>6, <2>3, CallbackMoves
<1>7. CASE cr # NoCreating /\ Keep(m, f, left, ch, cs)
  <2>1. left.ncheck + 1 <= Count(calls[m], f)
    <3>1. cr.ncheck <= Count(calls[m], f) /\ cr.ncheck \in Int
      BY <1>1, <1>7, EntryIs DEF Entries
    <3> QED
      BY <3>1, <1>2
  <2>2. Handled(m, f, ch) /\ file_creating'[m][f] = left /\ told' = told
    BY <1>2, <1>7, <2>1, KeepGood
  <2> QED
    BY <1>2, <1>7, <2>2, CallbackMoves
<1> QED
  BY <1>3, <1>5, <1>6, <1>7

LEMMA CallbackGood ==
  ASSUME Inv, NEW m \in MServs, m \notin aborted, NEW i \in DOMAIN calls[m],
         NEW ch, ChanOK(ch),
         ClientsKeep(ch),
         active' = active, NEW ret, Callback(m, i, ret, ch)
  PROVE  Good
<1> DEFINE f == calls[m][i].name
           cs == RemoveAt(calls[m], i)
<1>1. TypeOK /\ Knows(m, calls[m])
  BY DEF Inv, Stored, AllKnow
<1>2. f \in Names
  BY <1>1 DEF TypeOK, CallsOK
<1>3. Rest(m, f, cs)
  BY <1>1, RestRemove
<1>4. \/ IrpcCheckAuthBack(m, f, ret, ch, cs)
      \/ calls[m][i].fun = "CREATE_METADATA" /\ IrpcSendMdBack(m, f, ch, cs)
  BY DEF Callback
<1>5. calls[m][i].fun = "CREATE_METADATA" => file_meta_metadata[m][f] # NoFile
  BY <1>1 DEF Knows
<1> HIDE DEF f, cs
<1> QED
  BY <1>2, <1>3, <1>4, <1>5, CheckAuthBackGood, SendMdBackGood

-----------------------------------------------------------------------------
(* The actions.                                                             *)

\* A server takes a packet of a server.
LEMMA ServerTakes ==
  ASSUME TypeOK, NEW p, NEW q, <<p, q>> \in Pairs, p \notin Clients, chan[<<p, q>>] # <<>>
  PROVE  /\ ChanOK(Receive(p, q)) /\ PacketOK(Head(chan[<<p, q>>]))
         /\ ClientsKeep(Receive(p, q))
<1>1. ChanOK(chan)
  BY DEF TypeOK
<1>2. /\ ChanOK(Receive(p, q)) /\ PacketOK(Head(chan[<<p, q>>]))
      /\ \A e \in Pairs : e # <<p, q>> => Receive(p, q)[e] = chan[e]
  BY <1>1, ReceiveOK
<1>3. \A c \in Clients, n \in MServs : <<c, n>> \in Pairs /\ <<c, n>> # <<p, q>>
  BY NodesDiffer
<1> QED
  BY <1>2, <1>3 DEF ClientsKeep

LEMMA ServerAnswers ==
  ASSUME TypeOK, NEW p \in MServs, NEW q \in Servers, chan[<<p, q>>] # <<>>,
         NEW x, PacketOK(x),
         NEW new, new = Send(Receive(p, q), q, p, <<x>>)
  PROVE  ChanOK(new) /\ ClientsKeep(new)
<1> DEFINE ch == Receive(p, q)
<1>p. /\ <<p, q>> \in Pairs /\ <<q, p>> \in Pairs
      /\ p \notin Clients /\ q \notin Clients
  BY NodesDiffer DEF Servers
<1>1. ChanOK(ch) /\ ClientsKeep(ch)
  BY <1>p, ServerTakes
<1> HIDE DEF ch
<1>a. ChanOK(ch) /\ <<q, p>> \in Pairs /\ PacketOK(x)
  BY <1>1, <1>p
<1>2. /\ ChanOK(Send(ch, q, p, <<x>>))
      /\ \A e \in Pairs : e # <<q, p>> => Send(ch, q, p, <<x>>)[e] = ch[e]
  BY ONLY <1>a, SendOK
<1>3. \A c \in Clients, n \in MServs : <<c, n>> \in Pairs /\ <<c, n>> # <<q, p>>
  BY <1>p, NodesDiffer
<1>4. ClientsKeep(Send(ch, q, p, <<x>>))
  BY <1>1, <1>2, <1>3 DEF ClientsKeep
<1> QED
  BY <1>2, <1>4 DEF ch

\* A step that leaves the entries, the calls and the numbers alone.
LEMMA QuietGood ==
  ASSUME Inv, ChanOK(chan'),
         ClientsKeep(chan'),
         UNCHANGED <<file_creating, file_id, rpcVars, active, aborted, told>>, Kept,
         file_meta_metadata' \in [MServs -> [Names -> Files]],
         file_metadata' \in [MServs -> [Names -> Files]]
  PROVE  Good
<1>1. /\ file_creating' = file_creating /\ calls' = calls /\ aborted' = aborted
      /\ active' = active /\ file_id' = file_id /\ told' = told /\ req_id' = req_id
  BY DEF rpcVars
<1>2. /\ req_id' \in [MServs \cup Clients -> Nat \ {0}]
      /\ told' \in [MServs -> Seq(Answers)]
  BY <1>1 DEF Inv, TypeOK
<1>3. TypeOK' /\ AllKnow' /\ EntryIsCalledBack'
  BY <1>1, <1>2, QuietKeeps
<1>4. Stays
  BY <1>1 DEF Stays, ClientsSame, EntriesSame, ClientsKeep
<1> QED
  BY <1>3, <1>4 DEF Good, Moves

LEMMA SameFiles ==
  ASSUME Inv, UNCHANGED <<file_meta_metadata, file_metadata>>
  PROVE  /\ Kept
         /\ file_meta_metadata' \in [MServs -> [Names -> Files]]
         /\ file_metadata' \in [MServs -> [Names -> Files]]
  BY DEF Inv, TypeOK, Kept

LEMMA CreateFileGood ==
  ASSUME Inv, NEW c \in Clients, NEW m \in MServs, NEW f \in Names, CreateFile(c, m, f)
  PROVE  Good
<1> DEFINE x == Packet("CREATE", req_id[c], f, 0, NoFile)
<1>1. TypeOK /\ ChanOK(chan) /\ <<c, m>> \in Pairs
  BY NodesDiffer DEF Inv, TypeOK
<1>2. x.fun = "CREATE" /\ x.req = req_id[c] /\ x.name = f
  BY PacketFields
<1>3. /\ chan' = Send(chan, c, m, <<x>>) /\ req_id' = [req_id EXCEPT ![c] = req_id[c] + 1]
      /\ UNCHANGED <<mservVars, calls, active, here, aborted, timeouts, told>>
  BY DEF CreateFile
<1> HIDE DEF x
<1>4. PacketOK(x)
  BY <1>2 DEF PacketOK, Funs
<1>5. /\ ChanOK(chan') /\ chan'[<<c, m>>] = Cat(chan[<<c, m>>], <<x>>)
      /\ \A e \in Pairs : e # <<c, m>> => chan'[e] = chan[e]
  <2>1. ChanOK(chan) /\ <<c, m>> \in Pairs /\ PacketOK(x)
    BY <1>1, <1>4
  <2>2. /\ ChanOK(Send(chan, c, m, <<x>>))
        /\ Send(chan, c, m, <<x>>)[<<c, m>>] = Cat(chan[<<c, m>>], <<x>>)
        /\ \A e \in Pairs : e # <<c, m>> => Send(chan, c, m, <<x>>)[e] = chan[e]
    BY ONLY <2>1, SendOK
  <2>3. chan' = Send(chan, c, m, <<x>>)
    BY <1>3
  <2> QED
    BY <2>2, <2>3
<1>6. /\ file_creating' = file_creating /\ calls' = calls /\ aborted' = aborted
      /\ active' = active /\ file_id' = file_id /\ told' = told
      /\ UNCHANGED <<file_meta_metadata, file_metadata>>
  BY <1>3 DEF mservVars
<1>7. /\ req_id' \in [MServs \cup Clients -> Nat \ {0}]
      /\ req_id'[c] = req_id[c] + 1
      /\ \A d \in Clients : d # c => req_id'[d] = req_id[d]
  <2>1. req_id \in [MServs \cup Clients -> Nat \ {0}] /\ req_id[c] + 1 \in Nat \ {0}
    BY <1>1 DEF TypeOK
  <2> QED
    BY <2>1, <1>3
<1>8. told' \in [MServs -> Seq(Answers)]
  BY <1>1, <1>6 DEF TypeOK
<1>9. /\ Kept
      /\ file_meta_metadata' \in [MServs -> [Names -> Files]]
      /\ file_metadata' \in [MServs -> [Names -> Files]]
  BY <1>6, SameFiles
<1>10. TypeOK' /\ AllKnow' /\ EntryIsCalledBack'
  BY <1>5, <1>6, <1>7, <1>8, <1>9, QuietKeeps
<1>11. \A d \in Clients, n \in MServs : <<d, n>> \in Pairs
  BY NodesDiffer
<1>12. Asks(c, m)
  BY <1>2, <1>5, <1>6, <1>7, <1>11 DEF Asks
<1> QED
  BY <1>9, <1>10, <1>12 DEF Good, Moves

\* What s_core_mserv_create finds in the packet it takes.
LEMMA CreatePacket ==
  ASSUME Inv, NEW m \in MServs, NEW c \in Clients, Arrives(c, m, "CREATE"),
         NEW pkt, pkt = Head(chan[<<c, m>>])
  PROVE  /\ m \notin aborted /\ chan[<<c, m>>] # <<>>
         /\ pkt.name \in Names /\ pkt.req \in Nat
         /\ ChanOK(Receive(c, m))
         /\ Receive(c, m)[<<c, m>>] = Tail(chan[<<c, m>>])
         /\ \A e \in Pairs : e # <<c, m>> => Receive(c, m)[e] = chan[e]
<1>1. TypeOK /\ ChanOK(chan) /\ <<c, m>> \in Pairs /\ PacketReqs
  BY NodesDiffer DEF Inv, TypeOK, Requests
<1>2. m \notin aborted /\ chan[<<c, m>>] # <<>> /\ pkt.fun = "CREATE"
  BY DEF Arrives
<1>3. /\ PacketOK(pkt) /\ ChanOK(Receive(c, m))
      /\ Receive(c, m)[<<c, m>>] = Tail(chan[<<c, m>>])
      /\ \A e \in Pairs : e # <<c, m>> => Receive(c, m)[e] = chan[e]
  BY <1>1, <1>2, ReceiveOK
<1>4. pkt.name \in Names
  BY <1>2, <1>3 DEF PacketOK
<1>5. IsSeq(chan[<<c, m>>])
  BY <1>1 DEF ChanOK, PacketsOK
<1>6. 1 \in DOMAIN chan[<<c, m>>] /\ pkt = chan[<<c, m>>][1]
  BY <1>2, <1>5, TailIs
<1>7. pkt.req \in Nat
  BY <1>1, <1>6 DEF PacketReqs
<1> QED
  BY <1>2, <1>3, <1>4, <1>7

\* The first packet of c is taken, and m sends what it sends.
LEMMA MservTakes ==
  ASSUME NEW m \in MServs, NEW c \in Clients, chan[<<c, m>>] # <<>>, NEW ch,
         ch[<<c, m>>] = Tail(chan[<<c, m>>]),
         \A e \in Pairs : e # <<c, m>> => ch[e] = chan[e],
         \A e \in Pairs : e[1] # m => chan'[e] = ch[e],
         \A d \in Clients : req_id'[d] = req_id[d]
  PROVE  Takes(m, c)
<1>1. \A d \in Clients, n \in MServs : <<d, n>> \in Pairs /\ <<d, n>>[1] # m
  BY NodesDiffer
<1> QED
  BY <1>1 DEF Takes

LEMMA MservRefusesGood ==
  ASSUME Inv, NEW m \in MServs, NEW c \in Clients, Arrives(c, m, "CREATE"),
         NEW pkt, pkt = Head(chan[<<c, m>>]),
         NEW cr, cr.client = c, cr.req_id = pkt.req,
         chan' = Tell(Receive(c, m), m, cr, 0), told' = Told(m, cr, pkt.name, 0),
         UNCHANGED <<mservVars, rpcVars, aborted, active>>
  PROVE  Good
<1> DEFINE ch == Receive(c, m)
<1>1. /\ chan[<<c, m>>] # <<>> /\ pkt.name \in Names /\ pkt.req \in Nat
      /\ ChanOK(ch) /\ ch[<<c, m>>] = Tail(chan[<<c, m>>])
      /\ \A e \in Pairs : e # <<c, m>> => ch[e] = chan[e]
  BY CreatePacket
<1>2. PICK z : z = 0
  OBVIOUS
<1>3. chan' = Tell(ch, m, cr, z) /\ told' = Told(m, cr, pkt.name, z)
  BY <1>2
<1> HIDE DEF ch
<1>4. ChanOK(chan') /\ \A e \in Pairs : e[1] # m => chan'[e] = ch[e]
  BY <1>1, <1>3, TellOK
<1>5. PICK no \in BOOLEAN : ~no
  OBVIOUS
<1>6. Answers1(m, c, pkt.req, pkt.name, no) /\ told' \in [MServs -> Seq(Answers)]
  <2>1. TypeOK /\ (no <=> z = 1)
    BY <1>2, <1>5 DEF Inv
  <2>2. cr.client \in Clients /\ cr.req_id \in Nat
    BY <1>1
  <2>3. Answers1(m, cr.client, cr.req_id, pkt.name, no) /\ told' \in [MServs -> Seq(Answers)]
    BY <1>1, <1>3, <2>1, <2>2, ToldIs
  <2> QED
    BY <2>3
<1>7. /\ file_creating' = file_creating /\ calls' = calls /\ aborted' = aborted
      /\ active' = active /\ file_id' = file_id /\ req_id' = req_id
      /\ UNCHANGED <<file_meta_metadata, file_metadata>>
  BY DEF mservVars, rpcVars
<1>8. req_id' \in [MServs \cup Clients -> Nat \ {0}]
  BY <1>7 DEF Inv, TypeOK
<1>9. /\ Kept
      /\ file_meta_metadata' \in [MServs -> [Names -> Files]]
      /\ file_metadata' \in [MServs -> [Names -> Files]]
  BY <1>7, SameFiles
<1>10. TypeOK' /\ AllKnow' /\ EntryIsCalledBack'
  BY <1>4, <1>6, <1>7, <1>8, <1>9, QuietKeeps
<1>11. Takes(m, c)
  BY <1>1, <1>4, <1>7, MservTakes
<1>12. EntriesSame
  BY <1>7 DEF EntriesSame
<1>13. Answers1(m, c, pkt.req, pkt.name, FALSE)
  BY <1>5, <1>6
<1>14. Refuses(m, c) /\ Head(chan[<<c, m>>]).name \in Names
  BY <1>1, <1>11, <1>12, <1>13 DEF Refuses
<1> QED
  BY <1>9, <1>10, <1>14 DEF Good, Moves

\* A request that icheck_can_create lets in.
LEMMA MservEntersGood ==
  ASSUME Inv, NEW m \in MServs, NEW c \in Clients, Arrives(c, m, "CREATE"),
         NEW pkt, pkt = Head(chan[<<c, m>>]), IcheckCanCreate(m, m, pkt.name),
         Handled(m, pkt.name, Receive(c, m)), told' = told,
         file_creating'[m][pkt.name].client = c, file_creating'[m][pkt.name].req_id = pkt.req
  PROVE  Good
<1>1. /\ chan[<<c, m>>] # <<>>
      /\ Receive(c, m)[<<c, m>>] = Tail(chan[<<c, m>>])
      /\ \A e \in Pairs : e # <<c, m>> => Receive(c, m)[e] = chan[e]
  BY CreatePacket
<1>2. Takes(m, c)
  <2>1. /\ \A e \in Pairs : e[1] # m => chan'[e] = Receive(c, m)[e]
        /\ \A d \in Clients : req_id'[d] = req_id[d]
    BY DEF Handled
  <2> QED
    BY <1>1, <2>1, MservTakes
<1>3. m \in Nat
  BY ONLY CreateAssumption, m \in MServs
<1>b. ~(m < m)
  BY ONLY <1>3
<1>4. file_creating[m][pkt.name] = NoCreating /\ file_meta_metadata[m][pkt.name] = NoFile
  BY <1>b DEF IcheckCanCreate
<1>5. Enters(m, c)
  BY <1>2, <1>4 DEF Enters, Handled
<1> QED
  BY <1>5 DEF Good, Moves, Handled

LEMMA MservAsksGood ==
  ASSUME Inv, NEW m \in MServs, NEW c \in Clients, Arrives(c, m, "CREATE"),
         NEW pkt, pkt = Head(chan[<<c, m>>]), IcheckCanCreate(m, m, pkt.name),
         NEW to, to = Others(m), NEW cr,
         cr = [client |-> c, req_id |-> pkt.req, ncheck |-> Len(to)],
         file_creating' = [file_creating EXCEPT ![m][pkt.name] = cr],
         chan' = SendCalls(Receive(c, m), m, to, "CREATE_CHECK_AUTH", pkt.name, NoFile),
         calls' = [calls EXCEPT ![m] = @ \o NewCalls(m, to, "CREATE_CHECK_AUTH", pkt.name)],
         req_id' = [req_id EXCEPT ![m] = @ + Len(to)],
         UNCHANGED <<file_meta_metadata, file_metadata, file_id, aborted, told, active>>
  PROVE  Good
<1> DEFINE f == pkt.name
           ch == Receive(c, m)
<1>1. /\ f \in Names /\ pkt.req \in Nat /\ ChanOK(ch)
  BY CreatePacket
<1>2. TypeOK /\ Rest(m, f, calls[m]) /\ IsSeq(to)
  BY <1>1, RestAll, OthersIs DEF Inv
<1>3. Len(to) \in Nat
  BY <1>2, SeqFacts
<1>4. cr \in Entries /\ cr.client = c /\ cr.req_id = pkt.req /\ cr.ncheck = Len(to)
  BY <1>1, <1>3 DEF Entries
<1>5. /\ Kept
      /\ file_meta_metadata' \in [MServs -> [Names -> Files]]
      /\ file_metadata' \in [MServs -> [Names -> Files]]
  BY SameFiles
<1>6. PICK fun \in CallFuns : fun = "CREATE_CHECK_AUTH"
  BY DEF CallFuns
<1>7. fun # "CREATE_METADATA"
  BY <1>6
<1> DEFINE new == Cat(calls[m], NewCalls(m, to, fun, f))
<1>8. chan' = SendCalls(ch, m, to, fun, f, NoFile) /\ calls' = [calls EXCEPT ![m] = new]
  BY <1>6 DEF Cat
<1>9. ChanOK(chan') /\ \A e \in Pairs : e[1] # m => chan'[e] = ch[e]
  <2> HIDE DEF ch, f
  <2>1. /\ ChanOK(SendCalls(ch, m, to, fun, f, NoFile))
        /\ \A e \in Pairs : e[1] # m => SendCalls(ch, m, to, fun, f, NoFile)[e] = ch[e]
    BY ONLY <1>1, <1>2, <1>6, <1>7, SendCallsOK
  <2> QED
    BY ONLY <2>1, <1>8
<1>10. /\ CallsOK(new)
       /\ \A i \in DOMAIN new : new[i].fun = "CREATE_METADATA" =>
            file_meta_metadata'[m][new[i].name] # NoFile
       /\ Len(to) <= Count(new, f)
       /\ \A g \in Names : g # f => Count(calls[m], g) <= Count(new, g)
  <2> HIDE DEF f
  <2> QED
    BY <1>1, <1>2, <1>5, <1>6, <1>7, AddCalls
<1>11. /\ req_id' \in [MServs \cup Clients -> Nat \ {0}]
       /\ \A d \in Clients : req_id'[d] = req_id[d]
  <2>1. req_id \in [MServs \cup Clients -> Nat \ {0}] /\ req_id[m] + Len(to) \in Nat \ {0}
    BY <1>2, <1>3 DEF TypeOK
  <2> QED
    BY <2>1, NodesDiffer
<1>12. /\ aborted' \in SUBSET MServs /\ aborted \subseteq aborted'
       /\ told' \in [MServs -> Seq(Answers)] /\ file_id' \in [MServs -> Nat]
  BY <1>2 DEF TypeOK
<1> HIDE DEF new
<1>13. Sets(m, f, cr, new)
  BY <1>4, <1>5, <1>8, <1>9, <1>10, <1>11, <1>12 DEF Sets
<1> HIDE DEF f, ch
<1>14. /\ TypeOK' /\ AllKnow' /\ EntryIsCalledBack'
       /\ file_creating'[m][f] = cr
       /\ \A n \in MServs, g \in Names : n # m \/ g # f =>
            file_creating'[n][g] = file_creating[n][g]
  BY ONLY Inv, m \in MServs, <1>1, <1>5, <1>13, HandlerKeeps
<1>15. Handled(m, f, ch)
  BY <1>5, <1>9, <1>11, <1>14 DEF Handled
<1>16. /\ Handled(m, pkt.name, Receive(c, m)) /\ told' = told
       /\ file_creating'[m][pkt.name].client = c /\ file_creating'[m][pkt.name].req_id = pkt.req
  BY <1>4, <1>14, <1>15 DEF f, ch
<1> QED
  BY <1>16, MservEntersGood

LEMMA MservCreateGood ==
  ASSUME Inv, NEW m \in MServs, NEW c \in Clients, MservCreate(m, c)
  PROVE  Good
<1> DEFINE pkt == Head(chan[<<c, m>>])
           f == pkt.name
           to == Others(m)
           cr == [client |-> c, req_id |-> pkt.req, ncheck |-> Len(to)]
           rest == Receive(c, m)
<1>1. Arrives(c, m, "CREATE") /\ active' = active
  BY DEF MservCreate
<1>2. cr.client = c /\ cr.req_id = pkt.req
  OBVIOUS
<1>3. CASE /\ chan' = Tell(rest, m, cr, 0) /\ told' = Told(m, cr, f, 0)
           /\ UNCHANGED <<mservVars, rpcVars, aborted>>
  <2>1. UNCHANGED <<mservVars, rpcVars, aborted, active>>
    BY <1>1, <1>3
  <2> HIDE DEF cr
  <2> QED
    BY <1>1, <1>2, <1>3, <2>1, MservRefusesGood
<1>4. CASE /\ IcheckCanCreate(m, m, f)
           /\ file_creating' = [file_creating EXCEPT ![m][f] = cr]
           /\ chan' = SendCalls(rest, m, to, "CREATE_CHECK_AUTH", f, NoFile)
           /\ calls' = [calls EXCEPT ![m] = @ \o NewCalls(m, to, "CREATE_CHECK_AUTH", f)]
           /\ req_id' = [req_id EXCEPT ![m] = @ + Len(to)]
           /\ UNCHANGED <<file_meta_metadata, file_metadata, file_id, aborted, told>>
  <2>1. UNCHANGED <<file_meta_metadata, file_metadata, file_id, aborted, told, active>>
    BY <1>1, <1>4
  <2> QED
    BY <1>1, <1>4, <2>1, MservAsksGood
<1>5. CASE IcheckCanCreate(m, m, f) /\ Icreate(m, f, cr, rest, calls[m])
  <2>1. f \in Names /\ pkt.req \in Nat /\ ChanOK(rest)
    BY <1>1, CreatePacket
  <2>2. TypeOK /\ Rest(m, f, calls[m]) /\ IsSeq(to)
    BY <2>1, RestAll, OthersIs DEF Inv
  <2>3. Len(to) \in Nat
    BY <2>2, SeqFacts
  <2>4. cr \in Entries
    BY <2>1, <2>3 DEF Entries
  <2> HIDE DEF cr, rest, f
  <2>5. /\ Handled(m, f, rest) /\ told' = told
        /\ file_creating'[m][f].client = cr.client /\ file_creating'[m][f].req_id = cr.req_id
    BY <1>1, <1>5, <2>1, <2>2, <2>4, IcreateGood
  <2> QED
    BY <1>1, <1>2, <1>5, <2>5, MservEntersGood DEF f, rest
<1> QED
  BY <1>3, <1>4, <1>5, Zenon DEF MservCreate

LEMMA CheckAuthGood ==
  ASSUME Inv, NEW m \in MServs, NEW p \in MServs, CheckAuth(m, p)
  PROVE  Good
<1> DEFINE x == Ret(Head(chan[<<p, m>>]).req,
                    IF IcheckCanCreate(m, p, Head(chan[<<p, m>>]).name) THEN 1 ELSE 0)
<1>1. /\ chan[<<p, m>>] # <<>> /\ chan' = Send(Receive(p, m), m, p, <<x>>)
      /\ UNCHANGED <<mservVars, rpcVars, active, aborted, told>>
  BY Zenon DEF CheckAuth, Arrives
<1>2. PacketOK(x)
  BY RetOK
<1> HIDE DEF x
<1>3. TypeOK /\ p \in MServs /\ m \in Servers
  BY NodesDiffer DEF Inv, Servers
<1>a. chan[<<p, m>>] # <<>> /\ chan' = Send(Receive(p, m), m, p, <<x>>)
  BY <1>1
<1>4. ChanOK(chan') /\ ClientsKeep(chan')
  BY ONLY <1>a, <1>2, <1>3, ServerAnswers
<1>5. UNCHANGED <<file_creating, file_id, rpcVars, active, aborted, told>>
      /\ UNCHANGED <<file_meta_metadata, file_metadata>>
  BY <1>1 DEF mservVars
<1> QED
  BY <1>4, <1>5, SameFiles, QuietGood

LEMMA CreateMetaMetaDataGood ==
  ASSUME Inv, NEW m \in MServs, NEW p \in MServs, CreateMetaMetaData(m, p)
  PROVE  Good
<1> DEFINE pkt == Head(chan[<<p, m>>])
<1>1. /\ chan[<<p, m>>] # <<>> /\ pkt.fun = "CREATE_META_META_DATA"
      /\ chan' = Receive(p, m)
      /\ file_meta_metadata' = [file_meta_metadata EXCEPT ![m][pkt.name] = pkt.file]
      /\ UNCHANGED <<file_creating, file_metadata, file_id, rpcVars, active, aborted, told>>
  BY DEF CreateMetaMetaData, Arrives
<1>2. TypeOK /\ <<p, m>> \in Pairs /\ p \notin Clients
  BY NodesDiffer DEF Inv, Servers
<1>3. /\ ChanOK(chan') /\ PacketOK(pkt)
      /\ ClientsKeep(chan')
  BY <1>1, <1>2, ServerTakes
<1> HIDE DEF pkt
<1>4. pkt.name \in Names /\ pkt.file \in Files /\ pkt.file # NoFile
  BY <1>1, <1>3 DEF PacketOK
<1>5. /\ file_meta_metadata' \in [MServs -> [Names -> Files]]
      /\ file_meta_metadata'[m][pkt.name] = pkt.file
      /\ \A n \in MServs, g \in Names : n # m \/ g # pkt.name =>
           file_meta_metadata'[n][g] = file_meta_metadata[n][g]
  BY <1>1, <1>2, <1>4, UpdateEntry DEF TypeOK
<1>6. Kept
  BY <1>4, <1>5 DEF Kept
<1>7. file_metadata' \in [MServs -> [Names -> Files]]
  BY <1>1, <1>2 DEF TypeOK
<1>8. UNCHANGED <<file_creating, file_id, rpcVars, active, aborted, told>>
  BY <1>1
<1> QED
  BY <1>3, <1>5, <1>6, <1>7, <1>8, QuietGood

LEMMA MservCreateMetadataGood ==
  ASSUME Inv, NEW m \in MServs, NEW p \in MServs, MservCreateMetadata(m, p)
  PROVE  Good
<1> DEFINE pkt == Head(chan[<<p, m>>])
           x == Ret(pkt.req, 1)
<1>1. /\ chan[<<p, m>>] # <<>> /\ pkt.fun = "CREATE_METADATA"
      /\ chan' = Send(Receive(p, m), m, p, <<x>>)
      /\ file_metadata' = [file_metadata EXCEPT ![m][pkt.name] = pkt.file]
      /\ UNCHANGED <<file_creating, file_meta_metadata, file_id, rpcVars, active, aborted, told>>
  BY Zenon DEF MservCreateMetadata, Arrives
<1>2. PacketOK(x)
  BY RetOK
<1> HIDE DEF x
<1>3. TypeOK /\ p \in MServs /\ m \in Servers
  BY NodesDiffer DEF Inv, Servers
<1>a. chan[<<p, m>>] # <<>> /\ chan' = Send(Receive(p, m), m, p, <<x>>)
  BY <1>1
<1>4. ChanOK(chan') /\ ClientsKeep(chan')
  BY ONLY <1>a, <1>2, <1>3, ServerAnswers
<1>b. <<p, m>> \in Pairs /\ p \notin Clients
  BY <1>3, NodesDiffer
<1>5. PacketOK(pkt)
  BY <1>1, <1>3, <1>b, ServerTakes
<1> HIDE DEF pkt
<1>6. pkt.name \in Names /\ pkt.file \in Files
  BY <1>1, <1>5 DEF PacketOK
<1>7. file_metadata' \in [MServs -> [Names -> Files]]
  BY <1>1, <1>3, <1>6, UpdateEntry DEF TypeOK
<1>8. Kept /\ file_meta_metadata' \in [MServs -> [Names -> Files]]
  BY <1>1, <1>3 DEF Kept, TypeOK
<1>9. UNCHANGED <<file_creating, file_id, rpcVars, active, aborted, told>>
  BY <1>1
<1> QED
  BY <1>4, <1>7, <1>8, <1>9, QuietGood

LEMMA DservCreateMetadataGood ==
  ASSUME Inv, NEW d \in DServs, NEW p \in MServs, DservCreateMetadata(d, p)
  PROVE  Good
<1> DEFINE x == Ret(Head(chan[<<p, d>>]).req, 1)
<1>1. /\ chan[<<p, d>>] # <<>> /\ chan' = Send(Receive(p, d), d, p, <<x>>)
      /\ UNCHANGED <<mservVars, rpcVars, active, aborted, told>>
  BY Zenon DEF DservCreateMetadata, Arrives
<1>2. PacketOK(x)
  BY RetOK
<1> HIDE DEF x
<1>3. TypeOK /\ p \in MServs /\ d \in Servers
  BY NodesDiffer DEF Inv, Servers
<1>a. chan[<<p, d>>] # <<>> /\ chan' = Send(Receive(p, d), d, p, <<x>>)
  BY <1>1
<1>4. ChanOK(chan') /\ ClientsKeep(chan')
  BY ONLY <1>a, <1>2, <1>3, ServerAnswers
<1>5. UNCHANGED <<file_creating, file_id, rpcVars, active, aborted, told>>
      /\ UNCHANGED <<file_meta_metadata, file_metadata>>
  BY <1>1 DEF mservVars
<1> QED
  BY <1>4, <1>5, SameFiles, QuietGood

LEMMA RpcBackGood ==
  ASSUME Inv, NEW m \in MServs, NEW p \in Servers, RpcBack(m, p)
  PROVE  Good
<1> DEFINE pkt == Head(chan[<<p, m>>])
           waits == {i \in DOMAIN calls[m] : calls[m][i].serv = p /\ calls[m][i].req = pkt.req}
           ch == Receive(p, m)
<1>1. chan[<<p, m>>] # <<>> /\ m \notin aborted /\ active' = active
  BY DEF RpcBack, Arrives
<1>2. TypeOK /\ <<p, m>> \in Pairs /\ p \notin Clients
  BY NodesDiffer DEF Inv, Servers
<1>3. ChanOK(ch) /\ ClientsKeep(ch)
  BY <1>1, <1>2, ServerTakes
<1>4. CASE \E i \in waits : Callback(m, i, pkt.ret, ch)
  <2> PICK i \in waits : Callback(m, i, pkt.ret, ch)
    BY <1>4
  <2>1. i \in DOMAIN calls[m] /\ Callback(m, i, pkt.ret, ch)
    OBVIOUS
  <2> HIDE DEF ch
  <2> QED
    BY ONLY Inv, <2>1, <1>1, <1>3, CallbackGood
<1>5. CASE chan' = ch /\ UNCHANGED <<mservVars, rpcVars, aborted, told>>
  <2>1. ChanOK(chan') /\ ClientsKeep(chan')
    BY <1>3, <1>5
  <2>2. UNCHANGED <<file_creating, file_id, rpcVars, active, aborted, told>>
        /\ UNCHANGED <<file_meta_metadata, file_metadata>>
    BY <1>1, <1>5 DEF mservVars
  <2> QED
    BY <2>1, <2>2, SameFiles, QuietGood
<1> QED
  BY <1>4, <1>5, Zenon DEF RpcBack

LEMMA TimeoutGood ==
  ASSUME Inv, NEW m \in MServs, Timeout(m)
  PROVE  Good
<1>1. m \notin aborted /\ calls[m] # <<>> /\ active' = active /\ Callback(m, 1, 2, chan)
  BY DEF Timeout
<1>2. IsSeq(calls[m]) /\ ChanOK(chan)
  BY DEF Inv, TypeOK, CallsOK
<1>3. 1 \in DOMAIN calls[m]
  BY <1>1, <1>2, TailIs
<1>4. PICK i \in DOMAIN calls[m], ret \in {2} : i = 1
  BY <1>3
<1>5. Callback(m, i, ret, chan)
  BY <1>1, <1>4
<1>6. ClientsKeep(chan)
  BY DEF ClientsKeep
<1> QED
  BY ONLY Inv, m \in MServs, <1>1, <1>2, <1>5, <1>6, CallbackGood

LEMMA ClientCreateBackGood ==
  ASSUME Inv, NEW c \in Clients, NEW m \in MServs, ClientCreateBack(c, m)
  PROVE  Good
<1>1. /\ chan[<<m, c>>] # <<>> /\ chan' = Receive(m, c)
      /\ UNCHANGED <<mservVars, rpcVars, active, aborted, told>>
  BY DEF ClientCreateBack, Arrives
<1>2. TypeOK /\ <<m, c>> \in Pairs /\ m \notin Clients
  BY NodesDiffer DEF Inv
<1>3. ChanOK(chan') /\ ClientsKeep(chan')
  BY <1>1, <1>2, ServerTakes
<1>4. UNCHANGED <<file_creating, file_id, rpcVars, active, aborted, told>>
      /\ UNCHANGED <<file_meta_metadata, file_metadata>>
  BY <1>1 DEF mservVars
<1> QED
  BY <1>3, <1>4, SameFiles, QuietGood

\* A client leaves, or nothing happens.
LEMMA LeaveGood ==
  ASSUME Inv, UNCHANGED <<mservVars, rpcVars, chan, active, aborted, told>>
  PROVE  Good
<1>1. ChanOK(chan') /\ ClientsKeep(chan')
  BY DEF Inv, TypeOK, ClientsKeep
<1>2. UNCHANGED <<file_creating, file_id, rpcVars, active, aborted, told>>
      /\ UNCHANGED <<file_meta_metadata, file_metadata>>
  BY DEF mservVars
<1> QED
  BY <1>1, <1>2, SameFiles, QuietGood

-----------------------------------------------------------------------------
(* The theorems.                                                            *)

LEMMA InvInit ==
  ASSUME Init
  PROVE  Inv
<1>1. NoFile \in Files
  <2>1. <<>> \in Seq(MServs)
    OBVIOUS
  <2> QED
    BY <2>1 DEF NoFile, Files
<1>2. CallsOK(<<>>) /\ PacketsOK(<<>>)
  <2>1. <<>> \in Seq({}) /\ DOMAIN <<>> = {}
    OBVIOUS
  <2>2. IsSeq(<<>>)
    BY <2>1, SeqIs
  <2> QED
    BY <2>1, <2>2 DEF CallsOK, PacketsOK
<1>3. \A m \in MServs : calls[m] = <<>> /\ told[m] = <<>>
  BY DEF Init
<1>4. \A e \in Pairs : chan[e] = <<>>
  BY DEF Init
<1>5. \A m \in MServs, f \in Names : file_creating[m][f] = NoCreating
  BY DEF Init
<1>6. TypeOK
  <2>1. file_creating \in [MServs -> [Names -> Entries]]
    BY NoCreatingIs DEF Init
  <2>2. /\ file_meta_metadata \in [MServs -> [Names -> Files]]
        /\ file_metadata \in [MServs -> [Names -> Files]]
    BY <1>1 DEF Init
  <2>3. file_id \in [MServs -> Nat] /\ req_id \in [MServs \cup Clients -> Nat \ {0}]
    BY DEF Init
  <2>4. calls = [m \in MServs |-> calls[m]] /\ \A m \in MServs : CallsOK(calls[m])
    BY <1>2, <1>3 DEF Init
  <2>5. ChanOK(chan)
    BY <1>2, <1>4 DEF Init, ChanOK
  <2>6. active \in [MServs -> SUBSET Servers]
    BY DEF Init
  <2>7. aborted \in SUBSET MServs
    BY DEF Init
  <2>8. told \in [MServs -> Seq(Answers)]
    BY DEF Init
  <2> QED
    BY <2>1, <2>2, <2>3, <2>4, <2>5, <2>6, <2>7, <2>8 DEF TypeOK
<1>7. Requests
  <2>1. \A c \in Clients, m \in MServs : chan[<<c, m>>] = <<>>
    BY <1>4, NodesDiffer
  <2>2. PacketReqs
    BY <2>1 DEF PacketReqs
  <2>3. EntryReqs
    BY <1>5 DEF EntryReqs
  <2>4. ToldReqs /\ AnsweredOnce
    BY <1>3 DEF ToldReqs, AnsweredOnce
  <2> QED
    BY <2>2, <2>3, <2>4 DEF Requests
<1>8. Stored
  BY <1>3 DEF Stored, AllKnow, Knows, ToldStored, CreatedOnce
<1>9. EntryIsCalledBack
  BY <1>5 DEF EntryIsCalledBack
<1> QED
  BY <1>6, <1>7, <1>8, <1>9 DEF Inv

LEMMA InvNext ==
  ASSUME Inv, [Next]_vars
  PROVE  Inv'
<1>1. Good
  <2>1. CASE UNCHANGED vars
    <3>1. UNCHANGED <<mservVars, rpcVars, chan, active, aborted, told>>
      BY <2>1 DEF vars
    <3> QED
      BY <3>1, LeaveGood
  <2>2. ASSUME NEW c \in Clients, Leave(c) PROVE Good
    <3>1. UNCHANGED <<mservVars, rpcVars, chan, active, aborted, told>>
      BY <2>2 DEF Leave
    <3> QED
      BY <3>1, LeaveGood
  <2> QED
    BY <2>1, <2>2, CreateFileGood, MservCreateGood, CheckAuthGood, CreateMetaMetaDataGood,
       MservCreateMetadataGood, DservCreateMetadataGood, RpcBackGood, TimeoutGood,
       ClientCreateBackGood DEF Next
<1>2. Requests' /\ ToldStored' /\ CreatedOnce'
  BY <1>1, MovesKeep DEF Good, Inv, Stored
<1> QED
  BY <1>1, <1>2 DEF Good, Inv, Stored

LEMMA InvAlways == Spec => []Inv
<1>1. Init => Inv
  BY InvInit
<1>2. Inv /\ [Next]_vars => Inv'
  BY InvNext
<1> QED
  BY <1>1, <1>2, PTL DEF Spec

\* Each mserv answers each request at most once: with the refusal of
\* s_core_mserv_create, of irpc_check_auth_back, or with the end of irpc_send_md_back.
THEOREM AnsweredOnceCorrect == Spec => []AnsweredOnce
<1>1. Inv => AnsweredOnce
  BY DEF Inv, Requests
<1> QED
  BY <1>1, InvAlways, PTL

\* Each mserv reports each file as created at most once, also when calls time out
\* and when other mservs create the file meanwhile: the descriptor stays, and
\* icheck_can_create refuses every later request.
THEOREM CreatedOnceCorrect == Spec => []CreatedOnce
<1>1. Inv => CreatedOnce
  BY DEF Inv, Stored
<1> QED
  BY <1>1, InvAlways, PTL

\* An entry never waits for more answers than there are calls in
\* rpc_timeout_list, each of which is answered or times out.
THEOREM EntryIsCalledBackCorrect == Spec => []EntryIsCalledBack
<1>1. Inv => EntryIsCalledBack
  BY DEF Inv
<1> QED
  BY <1>1, InvAlways, PTL

=============================================================================
