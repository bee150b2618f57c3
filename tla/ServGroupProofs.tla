-------------------------- MODULE ServGroupProofs --------------------------
(***************************************************************************)
(* Proofs about ServGroup, for any processes and bounds.                   *)
(*                                                                         *)
(* A connection and the entries of its two processes point at each other   *)
(* (NetOK): an end with udata belongs to the entry that has it as conn,    *)
(* the accepted end to an established one, and the dialer is established   *)
(* only over a connection that the other side has accepted.  A call is in  *)
(* rpc_hash only as long as it has not been freed (CallsOK).               *)
(*                                                                         *)
(* Answers (Own): seen by a process that has never died, every call on its *)
(* way to a server of the configuration, every request that the server has *)
(* kept and every answer on its way back belongs to the connection that    *)
(* the entry has at the moment, and no other call in rpc_hash has its      *)
(* number, as long as no connection of the two has broken.  For that the   *)
(* server must not lose a connection that the other side still counts as   *)
(* established, which is what a line says of the packets in both           *)
(* directions.                                                             *)
(***************************************************************************)
EXTENDS ServGroup, WellFoundedInduction, TLAPS

Slots == 1 .. MaxConn

\* The configurations of Init.
Lowest == {p \in Procs : \A q \in Procs : p <= q}
Configs == {Procs, Lowest, {}}

Pkts == {Fin, Rst, Identify, IdentifyBack(0), IdentifyBack(1)}
          \cup [type: {"call", "ret"}, call: Nat, req: Nat]

Lists == {"none", "conn", "identify", "ping"}

ConnIds == Slots \cup {NULL}
HashT == SUBSET Nat

ServT == [est: BOOLEAN, conn: ConnIds, req: Nat, hash: HashT, list: Lists]

\* What both ends have: a process, a flag, packets.
EndsT == [Ends -> Nat]
FlagsT == [Ends -> BOOLEAN]
ChansT == [Ends -> Seq(Pkts)]

ConnT == [ends: EndsT, open: FlagsT, udata: FlagsT, missed: FlagsT, chan: ChansT]

CallT == [from: Procs, to: Procs, req: Nat, timed: BOOLEAN, listed: BOOLEAN, backs: Nat,
          freed: BOOLEAN, closed: BOOLEAN, dead: BOOLEAN, wrong: BOOLEAN, dropped: BOOLEAN]

TodoT == [from: Procs, call: Nat, req: Nat]

ServsT == [Procs -> [Procs -> ServT]]
ConnsT == [Slots -> ConnT]

TypeOK ==
  /\ config \in Configs
  /\ up \in SUBSET Procs
  /\ serv \in ServsT
  /\ conns \in ConnsT
  /\ calls \in Seq(CallT)
  /\ todo \in [Procs -> SUBSET TodoT]

\* The answer r to an identification is among the packets s.
HasBack(s, r) == \E i \in DOMAIN s : s[i].type = "back" /\ s[i].ret = r

\* The ends of a connection that is open at e are two processes; in a group
\* with a configuration the higher one has dialed and the other one is named.
EndsOK(cf, c) ==
  /\ c.ends[1] \in Procs /\ c.ends[2] \in Procs /\ c.ends[1] # c.ends[2]
  /\ cf # {} => c.ends[1] > c.ends[2] /\ c.ends[2] \in cf

\* An open end of the dialer has its udata; the other end has it when the
\* identification has been answered with 1; only servers refuse each other.
ConnOK(cf, c) ==
  /\ \A e \in Ends : c.udata[e] => c.open[e]
  /\ \A e \in Ends : c.open[e] => EndsOK(cf, c)
  /\ c.open[1] => c.udata[1]
  /\ HasBack(c.chan[1], 1) /\ c.open[2] => c.udata[2]
  /\ \A e \in Ends : HasBack(c.chan[e], 0) => cf = Procs

SlotsOK(cf, cs) == \A k \in Slots : ConnOK(cf, cs[k])

\* The entry that udata of end e of c stands for.
Entry(sv, c, e) == sv[c.ends[e]][c.ends[Other(e)]]

\* Connection c in slot k and the entries of its ends.
Linked(c, sv, k) ==
  /\ \A e \in Ends : c.udata[e] => Entry(sv, c, e).conn = k
  /\ c.udata[2] => Entry(sv, c, 2).est
  /\ c.open[1] /\ c.open[2] /\ Entry(sv, c, 1).est => c.udata[2]

\* End e of c is held open by p for its entry of q.
Held(c, p, q, e) == c.ends[e] = p /\ c.ends[Other(e)] = q /\ c.open[e] /\ c.udata[e]

\* The entry s of q at p: its conn is a connection that p holds for it, and it
\* has one when it is established and every process is in config.conf.
EntryOK(cf, cs, s, p, q) ==
  /\ s.conn # NULL => \E e \in Ends : Held(cs[s.conn], p, q, e)
  /\ cf = Procs /\ s.est => s.conn # NULL

\* When every process is in config.conf, connections and entries agree.
Links(cf, cs, sv) == cf = Procs => \A k \in Slots : Linked(cs[k], sv, k)
Entries(cf, cs, sv) == \A p, q \in Procs : EntryOK(cf, cs, sv[p][q], p, q)

NetOK(cf, cs, sv) == SlotsOK(cf, cs) /\ Links(cf, cs, sv) /\ Entries(cf, cs, sv)

\* No process is its own server; who waits to dial has no connection.
WaitOK(cf, sv) ==
  \A p \in Procs : /\ ~sv[p][p].est
                   /\ \A q \in Procs : sv[p][q].list = "conn" =>
                        sv[p][q].conn = NULL /\ q \in cf /\ p > q

\* A call that is not freed has not been called back; one that has been freed
\* and is still in rpc_timeout_list was freed by a close and called back by it alone.
CallOK(c) ==
  /\ ~c.freed => c.backs = 0
  /\ c.freed /\ c.listed => c.closed /\ c.backs <= 1
  /\ c.backs <= (IF c.closed THEN 2 ELSE 1)

\* rpc_hash of q at p has calls of p to q that have not been freed.
HashOK(ca, sv) ==
  \A p, q \in Procs : \A n \in sv[p][q].hash :
    n \in DOMAIN ca /\ ~ca[n].freed /\ ca[n].from = p /\ ca[n].to = q

CallsOK(ca, sv) == (\A n \in DOMAIN ca : CallOK(ca[n])) /\ HashOK(ca, sv)

Inv == TypeOK /\ NetOK(config, conns, serv) /\ WaitOK(config, serv) /\ CallsOK(calls, serv)

---------------------------------------------------------------------------
(* Packets, ends and slots.                                                *)

LEMMA OtherEnd ==
  /\ Other(1) = 2 /\ Other(2) = 1
  /\ \A e \in Ends : Other(e) \in Ends /\ Other(Other(e)) = e /\ Other(e) # e
  /\ \A e, f \in Ends : f = e \/ f = Other(e)
BY DEF Other, Ends

LEMMA PktKinds ==
  ASSUME NEW x \in Pkts
  PROVE  /\ x.type = "back" => x.ret \in {0, 1}
         /\ x.type \in {"call", "ret"} => x.call \in Nat /\ x.req \in Nat
BY DEF Pkts, Fin, Rst, Identify, IdentifyBack

LEMMA PktsAre ==
  /\ Fin \in Pkts /\ Fin.type # "back"
  /\ Rst \in Pkts /\ Rst.type # "back"
  /\ Identify \in Pkts /\ Identify.type # "back"
  /\ \A r \in {0, 1} : IdentifyBack(r) \in Pkts /\ IdentifyBack(r).ret = r
  /\ \A t \in {"call", "ret"}, n, r \in Nat :
       LET x == [type |-> t, call |-> n, req |-> r] IN x \in Pkts /\ x.type # "back"
BY DEF Pkts, Fin, Rst, Identify, IdentifyBack

LEMMA AppendBack ==
  ASSUME NEW s \in Seq(Pkts), NEW x \in Pkts, NEW r
  PROVE  /\ Append(s, x) \in Seq(Pkts)
         /\ HasBack(Append(s, x), r) => HasBack(s, r) \/ (x.type = "back" /\ x.ret = r)
BY DEF HasBack

LEMMA TailBack ==
  ASSUME NEW s \in Seq(Pkts), s # <<>>, NEW r
  PROVE  /\ Tail(s) \in Seq(Pkts)
         /\ Head(s) \in Pkts
         /\ HasBack(Tail(s), r) => HasBack(s, r)
         /\ Head(s).type = "back" /\ Head(s).ret = r => HasBack(s, r)
BY DEF HasBack

LEMMA FewBack ==
  ASSUME NEW r
  PROVE  /\ <<>> \in Seq(Pkts) /\ ~HasBack(<<>>, r)
         /\ <<Identify>> \in Seq(Pkts) /\ ~HasBack(<<Identify>>, r)
<1>1. <<>> \in Seq(Pkts) /\ ~HasBack(<<>>, r)
  BY DEF HasBack
<1>2. <<Identify>> \in Seq(Pkts) /\ ~HasBack(<<Identify>>, r)
  BY PktsAre DEF HasBack
<1> QED BY <1>1, <1>2

\* The lowest free slot is a free slot.
LEMMA FreeSlot ==
  ASSUME FreeSlots # {}
  PROVE  (CHOOSE j \in FreeSlots : \A i \in FreeSlots : j <= i) \in FreeSlots
<1>1. FreeSlots \subseteq Nat
  BY BoundsAssumption DEF FreeSlots
<1> DEFINE R == {ss \in Nat \X Nat : ss[1] < ss[2]}
<1>2. IsWellFoundedOn(R, Nat)
  BY NatLessThanWellFounded, Zenon DEF OpToRel
<1>3. \E x \in FreeSlots : \A y \in FreeSlots : ~(<<y, x>> \in R)
  <2> HIDE DEF R
  <2> QED BY <1>1, <1>2, WFMin
<1>4. ASSUME NEW x \in Nat, NEW y \in Nat, y < x
      PROVE  <<y, x>> \in R
  BY <1>4
<1>5. \A x, y \in Nat : ~(y < x) => x <= y
  OBVIOUS
<1>6. \E x \in FreeSlots : \A y \in FreeSlots : x <= y
  <2> HIDE DEF R
  <2> QED BY <1>1, <1>3, <1>4, <1>5
<1> QED BY <1>6

LEMMA ConfigKinds ==
  ASSUME NEW cf \in Configs, NEW p \in cf, NEW q \in cf, p # q
  PROVE  cf = Procs
BY ProcsAssumption DEF Configs, Lowest

---------------------------------------------------------------------------
(* What a step may do to connections and entries.                          *)

\* A connection keeps its ends; no answer 1 to an identification is new, and
\* an answer 0 only where every process is in the configuration.
Quiet(cf, c, d) ==
  /\ d.ends = c.ends /\ d.open = c.open /\ d.udata = c.udata
  /\ \A e \in Ends : /\ HasBack(d.chan[e], 1) => HasBack(c.chan[e], 1)
                     /\ HasBack(d.chan[e], 0) => HasBack(c.chan[e], 0) \/ cf = Procs

QuietConns(cf, cs, ds) == ds \in ConnsT /\ \A k \in Slots : Quiet(cf, cs[k], ds[k])

\* Only slot k changes; only the entry of q at p changes.
OnlySlot(cs, ds, k) == ds \in ConnsT /\ \A j \in Slots : j # k => ds[j] = cs[j]
OnlyEntry(sv, sw, p, q) ==
  sw \in ServsT /\ \A a, b \in Procs : (a # p \/ b # q) => sw[a][b] = sv[a][b]

\* Entries change in what connections do not depend on.
SameLinks(sv, sw) ==
  /\ sw \in ServsT
  /\ \A p, q \in Procs : sw[p][q].conn = sv[p][q].conn /\ sw[p][q].est = sv[p][q].est

\* End e of c has been closed.
ClosedEnd(c, d, e) ==
  /\ ~d.open[e] /\ ~d.udata[e]
  /\ d.open[Other(e)] = c.open[Other(e)] /\ d.udata[Other(e)] = c.udata[Other(e)]
  /\ c.open[Other(e)] => d.ends = c.ends
  /\ \A f \in Ends, r \in {0, 1} : HasBack(d.chan[f], r) => HasBack(c.chan[f], r)

\* The other end of c has accepted.
Accepted(c, d) ==
  /\ d.ends = c.ends /\ d.open = c.open
  /\ d.udata[1] = c.udata[1] /\ d.udata[2] = TRUE
  /\ \A f \in Ends : HasBack(d.chan[f], 0) => HasBack(c.chan[f], 0)

\* p has dialed q over d.
Dialed(d, p, q) ==
  /\ d.ends[1] = p /\ d.ends[2] = q /\ d.open[1] /\ d.open[2] /\ d.udata[1] /\ ~d.udata[2]
  /\ \A f \in Ends, r \in {0, 1} : ~HasBack(d.chan[f], r)

LEMMA QuietGood ==
  ASSUME NEW cf, NEW cs, NEW ds, NEW sv \in ServsT,
         QuietConns(cf, cs, ds), NetOK(cf, cs, sv)
  PROVE  NetOK(cf, ds, sv)
<1>1. ASSUME NEW k \in Slots
      PROVE  ConnOK(cf, ds[k])
  <2>1. ConnOK(cf, cs[k]) /\ Quiet(cf, cs[k], ds[k])
    BY SMTT(30) DEF QuietConns, NetOK, SlotsOK
  <2> QED BY ONLY <2>1 DEF ConnOK, Quiet, EndsOK, Ends
<1>2. ASSUME cf = Procs, NEW k \in Slots
      PROVE  Linked(ds[k], sv, k)
  <2>1. Linked(cs[k], sv, k) /\ Quiet(cf, cs[k], ds[k])
    BY <1>2 DEF QuietConns, NetOK, Links
  <2> QED BY ONLY <2>1 DEF Linked, Quiet, Entry
<1>3. ASSUME NEW p \in Procs, NEW q \in Procs
      PROVE  EntryOK(cf, ds, sv[p][q], p, q)
  <2>1. EntryOK(cf, cs, sv[p][q], p, q) /\ \A k \in Slots : Quiet(cf, cs[k], ds[k])
    BY <1>3 DEF QuietConns, NetOK, Entries
  <2>2. sv[p][q].conn \in Slots \cup {NULL}
    BY DEF ServsT, ServT, ConnIds
  <2> QED BY ONLY <2>1, <2>2 DEF EntryOK, Quiet, Held
<1> QED BY <1>1, <1>2, <1>3 DEF NetOK, SlotsOK, Links, Entries

LEMMA ServTypes ==
  ASSUME NEW sv \in ServsT, NEW p \in Procs, NEW q \in Procs
  PROVE  /\ sv[p][q] \in ServT
         /\ sv[p][q].conn \in Slots \cup {NULL}
         /\ sv[p][q].est \in BOOLEAN
         /\ sv[p][q].hash \in HashT
         /\ sv[p][q].req \in Nat
BY DEF ServsT, ServT, ConnIds

LEMMA NullNoSlot == NULL \notin Slots
BY BoundsAssumption DEF NULL, Slots

\* The processes of an end that is in use.
LEMMA EndProcs ==
  ASSUME NEW cf, NEW c, ConnOK(cf, c), NEW e \in Ends, c.open[e] \/ c.udata[e]
  PROVE  /\ c.open[e]
         /\ EndsOK(cf, c)
         /\ c.ends[e] \in Procs /\ c.ends[Other(e)] \in Procs /\ c.ends[e] # c.ends[Other(e)]
BY DEF ConnOK, EndsOK, Ends, Other

LEMMA SameLinksGood ==
  ASSUME NEW cf, NEW cs, NEW sv \in ServsT, NEW sw, SameLinks(sv, sw), NetOK(cf, cs, sv)
  PROVE  NetOK(cf, cs, sw)
<1>1. ASSUME cf = Procs, NEW k \in Slots
      PROVE  Linked(cs[k], sw, k)
  <2> DEFINE c == cs[k]
  <2>1. Linked(c, sv, k) /\ ConnOK(cf, c)
    BY <1>1, SMTT(30) DEF NetOK, Links, SlotsOK
  <2>2. ASSUME NEW e \in Ends, c.open[e] \/ c.udata[e]
        PROVE  /\ Entry(sw, c, e).conn = Entry(sv, c, e).conn
               /\ Entry(sw, c, e).est = Entry(sv, c, e).est
    BY <2>1, <2>2, EndProcs, SMTT(30) DEF SameLinks, Entry
  <2>3. 1 \in Ends /\ 2 \in Ends
    BY DEF Ends
  <2>4. \A e \in Ends : c.udata[e] => Entry(sw, c, e).conn = k
    BY <2>1, <2>2 DEF Linked
  <2>5. c.udata[2] => Entry(sw, c, 2).est
    BY <2>1, <2>2, <2>3 DEF Linked
  <2>6. c.open[1] /\ c.open[2] /\ Entry(sw, c, 1).est => c.udata[2]
    BY <2>1, <2>2, <2>3 DEF Linked
  <2> QED BY <2>4, <2>5, <2>6 DEF Linked
<1>2. ASSUME NEW p \in Procs, NEW q \in Procs
      PROVE  EntryOK(cf, cs, sw[p][q], p, q)
  BY <1>2 DEF SameLinks, NetOK, Entries, EntryOK
<1> QED BY <1>1, <1>2 DEF NetOK, Links, Entries

\* p closes end e of slot k, which it may hold for its entry of q.
Closes(cs, ds, sv, sw, k, e, p, q) ==
  /\ cs[k].open[e] /\ OnlySlot(cs, ds, k) /\ ClosedEnd(cs[k], ds[k], e)
  /\ p = cs[k].ends[e] /\ q = cs[k].ends[Other(e)] /\ OnlyEntry(sv, sw, p, q)
  /\ cs[k].udata[e] => sw[p][q].conn = NULL /\ ~sw[p][q].est
  /\ ~cs[k].udata[e] => sw = sv

LEMMA CloseGood ==
  ASSUME NEW cf, NEW cs \in ConnsT, NEW ds, NEW sv \in ServsT, NEW sw, NetOK(cf, cs, sv),
         NEW k \in Slots, NEW e \in Ends, NEW p \in Procs, NEW q \in Procs,
         Closes(cs, ds, sv, sw, k, e, p, q)
  PROVE  NetOK(cf, ds, sw)
<1> USE DEF Closes
<1> DEFINE c == cs[k]
           d == ds[k]
<1>1. ConnOK(cf, c) /\ EndsOK(cf, c) /\ p # q
  BY EndProcs DEF NetOK, SlotsOK
<1>2. ClosedEnd(c, d, e)
  OBVIOUS
<1>3. ConnOK(cf, d)
  <2> HIDE DEF c, d
  <2>1. \A f \in Ends : d.open[f] => f = Other(e) /\ c.open[f] /\ d.ends = c.ends
    BY ONLY <1>2, OtherEnd DEF ClosedEnd
  <2>2. \A f \in Ends : d.udata[f] => f = Other(e) /\ c.udata[f]
    BY ONLY <1>2, OtherEnd DEF ClosedEnd
  <2>3. \A f \in Ends : d.udata[f] => d.open[f]
    BY ONLY <1>1, <1>2, <2>2, OtherEnd DEF ConnOK, ClosedEnd
  <2>4. \A f \in Ends : d.open[f] => EndsOK(cf, d)
    BY ONLY <1>1, <2>1 DEF EndsOK
  <2>5. 1 \in Ends /\ 2 \in Ends
    BY DEF Ends
  <2>6. d.open[1] => d.udata[1]
    BY ONLY <1>1, <1>2, <2>1, <2>5 DEF ClosedEnd, ConnOK
  <2>7. HasBack(d.chan[1], 1) /\ d.open[2] => d.udata[2]
    BY ONLY <1>1, <1>2, <2>1, <2>5 DEF ClosedEnd, ConnOK
  <2>8. \A f \in Ends : HasBack(d.chan[f], 0) => cf = Procs
    BY ONLY <1>1, <1>2 DEF ClosedEnd, ConnOK
  <2> QED BY ONLY <2>3, <2>4, <2>6, <2>7, <2>8 DEF ConnOK
<1>4. SlotsOK(cf, ds)
  BY <1>3 DEF SlotsOK, OnlySlot, NetOK
<1>5. ASSUME cf = Procs, NEW j \in Slots, j # k
      PROVE  Linked(ds[j], sw, j)
  <2> DEFINE b == cs[j]
  <2>1. ds[j] = b /\ Linked(b, sv, j) /\ ConnOK(cf, b) /\ Linked(c, sv, k)
    BY <1>5, SMTT(30) DEF OnlySlot, NetOK, Links, SlotsOK
  <2>2. ASSUME NEW f \in Ends, b.udata[f]
        PROVE  Entry(sw, b, f) = Entry(sv, b, f)
    <3>1. CASE c.udata[e]
      <4>1. sv[p][q].conn = k
        BY <2>1, <3>1, ZenonT(30) DEF Linked, Entry
      <4>2. Entry(sv, b, f).conn = j
        BY <2>1, <2>2, SMTT(30) DEF Linked
      <4>3. b.ends[f] # p \/ b.ends[Other(f)] # q
        BY <4>1, <4>2, <1>5 DEF Entry
      <4>4. b.ends[f] \in Procs /\ b.ends[Other(f)] \in Procs
        BY <2>1, <2>2, EndProcs
      <4> QED BY <4>3, <4>4, SMTT(30) DEF OnlyEntry, Entry
    <3>2. CASE ~c.udata[e]
      BY <3>2
    <3> QED BY <3>1, <3>2
  <2>3. ASSUME b.open[1], Entry(sw, b, 1).est
        PROVE  Entry(sv, b, 1).est
    <3>1. 1 \in Ends /\ b.udata[1]
      BY <2>1, <2>3 DEF Ends, ConnOK
    <3> QED BY <2>2, <2>3, <3>1
  <2>4. 2 \in Ends
    BY DEF Ends
  <2> HIDE DEF b
  <2> QED BY ONLY <2>1, <2>2, <2>3, <2>4 DEF Linked
<1>6. ASSUME cf = Procs
      PROVE  Linked(d, sw, k)
  <2>1. Linked(c, sv, k)
    BY <1>6 DEF NetOK, Links
  <2>2. ~d.open[1] \/ ~d.open[2]
    BY <1>2, SMTT(30) DEF ClosedEnd, Ends
  <2>3. ASSUME NEW f \in Ends, d.udata[f]
        PROVE  c.udata[f] /\ Entry(sw, d, f) = Entry(sv, c, f)
    <3>1. f = Other(e) /\ c.udata[f] /\ c.open[f]
      BY <2>3, <1>1, <1>2, OtherEnd, SMTT(30) DEF ClosedEnd, ConnOK
    <3>2. d.ends = c.ends
      BY <3>1, <1>2, SMTT(30) DEF ClosedEnd
    <3>3. c.ends[f] = q /\ c.ends[Other(f)] = p
      BY <3>1, OtherEnd
    <3>4. sw[q][p] = sv[q][p]
      BY <1>1 DEF OnlyEntry
    <3> QED BY <3>1, <3>2, <3>3, <3>4, SMTT(30) DEF Entry
  <2>4. 2 \in Ends
    BY DEF Ends
  <2> HIDE DEF c, d
  <2> QED BY ONLY <2>1, <2>2, <2>3, <2>4 DEF Linked
<1>7. ASSUME NEW x \in Procs, NEW y \in Procs
      PROVE  EntryOK(cf, ds, sw[x][y], x, y)
  <2>1. CASE c.udata[e] /\ x = p /\ y = q
    BY <2>1 DEF EntryOK
  <2>2. CASE ~(c.udata[e] /\ x = p /\ y = q)
    <3>1. sw[x][y] = sv[x][y]
      BY <2>2 DEF OnlyEntry
    <3>2. EntryOK(cf, cs, sv[x][y], x, y)
      BY <1>7 DEF NetOK, Entries
    <3>3. ASSUME sv[x][y].conn # NULL
          PROVE  \E f \in Ends : Held(ds[sv[x][y].conn], x, y, f)
      <4> DEFINE j == sv[x][y].conn
      <4>1. j \in Slots
        BY <3>3, ServTypes
      <4>2. PICK f \in Ends : Held(cs[j], x, y, f)
        BY <3>2, <3>3, SMTT(30) DEF EntryOK
      <4>3. CASE j # k
        BY <4>1, <4>2, <4>3 DEF OnlySlot
      <4>4. CASE j = k
        <5>1. Held(c, x, y, f)
          BY <4>2, <4>4
        <5>2. f # e
          BY <5>1, <2>2 DEF Held
        <5>3. f = Other(e)
          BY <5>2, OtherEnd
        <5>4. Held(d, x, y, f)
          BY <5>1, <5>3, <1>2, SMTT(30) DEF Held, ClosedEnd
        <5> QED BY <4>4, <5>4
      <4> QED BY <4>3, <4>4
    <3> QED BY <3>1, <3>2, <3>3 DEF EntryOK
  <2> QED BY <2>1, <2>2, SMTT(30)
<1> QED BY <1>4, <1>5, <1>6, <1>7, SMTT(30) DEF NetOK, Links, Entries

\* p accepts the connection in slot k from q.
AcceptsSlot(cf, cs, ds, sv, sw, k, p, q) ==
  /\ cs[k].open[2] /\ ~cs[k].udata[2] /\ OnlySlot(cs, ds, k) /\ Accepted(cs[k], ds[k])
  /\ p = cs[k].ends[2] /\ q = cs[k].ends[1] /\ OnlyEntry(sv, sw, p, q)
  /\ sw[p][q].conn = k /\ sw[p][q].est
  /\ cf = Procs => ~sv[p][q].est

LEMMA AcceptGood ==
  ASSUME NEW cf, NEW cs \in ConnsT, NEW ds, NEW sv \in ServsT, NEW sw, NetOK(cf, cs, sv),
         NEW k \in Slots, NEW p \in Procs, NEW q \in Procs,
         AcceptsSlot(cf, cs, ds, sv, sw, k, p, q)
  PROVE  NetOK(cf, ds, sw)
<1> USE DEF AcceptsSlot
<1> DEFINE c == cs[k]
           d == ds[k]
<1>a. 1 \in Ends /\ 2 \in Ends /\ \A f \in Ends : f = 1 \/ f = 2
  BY DEF Ends
<1>1. ConnOK(cf, c) /\ EndsOK(cf, c) /\ p # q
  <2>1. ConnOK(cf, c)
    BY DEF NetOK, SlotsOK
  <2>2. EndsOK(cf, c)
    BY <1>a, <2>1 DEF ConnOK
  <2> QED BY <2>1, <2>2 DEF EndsOK
<1>2. Accepted(c, d)
  OBVIOUS
<1>3. ConnOK(cf, d)
  <2> HIDE DEF c, d
  <2>1. c.open[2]
    BY DEF c
  <2>2. \A f \in Ends : d.udata[f] => d.open[f]
    BY ONLY <1>a, <1>1, <1>2, <2>1 DEF ConnOK, Accepted
  <2>3. \A f \in Ends : d.open[f] => EndsOK(cf, d)
    BY ONLY <1>1, <1>2 DEF EndsOK, Accepted
  <2>4. d.open[1] => d.udata[1]
    BY ONLY <1>1, <1>2 DEF ConnOK, Accepted
  <2>5. d.udata[2]
    BY ONLY <1>2 DEF Accepted
  <2>6. \A f \in Ends : HasBack(d.chan[f], 0) => cf = Procs
    BY ONLY <1>1, <1>2 DEF Accepted, ConnOK
  <2> QED BY ONLY <2>2, <2>3, <2>4, <2>5, <2>6 DEF ConnOK
<1>4. SlotsOK(cf, ds)
  BY <1>3 DEF SlotsOK, OnlySlot, NetOK
<1>b. ASSUME cf = Procs
      PROVE  q > p /\ p \in Nat /\ q \in Nat
  BY <1>b, <1>1, ProcsAssumption DEF EndsOK
<1>5. ASSUME cf = Procs, NEW j \in Slots, j # k
      PROVE  Linked(ds[j], sw, j)
  <2> DEFINE b == cs[j]
  <2>1. ds[j] = b /\ Linked(b, sv, j) /\ ConnOK(cf, b)
    BY <1>5 DEF OnlySlot, NetOK, Links, SlotsOK
  <2>2. ASSUME NEW f \in Ends, b.udata[f]
        PROVE  Entry(sw, b, f) = Entry(sv, b, f)
    <3>1. EndsOK(cf, b) /\ b.ends[f] \in Procs /\ b.ends[Other(f)] \in Procs
      BY <2>1, <2>2, EndProcs
    <3>2. SUFFICES ASSUME b.ends[f] = p, b.ends[Other(f)] = q
                   PROVE  FALSE
      BY <3>1 DEF OnlyEntry, Entry
    <3>3. CASE f = 2
      <4>1. Entry(sv, b, f).est
        BY <2>1, <2>2, <3>3 DEF Linked
      <4> QED BY <4>1, <3>2, <1>5 DEF Entry
    <3>4. CASE f = 1
      <4>1. p > q
        BY <3>1, <3>2, <3>4, <1>5, OtherEnd DEF EndsOK
      <4> QED BY <4>1, <1>b, <1>5
    <3> QED BY <3>3, <3>4, <1>a
  <2>3. ASSUME b.open[1], Entry(sw, b, 1).est
        PROVE  Entry(sv, b, 1).est
    <3>1. b.udata[1]
      BY <2>1, <2>3 DEF ConnOK
    <3> QED BY <2>2, <2>3, <3>1, <1>a
  <2> HIDE DEF b
  <2> QED BY ONLY <2>1, <2>2, <2>3, <1>a DEF Linked
<1>6. ASSUME cf = Procs
      PROVE  Linked(d, sw, k)
  <2>1. Linked(c, sv, k)
    BY <1>6 DEF NetOK, Links
  <2>2. d.udata[2] /\ d.ends = c.ends /\ d.udata[1] = c.udata[1]
    BY <1>2 DEF Accepted
  <2>3. Entry(sw, d, 2) = sw[p][q]
    BY <2>2, OtherEnd DEF Entry
  <2>4. Entry(sw, d, 1) = sv[q][p] /\ Entry(sv, c, 1) = sv[q][p]
    <3>1. sw[q][p] = sv[q][p]
      BY <1>1 DEF OnlyEntry
    <3> QED BY <2>2, OtherEnd, <3>1 DEF Entry
  <2>5. d.udata[1] => Entry(sw, d, 1).conn = k
    <3> HIDE DEF c, d
    <3> QED BY ONLY <2>1, <2>2, <2>4, <1>a DEF Linked
  <2> QED BY <2>2, <2>3, <2>5, <1>a DEF Linked
<1>7. ASSUME NEW x \in Procs, NEW y \in Procs
      PROVE  EntryOK(cf, ds, sw[x][y], x, y)
  <2>1. CASE x = p /\ y = q
    <3>1. Held(d, p, q, 2)
      BY <1>2, OtherEnd DEF Held, Accepted
    <3> QED BY <2>1, <3>1, <1>a, NullNoSlot DEF EntryOK
  <2>2. CASE ~(x = p /\ y = q)
    <3>1. sw[x][y] = sv[x][y]
      BY <2>2 DEF OnlyEntry
    <3>2. EntryOK(cf, cs, sv[x][y], x, y)
      BY <1>7 DEF NetOK, Entries
    <3>3. ASSUME sv[x][y].conn # NULL
          PROVE  \E f \in Ends : Held(ds[sv[x][y].conn], x, y, f)
      <4> DEFINE j == sv[x][y].conn
      <4>1. j \in Slots
        BY <3>3, ServTypes
      <4>2. PICK f \in Ends : Held(cs[j], x, y, f)
        BY <3>2, <3>3 DEF EntryOK
      <4>3. CASE j # k
        BY <4>1, <4>2, <4>3 DEF OnlySlot
      <4>4. CASE j = k
        <5>1. Held(c, x, y, f)
          BY <4>2, <4>4
        <5>2. f = 1
          BY <5>1, <1>a DEF Held
        <5>3. Held(d, x, y, f)
          BY <5>1, <5>2, <1>2 DEF Held, Accepted
        <5> QED BY <4>4, <5>3
      <4> QED BY <4>3, <4>4
    <3> QED BY <3>1, <3>2, <3>3 DEF EntryOK
  <2> QED BY <2>1, <2>2
<1> QED BY <1>4, <1>5, <1>6, <1>7, SMTT(30) DEF NetOK, Links, Entries

\* p dials q over the free slot k.
DialsSlot(cf, cs, ds, sv, sw, k, p, q) ==
  /\ cs[k] = NoConn /\ OnlySlot(cs, ds, k) /\ Dialed(ds[k], p, q) /\ EndsOK(cf, ds[k])
  /\ OnlyEntry(sv, sw, p, q) /\ sw[p][q].conn = k /\ sw[p][q].est = sv[p][q].est
  /\ cf = Procs => sv[p][q].conn = NULL

LEMMA DialGood ==
  ASSUME NEW cf, NEW cs \in ConnsT, NEW ds, NEW sv \in ServsT, NEW sw, NetOK(cf, cs, sv),
         NEW k \in Slots, NEW p \in Procs, NEW q \in Procs,
         DialsSlot(cf, cs, ds, sv, sw, k, p, q)
  PROVE  NetOK(cf, ds, sw)
<1> USE DEF DialsSlot
<1> DEFINE d == ds[k]
<1>a. 1 \in Ends /\ 2 \in Ends /\ \A f \in Ends : f = 1 \/ f = 2
  BY DEF Ends
<1>1. Dialed(d, p, q) /\ EndsOK(cf, d) /\ p # q
  BY DEF Dialed, EndsOK
<1>2. \A f \in Ends : ~cs[k].open[f]
  BY DEF NoConn, Both
<1>3. ConnOK(cf, d)
  <2> HIDE DEF d
  <2> QED BY ONLY <1>1, <1>a DEF ConnOK, Dialed
<1>4. SlotsOK(cf, ds)
  BY <1>3 DEF SlotsOK, OnlySlot, NetOK
<1>5. ASSUME cf = Procs, NEW j \in Slots, j # k
      PROVE  Linked(ds[j], sw, j)
  <2> DEFINE b == cs[j]
  <2>1. ds[j] = b /\ Linked(b, sv, j) /\ ConnOK(cf, b)
    BY <1>5 DEF OnlySlot, NetOK, Links, SlotsOK
  <2>2. ASSUME NEW f \in Ends, b.udata[f]
        PROVE  Entry(sw, b, f) = Entry(sv, b, f)
    <3>1. Entry(sv, b, f).conn = j
      BY <2>1, <2>2 DEF Linked
    <3>2. b.ends[f] # p \/ b.ends[Other(f)] # q
      BY <3>1, <1>5, NullNoSlot DEF Entry
    <3> QED BY <2>1, <2>2, <3>2, EndProcs DEF OnlyEntry, Entry
  <2>3. ASSUME b.open[1], Entry(sw, b, 1).est
        PROVE  Entry(sv, b, 1).est
    <3>1. b.udata[1]
      BY <2>1, <2>3 DEF ConnOK
    <3> QED BY <2>2, <2>3, <3>1, <1>a
  <2> HIDE DEF b
  <2> QED BY ONLY <2>1, <2>2, <2>3, <1>a DEF Linked
<1>6. ASSUME cf = Procs
      PROVE  Linked(d, sw, k)
  <2>1. Entry(sw, d, 1) = sw[p][q]
    BY <1>1, OtherEnd DEF Entry, Dialed
  <2>2. ~sv[p][q].est
    BY <1>6 DEF NetOK, Entries, EntryOK
  <2> QED BY <1>1, <2>1, <2>2, <1>a DEF Linked, Dialed
<1>7. ASSUME NEW x \in Procs, NEW y \in Procs
      PROVE  EntryOK(cf, ds, sw[x][y], x, y)
  <2>1. CASE x = p /\ y = q
    <3>1. Held(d, p, q, 1)
      BY <1>1, OtherEnd DEF Held, Dialed
    <3> QED BY <2>1, <3>1, <1>a, NullNoSlot DEF EntryOK
  <2>2. CASE ~(x = p /\ y = q)
    <3>1. sw[x][y] = sv[x][y]
      BY <2>2 DEF OnlyEntry
    <3>2. EntryOK(cf, cs, sv[x][y], x, y)
      BY <1>7 DEF NetOK, Entries
    <3>3. ASSUME sv[x][y].conn # NULL
          PROVE  \E f \in Ends : Held(ds[sv[x][y].conn], x, y, f)
      <4> DEFINE j == sv[x][y].conn
      <4>1. j \in Slots
        BY <3>3, ServTypes
      <4>2. PICK f \in Ends : Held(cs[j], x, y, f)
        BY <3>2, <3>3 DEF EntryOK
      <4>3. j # k
        BY <4>2, <1>2 DEF Held
      <4> QED BY <4>1, <4>2, <4>3 DEF OnlySlot
    <3> QED BY <3>1, <3>2, <3>3 DEF EntryOK
  <2> QED BY <2>1, <2>2
<1> QED BY <1>4, <1>5, <1>6, <1>7, SMTT(30) DEF NetOK, Links, Entries

\* p has the answer 1 of q at end e of slot k.
EstablishesSlot(cs, sv, sw, k, e, p, q) ==
  /\ cs[k].udata[e] /\ HasBack(cs[k].chan[e], 1)
  /\ p = cs[k].ends[e] /\ q = cs[k].ends[Other(e)] /\ OnlyEntry(sv, sw, p, q)
  /\ sw[p][q].conn = sv[p][q].conn /\ sw[p][q].est

LEMMA EstablishedGood ==
  ASSUME NEW cf, NEW cs \in ConnsT, NEW sv \in ServsT, NEW sw, NetOK(cf, cs, sv),
         NEW k \in Slots, NEW e \in Ends, NEW p \in Procs, NEW q \in Procs,
         EstablishesSlot(cs, sv, sw, k, e, p, q)
  PROVE  NetOK(cf, cs, sw)
<1>a. 1 \in Ends /\ 2 \in Ends /\ \A f \in Ends : f = 1 \/ f = 2
  BY SMTT(30) DEF Ends
<1> USE DEF EstablishesSlot
<1>1. ASSUME cf = Procs
      PROVE  sv[p][q].conn = k
  BY <1>1 DEF NetOK, Links, Linked, Entry
<1>2. ASSUME cf = Procs, NEW j \in Slots
      PROVE  Linked(cs[j], sw, j)
  <2> DEFINE b == cs[j]
  <2>1. Linked(b, sv, j) /\ ConnOK(cf, b)
    BY <1>2 DEF NetOK, Links, SlotsOK
  <2>2. ASSUME NEW f \in Ends, b.udata[f]
        PROVE  /\ Entry(sw, b, f).conn = Entry(sv, b, f).conn
               /\ Entry(sv, b, f).est => Entry(sw, b, f).est
    <3>1. b.ends[f] \in Procs /\ b.ends[Other(f)] \in Procs
      BY <2>1, <2>2, EndProcs
    <3> QED BY <3>1 DEF OnlyEntry, Entry
  <2>3. ASSUME b.open[1], b.open[2], Entry(sw, b, 1).est
        PROVE  b.udata[2]
    <3>1. b.udata[1] /\ b.ends[1] \in Procs /\ b.ends[2] \in Procs /\ b.ends[1] # b.ends[2]
      BY <2>1, <2>3, <1>a DEF ConnOK, EndsOK
    <3>2. CASE b.ends[1] = p /\ b.ends[2] = q
      <4>1. j = k
        <5>1. Entry(sv, b, 1) = sv[p][q]
          BY <3>2, OtherEnd DEF Entry
        <5>2. Entry(sv, b, 1).conn = j
          BY <3>1, <2>1, <1>a DEF Linked
        <5> QED BY <5>1, <5>2, <1>1, <1>2
      <4>2. e = 1
        BY <4>1, <3>1, <3>2, <1>a, OtherEnd
      <4> QED BY <4>1, <4>2, <2>1, <2>3 DEF ConnOK
    <3>3. CASE ~(b.ends[1] = p /\ b.ends[2] = q)
      <4>1. Entry(sw, b, 1) = Entry(sv, b, 1)
        BY ONLY <3>1, <3>3, OtherEnd, EstablishesSlot(cs, sv, sw, k, e, p, q)
           DEF OnlyEntry, Entry, EstablishesSlot
      <4> QED BY <4>1, <2>1, <2>3 DEF Linked
    <3> QED BY <3>2, <3>3, SMTT(30)
  <2>4. \A f \in Ends : b.udata[f] => Entry(sw, b, f).conn = j
    BY <2>1, <2>2 DEF Linked
  <2>5. b.udata[2] => Entry(sw, b, 2).est
    BY <2>1, <2>2, <1>a DEF Linked
  <2> QED BY <2>3, <2>4, <2>5 DEF Linked
<1>3. ASSUME NEW x \in Procs, NEW y \in Procs
      PROVE  EntryOK(cf, cs, sw[x][y], x, y)
  <2>1. EntryOK(cf, cs, sv[x][y], x, y)
    BY ONLY <1>3, NetOK(cf, cs, sv), SMTT(30) DEF NetOK, Entries
  <2>2. CASE x = p /\ y = q
    BY <2>1, <2>2, <1>1, <1>3, NullNoSlot DEF EntryOK
  <2>3. CASE ~(x = p /\ y = q)
    BY <2>1, <2>3 DEF OnlyEntry
  <2> QED BY <2>2, <2>3
<1> QED BY <1>2, <1>3 DEF NetOK, Links, Entries

\* What the death of p does to connection c.
DiedConn(c, d, p) ==
  /\ \A e \in Ends : c.ends[e] = p /\ c.open[e] => ClosedEnd(c, d, e)
  /\ (\A e \in Ends : ~(c.ends[e] = p /\ c.open[e])) => d = c

LEMMA DiedGood ==
  ASSUME NEW cf, NEW cs \in ConnsT, NEW ds \in ConnsT, NEW sv \in ServsT, NEW sw \in ServsT,
         NetOK(cf, cs, sv), NEW p \in Procs,
         \A k \in Slots : DiedConn(cs[k], ds[k], p),
         \A x, y \in Procs : x # p => sw[x][y] = sv[x][y],
         \A y \in Procs : sw[p][y].conn = NULL /\ ~sw[p][y].est
  PROVE  NetOK(cf, ds, sw)
<1>a. 1 \in Ends /\ 2 \in Ends /\ \A f \in Ends : f = 1 \/ f = 2
  BY DEF Ends
<1>0. ASSUME NEW k \in Slots, NEW f \in Ends
      PROVE  /\ ds[k].open[f] => cs[k].open[f] /\ ds[k].ends = cs[k].ends /\ cs[k].ends[f] # p
             /\ ds[k].udata[f] => cs[k].udata[f] /\ cs[k].open[f]
             /\ cs[k].open[f] /\ cs[k].ends[f] # p =>
                  /\ ds[k].open[f] = cs[k].open[f] /\ ds[k].udata[f] = cs[k].udata[f]
                  /\ ds[k].ends = cs[k].ends
             /\ \A r \in {0, 1} : HasBack(ds[k].chan[f], r) => HasBack(cs[k].chan[f], r)
  <2> DEFINE c == cs[k]
             d == ds[k]
  <2>1. ConnOK(cf, c) /\ DiedConn(c, d, p)
    BY DEF NetOK, SlotsOK
  <2>2. c.udata[f] => c.open[f]
    BY <2>1 DEF ConnOK
  <2>3. CASE \A e \in Ends : ~(c.ends[e] = p /\ c.open[e])
    BY <2>1, <2>2, <2>3 DEF DiedConn
  <2>4. CASE \E e \in Ends : c.ends[e] = p /\ c.open[e]
    <3>1. PICK e \in Ends : c.ends[e] = p /\ c.open[e]
      BY <2>4
    <3>2. ClosedEnd(c, d, e) /\ c.ends[e] # c.ends[Other(e)]
      BY <2>1, <3>1, EndProcs DEF DiedConn
    <3>3. f = e \/ f = Other(e)
      BY OtherEnd
    <3> HIDE DEF c, d
    <3>4. d.open[f] => c.open[f] /\ d.ends = c.ends /\ c.ends[f] # p
      BY ONLY <3>1, <3>2, <3>3 DEF ClosedEnd
    <3>5. d.udata[f] => c.udata[f] /\ c.open[f]
      BY ONLY <2>2, <3>1, <3>2, <3>3 DEF ClosedEnd
    <3>6. c.open[f] /\ c.ends[f] # p =>
            d.open[f] = c.open[f] /\ d.udata[f] = c.udata[f] /\ d.ends = c.ends
      BY ONLY <3>1, <3>2, <3>3 DEF ClosedEnd
    <3>7. \A r \in {0, 1} : HasBack(d.chan[f], r) => HasBack(c.chan[f], r)
      BY ONLY <3>2, f \in Ends DEF ClosedEnd
    <3> QED BY <3>4, <3>5, <3>6, <3>7 DEF c, d
  <2> QED BY <2>3, <2>4
<1>1. ASSUME NEW k \in Slots
      PROVE  ConnOK(cf, ds[k])
  <2> DEFINE c == cs[k]
             d == ds[k]
  <2>1. ConnOK(cf, c)
    BY DEF NetOK, SlotsOK
  <2>2. \A f \in Ends : d.open[f] => EndsOK(cf, d)
    BY <2>1, <1>0 DEF ConnOK, EndsOK
  <2>3. \A f \in Ends : d.udata[f] => d.open[f]
    <3> SUFFICES ASSUME NEW f \in Ends, d.udata[f]
                 PROVE  d.open[f]
      OBVIOUS
    <3>1. c.udata[f] /\ c.open[f]
      BY <1>0
    <3>2. CASE c.ends[f] = p
      BY <3>1, <3>2 DEF DiedConn, ClosedEnd
    <3>3. CASE c.ends[f] # p
      BY <3>1, <3>3, <1>0
    <3> QED BY <3>2, <3>3
  <2>4. d.open[1] => d.udata[1]
    BY <2>1, <1>0, <1>a DEF ConnOK
  <2>5. HasBack(d.chan[1], 1) /\ d.open[2] => d.udata[2]
    <3>1. HasBack(d.chan[1], 1) => HasBack(c.chan[1], 1)
      BY <1>0, <1>a
    <3>2. d.open[2] => c.open[2] /\ d.udata[2] = c.udata[2]
      BY <1>0, <1>a
    <3> QED BY <3>1, <3>2, <2>1 DEF ConnOK
  <2>6. \A f \in Ends : HasBack(d.chan[f], 0) => cf = Procs
    BY <2>1, <1>0 DEF ConnOK
  <2> QED BY <2>2, <2>3, <2>4, <2>5, <2>6 DEF ConnOK
<1>2. ASSUME cf = Procs, NEW k \in Slots
      PROVE  Linked(ds[k], sw, k)
  <2> DEFINE c == cs[k]
             d == ds[k]
  <2>1. Linked(c, sv, k) /\ ConnOK(cf, c) /\ ConnOK(cf, d)
    BY <1>1, <1>2 DEF NetOK, Links, SlotsOK
  <2>2. ASSUME NEW f \in Ends, d.open[f]
        PROVE  Entry(sw, d, f) = Entry(sv, c, f)
    <3>1. c.open[f] /\ d.ends = c.ends /\ c.ends[f] # p
      BY <2>2, <1>0
    <3>2. c.ends[f] \in Procs /\ c.ends[Other(f)] \in Procs
      BY <3>1, <2>1, EndProcs
    <3> QED BY <3>1, <3>2 DEF Entry
  <2>3. ASSUME NEW f \in Ends, d.udata[f]
        PROVE  c.udata[f] /\ d.open[f]
    BY <2>1, <2>3, <1>0 DEF ConnOK
  <2>4. \A f \in Ends : d.udata[f] => Entry(sw, d, f).conn = k
    BY <2>1, <2>2, <2>3 DEF Linked
  <2>5. d.udata[2] => Entry(sw, d, 2).est
    BY <2>1, <2>2, <2>3, <1>a DEF Linked
  <2>6. ASSUME d.open[1], d.open[2], Entry(sw, d, 1).est
        PROVE  d.udata[2]
    <3>1. c.open[1] /\ c.open[2] /\ Entry(sv, c, 1).est
      BY <2>6, <2>2, <1>0, <1>a
    <3>2. c.udata[2]
      BY <3>1, <2>1 DEF Linked
    <3> QED BY <3>2, <2>6, <1>0, <1>a
  <2> QED BY <2>4, <2>5, <2>6 DEF Linked
<1>3. ASSUME NEW x \in Procs, NEW y \in Procs
      PROVE  EntryOK(cf, ds, sw[x][y], x, y)
  <2>1. CASE x = p
    BY <2>1 DEF EntryOK
  <2>2. CASE x # p
    <3>1. sw[x][y] = sv[x][y] /\ EntryOK(cf, cs, sv[x][y], x, y)
      BY <2>2, <1>3 DEF NetOK, Entries
    <3>2. ASSUME sv[x][y].conn # NULL
          PROVE  \E f \in Ends : Held(ds[sv[x][y].conn], x, y, f)
      <4> DEFINE j == sv[x][y].conn
      <4>1. j \in Slots
        BY <3>2, ServTypes
      <4>2. PICK f \in Ends : Held(cs[j], x, y, f)
        BY <3>1, <3>2 DEF EntryOK
      <4>3. Held(ds[j], x, y, f)
        BY <4>1, <4>2, <2>2, <1>0 DEF Held
      <4> QED BY <4>3
    <3> QED BY <3>1, <3>2 DEF EntryOK
  <2> QED BY <2>1, <2>2
<1> QED BY <1>1, <1>2, <1>3 DEF NetOK, SlotsOK, Links, Entries

---------------------------------------------------------------------------
(* What the operators on connections do.                                   *)

\* A connection made of its fields.
ConnOf(ends, open, udata, missed, chan) ==
  [ends |-> ends, open |-> open, udata |-> udata, missed |-> missed, chan |-> chan]

LEMMA ConnFields ==
  ASSUME NEW c \in ConnT
  PROVE  /\ c.ends \in EndsT /\ c.open \in FlagsT /\ c.udata \in FlagsT
         /\ c.missed \in FlagsT /\ c.chan \in ChansT
         /\ c = ConnOf(c.ends, c.open, c.udata, c.missed, c.chan)
BY DEF ConnT, ConnOf

LEMMA ConnOfType ==
  ASSUME NEW n \in EndsT, NEW o \in FlagsT, NEW u \in FlagsT, NEW m \in FlagsT, NEW h \in ChansT,
         NEW c, c = ConnOf(n, o, u, m, h)
  PROVE  c \in ConnT /\ c.ends = n /\ c.open = o /\ c.udata = u /\ c.missed = m /\ c.chan = h
BY DEF ConnT, ConnOf

PutChan(cs, k, e, s) == [cs EXCEPT ![k].chan[e] = s]

LEMMA SetChan ==
  ASSUME NEW cs \in ConnsT, NEW k \in Slots, NEW e \in Ends, NEW s \in Seq(Pkts),
         NEW ds, ds = PutChan(cs, k, e, s)
  PROVE  /\ OnlySlot(cs, ds, k)
         /\ ds[k].ends = cs[k].ends /\ ds[k].open = cs[k].open /\ ds[k].udata = cs[k].udata
         /\ ds[k].chan[e] = s
         /\ \A f \in Ends : f # e => ds[k].chan[f] = cs[k].chan[f]
<1>1. cs[k] \in ConnT
  BY DEF ConnsT
<1>2. ds[k] = [cs[k] EXCEPT !.chan = [@ EXCEPT ![e] = s]]
  BY DEF ConnsT, PutChan
<1> DEFINE g == [cs[k].chan EXCEPT ![e] = s]
<1>a. g \in ChansT
  BY <1>1, ConnFields DEF ChansT
<1>b. ds[k] = ConnOf(cs[k].ends, cs[k].open, cs[k].udata, cs[k].missed, g)
  BY <1>1, <1>2, ConnFields DEF ConnOf
<1>3. ds[k] \in ConnT
  <2> HIDE DEF g
  <2> QED BY ONLY <1>1, <1>a, <1>b, ConnFields, ConnOfType
<1>4. ds \in ConnsT /\ \A j \in Slots : j # k => ds[j] = cs[j]
  BY <1>3 DEF ConnsT, PutChan
<1>5. cs[k].chan \in [Ends -> Seq(Pkts)]
  BY <1>1 DEF ConnT, ChansT
<1>6. ds[k].chan = [cs[k].chan EXCEPT ![e] = s]
  BY <1>1, <1>2 DEF ConnT
<1>7. ds[k].ends = cs[k].ends /\ ds[k].open = cs[k].open /\ ds[k].udata = cs[k].udata
  BY <1>1, <1>2 DEF ConnT
<1> QED BY <1>4, <1>5, <1>6, <1>7 DEF OnlySlot

\* Nothing but the packets of a connection changes, and only r is new to them.
OnlySent(cs, ds, k, x) ==
  /\ OnlySlot(cs, ds, k)
  /\ ds[k].ends = cs[k].ends /\ ds[k].open = cs[k].open /\ ds[k].udata = cs[k].udata
  /\ \A f \in Ends, r \in {0, 1} :
       HasBack(ds[k].chan[f], r) => HasBack(cs[k].chan[f], r) \/ (x.type = "back" /\ x.ret = r)

LEMMA SetChanSent ==
  ASSUME NEW cs \in ConnsT, NEW k \in Slots, NEW e \in Ends, NEW s \in Seq(Pkts),
         NEW x, NEW ds, ds = PutChan(cs, k, e, s),
         \A r \in {0, 1} : HasBack(s, r) =>
           HasBack(cs[k].chan[e], r) \/ (x.type = "back" /\ x.ret = r)
  PROVE  OnlySent(cs, ds, k, x)
<1>1. /\ OnlySlot(cs, ds, k)
      /\ ds[k].ends = cs[k].ends /\ ds[k].open = cs[k].open /\ ds[k].udata = cs[k].udata
      /\ ds[k].chan[e] = s
      /\ \A f \in Ends : f # e => ds[k].chan[f] = cs[k].chan[f]
  BY SetChan
<1> QED BY <1>1 DEF OnlySent

LEMMA SendSent ==
  ASSUME NEW cs \in ConnsT, NEW k \in Slots, NEW e \in Ends, NEW x \in Pkts
  PROVE  OnlySent(cs, Send(cs, k, e, x), k, x)
<1>1. Other(e) \in Ends
  BY OtherEnd
<1>2. \A f \in Ends : cs[k].chan[f] \in Seq(Pkts)
  BY DEF ConnsT, ConnT, ChansT
<1>3. CASE cs[k].open[Other(e)]
  <2> DEFINE s == Append(cs[k].chan[Other(e)], x)
  <2>1. Send(cs, k, e, x) = PutChan(cs, k, Other(e), s)
    BY <1>3 DEF Send, PutChan
  <2>2. /\ s \in Seq(Pkts)
        /\ \A r \in {0, 1} : HasBack(s, r) =>
             HasBack(cs[k].chan[Other(e)], r) \/ (x.type = "back" /\ x.ret = r)
    BY <1>1, <1>2, AppendBack
  <2> HIDE DEF s
  <2> QED BY <1>1, <2>1, <2>2, SetChanSent
<1>4. CASE ~cs[k].open[Other(e)]
  <2> DEFINE o == cs[k].chan[e]
             s == IF Fin \in {o[i] : i \in DOMAIN o} THEN o ELSE Append(o, Fin)
  <2>1. Send(cs, k, e, x) = PutChan(cs, k, e, s)
    BY <1>4 DEF Send, PutChan
  <2>2. o \in Seq(Pkts)
    BY <1>2
  <2>3. /\ Append(o, Fin) \in Seq(Pkts)
        /\ \A r \in {0, 1} : HasBack(Append(o, Fin), r) => HasBack(o, r)
    BY <2>2, PktsAre, AppendBack
  <2>4. /\ s \in Seq(Pkts)
        /\ \A r \in {0, 1} : HasBack(s, r) => HasBack(o, r)
    BY <2>2, <2>3
  <2> HIDE DEF s
  <2>5. OnlySent(cs, PutChan(cs, k, e, s), k, x)
    BY <2>4, SetChanSent
  <2> QED BY <2>1, <2>5
<1> QED BY <1>3, <1>4

\* What is not an answer to an identification, or a refusal between servers of
\* the configuration, leaves connections and entries as they were.
LEMMA SentQuiet ==
  ASSUME NEW cf, NEW cs \in ConnsT, NEW ds, NEW k \in Slots, NEW x, OnlySent(cs, ds, k, x),
         x.type = "back" => x.ret = 0 /\ cf = Procs
  PROVE  QuietConns(cf, cs, ds)
BY DEF QuietConns, OnlySent, OnlySlot, Quiet

\* The packets of one end of k after the first one is taken, and the end of file
\* perhaps with it.
Taken(cs, k, e) ==
  {[cs EXCEPT ![k].chan[e] = Tail(@)]}
    \cup (IF Tail(cs[k].chan[e]) = <<Fin>>
            THEN {[cs EXCEPT ![k].chan[e] = <<>>, ![k].missed[e] = TRUE]} ELSE {})

LEMMA TakenQuiet ==
  ASSUME NEW cf, NEW cs \in ConnsT, NEW k \in Slots, NEW e \in Ends, cs[k].chan[e] # <<>>,
         NEW ds \in Taken(cs, k, e)
  PROVE  QuietConns(cf, cs, ds) /\ OnlySlot(cs, ds, k)
<1>1. cs[k].chan[e] \in Seq(Pkts) /\ cs[k] \in ConnT
  BY DEF ConnsT, ConnT, ChansT
<1>2. CASE ds = [cs EXCEPT ![k].chan[e] = Tail(cs[k].chan[e])]
  <2> DEFINE s == Tail(cs[k].chan[e])
  <2>1. s \in Seq(Pkts) /\ \A r \in {0, 1} : HasBack(s, r) => HasBack(cs[k].chan[e], r)
    BY <1>1, TailBack
  <2>2. ds = PutChan(cs, k, e, s)
    BY <1>2 DEF PutChan
  <2> HIDE DEF s
  <2>3. OnlySent(cs, ds, k, Fin)
    BY <2>1, <2>2, SetChanSent
  <2>4. Fin.type # "back"
    BY PktsAre
  <2>5. QuietConns(cf, cs, ds)
    BY ONLY <2>3, <2>4, SentQuiet, cs \in ConnsT, k \in Slots
  <2> QED BY <2>3, <2>5 DEF OnlySent
<1>3. CASE ds = [cs EXCEPT ![k].chan[e] = <<>>, ![k].missed[e] = TRUE]
  <2> DEFINE b == PutChan(cs, k, e, <<>>)
  <2>1. <<>> \in Seq(Pkts) /\ \A r \in {0, 1} : ~HasBack(<<>>, r)
    BY FewBack
  <2>2. OnlySent(cs, b, k, Fin)
    BY <2>1, SetChanSent
  <2>3. b \in ConnsT
    BY <2>2 DEF OnlySent, OnlySlot
  <2>4. ds = [b EXCEPT ![k].missed[e] = TRUE]
    BY <1>3 DEF PutChan
  <2> HIDE DEF b
  <2>5. b[k] \in ConnT
    BY <2>3 DEF ConnsT
  <2>6. ds[k] = [b[k] EXCEPT !.missed = [@ EXCEPT ![e] = TRUE]] /\ \A j \in Slots : j # k => ds[j] = b[j]
    BY <2>3, <2>4 DEF ConnsT
  <2> DEFINE m == [b[k].missed EXCEPT ![e] = TRUE]
  <2>a. m \in FlagsT
    BY <2>5, ConnFields DEF FlagsT
  <2>b. ds[k] = ConnOf(b[k].ends, b[k].open, b[k].udata, m, b[k].chan)
    BY <2>5, <2>6, ConnFields DEF ConnOf
  <2>7. /\ ds[k] \in ConnT
        /\ ds[k].ends = b[k].ends /\ ds[k].open = b[k].open /\ ds[k].udata = b[k].udata
        /\ ds[k].chan = b[k].chan
    <3> HIDE DEF m
    <3> QED BY ONLY <2>5, <2>a, <2>b, ConnFields, ConnOfType
  <2>8. ds \in ConnsT
    BY <2>3, <2>4, <2>7 DEF ConnsT
  <2>9. OnlySent(cs, ds, k, Fin)
    BY <2>2, <2>6, <2>7, <2>8 DEF OnlySent, OnlySlot
  <2>10. Fin.type # "back"
    BY PktsAre
  <2>11. QuietConns(cf, cs, ds)
    BY ONLY <2>9, <2>10, SentQuiet, cs \in ConnsT, k \in Slots
  <2> QED BY <2>9, <2>11 DEF OnlySent
<1> QED BY <1>2, <1>3 DEF Taken

LEMMA NoConnType == NoConn \in ConnT /\ \A e \in Ends : /\ NoConn.open[e] = FALSE
                                                       /\ NoConn.udata[e] = FALSE
                                                       /\ NoConn.chan[e] = <<>>
<1> DEFINE no == Both(FALSE, FALSE)
           zz == Both(0, 0)
           em == Both(<<>>, <<>>)
<1>1. NoConn = ConnOf(zz, no, no, no, em)
  BY DEF NoConn, ConnOf
<1>2. zz \in EndsT /\ no \in FlagsT
  BY DEF EndsT, FlagsT, Both
<1>3. em \in ChansT
  <2>1. <<>> \in Seq(Pkts)
    BY FewBack
  <2> QED BY <2>1, Zenon DEF ChansT, Both
<1>4. \A e \in Ends : no[e] = FALSE /\ em[e] = <<>>
  BY DEF Both
<1> HIDE DEF no, zz, em
<1>5. NoConn \in ConnT /\ NoConn.open = no /\ NoConn.udata = no /\ NoConn.chan = em
  BY ONLY <1>1, <1>2, <1>3, ConnOfType
<1> QED BY ONLY <1>4, <1>5

\* The connection that is left when end e of c is shut.
LEMMA ShutClosed ==
  ASSUME NEW cf, NEW c \in ConnT, NEW e \in Ends, ConnOK(cf, c)
  PROVE  Shut(c, e) \in ConnT /\ ClosedEnd(c, Shut(c, e), e)
<1> DEFINE o == Other(e)
           d == Shut(c, e)
<1>0. o \in Ends /\ o # e /\ \A f \in Ends : f = e \/ f = o
  BY OtherEnd
<1>1. CASE c.open[o]
  <2> DEFINE op == [c.open EXCEPT ![e] = FALSE]
             ud == [c.udata EXCEPT ![e] = FALSE]
             mi == [c.missed EXCEPT ![e] = FALSE]
             ch == [f \in Ends |-> IF f = e THEN <<>> ELSE Append(c.chan[f], Fin)]
  <2>1. d = ConnOf(c.ends, op, ud, mi, ch)
    BY <1>1 DEF Shut, ConnOf
  <2>2. c.open \in [Ends -> BOOLEAN] /\ c.udata \in [Ends -> BOOLEAN]
          /\ c.missed \in [Ends -> BOOLEAN] /\ c.chan \in [Ends -> Seq(Pkts)]
    BY ConnFields DEF FlagsT, ChansT
  <2>3. op \in FlagsT /\ ud \in FlagsT /\ mi \in FlagsT
    BY <2>2 DEF FlagsT
  <2>4. /\ Append(c.chan[o], Fin) \in Seq(Pkts)
        /\ \A r \in {0, 1} : HasBack(Append(c.chan[o], Fin), r) => HasBack(c.chan[o], r)
    BY <1>0, <2>2, PktsAre, AppendBack
  <2>5. ch[e] = <<>> /\ ch[o] = Append(c.chan[o], Fin)
    BY <1>0
  <2>6. ch \in ChansT
    <3>1. \A f \in Ends : ch[f] \in Seq(Pkts)
      BY <1>0, <2>4, <2>5, FewBack
    <3> QED BY <3>1 DEF ChansT
  <2>7. c.ends \in EndsT
    BY ConnFields
  <2>8. op[e] = FALSE /\ ud[e] = FALSE /\ op[o] = c.open[o] /\ ud[o] = c.udata[o]
    BY <1>0, <2>2
  <2>9. \A f \in Ends, r \in {0, 1} : HasBack(ch[f], r) => HasBack(c.chan[f], r)
    BY <1>0, <2>4, <2>5, FewBack
  <2> HIDE DEF op, ud, mi, ch, d
  <2>10. d \in ConnT /\ d.ends = c.ends /\ d.open = op /\ d.udata = ud /\ d.chan = ch
    BY ONLY <2>1, <2>3, <2>6, <2>7, ConnOfType
  <2>11. ClosedEnd(c, d, e)
    BY ONLY <2>8, <2>9, <2>10 DEF ClosedEnd
  <2> QED BY <2>10, <2>11 DEF d
<1>2. CASE ~c.open[o]
  <2>1. d = NoConn
    BY <1>2 DEF Shut
  <2>2. ~c.udata[o]
    BY <1>0, <1>2 DEF ConnOK
  <2>3. c.open[o] = FALSE /\ c.udata[o] = FALSE
    <3>1. c.open \in [Ends -> BOOLEAN] /\ c.udata \in [Ends -> BOOLEAN]
      BY ConnFields DEF FlagsT
    <3>2. c.open[o] \in BOOLEAN /\ c.udata[o] \in BOOLEAN
      BY <1>0, <3>1
    <3> QED BY <1>2, <2>2, <3>2
  <2>4. \A f \in Ends, r \in {0, 1} : ~HasBack(NoConn.chan[f], r)
    BY NoConnType, FewBack
  <2>5. ClosedEnd(c, NoConn, e)
    BY <1>0, <1>2, <2>3, <2>4, NoConnType DEF ClosedEnd
  <2> QED BY <2>1, <2>5, NoConnType
<1> QED BY <1>1, <1>2

LEMMA ConnectedDials ==
  ASSUME conns \in ConnsT, FreeSlots # {}, NEW p \in Procs, NEW q \in Procs,
         NEW k, k = Connected(p, q).slot, NEW ds, ds = Connected(p, q).conns
  PROVE  /\ k \in Slots /\ conns[k] = NoConn
         /\ OnlySlot(conns, ds, k) /\ Dialed(ds[k], p, q)
<1> DEFINE op == Both(TRUE, TRUE)
           ud == Both(TRUE, FALSE)
           mi == Both(FALSE, FALSE)
           ch == Both(<<>>, <<Identify>>)
           en == Both(p, q)
<1>1. k \in FreeSlots
  BY FreeSlot DEF Connected
<1>2. k \in Slots /\ conns[k] = NoConn
  BY <1>1 DEF FreeSlots, Slots
<1>3. ds = [conns EXCEPT ![k] = ConnOf(en, op, ud, mi, ch)]
  BY DEF Connected, ConnOf
<1>4. op \in FlagsT /\ ud \in FlagsT /\ mi \in FlagsT
  BY DEF FlagsT, Both
<1>5. en \in EndsT
  BY ProcsAssumption DEF EndsT, Both
<1>6. ch \in ChansT
  BY FewBack DEF ChansT, Both
<1>7. /\ en[1] = p /\ en[2] = q /\ op[1] = TRUE /\ op[2] = TRUE /\ ud[1] = TRUE /\ ud[2] = FALSE
      /\ \A f \in Ends, r \in {0, 1} : ~HasBack(ch[f], r)
  BY FewBack DEF Both, Ends
<1> HIDE DEF op, ud, mi, ch, en
<1>8. ds[k] = ConnOf(en, op, ud, mi, ch) /\ \A j \in Slots : j # k => ds[j] = conns[j]
  BY <1>2, <1>3 DEF ConnsT
<1>9. ds[k] \in ConnT /\ ds[k].ends = en /\ ds[k].open = op /\ ds[k].udata = ud /\ ds[k].chan = ch
  BY ONLY <1>4, <1>5, <1>6, <1>8, ConnOfType
<1>10. ds \in ConnsT
  <2>1. ConnOf(en, op, ud, mi, ch) \in ConnT
    BY <1>8, <1>9
  <2> QED BY <1>3, <2>1 DEF ConnsT
<1>11. Dialed(ds[k], p, q)
  BY ONLY <1>7, <1>9 DEF Dialed
<1> QED BY <1>2, <1>8, <1>10, <1>11 DEF OnlySlot

---------------------------------------------------------------------------
(* What the steps do to entries and calls.                                 *)

Put(sv, p, q, t) == [sv EXCEPT ![p][q] = t]

LEMMA ServPut ==
  ASSUME NEW sv \in ServsT, NEW p \in Procs, NEW q \in Procs, NEW t \in ServT,
         NEW sw, sw = Put(sv, p, q, t)
  PROVE  OnlyEntry(sv, sw, p, q) /\ sw[p][q] = t
<1>1. sw = [sv EXCEPT ![p] = [sv[p] EXCEPT ![q] = t]]
  BY DEF Put
<1>2. sv[p] \in [Procs -> ServT]
  BY DEF ServsT
<1>3. [sv[p] EXCEPT ![q] = t] \in [Procs -> ServT] /\ [sv[p] EXCEPT ![q] = t][q] = t
        /\ \A b \in Procs : b # q => [sv[p] EXCEPT ![q] = t][b] = sv[p][b]
  BY <1>2
<1>4. sw \in ServsT /\ sw[p] = [sv[p] EXCEPT ![q] = t] /\ \A a \in Procs : a # p => sw[a] = sv[a]
  BY <1>1, <1>3 DEF ServsT
<1> QED BY <1>3, <1>4 DEF OnlyEntry

\* The entry t takes the place of the entry of q at p.
LEMMA WaitPut ==
  ASSUME NEW cf, NEW sv, NEW sw, NEW p \in Procs, NEW q \in Procs,
         WaitOK(cf, sv), OnlyEntry(sv, sw, p, q),
         p = q => ~sw[p][q].est,
         sw[p][q].list = "conn" => sw[p][q].conn = NULL /\ q \in cf /\ p > q
  PROVE  WaitOK(cf, sw)
<1>1. ASSUME NEW x \in Procs
      PROVE  ~sw[x][x].est
  BY DEF WaitOK, OnlyEntry
<1>2. ASSUME NEW x \in Procs, NEW y \in Procs, sw[x][y].list = "conn"
      PROVE  sw[x][y].conn = NULL /\ y \in cf /\ x > y
  <2>1. CASE x = p /\ y = q
    BY <1>2, <2>1
  <2>2. CASE ~(x = p /\ y = q)
    BY <1>2, <2>2 DEF WaitOK, OnlyEntry
  <2> QED BY <2>1, <2>2
<1> QED BY <1>1, <1>2 DEF WaitOK

\* rpc_hash only loses calls.
LessHash(sv, sw) == \A p, q \in Procs : sw[p][q].hash \subseteq sv[p][q].hash

LEMMA LessHashGood ==
  ASSUME NEW ca, NEW sv, NEW sw, CallsOK(ca, sv), LessHash(sv, sw)
  PROVE  CallsOK(ca, sw)
BY DEF CallsOK, HashOK, LessHash

LEMMA LessHashPut ==
  ASSUME NEW sv, NEW sw, NEW p \in Procs, NEW q \in Procs, OnlyEntry(sv, sw, p, q),
         sw[p][q].hash \subseteq sv[p][q].hash
  PROVE  LessHash(sv, sw)
BY DEF LessHash, OnlyEntry

\* The calls have the same owners and numbers.
SameCall(c, d) == d \in CallT /\ d.from = c.from /\ d.to = c.to /\ d.req = c.req

LEMMA CallsTyped ==
  ASSUME NEW ca \in Seq(CallT), NEW cb, cb = [n \in DOMAIN ca |-> cb[n]],
         \A n \in DOMAIN ca : cb[n] \in CallT
  PROVE  cb \in Seq(CallT) /\ DOMAIN cb = DOMAIN ca
OBVIOUS

\* No calls but ns have been freed.
Changed(ca, cb, ns) ==
  /\ DOMAIN cb = DOMAIN ca
  /\ \A n \in DOMAIN ca : /\ SameCall(ca[n], cb[n]) /\ CallOK(cb[n])
                          /\ cb[n].freed => ca[n].freed \/ n \in ns

GoneFrom(sw, ns) == \A p, q \in Procs : sw[p][q].hash \cap ns = {}

\* The fields of a call that change, one by one.
LEMMA CallPut ==
  ASSUME NEW c \in CallT
  PROVE  /\ [c EXCEPT !.backs = @ + 1, !.freed = TRUE, !.closed = TRUE] \in CallT
         /\ [c EXCEPT !.backs = @ + 1, !.listed = FALSE] \in CallT
         /\ [c EXCEPT !.freed = TRUE] \in CallT
         /\ [c EXCEPT !.dropped = TRUE] \in CallT
         /\ \A w \in BOOLEAN : [c EXCEPT !.backs = @ + 1, !.listed = FALSE, !.wrong = w] \in CallT
<1>1. c.backs + 1 \in Nat
  BY DEF CallT
<1>2. [c EXCEPT !.backs = @ + 1, !.freed = TRUE, !.closed = TRUE] \in CallT
  BY <1>1 DEF CallT
<1>3. [c EXCEPT !.freed = TRUE] \in CallT
  BY DEF CallT
<1>4. [c EXCEPT !.backs = @ + 1, !.listed = FALSE] \in CallT
  BY <1>1 DEF CallT
<1>5. ASSUME NEW w \in BOOLEAN
      PROVE [c EXCEPT !.backs = @ + 1, !.listed = FALSE, !.wrong = w] \in CallT
  BY <1>1 DEF CallT
<1>6. [c EXCEPT !.dropped = TRUE] \in CallT
  BY DEF CallT
<1> QED BY <1>2, <1>3, <1>4, <1>5, <1>6

LEMMA ChangedGood ==
  ASSUME NEW ca, NEW cb, NEW sv, NEW sw, NEW ns,
         CallsOK(ca, sv), Changed(ca, cb, ns), LessHash(sv, sw), GoneFrom(sw, ns)
  PROVE  CallsOK(cb, sw)
<1>1. ASSUME NEW p \in Procs, NEW q \in Procs, NEW n \in sw[p][q].hash
      PROVE  n \in DOMAIN cb /\ ~cb[n].freed /\ cb[n].from = p /\ cb[n].to = q
  <2>1. n \in sv[p][q].hash /\ n \notin ns
    BY DEF LessHash, GoneFrom
  <2>2. n \in DOMAIN ca /\ ~ca[n].freed /\ ca[n].from = p /\ ca[n].to = q
    BY <2>1 DEF CallsOK, HashOK
  <2> QED BY <2>1, <2>2 DEF Changed, SameCall
<1> QED BY <1>1 DEF CallsOK, HashOK, Changed

\* The calls ns have been called back and are off rpc_timeout_list, not yet freed.
CalledBack(c, d) ==
  /\ SameCall(c, d) /\ d.freed = c.freed /\ d.closed = c.closed
  /\ d.backs = c.backs + 1 /\ ~d.listed

Back(ca, cb, ns) ==
  /\ cb \in Seq(CallT) /\ DOMAIN cb = DOMAIN ca /\ ns \subseteq DOMAIN ca
  /\ \A n \in ns : CalledBack(ca[n], cb[n])
  /\ \A n \in DOMAIN ca \ ns : cb[n] = ca[n]

LEMMA AnsweredBack ==
  ASSUME calls \in Seq(CallT), NEW ns, ns \subseteq DOMAIN calls, NEW x, NEW ca, ca = Answered(ns, x)
  PROVE  /\ Back(calls, ca, ns)
         /\ \A n \in ns : ca[n].wrong => n # x.call
<1>1. ca = [n \in DOMAIN calls |->
              IF n \in ns THEN [calls[n] EXCEPT !.backs = @ + 1, !.listed = FALSE, !.wrong = n # x.call]
                          ELSE calls[n]]
  BY DEF Answered
<1>2. ASSUME NEW n \in DOMAIN calls
      PROVE  /\ ca[n] \in CallT
             /\ n \in ns => CalledBack(calls[n], ca[n]) /\ (ca[n].wrong => n # x.call)
             /\ n \notin ns => ca[n] = calls[n]
  <2>1. calls[n] \in CallT
    OBVIOUS
  <2>2. CASE n \in ns
    <3>1. PICK w \in BOOLEAN : w = (n # x.call)
      OBVIOUS
    <3>2. ca[n] = [calls[n] EXCEPT !.backs = @ + 1, !.listed = FALSE, !.wrong = w]
      BY ONLY <1>1, <2>2, <3>1, n \in DOMAIN calls, ZenonT(60)
    <3>3. ca[n] \in CallT
      BY ONLY <2>1, <3>2, CallPut, w \in BOOLEAN, ZenonT(60)
    <3>4. CalledBack(calls[n], ca[n]) /\ ca[n].wrong = w
      BY <2>1, <3>2, <3>3 DEF CallT, CalledBack, SameCall
    <3> QED BY <2>2, <3>1, <3>3, <3>4
  <2>3. CASE n \notin ns
    BY <1>1, <2>1, <2>3
  <2> QED BY <2>2, <2>3
<1>3. ca = [n \in DOMAIN calls |-> ca[n]]
  BY <1>1
<1>4. ca \in Seq(CallT) /\ DOMAIN ca = DOMAIN calls
  BY ONLY <1>2, <1>3, calls \in Seq(CallT), CallsTyped
<1> QED BY <1>2, <1>4 DEF Back

LEMMA TimedOutBack ==
  ASSUME calls \in Seq(CallT), NEW n \in DOMAIN calls, NEW ca, ca = TimedOut(n)
  PROVE  /\ Back(calls, ca, {n})
         /\ ca[n].wrong = calls[n].wrong
<1> DEFINE c == calls[n]
           d == [c EXCEPT !.backs = @ + 1, !.listed = FALSE]
<1>1. c \in CallT
  OBVIOUS
<1>2. d \in CallT
  <2> HIDE DEF c
  <2> QED BY <1>1, CallPut
<1>3. CalledBack(c, d) /\ d.wrong = c.wrong
  <2> HIDE DEF c
  <2> QED BY <1>1, <1>2 DEF CallT, CalledBack, SameCall
<1>4. ca = [calls EXCEPT ![n] = d]
  BY DEF TimedOut
<1> HIDE DEF d
<1>5. ca[n] = d /\ (\A m \in DOMAIN calls : m # n => ca[m] = calls[m])
  BY ONLY <1>4, n \in DOMAIN calls
<1>6. ca = [m \in DOMAIN calls |-> ca[m]]
  <2>1. calls = [m \in DOMAIN calls |-> calls[m]]
    BY ONLY calls \in Seq(CallT)
  <2> QED BY ONLY <1>4, <2>1
<1>7. \A m \in DOMAIN calls : ca[m] \in CallT
  BY ONLY <1>2, <1>5, calls \in Seq(CallT)
<1>8. ca \in Seq(CallT) /\ DOMAIN ca = DOMAIN calls
  BY ONLY <1>6, <1>7, calls \in Seq(CallT), CallsTyped
<1> QED BY <1>3, <1>5, <1>8 DEF Back

LEMMA NoneBack ==
  ASSUME NEW ca \in Seq(CallT)
  PROVE  Back(ca, ca, {})
BY DEF Back

---------------------------------------------------------------------------
(* Steps.                                                                  *)

\* An entry made of its fields.
ServOf(est, conn, req, hash, list) ==
  [est |-> est, conn |-> conn, req |-> req, hash |-> hash, list |-> list]

LEMMA ServFields ==
  ASSUME NEW s \in ServT
  PROVE  /\ s = ServOf(s.est, s.conn, s.req, s.hash, s.list)
         /\ s.est \in BOOLEAN /\ s.conn \in ConnIds /\ s.req \in Nat /\ s.hash \in HashT
         /\ s.list \in Lists
BY DEF ServT, ServOf

LEMMA ServOfType ==
  ASSUME NEW x \in BOOLEAN, NEW n \in ConnIds, NEW r \in Nat, NEW h \in HashT, NEW l \in Lists,
         NEW t, t = ServOf(x, n, r, h, l)
  PROVE  t \in ServT /\ t.est = x /\ t.conn = n /\ t.req = r /\ t.hash = h /\ t.list = l
BY DEF ServT, ServOf

\* What the steps set in an entry: dialed, established, a smaller rpc_hash, a call.
DialServ(s, k) == [s EXCEPT !.conn = k, !.list = "identify"]
EstServ(s) == [s EXCEPT !.req = 1, !.hash = {}, !.list = "ping", !.est = TRUE]
HashServ(s, h) == [s EXCEPT !.hash = h]
CallServ(s, r, h) == [s EXCEPT !.req = r, !.hash = h]

LEMMA ListsAre ==
  /\ "identify" \in Lists /\ "ping" \in Lists
  /\ "identify" # "conn" /\ "ping" # "conn"
BY DEF Lists

LEMMA DialServIs ==
  ASSUME NEW s \in ServT, NEW k \in ConnIds, NEW t, t = DialServ(s, k)
  PROVE  /\ t \in ServT /\ t.est = s.est /\ t.conn = k /\ t.hash = s.hash /\ t.list # "conn"
         /\ t.req = s.req
<1>1. t.est = s.est /\ t.conn = k /\ t.req = s.req /\ t.hash = s.hash /\ t.list = "identify"
  BY DEF DialServ, ServT
<1>2. t = ServOf(t.est, t.conn, t.req, t.hash, t.list)
  BY DEF DialServ, ServT, ServOf
<1> QED BY ONLY <1>1, <1>2, s \in ServT, k \in ConnIds, ListsAre, ServFields, ServOfType

LEMMA EstServIs ==
  ASSUME NEW s \in ServT, NEW t, t = EstServ(s)
  PROVE  t \in ServT /\ t.est = TRUE /\ t.conn = s.conn /\ t.hash = {} /\ t.list # "conn"
<1>1. t.est = TRUE /\ t.conn = s.conn /\ t.req = 1 /\ t.hash = {} /\ t.list = "ping"
  BY DEF EstServ, ServT
<1>2. t = ServOf(t.est, t.conn, t.req, t.hash, t.list)
  <2>1. t = [est |-> TRUE, conn |-> s.conn, req |-> 1, hash |-> {}, list |-> "ping"]
    BY DEF EstServ, ServT
  <2> QED BY ONLY <2>1 DEF ServOf
<1>3. t.est \in BOOLEAN /\ t.req \in Nat /\ t.hash \in HashT /\ t.conn \in ConnIds /\ t.list \in Lists
  <2>1. s.conn \in ConnIds
    BY ONLY s \in ServT, ServFields
  <2>2. {} \in HashT
    BY DEF HashT
  <2>3. t.est \in BOOLEAN
    BY ONLY <1>1
  <2> QED BY ONLY <1>1, <2>1, <2>2, <2>3, ListsAre
<1>4. t \in ServT
  BY ONLY <1>2, <1>3, ServOfType
<1> QED BY <1>1, <1>4, ListsAre

LEMMA HashServIs ==
  ASSUME NEW s \in ServT, NEW h \in HashT, NEW t, t = HashServ(s, h)
  PROVE  /\ t \in ServT /\ t.est = s.est /\ t.conn = s.conn /\ t.hash = h /\ t.list = s.list
         /\ t.req = s.req
<1>1. t.est = s.est /\ t.conn = s.conn /\ t.req = s.req /\ t.hash = h /\ t.list = s.list
  BY DEF HashServ, ServT
<1>2. t = ServOf(t.est, t.conn, t.req, t.hash, t.list)
  BY DEF HashServ, ServT, ServOf
<1> QED BY ONLY <1>1, <1>2, s \in ServT, h \in HashT, ServFields, ServOfType

LEMMA CallServIs ==
  ASSUME NEW s \in ServT, NEW r \in Nat, NEW h \in HashT, NEW t, t = CallServ(s, r, h)
  PROVE  /\ t \in ServT /\ t.est = s.est /\ t.conn = s.conn /\ t.hash = h /\ t.list = s.list
         /\ t.req = r
<1>1. t.est = s.est /\ t.conn = s.conn /\ t.req = r /\ t.hash = h /\ t.list = s.list
  BY DEF CallServ, ServT
<1>2. t = ServOf(t.est, t.conn, t.req, t.hash, t.list)
  BY DEF CallServ, ServT, ServOf
<1> QED BY ONLY <1>1, <1>2, s \in ServT, r \in Nat, h \in HashT, ServFields, ServOfType

LEMMA InitServIs ==
  ASSUME NEW p \in Procs, NEW q \in Procs, NEW s, s = InitServ(p, q)
  PROVE  /\ s \in ServT /\ s.conn = NULL /\ ~s.est /\ s.hash = {}
         /\ s.list = "conn" => q \in config /\ p > q
<1> DEFINE l == IF q \in config /\ DoIConnHim(p, q) THEN "conn" ELSE "none"
<1>1. l \in Lists /\ (l = "conn" => q \in config /\ p > q)
  BY DEF Lists, DoIConnHim
<1>2. PICK x \in BOOLEAN, h \in HashT : x = FALSE /\ h = {}
  BY DEF HashT
<1>3. s = ServOf(x, NULL, 1, h, l)
  BY <1>2 DEF ServOf, InitServ
<1>4. NULL \in ConnIds /\ 1 \in Nat
  BY DEF ConnIds
<1> HIDE DEF l
<1>5. s \in ServT /\ s.est = x /\ s.conn = NULL /\ s.hash = h /\ s.list = l
  BY ONLY <1>1, <1>3, <1>4, x \in BOOLEAN, h \in HashT, ServOfType
<1> QED BY <1>1, <1>2, <1>5

LEMMA InvDied ==
  ASSUME Inv, NEW p \in Procs, NEW cs \in ConnsT, NetOK(config, cs, serv), Died(p, cs)
  PROVE  Inv'
<1>1. serv' \in ServsT /\ (\A q \in Procs : serv'[p][q] = InitServ(p, q))
        /\ \A x \in Procs : x # p => serv'[x] = serv[x]
  <2>1. serv \in ServsT
    BY DEF Inv, TypeOK
  <2>2. [q \in Procs |-> InitServ(p, q)] \in [Procs -> ServT]
    BY InitServIs
  <2>3. serv' = [serv EXCEPT ![p] = [q \in Procs |-> InitServ(p, q)]]
    BY DEF Died
  <2> QED BY <2>1, <2>2, <2>3 DEF ServsT
<1>2. \A q \in Procs : /\ serv'[p][q].conn = NULL /\ ~serv'[p][q].est /\ serv'[p][q].hash = {}
                       /\ serv'[p][q].list = "conn" => q \in config /\ p > q
  BY <1>1, InitServIs
<1>3. ASSUME NEW k \in Slots
      PROVE  conns'[k] \in ConnT /\ DiedConn(cs[k], conns'[k], p)
  <2> DEFINE c == cs[k]
             Mine == \E e \in Ends : c.ends[e] = p /\ c.open[e]
             f == IF c.ends[1] = p THEN 1 ELSE 2
  <2>1. conns'[k] = IF Mine THEN Shut(c, f) ELSE c
    BY DEF Died, Slots
  <2>2. c \in ConnT /\ ConnOK(config, c)
    BY DEF ConnsT, NetOK, SlotsOK
  <2>3. CASE Mine
    <3>1. PICK e \in Ends : c.ends[e] = p /\ c.open[e]
      BY <2>3
    <3>2. c.ends[1] # c.ends[2]
      BY <2>2, <3>1 DEF ConnOK, EndsOK
    <3>3. \A g \in Ends : c.ends[g] = p => g = f
      BY <3>2 DEF Ends
    <3>4. f \in Ends
      BY DEF Ends
    <3> HIDE DEF f
    <3>5. Shut(c, f) \in ConnT /\ ClosedEnd(c, Shut(c, f), f)
      BY <2>2, <3>4, ShutClosed
    <3> QED BY <2>1, <2>3, <3>3, <3>5 DEF DiedConn
  <2>4. CASE ~Mine
    <3>1. conns'[k] = c
      BY <2>1, <2>4
    <3> QED BY <2>2, <2>4, <3>1 DEF DiedConn
  <2> QED BY <2>3, <2>4
<1>4. conns' \in ConnsT
  <2>1. conns' = [k \in Slots |-> conns'[k]]
    BY DEF Died, Slots
  <2> QED BY <2>1, <1>3 DEF ConnsT
<1>5. NetOK(config, conns', serv')
  <2>1. serv \in ServsT
    BY DEF Inv, TypeOK
  <2> QED BY <1>1, <1>2, <1>3, <1>4, <2>1, DiedGood
<1>6. WaitOK(config, serv')
  <2>1. WaitOK(config, serv)
    BY DEF Inv
  <2> QED BY <2>1, <1>1, <1>2 DEF WaitOK
<1>7. calls' \in Seq(CallT) /\ CallsOK(calls', serv')
  <2>1. calls \in Seq(CallT) /\ CallsOK(calls, serv)
    BY DEF Inv, TypeOK
  <2>2. calls' = [n \in DOMAIN calls |-> calls'[n]]
    BY DEF Died
  <2>3. ASSUME NEW n \in DOMAIN calls
        PROVE  /\ SameCall(calls[n], calls'[n]) /\ CallOK(calls'[n])
               /\ calls'[n].freed => calls[n].freed
    <3>1. calls[n] \in CallT /\ CallOK(calls[n])
      BY <2>1 DEF CallsOK
    <3>2. CASE calls'[n] = calls[n]
      BY <3>1, <3>2 DEF SameCall
    <3>3. CASE calls'[n] = [calls[n] EXCEPT !.dead = TRUE, !.listed = FALSE]
      BY <3>1, <3>3 DEF SameCall, CallT, CallOK
    <3> QED BY <3>2, <3>3 DEF Died
  <2>4. calls' \in Seq(CallT) /\ DOMAIN calls' = DOMAIN calls
    BY ONLY <2>1, <2>2, <2>3, CallsTyped DEF SameCall
  <2>5. LessHash(serv, serv') /\ GoneFrom(serv', {})
    BY <1>1, <1>2 DEF LessHash, GoneFrom
  <2>6. Changed(calls, calls', {})
    BY <2>3, <2>4 DEF Changed
  <2> QED BY <2>1, <2>4, <2>5, <2>6, ChangedGood
<1>8. config' \in Configs /\ config' = config /\ up' \in SUBSET Procs
        /\ todo' \in [Procs -> SUBSET TodoT]
  BY DEF Inv, TypeOK, Died
<1> QED BY <1>1, <1>4, <1>5, <1>6, <1>7, <1>8 DEF Inv, TypeOK

\* Steps that change neither entries nor calls and no connection but quietly.
LEMMA InvQuiet ==
  ASSUME Inv, UNCHANGED <<config, serv, calls>>, QuietConns(config, conns, conns'),
         up' \in SUBSET Procs, todo' \in [Procs -> SUBSET TodoT]
  PROVE  Inv'
<1>1. NetOK(config, conns', serv) /\ conns' \in ConnsT
  <2>1. serv \in ServsT /\ NetOK(config, conns, serv)
    BY DEF Inv, TypeOK
  <2>2. conns' \in ConnsT
    BY DEF QuietConns
  <2> QED BY <2>1, <2>2, QuietGood
<1>2. NetOK(config', conns', serv') /\ WaitOK(config', serv') /\ CallsOK(calls', serv')
  BY <1>1 DEF Inv
<1>3. TypeOK'
  BY <1>1 DEF Inv, TypeOK
<1> QED BY <1>2, <1>3 DEF Inv

LEMMA QuietSelf ==
  ASSUME NEW cf, NEW cs \in ConnsT
  PROVE  QuietConns(cf, cs, cs)
BY DEF QuietConns, Quiet

\* The entry that iwhen_conn_closed leaves, with h in rpc_hash.
ClosedServ(p, q, s, h) == [ResetServ(p, q, s) EXCEPT !.hash = h]

LEMMA ResetServIs ==
  ASSUME NEW p \in Procs, NEW q \in Procs, NEW s \in ServT, NEW h \in HashT,
         NEW t, t = ClosedServ(p, q, s, h)
  PROVE  /\ t \in ServT /\ t.conn = NULL /\ ~t.est /\ t.hash = h /\ t.req = s.req
         /\ t.list = "conn" => q \in config /\ p > q
<1> DEFINE l == IF q \in config /\ DoIConnHim(p, q) THEN "conn" ELSE "none"
<1>1. t = [est |-> FALSE, conn |-> NULL, req |-> s.req, hash |-> h, list |-> l]
  BY DEF ClosedServ, ResetServ, ServT
<1>2. l \in Lists /\ (l = "conn" => q \in config /\ p > q)
  BY DEF Lists, DoIConnHim
<1> HIDE DEF l
<1>3. PICK x \in BOOLEAN : x = FALSE
  OBVIOUS
<1>4. t = ServOf(x, NULL, s.req, h, l)
  BY <1>1, <1>3 DEF ServOf
<1>5. NULL \in ConnIds
  BY DEF ConnIds
<1>6. s.req \in Nat
  BY DEF ServT
<1>7. t \in ServT /\ t.est = x /\ t.conn = NULL /\ t.hash = h /\ t.list = l /\ t.req = s.req
  BY ONLY <1>2, <1>4, <1>5, <1>6, x \in BOOLEAN, h \in HashT, ServOfType
<1> QED BY <1>2, <1>3, <1>7

\* The parts of Inv that a step needs.
LEMMA InvParts ==
  ASSUME Inv
  PROVE  /\ config \in Configs /\ up \in SUBSET Procs /\ serv \in ServsT /\ conns \in ConnsT
         /\ calls \in Seq(CallT) /\ todo \in [Procs -> SUBSET TodoT]
         /\ NetOK(config, conns, serv) /\ WaitOK(config, serv) /\ CallsOK(calls, serv)
BY DEF Inv, TypeOK

\* iwhen_conn_closed where no callback kills the process.
Torn(p, k, e, cs, ca) ==
  LET q == conns[k].ends[Other(e)]
      s == serv[p][q]
  IN /\ conns' = [cs EXCEPT ![k] = Shut(@, e)]
     /\ IF conns[k].udata[e]
          THEN /\ serv' = [serv EXCEPT ![p][q] = [ResetServ(p, q, s) EXCEPT !.hash = IF s.est THEN {} ELSE @]]
               /\ calls' = IF s.est THEN ClosedCalls(ca, s.hash) ELSE ca
          ELSE calls' = ca /\ UNCHANGED serv
     /\ UNCHANGED <<config, up, todo, joined, died, broken, faults>>

LEMMA ClosedCases ==
  ASSUME NEW p, NEW k, NEW e, NEW cs, NEW ca, WhenConnClosed(p, k, e, cs, ca)
  PROVE  Torn(p, k, e, cs, ca) \/ Died(p, cs)
BY Zenon DEF WhenConnClosed, Torn

\* The entry that a close leaves.
LEMMA TornServ ==
  ASSUME NEW p, NEW k, NEW e, NEW cs, NEW ca, NEW q, NEW s \in ServT, NEW h,
         q = conns[k].ends[Other(e)], s = serv[p][q], h = IF s.est THEN {} ELSE s.hash,
         Torn(p, k, e, cs, ca), conns[k].udata[e]
  PROVE  serv' = Put(serv, p, q, ClosedServ(p, q, s, h))
<1> DEFINE R == ResetServ(p, q, s)
<1>1. serv' = [serv EXCEPT ![p][q] = [R EXCEPT !.hash = IF s.est THEN {} ELSE R.hash]]
  BY ZenonT(30) DEF Torn
<1>2. R.hash = s.hash
  BY SMTT(30) DEF ResetServ, ServT
<1>3. h = IF s.est THEN {} ELSE R.hash
  BY <1>2, Zenon
<1> QED BY ONLY <1>1, <1>3, ZenonT(30) DEF Put, ClosedServ

LEMMA InvTorn ==
  ASSUME Inv, NEW k \in Slots, NEW e \in Ends, conns[k].open[e],
         NEW cs, QuietConns(config, conns, cs), NEW ca, NEW ns, Back(calls, ca, ns),
         ns \subseteq serv[conns[k].ends[e]][conns[k].ends[Other(e)]].hash, ns = {} => ca = calls,
         ns # {} => conns[k].udata[e] /\ serv[conns[k].ends[e]][conns[k].ends[Other(e)]].est,
         Torn(conns[k].ends[e], k, e, cs, ca)
  PROVE  Inv'
<1> DEFINE c == conns[k]
           p == c.ends[e]
           q == c.ends[Other(e)]
           s == serv[p][q]
           h == IF s.est THEN {} ELSE s.hash
<1>1. /\ serv \in ServsT /\ conns \in ConnsT /\ calls \in Seq(CallT)
      /\ NetOK(config, conns, serv) /\ WaitOK(config, serv) /\ CallsOK(calls, serv)
  BY DEF Inv, TypeOK
<1>2. p \in Procs /\ q \in Procs /\ p # q
  <2>1. ConnOK(config, c)
    BY <1>1 DEF NetOK, SlotsOK
  <2> QED BY <2>1, EndProcs
<1>3. cs \in ConnsT /\ NetOK(config, cs, serv)
  <2>1. cs \in ConnsT
    BY DEF QuietConns
  <2> QED BY <1>1, <2>1, QuietGood
<1>4. cs[k] \in ConnT /\ ConnOK(config, cs[k]) /\ cs[k].open[e] /\ cs[k].udata[e] = c.udata[e]
        /\ p = cs[k].ends[e] /\ q = cs[k].ends[Other(e)]
  BY <1>3 DEF QuietConns, Quiet, ConnsT, NetOK, SlotsOK
<1>5. Shut(cs[k], e) \in ConnT /\ ClosedEnd(cs[k], Shut(cs[k], e), e)
  BY <1>4, ShutClosed, SMTT(30)
<1>6. conns' = [cs EXCEPT ![k] = Shut(cs[k], e)]
  BY DEF Torn
<1>7. OnlySlot(cs, conns', k) /\ ClosedEnd(cs[k], conns'[k], e)
  BY <1>3, <1>5, <1>6 DEF OnlySlot, ConnsT
<1>8. s \in ServT /\ s.hash \in HashT /\ h \in HashT
  BY <1>1, <1>2, ServTypes, SMTT(30) DEF HashT
<1>a. /\ c.udata[e] => /\ serv' = Put(serv, p, q, ClosedServ(p, q, s, h))
                        /\ calls' = IF s.est THEN ClosedCalls(ca, s.hash) ELSE ca
      /\ ~c.udata[e] => serv' = serv /\ calls' = ca
      /\ config' = config /\ up' = up /\ todo' = todo
  <2>1. ASSUME c.udata[e]
        PROVE  serv' = Put(serv, p, q, ClosedServ(p, q, s, h))
    BY <2>1, <1>8, TornServ, ZenonT(30)
  <2>2. ASSUME c.udata[e]
        PROVE  calls' = IF s.est THEN ClosedCalls(ca, s.hash) ELSE ca
    BY <2>2, ZenonT(30) DEF Torn
  <2>3. /\ ~c.udata[e] => serv' = serv /\ calls' = ca
        /\ config' = config /\ up' = up /\ todo' = todo
    BY ZenonT(30) DEF Torn
  <2> QED BY <2>1, <2>2, <2>3, SMTT(30)
<1>b. h \subseteq s.hash /\ (s.est => h = {})
  OBVIOUS
<1> HIDE DEF p, q, h
<1>9. CASE c.udata[e]
  <2> DEFINE t == ClosedServ(p, q, s, h)
  <2>1. serv' = Put(serv, p, q, t)
    BY <1>9, <1>a
  <2>2. /\ t \in ServT /\ t.conn = NULL /\ ~t.est /\ t.hash = h
        /\ t.list = "conn" => q \in config /\ p > q
    <3> HIDE DEF s
    <3> QED BY ONLY <1>2, <1>8, ResetServIs
  <2> HIDE DEF t
  <2>3. OnlyEntry(serv, serv', p, q) /\ serv'[p][q] = t
    BY ONLY <1>1, <1>2, <2>1, <2>2, ServPut
  <2>4. NetOK(config, conns', serv')
    <3>1. cs[k].udata[e] => serv'[p][q].conn = NULL /\ ~serv'[p][q].est
      BY <2>2, <2>3
    <3>2. cs[k].udata[e]
      BY <1>4, <1>9
    <3>3. Closes(cs, conns', serv, serv', k, e, p, q)
      BY <1>4, <1>7, <2>3, <3>1, <3>2 DEF Closes
    <3> QED BY ONLY <1>1, <1>2, <1>3, <3>3, k \in Slots, e \in Ends, CloseGood
  <2>5. WaitOK(config, serv')
    BY ONLY <1>1, <1>2, <2>2, <2>3, WaitPut
  <2>6. LessHash(serv, serv')
    BY <1>2, <1>b, <2>2, <2>3, LessHashPut
  <2>7. calls' \in Seq(CallT) /\ CallsOK(calls', serv')
    <3>1. CASE s.est
      <4>1. calls' = ClosedCalls(ca, s.hash)
        BY <1>9, <3>1, <1>a
      <4>2. \A n \in s.hash : n \in DOMAIN calls /\ ~calls[n].freed /\ calls[n].from = p /\ calls[n].to = q
        BY <1>1, <1>2 DEF CallsOK, HashOK
      <4>4. ASSUME NEW n \in DOMAIN calls
            PROVE  /\ calls'[n] \in CallT
                   /\ SameCall(calls[n], calls'[n]) /\ CallOK(calls'[n])
                   /\ calls'[n].freed => calls[n].freed \/ n \in s.hash
        <5>1. calls[n] \in CallT /\ ca[n] \in CallT /\ CallOK(calls[n]) /\ n \in DOMAIN ca
          BY <1>1 DEF Back, CallsOK
        <5>2. CASE n \in s.hash
          <6>1. calls'[n] = [ca[n] EXCEPT !.backs = @ + 1, !.freed = TRUE, !.closed = TRUE]
            BY <4>1, <5>1, <5>2, ZenonT(30) DEF ClosedCalls
          <6>2. calls'[n] \in CallT
            BY <5>1, <6>1, CallPut
          <6>3. SameCall(calls[n], ca[n]) /\ ca[n].backs <= 1 /\ (ca[n].listed => ca[n].backs = 0)
            <7>1. ~calls[n].freed /\ calls[n].backs = 0
              BY <4>2, <5>1, <5>2 DEF CallOK
            <7>2. CASE n \in ns
              <8>1. CalledBack(calls[n], ca[n])
                BY <7>2 DEF Back
              <8> QED BY <7>1, <8>1 DEF CalledBack
            <7>3. CASE n \notin ns
              <8>1. ca[n] = calls[n]
                BY <7>3 DEF Back
              <8> QED BY <5>1, <7>1, <8>1 DEF SameCall
            <7> QED BY <7>2, <7>3
          <6>4. /\ calls'[n].from = ca[n].from /\ calls'[n].to = ca[n].to /\ calls'[n].req = ca[n].req
                /\ calls'[n].backs = ca[n].backs + 1 /\ calls'[n].listed = ca[n].listed
                /\ calls'[n].freed = TRUE /\ calls'[n].closed = TRUE
            BY <5>1, <6>1 DEF CallT
          <6>5. ca[n].backs \in Nat
            BY <5>1 DEF CallT
          <6> QED BY <5>2, <6>2, <6>3, <6>4, <6>5 DEF SameCall, CallOK
        <5>3. CASE n \notin s.hash
          <6>1. n \notin ns
            BY <5>3, SMTT(40) DEF p, q
          <6>2. calls'[n] = calls[n]
            BY <4>1, <5>1, <5>3, <6>1, ZenonT(60) DEF ClosedCalls, Back
          <6> QED BY <5>1, <6>2 DEF SameCall
        <5> QED BY <5>2, <5>3
      <4>5. calls' = [n \in DOMAIN calls |-> calls'[n]]
        BY <4>1 DEF ClosedCalls, Back
      <4>6. calls' \in Seq(CallT) /\ DOMAIN calls' = DOMAIN calls
        BY ONLY <1>1, <4>4, <4>5, CallsTyped
      <4>7. ASSUME NEW x \in Procs, NEW y \in Procs
            PROVE  serv'[x][y].hash \cap s.hash = {}
        <5>1. CASE x = p /\ y = q
          BY <5>1, <3>1, <2>2, <2>3, <1>b
        <5>2. CASE ~(x = p /\ y = q)
          <6>1. serv'[x][y] = serv[x][y]
            BY <5>2, <2>3 DEF OnlyEntry
          <6>2. \A n \in serv[x][y].hash : calls[n].from = x /\ calls[n].to = y
            BY <1>1 DEF CallsOK, HashOK
          <6> QED BY <6>1, <6>2, <4>2, <5>2
        <5> QED BY <5>1, <5>2
      <4>8. Changed(calls, calls', s.hash) /\ GoneFrom(serv', s.hash)
        BY <4>4, <4>6, <4>7 DEF Changed, GoneFrom
      <4> HIDE DEF s
      <4>9. CallsOK(calls', serv')
        BY ONLY <1>1, <2>6, <4>8, ChangedGood
      <4> QED BY <4>6, <4>9
    <3>2. CASE ~s.est
      <4>1. calls' = calls
        BY <1>9, <3>2, <1>a DEF p, q
      <4> QED BY <1>1, <2>6, <4>1, LessHashGood
    <3> QED BY <3>1, <3>2
  <2>8. config' = config /\ up' = up /\ todo' = todo
    BY <1>a
  <2> QED BY <1>7, <2>3, <2>4, <2>5, <2>7, <2>8 DEF Inv, TypeOK, OnlySlot, OnlyEntry
<1>10. CASE ~c.udata[e]
  <2>1. serv' = serv /\ calls' = calls /\ config' = config /\ up' = up /\ todo' = todo
    BY <1>10, <1>a
  <2>2. OnlyEntry(serv, serv, p, q)
    BY <1>1 DEF OnlyEntry
  <2>3. NetOK(config, conns', serv)
    <3>1. Closes(cs, conns', serv, serv, k, e, p, q)
      BY <1>4, <1>7, <1>10, <2>2 DEF Closes
    <3> QED BY ONLY <1>1, <1>2, <1>3, <3>1, k \in Slots, e \in Ends, CloseGood
  <2>4. conns' \in ConnsT
    BY <1>7 DEF OnlySlot
  <2> QED BY <2>1, <2>3, <2>4 DEF Inv, TypeOK
<1> QED BY <1>9, <1>10

LEMMA InvClosed ==
  ASSUME Inv, NEW k \in Slots, NEW e \in Ends, conns[k].open[e],
         NEW cs, QuietConns(config, conns, cs), NEW ca, NEW ns, Back(calls, ca, ns),
         ns \subseteq serv[conns[k].ends[e]][conns[k].ends[Other(e)]].hash, ns = {} => ca = calls,
         ns # {} => conns[k].udata[e] /\ serv[conns[k].ends[e]][conns[k].ends[Other(e)]].est,
         WhenConnClosed(conns[k].ends[e], k, e, cs, ca)
  PROVE  Inv'
<1> DEFINE p == conns[k].ends[e]
<1>1. CASE Torn(p, k, e, cs, ca)
  BY <1>1, InvTorn
<1>2. CASE Died(p, cs)
  <2>1. serv \in ServsT /\ NetOK(config, conns, serv)
    BY InvParts
  <2>2. p \in Procs
    <3>1. ConnOK(config, conns[k])
      BY <2>1 DEF NetOK, SlotsOK
    <3> QED BY <3>1, EndProcs
  <2>3. cs \in ConnsT
    BY DEF QuietConns
  <2>4. NetOK(config, cs, serv)
    BY ONLY <2>1, <2>3, QuietConns(config, conns, cs), QuietGood
  <2> HIDE DEF p
  <2> QED BY ONLY Inv, <1>2, <2>2, <2>3, <2>4, InvDied
<1> QED BY <1>1, <1>2, ClosedCases

\* The same when nobody is in the middle of a callback.
LEMMA InvClosedPlain ==
  ASSUME Inv, NEW k \in Slots, NEW e \in Ends, conns[k].open[e],
         NEW cs, QuietConns(config, conns, cs), WhenConnClosed(conns[k].ends[e], k, e, cs, calls)
  PROVE  Inv'
<1>1. Back(calls, calls, {})
  BY InvParts, NoneBack
<1> QED BY <1>1, InvClosed

\* s_net_send through an entry that has a connection is from the end held for it.
LEMMA EndHeld ==
  ASSUME Inv, NEW a \in Procs, NEW b \in Procs, a # b, NEW k, k = serv[a][b].conn, k # NULL
  PROVE  k \in Slots /\ EndOf(a, k) \in Ends /\ Held(conns[k], a, b, EndOf(a, k))
<1>1. serv \in ServsT /\ conns \in ConnsT /\ NetOK(config, conns, serv)
  BY InvParts
<1>2. k \in Slots
  BY <1>1, ServTypes
<1>3. PICK f \in Ends : Held(conns[k], a, b, f)
  BY <1>1 DEF NetOK, Entries, EntryOK
<1>4. EndOf(a, k) = f
  BY <1>3 DEF EndOf, Held, Ends, Other
<1> QED BY <1>2, <1>3, <1>4

LEMMA InvClosedInside ==
  ASSUME Inv, NEW p \in Procs, NEW q \in Procs, NEW cs, QuietConns(config, conns, cs),
         NEW ca, NEW ns, Back(calls, ca, ns), ns \subseteq serv[p][q].hash, ns # {},
         ClosedInside(p, q, cs, ca)
  PROVE  Inv'
<1> DEFINE k == serv[p][q].conn
           e == EndOf(p, k)
<1>1. serv[p][q].est /\ k # NULL /\ (WhenConnClosed(p, k, e, cs, ca) \/ Died(p, cs))
  BY Zenon DEF ClosedInside
<1>2. p # q
  BY <1>1, InvParts DEF WaitOK
<1>3. k \in Slots /\ e \in Ends /\ Held(conns[k], p, q, e)
  BY <1>1, <1>2, EndHeld
<1> HIDE DEF k, e
<1>4. CASE WhenConnClosed(p, k, e, cs, ca)
  <2>1. conns[k].ends[e] = p /\ conns[k].ends[Other(e)] = q /\ conns[k].open[e] /\ conns[k].udata[e]
    BY <1>3 DEF Held
  <2> QED BY <1>1, <1>3, <1>4, <2>1, InvClosed
<1>5. CASE Died(p, cs)
  <2>1. cs \in ConnsT /\ serv \in ServsT /\ NetOK(config, conns, serv)
    BY InvParts DEF QuietConns
  <2>2. NetOK(config, cs, serv)
    BY ONLY <2>1, QuietConns(config, conns, cs), QuietGood
  <2> QED BY ONLY Inv, p \in Procs, <1>5, <2>1, <2>2, InvDied
<1> QED BY <1>1, <1>4, <1>5

\* Steps of p that change its entry of q.
LEMMA InvEntry ==
  ASSUME Inv, UNCHANGED <<config, up, calls, todo>>, conns' \in ConnsT,
         NEW p \in Procs, NEW q \in Procs, OnlyEntry(serv, serv', p, q),
         NetOK(config, conns', serv'), p = q => ~serv'[p][q].est,
         serv'[p][q].list # "conn", serv'[p][q].hash \subseteq serv[p][q].hash
  PROVE  Inv'
<1>1. WaitOK(config, serv')
  BY InvParts, WaitPut
<1>2. CallsOK(calls, serv')
  BY InvParts, LessHashPut, LessHashGood
<1>3. serv' \in ServsT
  BY DEF OnlyEntry
<1> QED BY <1>1, <1>2, <1>3 DEF Inv, TypeOK

LEMMA InvDials ==
  ASSUME Inv, NEW p \in Procs, NEW q \in Procs, p # q, FreeSlots # {},
         config # {} => p > q /\ q \in config, config = Procs => serv[p][q].conn = NULL,
         conns' = Connected(p, q).conns,
         serv' = [serv EXCEPT ![p][q] = [@ EXCEPT !.conn = Connected(p, q).slot, !.list = "identify"]],
         UNCHANGED <<config, up, calls, todo>>
  PROVE  Inv'
<1> DEFINE k == Connected(p, q).slot
           s == serv[p][q]
           t == DialServ(s, k)
<1>0. s \in ServT
  BY InvParts, ServTypes
<1>1. k \in Slots /\ conns[k] = NoConn /\ OnlySlot(conns, conns', k) /\ Dialed(conns'[k], p, q)
  BY InvParts, ConnectedDials
<1>2. serv' = Put(serv, p, q, t)
  BY DEF Put, DialServ
<1> HIDE DEF k, t
<1>3. k \in ConnIds
  BY <1>1 DEF ConnIds
<1>6. t \in ServT /\ t.est = s.est /\ t.conn = k /\ t.hash = s.hash /\ t.list # "conn"
  BY ONLY <1>0, <1>3, DialServIs DEF t
<1>a. serv \in ServsT /\ conns \in ConnsT /\ NetOK(config, conns, serv)
  BY InvParts
<1>7. OnlyEntry(serv, serv', p, q) /\ serv'[p][q] = t
  BY ONLY <1>a, <1>2, <1>6, p \in Procs, q \in Procs, ServPut
<1>8. EndsOK(config, conns'[k])
  BY <1>1 DEF EndsOK, Dialed
<1>9. DialsSlot(config, conns, conns', serv, serv', k, p, q)
  BY <1>1, <1>6, <1>7, <1>8 DEF DialsSlot
<1>10. NetOK(config, conns', serv') /\ conns' \in ConnsT
  <2>1. NetOK(config, conns', serv')
    BY ONLY <1>a, <1>1, <1>9, p \in Procs, q \in Procs, DialGood
  <2> QED BY <1>1, <2>1 DEF OnlySlot
<1> QED BY <1>6, <1>7, <1>10, InvEntry

LEMMA InvCheckList ==
  ASSUME Inv, NEW p \in Procs, NEW q \in Procs, CheckList(p, q)
  PROVE  Inv'
<1>1. serv[p][q].conn = NULL /\ q \in config /\ p > q
  BY InvParts DEF CheckList, WaitOK
<1>2. p # q
  BY <1>1, ProcsAssumption
<1> QED BY <1>1, <1>2, InvDials DEF CheckList

LEMMA InvServgConnect ==
  ASSUME Inv, NEW p \in Procs, NEW q \in Procs, ServgConnect(p, q)
  PROVE  Inv'
<1>1. CASE q \in up
  <2>1. config = {} /\ config # Procs
    BY DEF ServgConnect
  <2> QED BY <1>1, <2>1, InvDials DEF ServgConnect
<1>2. CASE q \notin up
  <2>1. Died(p, conns)
    BY <1>2 DEF ServgConnect
  <2> QED BY <2>1, InvParts, InvDied
<1> QED BY <1>1, <1>2

LEMMA QuietTrans ==
  ASSUME NEW cf, NEW cs, NEW ds, NEW es, QuietConns(cf, cs, ds), QuietConns(cf, ds, es)
  PROVE  QuietConns(cf, cs, es)
BY DEF QuietConns, Quiet

PutUdata(cs, k, e) == [cs EXCEPT ![k].udata[e] = TRUE]

UdataSet(cs, ds, k, e) ==
  /\ OnlySlot(cs, ds, k)
  /\ ds[k].ends = cs[k].ends /\ ds[k].open = cs[k].open /\ ds[k].chan = cs[k].chan
  /\ ds[k].udata[e] = TRUE
  /\ \A f \in Ends : f # e => ds[k].udata[f] = cs[k].udata[f]

LEMMA SetUdata ==
  ASSUME NEW cs \in ConnsT, NEW k \in Slots, NEW e \in Ends, NEW ds, ds = PutUdata(cs, k, e)
  PROVE  UdataSet(cs, ds, k, e)
<1> DEFINE u == [cs[k].udata EXCEPT ![e] = TRUE]
<1>1. cs[k] \in ConnT
  BY DEF ConnsT
<1>2. ds[k] = [cs[k] EXCEPT !.udata = u]
  BY DEF ConnsT, PutUdata
<1>3. u \in FlagsT /\ u[e] = TRUE /\ \A f \in Ends : f # e => u[f] = cs[k].udata[f]
  BY <1>1, ConnFields DEF FlagsT
<1> HIDE DEF u
<1>4. ds[k] = ConnOf(cs[k].ends, cs[k].open, u, cs[k].missed, cs[k].chan)
  <2>1. cs[k] = ConnOf(cs[k].ends, cs[k].open, cs[k].udata, cs[k].missed, cs[k].chan)
    BY ONLY <1>1, ConnFields
  <2> QED BY ONLY <1>2, <2>1 DEF ConnOf
<1>5. ds[k] \in ConnT /\ ds[k].ends = cs[k].ends /\ ds[k].open = cs[k].open /\ ds[k].udata = u
        /\ ds[k].chan = cs[k].chan
  BY ONLY <1>1, <1>3, <1>4, ConnFields, ConnOfType
<1>6. ds \in ConnsT /\ \A j \in Slots : j # k => ds[j] = cs[j]
  BY <1>5 DEF ConnsT, PutUdata
<1> QED BY <1>3, <1>5, <1>6 DEF OnlySlot, UdataSet

LEMMA AcceptedConns ==
  ASSUME NEW cs \in ConnsT, NEW k \in Slots, NEW e \in Ends, e = 2, NEW ds,
         ds = Send(PutUdata(cs, k, e), k, e, IdentifyBack(1))
  PROVE  OnlySlot(cs, ds, k) /\ Accepted(cs[k], ds[k])
<1> DEFINE cu == PutUdata(cs, k, e)
           x == IdentifyBack(1)
<1>1. 1 \in Ends /\ x \in Pkts /\ x.ret = 1
  BY PktsAre DEF Ends
<1>2. UdataSet(cs, cu, k, e)
  BY SetUdata
<1>3. cu \in ConnsT
  BY <1>2 DEF UdataSet, OnlySlot
<1> HIDE DEF cu, x
<1>4. OnlySent(cu, ds, k, x)
  BY <1>1, <1>3, SendSent DEF cu, x
<1>5. Accepted(cs[k], ds[k])
  BY <1>1, <1>2, <1>4 DEF OnlySent, Accepted, UdataSet
<1> QED BY <1>2, <1>4, <1>5 DEF OnlySent, OnlySlot, UdataSet

LEMMA InvHandleIdentify ==
  ASSUME Inv, NEW k \in Slots, NEW e \in Ends, conns[k].open[e], ~conns[k].udata[e],
         NEW cs, QuietConns(config, conns, cs),
         HandleIdentify(conns[k].ends[e], conns[k].ends[Other(e)], k, e, cs)
  PROVE  Inv'
<1> DEFINE c == conns[k]
           p == c.ends[e]
           q == c.ends[Other(e)]
<1>1. serv \in ServsT /\ NetOK(config, conns, serv) /\ config \in Configs /\ up \in SUBSET Procs
        /\ todo \in [Procs -> SUBSET TodoT]
  BY InvParts
<1>2. ConnOK(config, c)
  BY <1>1 DEF NetOK, SlotsOK
<1>3. p \in Procs /\ q \in Procs /\ p # q /\ EndsOK(config, c)
  BY <1>2, EndProcs
<1>4. e = 2 /\ Other(e) = 1
  BY <1>2, OtherEnd DEF ConnOK, Ends
<1>5. cs \in ConnsT /\ NetOK(config, cs, serv)
  <2>1. cs \in ConnsT
    BY DEF QuietConns
  <2> QED BY <1>1, <2>1, QuietGood
<1>6. cs[k].open[2] /\ ~cs[k].udata[2] /\ p = cs[k].ends[2] /\ q = cs[k].ends[1]
  BY <1>4 DEF QuietConns, Quiet
<1>a. /\ Accepts(p, q) => /\ serv' = [serv EXCEPT ![p][q] = [est |-> TRUE, conn |-> k, req |-> 1, hash |-> {},
                                                           list |-> "ping"]]
                         /\ conns' = Send(PutUdata(cs, k, e), k, e, IdentifyBack(1))
      /\ ~Accepts(p, q) => conns' = Send(cs, k, e, IdentifyBack(0)) /\ serv' = serv
      /\ UNCHANGED <<config, up, calls, todo>>
  BY DEF HandleIdentify, PutUdata
<1>b. Accepts(p, q) <=> (q \in config => ~serv[p][q].est)
  BY DEF Accepts
<1> HIDE DEF p, q
<1>7. CASE Accepts(p, q)
  <2> DEFINE t == [est |-> TRUE, conn |-> k, req |-> 1, hash |-> {}, list |-> "ping"]
  <2>1. serv' = Put(serv, p, q, t)
    BY <1>7, <1>a DEF Put
  <2>2. t \in ServT /\ t.est = TRUE /\ t.conn = k /\ t.hash = {} /\ t.list = "ping"
    <3>1. PICK x \in BOOLEAN, h \in HashT, l \in Lists : x = TRUE /\ h = {} /\ l = "ping"
      BY ListsAre DEF HashT
    <3>2. t = ServOf(x, k, 1, h, l)
      BY <3>1 DEF ServOf
    <3>3. k \in ConnIds /\ 1 \in Nat
      BY DEF ConnIds
    <3> HIDE DEF t
    <3>4. t \in ServT
      BY ONLY <3>2, <3>3, x \in BOOLEAN, h \in HashT, l \in Lists, ServOfType
    <3> QED BY <3>4 DEF t
  <2> HIDE DEF t
  <2>3. OnlyEntry(serv, serv', p, q) /\ serv'[p][q] = t
    BY ONLY <1>1, <1>3, <2>1, <2>2, ServPut
  <2>4. OnlySlot(cs, conns', k) /\ Accepted(cs[k], conns'[k])
    BY <1>4, <1>5, <1>7, <1>a, AcceptedConns
  <2>5. config = Procs => ~serv[p][q].est
    BY <1>3, <1>7, <1>b
  <2>6. AcceptsSlot(config, cs, conns', serv, serv', k, p, q)
    BY <1>6, <2>2, <2>3, <2>4, <2>5 DEF AcceptsSlot
  <2>7. NetOK(config, conns', serv') /\ conns' \in ConnsT
    <3>1. NetOK(config, conns', serv')
      BY ONLY <1>1, <1>3, <1>5, <2>6, k \in Slots, AcceptGood
    <3> QED BY <3>1, <2>4 DEF OnlySlot
  <2>8. serv'[p][q].list # "conn" /\ serv'[p][q].hash \subseteq serv[p][q].hash
    BY <2>2, <2>3, ListsAre
  <2> QED BY ONLY Inv, <1>a, <1>3, <2>3, <2>7, <2>8, InvEntry
<1>8. CASE ~Accepts(p, q)
  <2>1. q \in config
    BY <1>8, <1>b
  <2>2. p \in config
    BY <2>1, <1>3, <1>4 DEF EndsOK, p
  <2>3. config = Procs
    BY <1>1, <1>3, <2>1, <2>2, ConfigKinds
  <2> DEFINE x == IdentifyBack(0)
  <2>4. x \in Pkts /\ x.ret = 0
    BY PktsAre
  <2>5. OnlySent(cs, conns', k, x)
    BY <1>5, <1>8, <1>a, <2>4, SendSent
  <2> HIDE DEF x
  <2>6. QuietConns(config, cs, conns')
    BY <1>5, <2>3, <2>4, <2>5, SentQuiet
  <2>7. QuietConns(config, conns, conns')
    BY <2>6, QuietTrans
  <2> QED BY <1>1, <1>8, <1>a, <2>7, InvQuiet
<1> QED BY <1>7, <1>8

LEMMA InvIdentifyBack ==
  ASSUME Inv, NEW k \in Slots, NEW e \in Ends, conns[k].open[e], conns[k].udata[e],
         conns[k].chan[e] # <<>>, NEW x, x = Head(conns[k].chan[e]), x.type = "back",
         NEW cs, QuietConns(config, conns, cs),
         HandleIdentifyBack(conns[k].ends[e], conns[k].ends[Other(e)], cs, x.ret)
  PROVE  Inv'
<1> DEFINE c == conns[k]
           p == c.ends[e]
           q == c.ends[Other(e)]
           s == serv[p][q]
<1>1. serv \in ServsT /\ conns \in ConnsT /\ NetOK(config, conns, serv)
  BY InvParts
<1>2. ConnOK(config, c) /\ c \in ConnT
  BY <1>1 DEF NetOK, SlotsOK, ConnsT
<1>3. p \in Procs /\ q \in Procs /\ p # q /\ EndsOK(config, c)
  BY <1>2, EndProcs
<1>4. cs \in ConnsT
  BY DEF QuietConns
<1>5. c.chan[e] \in Seq(Pkts)
  BY <1>2, ConnFields DEF ChansT
<1>6. x \in Pkts /\ HasBack(c.chan[e], x.ret)
  BY <1>5, TailBack
<1>7. x.ret \in {0, 1}
  BY <1>6, PktKinds
<1>8. CASE x.ret = 1
  <2> DEFINE t == EstServ(s)
  <2>1. serv' = Put(serv, p, q, t) /\ conns' = cs /\ UNCHANGED <<config, up, calls, todo>>
    BY <1>8 DEF HandleIdentifyBack, Put, EstServ
  <2>2. s \in ServT
    BY <1>1, <1>3, ServTypes
  <2>3. t \in ServT /\ t.est = TRUE /\ t.conn = s.conn /\ t.hash = {} /\ t.list # "conn"
    <3> HIDE DEF s
    <3> QED BY ONLY <2>2, EstServIs
  <2> HIDE DEF t, p, q
  <2>4. OnlyEntry(serv, serv', p, q) /\ serv'[p][q] = t
    BY ONLY <1>1, <1>3, <2>1, <2>3, ServPut
  <2>5. EstablishesSlot(conns, serv, serv', k, e, p, q)
    BY <1>6, <1>8, <2>3, <2>4 DEF EstablishesSlot, p, q
  <2>6. NetOK(config, conns, serv')
    BY ONLY <1>1, <1>3, <2>5, k \in Slots, e \in Ends, EstablishedGood
  <2>7. NetOK(config, conns', serv') /\ conns' \in ConnsT
    <3>1. serv' \in ServsT
      BY <2>4 DEF OnlyEntry
    <3>2. NetOK(config, cs, serv')
      BY ONLY <3>1, <2>6, <1>4, QuietConns(config, conns, cs), QuietGood
    <3> QED BY <2>1, <3>2, <1>4
  <2>8. serv'[p][q].list # "conn" /\ serv'[p][q].hash \subseteq serv[p][q].hash
    BY <2>3, <2>4
  <2> QED BY ONLY Inv, <1>3, <2>1, <2>4, <2>7, <2>8, InvEntry
<1>9. CASE x.ret = 0
  <2>1. config = Procs
    BY <1>2, <1>6, <1>9 DEF ConnOK
  <2>2. Linked(c, serv, k)
    BY <1>1, <2>1, SMTT(30) DEF NetOK, Links
  <2>3. serv[p][q].conn = k
    BY <2>2 DEF Linked, Entry
  <2>4. EndOf(p, k) = e
    BY <1>3, OtherEnd DEF EndOf, EndsOK, Ends, Other
  <2>5. WhenConnClosed(p, k, e, cs, calls)
    BY <1>9, <2>3, <2>4 DEF HandleIdentifyBack
  <2> QED BY <2>5, InvClosedPlain
<1> QED BY <1>7, <1>8, <1>9

LEMMA InvRpcRet ==
  ASSUME Inv, NEW p \in Procs, NEW q \in Procs, NEW t \in TodoT, NEW cs,
         QuietConns(config, conns, cs), RpcRet(p, q, t, cs)
  PROVE  Inv'
<1> DEFINE k == serv[p][q].conn
           x == [type |-> "ret", call |-> t.call, req |-> t.req]
<1>1. cs \in ConnsT /\ NetOK(config, cs, serv)
  <2>1. cs \in ConnsT
    BY DEF QuietConns
  <2> QED BY <2>1, InvParts, QuietGood
<1>2. CASE k = NULL
  BY <1>1, <1>2, InvDied DEF RpcRet
<1>3. CASE k # NULL
  <2>1. k \in Slots
    BY <1>3, InvParts, ServTypes
  <2>2. EndOf(p, k) \in Ends
    BY DEF EndOf, Ends
  <2>3. x \in Pkts /\ x.type # "back"
    BY PktsAre DEF TodoT
  <2>4. conns' = Send(cs, k, EndOf(p, k), x) /\ UNCHANGED <<config, up, serv, calls>>
          /\ todo' = [todo EXCEPT ![p] = @ \ {t}]
    BY <1>3 DEF RpcRet
  <2> HIDE DEF x, k
  <2>5. OnlySent(cs, conns', k, x)
    BY <1>1, <2>1, <2>2, <2>3, <2>4, SendSent
  <2>6. QuietConns(config, cs, conns')
    BY <1>1, <2>1, <2>3, <2>5, SentQuiet
  <2>7. QuietConns(config, conns, conns')
    BY <2>6, QuietTrans
  <2>8. up \in SUBSET Procs /\ todo' \in [Procs -> SUBSET TodoT]
    BY <2>4, InvParts
  <2> QED BY <2>4, <2>7, <2>8, InvQuiet
<1> QED BY <1>2, <1>3

LEMMA InvHandleMsg ==
  ASSUME Inv, NEW p \in Procs, NEW q \in Procs, NEW t \in TodoT, NEW cs,
         QuietConns(config, conns, cs), HandleMsg(p, q, t, cs)
  PROVE  Inv'
<1>1. CASE RpcRet(p, q, t, cs)
  BY <1>1, InvRpcRet
<1>2. CASE /\ todo' = [todo EXCEPT ![p] = @ \cup {t}]
           /\ conns' = cs
           /\ UNCHANGED <<config, up, serv, calls, joined, died, broken, faults>>
  <2>1. up' \in SUBSET Procs /\ todo' \in [Procs -> SUBSET TodoT]
    BY <1>2, InvParts
  <2> QED BY <1>2, <2>1, InvQuiet
<1> QED BY <1>1, <1>2 DEF HandleMsg

\* The calls ns of p to q may be freed, and rpc_hash of q at p is left with h.
LEMMA InvFreed ==
  ASSUME Inv, NEW p \in Procs, NEW q \in Procs, NEW h \in HashT, NEW ns,
         h \subseteq serv[p][q].hash, h \cap ns = {},
         \A n \in ns : calls[n].from = p /\ calls[n].to = q,
         Changed(calls, calls', ns), calls' \in Seq(CallT),
         serv' = Put(serv, p, q, HashServ(serv[p][q], h)),
         QuietConns(config, conns, conns'), UNCHANGED <<config, up, todo>>
  PROVE  Inv'
<1> DEFINE s == serv[p][q]
           t == HashServ(s, h)
<1>1. /\ serv \in ServsT /\ conns \in ConnsT /\ NetOK(config, conns, serv) /\ WaitOK(config, serv)
      /\ CallsOK(calls, serv) /\ calls \in Seq(CallT)
  BY InvParts
<1>2. s \in ServT
  BY <1>1, ServTypes
<1>3. t \in ServT /\ t.est = s.est /\ t.conn = s.conn /\ t.hash = h /\ t.list = s.list
  <2> HIDE DEF s
  <2> QED BY ONLY <1>2, h \in HashT, HashServIs
<1>4. serv' = Put(serv, p, q, t)
  OBVIOUS
<1> HIDE DEF t
<1>5. OnlyEntry(serv, serv', p, q) /\ serv'[p][q] = t
  BY ONLY <1>1, <1>3, <1>4, p \in Procs, q \in Procs, ServPut
<1>6. serv' \in ServsT /\ SameLinks(serv, serv')
  BY <1>3, <1>5 DEF OnlyEntry, SameLinks
<1>7. conns' \in ConnsT
  BY DEF QuietConns
<1>8. NetOK(config, conns', serv')
  <2>1. NetOK(config, conns', serv)
    BY ONLY <1>1, <1>7, QuietConns(config, conns, conns'), QuietGood
  <2> QED BY ONLY <1>1, <1>6, <2>1, SameLinksGood
<1>9. WaitOK(config, serv')
  <2>1. p = q => ~serv'[p][q].est
    BY <1>1, <1>3, <1>5 DEF WaitOK
  <2>2. serv'[p][q].list = "conn" => serv'[p][q].conn = NULL /\ q \in config /\ p > q
    BY <1>1, <1>3, <1>5 DEF WaitOK
  <2> QED BY ONLY <1>1, <1>5, <2>1, <2>2, p \in Procs, q \in Procs, WaitPut
<1>10. LessHash(serv, serv')
  BY <1>3, <1>5, LessHashPut
<1>11. GoneFrom(serv', ns)
  <2> SUFFICES ASSUME NEW x \in Procs, NEW y \in Procs
               PROVE  serv'[x][y].hash \cap ns = {}
    BY DEF GoneFrom
  <2>1. CASE x = p /\ y = q
    BY <2>1, <1>3, <1>5
  <2>2. CASE ~(x = p /\ y = q)
    <3>1. serv'[x][y] = serv[x][y]
      BY <2>2, <1>5 DEF OnlyEntry
    <3>2. \A n \in serv[x][y].hash : calls[n].from = x /\ calls[n].to = y
      BY <1>1 DEF CallsOK, HashOK
    <3> QED BY <2>2, <3>1, <3>2
  <2> QED BY <2>1, <2>2
<1>12. CallsOK(calls', serv')
  BY ONLY <1>1, <1>10, <1>11, Changed(calls, calls', ns), ChangedGood
<1> QED BY <1>6, <1>7, <1>8, <1>9, <1>12, InvParts DEF Inv, TypeOK

\* The calls ns that have been called back are freed.
LEMMA InvRpcBack ==
  ASSUME Inv, NEW p \in Procs, NEW q \in Procs, NEW x, NEW cs,
         QuietConns(config, conns, cs), HandleRpcBack(p, q, x, cs)
  PROVE  Inv'
<1> DEFINE s == serv[p][q]
           ns == {n \in s.hash : calls[n].req = x.req}
           h == s.hash \ ns
           ca == Answered(ns, x)
<1>1. calls \in Seq(CallT) /\ CallsOK(calls, serv)
  BY InvParts
<1>2. s.hash \in HashT
  BY InvParts, ServTypes
<1>3. h \in HashT /\ h \subseteq s.hash /\ h \cap ns = {} /\ ns \subseteq s.hash
  BY <1>2 DEF HashT
<1>4. \A n \in s.hash : n \in DOMAIN calls /\ ~calls[n].freed /\ calls[n].from = p /\ calls[n].to = q
  BY <1>1 DEF CallsOK, HashOK
<1>5. ns \subseteq DOMAIN calls
  BY <1>4
<1>6. Back(calls, ca, ns)
  <2> HIDE DEF ns
  <2> QED BY <1>1, <1>5, AnsweredBack
<1>7. \/ /\ serv' = [serv EXCEPT ![p][q] = [s EXCEPT !.hash = h]]
         /\ calls' = [n \in DOMAIN ca |-> IF n \in ns THEN [ca[n] EXCEPT !.freed = TRUE] ELSE ca[n]]
         /\ conns' = cs /\ UNCHANGED <<config, up, todo>>
      \/ ns # {} /\ ClosedInside(p, q, cs, ca)
  BY Zenon DEF HandleRpcBack
<1> HIDE DEF ns, h, s, ca
<1>8. CASE ns # {} /\ ClosedInside(p, q, cs, ca)
  BY ONLY Inv, p \in Procs, q \in Procs, QuietConns(config, conns, cs), <1>3, <1>6, <1>8, InvClosedInside DEF s
<1>9. CASE /\ serv' = [serv EXCEPT ![p][q] = [s EXCEPT !.hash = h]]
           /\ calls' = [n \in DOMAIN ca |-> IF n \in ns THEN [ca[n] EXCEPT !.freed = TRUE] ELSE ca[n]]
           /\ conns' = cs /\ UNCHANGED <<config, up, todo>>
  <2>1. serv' = Put(serv, p, q, HashServ(s, h))
    BY ONLY <1>9 DEF Put, HashServ
  <2>2. ASSUME NEW n \in DOMAIN calls
        PROVE  /\ calls'[n] \in CallT
               /\ SameCall(calls[n], calls'[n]) /\ CallOK(calls'[n])
               /\ calls'[n].freed => calls[n].freed \/ n \in ns
    <3>1. calls[n] \in CallT /\ ca[n] \in CallT /\ CallOK(calls[n]) /\ n \in DOMAIN ca
      BY <1>1, <1>6 DEF Back, CallsOK
    <3>2. CASE n \in ns
      <4>1. calls'[n] = [ca[n] EXCEPT !.freed = TRUE]
        BY ONLY <1>9, <3>1, <3>2, SMTT(40)
      <4>2. calls'[n] \in CallT
        BY <3>1, <4>1, CallPut
      <4>3. CalledBack(calls[n], ca[n]) /\ ~calls[n].freed /\ calls[n].backs = 0
        BY <1>3, <1>4, <1>6, <3>1, <3>2 DEF Back, CallOK
      <4>4. /\ calls'[n].from = ca[n].from /\ calls'[n].to = ca[n].to /\ calls'[n].req = ca[n].req
            /\ calls'[n].backs = ca[n].backs /\ calls'[n].listed = ca[n].listed
            /\ calls'[n].freed = TRUE /\ calls'[n].closed = ca[n].closed
        BY <3>1, <4>1 DEF CallT
      <4> QED BY <3>2, <4>2, <4>3, <4>4 DEF SameCall, CalledBack, CallOK
    <3>3. CASE n \notin ns
      <4>1. calls'[n] = calls[n]
        BY <1>6, <1>9, <3>1, <3>3 DEF Back
      <4> QED BY <3>1, <4>1 DEF SameCall
    <3> QED BY <3>2, <3>3
  <2>3. calls' = [n \in DOMAIN calls |-> calls'[n]]
    BY <1>6, <1>9 DEF Back
  <2>4. calls' \in Seq(CallT) /\ DOMAIN calls' = DOMAIN calls
    BY ONLY <1>1, <2>2, <2>3, CallsTyped
  <2>5. Changed(calls, calls', ns)
    BY <2>2, <2>4 DEF Changed
  <2>6. \A n \in ns : calls[n].from = p /\ calls[n].to = q
    BY <1>3, <1>4
  <2>7. serv' = Put(serv, p, q, HashServ(serv[p][q], h)) /\ h \subseteq serv[p][q].hash
    BY ONLY <1>3, <2>1 DEF s
  <2>8. QuietConns(config, conns, conns') /\ UNCHANGED <<config, up, todo>>
    BY <1>9, SMTT(40)
  <2> QED BY ONLY Inv, p \in Procs, q \in Procs, <1>3, <2>4, <2>5, <2>6, <2>7, <2>8, InvFreed
<1> QED BY <1>7, <1>8, <1>9

\* A time-out: the call n is off the list and freed, and its number is not in
\* rpc_hash any more; whoever had it there has been dropped.
LEMMA UnhookedIs ==
  ASSUME Inv, NEW n \in DOMAIN calls, calls[n].listed, Unhooked(TimedOut(n), n)
  PROVE  \E h \in HashT :
           /\ h \subseteq serv[calls[n].from][calls[n].to].hash /\ n \notin h
           /\ serv' = Put(serv, calls[n].from, calls[n].to, HashServ(serv[calls[n].from][calls[n].to], h))
           /\ Changed(calls, calls', {n}) /\ calls' \in Seq(CallT)
           /\ \A m \in DOMAIN calls : calls'[m].wrong = calls[m].wrong
           /\ UNCHANGED <<config, up, conns, todo, died, broken>>
<1> DEFINE c == calls[n]
           p == c.from
           q == c.to
           s == serv[p][q]
           ca == TimedOut(n)
           same == {m \in s.hash : ca[m].req = ca[n].req}
           h == s.hash \ same
<1>1. calls \in Seq(CallT) /\ CallsOK(calls, serv)
  BY InvParts
<1>2. c \in CallT /\ CallOK(c)
  BY <1>1 DEF CallsOK
<1>3. p \in Procs /\ q \in Procs
  <2> HIDE DEF c
  <2> QED BY <1>2 DEF CallT
<1>4. Back(calls, ca, {n}) /\ ca[n].wrong = c.wrong
  BY <1>1, TimedOutBack
<1>5. CalledBack(c, ca[n]) /\ ca[n] \in CallT /\ n \in DOMAIN ca
  BY <1>4 DEF Back, CalledBack, SameCall
<1>6. ca[n].from = p /\ ca[n].to = q
  BY <1>5 DEF CalledBack, SameCall
<1>7. /\ calls' = [m \in DOMAIN ca |-> IF m = n THEN [ca[n] EXCEPT !.freed = TRUE]
                                      ELSE IF m \in same THEN [ca[m] EXCEPT !.dropped = TRUE] ELSE ca[m]]
      /\ serv' = [serv EXCEPT ![p][q] = [s EXCEPT !.hash = h]]
      /\ UNCHANGED <<config, up, conns, todo, died, broken>>
  <2> HIDE DEF ca
  <2> QED BY <1>6 DEF Unhooked, ca
<1>8. s.hash \in HashT
  BY <1>3, InvParts, ServTypes
<1>9. h \in HashT /\ h \subseteq s.hash /\ n \notin h
  BY <1>8 DEF HashT
<1> HIDE DEF ca, same, h, s, p, q
<1>10. ASSUME NEW m \in DOMAIN calls
       PROVE  /\ calls'[m] \in CallT
              /\ SameCall(calls[m], calls'[m]) /\ CallOK(calls'[m])
              /\ calls'[m].freed => calls[m].freed \/ m \in {n}
              /\ calls'[m].wrong = calls[m].wrong
  <2>1. calls[m] \in CallT /\ CallOK(calls[m]) /\ m \in DOMAIN ca /\ ca[m] \in CallT
    BY <1>1, <1>4 DEF CallsOK, Back
  <2>2. CASE m = n
    <3>1. calls'[n] = [ca[n] EXCEPT !.freed = TRUE]
      BY ONLY <1>5, <1>7, SMTT(40)
    <3>2. calls'[n] \in CallT
      BY <1>5, <3>1, CallPut
    <3>3. /\ calls'[n].from = ca[n].from /\ calls'[n].to = ca[n].to /\ calls'[n].req = ca[n].req
          /\ calls'[n].backs = ca[n].backs /\ calls'[n].listed = ca[n].listed
          /\ calls'[n].freed = TRUE /\ calls'[n].closed = ca[n].closed /\ calls'[n].wrong = ca[n].wrong
      BY <1>5, <3>1 DEF CallT
    <3>4. c.backs \in Nat
      <4> HIDE DEF c
      <4> QED BY <1>2 DEF CallT
    <3>5. calls'[n].backs = c.backs + 1 /\ ~calls'[n].listed /\ calls'[n].closed = c.closed
            /\ (c.freed => c.closed /\ c.backs <= 1) /\ (~c.freed => c.backs = 0)
      BY <1>2, <1>5, <3>3 DEF CalledBack, CallOK
    <3>6. CallOK(calls'[n])
      BY <3>3, <3>4, <3>5 DEF CallOK
    <3> QED BY <1>4, <1>5, <2>2, <3>2, <3>3, <3>6 DEF SameCall, CalledBack
  <2>3. CASE m # n
    <3>1. ca[m] = calls[m]
      BY <1>4, <2>3 DEF Back
    <3>2. CASE calls'[m] = calls[m]
      BY <2>1, <3>2 DEF SameCall
    <3>3. CASE calls'[m] = [calls[m] EXCEPT !.dropped = TRUE]
      <4>1. calls'[m] \in CallT
        BY <2>1, <3>3, CallPut
      <4>2. /\ calls'[m].from = calls[m].from /\ calls'[m].to = calls[m].to /\ calls'[m].req = calls[m].req
            /\ calls'[m].backs = calls[m].backs /\ calls'[m].listed = calls[m].listed
            /\ calls'[m].freed = calls[m].freed /\ calls'[m].closed = calls[m].closed
            /\ calls'[m].wrong = calls[m].wrong
        BY <2>1, <3>3 DEF CallT
      <4> QED BY <2>1, <4>1, <4>2, SMTT(40) DEF SameCall, CallOK
    <3> QED BY ONLY <1>7, <2>1, <2>3, <3>1, <3>2, <3>3
  <2> QED BY <2>2, <2>3
<1>11. calls' = [m \in DOMAIN calls |-> calls'[m]]
  BY <1>4, <1>7 DEF Back
<1>12. calls' \in Seq(CallT) /\ DOMAIN calls' = DOMAIN calls
  BY ONLY <1>1, <1>10, <1>11, CallsTyped
<1>13. Changed(calls, calls', {n})
  BY <1>10, <1>12 DEF Changed
<1>14. serv' = Put(serv, p, q, HashServ(s, h))
  BY ONLY <1>7 DEF Put, HashServ
<1> QED BY <1>7, <1>9, <1>10, <1>12, <1>13, <1>14 DEF s, p, q

LEMMA InvUnhooked ==
  ASSUME Inv, NEW n \in DOMAIN calls, calls[n].listed, Unhooked(TimedOut(n), n)
  PROVE  Inv'
<1> DEFINE p == calls[n].from
           q == calls[n].to
           ns == {n}
<1>1. PICK h \in HashT :
        /\ h \subseteq serv[p][q].hash /\ n \notin h
        /\ serv' = Put(serv, p, q, HashServ(serv[p][q], h))
        /\ Changed(calls, calls', {n}) /\ calls' \in Seq(CallT)
        /\ UNCHANGED <<config, up, conns, todo>>
  BY UnhookedIs
<1>2. calls[n] \in CallT /\ conns \in ConnsT
  BY InvParts
<1>3. p \in Procs /\ q \in Procs
  BY <1>2 DEF CallT
<1>4. h \cap ns = {} /\ \A m \in ns : calls[m].from = p /\ calls[m].to = q
  BY <1>1
<1>5. QuietConns(config, conns, conns')
  BY <1>1, <1>2, QuietSelf
<1>6. Changed(calls, calls', ns)
  BY <1>1
<1> HIDE DEF p, q, ns
<1> QED BY ONLY Inv, <1>1, <1>3, <1>4, <1>5, <1>6, InvFreed

LEMMA InvTimeout ==
  ASSUME Inv, NEW n \in DOMAIN calls, Timeout(n)
  PROVE  Inv'
<1> DEFINE c == calls[n]
<1>1. calls \in Seq(CallT) /\ conns \in ConnsT
  BY InvParts
<1>2. c \in CallT
  BY <1>1
<1>3. c.from \in Procs /\ c.to \in Procs
  <2> HIDE DEF c
  <2> QED BY <1>2 DEF CallT
<1>4. c.listed /\ (Unhooked(TimedOut(n), n) \/ (n \in serv[c.from][c.to].hash
                                                 /\ ClosedInside(c.from, c.to, conns, TimedOut(n))))
  BY Zenon DEF Timeout
<1>5. CASE Unhooked(TimedOut(n), n)
  BY <1>4, <1>5, InvUnhooked
<1>6. CASE n \in serv[c.from][c.to].hash /\ ClosedInside(c.from, c.to, conns, TimedOut(n))
  <2>1. Back(calls, TimedOut(n), {n})
    BY <1>1, TimedOutBack
  <2>2. {n} \subseteq serv[c.from][c.to].hash /\ {n} # {}
    BY <1>6
  <2>3. QuietConns(config, conns, conns)
    BY <1>1, QuietSelf
  <2> HIDE DEF c
  <2> QED BY ONLY Inv, <1>3, <1>6, <2>1, <2>2, <2>3, InvClosedInside
<1> QED BY <1>4, <1>5, <1>6

LEMMA InvTimeoutFreed ==
  ASSUME Inv, NEW n \in DOMAIN calls, TimeoutFreed(n)
  PROVE  Inv'
<1>1. calls[n].listed /\ (Unhooked(TimedOut(n), n) \/ Died(calls[n].from, conns))
  BY Zenon DEF TimeoutFreed
<1>2. calls[n] \in CallT /\ conns \in ConnsT /\ NetOK(config, conns, serv)
  BY InvParts
<1>3. calls[n].from \in Procs
  BY <1>2 DEF CallT
<1>4. CASE Died(calls[n].from, conns)
  BY ONLY Inv, <1>2, <1>3, <1>4, InvDied
<1> QED BY <1>1, <1>4, InvUnhooked

\* A new call of p to q.
LEMMA NewCallGood ==
  ASSUME NEW ca \in Seq(CallT), NEW d \in CallT, NEW sv, NEW sw, CallsOK(ca, sv), CallOK(d), ~d.freed,
         NEW p \in Procs, NEW q \in Procs, d.from = p, d.to = q, OnlyEntry(sv, sw, p, q),
         sw[p][q].hash = sv[p][q].hash \cup {Len(ca) + 1}
  PROVE  CallsOK(Append(ca, d), sw) /\ Append(ca, d) \in Seq(CallT)
<1> DEFINE cb == Append(ca, d)
           n == Len(ca) + 1
<1>1. /\ cb \in Seq(CallT) /\ DOMAIN cb = DOMAIN ca \cup {n} /\ cb[n] = d
      /\ \A m \in DOMAIN ca : cb[m] = ca[m]
  <2>1. cb \in Seq(CallT) /\ cb[n] = d
    BY ONLY ca \in Seq(CallT), d \in CallT
  <2>2. DOMAIN cb = DOMAIN ca \cup {n}
    BY ONLY ca \in Seq(CallT), d \in CallT
  <2>3. \A m \in DOMAIN ca : cb[m] = ca[m]
    BY ONLY ca \in Seq(CallT), d \in CallT
  <2> QED BY ONLY <2>1, <2>2, <2>3
<1> HIDE DEF cb, n
<1>2. \A m \in DOMAIN cb : CallOK(cb[m])
  BY <1>1 DEF CallsOK
<1>3. ASSUME NEW x \in Procs, NEW y \in Procs, NEW m \in sw[x][y].hash
      PROVE  m \in DOMAIN cb /\ ~cb[m].freed /\ cb[m].from = x /\ cb[m].to = y
  <2>1. CASE x = p /\ y = q /\ m = n
    BY <1>1, <2>1
  <2>2. CASE ~(x = p /\ y = q /\ m = n)
    <3>1. m \in sv[x][y].hash
      BY <2>2 DEF OnlyEntry, n
    <3> QED BY <1>1, <3>1 DEF CallsOK, HashOK
  <2> QED BY <2>1, <2>2
<1> QED BY <1>1, <1>2, <1>3 DEF CallsOK, HashOK, cb

LEMMA InvRpcCall ==
  ASSUME Inv, NEW p \in Procs, NEW q \in Procs, NEW timed \in BOOLEAN, RpcCall(p, q, timed)
  PROVE  Inv'
<1> DEFINE n == Len(calls) + 1
           s == serv[p][q]
           h == s.hash \cup {n}
           t == CallServ(s, NextReq(s.req), h)
           d == NewParam(p, q, s.req, timed)
           x == [type |-> "call", call |-> n, req |-> s.req]
<1>1. /\ serv \in ServsT /\ conns \in ConnsT /\ NetOK(config, conns, serv) /\ WaitOK(config, serv)
      /\ CallsOK(calls, serv) /\ calls \in Seq(CallT)
  BY InvParts
<1>2. s \in ServT /\ s.conn \in ConnIds /\ s.conn # NULL
  BY <1>1, ServTypes DEF RpcCall, ServT
<1>3. s.conn \in Slots
  BY <1>2 DEF ConnIds
<1>4. n \in Nat /\ s.req \in Nat /\ NextReq(s.req) \in Nat /\ h \in HashT
  <2>1. n \in Nat
    BY <1>1
  <2>2. s.req \in Nat /\ s.hash \in HashT
    BY <1>2 DEF ServT
  <2> QED BY <2>1, <2>2 DEF NextReq, HashT
<1>5. /\ calls' = Append(calls, d)
      /\ serv' = Put(serv, p, q, t)
      /\ conns' = Send(conns, s.conn, EndOf(p, s.conn), x)
      /\ UNCHANGED <<config, up, todo>>
  <2>1. calls' = Append(calls, d) /\ UNCHANGED <<config, up, todo>>
          /\ conns' = Send(conns, s.conn, EndOf(p, s.conn), x)
    BY DEF RpcCall
  <2>2. serv' = [serv EXCEPT ![p][q] = [s EXCEPT !.req = NextReq(s.req), !.hash = h]]
    BY DEF RpcCall
  <2>3. serv' = Put(serv, p, q, t)
    <3> HIDE DEF s, h
    <3> QED BY ONLY <2>2 DEF Put, CallServ
  <2> QED BY ONLY <2>1, <2>3
<1>6. d \in CallT /\ CallOK(d) /\ ~d.freed /\ d.from = p /\ d.to = q
  <2>1. PICK f \in BOOLEAN : f = FALSE
    OBVIOUS
  <2>2. d = [from |-> p, to |-> q, req |-> s.req, timed |-> timed, listed |-> timed,
             backs |-> 0, freed |-> f, closed |-> f, dead |-> f, wrong |-> f, dropped |-> f]
    BY <2>1 DEF NewParam
  <2> HIDE DEF d, s
  <2>3. d \in CallT
    BY ONLY <1>4, <2>2, p \in Procs, q \in Procs, timed \in BOOLEAN, f \in BOOLEAN, 0 \in Nat DEF CallT
  <2>4. /\ d.from = p /\ d.to = q /\ d.freed = f /\ d.backs = 0 /\ d.listed = timed /\ d.timed = timed
        /\ d.closed = f
    BY ONLY <2>2
  <2> QED BY ONLY <2>1, <2>3, <2>4 DEF CallOK
<1>7. x \in Pkts /\ x.type # "back"
  BY ONLY <1>4, PktsAre
<1>8. EndOf(p, s.conn) \in Ends
  BY DEF EndOf, Ends
<1> HIDE DEF x, d
<1>9. QuietConns(config, conns, conns')
  <2>1. OnlySent(conns, conns', s.conn, x)
    BY <1>1, <1>3, <1>5, <1>7, <1>8, SendSent
  <2> QED BY <1>1, <1>3, <1>7, <2>1, SentQuiet
<1>10. conns' \in ConnsT /\ NetOK(config, conns', serv)
  <2>1. conns' \in ConnsT
    BY <1>9 DEF QuietConns
  <2> QED BY ONLY <1>1, <1>9, <2>1, QuietGood
<1>11. t \in ServT /\ t.est = s.est /\ t.conn = s.conn /\ t.hash = h /\ t.list = s.list
  <2> HIDE DEF s, h
  <2> QED BY ONLY <1>2, <1>4, CallServIs
<1> HIDE DEF t
<1>12. OnlyEntry(serv, serv', p, q) /\ serv'[p][q] = t
  BY ONLY <1>1, <1>5, <1>11, p \in Procs, q \in Procs, ServPut
<1>13. serv' \in ServsT /\ SameLinks(serv, serv')
  BY <1>11, <1>12 DEF OnlyEntry, SameLinks
<1>14. NetOK(config, conns', serv')
  BY ONLY <1>1, <1>10, <1>13, SameLinksGood
<1>15. WaitOK(config, serv')
  <2>1. p = q => ~serv'[p][q].est
    BY <1>1, <1>11, <1>12 DEF WaitOK
  <2>2. serv'[p][q].list = "conn" => serv'[p][q].conn = NULL /\ q \in config /\ p > q
    BY <1>1, <1>11, <1>12 DEF WaitOK
  <2> QED BY ONLY <1>1, <1>12, <2>1, <2>2, p \in Procs, q \in Procs, WaitPut
<1>16. serv'[p][q].hash = serv[p][q].hash \cup {Len(calls) + 1}
  BY ONLY <1>11, <1>12 DEF h, n, s
<1>17. CallsOK(calls', serv') /\ calls' \in Seq(CallT)
  BY ONLY <1>1, <1>5, <1>6, <1>12, <1>16, p \in Procs, q \in Procs, NewCallGood
<1> QED BY <1>5, <1>10, <1>13, <1>14, <1>15, <1>17, InvParts DEF Inv, TypeOK

LEMMA InvRpcCallDies ==
  ASSUME Inv, NEW p \in Procs, NEW q \in Procs, RpcCallDies(p, q)
  PROVE  Inv'
BY InvParts, InvDied DEF RpcCallDies

LEMMA InvCrash ==
  ASSUME Inv, NEW p \in Procs, Crash(p)
  PROVE  Inv'
BY InvParts, InvDied DEF Crash

LEMMA InvRestart ==
  ASSUME Inv, NEW p \in Procs, Restart(p)
  PROVE  Inv'
<1>1. /\ up' = up \cup {p} /\ UNCHANGED <<config, serv, conns, calls, todo>>
      /\ conns \in ConnsT /\ up \in SUBSET Procs /\ todo \in [Procs -> SUBSET TodoT]
  BY InvParts DEF Restart
<1>2. QuietConns(config, conns, conns')
  BY <1>1, QuietSelf
<1>3. up' \in SUBSET Procs /\ todo' \in [Procs -> SUBSET TodoT]
  BY <1>1
<1> QED BY <1>1, <1>2, <1>3, InvQuiet

LEMMA InvAnswer ==
  ASSUME Inv, NEW p \in Procs, Answer(p)
  PROVE  Inv'
<1>1. conns \in ConnsT /\ todo \in [Procs -> SUBSET TodoT] /\ up \in SUBSET Procs
  BY InvParts
<1>2. PICK t \in todo[p] :
        \/ RpcRet(p, t.from, t, conns)
        \/ /\ todo' = [todo EXCEPT ![p] = @ \ {t}]
           /\ UNCHANGED <<config, up, serv, conns, calls, joined, died, broken, faults>>
  BY DEF Answer
<1>3. t \in TodoT /\ t.from \in Procs
  BY <1>1 DEF TodoT
<1>4. QuietConns(config, conns, conns)
  BY <1>1, QuietSelf
<1>5. CASE RpcRet(p, t.from, t, conns)
  BY <1>3, <1>4, <1>5, InvRpcRet
<1>6. CASE /\ todo' = [todo EXCEPT ![p] = @ \ {t}]
           /\ UNCHANGED <<config, up, serv, conns, calls, joined, died, broken, faults>>
  <2>1. up' \in SUBSET Procs /\ todo' \in [Procs -> SUBSET TodoT]
    BY <1>1, <1>6
  <2> QED BY <1>4, <1>6, <2>1, InvQuiet
<1> QED BY <1>2, <1>5, <1>6

LEMMA InvDoEvent ==
  ASSUME Inv, NEW k \in Slots, NEW e \in Ends, DoEvent(k, e)
  PROVE  Inv'
<1> DEFINE c == conns[k]
           p == c.ends[e]
           q == c.ends[Other(e)]
           x == Head(c.chan[e])
<1>1. conns \in ConnsT /\ NetOK(config, conns, serv)
  BY InvParts
<1>2. c.open[e] /\ c.chan[e] # <<>>
  BY DEF DoEvent
<1>3. p \in Procs /\ q \in Procs
  <2>1. ConnOK(config, c)
    BY <1>1 DEF NetOK, SlotsOK
  <2> QED BY <1>2, <2>1, EndProcs
<1>4. CASE x \in {Fin, Rst}
  <2>1. WhenConnClosed(p, k, e, conns, calls)
    BY <1>4 DEF DoEvent
  <2> QED BY <1>1, <1>2, <2>1, QuietSelf, InvClosedPlain
<1>5. CASE x \notin {Fin, Rst}
  <2>1. PICK cs \in Taken(conns, k, e) :
          \/ ~c.udata[e] /\ HandleIdentify(p, q, k, e, cs)
          \/ c.udata[e] /\ x.type = "back" /\ HandleIdentifyBack(p, q, cs, x.ret)
          \/ /\ c.udata[e] /\ x.type = "call"
             /\ HandleMsg(p, q, [from |-> q, call |-> x.call, req |-> x.req], cs)
          \/ c.udata[e] /\ x.type = "ret" /\ HandleRpcBack(p, q, x, cs)
    BY <1>5 DEF DoEvent, Taken
  <2>2. QuietConns(config, conns, cs) /\ OnlySlot(conns, cs, k)
    BY <1>1, <1>2, <2>1, TakenQuiet
  <2>3. x \in Pkts
    <3>1. c.chan[e] \in Seq(Pkts)
      BY <1>1 DEF ConnsT, ConnT, ChansT
    <3> QED BY <1>2, <3>1
  <2>4. CASE ~c.udata[e] /\ HandleIdentify(p, q, k, e, cs)
    BY <1>2, <2>2, <2>4, InvHandleIdentify
  <2>5. CASE c.udata[e] /\ x.type = "back" /\ HandleIdentifyBack(p, q, cs, x.ret)
    BY <1>2, <2>2, <2>5, InvIdentifyBack
  <2>6. CASE c.udata[e] /\ x.type = "call"
               /\ HandleMsg(p, q, [from |-> q, call |-> x.call, req |-> x.req], cs)
    <3>1. x.call \in Nat /\ x.req \in Nat
      BY <2>3, <2>6, PktKinds
    <3>2. PICK t \in TodoT : t = [from |-> q, call |-> x.call, req |-> x.req]
      BY <1>3, <3>1 DEF TodoT
    <3>3. HandleMsg(p, q, t, cs)
      BY <2>6, <3>2
    <3> HIDE DEF p, q
    <3> QED BY <1>3, <2>2, <3>3, InvHandleMsg
  <2>7. CASE c.udata[e] /\ x.type = "ret" /\ HandleRpcBack(p, q, x, cs)
    <3> HIDE DEF p, q, x
    <3> QED BY <1>3, <2>2, <2>7, InvRpcBack
  <2> QED BY <2>1, <2>4, <2>5, <2>6, <2>7
<1> QED BY <1>4, <1>5

\* What is left of the packets of one end when the connection breaks.
CutChan(s, n) == Append(SubSeq(s, 1, n), Rst)

LEMMA CutBack ==
  ASSUME NEW s \in Seq(Pkts), NEW n \in 0 .. Len(s), NEW r
  PROVE  CutChan(s, n) \in Seq(Pkts) /\ (HasBack(CutChan(s, n), r) => HasBack(s, r))
<1> DEFINE t == SubSeq(s, 1, n)
<1>1. t \in Seq(Pkts) /\ Len(t) = n /\ \A i \in 1 .. n : t[i] = s[i]
  OBVIOUS
<1>2. DOMAIN t = 1 .. n /\ 1 .. n \subseteq DOMAIN s
  BY <1>1
<1>3. HasBack(t, r) => HasBack(s, r)
  BY <1>1, <1>2 DEF HasBack
<1> HIDE DEF t
<1> QED BY <1>1, <1>3, PktsAre, AppendBack DEF CutChan, t

\* Only the packets of one connection change, and it is recorded.
LEMMA BreakIs ==
  ASSUME Inv, NEW k \in Slots, Break(k)
  PROVE  /\ OnlySlot(conns, conns', k) /\ QuietConns(config, conns, conns')
         /\ UNCHANGED <<config, up, serv, calls, todo, died>>
         /\ broken' = broken \cup {{conns[k].ends[1], conns[k].ends[2]}}
<1> DEFINE c == conns[k]
           Cut(e, n) == IF c.open[e] THEN CutChan(c.chan[e], n) ELSE <<>>
<1>1. conns \in ConnsT /\ c \in ConnT
  BY InvParts DEF ConnsT
<1>2. c.chan \in ChansT /\ 1 \in Ends /\ 2 \in Ends
  BY <1>1, ConnFields DEF Ends
<1>3. PICK a \in 0 .. Len(c.chan[1]), b \in 0 .. Len(c.chan[2]) :
        conns' = [conns EXCEPT ![k].chan = Both(Cut(1, a), Cut(2, b))]
  BY Zenon DEF Break, CutChan
<1>4. /\ UNCHANGED <<config, up, serv, calls, todo, died>>
      /\ broken' = broken \cup {{conns[k].ends[1], conns[k].ends[2]}}
  BY DEF Break
<1> DEFINE x == Cut(1, a)
           y == Cut(2, b)
           ch == Both(x, y)
<1>5. x \in Seq(Pkts) /\ \A r \in {0, 1} : HasBack(x, r) => HasBack(c.chan[1], r)
  BY <1>2, CutBack, FewBack DEF ChansT
<1>6. y \in Seq(Pkts) /\ \A r \in {0, 1} : HasBack(y, r) => HasBack(c.chan[2], r)
  BY <1>2, CutBack, FewBack DEF ChansT
<1>7. conns' = [conns EXCEPT ![k].chan = ch]
  BY <1>3
<1> HIDE DEF x, y
<1>8. ch \in ChansT /\ ch[1] = x /\ ch[2] = y
  BY <1>5, <1>6 DEF ChansT, Both, Ends
<1> HIDE DEF ch
<1>9. conns'[k] = [c EXCEPT !.chan = ch] /\ \A j \in Slots : j # k => conns'[j] = conns[j]
  BY ONLY <1>1, <1>7, k \in Slots DEF ConnsT, c
<1>10. conns'[k] = ConnOf(c.ends, c.open, c.udata, c.missed, ch)
  BY <1>1, <1>9, ConnFields DEF ConnOf
<1>11. /\ conns'[k] \in ConnT /\ conns'[k].ends = c.ends /\ conns'[k].open = c.open
       /\ conns'[k].udata = c.udata /\ conns'[k].chan = ch
  <2> HIDE DEF c
  <2> QED BY ONLY <1>1, <1>8, <1>10, ConnFields, ConnOfType
<1>12. conns' \in ConnsT
  BY ONLY <1>1, <1>7, <1>9, <1>11, k \in Slots DEF ConnsT, c
<1>13. OnlySlot(conns, conns', k)
  BY <1>9, <1>12 DEF OnlySlot
<1>14. Quiet(config, c, conns'[k])
  BY <1>5, <1>6, <1>8, <1>11 DEF Quiet, Ends
<1>15. QuietConns(config, conns, conns')
  BY <1>9, <1>12, <1>14 DEF QuietConns, Quiet
<1> QED BY <1>4, <1>13, <1>15

LEMMA InvBreak ==
  ASSUME Inv, NEW k \in Slots, Break(k)
  PROVE  Inv'
<1>1. QuietConns(config, conns, conns') /\ UNCHANGED <<config, up, serv, calls, todo>>
  BY BreakIs
<1>2. up' \in SUBSET Procs /\ todo' \in [Procs -> SUBSET TodoT]
  BY <1>1, InvParts
<1> QED BY <1>1, <1>2, InvQuiet

LEMMA InvInit == Init => Inv
<1> SUFFICES ASSUME Init PROVE Inv
  OBVIOUS
<1>1. config \in Configs /\ up \in SUBSET Procs /\ calls = <<>> /\ todo = [p \in Procs |-> {}]
        /\ conns = [k \in Slots |-> NoConn] /\ serv = [p \in Procs |-> [q \in Procs |-> InitServ(p, q)]]
  BY DEF Init, Configs, Lowest, Slots
<1>2. calls \in Seq(CallT) /\ todo \in [Procs -> SUBSET TodoT]
  BY <1>1
<1>3. conns \in ConnsT
  BY <1>1, NoConnType DEF ConnsT
<1>4. ASSUME NEW p \in Procs, NEW q \in Procs
      PROVE  /\ serv[p][q] \in ServT /\ serv[p][q].conn = NULL /\ ~serv[p][q].est /\ serv[p][q].hash = {}
             /\ serv[p][q].list = "conn" => q \in config /\ p > q
  <2>1. serv[p][q] = InitServ(p, q)
    BY <1>1
  <2> QED BY ONLY <2>1, p \in Procs, q \in Procs, InitServIs
<1>5. serv \in ServsT
  BY <1>1, InitServIs DEF ServsT
<1>6. WaitOK(config, serv)
  BY <1>4 DEF WaitOK
<1>7. CallsOK(calls, serv)
  BY <1>1, <1>4 DEF CallsOK, HashOK
<1>8. NetOK(config, conns, serv)
  <2>1. \A k \in Slots : conns[k] = NoConn
    BY <1>1
  <2>2. SlotsOK(config, conns)
    BY <2>1, NoConnType, OtherEnd DEF SlotsOK, ConnOK, Ends, HasBack
  <2>3. Links(config, conns, serv)
    BY <2>1, NoConnType DEF Links, Linked, Ends
  <2>4. Entries(config, conns, serv)
    BY <1>4 DEF Entries, EntryOK
  <2> QED BY <2>2, <2>3, <2>4 DEF NetOK
<1> QED BY <1>1, <1>2, <1>3, <1>5, <1>6, <1>7, <1>8 DEF Inv, TypeOK

LEMMA InvNext == Inv /\ [Next]_vars => Inv'
<1> SUFFICES ASSUME Inv, [Next]_vars PROVE Inv'
  OBVIOUS
<1>1. ASSUME NEW p \in Procs, NEW q \in Procs, CheckList(p, q) PROVE Inv'
  BY <1>1, InvCheckList
<1>2. ASSUME NEW p \in Procs, NEW q \in Procs, ServgConnect(p, q) PROVE Inv'
  BY <1>2, InvServgConnect
<1>3. ASSUME NEW p \in Procs, NEW q \in Procs, RpcCallDies(p, q) PROVE Inv'
  BY <1>3, InvRpcCallDies
<1>4. ASSUME NEW p \in Procs, NEW q \in Procs, NEW timed \in BOOLEAN, RpcCall(p, q, timed) PROVE Inv'
  BY <1>4, InvRpcCall
<1>5. ASSUME NEW k \in 1 .. MaxConn, NEW e \in Ends, DoEvent(k, e) PROVE Inv'
  BY <1>5, InvDoEvent DEF Slots
<1>6. ASSUME NEW p \in Procs, Answer(p) PROVE Inv'
  BY <1>6, InvAnswer
<1>7. ASSUME NEW p \in Procs, Crash(p) PROVE Inv'
  BY <1>7, InvCrash
<1>8. ASSUME NEW p \in Procs, Restart(p) PROVE Inv'
  BY <1>8, InvRestart
<1>9. ASSUME NEW n \in DOMAIN calls, Timeout(n) PROVE Inv'
  BY <1>9, InvTimeout
<1>10. ASSUME NEW n \in DOMAIN calls, TimeoutFreed(n) PROVE Inv'
  BY <1>10, InvTimeoutFreed
<1>12. ASSUME NEW k \in 1 .. MaxConn, Break(k) PROVE Inv'
  BY <1>12, InvBreak DEF Slots
<1>11. CASE UNCHANGED vars
  BY <1>11 DEF Inv, TypeOK, vars
<1> QED BY <1>1, <1>2, <1>3, <1>4, <1>5, <1>6, <1>7, <1>8, <1>9, <1>10, <1>11, <1>12 DEF Next

---------------------------------------------------------------------------
(* Answers.                                                                *)

\* Some packet of s is of type t.
Kind(s, t) == \E i \in DOMAIN s : s[i].type = t

\* The call that a packet or a kept request x stands for is the only one with
\* its number in the rpc_hash of the caller's entry s, and the number is used up.
Token(ca, s, x) == x.req \in Nat /\ x.req < s.req /\ \A n \in s.hash : ca[n].req = x.req => n = x.call

\* Connection c in slot k, of a dialer with the entry a and an acceptor with b.
Wire(a, b, c, k) ==
  /\ \A x \in Ends : ~c.open[x] => DOMAIN c.chan[x] = {}
  /\ \A x \in Ends : Kind(c.chan[x], "fin") => ~c.open[Other(x)]
  /\ \A x \in Ends : ~Kind(c.chan[x], "rst")
  /\ ~Kind(c.chan[2], "back")
  /\ c.udata[1] => a.conn = k
  /\ c.udata[2] => b.conn = k /\ b.est
  /\ c.open[1] /\ c.open[2] /\ a.est => c.udata[2]
  /\ c.open[2] /\ ~c.udata[2] =>
       /\ \A i \in DOMAIN c.chan[2] :
            c.chan[2][i].type # "fin" => i = 1 /\ c.chan[2][i].type = "identify" /\ DOMAIN c.chan[1] = {}
       /\ ~Kind(c.chan[1], "call") /\ ~Kind(c.chan[1], "ret")
  /\ \A i \in DOMAIN c.chan[1] : c.chan[1][i].type = "back" =>
       /\ i = 1 /\ (c.open[1] => ~a.est)
       /\ c.chan[1][i].ret = 0 /\ c.open[2] => ~c.udata[2]

\* The same seen by a process at end e with the entry s, which has never died,
\* and a server of the configuration with the entry g: it does not close first,
\* is not refused, and calls and answers are on the connection it counts as
\* established.
Line(ca, s, g, c, k, e) ==
  /\ IF e = 1 THEN Wire(s, g, c, k) ELSE Wire(g, s, c, k)
  /\ c.open[Other(e)] => c.open[e]
  /\ e = 1 => ~HasBack(c.chan[1], 0)
  /\ \A i \in DOMAIN c.chan[Other(e)] : c.chan[Other(e)][i].type = "call" =>
       c.udata[e] /\ s.est /\ Token(ca, s, c.chan[Other(e)][i])
  /\ \A i \in DOMAIN c.chan[e] : c.chan[e][i].type = "ret" =>
       c.udata[e] /\ s.est /\ Token(ca, s, c.chan[e][i])

IsLine(c, p, q, e) == c.ends[e] = p /\ c.ends[Other(e)] = q

Lines(cs, s, g, ca, p, q) ==
  \A k \in Slots, e \in Ends : IsLine(cs[k], p, q, e) => Line(ca, s, g, cs[k], k, e)

\* A request t that was kept: its connection is still the one of both.
Kept(ca, s, g, t) == s.est /\ s.conn # NULL /\ g.conn = s.conn /\ Token(ca, s, t)

\* p and the server q of the configuration: connections, kept requests, numbers.
PairOK(cs, sv, ca, td, p, q) ==
  /\ Lines(cs, sv[p][q], sv[q][p], ca, p, q)
  /\ sv[p][q].est => sv[p][q].conn # NULL
  /\ sv[q][p].est => sv[q][p].conn # NULL
  /\ \A n \in sv[p][q].hash : ca[n].req < sv[p][q].req
  /\ \A t \in td[q] : t.from = p => Kept(ca, sv[p][q], sv[q][p], t)

\* p has never died, q is in the configuration and they have not lost a connection.
Good(p, q) == p # q /\ p \notin died /\ {p, q} \notin broken /\ q \in config

\* OwnAnswer of the calls ca.
OwnCalls(ca) ==
  \A n \in DOMAIN ca : ca[n].wrong /\ ca[n].to \in config =>
    ca[n].from \in died \/ {ca[n].from, ca[n].to} \in broken

Own == OwnAnswer /\ \A p, q \in Procs : Good(p, q) => PairOK(conns, serv, calls, todo, p, q)

\* The first packet for end x of c is taken, perhaps with what follows it.
Popped(c, d, x) ==
  /\ d.ends = c.ends /\ d.open = c.open /\ d.udata = c.udata
  /\ d.chan[Other(x)] = c.chan[Other(x)]
  /\ \A i \in DOMAIN d.chan[x] : \E j \in DOMAIN c.chan[x] : j # 1 /\ d.chan[x][i] = c.chan[x][j]

\* t is s with y behind it, or s.
Grown(s, t, y) ==
  \A i \in DOMAIN t : \/ i \in DOMAIN s /\ t[i] = s[i]
                      \/ t[i] = y /\ (DOMAIN s = {} => i = 1)

\* y is sent from end x of c.
Sent(c, d, x, y) ==
  /\ d.ends = c.ends /\ d.open = c.open /\ d.udata = c.udata
  /\ IF c.open[Other(x)]
       THEN d.chan[x] = c.chan[x] /\ Grown(c.chan[Other(x)], d.chan[Other(x)], y)
       ELSE d.chan[Other(x)] = c.chan[Other(x)] /\ Grown(c.chan[x], d.chan[x], Fin)

LEMMA PopKind ==
  ASSUME NEW c, NEW d, NEW x \in Ends, Popped(c, d, x), NEW f \in Ends, NEW t
  PROVE  /\ Kind(d.chan[f], t) => Kind(c.chan[f], t)
         /\ DOMAIN c.chan[f] = {} => DOMAIN d.chan[f] = {}
<1>1. CASE f = x
  BY <1>1 DEF Popped, Kind
<1>2. CASE f = Other(x)
  BY <1>2 DEF Popped, Kind
<1> QED BY <1>1, <1>2, OtherEnd

LEMMA WirePop ==
  ASSUME NEW a, NEW b, NEW c, NEW d, NEW k, NEW x \in Ends, Wire(a, b, c, k), Popped(c, d, x)
  PROVE  /\ Wire(a, b, d, k)
         /\ x = 1 => ~Kind(d.chan[1], "back")
         /\ x = 2 /\ c.open[2] /\ ~c.udata[2] => ~Kind(d.chan[2], "identify")
<1>0. /\ d.ends = c.ends /\ d.open = c.open /\ d.udata = c.udata
      /\ 1 \in Ends /\ 2 \in Ends /\ (x = 1 \/ x = 2)
  BY DEF Popped, Ends
<1>1. \A f \in Ends : \A t : Kind(d.chan[f], t) => Kind(c.chan[f], t)
  BY PopKind
<1>2. \A f \in Ends : DOMAIN c.chan[f] = {} => DOMAIN d.chan[f] = {}
  BY PopKind
<1>3. CASE x = 1
  <2>1. d.chan[2] = c.chan[2]
    BY <1>3, OtherEnd DEF Popped
  <2>2. \A i \in DOMAIN d.chan[1] : d.chan[1][i].type # "back"
    BY <1>3 DEF Popped, Wire
  <2>3. ~Kind(d.chan[1], "back")
    BY <2>2 DEF Kind
  <2>4. Wire(a, b, d, k)
    BY <1>0, <1>1, <1>2, <2>1, <2>2 DEF Wire
  <2> QED BY <1>3, <2>3, <2>4
<1>4. CASE x = 2
  <2>1. d.chan[1] = c.chan[1]
    BY <1>4, OtherEnd DEF Popped
  <2>2. c.open[2] /\ ~c.udata[2] => \A i \in DOMAIN d.chan[2] : d.chan[2][i].type = "fin"
    BY <1>4 DEF Popped, Wire
  <2>3. c.open[2] /\ ~c.udata[2] => ~Kind(d.chan[2], "identify")
    BY <2>2 DEF Kind
  <2>4. /\ \A y \in Ends : ~d.open[y] => DOMAIN d.chan[y] = {}
        /\ \A y \in Ends : Kind(d.chan[y], "fin") => ~d.open[Other(y)]
        /\ \A y \in Ends : ~Kind(d.chan[y], "rst")
        /\ ~Kind(d.chan[2], "back")
    BY <1>0, <1>1, <1>2 DEF Wire
  <2>5. d.open[2] /\ ~d.udata[2] =>
          /\ \A i \in DOMAIN d.chan[2] : d.chan[2][i].type = "fin"
          /\ ~Kind(d.chan[1], "call") /\ ~Kind(d.chan[1], "ret")
    BY <1>0, <2>1, <2>2 DEF Wire
  <2>6. \A i \in DOMAIN d.chan[1] : d.chan[1][i].type = "back" =>
          /\ i = 1 /\ (d.open[1] => ~a.est)
          /\ d.chan[1][i].ret = 0 /\ d.open[2] => ~d.udata[2]
    BY <1>0, <2>1 DEF Wire
  <2>7. Wire(a, b, d, k)
    BY <1>0, <2>4, <2>5, <2>6 DEF Wire
  <2> QED BY <1>4, <2>3, <2>7
<1> QED BY <1>0, <1>3, <1>4

\* What may be sent from end x of c.
MaySend(a, c, x, y) ==
  /\ c.open[x] /\ y.type \in {"call", "ret", "back"}
  /\ y.type # "back" => (c.open[2] => c.udata[2])
  /\ y.type = "back" => /\ x = 2 /\ DOMAIN c.chan[1] = {} /\ (c.open[1] => ~a.est)
                        /\ ~c.udata[2] => ~Kind(c.chan[2], "identify")
                        /\ y.ret = 0 => ~c.udata[2]

LEMMA WireSend ==
  ASSUME NEW a, NEW b, NEW c, NEW d, NEW k, NEW x \in Ends, NEW y,
         Wire(a, b, c, k), Sent(c, d, x, y), MaySend(a, c, x, y)
  PROVE  Wire(a, b, d, k)
<1>0. /\ d.ends = c.ends /\ d.open = c.open /\ d.udata = c.udata
      /\ 1 \in Ends /\ 2 \in Ends /\ (x = 1 \/ x = 2) /\ Fin.type = "fin"
  BY DEF Sent, Ends, Fin
<1>1. CASE c.open[Other(x)]
  <2>1. d.chan[x] = c.chan[x] /\ Grown(c.chan[Other(x)], d.chan[Other(x)], y)
    BY <1>1 DEF Sent
  <2>2. CASE x = 1
    <3>1. d.chan[1] = c.chan[1] /\ c.open[2] /\ c.udata[2] /\ y.type \in {"call", "ret"}
            /\ Grown(c.chan[2], d.chan[2], y)
      BY <1>1, <2>1, <2>2, OtherEnd DEF MaySend
    <3>2. \A t : Kind(d.chan[2], t) => Kind(c.chan[2], t) \/ y.type = t
      BY <3>1 DEF Grown, Kind
    <3> QED BY <1>0, <3>1, <3>2, OtherEnd DEF Wire, Ends
  <2>3. CASE x = 2
    <3>1. d.chan[2] = c.chan[2] /\ c.open[1] /\ c.open[2] /\ Grown(c.chan[1], d.chan[1], y)
      BY <1>1, <2>1, <2>3, OtherEnd DEF MaySend
    <3>2. \A t : Kind(d.chan[1], t) => Kind(c.chan[1], t) \/ y.type = t
      BY <3>1 DEF Grown, Kind
    <3>3. \A i \in DOMAIN d.chan[1] : d.chan[1][i].type = "back" =>
            i = 1 /\ ~a.est /\ (d.chan[1][i].ret = 0 => ~c.udata[2])
      BY <3>1, <2>3 DEF Grown, MaySend, Wire
    <3>4. y.type = "back" /\ ~c.udata[2] => \A i \in DOMAIN c.chan[2] : c.chan[2][i].type = "fin"
      BY <3>1 DEF MaySend, Wire, Kind
    <3>5. y.type # "back" => c.udata[2]
      BY <3>1 DEF MaySend
    <3>6. y.type # "fin" /\ y.type # "rst"
      BY DEF MaySend
    <3>7. c.open[2] /\ ~c.udata[2] =>
            /\ \A i \in DOMAIN d.chan[2] : d.chan[2][i].type = "fin"
            /\ ~Kind(d.chan[1], "call") /\ ~Kind(d.chan[1], "ret")
      BY <3>1, <3>2, <3>4, <3>5 DEF Wire
    <3> QED BY <1>0, <3>1, <3>2, <3>3, <3>6, <3>7, OtherEnd DEF Wire, Ends
  <2> QED BY <1>0, <2>2, <2>3
<1>2. CASE ~c.open[Other(x)]
  <2>1. d.chan[Other(x)] = c.chan[Other(x)] /\ Grown(c.chan[x], d.chan[x], Fin) /\ c.open[x]
    BY <1>2 DEF Sent, MaySend
  <2>2. \A t : Kind(d.chan[x], t) => Kind(c.chan[x], t) \/ t = "fin"
    BY <1>0, <2>1 DEF Grown, Kind
  <2>3. CASE x = 1
    <3>1. d.chan[2] = c.chan[2] /\ ~c.open[2] /\ c.open[1] /\ Grown(c.chan[1], d.chan[1], Fin)
      BY <1>2, <2>1, <2>3, OtherEnd
    <3>2. \A i \in DOMAIN d.chan[1] : d.chan[1][i].type = "back" => i \in DOMAIN c.chan[1] /\ d.chan[1][i] = c.chan[1][i]
      BY <1>0, <3>1 DEF Grown
    <3> QED BY <1>0, <2>2, <2>3, <3>1, <3>2, OtherEnd DEF Wire, Ends
  <2>4. CASE x = 2
    <3>1. d.chan[1] = c.chan[1] /\ ~c.open[1] /\ c.open[2] /\ Grown(c.chan[2], d.chan[2], Fin)
      BY <1>2, <2>1, <2>4, OtherEnd
    <3>2. \A i \in DOMAIN d.chan[2] : d.chan[2][i].type # "fin" => i \in DOMAIN c.chan[2] /\ d.chan[2][i] = c.chan[2][i]
      BY <1>0, <3>1 DEF Grown
    <3> QED BY <1>0, <2>2, <2>4, <3>1, <3>2, OtherEnd DEF Wire, Ends
  <2> QED BY <1>0, <2>3, <2>4
<1> QED BY <1>1, <1>2

LEMMA LinePop ==
  ASSUME NEW ca, NEW s, NEW g, NEW c, NEW d, NEW k, NEW e \in Ends, NEW x \in Ends,
         Line(ca, s, g, c, k, e), Popped(c, d, x)
  PROVE  Line(ca, s, g, d, k, e)
<1>0. d.open = c.open /\ d.udata = c.udata
  BY DEF Popped
<1>1. IF e = 1 THEN Wire(s, g, d, k) ELSE Wire(g, s, d, k)
  BY WirePop DEF Line
<1>2. \A f \in Ends : \A i \in DOMAIN d.chan[f] : \E j \in DOMAIN c.chan[f] : d.chan[f][i] = c.chan[f][j]
  <2> SUFFICES ASSUME NEW f \in Ends
               PROVE  \A i \in DOMAIN d.chan[f] : \E j \in DOMAIN c.chan[f] : d.chan[f][i] = c.chan[f][j]
    OBVIOUS
  <2>1. CASE f = x
    BY <2>1 DEF Popped
  <2>2. CASE f = Other(x)
    BY <2>2 DEF Popped
  <2> QED BY <2>1, <2>2, OtherEnd
<1>3. 1 \in Ends /\ Other(e) \in Ends
  BY OtherEnd DEF Ends
<1>4. e = 1 => ~HasBack(d.chan[1], 0)
  BY <1>2, <1>3 DEF Line, HasBack
<1>5. \A i \in DOMAIN d.chan[Other(e)] : d.chan[Other(e)][i].type = "call" =>
        d.udata[e] /\ s.est /\ Token(ca, s, d.chan[Other(e)][i])
  BY <1>0, <1>2, <1>3 DEF Line
<1>6. \A i \in DOMAIN d.chan[e] : d.chan[e][i].type = "ret" =>
        d.udata[e] /\ s.est /\ Token(ca, s, d.chan[e][i])
  BY <1>0, <1>2, <1>3 DEF Line
<1> QED BY <1>0, <1>1, <1>4, <1>5, <1>6 DEF Line

\* What may be sent from end x of c, seen from end e.
LineMaySend(ca, s, g, c, e, x, y) ==
  /\ MaySend(IF e = 1 THEN s ELSE g, c, x, y)
  /\ y.type = "back" /\ y.ret = 0 => e = 2
  /\ y.type = "call" /\ x = e => c.udata[e] /\ s.est /\ Token(ca, s, y)
  /\ y.type = "ret" /\ x # e => c.udata[e] /\ s.est /\ Token(ca, s, y)

LEMMA LineSend ==
  ASSUME NEW ca, NEW s, NEW g, NEW c, NEW d, NEW k, NEW e \in Ends, NEW x \in Ends, NEW y,
         Line(ca, s, g, c, k, e), Sent(c, d, x, y), LineMaySend(ca, s, g, c, e, x, y)
  PROVE  Line(ca, s, g, d, k, e)
<1>0. d.open = c.open /\ d.udata = c.udata /\ Fin.type = "fin"
  BY DEF Sent, Fin
<1>1. IF e = 1 THEN Wire(s, g, d, k) ELSE Wire(g, s, d, k)
  <2>1. CASE e = 1
    BY <2>1, WireSend DEF Line, LineMaySend
  <2>2. CASE e # 1
    BY <2>2, WireSend DEF Line, LineMaySend
  <2> QED BY <2>1, <2>2
<1>2. \A f \in Ends : \A i \in DOMAIN d.chan[f] :
        \/ i \in DOMAIN c.chan[f] /\ d.chan[f][i] = c.chan[f][i]
        \/ f = Other(x) /\ d.chan[f][i] = y
        \/ d.chan[f][i] = Fin
  <2> SUFFICES ASSUME NEW f \in Ends, NEW i \in DOMAIN d.chan[f]
               PROVE  \/ i \in DOMAIN c.chan[f] /\ d.chan[f][i] = c.chan[f][i]
                      \/ f = Other(x) /\ d.chan[f][i] = y
                      \/ d.chan[f][i] = Fin
    OBVIOUS
  <2>1. CASE f = x
    BY <2>1 DEF Sent, Grown
  <2>2. CASE f = Other(x)
    BY <2>2 DEF Sent, Grown
  <2> QED BY <2>1, <2>2, OtherEnd
<1>3. 1 \in Ends /\ Other(e) \in Ends /\ (Other(e) = Other(x) => x = e) /\ (e = Other(x) => x # e)
        /\ Other(2) = 1 /\ y.type # "fin"
  BY OtherEnd DEF Ends, LineMaySend, MaySend
<1>4. e = 1 => ~HasBack(d.chan[1], 0)
  BY <1>0, <1>2, <1>3 DEF Line, HasBack, LineMaySend
<1>5. \A i \in DOMAIN d.chan[Other(e)] : d.chan[Other(e)][i].type = "call" =>
        d.udata[e] /\ s.est /\ Token(ca, s, d.chan[Other(e)][i])
  BY <1>0, <1>2, <1>3 DEF Line, LineMaySend
<1>6. \A i \in DOMAIN d.chan[e] : d.chan[e][i].type = "ret" =>
        d.udata[e] /\ s.est /\ Token(ca, s, d.chan[e][i])
  BY <1>0, <1>2, <1>3 DEF Line, LineMaySend
<1> QED BY <1>0, <1>1, <1>4, <1>5, <1>6 DEF Line

\* Tokens stay good when calls leave the table.
LEMMA TokenLess ==
  ASSUME NEW ca, NEW cb, NEW s, NEW t, NEW x, Token(ca, s, x),
         t.req = s.req, t.hash \subseteq s.hash, \A n \in t.hash : cb[n].req = ca[n].req
  PROVE  Token(cb, t, x)
BY DEF Token

\* Nothing changes on a line but other parts of the entries.
SameEntry(s, t) == t.conn = s.conn /\ t.est = s.est

LEMMA LineSame ==
  ASSUME NEW ca, NEW cb, NEW s, NEW t, NEW g, NEW h, NEW c, NEW k, NEW e \in Ends,
         Line(ca, s, g, c, k, e), SameEntry(s, t), SameEntry(g, h),
         \A x : Token(ca, s, x) => Token(cb, t, x)
  PROVE  Line(cb, t, h, c, k, e)
<1>1. \A a, b, a2, b2 : Wire(a, b, c, k) /\ SameEntry(a, a2) /\ SameEntry(b, b2) => Wire(a2, b2, c, k)
  BY DEF Wire, SameEntry
<1> QED BY <1>1 DEF Line, SameEntry

\* A step that leaves the connections of the pair alone, and of its entries what
\* connections depend on; calls may leave the table and kept requests go.
PairSame(cs, ds, sv, sw, ca, cb, td, te, p, q) ==
  /\ \A k \in Slots, e \in Ends : IsLine(ds[k], p, q, e) => ds[k] = cs[k]
  /\ SameEntry(sv[p][q], sw[p][q]) /\ SameEntry(sv[q][p], sw[q][p])
  /\ sw[p][q].req = sv[p][q].req /\ sw[p][q].hash \subseteq sv[p][q].hash
  /\ \A n \in sw[p][q].hash : cb[n].req = ca[n].req
  /\ \A t \in te[q] : t.from = p => t \in td[q]

LEMMA PairFrame ==
  ASSUME NEW cs, NEW ds, NEW sv, NEW sw, NEW ca, NEW cb, NEW td, NEW te, NEW p \in Procs, NEW q \in Procs,
         PairOK(cs, sv, ca, td, p, q), PairSame(cs, ds, sv, sw, ca, cb, td, te, p, q)
  PROVE  PairOK(ds, sw, cb, te, p, q)
<1> DEFINE s == sv[p][q]
           g == sv[q][p]
           t == sw[p][q]
           h == sw[q][p]
<1>0. SameEntry(s, t) /\ SameEntry(g, h) /\ t.req = s.req /\ t.hash \subseteq s.hash
        /\ \A n \in t.hash : cb[n].req = ca[n].req
  BY DEF PairSame
<1>1. \A x : Token(ca, s, x) => Token(cb, t, x)
  BY <1>0, TokenLess
<1>2. Lines(ds, t, h, cb, p, q)
  <2> SUFFICES ASSUME NEW k \in Slots, NEW e \in Ends, IsLine(ds[k], p, q, e)
               PROVE  Line(cb, t, h, ds[k], k, e)
    BY DEF Lines
  <2>1. ds[k] = cs[k]
    BY DEF PairSame
  <2>2. Line(ca, s, g, ds[k], k, e)
    BY <2>1 DEF PairOK, Lines
  <2> HIDE DEF s, g, t, h
  <2> QED BY <1>0, <1>1, <2>2, LineSame
<1>3. \A n \in t.hash : cb[n].req < t.req
  BY <1>0 DEF PairOK
<1>4. ASSUME NEW y \in te[q], y.from = p
      PROVE  Kept(cb, t, h, y)
  <2>1. Kept(ca, s, g, y)
    BY <1>4 DEF PairSame, PairOK
  <2> QED BY <1>0, <1>1, <2>1 DEF Kept, SameEntry
<1> QED BY <1>0, <1>2, <1>3, <1>4 DEF PairOK, SameEntry

\* A line of the pair in slot k changes alone.
LEMMA PairLine ==
  ASSUME NEW cs, NEW ds, NEW sv, NEW ca, NEW td, NEW p \in Procs, NEW q \in Procs, NEW k \in Slots,
         PairOK(cs, sv, ca, td, p, q), OnlySlot(cs, ds, k), ds[k].ends = cs[k].ends,
         \A e \in Ends : IsLine(cs[k], p, q, e) => Line(ca, sv[p][q], sv[q][p], ds[k], k, e)
  PROVE  PairOK(ds, sv, ca, td, p, q)
<1>1. Lines(ds, sv[p][q], sv[q][p], ca, p, q)
  <2> SUFFICES ASSUME NEW j \in Slots, NEW e \in Ends, IsLine(ds[j], p, q, e)
               PROVE  Line(ca, sv[p][q], sv[q][p], ds[j], j, e)
    BY DEF Lines
  <2>1. CASE j = k
    BY <2>1 DEF IsLine
  <2>2. CASE j # k
    BY <2>2 DEF OnlySlot, PairOK, Lines
  <2> QED BY <2>1, <2>2
<1> QED BY <1>1 DEF PairOK

LEMMA PairPop ==
  ASSUME NEW cs, NEW ds, NEW sv, NEW ca, NEW td, NEW p \in Procs, NEW q \in Procs, NEW k \in Slots,
         NEW x \in Ends, PairOK(cs, sv, ca, td, p, q), OnlySlot(cs, ds, k), Popped(cs[k], ds[k], x)
  PROVE  PairOK(ds, sv, ca, td, p, q)
<1>1. ASSUME NEW e \in Ends, IsLine(cs[k], p, q, e)
      PROVE  Line(ca, sv[p][q], sv[q][p], ds[k], k, e)
  <2>1. Line(ca, sv[p][q], sv[q][p], cs[k], k, e)
    BY <1>1 DEF PairOK, Lines
  <2> QED BY <2>1, LinePop
<1>2. ds[k].ends = cs[k].ends
  BY DEF Popped
<1> QED BY <1>1, <1>2, PairLine

LEMMA PairSend ==
  ASSUME NEW cs, NEW ds, NEW sv, NEW ca, NEW td, NEW p \in Procs, NEW q \in Procs, NEW k \in Slots,
         NEW x \in Ends, NEW y,
         PairOK(cs, sv, ca, td, p, q), OnlySlot(cs, ds, k), Sent(cs[k], ds[k], x, y),
         \A e \in Ends : IsLine(cs[k], p, q, e) => LineMaySend(ca, sv[p][q], sv[q][p], cs[k], e, x, y)
  PROVE  PairOK(ds, sv, ca, td, p, q)
<1>1. ASSUME NEW e \in Ends, IsLine(cs[k], p, q, e)
      PROVE  Line(ca, sv[p][q], sv[q][p], ds[k], k, e)
  <2>1. Line(ca, sv[p][q], sv[q][p], cs[k], k, e) /\ LineMaySend(ca, sv[p][q], sv[q][p], cs[k], e, x, y)
    BY <1>1 DEF PairOK, Lines
  <2> QED BY <2>1, LineSend
<1>2. ds[k].ends = cs[k].ends
  BY DEF Sent
<1> QED BY <1>1, <1>2, PairLine

---------------------------------------------------------------------------
(* Lines that are closed.                                                  *)

\* End x of c is shut.
ShutEnd(c, d, x) ==
  IF c.open[Other(x)]
    THEN /\ d.ends = c.ends
         /\ ~d.open[x] /\ d.open[Other(x)] = c.open[Other(x)]
         /\ ~d.udata[x] /\ d.udata[Other(x)] = c.udata[Other(x)]
         /\ DOMAIN d.chan[x] = {} /\ Grown(c.chan[Other(x)], d.chan[Other(x)], Fin)
    ELSE d = NoConn

\* A connection that nobody holds says nothing about entries.
LEMMA LineDead ==
  ASSUME NEW ca, NEW s, NEW g, NEW cb, NEW t, NEW h, NEW c, NEW k, NEW e \in Ends,
         Line(ca, s, g, c, k, e), \A x \in Ends : ~c.open[x] /\ ~c.udata[x]
  PROVE  Line(cb, t, h, c, k, e)
<1>0. 1 \in Ends /\ 2 \in Ends /\ Other(e) \in Ends /\ \A x \in Ends : DOMAIN c.chan[x] = {}
  BY OtherEnd DEF Ends, Line, Wire
<1>1. \A x \in Ends : \A y : ~Kind(c.chan[x], y)
  BY <1>0 DEF Kind
<1>2. \A a, b : Wire(a, b, c, k)
  BY <1>0, <1>1 DEF Wire
<1> QED BY <1>0, <1>2 DEF Line, HasBack

\* The process at e has lost its entry to another connection.
LEMMA LineLost ==
  ASSUME NEW ca, NEW s, NEW g, NEW cb, NEW t, NEW c, NEW k, NEW e \in Ends,
         Line(ca, s, g, c, k, e), ~c.udata[e], ~t.est
  PROVE  Line(cb, t, g, c, k, e)
<1>1. CASE e = 1
  <2>1. Wire(s, g, c, k)
    BY <1>1 DEF Line
  <2>2. Wire(t, g, c, k)
    BY <1>1, <2>1 DEF Wire
  <2> QED BY <1>1, <2>2 DEF Line
<1>2. CASE e = 2
  <2>1. Wire(g, s, c, k)
    BY <1>2 DEF Line
  <2>2. Wire(g, t, c, k)
    BY <1>2, <2>1 DEF Wire
  <2> QED BY <1>2, <2>2 DEF Line
<1> QED BY <1>1, <1>2 DEF Ends

\* The other process has.
LEMMA LineGone ==
  ASSUME NEW ca, NEW s, NEW g, NEW h, NEW c, NEW k, NEW e \in Ends,
         Line(ca, s, g, c, k, e), ~c.udata[Other(e)], ~h.est
  PROVE  Line(ca, s, h, c, k, e)
<1>1. CASE e = 1
  <2>1. Wire(s, g, c, k) /\ ~c.udata[2]
    BY <1>1, OtherEnd DEF Line
  <2>2. Wire(s, h, c, k)
    BY <2>1 DEF Wire
  <2> QED BY <1>1, <2>2 DEF Line
<1>2. CASE e = 2
  <2>1. Wire(g, s, c, k) /\ ~c.udata[1]
    BY <1>2, OtherEnd DEF Line
  <2>2. Wire(h, s, c, k)
    BY <2>1 DEF Wire
  <2> QED BY <1>2, <2>2 DEF Line
<1> QED BY <1>1, <1>2 DEF Ends

\* The other end is shut.
LEMMA LineShut ==
  ASSUME NEW ca, NEW s, NEW g, NEW h, NEW c, NEW d, NEW k, NEW e \in Ends,
         Line(ca, s, g, c, k, e), ShutEnd(c, d, Other(e)), c.open[e], ~h.est
  PROVE  Line(ca, s, h, d, k, e)
<1> DEFINE f == Other(e)
<1>0. f \in Ends /\ Other(f) = e /\ f # e /\ Fin.type = "fin"
  BY OtherEnd DEF Fin
<1>1. /\ d.ends = c.ends /\ ~d.open[f] /\ d.open[e] /\ ~d.udata[f] /\ d.udata[e] = c.udata[e]
      /\ DOMAIN d.chan[f] = {} /\ Grown(c.chan[e], d.chan[e], Fin)
  BY <1>0 DEF ShutEnd
<1>2. \A i \in DOMAIN d.chan[e] : d.chan[e][i].type # "fin" => i \in DOMAIN c.chan[e] /\ d.chan[e][i] = c.chan[e][i]
  BY <1>0, <1>1 DEF Grown
<1>3. \A y : y # "fin" /\ Kind(d.chan[e], y) => Kind(c.chan[e], y)
  BY <1>2 DEF Kind
<1>4. \A y : ~Kind(d.chan[f], y)
  BY <1>1 DEF Kind
<1>5. CASE e = 1
  <2>0. f = 2
    BY <1>5, OtherEnd
  <2> HIDE DEF f
  <2>1. Wire(s, g, c, k)
    BY <1>5 DEF Line
  <2>2. Wire(s, h, d, k)
    BY <1>1, <1>2, <1>3, <1>4, <1>5, <2>0, <2>1, OtherEnd DEF Wire, Ends
  <2>3. ~HasBack(d.chan[1], 0)
    BY <1>2, <1>5 DEF HasBack, Line
  <2> QED BY <1>1, <1>2, <1>5, <2>0, <2>2, <2>3, OtherEnd DEF Line
<1>6. CASE e = 2
  <2>0. f = 1
    BY <1>6, OtherEnd
  <2> HIDE DEF f
  <2>1. Wire(g, s, c, k)
    BY <1>6 DEF Line
  <2>2. Wire(h, s, d, k)
    BY <1>1, <1>2, <1>3, <1>4, <1>6, <2>0, <2>1, OtherEnd DEF Wire, Ends
  <2> QED BY <1>1, <1>2, <1>6, <2>0, <2>2, OtherEnd DEF Line
<1> QED BY <1>5, <1>6 DEF Ends

LEMMA LineFacts ==
  ASSUME NEW ca, NEW s, NEW g, NEW c, NEW k, NEW e \in Ends, Line(ca, s, g, c, k, e)
  PROVE  /\ c.udata[e] => s.conn = k
         /\ c.udata[Other(e)] => g.conn = k
         /\ \A x \in Ends : Kind(c.chan[x], "fin") => ~c.open[Other(x)]
         /\ \A x \in Ends : ~Kind(c.chan[x], "rst")
         /\ c.open[Other(e)] => c.open[e]
         /\ c.udata[2] => (IF e = 2 THEN s.est ELSE g.est)
         /\ c.open[1] /\ c.open[2] /\ (IF e = 1 THEN s.est ELSE g.est) => c.udata[2]
<1>1. CASE e = 1
  BY <1>1, OtherEnd DEF Line, Wire
<1>2. CASE e = 2
  BY <1>2, OtherEnd DEF Line, Wire
<1> QED BY <1>1, <1>2 DEF Ends

\* A free slot is no line.
LEMMA NoLine ==
  ASSUME NEW p, NEW q, p # q, NEW e \in Ends
  PROVE  ~IsLine(NoConn, p, q, e)
BY DEF IsLine, NoConn, Both, Ends, Other

\* Two ends of one connection.
LEMMA LineEnds ==
  ASSUME NEW c, NEW p, NEW q, p # q, NEW e \in Ends, NEW x \in Ends, IsLine(c, p, q, e)
  PROVE  /\ c.ends[x] = p => x = e
         /\ c.ends[x] = q => x = Other(e)
         /\ ~(c.ends[x] = p /\ c.ends[Other(x)] = q) => x = Other(e)
BY OtherEnd DEF IsLine

\* The entry of the process at either end, when it has a connection.
LEMMA HeldBy ==
  ASSUME NEW cf, NEW cs, NEW sv \in ServsT, NetOK(cf, cs, sv), NEW p \in Procs, NEW q \in Procs, p # q,
         sv[p][q].conn # NULL
  PROVE  /\ sv[p][q].conn \in Slots
         /\ \E e \in Ends : Held(cs[sv[p][q].conn], p, q, e)
         /\ \A e \in Ends : IsLine(cs[sv[p][q].conn], p, q, e) =>
              cs[sv[p][q].conn].open[e] /\ cs[sv[p][q].conn].udata[e]
         /\ \A e \in Ends : IsLine(cs[sv[p][q].conn], q, p, e) =>
              cs[sv[p][q].conn].open[Other(e)] /\ cs[sv[p][q].conn].udata[Other(e)]
<1>1. sv[p][q].conn \in Slots
  BY ServTypes
<1> DEFINE c == cs[sv[p][q].conn]
<1>2. PICK x \in Ends : Held(c, p, q, x)
  BY DEF NetOK, Entries, EntryOK
<1> HIDE DEF c
<1>3. \A e \in Ends : IsLine(c, p, q, e) => e = x
  BY <1>2, OtherEnd DEF Held, IsLine
<1>4. \A e \in Ends : IsLine(c, q, p, e) => Other(e) = x
  BY <1>2, OtherEnd DEF Held, IsLine
<1>5. /\ \A e \in Ends : IsLine(c, p, q, e) => c.open[e] /\ c.udata[e]
      /\ \A e \in Ends : IsLine(c, q, p, e) => c.open[Other(e)] /\ c.udata[Other(e)]
  BY <1>2, <1>3, <1>4 DEF Held
<1> QED BY <1>1, <1>2, <1>5 DEF c

\* End x of c is closed because the other one is, or because the server that has
\* been dialed refuses; whoever is at e is not refused.
CloseReason(c, e, x) == ~c.open[Other(x)] \/ (x # e /\ x = 1 /\ ~c.udata[2])

\* The entry of b at a after its connection is closed.
ClosedEntry(s, t) == t.conn = NULL /\ ~t.est /\ t.req = s.req /\ t.hash \subseteq s.hash

LEMMA PairClose ==
  ASSUME NEW cf, NEW cs \in ConnsT, NEW ds, NEW sv \in ServsT, NEW sw, NEW ca, NEW cb, NEW td,
         NEW p \in Procs, NEW q \in Procs, p # q, NetOK(cf, cs, sv), PairOK(cs, sv, ca, td, p, q),
         NEW k \in Slots, NEW x \in Ends, cs[k].open[x], OnlySlot(cs, ds, k), ShutEnd(cs[k], ds[k], x),
         NEW a \in Procs, NEW b \in Procs, a = cs[k].ends[x], b = cs[k].ends[Other(x)],
         OnlyEntry(sv, sw, a, b), cs[k].udata[x] => ClosedEntry(sv[a][b], sw[a][b]),
         ~cs[k].udata[x] => sw = sv,
         \A n \in sv[p][q].hash : cb[n].req = ca[n].req,
         \A e \in Ends : IsLine(cs[k], p, q, e) => CloseReason(cs[k], e, x)
  PROVE  PairOK(ds, sw, cb, td, p, q)
<1> DEFINE s == sv[p][q]
           g == sv[q][p]
           t == sw[p][q]
           h == sw[q][p]
           c == cs[k]
<1>a. ConnOK(cf, c)
  BY DEF NetOK, SlotsOK
<1>b. \A e \in Ends : IsLine(ds[k], p, q, e) => IsLine(c, p, q, e) /\ c.open[Other(x)]
  BY NoLine DEF ShutEnd, IsLine
<1>c. \A j \in Slots, e \in Ends : IsLine(cs[j], p, q, e) => Line(ca, s, g, cs[j], j, e)
  BY DEF PairOK, Lines
<1>d. \A y : Token(ca, s, y) => Token(cb, s, y)
  BY TokenLess
<1>1. CASE ~c.udata[x] \/ ~(\E e \in Ends : IsLine(c, p, q, e))
  <2>1. t = s /\ h = g
    <3>1. CASE ~c.udata[x]
      BY <3>1
    <3>2. CASE ~(\E e \in Ends : IsLine(c, p, q, e))
      <4>1. ~IsLine(c, p, q, x) /\ ~IsLine(c, p, q, Other(x))
        BY <3>2, OtherEnd
      <4>2. ~(a = p /\ b = q) /\ ~(a = q /\ b = p)
        BY <4>1, OtherEnd DEF IsLine
      <4> QED BY <4>2 DEF OnlyEntry
    <3> QED BY <1>1, <3>1, <3>2
  <2>2. ~(\E e \in Ends : IsLine(ds[k], p, q, e))
    <3> SUFFICES ASSUME NEW e \in Ends, IsLine(ds[k], p, q, e) PROVE FALSE
      OBVIOUS
    <3>1. IsLine(c, p, q, e) /\ c.open[Other(x)]
      BY <1>b
    <3>2. ~c.udata[x] /\ Line(ca, s, g, c, k, e) /\ CloseReason(c, e, x)
      BY <1>1, <1>c, <3>1
    <3>4. x = 1
      BY <3>1, <3>2 DEF CloseReason
    <3> QED BY <3>2, <3>4, <1>a DEF ConnOK
  <2>3. PairSame(cs, ds, sv, sw, ca, cb, td, td, p, q)
    BY <2>1, <2>2 DEF PairSame, OnlySlot, SameEntry
  <2> QED BY <2>3, PairFrame
<1>2. ASSUME c.udata[x], NEW e \in Ends, IsLine(c, p, q, e), x = e
      PROVE  PairOK(ds, sw, cb, td, p, q)
  <2>1. Line(ca, s, g, c, k, e)
    BY <1>2, <1>c
  <2>2. a = p /\ b = q /\ ClosedEntry(s, t) /\ h = g
    BY <1>2 DEF IsLine, OnlyEntry
  <2>0. CloseReason(c, e, x)
    BY <1>2
  <2>3. ~c.open[Other(e)]
    BY <1>2, <2>0 DEF CloseReason
  <2>4. s.conn = k
    <3> HIDE DEF s, g, c
    <3> QED BY <1>2, <2>1, LineFacts
  <2>5. Lines(ds, t, h, cb, p, q)
    <3> SUFFICES ASSUME NEW j \in Slots, NEW f \in Ends, IsLine(ds[j], p, q, f)
                 PROVE  Line(cb, t, h, ds[j], j, f)
      BY DEF Lines
    <3>1. j # k /\ ds[j] = cs[j]
      BY <1>2, <1>b, <2>3 DEF OnlySlot
    <3>2. Line(ca, s, g, cs[j], j, f)
      BY <1>c, <3>1
    <3>3. ~cs[j].udata[f]
      <4> HIDE DEF s, g
      <4> QED BY <2>4, <3>1, <3>2, LineFacts
    <3> HIDE DEF s, g, t, h
    <3> QED BY <2>2, <3>1, <3>2, <3>3, LineLost DEF ClosedEntry
  <2>6. ASSUME NEW y \in td[q], y.from = p
        PROVE  FALSE
    <3>1. Kept(ca, s, g, y)
      BY <2>6 DEF PairOK
    <3>2. g.conn # NULL /\ g.conn = k
      BY <2>4, <3>1, Zenon DEF Kept
    <3>3. c.open[Other(e)]
      BY <1>2, <3>2, HeldBy
    <3> QED BY <2>3, <3>3
  <2>7. \A n \in t.hash : cb[n].req < t.req
    BY <2>2 DEF PairOK, ClosedEntry
  <2> QED BY <2>2, <2>5, <2>6, <2>7 DEF PairOK, ClosedEntry
<1>3. ASSUME c.udata[x], NEW e \in Ends, IsLine(c, p, q, e), x = Other(e)
      PROVE  PairOK(ds, sw, cb, td, p, q)
  <2>1. Line(ca, s, g, c, k, e)
    BY <1>3, <1>c
  <2>2. a = q /\ b = p /\ ClosedEntry(g, h) /\ t = s
    BY <1>3, OtherEnd, SMTT(40) DEF IsLine, OnlyEntry
  <2>3. c.open[e]
    BY <1>3, <2>1 DEF Line
  <2>4. c.open[Other(x)]
    BY <1>3, <2>3, OtherEnd
  <2>5. x = 1 /\ e = 2 /\ ~c.udata[e]
    BY <1>3, <2>4, OtherEnd DEF CloseReason, Ends
  <2>6. g.conn = k
    <3> HIDE DEF s, g, c
    <3> QED BY <1>3, <2>1, LineFacts
  <2>7. Lines(ds, t, h, cb, p, q)
    <3> SUFFICES ASSUME NEW j \in Slots, NEW f \in Ends, IsLine(ds[j], p, q, f)
                 PROVE  Line(cb, t, h, ds[j], j, f)
      BY DEF Lines
    <3>0. ~h.est /\ t = s
      BY <2>2 DEF ClosedEntry
    <3>1. Line(ca, s, h, ds[j], j, f)
      <4>1. CASE j = k
        <5>1. f = e
          BY <1>3, <1>b, <4>1, LineEnds DEF IsLine
        <5> HIDE DEF s, g, t, h
        <5> QED BY <1>3, <2>1, <2>3, <3>0, <4>1, <5>1, LineShut
      <4>2. CASE j # k
        <5>1. ds[j] = cs[j]
          BY <4>2 DEF OnlySlot
        <5>2. Line(ca, s, g, cs[j], j, f)
          BY <1>c, <5>1
        <5>3. ~cs[j].udata[Other(f)]
          <6> HIDE DEF s, g
          <6>1. cs[j].udata[Other(f)] => g.conn = j
            BY <5>2, LineFacts
          <6> QED BY <2>6, <4>2, <6>1
        <5> HIDE DEF s, g, t, h
        <5> QED BY <3>0, <5>1, <5>2, <5>3, LineGone
      <4> QED BY <4>1, <4>2
    <3>2. SameEntry(s, s) /\ SameEntry(h, h)
      BY DEF SameEntry
    <3> HIDE DEF s, g, t, h
    <3> QED BY <1>d, <3>0, <3>1, <3>2, LineSame
  <2>8. ASSUME NEW y \in td[q], y.from = p
        PROVE  FALSE
    <3>1. Kept(ca, s, g, y)
      BY <2>8 DEF PairOK
    <3>3. s.conn # NULL /\ s.conn = k
      BY <2>6, <3>1, ZenonT(60) DEF Kept
    <3>2. c.udata[e]
      BY <1>3, <3>3, HeldBy
    <3> QED BY <2>5, <3>2, SMTT(40)
  <2> QED BY <2>2, <2>7, <2>8 DEF PairOK, ClosedEntry
<1> QED BY <1>1, <1>2, <1>3, OtherEnd

\* What the death of r does to connection c.
DeadConn(c, d, r) ==
  /\ \A x \in Ends : c.ends[x] = r /\ c.open[x] => ShutEnd(c, d, x)
  /\ (\A x \in Ends : ~(c.ends[x] = r /\ c.open[x])) => d = c

Dying(cs, ds, sv, sw, td, te, r) ==
  /\ \A k \in Slots : DeadConn(cs[k], ds[k], r)
  /\ \A x, y \in Procs : x # r => sw[x][y] = sv[x][y]
  /\ \A y \in Procs : ~sw[r][y].est
  /\ te[r] = {} /\ \A x \in Procs : x # r => te[x] = td[x]

LEMMA PairDies ==
  ASSUME NEW cf, NEW cs \in ConnsT, NEW ds, NEW sv \in ServsT, NEW sw, NEW ca, NEW cb, NEW td, NEW te,
         NEW p \in Procs, NEW q \in Procs, p # q, NetOK(cf, cs, sv), PairOK(cs, sv, ca, td, p, q),
         NEW r \in Procs, r # p, Dying(cs, ds, sv, sw, td, te, r),
         \A n \in sv[p][q].hash : cb[n].req = ca[n].req
  PROVE  PairOK(ds, sw, cb, te, p, q)
<1> USE DEF Dying
<1> DEFINE s == sv[p][q]
           g == sv[q][p]
           h == sw[q][p]
<1>a. sw[p][q] = s
  OBVIOUS
<1>b. \A k \in Slots, e \in Ends : IsLine(ds[k], p, q, e) => IsLine(cs[k], p, q, e)
  <2> SUFFICES ASSUME NEW k \in Slots, NEW e \in Ends, IsLine(ds[k], p, q, e)
               PROVE  IsLine(cs[k], p, q, e)
    OBVIOUS
  <2>1. DeadConn(cs[k], ds[k], r)
    OBVIOUS
  <2>2. ds[k].ends = cs[k].ends \/ ds[k] = NoConn
    BY <2>1 DEF DeadConn, ShutEnd
  <2> QED BY <2>2, NoLine DEF IsLine
<1>1. CASE r # q
  <2>1. ASSUME NEW k \in Slots, NEW e \in Ends, IsLine(ds[k], p, q, e)
        PROVE  ds[k] = cs[k]
    <3>1. IsLine(cs[k], p, q, e) /\ DeadConn(cs[k], ds[k], r)
      BY <1>b, <2>1
    <3> QED BY <1>1, <3>1, OtherEnd DEF IsLine, DeadConn
  <2>2. PairSame(cs, ds, sv, sw, ca, cb, td, te, p, q)
    BY <1>1, <2>1 DEF PairSame, SameEntry
  <2> QED BY <2>2, PairFrame
<1>2. CASE r = q
  <2>0. \A y : Token(ca, s, y) => Token(cb, s, y)
    BY TokenLess
  <2>1. ~h.est /\ te[q] = {}
    BY <1>2
  <2>2. Lines(ds, s, h, cb, p, q)
    <3> SUFFICES ASSUME NEW k \in Slots, NEW e \in Ends, IsLine(ds[k], p, q, e)
                 PROVE  Line(cb, s, h, ds[k], k, e)
      BY DEF Lines
    <3> DEFINE c == cs[k]
               d == ds[k]
    <3>1. IsLine(c, p, q, e) /\ DeadConn(c, d, q) /\ ConnOK(cf, c)
      BY <1>b, <1>2 DEF NetOK, SlotsOK
    <3>2. Line(ca, s, g, c, k, e)
      BY <3>1 DEF PairOK, Lines
    <3> HIDE DEF s, g, h, c, d
    <3>3. CASE c.open[Other(e)]
      <4>1. ShutEnd(c, d, Other(e)) /\ c.open[e]
        BY <3>1, <3>2, <3>3, OtherEnd, LineFacts DEF IsLine, DeadConn
      <4>2. Line(ca, s, h, d, k, e)
        BY <2>1, <3>2, <4>1, LineShut
      <4>3. SameEntry(s, s) /\ SameEntry(h, h)
        BY DEF SameEntry
      <4> QED BY <2>0, <4>2, <4>3, LineSame DEF d
    <3>4. CASE ~c.open[Other(e)]
      <4>1. ~c.udata[Other(e)]
        BY <3>1, <3>4, OtherEnd DEF ConnOK
      <4>2. \A x \in Ends : ~(c.ends[x] = q /\ c.open[x])
        BY ONLY <3>1, <3>4, p # q, e \in Ends, LineEnds
      <4>3. d = c
        BY <3>1, <4>2 DEF DeadConn
      <4>4. Line(ca, s, h, c, k, e)
        BY <2>1, <3>2, <4>1, LineGone
      <4>5. SameEntry(s, s) /\ SameEntry(h, h)
        BY DEF SameEntry
      <4> QED BY <2>0, <4>3, <4>4, <4>5, LineSame DEF d
    <3> QED BY <3>3, <3>4
  <2> QED BY <1>a, <2>1, <2>2 DEF PairOK
<1> QED BY <1>1, <1>2

---------------------------------------------------------------------------
(* Lines that are opened.                                                  *)

\* Of two processes of a group with a configuration only the higher one dials.
LEMMA OneDirection ==
  ASSUME NEW cf, cf # {}, NEW c, NEW d, ConnOK(cf, c), ConnOK(cf, d), NEW p \in Procs, NEW q \in Procs,
         NEW e \in Ends, NEW x \in Ends, IsLine(c, p, q, e), IsLine(d, p, q, x), c.open[e], x # e
  PROVE  \A y \in Ends : ~d.open[y] /\ ~d.udata[y]
<1>1. EndsOK(cf, c)
  BY EndProcs
<1>2. SUFFICES ASSUME NEW y \in Ends, d.open[y] \/ d.udata[y]
               PROVE  FALSE
  OBVIOUS
<1>3. EndsOK(cf, d)
  BY <1>2, EndProcs
<1>4. p \in Nat /\ q \in Nat
  BY ProcsAssumption
<1>5. (e = 1 /\ x = 2) \/ (e = 2 /\ x = 1)
  BY DEF Ends
<1> QED BY <1>1, <1>3, <1>4, <1>5, OtherEnd DEF EndsOK, IsLine

\* v, which has the dialer's end of the free slot k, dials w.
NewLine(d) ==
  /\ d.open[1] /\ d.open[2] /\ d.udata[1] /\ ~d.udata[2]
  /\ DOMAIN d.chan[1] = {} /\ \A i \in DOMAIN d.chan[2] : i = 1 /\ d.chan[2][i] = Identify

LEMMA PairDial ==
  ASSUME NEW cf, NEW cs \in ConnsT, NEW ds, NEW sv \in ServsT, NEW sw, NEW ca, NEW td,
         NEW p \in Procs, NEW q \in Procs, p # q, NetOK(cf, cs, sv), PairOK(cs, sv, ca, td, p, q),
         NEW k \in Slots, OnlySlot(cs, ds, k), NEW v \in Procs, NEW w \in Procs,
         NewLine(ds[k]), ds[k].ends[1] = v, ds[k].ends[2] = w,
         OnlyEntry(sv, sw, v, w), sv[v][w].conn = NULL, sw[v][w].conn = k,
         sw[v][w].est = sv[v][w].est, sw[v][w].req = sv[v][w].req, sw[v][w].hash = sv[v][w].hash
  PROVE  PairOK(ds, sw, ca, td, p, q)
<1> DEFINE s == sv[p][q]
           g == sv[q][p]
           t == sw[p][q]
           h == sw[q][p]
           d == ds[k]
<1>a. \A j \in Slots, e \in Ends : IsLine(cs[j], p, q, e) => Line(ca, s, g, cs[j], j, e)
  BY DEF PairOK, Lines
<1>b. \A e \in Ends : IsLine(d, p, q, e) => (e = 1 /\ v = p /\ w = q) \/ (e = 2 /\ v = q /\ w = p)
  BY OtherEnd DEF IsLine, Ends
<1>c. /\ \A x, y : ~Kind(d.chan[1], x) /\ ~HasBack(d.chan[1], y)
      /\ \A x : Kind(d.chan[2], x) => x = "identify"
      /\ \A i \in DOMAIN d.chan[2] : i = 1 /\ d.chan[2][i].type = "identify"
  BY DEF NewLine, Kind, HasBack, Identify
<1>d. k # NULL
  BY NullNoSlot
<1>1. CASE v = p /\ w = q
  <2>1. t.conn = k /\ ~t.est /\ ~s.est /\ s.conn = NULL /\ h = g /\ t.req = s.req /\ t.hash = s.hash
    BY <1>1 DEF PairOK, OnlyEntry
  <2>2. Lines(ds, t, h, ca, p, q)
    <3> SUFFICES ASSUME NEW j \in Slots, NEW e \in Ends, IsLine(ds[j], p, q, e)
                 PROVE  Line(ca, t, h, ds[j], j, e)
      BY DEF Lines
    <3>1. CASE j = k
      <4>1. e = 1
        BY <1>1, <1>b, <3>1
      <4>2. NewLine(d)
        OBVIOUS
      <4> HIDE DEF s, g, t, h, d
      <4>3. Wire(t, h, d, k)
        BY <1>c, <2>1, <4>2, OtherEnd DEF Wire, NewLine, Ends
      <4>4. Line(ca, t, h, d, k, e)
        BY <1>c, <4>1, <4>2, <4>3, OtherEnd DEF Line, NewLine
      <4> QED BY <3>1, <4>4 DEF d
    <3>2. CASE j # k
      <4>1. ds[j] = cs[j]
        BY <3>2 DEF OnlySlot
      <4>2. Line(ca, s, g, cs[j], j, e)
        BY <1>a, <4>1
      <4> HIDE DEF s, g, t, h
      <4>3. cs[j].udata[e] => s.conn = j
        BY <4>2, LineFacts
      <4>4. ~cs[j].udata[e]
        BY <2>1, <4>3, NullNoSlot
      <4> QED BY <2>1, <4>1, <4>2, <4>4, LineLost
    <3> QED BY <3>1, <3>2
  <2>3. \A y \in td[q] : y.from # p
    BY <2>1 DEF PairOK, Kept
  <2>4. \A n \in t.hash : ca[n].req < t.req
    BY <2>1 DEF PairOK
  <2>5. h.est => h.conn # NULL
    BY <2>1 DEF PairOK
  <2> QED BY <2>1, <2>2, <2>3, <2>4, <2>5 DEF PairOK
<1>2. CASE v = q /\ w = p
  <2>1. h.conn = k /\ ~h.est /\ ~g.est /\ g.conn = NULL /\ t = s
    BY <1>2 DEF PairOK, OnlyEntry
  <2>2. Lines(ds, t, h, ca, p, q)
    <3> SUFFICES ASSUME NEW j \in Slots, NEW e \in Ends, IsLine(ds[j], p, q, e)
                 PROVE  Line(ca, t, h, ds[j], j, e)
      BY DEF Lines
    <3>1. CASE j = k
      <4>1. e = 2
        BY <1>2, <1>b, <3>1
      <4>2. NewLine(d)
        OBVIOUS
      <4> HIDE DEF s, g, t, h, d
      <4>3. Wire(h, t, d, k)
        BY <1>c, <2>1, <4>2, OtherEnd DEF Wire, NewLine, Ends
      <4>4. Line(ca, t, h, d, k, e)
        BY <1>c, <4>1, <4>2, <4>3, OtherEnd DEF Line, NewLine
      <4> QED BY <3>1, <4>4 DEF d
    <3>2. CASE j # k
      <4>1. ds[j] = cs[j]
        BY <3>2 DEF OnlySlot
      <4>2. Line(ca, s, g, cs[j], j, e)
        BY <1>a, <4>1
      <4> HIDE DEF s, g, t, h
      <4>3. cs[j].udata[Other(e)] => g.conn = j
        BY <4>2, LineFacts
      <4>4. ~cs[j].udata[Other(e)]
        BY <2>1, <4>3, NullNoSlot
      <4> QED BY <2>1, <4>1, <4>2, <4>4, LineGone
    <3> QED BY <3>1, <3>2
  <2>3. \A y \in td[q] : y.from # p
    BY <2>1 DEF PairOK, Kept
  <2> QED BY <2>1, <2>2, <2>3 DEF PairOK
<1>3. CASE ~(v = p /\ w = q) /\ ~(v = q /\ w = p)
  <2>1. t = s /\ h = g
    BY <1>3 DEF OnlyEntry
  <2>2. \A j \in Slots, e \in Ends : IsLine(ds[j], p, q, e) => ds[j] = cs[j]
    BY <1>b, <1>3 DEF OnlySlot
  <2>3. PairSame(cs, ds, sv, sw, ca, ca, td, td, p, q)
    BY <2>1, <2>2 DEF PairSame, SameEntry
  <2> QED BY <2>3, PairFrame
<1> QED BY <1>1, <1>2, <1>3

\* Without an established entry there is neither a call nor an answer.
LEMMA LineQuiet ==
  ASSUME NEW ca, NEW s, NEW g, NEW c, NEW k, NEW e \in Ends, Line(ca, s, g, c, k, e), ~s.est \/ ~c.udata[e]
  PROVE  ~Kind(c.chan[Other(e)], "call") /\ ~Kind(c.chan[e], "ret")
BY DEF Line, Kind

\* A line without calls, answers and refusals is good when its wire is.
LEMMA LineOfWire ==
  ASSUME NEW ca, NEW s, NEW g, NEW c, NEW k, NEW e \in Ends, c.open[Other(e)] => c.open[e],
         ~Kind(c.chan[Other(e)], "call"), ~Kind(c.chan[e], "ret"), e = 1 => ~HasBack(c.chan[1], 0),
         IF e = 1 THEN Wire(s, g, c, k) ELSE Wire(g, s, c, k)
  PROVE  Line(ca, s, g, c, k, e)
BY DEF Line, Kind

\* The acceptor's end of c gets its udata.
TookUp(c, d) ==
  /\ d.ends = c.ends /\ d.open = c.open /\ d.chan = c.chan
  /\ d.udata[1] = c.udata[1] /\ d.udata[2]

LEMMA PairAccept ==
  ASSUME NEW cf, cf # {}, NEW cs \in ConnsT, NEW ds, NEW sv \in ServsT, NEW sw, NEW ca, NEW td,
         NEW p \in Procs, NEW q \in Procs, p # q, NetOK(cf, cs, sv), PairOK(cs, sv, ca, td, p, q),
         NEW k \in Slots, OnlySlot(cs, ds, k), TookUp(cs[k], ds[k]), cs[k].open[2], ~cs[k].udata[2],
         NEW v \in Procs, NEW w \in Procs, cs[k].ends[1] = v, cs[k].ends[2] = w,
         OnlyEntry(sv, sw, w, v), sw[w][v].conn = k, sw[w][v].est, sw[w][v].hash = {},
         w = p /\ v = q => ~sv[p][q].est,
         \A e \in Ends : IsLine(cs[k], p, q, e) => DOMAIN cs[k].chan[1] = {}
  PROVE  PairOK(ds, sw, ca, td, p, q)
<1> DEFINE s == sv[p][q]
           g == sv[q][p]
           t == sw[p][q]
           h == sw[q][p]
           c == cs[k]
           d == ds[k]
<1>a. \A j \in Slots, e \in Ends : IsLine(cs[j], p, q, e) => Line(ca, s, g, cs[j], j, e)
  BY DEF PairOK, Lines
<1>b. \A j \in Slots : ConnOK(cf, cs[j])
  BY DEF NetOK, SlotsOK
<1>c. \A e \in Ends : IsLine(d, p, q, e) => (e = 1 /\ v = p /\ w = q) \/ (e = 2 /\ v = q /\ w = p)
  BY OtherEnd DEF IsLine, Ends, TookUp
<1>d. k # NULL
  BY NullNoSlot
<1>e. 1 \in Ends /\ 2 \in Ends /\ Other(1) = 2 /\ Other(2) = 1
  BY OtherEnd DEF Ends
<1>f. ASSUME NEW a, NEW b, NEW b2, Wire(a, b, c, k), b2.conn = k, b2.est, DOMAIN c.chan[1] = {}
      PROVE  Wire(a, b2, d, k) /\ ~HasBack(d.chan[1], 0)
  <2>1. TookUp(c, d)
    OBVIOUS
  <2> HIDE DEF c, d
  <2> QED BY <1>f, <2>1 DEF Wire, TookUp, HasBack
<1>1. CASE w = p /\ v = q
  <2>1. t.conn = k /\ t.est /\ ~s.est /\ h = g /\ t.hash = {}
    BY <1>1 DEF OnlyEntry
  <2>2. IsLine(c, p, q, 2)
    BY <1>1, <1>e DEF IsLine
  <2>3. Line(ca, s, g, c, k, 2) /\ DOMAIN c.chan[1] = {}
    BY <1>a, <1>e, <2>2
  <2>4. Lines(ds, t, h, ca, p, q)
    <3> SUFFICES ASSUME NEW j \in Slots, NEW e \in Ends, IsLine(ds[j], p, q, e)
                 PROVE  Line(ca, t, h, ds[j], j, e)
      BY DEF Lines
    <3>1. CASE j = k
      <4>1. e = 2 /\ TookUp(c, d)
        BY <1>1, <1>c, <3>1
      <4> HIDE DEF s, g, t, h, c, d
      <4>2. ~Kind(c.chan[1], "call") /\ ~Kind(c.chan[2], "ret")
        BY <1>e, <2>1, <2>3, LineQuiet
      <4>3. Wire(g, s, c, k) /\ (c.open[1] => c.open[2])
        BY <1>e, <2>3 DEF Line
      <4>4. Wire(h, t, d, k)
        BY <1>f, <2>1, <2>3, <4>3
      <4>5. Line(ca, t, h, d, k, 2)
        BY <1>e, <4>1, <4>2, <4>3, <4>4, LineOfWire DEF TookUp
      <4> QED BY <3>1, <4>1, <4>5 DEF d
    <3>2. CASE j # k
      <4>1. ds[j] = cs[j]
        BY <3>2 DEF OnlySlot
      <4>2. Line(ca, s, g, cs[j], j, e)
        BY <1>a, <4>1
      <4>3. CASE e = 2
        <5> HIDE DEF s, g, t, h, c, d
        <5>1. ~cs[j].udata[2]
          BY <2>1, <4>2, <4>3, LineFacts
        <5>2. ~Kind(cs[j].chan[Other(e)], "call") /\ ~Kind(cs[j].chan[e], "ret")
          BY <2>1, <4>2, LineQuiet
        <5>3. Wire(g, s, cs[j], j) /\ (cs[j].open[Other(e)] => cs[j].open[e])
          BY <4>2, <4>3 DEF Line
        <5>4. Wire(h, t, cs[j], j)
          BY <2>1, <5>1, <5>3 DEF Wire
        <5> QED BY <4>1, <4>3, <5>2, <5>3, <5>4, LineOfWire
      <4>4. CASE e = 1
        <5>1. \A y \in Ends : ~cs[j].open[y] /\ ~cs[j].udata[y]
          <6>1. ConnOK(cf, c) /\ ConnOK(cf, cs[j]) /\ IsLine(cs[j], p, q, 1) /\ c.open[2]
            BY <1>b, <4>1, <4>4
          <6> HIDE DEF c
          <6>2. 1 # 2
            OBVIOUS
          <6> QED BY ONLY <1>e, <2>2, <6>1, <6>2, OneDirection, cf # {}, p \in Procs, q \in Procs, Zenon
        <5> HIDE DEF s, g, t, h, c, d
        <5> QED BY <4>1, <4>2, <5>1, LineDead
      <4> QED BY <4>3, <4>4 DEF Ends
    <3> QED BY <3>1, <3>2
  <2>5. \A y \in td[q] : y.from # p
    BY <2>1 DEF PairOK, Kept
  <2>6. h.est => h.conn # NULL
    BY <2>1 DEF PairOK
  <2> QED BY <1>d, <2>1, <2>4, <2>5, <2>6 DEF PairOK
<1>2. CASE w = q /\ v = p
  <2>1. h.conn = k /\ h.est /\ t = s
    BY <1>2 DEF OnlyEntry
  <2>2. IsLine(c, p, q, 1)
    BY <1>2, <1>e DEF IsLine
  <2>3. Line(ca, s, g, c, k, 1) /\ DOMAIN c.chan[1] = {}
    BY <1>a, <1>e, <2>2
  <2>4. c.open[1] /\ c.open[2] /\ ~c.udata[2] /\ c.udata[1]
    BY <1>b, <1>e, <2>3 DEF Line, ConnOK
  <2>5. s.conn = k /\ ~s.est
    <3> HIDE DEF s, g, t, h, c, d
    <3> QED BY <1>e, <2>3, <2>4, LineFacts
  <2>6. Lines(ds, t, h, ca, p, q)
    <3> SUFFICES ASSUME NEW j \in Slots, NEW e \in Ends, IsLine(ds[j], p, q, e)
                 PROVE  Line(ca, t, h, ds[j], j, e)
      BY DEF Lines
    <3>1. CASE j = k
      <4>1. e = 1 /\ TookUp(c, d)
        BY <1>2, <1>c, <3>1
      <4> HIDE DEF s, g, t, h, c, d
      <4>2. ~Kind(c.chan[2], "call") /\ ~Kind(c.chan[1], "ret")
        BY <1>e, <2>5, <2>3, LineQuiet
      <4>3. Wire(s, g, c, k) /\ (c.open[2] => c.open[1])
        BY <1>e, <2>3 DEF Line
      <4>4. Wire(t, h, d, k) /\ ~HasBack(d.chan[1], 0)
        BY <1>f, <2>1, <2>3, <4>3
      <4>5. Line(ca, t, h, d, k, 1)
        BY <1>e, <4>1, <4>2, <4>3, <4>4, LineOfWire DEF TookUp
      <4> QED BY <3>1, <4>1, <4>5 DEF d
    <3>2. CASE j # k
      <4>1. ds[j] = cs[j]
        BY <3>2 DEF OnlySlot
      <4>2. Line(ca, s, g, cs[j], j, e) /\ ConnOK(cf, cs[j])
        BY <1>a, <1>b, <4>1
      <4>3. \A y \in Ends : ~cs[j].open[y] /\ ~cs[j].udata[y]
        <5>1. CASE e = 1
          <6> HIDE DEF s, g, t, h, c, d
          <6>1. ~cs[j].udata[1]
            BY <2>5, <3>2, <4>2, <5>1, LineFacts
          <6>2. ~cs[j].open[1]
            BY <4>2, <6>1 DEF ConnOK
          <6>3. ~cs[j].open[2]
            BY <1>e, <4>2, <5>1, <6>2, LineFacts
          <6> QED BY <4>2, <6>1, <6>2, <6>3 DEF ConnOK, Ends
        <5>2. CASE e = 2
          <6>1. ConnOK(cf, c) /\ ConnOK(cf, cs[j]) /\ IsLine(cs[j], p, q, 2)
            BY <1>b, <4>1, <5>2
          <6> HIDE DEF c
          <6> QED BY ONLY <1>e, <2>2, <2>4, <6>1, OneDirection, cf # {}, p \in Procs, q \in Procs
        <5> QED BY <5>1, <5>2 DEF Ends
      <4> HIDE DEF s, g, t, h, c, d
      <4> QED BY <4>1, <4>2, <4>3, LineDead
    <3> QED BY <3>1, <3>2
  <2>7. \A y \in td[q] : y.from # p
    BY <2>5 DEF PairOK, Kept
  <2> QED BY <1>d, <2>1, <2>6, <2>7 DEF PairOK
<1>3. CASE ~(w = p /\ v = q) /\ ~(w = q /\ v = p)
  <2>1. t = s /\ h = g
    BY <1>3 DEF OnlyEntry
  <2>2. \A j \in Slots, e \in Ends : IsLine(ds[j], p, q, e) => ds[j] = cs[j]
    BY <1>c, <1>3 DEF OnlySlot
  <2>3. PairSame(cs, ds, sv, sw, ca, ca, td, td, p, q)
    BY <2>1, <2>2 DEF PairSame, SameEntry
  <2> QED BY <2>3, PairFrame
<1> QED BY <1>1, <1>2, <1>3

\* v has the answer 1 of w at end x of k.
LEMMA PairEstablish ==
  ASSUME NEW cf, cf # {}, NEW cs \in ConnsT, NEW sv \in ServsT, NEW sw, NEW ca, NEW td,
         NEW p \in Procs, NEW q \in Procs, p # q, NetOK(cf, cs, sv), PairOK(cs, sv, ca, td, p, q),
         NEW k \in Slots, NEW x \in Ends, cs[k].udata[x],
         NEW v \in Procs, NEW w \in Procs, cs[k].ends[x] = v, cs[k].ends[Other(x)] = w,
         OnlyEntry(sv, sw, v, w), sw[v][w].conn = sv[v][w].conn, sw[v][w].est, sw[v][w].hash = {},
         \A e \in Ends : IsLine(cs[k], p, q, e) =>
           x = 1 /\ ~sv[v][w].est /\ (cs[k].open[2] => cs[k].udata[2]) /\ ~Kind(cs[k].chan[1], "back")
  PROVE  PairOK(cs, sw, ca, td, p, q)
<1> DEFINE s == sv[p][q]
           g == sv[q][p]
           t == sw[p][q]
           h == sw[q][p]
           c == cs[k]
<1>a. \A j \in Slots, e \in Ends : IsLine(cs[j], p, q, e) => Line(ca, s, g, cs[j], j, e)
  BY DEF PairOK, Lines
<1>b. \A j \in Slots : ConnOK(cf, cs[j])
  BY DEF NetOK, SlotsOK
<1>d. k # NULL
  BY NullNoSlot
<1>e. 1 \in Ends /\ 2 \in Ends /\ Other(1) = 2 /\ Other(2) = 1 /\ 1 # 2
  BY OtherEnd DEF Ends
<1>1. CASE v = p /\ w = q
  <2>1. t.conn = s.conn /\ t.est /\ h = g /\ t.hash = {}
    BY <1>1 DEF OnlyEntry
  <2>2. IsLine(c, p, q, x)
    BY <1>1 DEF IsLine
  <2>3. x = 1 /\ ~s.est /\ (c.open[2] => c.udata[2]) /\ ~Kind(c.chan[1], "back") /\ Line(ca, s, g, c, k, x)
    BY <1>1, <1>a, <2>2
  <2>4. s.conn = k /\ c.open[1]
    <3>1. ConnOK(cf, c) /\ c.udata[1]
      BY <1>b, <2>3
    <3> HIDE DEF s, g, t, h, c
    <3> QED BY <1>e, <2>3, <3>1, LineFacts DEF ConnOK
  <2>5. Lines(cs, t, h, ca, p, q)
    <3> SUFFICES ASSUME NEW j \in Slots, NEW e \in Ends, IsLine(cs[j], p, q, e)
                 PROVE  Line(ca, t, h, cs[j], j, e)
      BY DEF Lines
    <3>1. CASE j = k
      <4>1. e = 1
        BY <2>2, <2>3, <3>1, LineEnds DEF IsLine
      <4> HIDE DEF s, g, t, h, c
      <4>2. ~Kind(c.chan[2], "call") /\ ~Kind(c.chan[1], "ret")
        BY <1>e, <2>3, LineQuiet
      <4>3. Wire(s, g, c, k) /\ (c.open[2] => c.open[1]) /\ ~HasBack(c.chan[1], 0)
        BY <1>e, <2>3 DEF Line
      <4>4. Wire(t, h, c, k)
        BY <2>1, <2>3, <2>4, <4>3 DEF Wire, Kind
      <4>5. Line(ca, t, h, c, k, 1)
        BY <1>e, <4>2, <4>3, <4>4, LineOfWire
      <4> QED BY <3>1, <4>1, <4>5 DEF c
    <3>2. CASE j # k
      <4>1. Line(ca, s, g, cs[j], j, e) /\ ConnOK(cf, cs[j])
        BY <1>a, <1>b
      <4>2. \A y \in Ends : ~cs[j].open[y] /\ ~cs[j].udata[y]
        <5>1. CASE e = 1
          <6> HIDE DEF s, g, t, h, c
          <6>1. ~cs[j].udata[1]
            BY <2>4, <3>2, <4>1, <5>1, LineFacts
          <6>2. ~cs[j].open[1]
            BY <4>1, <6>1 DEF ConnOK
          <6>3. ~cs[j].open[2]
            BY <1>e, <4>1, <5>1, <6>2, LineFacts
          <6> QED BY <4>1, <6>1, <6>2, <6>3 DEF ConnOK, Ends
        <5>2. CASE e = 2
          <6>1. ConnOK(cf, c) /\ ConnOK(cf, cs[j]) /\ IsLine(cs[j], p, q, 2) /\ IsLine(c, p, q, 1)
            BY <1>b, <2>2, <2>3, <5>2
          <6> HIDE DEF c
          <6> QED BY ONLY <1>e, <2>4, <6>1, OneDirection, cf # {}, p \in Procs, q \in Procs, Zenon
        <5> QED BY <5>1, <5>2 DEF Ends
      <4> HIDE DEF s, g, t, h, c
      <4> QED BY <4>1, <4>2, LineDead
    <3> QED BY <3>1, <3>2
  <2>6. \A y \in td[q] : y.from # p
    BY <2>3 DEF PairOK, Kept
  <2>7. h.est => h.conn # NULL
    BY <2>1 DEF PairOK
  <2> QED BY <1>d, <2>1, <2>4, <2>5, <2>6, <2>7 DEF PairOK
<1>2. CASE v = q /\ w = p
  <2>1. h.conn = g.conn /\ h.est /\ t = s
    BY <1>2 DEF OnlyEntry
  <2>2. IsLine(c, p, q, Other(x))
    BY <1>2, OtherEnd DEF IsLine
  <2>3. x = 1 /\ (c.open[2] => c.udata[2]) /\ ~Kind(c.chan[1], "back")
    BY <1>2, <1>a, <2>2, OtherEnd
  <2>4. IsLine(c, p, q, 2) /\ Line(ca, s, g, c, k, 2)
    BY <1>a, <1>e, <2>2, <2>3
  <2>5. g.conn = k
    <3> HIDE DEF s, g, t, h
    <3> QED BY <1>e, <2>3, <2>4, LineFacts
  <2>6. Lines(cs, t, h, ca, p, q)
    <3> SUFFICES ASSUME NEW j \in Slots, NEW e \in Ends, IsLine(cs[j], p, q, e)
                 PROVE  Line(ca, t, h, cs[j], j, e)
      BY DEF Lines
    <3>1. CASE j = k
      <4>1. e = 2
        BY <1>e, <2>4, <3>1 DEF IsLine, Ends
      <4> HIDE DEF s, g, t, h, c
      <4>3. Wire(g, s, c, k)
        BY <1>e, <2>4 DEF Line
      <4>4. Wire(h, t, c, k)
        <5>1. c.udata[1] => h.conn = k
          BY <2>1, <2>5
        <5>2. \A i \in DOMAIN c.chan[1] : c.chan[1][i].type # "back"
          BY <2>3 DEF Kind
        <5> QED BY <2>1, <2>3, <4>3, <5>1, <5>2 DEF Wire
      <4>5. Line(ca, t, h, c, k, 2)
        BY <1>e, <2>1, <2>4, <4>4 DEF Line
      <4> QED BY <3>1, <4>1, <4>5 DEF c
    <3>2. CASE j # k
      <4>1. Line(ca, s, g, cs[j], j, e) /\ ConnOK(cf, cs[j])
        BY <1>a, <1>b
      <4> HIDE DEF s, g, t, h, c
      <4>2. ~cs[j].udata[Other(e)]
        BY <2>5, <3>2, <4>1, LineFacts
      <4>3. CASE e = 1
        <5>1. Wire(s, g, cs[j], j) /\ ~cs[j].udata[2]
          BY <1>e, <4>1, <4>2, <4>3 DEF Line
        <5>2. Wire(t, h, cs[j], j)
          BY <2>1, <5>1 DEF Wire
        <5> QED BY <2>1, <4>1, <4>3, <5>2 DEF Line
      <4>4. CASE e = 2
        <5>1. Wire(g, s, cs[j], j) /\ ~cs[j].udata[1] /\ ~cs[j].open[1]
          BY <1>e, <4>1, <4>2, <4>4 DEF Line, ConnOK
        <5>2. DOMAIN cs[j].chan[1] = {}
          BY <1>e, <5>1 DEF Wire
        <5>3. Wire(h, t, cs[j], j)
          BY <2>1, <5>1, <5>2 DEF Wire
        <5> QED BY <1>e, <2>1, <4>1, <4>4, <5>3 DEF Line
      <4> QED BY <4>3, <4>4 DEF Ends
    <3> QED BY <3>1, <3>2
  <2>7. ASSUME NEW y \in td[q], y.from = p
        PROVE  Kept(ca, t, h, y)
    <3>1. Kept(ca, s, g, y)
      BY <2>7 DEF PairOK
    <3> QED BY <2>1, <3>1, Zenon DEF Kept
  <2> QED BY <1>d, <2>1, <2>5, <2>6, <2>7 DEF PairOK
<1>3. CASE ~(v = p /\ w = q) /\ ~(v = q /\ w = p)
  <2>1. t = s /\ h = g
    BY <1>3 DEF OnlyEntry
  <2>2. PairSame(cs, cs, sv, sw, ca, ca, td, td, p, q)
    BY <2>1 DEF PairSame, SameEntry
  <2> QED BY <2>2, PairFrame
<1> QED BY <1>1, <1>2, <1>3

\* p makes a call to q: a new number in its entry.
LEMMA PairNumber ==
  ASSUME NEW cs, NEW sv \in ServsT, NEW sw, NEW ca, NEW cb, NEW td, NEW p \in Procs, NEW q \in Procs, p # q,
         PairOK(cs, sv, ca, td, p, q), NEW n, n \notin sv[p][q].hash, OnlyEntry(sv, sw, p, q),
         SameEntry(sv[p][q], sw[p][q]), sw[p][q].req = sv[p][q].req + 1,
         sw[p][q].hash = sv[p][q].hash \cup {n}, cb[n].req = sv[p][q].req,
         \A m \in sv[p][q].hash : cb[m].req = ca[m].req /\ ca[m].req \in Nat
  PROVE  PairOK(cs, sw, cb, td, p, q)
<1> DEFINE s == sv[p][q]
           g == sv[q][p]
           t == sw[p][q]
           h == sw[q][p]
<1>0. s.req \in Nat /\ h = g
  BY ServTypes DEF OnlyEntry
<1>1. ASSUME NEW y, Token(ca, s, y)
      PROVE  Token(cb, t, y)
  <2>1. y.req \in Nat /\ y.req < s.req /\ \A m \in s.hash : ca[m].req = y.req => m = y.call
    BY <1>1 DEF Token
  <2>2. y.req < s.req + 1 /\ y.req # s.req
    BY <1>0, <2>1
  <2> QED BY <2>1, <2>2 DEF Token
<1>2. SameEntry(s, t) /\ SameEntry(g, h)
  BY <1>0 DEF SameEntry
<1>3. Lines(cs, t, h, cb, p, q)
  <2> SUFFICES ASSUME NEW k \in Slots, NEW e \in Ends, IsLine(cs[k], p, q, e)
               PROVE  Line(cb, t, h, cs[k], k, e)
    BY DEF Lines
  <2>1. Line(ca, s, g, cs[k], k, e)
    BY DEF PairOK, Lines
  <2> HIDE DEF s, g, t, h
  <2> QED BY <1>1, <1>2, <2>1, LineSame
<1>4. ASSUME NEW y \in td[q], y.from = p
      PROVE  Kept(cb, t, h, y)
  <2>1. Kept(ca, s, g, y)
    BY <1>4 DEF PairOK
  <2> QED BY <1>1, <1>2, <2>1 DEF Kept, SameEntry
<1>5. ASSUME NEW m \in t.hash
      PROVE  cb[m].req < t.req
  <2>1. CASE m \in s.hash
    <3>1. cb[m].req < s.req /\ cb[m].req \in Nat
      BY <2>1 DEF PairOK
    <3> QED BY <1>0, <3>1
  <2>2. CASE m = n
    BY <1>0, <2>2
  <2> QED BY <2>1, <2>2
<1> QED BY <1>2, <1>3, <1>4, <1>5 DEF PairOK, SameEntry

---------------------------------------------------------------------------
(* What the operators on connections do to packets.                        *)

LEMMA AppendGrown ==
  ASSUME NEW s \in Seq(Pkts), NEW x
  PROVE  Grown(s, Append(s, x), x)
<1> SUFFICES ASSUME NEW i \in DOMAIN Append(s, x)
             PROVE  \/ i \in DOMAIN s /\ Append(s, x)[i] = s[i]
                    \/ Append(s, x)[i] = x /\ (DOMAIN s = {} => i = 1)
  BY DEF Grown
<1>1. i \in 1 .. Len(s) + 1 /\ DOMAIN s = 1 .. Len(s) /\ Len(s) \in Nat
  OBVIOUS
<1>2. CASE i <= Len(s)
  BY <1>1, <1>2
<1>3. CASE i = Len(s) + 1
  <2>1. Append(s, x)[i] = x
    BY <1>3
  <2>2. DOMAIN s = {} => Len(s) = 0
    BY <1>1
  <2> QED BY <1>3, <2>1, <2>2
<1> QED BY <1>1, <1>2, <1>3

LEMMA SendIs ==
  ASSUME NEW cs \in ConnsT, NEW k \in Slots, NEW e \in Ends, NEW x \in Pkts, NEW ds, ds = Send(cs, k, e, x)
  PROVE  OnlySlot(cs, ds, k) /\ Sent(cs[k], ds[k], e, x)
<1>1. Other(e) \in Ends /\ Other(e) # e
  BY OtherEnd
<1>2. \A f \in Ends : cs[k].chan[f] \in Seq(Pkts)
  BY DEF ConnsT, ConnT, ChansT
<1>3. CASE cs[k].open[Other(e)]
  <2> DEFINE s == Append(cs[k].chan[Other(e)], x)
  <2>1. ds = PutChan(cs, k, Other(e), s)
    BY <1>3 DEF Send, PutChan
  <2>2. s \in Seq(Pkts) /\ Grown(cs[k].chan[Other(e)], s, x)
    BY <1>1, <1>2, AppendGrown
  <2> HIDE DEF s
  <2>3. /\ OnlySlot(cs, ds, k)
        /\ ds[k].ends = cs[k].ends /\ ds[k].open = cs[k].open /\ ds[k].udata = cs[k].udata
        /\ ds[k].chan[Other(e)] = s
        /\ \A f \in Ends : f # Other(e) => ds[k].chan[f] = cs[k].chan[f]
    BY <1>1, <2>1, <2>2, SetChan
  <2> QED BY <1>1, <1>3, <2>2, <2>3 DEF Sent
<1>4. CASE ~cs[k].open[Other(e)]
  <2> DEFINE o == cs[k].chan[e]
             s == IF Fin \in {o[i] : i \in DOMAIN o} THEN o ELSE Append(o, Fin)
  <2>1. ds = PutChan(cs, k, e, s)
    BY <1>4 DEF Send, PutChan
  <2>2. o \in Seq(Pkts) /\ Append(o, Fin) \in Seq(Pkts)
    BY <1>2, PktsAre
  <2>3. Grown(o, o, Fin) /\ Grown(o, Append(o, Fin), Fin)
    BY <2>2, AppendGrown DEF Grown
  <2>4. s \in Seq(Pkts) /\ Grown(o, s, Fin)
    BY <2>2, <2>3
  <2> HIDE DEF s
  <2>5. /\ OnlySlot(cs, ds, k)
        /\ ds[k].ends = cs[k].ends /\ ds[k].open = cs[k].open /\ ds[k].udata = cs[k].udata
        /\ ds[k].chan[e] = s
        /\ \A f \in Ends : f # e => ds[k].chan[f] = cs[k].chan[f]
    BY <2>1, <2>4, SetChan
  <2> QED BY <1>1, <1>4, <2>4, <2>5 DEF Sent
<1> QED BY <1>3, <1>4

LEMMA TailPopped ==
  ASSUME NEW s \in Seq(Pkts), s # <<>>
  PROVE  \A i \in DOMAIN Tail(s) : \E j \in DOMAIN s : j # 1 /\ Tail(s)[i] = s[j]
<1> SUFFICES ASSUME NEW i \in DOMAIN Tail(s)
             PROVE  \E j \in DOMAIN s : j # 1 /\ Tail(s)[i] = s[j]
  OBVIOUS
<1>1. i + 1 \in DOMAIN s /\ i + 1 # 1 /\ Tail(s)[i] = s[i + 1]
  OBVIOUS
<1> QED BY <1>1

LEMMA TakenIs ==
  ASSUME NEW cs \in ConnsT, NEW k \in Slots, NEW e \in Ends, cs[k].chan[e] # <<>>,
         NEW ds \in Taken(cs, k, e)
  PROVE  OnlySlot(cs, ds, k) /\ Popped(cs[k], ds[k], e)
<1>0. OnlySlot(cs, ds, k) /\ \A f \in Ends : f # e => f = Other(e)
  BY TakenQuiet, OtherEnd
<1>1. cs[k].chan[e] \in Seq(Pkts) /\ cs[k] \in ConnT /\ Other(e) \in Ends /\ Other(e) # e
  BY OtherEnd DEF ConnsT, ConnT, ChansT
<1>2. CASE ds = [cs EXCEPT ![k].chan[e] = Tail(cs[k].chan[e])]
  <2> DEFINE s == Tail(cs[k].chan[e])
  <2>1. s \in Seq(Pkts) /\ \A i \in DOMAIN s : \E j \in DOMAIN cs[k].chan[e] : j # 1 /\ s[i] = cs[k].chan[e][j]
    BY <1>1, TailPopped
  <2>2. ds = PutChan(cs, k, e, s)
    BY <1>2 DEF PutChan
  <2> HIDE DEF s
  <2>3. /\ ds[k].ends = cs[k].ends /\ ds[k].open = cs[k].open /\ ds[k].udata = cs[k].udata
        /\ ds[k].chan[e] = s
        /\ \A f \in Ends : f # e => ds[k].chan[f] = cs[k].chan[f]
    BY <2>1, <2>2, SetChan
  <2> QED BY <1>0, <1>1, <2>1, <2>3 DEF Popped
<1>3. CASE ds = [cs EXCEPT ![k].chan[e] = <<>>, ![k].missed[e] = TRUE]
  <2>1. ds[k] = [cs[k] EXCEPT !.chan = [@ EXCEPT ![e] = <<>>], !.missed = [@ EXCEPT ![e] = TRUE]]
    BY <1>3 DEF ConnsT
  <2>2. ds[k].ends = cs[k].ends /\ ds[k].open = cs[k].open /\ ds[k].udata = cs[k].udata
          /\ ds[k].chan = [cs[k].chan EXCEPT ![e] = <<>>]
    BY <1>1, <2>1 DEF ConnT
  <2>3. cs[k].chan \in [Ends -> Seq(Pkts)]
    BY <1>1 DEF ConnT, ChansT
  <2>4. ds[k].chan[e] = <<>> /\ ds[k].chan[Other(e)] = cs[k].chan[Other(e)]
    BY <1>1, <2>2, <2>3
  <2> QED BY <1>0, <2>2, <2>4 DEF Popped
<1> QED BY <1>2, <1>3 DEF Taken

LEMMA ShutIs ==
  ASSUME NEW c \in ConnT, NEW e \in Ends
  PROVE  ShutEnd(c, Shut(c, e), e)
<1> DEFINE o == Other(e)
           d == Shut(c, e)
<1>0. o \in Ends /\ o # e
  BY OtherEnd
<1>1. CASE c.open[o]
  <2> DEFINE op == [c.open EXCEPT ![e] = FALSE]
             ud == [c.udata EXCEPT ![e] = FALSE]
             ch == [f \in Ends |-> IF f = e THEN <<>> ELSE Append(c.chan[f], Fin)]
  <2>1. d.ends = c.ends /\ d.open = op /\ d.udata = ud /\ d.chan = ch
    BY <1>1 DEF Shut
  <2>2. c.open \in [Ends -> BOOLEAN] /\ c.udata \in [Ends -> BOOLEAN] /\ c.chan \in [Ends -> Seq(Pkts)]
    BY ConnFields DEF FlagsT, ChansT
  <2>3. ch[e] = <<>> /\ ch[o] = Append(c.chan[o], Fin)
    BY <1>0
  <2>4. op[e] = FALSE /\ ud[e] = FALSE /\ op[o] = c.open[o] /\ ud[o] = c.udata[o]
    BY <1>0, <2>2
  <2>5. Grown(c.chan[o], ch[o], Fin)
    BY <1>0, <2>2, <2>3, AppendGrown
  <2> HIDE DEF op, ud, ch, d
  <2> QED BY <1>1, <2>1, <2>3, <2>4, <2>5 DEF ShutEnd, d
<1>2. CASE ~c.open[o]
  BY <1>2 DEF Shut, ShutEnd
<1> QED BY <1>1, <1>2

LEMMA ConnectedIs ==
  ASSUME conns \in ConnsT, FreeSlots # {}, NEW p \in Procs, NEW q \in Procs,
         NEW k, k = Connected(p, q).slot, NEW ds, ds = Connected(p, q).conns
  PROVE  NewLine(ds[k]) /\ ds[k].ends[1] = p /\ ds[k].ends[2] = q
<1>1. k \in Slots
  BY ConnectedDials
<1>2. ds[k] = [ends |-> Both(p, q), open |-> Both(TRUE, TRUE), udata |-> Both(TRUE, FALSE),
               missed |-> Both(FALSE, FALSE), chan |-> Both(<<>>, <<Identify>>)]
  BY <1>1 DEF Connected, ConnsT
<1> DEFINE op == Both(TRUE, TRUE)
           ud == Both(TRUE, FALSE)
           ch == Both(<<>>, <<Identify>>)
           en == Both(p, q)
<1>3. /\ en[1] = p /\ en[2] = q /\ op[1] = TRUE /\ op[2] = TRUE /\ ud[1] = TRUE /\ ud[2] = FALSE
      /\ ch[1] = <<>> /\ ch[2] = <<Identify>>
  BY DEF Both, Ends
<1> HIDE DEF op, ud, ch, en
<1>a. ds[k].ends = en /\ ds[k].open = op /\ ds[k].udata = ud /\ ds[k].chan = ch
  BY <1>2 DEF op, ud, ch, en
<1>4. /\ ds[k].open[1] = TRUE /\ ds[k].open[2] = TRUE /\ ds[k].udata[1] = TRUE /\ ds[k].udata[2] = FALSE
      /\ ds[k].ends[1] = p /\ ds[k].ends[2] = q /\ ds[k].chan[1] = <<>> /\ ds[k].chan[2] = <<Identify>>
  BY <1>3, <1>a
<1>5. DOMAIN ds[k].chan[1] = {} /\ \A i \in DOMAIN ds[k].chan[2] : i = 1 /\ ds[k].chan[2][i] = Identify
  BY <1>4
<1> QED BY <1>4, <1>5 DEF NewLine

---------------------------------------------------------------------------
(* What the steps do to a pair.                                            *)

\* The calls keep their processes, their numbers and whose answer they got.
SameAnswers(ca, cb) ==
  /\ DOMAIN cb = DOMAIN ca
  /\ \A n \in DOMAIN ca : /\ cb[n].from = ca[n].from /\ cb[n].to = ca[n].to
                          /\ cb[n].req = ca[n].req /\ cb[n].wrong = ca[n].wrong

LEMMA OwnSame ==
  ASSUME NEW ca, OwnCalls(ca), SameAnswers(ca, calls'), config' = config, died \subseteq died', broken \subseteq broken'
  PROVE  OwnAnswer'
BY DEF OwnAnswer, OwnCalls, SameAnswers, InConfig

LEMMA OwnIsCalls == OwnAnswer <=> OwnCalls(calls)
BY DEF OwnAnswer, OwnCalls, InConfig

\* The calls in rpc_hash keep their numbers.
LEMMA HashReq ==
  ASSUME Inv, NEW p \in Procs, NEW q \in Procs, SameAnswers(calls, calls')
  PROVE  \A n \in serv[p][q].hash : calls'[n].req = calls[n].req
BY InvParts DEF CallsOK, HashOK, SameAnswers

LEMMA HashReqBack ==
  ASSUME Inv, NEW p \in Procs, NEW q \in Procs, NEW ca, NEW ns, Back(calls, ca, ns), SameAnswers(ca, calls')
  PROVE  \A n \in serv[p][q].hash : calls'[n].req = calls[n].req
<1> SUFFICES ASSUME NEW n \in serv[p][q].hash PROVE calls'[n].req = calls[n].req
  OBVIOUS
<1>1. n \in DOMAIN calls
  BY InvParts DEF CallsOK, HashOK
<1>2. n \in DOMAIN ca /\ ca[n].req = calls[n].req
  BY <1>1 DEF Back, CalledBack, SameCall
<1> QED BY <1>2 DEF SameAnswers

LEMMA DiedAnswers ==
  ASSUME Inv, NEW r \in Procs, NEW cs, Died(r, cs)
  PROVE  SameAnswers(calls, calls')
<1>1. calls \in Seq(CallT)
  BY InvParts
<1>2. DOMAIN calls' = DOMAIN calls
  BY DEF Died
<1>3. ASSUME NEW n \in DOMAIN calls
      PROVE  /\ calls'[n].from = calls[n].from /\ calls'[n].to = calls[n].to
             /\ calls'[n].req = calls[n].req /\ calls'[n].wrong = calls[n].wrong
  <2>1. calls[n] \in CallT
    BY <1>1
  <2>2. CASE calls'[n] = calls[n]
    BY <2>2
  <2>3. CASE calls'[n] = [calls[n] EXCEPT !.dead = TRUE, !.listed = FALSE]
    BY <2>1, <2>3 DEF CallT
  <2> QED BY <2>2, <2>3 DEF Died
<1> QED BY <1>2, <1>3 DEF SameAnswers

LEMMA PairDied ==
  ASSUME Inv, NEW r \in Procs, NEW cs \in ConnsT, NetOK(config, cs, serv), Died(r, cs),
         NEW p \in Procs, NEW q \in Procs, p # q, p \notin died', PairOK(cs, serv, calls, todo, p, q)
  PROVE  PairOK(conns', serv', calls', todo', p, q)
<1>1. serv \in ServsT /\ todo \in [Procs -> SUBSET TodoT]
  BY InvParts
<1>2. r # p
  BY DEF Died
<1>3. (\A y \in Procs : ~serv'[r][y].est) /\ \A x, y \in Procs : x # r => serv'[x][y] = serv[x][y]
  <2>1. serv' = [serv EXCEPT ![r] = [y \in Procs |-> InitServ(r, y)]]
    BY DEF Died
  <2>2. \A y \in Procs : serv'[r][y] = InitServ(r, y)
    BY <1>1, <2>1 DEF ServsT
  <2>3. \A x, y \in Procs : x # r => serv'[x][y] = serv[x][y]
    BY <1>1, <2>1 DEF ServsT
  <2> QED BY <2>2, <2>3, InitServIs
<1>4. ASSUME NEW k \in Slots
      PROVE  DeadConn(cs[k], conns'[k], r)
  <2> DEFINE c == cs[k]
             Mine == \E e \in Ends : c.ends[e] = r /\ c.open[e]
             f == IF c.ends[1] = r THEN 1 ELSE 2
  <2>1. conns'[k] = IF Mine THEN Shut(c, f) ELSE c
    BY DEF Died, Slots
  <2>2. c \in ConnT /\ ConnOK(config, c)
    BY DEF ConnsT, NetOK, SlotsOK
  <2>3. CASE Mine
    <3>1. PICK e \in Ends : c.ends[e] = r /\ c.open[e]
      BY <2>3
    <3>2. c.ends[1] # c.ends[2]
      BY <2>2, <3>1 DEF ConnOK, EndsOK
    <3>3. \A g \in Ends : c.ends[g] = r => g = f
      BY <3>2 DEF Ends
    <3>4. f \in Ends
      BY DEF Ends
    <3> HIDE DEF f
    <3>5. ShutEnd(c, Shut(c, f), f)
      BY <2>2, <3>4, ShutIs
    <3> QED BY <2>1, <2>3, <3>3, <3>5 DEF DeadConn
  <2>4. CASE ~Mine
    BY <2>1, <2>4 DEF DeadConn
  <2> QED BY <2>3, <2>4
<1>5. \A n \in serv[p][q].hash : calls'[n].req = calls[n].req
  BY DiedAnswers, HashReq
<1>6. todo'[r] = {} /\ \A x \in Procs : x # r => todo'[x] = todo[x]
  BY <1>1 DEF Died
<1>7. Dying(cs, conns', serv, serv', todo, todo', r)
  BY <1>3, <1>4, <1>6 DEF Dying
<1> QED BY ONLY <1>1, <1>2, <1>5, <1>7, cs \in ConnsT, NetOK(config, cs, serv),
           r \in Procs, p \in Procs, q \in Procs, p # q, PairOK(cs, serv, calls, todo, p, q), PairDies

LEMMA PairCheckList ==
  ASSUME Inv, NEW v \in Procs, NEW w \in Procs, CheckList(v, w),
         NEW p \in Procs, NEW q \in Procs, p # q, PairOK(conns, serv, calls, todo, p, q)
  PROVE  PairOK(conns', serv', calls', todo', p, q)
<1> DEFINE k == Connected(v, w).slot
           s == serv[v][w]
           t == DialServ(s, k)
<1>1. serv \in ServsT /\ conns \in ConnsT /\ NetOK(config, conns, serv) /\ s \in ServT
  BY InvParts, ServTypes
<1>2. s.conn = NULL
  BY InvParts DEF CheckList, WaitOK
<1>3. FreeSlots # {} /\ conns' = Connected(v, w).conns /\ serv' = Put(serv, v, w, t)
        /\ UNCHANGED <<calls, todo>>
  BY DEF CheckList, Put, DialServ
<1>4. k \in Slots /\ OnlySlot(conns, conns', k)
  BY <1>1, <1>3, ConnectedDials
<1>5. NewLine(conns'[k]) /\ conns'[k].ends[1] = v /\ conns'[k].ends[2] = w
  BY <1>1, <1>3, ConnectedIs
<1> HIDE DEF k, t
<1>6. k \in ConnIds
  BY <1>4 DEF ConnIds
<1>7. t \in ServT /\ t.est = s.est /\ t.conn = k /\ t.hash = s.hash /\ t.req = s.req
  BY ONLY <1>1, <1>6, DialServIs DEF t
<1>8. OnlyEntry(serv, serv', v, w) /\ serv'[v][w] = t
  BY ONLY <1>1, <1>3, <1>7, v \in Procs, w \in Procs, ServPut
<1>9. PairOK(conns', serv', calls, todo, p, q)
  BY ONLY <1>1, <1>2, <1>4, <1>5, <1>7, <1>8, v \in Procs, w \in Procs, p \in Procs, q \in Procs, p # q,
          PairOK(conns, serv, calls, todo, p, q), PairDial DEF s
<1> QED BY <1>3, <1>9

LEMMA TornAnswers ==
  ASSUME NEW ca \in Seq(CallT), NEW a, NEW k, NEW x, NEW cs, Torn(a, k, x, cs, ca)
  PROVE  SameAnswers(ca, calls')
<1>2. calls' = ca \/ \E ns : calls' = ClosedCalls(ca, ns)
  BY ZenonT(30) DEF Torn
<1>3. CASE calls' = ca
  BY <1>3 DEF SameAnswers
<1>4. ASSUME NEW ns, calls' = ClosedCalls(ca, ns)
      PROVE  SameAnswers(ca, calls')
  <2>1. DOMAIN calls' = DOMAIN ca
    BY <1>4 DEF ClosedCalls
  <2>2. ASSUME NEW n \in DOMAIN ca
        PROVE  /\ calls'[n].from = ca[n].from /\ calls'[n].to = ca[n].to
               /\ calls'[n].req = ca[n].req /\ calls'[n].wrong = ca[n].wrong
    <3>1. ca[n] \in CallT
      OBVIOUS
    <3>2. CASE n \in ns
      <4>1. calls'[n] = [ca[n] EXCEPT !.backs = @ + 1, !.freed = TRUE, !.closed = TRUE]
        BY <1>4, <3>2, ZenonT(30) DEF ClosedCalls
      <4> QED BY <3>1, <4>1 DEF CallT
    <3>3. CASE n \notin ns
      <4>1. calls'[n] = ca[n]
        BY <1>4, <3>3 DEF ClosedCalls
      <4> QED BY <4>1
    <3> QED BY <3>2, <3>3
  <2> QED BY <2>1, <2>2 DEF SameAnswers
<1> QED BY <1>2, <1>3, <1>4

\* What the steps that may close a connection leave of calls.
Settled(ca) ==
  /\ SameAnswers(ca, calls') \/ SameAnswers(calls, calls')
  /\ config' = config /\ died \subseteq died' /\ broken' = broken

LEMMA ClosedAnswers ==
  ASSUME Inv, NEW ca \in Seq(CallT), NEW a \in Procs, NEW k, NEW x, NEW cs, WhenConnClosed(a, k, x, cs, ca)
  PROVE  Settled(ca)
<1>1. CASE Torn(a, k, x, cs, ca)
  <2>1. config' = config /\ died \subseteq died' /\ broken' = broken
    BY <1>1, ZenonT(30) DEF Torn
  <2> QED BY <1>1, <2>1, TornAnswers DEF Settled
<1>2. CASE Died(a, cs)
  BY <1>2, DiedAnswers DEF Died, Settled
<1> QED BY <1>1, <1>2, ClosedCases

LEMMA PairTorn ==
  ASSUME Inv, NEW k \in Slots, NEW x \in Ends, conns[k].open[x],
         NEW cs, QuietConns(config, conns, cs), NEW ca, NEW ns, Back(calls, ca, ns),
         Torn(conns[k].ends[x], k, x, cs, ca),
         NEW p \in Procs, NEW q \in Procs, p # q, PairOK(cs, serv, calls, todo, p, q),
         \A e \in Ends : IsLine(cs[k], p, q, e) => CloseReason(cs[k], e, x)
  PROVE  PairOK(conns', serv', calls', todo', p, q)
<1> DEFINE c == conns[k]
           a == c.ends[x]
           b == c.ends[Other(x)]
           s == serv[a][b]
           h == IF s.est THEN {} ELSE s.hash
<1>1. serv \in ServsT /\ conns \in ConnsT /\ NetOK(config, conns, serv)
  BY InvParts
<1>2. a \in Procs /\ b \in Procs
  <2>1. ConnOK(config, c)
    BY <1>1 DEF NetOK, SlotsOK
  <2> QED BY <2>1, EndProcs
<1>3. cs \in ConnsT /\ NetOK(config, cs, serv)
  <2>1. cs \in ConnsT
    BY DEF QuietConns
  <2> QED BY <1>1, <2>1, QuietGood
<1>4. cs[k] \in ConnT /\ cs[k].open[x] /\ cs[k].udata[x] = c.udata[x]
        /\ a = cs[k].ends[x] /\ b = cs[k].ends[Other(x)]
  BY <1>3 DEF QuietConns, Quiet, ConnsT
<1>5. OnlySlot(cs, conns', k) /\ ShutEnd(cs[k], conns'[k], x)
  <2>1. conns' = [cs EXCEPT ![k] = Shut(cs[k], x)]
    BY DEF Torn
  <2>2. Shut(cs[k], x) \in ConnT /\ ShutEnd(cs[k], Shut(cs[k], x), x)
    <3>1. ConnOK(config, cs[k])
      BY <1>3 DEF NetOK, SlotsOK
    <3> QED BY <1>4, <3>1, ShutClosed, ShutIs, SMTT(30)
  <2> QED BY <1>3, <2>1, <2>2, SMTT(40) DEF OnlySlot, ConnsT
<1>6. s \in ServT /\ s.hash \in HashT /\ h \in HashT
  BY <1>1, <1>2, ServTypes, SMTT(30) DEF HashT
<1>7. /\ c.udata[x] => serv' = Put(serv, a, b, ClosedServ(a, b, s, h))
      /\ ~c.udata[x] => serv' = serv
      /\ todo' = todo
  <2>1. ASSUME c.udata[x]
        PROVE  serv' = Put(serv, a, b, ClosedServ(a, b, s, h))
    BY <2>1, <1>6, TornServ, ZenonT(30)
  <2>2. (~c.udata[x] => serv' = serv) /\ todo' = todo
    BY ZenonT(30) DEF Torn
  <2> QED BY <2>1, <2>2, SMTT(30)
<1>8. h \subseteq s.hash
  OBVIOUS
<1>9. \A n \in serv[p][q].hash : calls'[n].req = calls[n].req
  <2>1. SameAnswers(ca, calls')
    BY TornAnswers DEF Back
  <2> QED BY ONLY Inv, <2>1, p \in Procs, q \in Procs, Back(calls, ca, ns), HashReqBack
<1> HIDE DEF a, b, h
<1>10. /\ OnlyEntry(serv, serv', a, b)
       /\ cs[k].udata[x] => ClosedEntry(s, serv'[a][b])
       /\ ~cs[k].udata[x] => serv' = serv
  <2>1. CASE c.udata[x]
    <3> DEFINE t == ClosedServ(a, b, s, h)
    <3>1. t \in ServT /\ t.conn = NULL /\ ~t.est /\ t.hash = h /\ t.req = s.req
      <4> HIDE DEF s
      <4> QED BY ONLY <1>2, <1>6, ResetServIs
    <3>2. serv' = Put(serv, a, b, t)
      BY <1>7, <2>1
    <3> HIDE DEF t
    <3>3. OnlyEntry(serv, serv', a, b) /\ serv'[a][b] = t
      BY ONLY <1>1, <1>2, <3>1, <3>2, ServPut
    <3> QED BY <1>4, <1>8, <2>1, <3>1, <3>3 DEF ClosedEntry
  <2>2. CASE ~c.udata[x]
    BY <1>1, <1>4, <1>7, <2>2 DEF OnlyEntry
  <2> QED BY <2>1, <2>2, SMTT(40)
<1>11. PairOK(conns', serv', calls', todo, p, q)
  BY ONLY <1>1, <1>2, <1>3, <1>4, <1>5, <1>9, <1>10, k \in Slots, x \in Ends, p \in Procs, q \in Procs, p # q,
          PairOK(cs, serv, calls, todo, p, q),
          \A e \in Ends : IsLine(cs[k], p, q, e) => CloseReason(cs[k], e, x), PairClose DEF s
<1> QED BY <1>7, <1>11

LEMMA PairClosed ==
  ASSUME Inv, NEW k \in Slots, NEW x \in Ends, conns[k].open[x],
         NEW cs, QuietConns(config, conns, cs), NEW ca, NEW ns, Back(calls, ca, ns),
         WhenConnClosed(conns[k].ends[x], k, x, cs, ca),
         NEW p \in Procs, NEW q \in Procs, p # q, p \notin died', PairOK(cs, serv, calls, todo, p, q),
         \A e \in Ends : IsLine(cs[k], p, q, e) => CloseReason(cs[k], e, x)
  PROVE  PairOK(conns', serv', calls', todo', p, q)
<1> DEFINE a == conns[k].ends[x]
<1>1. CASE Torn(a, k, x, cs, ca)
  BY <1>1, PairTorn
<1>2. CASE Died(a, cs)
  <2>1. serv \in ServsT /\ NetOK(config, conns, serv)
    BY InvParts
  <2>2. a \in Procs
    <3>1. ConnOK(config, conns[k])
      BY <2>1 DEF NetOK, SlotsOK
    <3> QED BY <3>1, EndProcs
  <2>3. cs \in ConnsT
    BY DEF QuietConns
  <2>4. NetOK(config, cs, serv)
    BY ONLY <2>1, <2>3, QuietConns(config, conns, cs), QuietGood
  <2> HIDE DEF a
  <2> QED BY ONLY Inv, <1>2, <2>2, <2>3, <2>4, p \in Procs, q \in Procs, p # q, p \notin died',
             PairOK(cs, serv, calls, todo, p, q), PairDied
<1> QED BY <1>1, <1>2, ClosedCases

\* A close inside a callback: the connection is gone at the other end.
LEMMA PairInside ==
  ASSUME Inv, NEW a \in Procs, NEW b \in Procs, NEW cs, QuietConns(config, conns, cs),
         NEW ca, NEW ns, Back(calls, ca, ns), ClosedInside(a, b, cs, ca),
         NEW p \in Procs, NEW q \in Procs, p # q, p \notin died', PairOK(cs, serv, calls, todo, p, q)
  PROVE  PairOK(conns', serv', calls', todo', p, q)
<1> DEFINE k == serv[a][b].conn
           x == EndOf(a, k)
<1>1. /\ serv[a][b].est /\ k # NULL /\ (WhenConnClosed(a, k, x, cs, ca) \/ Died(a, cs))
      /\ ~cs[k].open[Other(x)] \/ \E i \in DOMAIN cs[k].chan[x] : cs[k].chan[x][i] = Rst
  BY Zenon DEF ClosedInside
<1>2. a # b
  BY <1>1, InvParts, ZenonT(60) DEF WaitOK
<1>3. k \in Slots /\ x \in Ends /\ Held(conns[k], a, b, x)
  BY <1>1, <1>2, EndHeld
<1> HIDE DEF k, x
<1>4. CASE WhenConnClosed(a, k, x, cs, ca)
  <2>1. conns[k].ends[x] = a /\ conns[k].open[x]
    BY <1>3 DEF Held
  <2>2. ASSUME NEW e \in Ends, IsLine(cs[k], p, q, e)
        PROVE  CloseReason(cs[k], e, x)
    <3>1. Line(calls, serv[p][q], serv[q][p], cs[k], k, e)
      BY <1>3, <2>2 DEF PairOK, Lines
    <3>2. ~Kind(cs[k].chan[x], "rst")
      BY <1>3, <3>1, LineFacts
    <3> QED BY <1>1, <3>2 DEF Kind, Rst, CloseReason
  <2>3. WhenConnClosed(conns[k].ends[x], k, x, cs, ca)
    BY <1>4, <2>1
  <2> QED BY ONLY Inv, <1>3, <2>1, <2>2, <2>3, QuietConns(config, conns, cs), Back(calls, ca, ns),
             p \in Procs, q \in Procs, p # q, p \notin died', PairOK(cs, serv, calls, todo, p, q), PairClosed
<1>5. CASE Died(a, cs)
  <2>1. cs \in ConnsT /\ serv \in ServsT /\ NetOK(config, conns, serv)
    BY InvParts DEF QuietConns
  <2>2. NetOK(config, cs, serv)
    BY ONLY <2>1, QuietConns(config, conns, cs), QuietGood
  <2> QED BY ONLY Inv, a \in Procs, <1>5, <2>1, <2>2, p \in Procs, q \in Procs, p # q, p \notin died',
             PairOK(cs, serv, calls, todo, p, q), PairDied
<1> QED BY <1>1, <1>4, <1>5

LEMMA InsideAnswers ==
  ASSUME Inv, NEW ca \in Seq(CallT), NEW a \in Procs, NEW b, NEW cs, ClosedInside(a, b, cs, ca)
  PROVE  Settled(ca)
<1>1. CASE Died(a, cs)
  BY <1>1, DiedAnswers DEF Died, Settled
<1>2. CASE WhenConnClosed(a, serv[a][b].conn, EndOf(a, serv[a][b].conn), cs, ca)
  BY <1>2, ClosedAnswers
<1> QED BY <1>1, <1>2, Zenon DEF ClosedInside

LEMMA FinAlone ==
  ASSUME NEW y \in Pkts, y.type = "fin"
  PROVE  y = Fin
BY DEF Pkts, Fin, Rst, Identify, IdentifyBack

\* What the acceptor takes first is the identification; nothing is on its way back.
LEMMA FirstIdentify ==
  ASSUME NEW ca, NEW s, NEW g, NEW c, NEW d, NEW k, NEW e \in Ends, NEW x \in Ends, x = 2,
         Line(ca, s, g, c, k, e), c.open[2], ~c.udata[2], 1 \in DOMAIN c.chan[2], c.chan[2][1].type # "fin",
         Popped(c, d, x)
  PROVE  /\ DOMAIN d.chan[1] = {} /\ ~Kind(d.chan[2], "identify")
         /\ d.open[1] => ~(IF e = 1 THEN s ELSE g).est
<1> DEFINE a == IF e = 1 THEN s ELSE g
           b == IF e = 1 THEN g ELSE s
<1>1. Wire(a, b, c, k)
  BY DEF Line
<1> HIDE DEF a, b
<1>2. DOMAIN c.chan[1] = {} /\ (c.open[1] => ~a.est)
  BY <1>1 DEF Wire
<1>3. ~Kind(d.chan[2], "identify")
  BY <1>1, WirePop
<1>4. d.chan[1] = c.chan[1] /\ d.open = c.open
  BY OtherEnd DEF Popped
<1> QED BY <1>2, <1>3, <1>4 DEF a

\* A process that has never died and dials is not established at the server.
LEMMA NotRefused ==
  ASSUME NEW cf, cf # {}, NEW cs, NEW sv \in ServsT, NEW ca, NEW td, NEW p \in Procs, NEW q \in Procs, p # q,
         NetOK(cf, cs, sv), PairOK(cs, sv, ca, td, p, q), NEW k \in Slots, NEW e \in Ends, e = 1,
         IsLine(cs[k], p, q, e), cs[k].open[2], ~cs[k].udata[2]
  PROVE  ~sv[q][p].est
<1> DEFINE s == sv[p][q]
           g == sv[q][p]
           m == g.conn
<1> SUFFICES ASSUME g.est PROVE FALSE
  OBVIOUS
<1>0. 1 \in Ends /\ 2 \in Ends /\ Other(1) = 2 /\ Other(2) = 1 /\ \A f \in Ends : f = 1 \/ f = 2
  BY DEF Ends, Other
<1>1. m # NULL
  BY DEF PairOK
<1>2. m \in Slots /\ \E f \in Ends : Held(cs[m], q, p, f)
  BY <1>1, HeldBy
<1>3. PICK f \in Ends : Held(cs[m], q, p, f)
  BY <1>2
<1> HIDE DEF m
<1>4. ConnOK(cf, cs[k]) /\ ConnOK(cf, cs[m])
  BY <1>2 DEF NetOK, SlotsOK
<1>5. p > q
  BY <1>0, <1>4 DEF ConnOK, EndsOK, IsLine
<1>6. f = 2
  <2>1. cs[m].ends[1] > cs[m].ends[2]
    BY <1>3, <1>4 DEF ConnOK, EndsOK, Held
  <2>2. p \in Nat /\ q \in Nat
    BY ProcsAssumption
  <2>3. f = 1 => q > p
    BY <1>0, <1>3, <2>1 DEF Held
  <2> QED BY <1>0, <1>5, <2>2, <2>3
<1>7. IsLine(cs[m], p, q, e) /\ cs[m].open[2] /\ cs[m].udata[2]
  BY <1>0, <1>3, <1>6 DEF Held, IsLine
<1>8. Line(ca, s, g, cs[k], k, e) /\ Line(ca, s, g, cs[m], m, e)
  BY <1>2, <1>7 DEF PairOK, Lines
<1>9. cs[k].open[1] /\ cs[m].open[1]
  BY <1>0, <1>7, <1>8, LineFacts
<1>10. cs[k].udata[1] /\ cs[m].udata[1]
  BY <1>4, <1>9 DEF ConnOK
<1>11. s.conn = k /\ s.conn = m
  BY <1>8, <1>10, LineFacts
<1> QED BY <1>7, <1>11

LEMMA PairIdentify ==
  ASSUME Inv, NEW k \in Slots, NEW x \in Ends, conns[k].open[x], ~conns[k].udata[x],
         conns[k].chan[x] # <<>>, Head(conns[k].chan[x]) # Fin, NEW cs \in Taken(conns, k, x),
         HandleIdentify(conns[k].ends[x], conns[k].ends[Other(x)], k, x, cs),
         NEW p \in Procs, NEW q \in Procs, p # q, q \in config, PairOK(conns, serv, calls, todo, p, q)
  PROVE  PairOK(conns', serv', calls', todo', p, q)
<1> DEFINE c == conns[k]
           w == c.ends[x]
           v == c.ends[Other(x)]
<1>0. 1 \in Ends /\ 2 \in Ends /\ Other(1) = 2 /\ Other(2) = 1 /\ \A f \in Ends : f = 1 \/ f = 2
  BY DEF Ends, Other
<1>1. serv \in ServsT /\ conns \in ConnsT /\ NetOK(config, conns, serv) /\ config # {}
  BY InvParts
<1>2. ConnOK(config, c) /\ c \in ConnT
  BY <1>1 DEF NetOK, SlotsOK, ConnsT
<1>3. w \in Procs /\ v \in Procs /\ w # v
  BY <1>2, EndProcs
<1>4. x = 2 /\ Other(x) = 1
  BY <1>0, <1>2 DEF ConnOK
<1>5. OnlySlot(conns, cs, k) /\ Popped(c, cs[k], x) /\ QuietConns(config, conns, cs)
  BY <1>1, TakenIs, TakenQuiet
<1>6. cs \in ConnsT /\ NetOK(config, cs, serv)
  <2>1. cs \in ConnsT
    BY <1>5 DEF OnlySlot
  <2> QED BY ONLY <1>1, <1>5, <2>1, QuietGood
<1>7. PairOK(cs, serv, calls, todo, p, q)
  BY ONLY <1>5, k \in Slots, x \in Ends, p \in Procs, q \in Procs, PairOK(conns, serv, calls, todo, p, q), PairPop
<1>8. cs[k].ends = c.ends /\ cs[k].open[2] /\ ~cs[k].udata[2]
  BY <1>4, <1>5 DEF Popped
<1>9. 1 \in DOMAIN c.chan[2] /\ c.chan[2][1].type # "fin"
  <2>1. c.chan[x] \in Seq(Pkts)
    BY <1>2, ConnFields DEF ChansT
  <2>2. 1 \in DOMAIN c.chan[x] /\ c.chan[x][1] = Head(c.chan[x]) /\ Head(c.chan[x]) \in Pkts
    BY <2>1
  <2> QED BY <1>4, <2>2, FinAlone
<1>10. ASSUME NEW e \in Ends, IsLine(c, p, q, e)
       PROVE  /\ DOMAIN cs[k].chan[1] = {} /\ ~Kind(cs[k].chan[2], "identify")
              /\ cs[k].open[1] => ~(IF e = 1 THEN serv[p][q] ELSE serv[q][p]).est
  <2>1. Line(calls, serv[p][q], serv[q][p], c, k, e)
    BY <1>10 DEF PairOK, Lines
  <2>2. c.open[2] /\ ~c.udata[2]
    BY <1>4
  <2> QED BY ONLY <1>4, <1>5, <1>9, <2>1, <2>2, e \in Ends, x \in Ends, FirstIdentify
<1>a. /\ Accepts(w, v) => /\ serv' = [serv EXCEPT ![w][v] = [est |-> TRUE, conn |-> k, req |-> 1, hash |-> {},
                                                           list |-> "ping"]]
                         /\ conns' = Send(PutUdata(cs, k, x), k, x, IdentifyBack(1))
      /\ ~Accepts(w, v) => conns' = Send(cs, k, x, IdentifyBack(0)) /\ serv' = serv
      /\ UNCHANGED <<calls, todo>>
  BY DEF HandleIdentify, PutUdata
<1>b. Accepts(w, v) <=> (v \in config => ~serv[w][v].est)
  BY DEF Accepts
<1>c. cs[k].ends[1] = v /\ cs[k].ends[2] = w
  BY <1>4, <1>8
<1> HIDE DEF w, v
<1>11. CASE Accepts(w, v)
  <2> DEFINE t == [est |-> TRUE, conn |-> k, req |-> 1, hash |-> {}, list |-> "ping"]
             cu == PutUdata(cs, k, x)
             y == IdentifyBack(1)
  <2>1. serv' = Put(serv, w, v, t) /\ conns' = Send(cu, k, x, y)
    BY <1>11, <1>a DEF Put
  <2>2. t \in ServT /\ t.est = TRUE /\ t.conn = k /\ t.hash = {}
    <3>1. PICK z \in BOOLEAN, h \in HashT, l \in Lists : z = TRUE /\ h = {} /\ l = "ping"
      BY ListsAre DEF HashT
    <3>2. t = ServOf(z, k, 1, h, l)
      BY <3>1 DEF ServOf
    <3>3. k \in ConnIds /\ 1 \in Nat
      BY DEF ConnIds
    <3> HIDE DEF t
    <3>4. t \in ServT
      BY ONLY <3>2, <3>3, z \in BOOLEAN, h \in HashT, l \in Lists, ServOfType
    <3> QED BY <3>4 DEF t
  <2>3. y \in Pkts /\ y.type = "back" /\ y.ret = 1
    BY PktsAre DEF IdentifyBack
  <2>4. UdataSet(cs, cu, k, x)
    BY <1>6, SetUdata
  <2> HIDE DEF t, cu, y
  <2>5. OnlyEntry(serv, serv', w, v) /\ serv'[w][v] = t
    BY ONLY <1>1, <1>3, <2>1, <2>2, ServPut
  <2>6. cu \in ConnsT /\ OnlySlot(cs, cu, k) /\ TookUp(cs[k], cu[k])
    BY <1>0, <1>4, <2>4 DEF UdataSet, OnlySlot, TookUp
  <2>7. w = p /\ v = q => ~serv[p][q].est
    BY <1>11, <1>b
  <2>8. \A e \in Ends : IsLine(cs[k], p, q, e) => DOMAIN cs[k].chan[1] = {}
    BY <1>8, <1>10 DEF IsLine
  <2>9. serv'[w][v].conn = k /\ serv'[w][v].est /\ serv'[w][v].hash = {}
    BY <2>2, <2>5
  <2>10. PairOK(cu, serv', calls, todo, p, q)
    BY ONLY <1>1, <1>3, <1>6, <1>7, <1>8, <1>c, <2>5, <2>6, <2>7, <2>8, <2>9, k \in Slots,
            p \in Procs, q \in Procs, p # q, PairAccept
  <2>11. OnlySlot(cu, conns', k) /\ Sent(cu[k], conns'[k], x, y)
    BY ONLY <2>1, <2>3, <2>6, k \in Slots, x \in Ends, SendIs
  <2>12. ASSUME NEW e \in Ends, IsLine(cu[k], p, q, e)
         PROVE  LineMaySend(calls, serv'[p][q], serv'[q][p], cu[k], e, x, y)
    <3>1. IsLine(c, p, q, e) /\ IsLine(cs[k], p, q, e)
      BY <1>8, <2>6, <2>12 DEF TookUp, IsLine
    <3>2. /\ DOMAIN cs[k].chan[1] = {}
          /\ cs[k].open[1] => ~(IF e = 1 THEN serv[p][q] ELSE serv[q][p]).est
      BY <1>10, <3>1
    <3>3. (IF e = 1 THEN serv'[p][q] ELSE serv'[q][p]) = (IF e = 1 THEN serv[p][q] ELSE serv[q][p])
      <4>1. e = 1 => w = q /\ v = p
        BY <1>0, <1>c, <3>1 DEF IsLine
      <4>2. e = 2 => w = p /\ v = q
        BY <1>0, <1>c, <3>1 DEF IsLine
      <4> QED BY <1>0, <2>5, <4>1, <4>2 DEF OnlyEntry
    <3> DEFINE a == IF e = 1 THEN serv'[p][q] ELSE serv'[q][p]
    <3>4. cs[k].open[1] => ~a.est
      BY <3>2, <3>3
    <3> HIDE DEF a
    <3>5. cu[k].open = cs[k].open /\ cu[k].chan = cs[k].chan /\ cu[k].udata[2]
      BY <2>6 DEF TookUp
    <3>6. MaySend(a, cu[k], x, y)
      BY <1>4, <1>8, <2>3, <3>2, <3>4, <3>5 DEF MaySend
    <3> QED BY <2>3, <3>6 DEF LineMaySend, a
  <2>13. PairOK(conns', serv', calls, todo, p, q)
    BY ONLY <2>10, <2>11, <2>12, k \in Slots, x \in Ends, p \in Procs, q \in Procs, PairSend
  <2> QED BY <1>a, <2>13
<1>12. CASE ~Accepts(w, v)
  <2> DEFINE y == IdentifyBack(0)
  <2>1. serv' = serv /\ conns' = Send(cs, k, x, y)
    BY <1>12, <1>a
  <2>3. y \in Pkts /\ y.type = "back" /\ y.ret = 0
    BY PktsAre DEF IdentifyBack
  <2> HIDE DEF y
  <2>4. OnlySlot(cs, conns', k) /\ Sent(cs[k], conns'[k], x, y)
    BY ONLY <1>6, <2>1, <2>3, k \in Slots, x \in Ends, SendIs
  <2>5. ASSUME NEW e \in Ends, IsLine(cs[k], p, q, e)
        PROVE  LineMaySend(calls, serv[p][q], serv[q][p], cs[k], e, x, y)
    <3>1. IsLine(c, p, q, e)
      BY <1>8, <2>5 DEF IsLine
    <3> DEFINE a == IF e = 1 THEN serv[p][q] ELSE serv[q][p]
    <3>2. DOMAIN cs[k].chan[1] = {} /\ ~Kind(cs[k].chan[2], "identify") /\ (cs[k].open[1] => ~a.est)
      BY <1>10, <3>1
    <3> HIDE DEF a
    <3>3. MaySend(a, cs[k], x, y)
      BY <1>4, <1>8, <2>3, <3>2 DEF MaySend
    <3>4. e # 1
      <4> SUFFICES ASSUME e = 1 PROVE FALSE
        OBVIOUS
      <4>1. ~serv[q][p].est
        BY ONLY <1>1, <1>6, <1>7, <1>8, <2>5, e = 1, e \in Ends, k \in Slots, p \in Procs, q \in Procs, p # q,
                NotRefused
      <4>2. w = q /\ v = p
        BY <1>0, <1>c, <2>5 DEF IsLine
      <4> QED BY <1>12, <1>b, <4>1, <4>2
    <3> QED BY <1>0, <2>3, <3>3, <3>4 DEF LineMaySend, a
  <2>6. PairOK(conns', serv, calls, todo, p, q)
    BY ONLY <1>7, <2>4, <2>5, k \in Slots, x \in Ends, p \in Procs, q \in Procs, PairSend
  <2> QED BY <1>a, <2>1, <2>6
<1> QED BY <1>11, <1>12

\* An answer to the identification is the first packet for the dialer.
LEMMA FirstBack ==
  ASSUME NEW ca, NEW s, NEW g, NEW c, NEW d, NEW k, NEW e \in Ends, NEW x \in Ends, NEW cf, ConnOK(cf, c),
         Line(ca, s, g, c, k, e), c.open[x], 1 \in DOMAIN c.chan[x], c.chan[x][1].type = "back",
         Popped(c, d, x)
  PROVE  /\ x = 1 /\ ~(IF e = 1 THEN s ELSE g).est /\ ~Kind(d.chan[1], "back")
         /\ c.chan[x][1].ret = 1 /\ c.open[2] => c.udata[2]
         /\ c.chan[x][1].ret = 0 => e = 2 /\ ~c.udata[2]
<1> DEFINE a == IF e = 1 THEN s ELSE g
           b == IF e = 1 THEN g ELSE s
<1>0. 1 \in Ends /\ 2 \in Ends /\ \A f \in Ends : f = 1 \/ f = 2
  BY DEF Ends
<1>1. Wire(a, b, c, k)
  BY DEF Line
<1> HIDE DEF a, b
<1>2. x = 1
  BY <1>0, <1>1 DEF Wire, Kind
<1>3. ~a.est /\ (c.chan[1][1].ret = 0 /\ c.open[2] => ~c.udata[2])
  BY <1>1, <1>2 DEF Wire
<1>4. ~Kind(d.chan[1], "back")
  BY <1>1, <1>2, WirePop
<1>5. HasBack(c.chan[1], c.chan[1][1].ret)
  BY <1>2 DEF HasBack
<1>6. c.chan[1][1].ret = 1 /\ c.open[2] => c.udata[2]
  BY <1>5 DEF ConnOK
<1>7. c.chan[1][1].ret = 0 => e = 2
  BY <1>0, <1>5 DEF Line
<1>8. c.udata[2] => c.open[2]
  BY <1>0 DEF ConnOK
<1> QED BY <1>2, <1>3, <1>4, <1>6, <1>7, <1>8 DEF a

LEMMA PairIdentifyBack ==
  ASSUME Inv, NEW k \in Slots, NEW x \in Ends, conns[k].open[x], conns[k].udata[x],
         conns[k].chan[x] # <<>>, NEW y, y = Head(conns[k].chan[x]), y.type = "back",
         NEW cs \in Taken(conns, k, x),
         HandleIdentifyBack(conns[k].ends[x], conns[k].ends[Other(x)], cs, y.ret),
         NEW p \in Procs, NEW q \in Procs, p # q, p \notin died', q \in config,
         PairOK(conns, serv, calls, todo, p, q)
  PROVE  PairOK(conns', serv', calls', todo', p, q)
<1> DEFINE c == conns[k]
           v == c.ends[x]
           w == c.ends[Other(x)]
           s == serv[v][w]
<1>0. 1 \in Ends /\ 2 \in Ends /\ Other(1) = 2 /\ Other(2) = 1 /\ \A f \in Ends : f = 1 \/ f = 2
  BY DEF Ends, Other
<1>1. serv \in ServsT /\ conns \in ConnsT /\ NetOK(config, conns, serv) /\ config # {}
  BY InvParts
<1>2. ConnOK(config, c) /\ c \in ConnT
  BY <1>1 DEF NetOK, SlotsOK, ConnsT
<1>3. v \in Procs /\ w \in Procs /\ v # w /\ EndsOK(config, c)
  BY <1>2, EndProcs
<1>5. OnlySlot(conns, cs, k) /\ Popped(c, cs[k], x) /\ QuietConns(config, conns, cs)
  BY <1>1, TakenIs, TakenQuiet
<1>6. cs \in ConnsT /\ NetOK(config, cs, serv)
  <2>1. cs \in ConnsT
    BY <1>5 DEF OnlySlot
  <2> QED BY ONLY <1>1, <1>5, <2>1, QuietGood
<1>7. PairOK(cs, serv, calls, todo, p, q)
  BY ONLY <1>5, k \in Slots, x \in Ends, p \in Procs, q \in Procs, PairOK(conns, serv, calls, todo, p, q), PairPop
<1>8. cs[k].ends = c.ends /\ cs[k].open = c.open /\ cs[k].udata = c.udata
  BY <1>5 DEF Popped
<1>9. /\ 1 \in DOMAIN c.chan[x] /\ c.chan[x][1] = y /\ y.ret \in {0, 1} /\ HasBack(c.chan[x], y.ret)
  <2>1. c.chan[x] \in Seq(Pkts)
    BY <1>2, ConnFields DEF ChansT
  <2>2. 1 \in DOMAIN c.chan[x] /\ c.chan[x][1] = Head(c.chan[x]) /\ Head(c.chan[x]) \in Pkts
    BY <2>1
  <2> QED BY <2>2, PktKinds DEF HasBack
<1>10. ASSUME NEW e \in Ends, IsLine(c, p, q, e)
       PROVE  /\ x = 1 /\ ~s.est /\ ~Kind(cs[k].chan[1], "back")
              /\ y.ret = 1 /\ c.open[2] => c.udata[2]
              /\ y.ret = 0 => e = 2 /\ ~c.udata[2]
  <2>1. Line(calls, serv[p][q], serv[q][p], c, k, e)
    BY <1>10 DEF PairOK, Lines
  <2>2. c.open[x] /\ c.chan[x][1].type = "back"
    BY <1>9
  <2>3. /\ x = 1 /\ ~(IF e = 1 THEN serv[p][q] ELSE serv[q][p]).est /\ ~Kind(cs[k].chan[1], "back")
        /\ c.chan[x][1].ret = 1 /\ c.open[2] => c.udata[2]
        /\ c.chan[x][1].ret = 0 => e = 2 /\ ~c.udata[2]
    BY ONLY <1>2, <1>5, <1>9, <2>1, <2>2, e \in Ends, x \in Ends, FirstBack
  <2>4. (IF e = 1 THEN serv[p][q] ELSE serv[q][p]) = s
    BY <1>0, <1>10, <2>3 DEF IsLine
  <2> QED BY <1>9, <2>3, <2>4
<1>11. CASE y.ret = 1
  <2> DEFINE t == EstServ(s)
  <2>1. serv' = Put(serv, v, w, t) /\ conns' = cs /\ UNCHANGED <<calls, todo>>
    BY <1>11 DEF HandleIdentifyBack, Put, EstServ
  <2>2. s \in ServT
    BY <1>1, <1>3, ServTypes
  <2>3. t \in ServT /\ t.est = TRUE /\ t.conn = s.conn /\ t.hash = {}
    <3> HIDE DEF s
    <3> QED BY ONLY <2>2, EstServIs
  <2> HIDE DEF t, v, w
  <2>4. OnlyEntry(serv, serv', v, w) /\ serv'[v][w] = t
    BY ONLY <1>1, <1>3, <2>1, <2>3, ServPut
  <2>5. \A e \in Ends : IsLine(cs[k], p, q, e) =>
          x = 1 /\ ~serv[v][w].est /\ (cs[k].open[2] => cs[k].udata[2]) /\ ~Kind(cs[k].chan[1], "back")
    BY <1>8, <1>10, <1>11 DEF IsLine
  <2>6. cs[k].udata[x] /\ cs[k].ends[x] = v /\ cs[k].ends[Other(x)] = w
    BY <1>8 DEF v, w
  <2>7. serv'[v][w].conn = serv[v][w].conn /\ serv'[v][w].est /\ serv'[v][w].hash = {}
    BY <2>3, <2>4
  <2>8. PairOK(cs, serv', calls, todo, p, q)
    BY ONLY <1>1, <1>3, <1>6, <1>7, <2>4, <2>5, <2>6, <2>7, k \in Slots, x \in Ends,
            p \in Procs, q \in Procs, p # q, PairEstablish
  <2> QED BY <2>1, <2>8
<1>12. CASE y.ret = 0
  <2>1. config = Procs
    BY <1>2, <1>9, <1>12 DEF ConnOK
  <2>2. Linked(c, serv, k)
    BY <1>1, <2>1, SMTT(30) DEF NetOK, Links
  <2>3. serv[v][w].conn = k
    BY <2>2 DEF Linked, Entry
  <2>4. EndOf(v, k) = x
    BY <1>3, OtherEnd DEF EndOf, EndsOK, Ends, Other
  <2>5. WhenConnClosed(v, k, x, cs, calls) /\ Back(calls, calls, {})
    BY <1>12, <2>3, <2>4, InvParts, NoneBack DEF HandleIdentifyBack
  <2>6. \A e \in Ends : IsLine(cs[k], p, q, e) => CloseReason(cs[k], e, x)
    BY <1>8, <1>10, <1>12 DEF IsLine, CloseReason
  <2> QED BY ONLY Inv, <1>5, <1>7, <2>5, <2>6, k \in Slots, x \in Ends, c.open[x], p \in Procs, q \in Procs,
             p # q, p \notin died', PairClosed
<1> QED BY <1>9, <1>11, <1>12

LEMMA PairTodo ==
  ASSUME NEW cs, NEW sv, NEW ca, NEW td, NEW te, NEW p, NEW q, PairOK(cs, sv, ca, td, p, q),
         \A t \in te[q] : t.from = p => t \in td[q]
  PROVE  PairOK(cs, sv, ca, te, p, q)
BY DEF PairOK

\* Over the connection of an established entry calls and answers may be sent.
Ready(c) == c.open[2] => c.udata[2]

LEMMA EstReady ==
  ASSUME NEW cs, NEW sv \in ServsT, NEW ca, NEW td, NEW p \in Procs, NEW q \in Procs, p # q,
         PairOK(cs, sv, ca, td, p, q), NEW k \in Slots, NEW e \in Ends, IsLine(cs[k], p, q, e),
         NEW a \in Procs, NEW b \in Procs, NEW x \in Ends, Held(cs[k], a, b, x), sv[a][b].est
  PROVE  Ready(cs[k])
<1>0. 1 \in Ends /\ 2 \in Ends /\ Other(1) = 2 /\ Other(2) = 1 /\ \A f \in Ends : f = 1 \/ f = 2
  BY DEF Ends, Other
<1>1. Line(ca, sv[p][q], sv[q][p], cs[k], k, e)
  BY DEF PairOK, Lines
<1>2. CASE x = 2
  BY <1>2 DEF Ready, Held
<1>3. CASE x = 1
  <2>1. cs[k].open[1]
    BY <1>3 DEF Held
  <2>2. (IF e = 1 THEN sv[p][q] ELSE sv[q][p]) = sv[a][b]
    BY <1>0, <1>3 DEF Held, IsLine
  <2>3. cs[k].open[1] /\ cs[k].open[2] /\ (IF e = 1 THEN sv[p][q].est ELSE sv[q][p].est) => cs[k].udata[2]
    BY ONLY <1>1, e \in Ends, LineFacts
  <2> QED BY <2>1, <2>2, <2>3 DEF Ready
<1> QED BY <1>0, <1>2, <1>3

LEMMA PairRpcRet ==
  ASSUME Inv, NEW a \in Procs, NEW b \in Procs, NEW t \in TodoT, NEW cs, QuietConns(config, conns, cs),
         RpcRet(a, b, t, cs), serv[a][b].conn # NULL => a # b,
         NEW p \in Procs, NEW q \in Procs, p # q, p \notin died', PairOK(cs, serv, calls, todo, p, q),
         a = q /\ b = p => Kept(calls, serv[p][q], serv[q][p], t),
         \A k \in Slots, e \in Ends : k = serv[a][b].conn /\ IsLine(cs[k], p, q, e) => Ready(cs[k])
  PROVE  PairOK(conns', serv', calls', todo', p, q)
<1> DEFINE k == serv[a][b].conn
           x == EndOf(a, k)
           y == [type |-> "ret", call |-> t.call, req |-> t.req]
<1>1. serv \in ServsT /\ todo \in [Procs -> SUBSET TodoT]
  BY InvParts
<1>2. cs \in ConnsT /\ NetOK(config, cs, serv)
  <2>1. cs \in ConnsT
    BY DEF QuietConns
  <2> QED BY <2>1, InvParts, QuietGood
<1>3. CASE k = NULL
  <2>1. Died(a, cs)
    BY <1>3 DEF RpcRet
  <2> QED BY ONLY Inv, <1>2, <2>1, a \in Procs, p \in Procs, q \in Procs, p # q, p \notin died',
             PairOK(cs, serv, calls, todo, p, q), PairDied
<1>4. CASE k # NULL
  <2>1. k \in Slots /\ x \in Ends /\ Held(conns[k], a, b, x)
    BY <1>4, EndHeld
  <2>2. Held(cs[k], a, b, x)
    BY <2>1 DEF QuietConns, Quiet, Held
  <2>3. y \in Pkts
    BY PktsAre DEF TodoT
  <2>4. conns' = Send(cs, k, x, y) /\ todo' = [todo EXCEPT ![a] = @ \ {t}] /\ serv' = serv /\ calls' = calls
    BY <1>4 DEF RpcRet
  <2>5. y.type = "ret" /\ y.req = t.req /\ y.call = t.call
    OBVIOUS
  <2> HIDE DEF y, x
  <2>6. OnlySlot(cs, conns', k) /\ Sent(cs[k], conns'[k], x, y)
    <3> HIDE DEF k
    <3> QED BY ONLY <1>2, <2>1, <2>3, <2>4, SendIs
  <2>7. ASSUME NEW e \in Ends, IsLine(cs[k], p, q, e)
        PROVE  LineMaySend(calls, serv[p][q], serv[q][p], cs[k], e, x, y)
    <3>1. Ready(cs[k]) /\ cs[k].open[x]
      BY <2>1, <2>2, <2>7 DEF Held
    <3> DEFINE z == IF e = 1 THEN serv[p][q] ELSE serv[q][p]
    <3> HIDE DEF z
    <3>2. MaySend(z, cs[k], x, y)
      BY <2>5, <3>1 DEF MaySend, Ready
    <3>3. ASSUME x # e
          PROVE  cs[k].udata[e] /\ serv[p][q].est /\ Token(calls, serv[p][q], y)
      <4>1. x = Other(e)
        BY <2>1, <3>3, OtherEnd
      <4>2. a = q /\ b = p
        BY <2>2, <2>7, <4>1, OtherEnd DEF Held, IsLine
      <4>3. Kept(calls, serv[p][q], serv[q][p], t)
        BY <4>2
      <4>4. serv[p][q].conn = k /\ serv[p][q].conn # NULL
        BY <4>2, <4>3 DEF Kept
      <4>5. cs[k].udata[e]
        BY ONLY <1>1, <1>2, <2>7, <4>4, p \in Procs, q \in Procs, p # q, e \in Ends, HeldBy
      <4>6. Token(calls, serv[p][q], y)
        BY <2>5, <4>3 DEF Kept, Token
      <4> QED BY <4>3, <4>5, <4>6 DEF Kept
    <3> QED BY <2>5, <3>2, <3>3 DEF LineMaySend, z
  <2>8. PairOK(conns', serv, calls, todo, p, q)
    <3> HIDE DEF k
    <3> QED BY ONLY <2>1, <2>6, <2>7, PairOK(cs, serv, calls, todo, p, q), p \in Procs, q \in Procs, PairSend
  <2>9. \A u \in todo'[q] : u.from = p => u \in todo[q]
    BY <1>1, <2>4
  <2>10. PairOK(conns', serv, calls, todo', p, q)
    BY ONLY <2>8, <2>9, PairTodo
  <2> QED BY <2>4, <2>10
<1> QED BY <1>3, <1>4

\* A call comes over a connection that both have taken up.
LEMMA CallReady ==
  ASSUME NEW ca, NEW s, NEW g, NEW c, NEW k, NEW e \in Ends, NEW x \in Ends, Line(ca, s, g, c, k, e),
         1 \in DOMAIN c.chan[x], c.chan[x][1].type = "call"
  PROVE  Ready(c)
<1> DEFINE a == IF e = 1 THEN s ELSE g
           b == IF e = 1 THEN g ELSE s
<1>1. Wire(a, b, c, k)
  BY DEF Line
<1> HIDE DEF a, b
<1>2. x = 1 \/ x = 2
  BY DEF Ends
<1> QED BY <1>1, <1>2 DEF Wire, Kind, Ready

LEMMA PairMsg ==
  ASSUME Inv, NEW k \in Slots, NEW x \in Ends, conns[k].open[x], conns[k].udata[x],
         conns[k].chan[x] # <<>>, NEW y, y = Head(conns[k].chan[x]), y.type = "call",
         NEW cs \in Taken(conns, k, x), NEW a, NEW b, a = conns[k].ends[x], b = conns[k].ends[Other(x)],
         NEW t \in TodoT, t.from = b, t.call = y.call, t.req = y.req, HandleMsg(a, b, t, cs),
         NEW p \in Procs, NEW q \in Procs, p # q, p \notin died', PairOK(conns, serv, calls, todo, p, q)
  PROVE  PairOK(conns', serv', calls', todo', p, q)
<1> DEFINE c == conns[k]
           s == serv[p][q]
           g == serv[q][p]
<1>1. serv \in ServsT /\ conns \in ConnsT /\ NetOK(config, conns, serv) /\ todo \in [Procs -> SUBSET TodoT]
  BY InvParts
<1>2. ConnOK(config, c) /\ c \in ConnT
  BY <1>1 DEF NetOK, SlotsOK, ConnsT
<1>3. a \in Procs /\ b \in Procs /\ a # b
  BY <1>2, EndProcs
<1>4. OnlySlot(conns, cs, k) /\ Popped(c, cs[k], x) /\ QuietConns(config, conns, cs)
  BY <1>1, TakenIs, TakenQuiet
<1>5. PairOK(cs, serv, calls, todo, p, q)
  BY ONLY <1>4, k \in Slots, x \in Ends, p \in Procs, q \in Procs, PairOK(conns, serv, calls, todo, p, q), PairPop
<1>6. cs[k].ends = c.ends /\ cs[k].open = c.open /\ cs[k].udata = c.udata
  BY <1>4 DEF Popped
<1>7. 1 \in DOMAIN c.chan[x] /\ c.chan[x][1] = y
  <2>1. c.chan[x] \in Seq(Pkts)
    BY <1>2, ConnFields DEF ChansT
  <2> QED BY <2>1
<1>8. k # NULL
  BY ONLY k \in Slots, BoundsAssumption DEF Slots, NULL
<1>9. Other(x) \in Ends /\ Other(Other(x)) = x
  BY OtherEnd
<1>10. ASSUME NEW e \in Ends, IsLine(c, p, q, e)
       PROVE  Line(calls, s, g, c, k, e) /\ Ready(c)
  <2>1. Line(calls, s, g, c, k, e)
    BY <1>10 DEF PairOK, Lines
  <2> QED BY <1>7, <2>1, CallReady
<1>11. ASSUME a = q, b = p
       PROVE  Kept(calls, s, g, t)
  <2> DEFINE e == Other(x)
  <2>1. e \in Ends /\ IsLine(c, p, q, e) /\ Other(e) = x
    BY <1>9, <1>11 DEF IsLine
  <2> HIDE DEF e
  <2>2. Line(calls, s, g, c, k, e)
    BY <1>10, <2>1
  <2>3. c.udata[e] /\ s.est /\ Token(calls, s, y)
    BY <1>7, <2>1, <2>2 DEF Line
  <2>4. s.conn = k /\ g.conn = k
    BY <2>1, <2>2, <2>3, LineFacts
  <2>5. Token(calls, s, t)
    BY <2>3 DEF Token
  <2> QED BY <1>8, <2>3, <2>4, <2>5 DEF Kept
<1>12. ASSUME NEW j \in Slots, NEW e \in Ends, j = serv[a][b].conn, IsLine(cs[j], p, q, e)
       PROVE  Ready(cs[j])
  <2>1. j # NULL
    BY ONLY j \in Slots, BoundsAssumption DEF Slots, NULL
  <2>2. PICK f \in Ends : Held(conns[j], a, b, f)
    BY ONLY <1>1, <1>3, <1>12, <2>1, HeldBy
  <2>3. Held(cs[j], a, b, f)
    BY ONLY <1>4, <2>2, j \in Slots, SMTT(40) DEF QuietConns, Quiet, Held
  <2>4. (a = p /\ b = q) \/ (a = q /\ b = p)
    BY <1>12, <2>3, OtherEnd DEF Held, IsLine
  <2>5. serv[a][b].conn = k /\ Ready(c)
    <3>1. CASE a = p /\ b = q
      <4>1. IsLine(c, p, q, x)
        BY <3>1 DEF IsLine
      <4>2. Line(calls, s, g, c, k, x) /\ Ready(c)
        BY <1>10, <4>1
      <4>3. s.conn = k
        BY <4>2, LineFacts
      <4> QED BY <3>1, <4>2, <4>3
    <3>2. CASE a = q /\ b = p
      <4>1. IsLine(c, p, q, Other(x))
        BY <1>9, <3>2 DEF IsLine
      <4>2. Line(calls, s, g, c, k, Other(x)) /\ Ready(c)
        BY <1>9, <1>10, <4>1
      <4>3. g.conn = k
        BY <1>9, <4>2, LineFacts
      <4> QED BY <3>2, <4>2, <4>3
    <3> QED BY <2>4, <3>1, <3>2
  <2> QED BY <1>6, <1>12, <2>5 DEF Ready
<1>13. CASE RpcRet(a, b, t, cs)
  <2>1. serv[a][b].conn # NULL => a # b
    BY <1>3
  <2>2. a = q /\ b = p => Kept(calls, serv[p][q], serv[q][p], t)
    BY ONLY <1>11, SMTT(40)
  <2>3. \A j \in Slots, e \in Ends : j = serv[a][b].conn /\ IsLine(cs[j], p, q, e) => Ready(cs[j])
    BY <1>12
  <2> QED BY ONLY Inv, <1>3, <1>4, <1>5, <1>13, <2>1, <2>2, <2>3, t \in TodoT, p \in Procs, q \in Procs, p # q,
             p \notin died', PairRpcRet
<1>14. CASE /\ todo' = [todo EXCEPT ![a] = @ \cup {t}]
            /\ conns' = cs
            /\ UNCHANGED <<config, up, serv, calls, joined, died, broken, faults>>
  <2>1. \A u \in todo'[q] : u \in todo[q] \/ (u = t /\ a = q)
    BY <1>1, <1>14
  <2>2. \A u \in todo'[q] : u.from = p => Kept(calls, s, g, u)
    BY <1>5, <1>11, <2>1 DEF PairOK
  <2>3. PairOK(cs, serv, calls, todo', p, q)
    BY <1>5, <2>2 DEF PairOK
  <2> QED BY <1>14, <2>3
<1> QED BY <1>13, <1>14 DEF HandleMsg

\* Steps that leave the connections alone: calls leave rpc_hash, requests are dropped.
LEMMA PairLess ==
  ASSUME Inv, NEW cs, conns' = cs, NEW a \in Procs, NEW b \in Procs, NEW h \in HashT, h \subseteq serv[a][b].hash,
         serv' = Put(serv, a, b, HashServ(serv[a][b], h)), todo' = todo,
         NEW p \in Procs, NEW q \in Procs, PairOK(cs, serv, calls, todo, p, q),
         \A n \in serv[p][q].hash : calls'[n].req = calls[n].req
  PROVE  PairOK(conns', serv', calls', todo', p, q)
<1> DEFINE s == serv[a][b]
           t == HashServ(s, h)
<1>1. serv \in ServsT /\ s \in ServT
  BY InvParts, ServTypes
<1>2. t \in ServT /\ t.est = s.est /\ t.conn = s.conn /\ t.hash = h /\ t.req = s.req
  <2> HIDE DEF s
  <2> QED BY ONLY <1>1, h \in HashT, HashServIs
<1>3. serv' = Put(serv, a, b, t)
  OBVIOUS
<1> HIDE DEF t
<1>4. OnlyEntry(serv, serv', a, b) /\ serv'[a][b] = t
  BY ONLY <1>1, <1>2, <1>3, a \in Procs, b \in Procs, ServPut
<1>5. \A u, v \in Procs : /\ SameEntry(serv[u][v], serv'[u][v]) /\ serv'[u][v].req = serv[u][v].req
                          /\ serv'[u][v].hash \subseteq serv[u][v].hash
  <2> SUFFICES ASSUME NEW u \in Procs, NEW v \in Procs
               PROVE  /\ SameEntry(serv[u][v], serv'[u][v]) /\ serv'[u][v].req = serv[u][v].req
                      /\ serv'[u][v].hash \subseteq serv[u][v].hash
    OBVIOUS
  <2>1. CASE u = a /\ v = b
    BY <1>2, <1>4, <2>1 DEF SameEntry
  <2>2. CASE ~(u = a /\ v = b)
    BY <1>4, <2>2 DEF OnlyEntry, SameEntry
  <2> QED BY <2>1, <2>2
<1>6. PairSame(cs, conns', serv, serv', calls, calls', todo, todo', p, q)
  BY <1>5 DEF PairSame
<1> QED BY ONLY <1>6, p \in Procs, q \in Procs, PairOK(cs, serv, calls, todo, p, q), PairFrame

\* What ihandle_rpc_back and a time-out do.
LEMMA BackAnswers ==
  ASSUME Inv, NEW a \in Procs, NEW b \in Procs, NEW y, NEW cs, HandleRpcBack(a, b, y, cs), NEW ns, NEW ca,
         ns = {n \in serv[a][b].hash : calls[n].req = y.req}, ca = Answered(ns, y)
  PROVE  /\ Back(calls, ca, ns) /\ Settled(ca)
         /\ \/ /\ serv' = Put(serv, a, b, HashServ(serv[a][b], serv[a][b].hash \ ns))
               /\ conns' = cs /\ todo' = todo /\ SameAnswers(ca, calls')
            \/ ClosedInside(a, b, cs, ca)
         /\ \A n \in ns : ca[n].wrong => n # y.call
<1> DEFINE s == serv[a][b]
           h == s.hash \ ns
<1>1. calls \in Seq(CallT) /\ CallsOK(calls, serv)
  BY InvParts
<1>2. ns \subseteq DOMAIN calls
  BY <1>1 DEF CallsOK, HashOK
<1>3. Back(calls, ca, ns) /\ \A n \in ns : ca[n].wrong => n # y.call
  BY ONLY <1>1, <1>2, ca = Answered(ns, y), AnsweredBack
<1>4. \/ /\ serv' = [serv EXCEPT ![a][b] = [s EXCEPT !.hash = h]]
         /\ calls' = [n \in DOMAIN ca |-> IF n \in ns THEN [ca[n] EXCEPT !.freed = TRUE] ELSE ca[n]]
         /\ conns' = cs /\ UNCHANGED <<config, up, todo, joined, died, broken, faults>>
      \/ ClosedInside(a, b, cs, ca)
  BY Zenon DEF HandleRpcBack
<1> HIDE DEF h, s
<1>5. ca \in Seq(CallT)
  BY <1>3 DEF Back
<1>6. CASE ClosedInside(a, b, cs, ca)
  BY <1>3, <1>5, <1>6, InsideAnswers, SMTT(40)
<1>7. CASE /\ serv' = [serv EXCEPT ![a][b] = [s EXCEPT !.hash = h]]
           /\ calls' = [n \in DOMAIN ca |-> IF n \in ns THEN [ca[n] EXCEPT !.freed = TRUE] ELSE ca[n]]
           /\ conns' = cs /\ UNCHANGED <<config, up, todo, joined, died, broken, faults>>
  <2>1. serv' = Put(serv, a, b, HashServ(s, h))
    BY ONLY <1>7 DEF Put, HashServ
  <2>2. ASSUME NEW n \in DOMAIN ca
        PROVE  /\ calls'[n].from = ca[n].from /\ calls'[n].to = ca[n].to
               /\ calls'[n].req = ca[n].req /\ calls'[n].wrong = ca[n].wrong
    <3>1. ca[n] \in CallT
      BY <1>5
    <3>2. CASE calls'[n] = [ca[n] EXCEPT !.freed = TRUE]
      BY <3>1, <3>2 DEF CallT
    <3>3. CASE calls'[n] = ca[n]
      BY <3>3
    <3> QED BY ONLY <1>7, <2>2, <3>2, <3>3
  <2>3. DOMAIN calls' = DOMAIN ca
    BY ONLY <1>7
  <2>4. SameAnswers(ca, calls')
    BY ONLY <2>2, <2>3 DEF SameAnswers
  <2>5. Settled(ca)
    BY <1>7, <2>4 DEF Settled
  <2> QED BY <1>3, <1>7, <2>1, <2>4, <2>5 DEF s, h
<1> QED BY <1>4, <1>6, <1>7

LEMMA PairRpcBack ==
  ASSUME Inv, NEW a \in Procs, NEW b \in Procs, NEW y, NEW cs, QuietConns(config, conns, cs), HandleRpcBack(a, b, y, cs),
         NEW p \in Procs, NEW q \in Procs, p # q, p \notin died', PairOK(cs, serv, calls, todo, p, q)
  PROVE  PairOK(conns', serv', calls', todo', p, q)
<1> DEFINE s == serv[a][b]
           ns == {n \in s.hash : calls[n].req = y.req}
           h == s.hash \ ns
           ca == Answered(ns, y)
<1>1. s.hash \in HashT
  BY InvParts, ServTypes
<1>2. h \in HashT /\ h \subseteq s.hash
  BY <1>1 DEF HashT
<1>3. /\ Back(calls, ca, ns)
      /\ \/ /\ serv' = Put(serv, a, b, HashServ(serv[a][b], h))
            /\ conns' = cs /\ todo' = todo /\ SameAnswers(ca, calls')
         \/ ClosedInside(a, b, cs, ca)
  <2>1. PICK ms, cb : ms = ns /\ cb = ca
    OBVIOUS
  <2>2. ms = {n \in serv[a][b].hash : calls[n].req = y.req} /\ cb = Answered(ms, y)
    BY <2>1
  <2>3. h = serv[a][b].hash \ ms
    BY <2>1
  <2> HIDE DEF ns, ca, h
  <2>4. /\ Back(calls, cb, ms)
        /\ \/ /\ serv' = Put(serv, a, b, HashServ(serv[a][b], serv[a][b].hash \ ms))
              /\ conns' = cs /\ todo' = todo /\ SameAnswers(cb, calls')
           \/ ClosedInside(a, b, cs, cb)
    BY ONLY Inv, <2>2, a \in Procs, b \in Procs, HandleRpcBack(a, b, y, cs), BackAnswers, ZenonT(60)
  <2> QED BY ONLY <2>1, <2>3, <2>4
<1> HIDE DEF h, ns, ca
<1>4. CASE ClosedInside(a, b, cs, ca)
  BY ONLY Inv, <1>3, <1>4, a \in Procs, b \in Procs, p \in Procs, q \in Procs, p # q, p \notin died',
          QuietConns(config, conns, cs), PairOK(cs, serv, calls, todo, p, q), PairInside
<1>5. CASE /\ serv' = Put(serv, a, b, HashServ(serv[a][b], h))
           /\ conns' = cs /\ todo' = todo /\ SameAnswers(ca, calls')
  <2>1. \A n \in serv[p][q].hash : calls'[n].req = calls[n].req
    BY ONLY Inv, p \in Procs, q \in Procs, <1>3, <1>5, HashReqBack
  <2> QED BY ONLY Inv, <1>2, <1>5, <2>1, a \in Procs, b \in Procs, p \in Procs, q \in Procs,
             PairOK(cs, serv, calls, todo, p, q), PairLess DEF s
<1> QED BY <1>3, <1>4, <1>5

LEMMA PairUnhooked ==
  ASSUME Inv, NEW n \in DOMAIN calls, calls[n].listed, Unhooked(TimedOut(n), n)
  PROVE  /\ Settled(calls)
         /\ \A p, q \in Procs : PairOK(conns, serv, calls, todo, p, q) => PairOK(conns', serv', calls', todo', p, q)
<1> DEFINE a == calls[n].from
           b == calls[n].to
<1>1. PICK h \in HashT :
        /\ h \subseteq serv[a][b].hash
        /\ serv' = Put(serv, a, b, HashServ(serv[a][b], h))
        /\ Changed(calls, calls', {n})
        /\ \A m \in DOMAIN calls : calls'[m].wrong = calls[m].wrong
        /\ UNCHANGED <<config, up, conns, todo, died, broken>>
  BY UnhookedIs
<1>2. calls[n] \in CallT
  BY InvParts
<1>3. a \in Procs /\ b \in Procs
  BY <1>2 DEF CallT
<1> HIDE DEF a, b
<1>4. SameAnswers(calls, calls')
  BY <1>1 DEF SameAnswers, Changed, SameCall
<1>5. Settled(calls)
  BY <1>1, <1>4 DEF Settled
<1>6. ASSUME NEW p \in Procs, NEW q \in Procs, PairOK(conns, serv, calls, todo, p, q)
      PROVE  PairOK(conns', serv', calls', todo', p, q)
  <2>1. \A m \in serv[p][q].hash : calls'[m].req = calls[m].req
    BY <1>4, HashReq
  <2>2. conns' = conns /\ todo' = todo
    BY <1>1
  <2> QED BY ONLY Inv, <1>1, <1>3, <1>6, <2>1, <2>2, p \in Procs, q \in Procs, PairLess
<1> QED BY <1>5, <1>6

LEMMA PairRpcCall ==
  ASSUME Inv, NEW a \in Procs, NEW b \in Procs, NEW timed \in BOOLEAN, RpcCall(a, b, timed)
  PROVE  /\ OwnAnswer => OwnAnswer'
         /\ \A p, q \in Procs : p # q /\ PairOK(conns, serv, calls, todo, p, q) =>
              PairOK(conns', serv', calls', todo', p, q)
<1> DEFINE n == Len(calls) + 1
           s == serv[a][b]
           h == s.hash \cup {n}
           t == CallServ(s, NextReq(s.req), h)
           d == NewParam(a, b, s.req, timed)
           k == s.conn
           x == EndOf(a, k)
           y == [type |-> "call", call |-> n, req |-> s.req]
<1>1. /\ serv \in ServsT /\ conns \in ConnsT /\ NetOK(config, conns, serv) /\ WaitOK(config, serv)
      /\ CallsOK(calls, serv) /\ calls \in Seq(CallT)
  BY InvParts
<1>2. s \in ServT /\ k # NULL /\ s.est /\ a # b
  BY <1>1, ServTypes DEF RpcCall, WaitOK
<1>3. n \in Nat /\ s.req \in Nat /\ NextReq(s.req) = s.req + 1 /\ NextReq(s.req) \in Nat /\ h \in HashT
  <2>1. n \in Nat
    BY <1>1
  <2>2. s.req \in Nat /\ s.hash \in HashT
    BY <1>2 DEF ServT
  <2> QED BY <2>1, <2>2 DEF NextReq, HashT
<1>4. /\ calls' = Append(calls, d)
      /\ serv' = Put(serv, a, b, t)
      /\ conns' = Send(conns, k, x, y)
      /\ UNCHANGED <<config, todo, died, broken>>
  <2>1. calls' = Append(calls, d) /\ UNCHANGED <<config, todo, died, broken>>
          /\ conns' = Send(conns, k, x, y)
    BY DEF RpcCall
  <2>2. serv' = [serv EXCEPT ![a][b] = [s EXCEPT !.req = NextReq(s.req), !.hash = h]]
    BY DEF RpcCall
  <2>3. serv' = Put(serv, a, b, t)
    <3> HIDE DEF s, h
    <3> QED BY ONLY <2>2 DEF Put, CallServ
  <2> QED BY ONLY <2>1, <2>3
<1>5. d.req = s.req /\ d.wrong = FALSE
  BY DEF NewParam
<1>6. y \in Pkts /\ y.type = "call" /\ y.req = s.req /\ y.call = n
  BY ONLY <1>3, PktsAre
<1>7. k \in Slots /\ x \in Ends /\ Held(conns[k], a, b, x)
  BY <1>2, EndHeld
<1>8. t \in ServT /\ t.est = s.est /\ t.conn = s.conn /\ t.hash = h /\ t.req = s.req + 1
  <2>1. t \in ServT /\ t.est = s.est /\ t.conn = s.conn /\ t.hash = h /\ t.req = NextReq(s.req)
    <3>1. NextReq(s.req) \in Nat /\ h \in HashT
      BY ONLY <1>3
    <3>2. s \in ServT
      BY ONLY <1>2
    <3> HIDE DEF s, h
    <3> QED BY ONLY <3>1, <3>2, CallServIs
  <2> HIDE DEF t, s, h
  <2> QED BY ONLY <1>3, <2>1
<1> HIDE DEF t, y, d, x
<1>9. OnlyEntry(serv, serv', a, b) /\ serv'[a][b] = t
  BY ONLY <1>1, <1>4, <1>8, a \in Procs, b \in Procs, ServPut
<1>10. /\ DOMAIN calls' = DOMAIN calls \cup {n} /\ calls'[n] = d
       /\ (\A m \in DOMAIN calls : calls'[m] = calls[m]) /\ n \notin DOMAIN calls
  <2>1. calls'[n] = d
    BY ONLY <1>1, <1>4
  <2>2. DOMAIN calls' = DOMAIN calls \cup {n}
    BY ONLY <1>1, <1>4
  <2>3. \A m \in DOMAIN calls : calls'[m] = calls[m]
    BY ONLY <1>1, <1>4
  <2>4. n \notin DOMAIN calls
    BY ONLY <1>1
  <2> QED BY ONLY <2>1, <2>2, <2>3, <2>4
<1> HIDE DEF n
<1>11. OwnAnswer => OwnAnswer'
  BY <1>4, <1>5, <1>10 DEF OwnAnswer, InConfig
<1>12. OnlySlot(conns, conns', k) /\ Sent(conns[k], conns'[k], x, y)
  BY ONLY <1>1, <1>4, <1>6, <1>7, SendIs
<1>13. ASSUME NEW p \in Procs, NEW q \in Procs, p # q, PairOK(conns, serv, calls, todo, p, q)
       PROVE  PairOK(conns', serv', calls', todo', p, q)
  <2>1. \A m \in serv[p][q].hash : m \in DOMAIN calls /\ calls'[m].req = calls[m].req /\ calls[m].req \in Nat
    <3>1. \A m \in serv[p][q].hash : m \in DOMAIN calls
      BY <1>1 DEF CallsOK, HashOK
    <3>2. \A m \in DOMAIN calls : calls[m].req \in Nat
      <4>1. \A m \in DOMAIN calls : calls[m] \in CallT
        BY ONLY <1>1
      <4>2. \A c \in CallT : c.req \in Nat
        BY DEF CallT
      <4> QED BY ONLY <4>1, <4>2
    <3> QED BY <1>10, <3>1, <3>2
  <2>2. PairOK(conns, serv', calls', todo, p, q)
    <3>1. CASE a = p /\ b = q
      <4>1. SameEntry(serv[p][q], serv'[p][q]) /\ serv'[p][q].req = serv[p][q].req + 1
              /\ serv'[p][q].hash = serv[p][q].hash \cup {n}
        BY <1>8, <1>9, <3>1 DEF SameEntry
      <4>2. n \notin serv[p][q].hash /\ calls'[n].req = serv[p][q].req /\ OnlyEntry(serv, serv', p, q)
        BY <1>5, <1>9, <1>10, <2>1, <3>1
      <4> QED BY ONLY <1>1, <1>13, <2>1, <4>1, <4>2, p \in Procs, q \in Procs, PairNumber
    <3>2. CASE ~(a = p /\ b = q)
      <4>1. serv'[p][q] = serv[p][q]
        BY <1>9, <3>2 DEF OnlyEntry
      <4>2. SameEntry(serv[q][p], serv'[q][p])
        <5>1. CASE a = q /\ b = p
          BY <1>8, <1>9, <5>1 DEF SameEntry
        <5>2. CASE ~(a = q /\ b = p)
          BY <1>9, <5>2 DEF OnlyEntry, SameEntry
        <5> QED BY <5>1, <5>2
      <4>3. PairSame(conns, conns, serv, serv', calls, calls', todo, todo, p, q)
        BY <2>1, <4>1, <4>2 DEF PairSame, SameEntry
      <4> QED BY ONLY <1>13, <4>3, p \in Procs, q \in Procs, PairFrame
    <3> QED BY <3>1, <3>2
  <2>3. ASSUME NEW e \in Ends, IsLine(conns[k], p, q, e)
        PROVE  LineMaySend(calls', serv'[p][q], serv'[q][p], conns[k], e, x, y)
    <3>1. Ready(conns[k]) /\ conns[k].open[x]
      <4>1. Ready(conns[k])
        BY ONLY <1>1, <1>2, <1>7, <1>13, <2>3, a \in Procs, b \in Procs, p \in Procs, q \in Procs, EstReady DEF s
      <4> QED BY <1>7, <4>1 DEF Held
    <3> DEFINE z == IF e = 1 THEN serv'[p][q] ELSE serv'[q][p]
    <3> HIDE DEF z
    <3>2. MaySend(z, conns[k], x, y)
      BY <1>6, <3>1 DEF MaySend, Ready
    <3>3. ASSUME x = e
          PROVE  conns[k].udata[e] /\ serv'[p][q].est /\ Token(calls', serv'[p][q], y)
      <4>1. a = p /\ b = q /\ conns[k].udata[e]
        BY <1>7, <2>3, <3>3 DEF Held, IsLine
      <4>2. serv'[p][q].est /\ serv'[p][q].req = s.req + 1 /\ serv'[p][q].hash = s.hash \cup {n}
        BY <1>2, <1>8, <1>9, <4>1
      <4>3. \A m \in s.hash : calls'[m].req # s.req
        <5>1. \A m \in s.hash : calls[m].req < s.req
          BY <1>13, <4>1 DEF PairOK
        <5> QED BY <1>3, <2>1, <4>1, <5>1
      <4>4. Token(calls', serv'[p][q], y)
        BY <1>3, <1>6, <4>2, <4>3 DEF Token
      <4> QED BY <4>1, <4>2, <4>4
    <3> QED BY <1>6, <3>2, <3>3 DEF LineMaySend, z
  <2>4. PairOK(conns', serv', calls', todo, p, q)
    <3> HIDE DEF k
    <3> QED BY ONLY <1>7, <1>12, <2>2, <2>3, p \in Procs, q \in Procs, PairSend
  <2> QED BY <1>4, <2>4
<1> QED BY <1>11, <1>13

---------------------------------------------------------------------------
(* Every callback gets its own answer.                                     *)

LEMMA OwnStep ==
  ASSUME Own, config' = config, died \subseteq died', broken \subseteq broken', OwnAnswer',
         \A p, q \in Procs : p # q /\ p \notin died' /\ {p, q} \notin broken' /\ q \in config
                               /\ PairOK(conns, serv, calls, todo, p, q) => PairOK(conns', serv', calls', todo', p, q)
  PROVE  Own'
BY DEF Own, Good

LEMMA SettledOwn ==
  ASSUME OwnAnswer, NEW ca, OwnCalls(ca), Settled(ca)
  PROVE  OwnAnswer'
<1>1. config' = config /\ died \subseteq died' /\ broken \subseteq broken'
  BY DEF Settled
<1>2. OwnCalls(calls)
  BY OwnIsCalls
<1> QED BY <1>1, <1>2, OwnSame DEF Settled

\* The answer that a process takes is the one to the call it finds in rpc_hash.
LEMMA OwnRpcBack ==
  ASSUME Inv, Own, NEW k \in Slots, NEW x \in Ends, conns[k].open[x], conns[k].udata[x],
         conns[k].chan[x] # <<>>, NEW y, y = Head(conns[k].chan[x]), y.type = "ret", NEW cs,
         NEW a, NEW b, a = conns[k].ends[x], b = conns[k].ends[Other(x)], HandleRpcBack(a, b, y, cs)
  PROVE  /\ OwnAnswer'
         /\ config' = config /\ died \subseteq died' /\ broken' = broken
<1> DEFINE c == conns[k]
           s == serv[a][b]
           ns == {n \in s.hash : calls[n].req = y.req}
           ca == Answered(ns, y)
<1>1. serv \in ServsT /\ conns \in ConnsT /\ NetOK(config, conns, serv) /\ CallsOK(calls, serv)
  BY InvParts
<1>2. ConnOK(config, c) /\ c \in ConnT
  BY <1>1 DEF NetOK, SlotsOK, ConnsT
<1>3. a \in Procs /\ b \in Procs /\ a # b
  BY <1>2, EndProcs
<1>4. 1 \in DOMAIN c.chan[x] /\ c.chan[x][1] = y
  <2>1. c.chan[x] \in Seq(Pkts)
    BY <1>2, ConnFields DEF ChansT
  <2> QED BY <2>1
<1>5. \A n \in ns : n \in s.hash /\ calls[n].req = y.req
  OBVIOUS
<1>6. Back(calls, ca, ns) /\ Settled(ca) /\ \A n \in ns : ca[n].wrong => n # y.call
  <2>1. PICK ms, cb : ms = ns /\ cb = ca
    OBVIOUS
  <2>2. ms = {n \in serv[a][b].hash : calls[n].req = y.req} /\ cb = Answered(ms, y)
    BY <2>1
  <2> HIDE DEF ns, ca
  <2>3. Back(calls, cb, ms) /\ Settled(cb) /\ \A n \in ms : cb[n].wrong => n # y.call
    BY ONLY Inv, <1>3, <2>2, HandleRpcBack(a, b, y, cs), BackAnswers, ZenonT(60)
  <2> QED BY ONLY <2>1, <2>3
<1> HIDE DEF ns, ca
<1>7. ASSUME NEW n \in DOMAIN ca, ca[n].wrong, ca[n].to \in config
      PROVE  ca[n].from \in died \/ {ca[n].from, ca[n].to} \in broken
  <2>1. n \in DOMAIN calls
    BY <1>6, <1>7 DEF Back
  <2>2. CASE n \in ns
    <3>1. n # y.call
      BY <1>6, <1>7, <2>2
    <3>2. calls[n].from = a /\ calls[n].to = b
      BY <1>1, <1>3, <1>5, <2>2 DEF CallsOK, HashOK
    <3>3. ca[n].from = a /\ ca[n].to = b
      BY <1>6, <2>2, <3>2 DEF Back, CalledBack, SameCall
    <3> SUFFICES ASSUME a \notin died, {a, b} \notin broken PROVE FALSE
      BY <3>3
    <3>4. PairOK(conns, serv, calls, todo, a, b)
      BY <1>3, <1>7, <3>3 DEF Own, Good
    <3>5. IsLine(c, a, b, x)
      BY SMTT(40) DEF IsLine
    <3>6. Line(calls, s, serv[b][a], c, k, x)
      BY <3>4, <3>5 DEF PairOK, Lines
    <3>7. Token(calls, s, y)
      BY <1>4, <3>6 DEF Line
    <3> QED BY <1>5, <2>2, <3>1, <3>7 DEF Token
  <2>3. CASE n \notin ns
    <3>1. ca[n] = calls[n]
      BY <1>6, <2>1, <2>3 DEF Back
    <3> QED BY <1>7, <2>1, <3>1 DEF Own, OwnAnswer, InConfig
  <2> QED BY <2>2, <2>3
<1>8. OwnCalls(ca)
  BY <1>7 DEF OwnCalls
<1>9. OwnAnswer'
  BY <1>6, <1>8, SettledOwn DEF Own
<1> QED BY <1>6, <1>9 DEF Settled

LEMMA RpcRetAnswers ==
  ASSUME Inv, NEW a \in Procs, NEW b, NEW t, NEW cs, RpcRet(a, b, t, cs)
  PROVE  Settled(calls)
<1>1. CASE Died(a, cs)
  BY <1>1, DiedAnswers DEF Died, Settled
<1>2. CASE UNCHANGED <<config, calls, died, broken>>
  BY <1>2 DEF SameAnswers, Settled
<1> QED BY <1>1, <1>2 DEF RpcRet

\* A step after which the calls have the answers they had.
LEMMA OwnSettled ==
  ASSUME Own, Settled(calls),
         \A p, q \in Procs : p # q /\ p \notin died' /\ {p, q} \notin broken' /\ q \in config
                               /\ PairOK(conns, serv, calls, todo, p, q) => PairOK(conns', serv', calls', todo', p, q)
  PROVE  Own'
<1>1. OwnAnswer /\ OwnCalls(calls)
  BY OwnIsCalls DEF Own
<1>2. OwnAnswer'
  BY <1>1, SettledOwn
<1>3. config' = config /\ died \subseteq died' /\ broken \subseteq broken'
  BY DEF Settled
<1> QED BY <1>2, <1>3, OwnStep

LEMMA OwnDoEvent ==
  ASSUME Inv, Own, NEW k \in Slots, NEW x \in Ends, DoEvent(k, x)
  PROVE  Own'
<1> DEFINE c == conns[k]
           a == c.ends[x]
           b == c.ends[Other(x)]
           y == Head(c.chan[x])
<1>1. conns \in ConnsT /\ NetOK(config, conns, serv) /\ OwnAnswer /\ calls \in Seq(CallT)
  BY InvParts DEF Own
<1>2. c.open[x] /\ c.chan[x] # <<>>
  BY DEF DoEvent
<1>3. a \in Procs /\ b \in Procs /\ a # b
  <2>1. ConnOK(config, c)
    BY <1>1 DEF NetOK, SlotsOK
  <2> QED BY <1>2, <2>1, EndProcs
<1>4. c.chan[x] \in Seq(Pkts)
  BY <1>1 DEF ConnsT, ConnT, ChansT
<1>5. CASE y \in {Fin, Rst}
  <2>1. WhenConnClosed(a, k, x, conns, calls)
    BY <1>5 DEF DoEvent
  <2>2. Settled(calls)
    BY <1>1, <1>3, <2>1, ClosedAnswers
  <2>3. Kind(c.chan[x], "fin") \/ Kind(c.chan[x], "rst")
    <3>1. 1 \in DOMAIN c.chan[x] /\ c.chan[x][1] \in {Fin, Rst}
      BY <1>2, <1>4, <1>5
    <3> QED BY <3>1 DEF Kind, Fin, Rst
  <2>4. QuietConns(config, conns, conns) /\ Back(calls, calls, {})
    BY <1>1, QuietSelf, NoneBack
  <2>5. ASSUME NEW p \in Procs, NEW q \in Procs, p # q, p \notin died', PairOK(conns, serv, calls, todo, p, q)
        PROVE  PairOK(conns', serv', calls', todo', p, q)
    <3>1. ASSUME NEW e \in Ends, IsLine(c, p, q, e)
          PROVE  CloseReason(c, e, x)
      <4>1. Line(calls, serv[p][q], serv[q][p], c, k, e)
        BY <2>5, <3>1 DEF PairOK, Lines
      <4> HIDE DEF c
      <4> QED BY <2>3, <4>1, LineFacts DEF CloseReason
    <3> QED BY ONLY Inv, <1>2, <2>1, <2>4, <2>5, <3>1, k \in Slots, x \in Ends, PairClosed
  <2> QED BY <2>2, <2>5, OwnSettled
<1>6. CASE y \notin {Fin, Rst}
  <2>1. PICK cs \in Taken(conns, k, x) :
          \/ ~c.udata[x] /\ HandleIdentify(a, b, k, x, cs)
          \/ c.udata[x] /\ y.type = "back" /\ HandleIdentifyBack(a, b, cs, y.ret)
          \/ /\ c.udata[x] /\ y.type = "call"
             /\ HandleMsg(a, b, [from |-> b, call |-> y.call, req |-> y.req], cs)
          \/ c.udata[x] /\ y.type = "ret" /\ HandleRpcBack(a, b, y, cs)
    BY <1>6 DEF DoEvent, Taken
  <2>2. OnlySlot(conns, cs, k) /\ Popped(c, cs[k], x)
    BY <1>1, <1>2, TakenIs
  <2>3. y \in Pkts /\ y # Fin
    BY <1>2, <1>4, <1>6
  <2>4. CASE ~c.udata[x] /\ HandleIdentify(a, b, k, x, cs)
    <3>1. Settled(calls)
      <4>1. UNCHANGED <<config, died, broken, calls>>
        BY <2>4 DEF HandleIdentify
      <4> QED BY <4>1 DEF Settled, SameAnswers
    <3>3. ASSUME NEW p \in Procs, NEW q \in Procs, p # q, q \in config, PairOK(conns, serv, calls, todo, p, q)
          PROVE  PairOK(conns', serv', calls', todo', p, q)
      BY ONLY Inv, <1>2, <2>3, <2>4, <3>3, k \in Slots, x \in Ends, cs \in Taken(conns, k, x), PairIdentify
    <3> QED BY <3>1, <3>3, OwnSettled
  <2>5. CASE c.udata[x] /\ y.type = "back" /\ HandleIdentifyBack(a, b, cs, y.ret)
    <3>1. Settled(calls)
      <4>1. CASE UNCHANGED <<config, died, broken, calls>>
        BY <4>1 DEF SameAnswers, Settled
      <4>2. ASSUME NEW j, WhenConnClosed(a, j, EndOf(a, j), cs, calls)
            PROVE  Settled(calls)
        BY <1>1, <1>3, <4>2, ClosedAnswers
      <4> QED BY <2>5, <4>1, <4>2 DEF HandleIdentifyBack
    <3>3. ASSUME NEW p \in Procs, NEW q \in Procs, p # q, p \notin died', q \in config,
                 PairOK(conns, serv, calls, todo, p, q)
          PROVE  PairOK(conns', serv', calls', todo', p, q)
      BY ONLY Inv, <1>2, <2>5, <3>3, k \in Slots, x \in Ends, cs \in Taken(conns, k, x), PairIdentifyBack
    <3> QED BY <3>1, <3>3, OwnSettled
  <2>6. CASE c.udata[x] /\ y.type = "call" /\ HandleMsg(a, b, [from |-> b, call |-> y.call, req |-> y.req], cs)
    <3>1. y.call \in Nat /\ y.req \in Nat
      BY <2>3, <2>6, PktKinds
    <3>2. PICK t \in TodoT : t = [from |-> b, call |-> y.call, req |-> y.req]
      BY <1>3, <3>1 DEF TodoT
    <3>3. HandleMsg(a, b, t, cs) /\ t.from = b /\ t.call = y.call /\ t.req = y.req
      BY <2>6, <3>2
    <3>4. Settled(calls)
      <4>1. CASE RpcRet(a, b, t, cs)
        BY ONLY Inv, <1>3, <4>1, RpcRetAnswers
      <4>2. CASE UNCHANGED <<config, calls, died, broken>>
        BY <4>2 DEF SameAnswers, Settled
      <4> QED BY <3>3, <4>1, <4>2 DEF HandleMsg
    <3>6. ASSUME NEW p \in Procs, NEW q \in Procs, p # q, p \notin died', PairOK(conns, serv, calls, todo, p, q)
          PROVE  PairOK(conns', serv', calls', todo', p, q)
      BY ONLY Inv, <1>2, <2>6, <3>3, <3>6, k \in Slots, x \in Ends, cs \in Taken(conns, k, x), t \in TodoT, PairMsg
    <3> QED BY <3>4, <3>6, OwnSettled
  <2>7. CASE c.udata[x] /\ y.type = "ret" /\ HandleRpcBack(a, b, y, cs)
    <3>1. OwnAnswer' /\ config' = config /\ died \subseteq died' /\ broken' = broken
      BY ONLY Inv, Own, <1>2, <2>7, k \in Slots, x \in Ends, OwnRpcBack
    <3>2. QuietConns(config, conns, cs)
      BY <1>1, <1>2, TakenQuiet
    <3>3. ASSUME NEW p \in Procs, NEW q \in Procs, p # q, p \notin died', PairOK(conns, serv, calls, todo, p, q)
          PROVE  PairOK(conns', serv', calls', todo', p, q)
      <4>1. PairOK(cs, serv, calls, todo, p, q)
        BY ONLY <2>2, <3>3, k \in Slots, x \in Ends, PairPop
      <4> HIDE DEF y
      <4> QED BY ONLY Inv, <1>3, <2>7, <3>2, <3>3, <4>1, PairRpcBack
    <3> QED BY <3>1, <3>3, OwnStep
  <2> QED BY <2>1, <2>4, <2>5, <2>6, <2>7
<1> QED BY <1>5, <1>6

\* A break is seen by the pair of the connection alone.
LEMMA OwnBreak ==
  ASSUME Inv, Own, NEW k \in Slots, Break(k)
  PROVE  Own'
<1> DEFINE c == conns[k]
<1>1. /\ OnlySlot(conns, conns', k) /\ QuietConns(config, conns, conns')
      /\ UNCHANGED <<config, up, serv, calls, todo, died>>
      /\ broken' = broken \cup {{c.ends[1], c.ends[2]}}
  BY BreakIs
<1>2. OwnAnswer'
  BY <1>1 DEF Own, OwnAnswer, InConfig
<1>3. ASSUME NEW p \in Procs, NEW q \in Procs, {p, q} \notin broken', PairOK(conns, serv, calls, todo, p, q)
      PROVE  PairOK(conns', serv', calls', todo', p, q)
  <2>1. {c.ends[1], c.ends[2]} # {p, q}
    BY <1>1, <1>3
  <2>2. \A e \in Ends : ~IsLine(c, p, q, e)
    BY <2>1, OtherEnd DEF IsLine, Ends
  <2>3. conns'[k].ends = c.ends
    BY <1>1 DEF QuietConns, Quiet
  <2>4. \A j \in Slots, e \in Ends : IsLine(conns'[j], p, q, e) => conns'[j] = conns[j]
    <3> SUFFICES ASSUME NEW j \in Slots, NEW e \in Ends, IsLine(conns'[j], p, q, e)
                 PROVE  conns'[j] = conns[j]
      OBVIOUS
    <3>1. j # k
      BY <2>2, <2>3 DEF IsLine
    <3> QED BY <1>1, <3>1 DEF OnlySlot
  <2>5. PairSame(conns, conns', serv, serv', calls, calls', todo, todo', p, q)
    BY <1>1, <2>4 DEF PairSame, SameEntry
  <2> QED BY ONLY <1>3, <2>5, p \in Procs, q \in Procs, PairFrame
<1>4. broken \subseteq broken' /\ config' = config /\ died \subseteq died'
  BY <1>1
<1> QED BY <1>2, <1>3, <1>4, OwnStep

LEMMA OwnDied ==
  ASSUME Inv, Own, NEW r \in Procs, Died(r, conns)
  PROVE  Own'
<1>1. conns \in ConnsT /\ NetOK(config, conns, serv)
  BY InvParts
<1>2. Settled(calls)
  BY DiedAnswers DEF Died, Settled
<1>4. ASSUME NEW p \in Procs, NEW q \in Procs, p # q, p \notin died', PairOK(conns, serv, calls, todo, p, q)
      PROVE  PairOK(conns', serv', calls', todo', p, q)
  BY ONLY Inv, Died(r, conns), r \in Procs, <1>1, <1>4, PairDied
<1> QED BY <1>2, <1>4, OwnSettled

LEMMA OwnCheckList ==
  ASSUME Inv, Own, NEW v \in Procs, NEW w \in Procs, CheckList(v, w)
  PROVE  Own'
<1>1. config' = config /\ died' = died /\ broken' = broken /\ calls' = calls
  BY DEF CheckList
<1>2. OwnAnswer'
  BY <1>1 DEF Own, OwnAnswer, InConfig
<1>3. ASSUME NEW p \in Procs, NEW q \in Procs, p # q, PairOK(conns, serv, calls, todo, p, q)
      PROVE  PairOK(conns', serv', calls', todo', p, q)
  BY ONLY Inv, v \in Procs, w \in Procs, CheckList(v, w), <1>3, PairCheckList
<1> QED BY <1>1, <1>2, <1>3, OwnStep

\* s_servg_connect is used where config.conf names nobody.
LEMMA OwnServgConnect ==
  ASSUME Inv, Own, NEW v \in Procs, NEW w \in Procs, ServgConnect(v, w)
  PROVE  Own'
<1>1. CASE w \in up
  <2>1. config = {} /\ config' = config /\ calls' = calls
    BY <1>1 DEF ServgConnect
  <2> QED BY <2>1 DEF Own, OwnAnswer, InConfig, Good
<1>2. CASE w \notin up
  <2>1. Died(v, conns)
    BY <1>2 DEF ServgConnect
  <2> QED BY <2>1, OwnDied
<1> QED BY <1>1, <1>2

LEMMA OwnRpcCall ==
  ASSUME Inv, Own, NEW a \in Procs, NEW b \in Procs, NEW timed \in BOOLEAN, RpcCall(a, b, timed)
  PROVE  Own'
<1>1. config' = config /\ died' = died /\ broken' = broken
  BY DEF RpcCall
<1>2. OwnAnswer'
  BY PairRpcCall DEF Own
<1>3. ASSUME NEW p \in Procs, NEW q \in Procs, p # q, PairOK(conns, serv, calls, todo, p, q)
      PROVE  PairOK(conns', serv', calls', todo', p, q)
  BY <1>3, PairRpcCall
<1> QED BY <1>1, <1>2, <1>3, OwnStep

LEMMA OwnAnswers ==
  ASSUME Inv, Own, NEW a \in Procs, Answer(a)
  PROVE  Own'
<1>1. serv \in ServsT /\ conns \in ConnsT /\ todo \in [Procs -> SUBSET TodoT] /\ WaitOK(config, serv)
        /\ NetOK(config, conns, serv) /\ OwnAnswer
  BY InvParts DEF Own
<1>2. PICK t \in todo[a] :
        \/ serv[a][t.from].est /\ RpcRet(a, t.from, t, conns)
        \/ /\ todo' = [todo EXCEPT ![a] = @ \ {t}]
           /\ UNCHANGED <<config, up, serv, conns, calls, joined, died, broken, faults>>
  BY DEF Answer
<1> DEFINE b == t.from
<1>3. t \in TodoT /\ b \in Procs
  BY <1>1 DEF TodoT
<1>4. CASE serv[a][b].est /\ RpcRet(a, b, t, conns)
  <2> HIDE DEF b
  <2>1. Settled(calls)
    BY ONLY Inv, a \in Procs, <1>4, RpcRetAnswers
  <2>3. a # b
    BY <1>1, <1>4 DEF WaitOK
  <2>4. ASSUME NEW p \in Procs, NEW q \in Procs, p # q, p \notin died', PairOK(conns, serv, calls, todo, p, q)
        PROVE  PairOK(conns', serv', calls', todo', p, q)
    <3>1. a = q /\ b = p => Kept(calls, serv[p][q], serv[q][p], t)
      BY <1>2, <2>4 DEF PairOK, b
    <3>2. ASSUME NEW k \in Slots, NEW e \in Ends, k = serv[a][b].conn, IsLine(conns[k], p, q, e)
          PROVE  Ready(conns[k])
      <4>1. k # NULL
        BY ONLY k \in Slots, BoundsAssumption DEF Slots, NULL
      <4>2. PICK f \in Ends : Held(conns[k], a, b, f)
        BY ONLY <1>1, <1>3, <2>3, <3>2, <4>1, a \in Procs, HeldBy
      <4> QED BY ONLY <1>1, <1>3, <1>4, <2>4, <3>2, <4>2, a \in Procs, f \in Ends, EstReady
    <3>3. \A k \in Slots, e \in Ends : k = serv[a][b].conn /\ IsLine(conns[k], p, q, e) => Ready(conns[k])
      BY <3>2
    <3>4. QuietConns(config, conns, conns)
      BY <1>1, QuietSelf
    <3> QED BY ONLY Inv, <1>3, <1>4, <2>3, <2>4, <3>1, <3>3, <3>4, a \in Procs, PairRpcRet
  <2> QED BY <2>1, <2>4, OwnSettled
<1>5. CASE /\ todo' = [todo EXCEPT ![a] = @ \ {t}]
           /\ UNCHANGED <<config, up, serv, conns, calls, joined, died, broken, faults>>
  <2>1. OwnAnswer'
    BY <1>1, <1>5 DEF OwnAnswer, InConfig
  <2>2. ASSUME NEW p \in Procs, NEW q \in Procs, PairOK(conns, serv, calls, todo, p, q)
        PROVE  PairOK(conns', serv', calls', todo', p, q)
    <3>1. \A u \in todo'[q] : u.from = p => u \in todo[q]
      BY <1>1, <1>5
    <3>2. PairOK(conns, serv, calls, todo', p, q)
      BY ONLY <2>2, <3>1, PairTodo
    <3> QED BY <1>5, <3>2
  <2> QED BY <1>5, <2>1, <2>2, OwnStep
<1> QED BY <1>2, <1>4, <1>5

LEMMA OwnTimeout ==
  ASSUME Inv, Own, NEW n \in DOMAIN calls, Timeout(n)
  PROVE  Own'
<1> DEFINE c == calls[n]
           ca == TimedOut(n)
<1>1. calls \in Seq(CallT) /\ conns \in ConnsT /\ OwnAnswer
  BY InvParts DEF Own
<1>2. c \in CallT
  BY <1>1
<1>3. c.from \in Procs /\ c.to \in Procs
  <2> HIDE DEF c
  <2> QED BY <1>2 DEF CallT
<1>4. c.listed /\ (Unhooked(ca, n) \/ ClosedInside(c.from, c.to, conns, ca))
  BY Zenon DEF Timeout
<1>5. CASE Unhooked(ca, n)
  <2>1. Settled(calls) /\ \A p, q \in Procs : PairOK(conns, serv, calls, todo, p, q) =>
                                                PairOK(conns', serv', calls', todo', p, q)
    BY <1>4, <1>5, PairUnhooked
  <2> QED BY <2>1, OwnSettled
<1>6. CASE ClosedInside(c.from, c.to, conns, ca)
  <2>1. Back(calls, ca, {n}) /\ ca[n].wrong = c.wrong
    BY <1>1, TimedOutBack
  <2>2. OwnCalls(ca)
    <3> HIDE DEF ca
    <3>1. /\ DOMAIN ca = DOMAIN calls
          /\ \A m \in DOMAIN calls : ca[m].from = calls[m].from /\ ca[m].to = calls[m].to /\ ca[m].wrong = calls[m].wrong
      BY <2>1 DEF Back, CalledBack, SameCall
    <3> QED BY <1>1, <3>1 DEF OwnCalls, OwnAnswer, InConfig
  <2>3. QuietConns(config, conns, conns)
    BY <1>1, QuietSelf
  <2> HIDE DEF c, ca
  <2>4. Settled(ca)
    BY ONLY Inv, <1>3, <1>6, <2>1, InsideAnswers DEF Back
  <2>5. OwnAnswer'
    BY <1>1, <2>2, <2>4, SettledOwn
  <2>6. ASSUME NEW p \in Procs, NEW q \in Procs, p # q, p \notin died', PairOK(conns, serv, calls, todo, p, q)
        PROVE  PairOK(conns', serv', calls', todo', p, q)
    BY ONLY Inv, <1>3, <1>6, <2>1, <2>3, <2>6, PairInside
  <2>7. config' = config /\ died \subseteq died' /\ broken \subseteq broken'
    BY <2>4 DEF Settled
  <2> QED BY <2>5, <2>6, <2>7, OwnStep
<1> QED BY <1>4, <1>5, <1>6

LEMMA OwnTimeoutFreed ==
  ASSUME Inv, Own, NEW n \in DOMAIN calls, TimeoutFreed(n)
  PROVE  Own'
<1>1. calls[n].listed /\ (Unhooked(TimedOut(n), n) \/ Died(calls[n].from, conns))
  BY Zenon DEF TimeoutFreed
<1>2. calls[n] \in CallT
  BY InvParts
<1>3. calls[n].from \in Procs
  BY <1>2 DEF CallT
<1>4. CASE Died(calls[n].from, conns)
  BY ONLY Inv, Own, <1>3, <1>4, OwnDied
<1>5. CASE Unhooked(TimedOut(n), n)
  <2>1. Settled(calls) /\ \A p, q \in Procs : PairOK(conns, serv, calls, todo, p, q) =>
                                                PairOK(conns', serv', calls', todo', p, q)
    BY <1>1, <1>5, PairUnhooked
  <2> QED BY <2>1, OwnSettled
<1> QED BY <1>1, <1>4, <1>5

LEMMA OwnInit == Init => Own
<1> SUFFICES ASSUME Init PROVE Own
  OBVIOUS
<1>1. /\ calls = <<>> /\ todo = [p \in Procs |-> {}] /\ conns = [k \in Slots |-> NoConn]
      /\ serv = [p \in Procs |-> [q \in Procs |-> InitServ(p, q)]]
  BY DEF Init, Slots
<1>2. OwnAnswer
  BY <1>1 DEF OwnAnswer
<1>3. ASSUME NEW p \in Procs, NEW q \in Procs, p # q
      PROVE  PairOK(conns, serv, calls, todo, p, q)
  <2>1. serv[p][q] = InitServ(p, q) /\ serv[q][p] = InitServ(q, p)
    BY <1>1
  <2>2. ~serv[p][q].est /\ serv[p][q].hash = {} /\ ~serv[q][p].est
    BY <2>1, InitServIs
  <2>3. Lines(conns, serv[p][q], serv[q][p], calls, p, q)
    BY <1>1, <1>3, NoLine DEF Lines
  <2>4. todo[q] = {}
    BY <1>1
  <2> QED BY <2>2, <2>3, <2>4 DEF PairOK
<1> QED BY <1>2, <1>3 DEF Own, Good

LEMMA OwnNext == Inv /\ Own /\ [Next]_vars => Own'
<1> SUFFICES ASSUME Inv, Own, [Next]_vars PROVE Own'
  OBVIOUS
<1>1. ASSUME NEW p \in Procs, NEW q \in Procs, CheckList(p, q) PROVE Own'
  BY <1>1, OwnCheckList
<1>2. ASSUME NEW p \in Procs, NEW q \in Procs, ServgConnect(p, q) PROVE Own'
  BY <1>2, OwnServgConnect
<1>3. ASSUME NEW p \in Procs, NEW q \in Procs, RpcCallDies(p, q) PROVE Own'
  BY <1>3, OwnDied DEF RpcCallDies
<1>4. ASSUME NEW p \in Procs, NEW q \in Procs, NEW timed \in BOOLEAN, RpcCall(p, q, timed) PROVE Own'
  BY <1>4, OwnRpcCall
<1>5. ASSUME NEW k \in 1 .. MaxConn, NEW e \in Ends, DoEvent(k, e) PROVE Own'
  BY <1>5, OwnDoEvent DEF Slots
<1>6. ASSUME NEW p \in Procs, Answer(p) PROVE Own'
  BY <1>6, OwnAnswers
<1>7. ASSUME NEW p \in Procs, Crash(p) PROVE Own'
  BY <1>7, OwnDied DEF Crash
<1>8. ASSUME NEW p \in Procs, Restart(p) PROVE Own'
  BY <1>8 DEF Restart, Own, OwnAnswer, InConfig, Good
<1>9. ASSUME NEW n \in DOMAIN calls, Timeout(n) PROVE Own'
  BY <1>9, OwnTimeout
<1>10. ASSUME NEW n \in DOMAIN calls, TimeoutFreed(n) PROVE Own'
  BY <1>10, OwnTimeoutFreed
<1>11. CASE UNCHANGED vars
  BY <1>11 DEF Own, OwnAnswer, InConfig, Good, vars
<1>12. ASSUME NEW k \in 1 .. MaxConn, Break(k) PROVE Own'
  BY <1>12, OwnBreak DEF Slots
<1> QED BY <1>1, <1>2, <1>3, <1>4, <1>5, <1>6, <1>7, <1>8, <1>9, <1>10, <1>11, <1>12 DEF Next

---------------------------------------------------------------------------
(* What holds of every group.                                              *)

\* What a connection, an entry and a call have is of its type, connections and
\* entries agree and rpc_hash has no freed call, whatever happens.
THEOREM InvCorrect == Spec => []Inv
<1>1. Init => Inv
  BY InvInit
<1>2. Inv /\ [Next]_vars => Inv'
  BY InvNext
<1> QED BY <1>1, <1>2, PTL DEF Spec

\* The asserts of s_servg_check_list never fail: an entry in list_wait_for_conn
\* has no connection and is in the configuration, in a group of any size.
THEOREM WaitForConnAssertsCorrect == Spec => []WaitForConnAsserts
<1>1. Inv => WaitForConnAsserts
  BY InvParts DEF WaitOK, WaitForConnAsserts, InConfig
<1> QED BY <1>1, InvCorrect, PTL

\* A call is called back once, and once more only if its connection was closed while
\* it was in rpc_hash: iwhen_conn_closed leaves it in rpc_timeout_list, and may run
\* inside the callback of a call that ihandle_rpc_back or s_servg_poll has not taken
\* out of rpc_hash yet.
THEOREM CalledBackOnceCorrect == Spec => []CalledBackOnce
<1>1. Inv => CalledBackOnce
  BY InvParts DEF CallsOK, CallOK, CalledBackOnce
<1> QED BY <1>1, InvCorrect, PTL

\* Two servers of the configuration that are established with each other use the
\* same connection, whatever they have dialed, refused, closed and lost before.
THEOREM OneConnectionCorrect == Spec => []OneConnection
<1>1. ASSUME Inv PROVE OneConnection
  <2> SUFFICES ASSUME NEW p \in Procs, NEW q \in Procs, p \in config, q \in config, serv[p][q].est
               PROVE  \E e \in Ends :
                        /\ Holds(p, q, serv[p][q].conn, e)
                        /\ conns[serv[p][q].conn].open[Other(e)] =>
                             serv[q][p].conn = serv[p][q].conn /\ Holds(q, p, serv[p][q].conn, Other(e))
    BY DEF OneConnection, InConfig
  <2> DEFINE k == serv[p][q].conn
             c == conns[k]
  <2>1. NetOK(config, conns, serv) /\ config \in Configs /\ serv \in ServsT /\ WaitOK(config, serv)
    BY <1>1, InvParts
  <2>2. p # q
    BY <2>1 DEF WaitOK
  <2>3. config = Procs
    BY <2>1, <2>2, ConfigKinds
  <2>4. k # NULL /\ \E e \in Ends : Held(c, p, q, e)
    BY <2>1, <2>3 DEF NetOK, Entries, EntryOK
  <2>5. PICK e \in Ends : Held(c, p, q, e)
    BY <2>4
  <2>6. k \in Slots
    BY <2>1, <2>4, ServTypes
  <2>7. Linked(c, serv, k) /\ ConnOK(config, c)
    BY <2>1, <2>3, <2>6 DEF NetOK, Links, SlotsOK
  <2>8. Holds(p, q, k, e)
    BY <2>4, <2>5 DEF Holds, Held
  <2>9. ASSUME c.open[Other(e)]
        PROVE  serv[q][p].conn = k /\ Holds(q, p, k, Other(e))
    <3> HIDE DEF k, c
    <3>1. Other(e) \in Ends /\ Other(Other(e)) = e
      BY OtherEnd
    <3>2. c.ends[e] = p /\ c.ends[Other(e)] = q /\ c.open[e]
      BY <2>5 DEF Held
    <3>3. c.udata[Other(e)]
      <4>1. CASE e = 1
        <5>1. Other(e) = 2 /\ c.open[1] /\ c.open[2]
          BY <4>1, <2>9, <3>2, OtherEnd
        <5>2. Entry(serv, c, 1) = serv[p][q]
          BY <4>1, <3>2 DEF Entry
        <5> QED BY <5>1, <5>2, <2>7 DEF Linked
      <4>2. CASE e = 2
        <5>1. Other(e) = 1 /\ c.open[1]
          BY <4>2, <2>9, OtherEnd
        <5> QED BY <5>1, <2>7 DEF ConnOK
      <4> QED BY <4>1, <4>2 DEF Ends
    <3>4. Entry(serv, c, Other(e)) = serv[q][p]
      BY <3>1, <3>2 DEF Entry
    <3>5. serv[q][p].conn = k
      BY <2>7, <3>1, <3>3, <3>4 DEF Linked
    <3> QED BY <2>4, <2>9, <3>1, <3>2, <3>3, <3>5 DEF Holds, c
  <2> QED BY <2>8, <2>9
<1> QED BY <1>1, InvCorrect, PTL

\* The callback that ihandle_rpc_back makes is for the answer to that very call, when
\* the server called is in config.conf, the caller has never died and no connection of
\* the two has broken: whatever was refused, timed out, kept or closed inside another
\* callback, and whoever else died, no answer from before an entry was established
\* again meets a number used again.
THEOREM OwnAnswerCorrect == Spec => []OwnAnswer
<1>1. Init => Inv /\ Own
  BY InvInit, OwnInit
<1>2. (Inv /\ Own) /\ [Next]_vars => (Inv /\ Own)'
  BY InvNext, OwnNext
<1>3. Own => OwnAnswer
  BY DEF Own
<1> QED BY <1>1, <1>2, <1>3, PTL DEF Spec

=============================================================================
