-------------------------------- MODULE Net --------------------------------
(***************************************************************************)
(* The network library of one process (net/s_net.c) with the packets it    *)
(* sends (net/s_packet.c): the pool of s_conn, write queues, read buffers, *)
(* partial writes and edge-triggered epoll.  The other ends are processes  *)
(* of their own that send, read and close as they like.                    *)
(*                                                                         *)
(* A socket is numbered in the order in which it is opened, an s_conn and  *)
(* a packet in the order in which it is first allocated.  A packet is Size *)
(* parts; the first is the header, which carries the number of the call.   *)
(* The program makes one packet at a time and may send it over several     *)
(* connections, with another number on each (s_servg_rpc_call).  One step  *)
(* is one call of the library or one packet handed to the callback; what   *)
(* the callback does are the steps Create, Send, Drop and Close in between *)
(* (a packet that is made is dropped before the library goes on).          *)
(***************************************************************************)
EXTENDS Naturals, Sequences, FiniteSets, SequencesExt

CONSTANTS
  Size,                 \* parts of a packet
  Room,                 \* parts that a socket takes before write says EAGAIN
  MaxSock,              \* bound: sockets opened
  MaxMsg,               \* bound: packets the program makes
  Talkers,              \* bound: the sockets whose other end sends
  MaxPeer,              \* bound: parts the other ends of open sockets have sent
  MaxSend               \* bound: packets sent over the connections that are open

ASSUME SizeAssumption == Size \in Nat \ {0} /\ Room \in Nat \ {0}
ASSUME BoundsAssumption == MaxSock \in Nat /\ MaxMsg \in Nat

Socks == 1 .. MaxSock
Conns == 1 .. MaxSock   \* s_conn that can be allocated
Pkts == 1 .. MaxMsg     \* packets that can be allocated
NULL == 0

VARIABLES
  sock,                 \* the sockets, as the kernel keeps them
  conn,                 \* the memory of the s_conn
  pool,                 \* net->conn_list with its pointers; 0 is its head
  nconn,                \* how many s_conn have been allocated
  mem,                  \* the memory of the packets: message, number, references
  pkt,                  \* the packet the program holds
  nmsg,                 \* how many packets the program has made
  batch,                \* the events of s_net_poll that are still to be handled
  drain,                \* the s_conn whose packets are being handed over
  shared                \* an s_conn was given to two open sockets

vars == <<sock, conn, pool, nconn, mem, pkt, nmsg, batch, drain, shared>>

Total(seq) == LET sum[i \in 0 .. Len(seq)] == IF i = 0 THEN 0 ELSE sum[i - 1] + seq[i]
              IN sum[Len(seq)]

\* What is kept of a socket: both ends, the parts on their way and their
\* edges, whether a write said EAGAIN, whether the other end has reset it; and
\* the history: messages sent, parts heard by the other end, packets handed
\* over, how often the callback was told of the close, whether an edge of the
\* write queue was skipped, whether an end of file was read unnoticed.
NoSock ==
  [open |-> FALSE, ptr |-> NULL, peer |-> FALSE, reset |-> FALSE,
   out |-> <<>>, in |-> 0, inEdge |-> FALSE, outEdge |-> FALSE, nospace |-> FALSE,
   sent |-> <<>>, heard |-> 0, peerSent |-> 0, got |-> 0, told |-> 0, used |-> FALSE,
   skipped |-> FALSE, missed |-> FALSE]

\* The fields of an s_conn: write_queue with packet_node, and the parts in read_buf.
NoConn == [fd |-> NULL, wq |-> <<>>, rbuf |-> 0]

NoPkt == [msg |-> 0, req |-> 0, ref |-> 0]

\* s_net_create
Init ==
  /\ sock = [s \in Socks |-> NoSock] /\ conn = [c \in Conns |-> NoConn]
  /\ pool = [next |-> [c \in 0 .. MaxSock |-> c], prev |-> [c \in 0 .. MaxSock |-> c]]
  /\ nconn = 0
  /\ mem = [p \in Pkts |-> NoPkt] /\ pkt = NULL /\ nmsg = 0
  /\ batch = <<>> /\ drain = NULL /\ shared = FALSE

---------------------------------------------------------------------------
(* The pool of s_conn.                                                     *)

\* s_list_del, s_list_insert at the head.
ListDel(l, c) ==
  LET next == [l.next EXCEPT ![l.prev[c]] = l.next[c]]
      prev == [l.prev EXCEPT ![next[c]] = l.prev[c]]
  IN [next |-> [next EXCEPT ![c] = c], prev |-> [prev EXCEPT ![c] = c]]

ListInsert(l, c) ==
  LET after == l.next[0]
      prev == [l.prev EXCEPT ![c] = 0]
      next == [l.next EXCEPT ![c] = after, ![0] = c]
  IN [next |-> next, prev |-> [prev EXCEPT ![after] = c]]

\* irm_conn links the s_conn into conn_list, and iput_conn links it once more.
PutConn(l, c) == ListInsert(ListInsert(ListDel(l, c), c), c)

\* iget_conn: the first of conn_list, or a new one.
GetConn == IF pool.next[0] # 0 THEN pool.next[0] ELSE nconn + 1

\* ilisten_accept and s_net_connect: an s_conn for a new socket, which epoll
\* reports as writable at once.
Open(s) ==
  /\ ~sock[s].used /\ \A r \in 1 .. s - 1 : sock[r].used
  /\ pool' = IF pool.next[0] # 0 THEN ListDel(pool, GetConn) ELSE pool
  /\ nconn' = IF pool.next[0] # 0 THEN nconn ELSE nconn + 1
  /\ conn' = [conn EXCEPT ![GetConn] = [NoConn EXCEPT !.fd = s]]
  /\ sock' = [sock EXCEPT ![s] = [NoSock EXCEPT !.open = TRUE, !.peer = TRUE, !.ptr = GetConn,
                                                !.used = TRUE, !.outEdge = TRUE]]
  /\ shared' = (shared \/ \E r \in Socks : sock[r].open /\ sock[r].ptr = GetConn)
  /\ UNCHANGED <<mem, pkt, nmsg, batch, drain>>

---------------------------------------------------------------------------
(* Packets.                                                                *)

\* How often packet p is in queue q.
Refs(q, p) == Cardinality({i \in DOMAIN q : q[i].pkt = p})

\* s_packet_drop on every packet of queue q: one that nobody refers to goes to
\* g_free.
DropAll(m, q) == [p \in Pkts |-> [m[p] EXCEPT !.ref = @ - Refs(q, p)]]

\* s_packet_create: a packet of g_free, or new memory.
Create ==
  /\ pkt = NULL /\ nmsg < MaxMsg
  /\ \E p \in Pkts :
       /\ mem[p].ref = 0 /\ \A r \in 1 .. p - 1 : mem[r].ref > 0
       /\ mem' = [mem EXCEPT ![p] = [msg |-> nmsg + 1, req |-> 0, ref |-> 1]]
       /\ pkt' = p
  /\ nmsg' = nmsg + 1
  /\ UNCHANGED <<sock, conn, pool, nconn, batch, drain, shared>>

\* s_packet_drop by the program.
Drop ==
  /\ pkt # NULL
  /\ mem' = [mem EXCEPT ![pkt].ref = @ - 1]
  /\ pkt' = NULL
  /\ UNCHANGED <<sock, conn, pool, nconn, nmsg, batch, drain, shared>>

---------------------------------------------------------------------------
(* Writing.                                                                *)

\* Mutant of Stamp: the packet goes out with the number it holds now.
StampForgotten(m, node) == m[node.pkt].req

\* s_packet_set_req in iwrite_conn: the number a packet goes out with.
Stamp(m, node) == node.req

\* The parts of write_queue q that are not written yet, n of them.
PendingParts(m, q, n) ==
  [i \in 1 .. n |->
     LET pos == q[1].curr + i - 1
         node == q[(pos \div Size) + 1]
         part == (pos % Size) + 1
     IN [msg |-> m[node.pkt].msg, part |-> part, req |-> IF part = 1 THEN Stamp(m, node) ELSE 0]]

\* iwrite_conn on an open socket: as much of the queue as there is room for;
\* packets written completely are dropped.  The result is the socket, the queue
\* and the packets.
Written(k, q, m) ==
  LET total == IF q = <<>> THEN 0 ELSE Len(q) * Size - q[1].curr
      room == IF k.peer THEN Room - Len(k.out) ELSE total
      n == IF total <= room THEN total ELSE room
      pos == IF q = <<>> THEN 0 ELSE q[1].curr + n
      done == pos \div Size
      rest == SubSeq(q, done + 1, Len(q))
      tried == SubSeq(q, 1, IF done < Len(q) THEN done + 1 ELSE done)
  IN [sock |-> [k EXCEPT !.out = IF k.peer THEN @ \o PendingParts(m, q, n) ELSE @,
                         !.nospace = rest # <<>>, !.skipped = FALSE,
                         !.reset = @ \/ (~k.peer /\ total > 0),
                         !.inEdge = @ \/ (~k.peer /\ total > 0)],
      wq |-> IF rest = <<>> THEN rest ELSE [rest EXCEPT ![1].curr = pos % Size],
      mem |-> [p \in Pkts |->
                 LET mine == SelectSeq(tried, LAMBDA node : node.pkt = p)
                 IN [DropAll(m, SubSeq(q, 1, done))[p] EXCEPT !.req = IF mine = <<>> THEN @ ELSE Last(mine).req]]]

\* Whether write fails: the socket is closed, or the other end has reset it.
WriteFails(s, q) == q # <<>> /\ (~sock[s].open \/ sock[s].reset)

\* The callback is told, then irm_conn and iput_conn (iclose_conn_positive and
\* s_net_close).  The s_conn keeps its fd, for an event that is still in the
\* batch.  m is the packets, q the write queue of c.
Closed(c, m, q, sk) ==
  /\ sock' = [sk EXCEPT ![conn[c].fd] = [NoSock EXCEPT !.told = sk[conn[c].fd].told + 1, !.used = TRUE]]
  /\ pool' = PutConn(pool, c)
  /\ mem' = DropAll(m, q)
  /\ conn' = [conn EXCEPT ![c].wq = <<>>]

\* iwrite_conn, and the close when it fails.
Write(c, m, q, sk) ==
  LET s == conn[c].fd
      w == Written(sk[s], q, m)
  IN IF WriteFails(s, q)
       THEN Closed(c, m, q, sk)
       ELSE /\ sock' = [sk EXCEPT ![s] = w.sock]
            /\ conn' = [conn EXCEPT ![c].wq = w.wq]
            /\ mem' = w.mem
            /\ UNCHANGED pool

\* The s_conn the program knows of: opened, and not told of a close.
Held == {c \in Conns : conn[c].fd # NULL /\ sock[conn[c].fd].told = 0}

\* Mutant of Grab: the queue does not count as a user of the packet.
GrabForgotten(m, p) == m

\* s_packet_grab in s_net_send.
Grab(m, p) == [m EXCEPT ![p].ref = @ + 1]

\* s_servg_rpc_call: s_packet_set_req, then s_net_send.
Send(c) ==
  LET s == conn[c].fd
      req == Len(sock[s].sent) + 1
      m == Grab([mem EXCEPT ![pkt].req = req], pkt)
  IN /\ c \in Held /\ pkt # NULL /\ ~Contains(sock[s].sent, mem[pkt].msg)
     /\ Total([r \in Socks |-> Len(sock[r].sent)]) < MaxSend
     /\ Write(c, m, Append(conn[c].wq, [pkt |-> pkt, req |-> req, curr |-> 0]),
              [sock EXCEPT ![s].sent = Append(@, mem[pkt].msg)])
     /\ UNCHANGED <<nconn, pkt, nmsg, batch, drain, shared>>

\* s_net_close by the program.
Close(c) ==
  /\ c \in Held
  /\ Closed(c, mem, conn[c].wq, sock)
  /\ UNCHANGED <<nconn, pkt, nmsg, batch, drain, shared>>

---------------------------------------------------------------------------
(* Polling.                                                                *)

Ready(s) == sock[s].open /\ (sock[s].inEdge \/ sock[s].outEdge)

\* What epoll_wait reports of a socket that has had an edge: all it is ready for.
EventOf(s) == [ptr |-> sock[s].ptr, fd |-> s,
               in |-> sock[s].in > 0 \/ ~sock[s].peer,
               out |-> Len(sock[s].out) < Room \/ sock[s].reset]

\* epoll_wait
Poll ==
  /\ batch = <<>> /\ drain = NULL /\ pkt = NULL
  /\ LET ready == {s \in Socks : Ready(s)}
     IN /\ ready # {}
        /\ \E order \in SetToSeqs(ready) : batch' = [i \in DOMAIN order |-> EventOf(order[i])]
        /\ sock' = [s \in Socks |-> IF s \in ready THEN [sock[s] EXCEPT !.inEdge = FALSE, !.outEdge = FALSE]
                                                  ELSE sock[s]]
  /\ UNCHANGED <<conn, pool, nconn, mem, pkt, nmsg, drain, shared>>

\* Mutant of ReadAll: what was left of a packet cut in two is overwritten.
ReadAllOverwrites(rbuf, n) == n

\* The loop of iread_conn: what has arrived is put behind what is in read_buf.
ReadAll(rbuf, n) == rbuf + n

\* Mutant of ReadFails: no data and no error goes for an empty read.
ReadFailsOnError(s) == ~sock[s].open \/ sock[s].reset

\* iread_conn fails on a closed socket, after a reset, and at the end of file
\* when no data comes before it.
ReadFails(s) == ~sock[s].open \/ sock[s].in = 0 \/ sock[s].reset

\* EPOLLIN: iread_conn takes all there is, an end of file behind it included;
\* EPOLLOUT is not looked at.
EventIn ==
  LET e == Head(batch)
      c == e.ptr
      s == conn[c].fd
  IN /\ batch # <<>> /\ drain = NULL /\ pkt = NULL /\ e.in
     /\ IF ReadFails(s)
          THEN Closed(c, mem, conn[c].wq, sock) /\ UNCHANGED drain
          ELSE /\ conn' = [conn EXCEPT ![c].rbuf = ReadAll(@, sock[s].in)]
               /\ sock' = [sock EXCEPT ![s] =
                    [sock[s] EXCEPT !.in = 0,
                                    !.skipped = @ \/ (e.out /\ conn[c].wq # <<>> /\ ~sock[s].nospace),
                                    !.missed = @ \/ (sock[s].in > 0 /\ ~sock[s].peer /\ ~sock[s].inEdge)]]
               /\ drain' = c
               /\ UNCHANGED <<pool, mem>>
     /\ batch' = Tail(batch)
     /\ UNCHANGED <<nconn, pkt, nmsg, shared>>

\* Mutant of EventOut: it is left to the next s_net_send.
EventOutLeft ==
  /\ batch # <<>> /\ drain = NULL /\ pkt = NULL /\ ~Head(batch).in
  /\ batch' = Tail(batch)
  /\ UNCHANGED <<sock, conn, pool, nconn, mem, pkt, nmsg, drain, shared>>

\* Only EPOLLOUT: iwrite_conn goes on with the queue.
EventOut ==
  /\ batch # <<>> /\ drain = NULL /\ pkt = NULL /\ ~Head(batch).in
  /\ Write(Head(batch).ptr, mem, conn[Head(batch).ptr].wq, sock)
  /\ batch' = Tail(batch)
  /\ UNCHANGED <<nconn, pkt, nmsg, drain, shared>>

\* inext_packet and the callback, until no complete packet is left.
NextPacket ==
  LET c == drain
      s == conn[c].fd
  IN /\ drain # NULL /\ pkt = NULL
     /\ IF conn[c].rbuf >= Size
          THEN /\ conn' = [conn EXCEPT ![c].rbuf = @ - Size]
               /\ sock' = [sock EXCEPT ![s].got = @ + 1]
               /\ UNCHANGED drain
          ELSE drain' = NULL /\ UNCHANGED <<conn, sock>>
     /\ UNCHANGED <<pool, nconn, mem, pkt, nmsg, batch, shared>>

---------------------------------------------------------------------------
(* The other ends.                                                         *)

\* It reads some of what there is; a writer that met EAGAIN gets an edge.
PeerRead(s) ==
  /\ sock[s].open /\ sock[s].peer /\ sock[s].out # <<>>
  /\ sock' = [sock EXCEPT ![s] = [sock[s] EXCEPT !.heard = @ + 1, !.out = Tail(@),
                                                 !.outEdge = @ \/ sock[s].nospace, !.nospace = FALSE]]
  /\ UNCHANGED <<conn, pool, nconn, mem, pkt, nmsg, batch, drain, shared>>

PeerSend(s) ==
  /\ s \in Talkers /\ sock[s].open /\ sock[s].peer
  /\ Total([r \in Socks |-> sock[r].peerSent]) < MaxPeer
  /\ sock' = [sock EXCEPT ![s] = [sock[s] EXCEPT !.in = @ + 1, !.peerSent = @ + 1, !.inEdge = TRUE]]
  /\ UNCHANGED <<conn, pool, nconn, mem, pkt, nmsg, batch, drain, shared>>

\* With data that it has not read, the close is a reset.
PeerClose(s) ==
  /\ sock[s].open /\ sock[s].peer
  /\ sock' = [sock EXCEPT ![s] = [sock[s] EXCEPT !.peer = FALSE, !.inEdge = TRUE, !.out = <<>>, !.nospace = FALSE,
                                                 !.reset = sock[s].out # <<>>]]
  /\ UNCHANGED <<conn, pool, nconn, mem, pkt, nmsg, batch, drain, shared>>

Next ==
  \/ \E s \in Socks : Open(s) \/ PeerRead(s) \/ PeerSend(s) \/ PeerClose(s)
  \/ \E c \in Conns : Send(c) \/ Close(c)
  \/ Create \/ Drop \/ Poll \/ EventIn \/ EventOut \/ NextPacket

Spec == Init /\ [][Next]_vars

\* The process goes on: it polls, handles the events of a batch one after the
\* other and hands over what it has read.  The other ends read what comes.
Loop == Drop \/ Poll \/ EventIn \/ EventOut \/ NextPacket
Fairness == WF_vars(Loop) /\ \A s \in Socks : WF_vars(PeerRead(s))

FairSpec == Spec /\ Fairness

---------------------------------------------------------------------------
\* The i-th part of the packets sent over socket s, numbered from 1 as
\* s_servg_rpc_call numbers them.
SentPart(s, i) ==
  LET j == ((i - 1) \div Size) + 1
      part == ((i - 1) % Size) + 1
  IN [msg |-> sock[s].sent[j], part |-> part, req |-> IF part = 1 THEN j ELSE 0]

\* Every other end hears the packets sent to it, in order, each with the number
\* given to it on this connection, although one packet is queued on several
\* connections, written in pieces and stamped anew, and its memory used again.
StreamsRight ==
  ~shared => \A s \in Socks :
    \A i \in DOMAIN sock[s].out : sock[s].out[i] = SentPart(s, sock[s].heard + i)

\* A packet is referred to exactly by the program and by the queues it is in: it
\* goes to g_free when the last of them drops it, by writing or by closing.
RefsExact ==
  ~shared => \A p \in Pkts :
    mem[p].ref = (IF pkt = p THEN 1 ELSE 0)
                   + Cardinality(UNION {{c} \X {i \in DOMAIN conn[c].wq : conn[c].wq[i].pkt = p} : c \in Conns})

\* Nothing that arrives is lost or handed over twice, however reads cut packets.
NothingLost ==
  ~shared => \A s \in Socks : sock[s].open =>
    sock[s].got * Size + conn[sock[s].ptr].rbuf + sock[s].in = sock[s].peerSent

\* s_net_poll sends the pending packets of every open connection: there are
\* always times again when none has any left, but for the connection whose edge
\* came in one event with data, where EPOLLOUT is not looked at.
PendingSent ==
  []<>(\A s \in Socks : sock[s].open => conn[sock[s].ptr].wq = <<>> \/ sock[s].skipped \/ shared)

\* When the other end closes, the callback is told and the socket closed, unless
\* the end of file was read behind data, where iread_conn does not report it.
CloseTold ==
  []<>(\A s \in Socks : sock[s].open => sock[s].peer \/ sock[s].missed \/ shared)
=============================================================================
