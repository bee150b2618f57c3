----------------------------- MODULE ServGroup -----------------------------
(***************************************************************************)
(* The server group (serv_group/): how processes dial each other, identify *)
(* themselves, call each other and notice that a connection is gone.       *)
(*                                                                         *)
(* A process is its rank in the order of s_do_i_conn_him: the higher one   *)
(* dials the lower one.  config is the set of processes that config.conf   *)
(* names.  A connection is a record with two ends, 1 the dialer's and 2    *)
(* the acceptor's; each end has its udata, the packets on their way to it  *)
(* and whether the process holds it open.  The network library hands over  *)
(* one packet at a time; an end of file that is read together with the     *)
(* last packet is not reported (iread_conn), the flag missed records it.   *)
(* Slots of closed connections are used again, as the s_conn are.          *)
(***************************************************************************)
EXTENDS Naturals, Sequences, FiniteSets

CONSTANTS
  Procs,                \* a set of numbers
  MaxConn,              \* bound: connections at one time
  MaxCall,              \* bound: calls made
  MaxFault              \* bound: processes that are killed and connections that break
                        \* (with the processes that have joined, one more)

ASSUME ProcsAssumption == Procs \subseteq Nat
ASSUME BoundsAssumption ==
  MaxConn \in Nat /\ MaxCall \in Nat /\ MaxFault \in Nat

VARIABLES
  config,               \* the processes named in config.conf
  up,                   \* the processes that run
  serv,                 \* serv[p][q]: the struct s_server of q at p
  conns,                \* the connections
  calls,                \* the rpc calls, in the order they were made
  todo,                 \* todo[p]: calls p has received and not answered yet
  joined,               \* the processes that have called s_servg_connect
  died,                 \* the processes that have ever died
  broken,               \* the pairs of processes whose connection has ever broken
  faults                \* how many deaths and breaks were no fault of the program

vars == <<config, up, serv, conns, calls, todo, joined, died, broken, faults>>

\* The bound MaxFault on what the environment does to the group.
Within == faults + Cardinality(joined) <= MaxFault

NULL == 0
Ends == {1, 2}
Other(e) == IF e = 1 THEN 2 ELSE 1

\* What the dialer's end and the acceptor's end have.
Both(x, y) == [e \in Ends |-> IF e = 1 THEN x ELSE y]

\* s_do_i_conn_him
DoIConnHim(p, q) == p > q

\* The packets of s_servg_pkt.h; a closed end leaves fin behind what it has sent, a
\* connection that breaks leaves rst at both ends.
Fin == [type |-> "fin"]
Rst == [type |-> "rst"]
Identify == [type |-> "identify"]
IdentifyBack(r) == [type |-> "back", ret |-> r]

NoConn == [ends |-> Both(0, 0), open |-> Both(FALSE, FALSE), udata |-> Both(FALSE, FALSE),
           missed |-> Both(FALSE, FALSE), chan |-> Both(<<>>, <<>>)]

\* s_servg_init_config: the entry of q at p.
InitServ(p, q) ==
  [est |-> FALSE, conn |-> NULL, req |-> 1, hash |-> {},
   list |-> IF q \in config /\ DoIConnHim(p, q) THEN "conn" ELSE "none"]

\* The groups the repository runs: every server in config.conf, the lowest one
\* in it and the others clients of it, or mservs that join by s_servg_connect.
Init ==
  /\ config \in {Procs, {p \in Procs : \A q \in Procs : p <= q}, {}}
  /\ up = Procs
  /\ serv = [p \in Procs |-> [q \in Procs |-> InitServ(p, q)]]
  /\ conns = [k \in 1 .. MaxConn |-> NoConn]
  /\ calls = <<>>
  /\ todo = [p \in Procs |-> {}]
  /\ joined = {} /\ died = {} /\ broken = {} /\ faults = 0

---------------------------------------------------------------------------
(* Connections.                                                            *)

\* s_net_send on end e of connection k of cs.  A packet for an end that is closed is
\* answered with a reset; what is sent behind rst is never read.  A write error closes
\* the connection at once (s_net.c:261): that is a send and the DoEvent that reads the
\* end, unless a callback is the sender, see ClosedInside.
Send(cs, k, e, pkt) ==
  IF cs[k].open[Other(e)]
    THEN [cs EXCEPT ![k].chan[Other(e)] = Append(@, pkt)]
    ELSE [cs EXCEPT ![k].chan[e] = IF Fin \in {@[i] : i \in DOMAIN @} THEN @ ELSE Append(@, Fin)]

\* irm_conn on end e of the connection c: the other end will read the end of file.
Shut(c, e) ==
  IF c.open[Other(e)]
    THEN [ends |-> c.ends, open |-> [c.open EXCEPT ![e] = FALSE],
          udata |-> [c.udata EXCEPT ![e] = FALSE], missed |-> [c.missed EXCEPT ![e] = FALSE],
          chan |-> [f \in Ends |-> IF f = e THEN <<>> ELSE Append(c.chan[f], Fin)]]
    ELSE NoConn

\* A connection fails and no process dies (s_net.c:261, 486): of what is under way to
\* an end only a part arrives, then its reads and writes fail.
Break(k) ==
  /\ faults < MaxFault /\ Within /\ faults' = faults + 1
  /\ \E e \in Ends : conns[k].open[e]
  /\ \E a \in 0 .. Len(conns[k].chan[1]), b \in 0 .. Len(conns[k].chan[2]) :
       LET Cut(e, n) == IF conns[k].open[e] THEN Append(SubSeq(conns[k].chan[e], 1, n), Rst) ELSE <<>>
       IN conns' = [conns EXCEPT ![k].chan = Both(Cut(1, a), Cut(2, b))]
  /\ broken' = broken \cup {{conns[k].ends[1], conns[k].ends[2]}}
  /\ UNCHANGED <<config, up, serv, calls, todo, joined, died>>

FreeSlots == {k \in 1 .. MaxConn : conns[k] = NoConn}

\* s_net_connect to a process that runs, and the identification on it.
Connected(p, q) ==
  LET k == CHOOSE j \in FreeSlots : \A i \in FreeSlots : j <= i
  IN [slot |-> k,
      conns |-> [conns EXCEPT ![k] = [ends |-> Both(p, q), open |-> Both(TRUE, TRUE), udata |-> Both(TRUE, FALSE),
                                      missed |-> Both(FALSE, FALSE), chan |-> Both(<<>>, <<Identify>>)]]]

\* The end of connection k that serv->conn stands for at p.
EndOf(p, k) == IF conns[k].ends[1] = p THEN 1 ELSE 2

---------------------------------------------------------------------------
(* Dialing.                                                                *)

\* s_servg_check_list: one element of list_wait_for_conn that is due.
CheckList(p, q) ==
  /\ {p, q} \subseteq up /\ serv[p][q].list = "conn" /\ FreeSlots # {}
  /\ LET c == Connected(p, q)
     IN /\ conns' = c.conns
        /\ serv' = [serv EXCEPT ![p][q] = [@ EXCEPT !.conn = c.slot, !.list = "identify"]]
  /\ UNCHANGED <<config, up, calls, todo, joined, died, broken, faults>>

\* What a death of p leaves: its connections are closed by the kernel.
Died(p, cs) ==
  /\ up' = up \ {p}
  /\ serv' = [serv EXCEPT ![p] = [q \in Procs |-> InitServ(p, q)]]
  /\ conns' = LET Mine(k) == \E e \in Ends : cs[k].ends[e] = p /\ cs[k].open[e]
              IN [k \in 1 .. MaxConn |->
                    IF Mine(k) THEN Shut(cs[k], IF cs[k].ends[1] = p THEN 1 ELSE 2) ELSE cs[k]]
  /\ calls' = [n \in DOMAIN calls |-> IF calls[n].from = p
                                        THEN [calls[n] EXCEPT !.dead = TRUE, !.listed = FALSE] ELSE calls[n]]
  /\ todo' = [todo EXCEPT ![p] = {}]
  /\ joined' = joined \ {p}
  /\ died' = died \cup {p}
  /\ UNCHANGED <<config, broken>>

Crash(p) == p \in up /\ faults < MaxFault /\ Within /\ faults' = faults + 1 /\ Died(p, conns)

Restart(p) == p \notin up /\ up' = up \cup {p} /\ UNCHANGED <<config, serv, conns, calls, todo, joined, died, broken, faults>>

\* s_servg_connect to a server that is not in the configuration, once after
\* the start (test_paxos).  A connect that fails is not noticed (the code tests
\* serv, not serv->conn) and the process dies at s_net_set_udata.
ServgConnect(p, q) ==
  /\ Within /\ p \in up \ joined /\ p # q /\ config = {} /\ ~serv[p][q].est
  /\ IF q \in up
       THEN /\ FreeSlots # {}
            /\ LET c == Connected(p, q)
               IN /\ conns' = c.conns
                  /\ serv' = [serv EXCEPT ![p][q] = [@ EXCEPT !.conn = c.slot, !.list = "identify"]]
            /\ joined' = joined \cup {p}
            /\ UNCHANGED <<config, up, calls, todo, died, broken, faults>>
       ELSE Died(p, conns) /\ UNCHANGED faults

---------------------------------------------------------------------------
(* Closing.                                                                *)

\* Mutant of ResetServ: the pointer to the closed connection is kept.
ResetServKeepsConn(p, q, s) ==
  [s EXCEPT !.est = FALSE, !.list = IF q \in config /\ DoIConnHim(p, q) THEN "conn" ELSE "none"]

\* Mutant of ResetServ: the entry is not put back into list_wait_for_conn.
ResetServForgets(p, q, s) == [s EXCEPT !.conn = NULL, !.est = FALSE, !.list = "none"]

\* s_servg_reset_serv on an entry whose conn is closed already.
ResetServ(p, q, s) ==
  [s EXCEPT !.conn = NULL, !.est = FALSE,
            !.list = IF q \in config /\ DoIConnHim(p, q) THEN "conn" ELSE "none"]

\* Mutant of ClosedCalls: the calls are freed without their callback.
ClosedCallsSilent(ca, ns) ==
  [n \in DOMAIN ca |-> IF n \in ns THEN [ca[n] EXCEPT !.freed = TRUE, !.listed = FALSE] ELSE ca[n]]

\* The loop over rpc_hash in iwhen_conn_closed: callback without a packet, free.
ClosedCalls(ca, ns) ==
  [n \in DOMAIN ca |-> IF n \in ns THEN [ca[n] EXCEPT !.backs = @ + 1, !.freed = TRUE, !.closed = TRUE]
                                   ELSE ca[n]]

\* iwhen_conn_closed on end e of k, when the calls are ca: every outstanding call is
\* called back and freed (those with a time-out stay in rpc_timeout_list), the entry is
\* reset.  The callbacks run while the entry is established and has no connection: one
\* that sends to it kills the process.
WhenConnClosed(p, k, e, cs, ca) ==
  LET q == conns[k].ends[Other(e)]
      s == serv[p][q]
  IN \/ /\ conns' = [cs EXCEPT ![k] = Shut(@, e)]
        /\ IF conns[k].udata[e]
             THEN /\ serv' = [serv EXCEPT ![p][q] = [ResetServ(p, q, s) EXCEPT !.hash = IF s.est THEN {} ELSE @]]
                  /\ calls' = IF s.est THEN ClosedCalls(ca, s.hash) ELSE ca
             ELSE calls' = ca /\ UNCHANGED serv
        /\ UNCHANGED <<config, up, todo, joined, died, broken, faults>>
     \/ conns[k].udata[e] /\ s.est /\ s.hash # {} /\ Died(p, cs) /\ UNCHANGED faults

\* The callback of a call that is still in rpc_hash sends to the same server over a
\* connection that is gone: s_net_send closes it at once, so that iwhen_conn_closed calls
\* back the same call again and frees it.  What follows the callback uses and frees it
\* once more: the process dies or goes on.
ClosedInside(p, q, cs, ca) ==
  LET k == serv[p][q].conn
      e == EndOf(p, k)
  IN /\ serv[p][q].est /\ k # NULL
     /\ ~cs[k].open[Other(e)] \/ \E i \in DOMAIN cs[k].chan[e] : cs[k].chan[e][i] = Rst
     /\ \/ WhenConnClosed(p, k, e, cs, ca)
        \/ Died(p, cs) /\ UNCHANGED faults

---------------------------------------------------------------------------
(* Events of the network.                                                  *)

\* Mutant of Accepts: the flag ESTABLISHED is not tested.
AcceptsAlways(p, q) == TRUE

\* ihandle_identify: the entry of a server that is not in the configuration is
\* created anew, whatever it was; any other one must not be established.
Accepts(p, q) == q \in config => ~serv[p][q].est

HandleIdentify(p, q, k, e, cs) ==
  /\ IF Accepts(p, q)
       THEN /\ serv' = [serv EXCEPT ![p][q] = [est |-> TRUE, conn |-> k, req |-> 1, hash |-> {}, list |-> "ping"]]
            /\ conns' = Send([cs EXCEPT ![k].udata[e] = TRUE], k, e, IdentifyBack(1))
       ELSE /\ conns' = Send(cs, k, e, IdentifyBack(0))
            /\ UNCHANGED serv
  /\ UNCHANGED <<config, up, calls, todo, joined, died, broken, faults>>

\* ihandle_identify_back.  A refusal resets the entry, which closes serv->conn
\* (only a server of the configuration refuses, and its dialer has a connection).
HandleIdentifyBack(p, q, cs, ret) ==
  IF ret = 1
    THEN /\ serv' = [serv EXCEPT ![p][q] = [@ EXCEPT !.req = 1, !.hash = {}, !.list = "ping", !.est = TRUE]]
         /\ conns' = cs
         /\ UNCHANGED <<config, up, calls, todo, joined, died, broken, faults>>
    ELSE LET k == serv[p][q].conn IN WhenConnClosed(p, k, EndOf(p, k), cs, calls)

\* s_servg_rpc_ret through isend: without a connection s_net_send dies.
RpcRet(p, q, t, cs) ==
  LET k == serv[p][q].conn
  IN IF k = NULL
       THEN Died(p, cs) /\ UNCHANGED faults
       ELSE /\ conns' = Send(cs, k, EndOf(p, k), [type |-> "ret", call |-> t.call, req |-> t.req])
            /\ todo' = [todo EXCEPT ![p] = @ \ {t}]
            /\ UNCHANGED <<config, up, serv, calls, joined, died, broken, faults>>

\* A handler of the user: it answers at once or keeps the request.
HandleMsg(p, q, t, cs) ==
  \/ RpcRet(p, q, t, cs)
  \/ /\ todo' = [todo EXCEPT ![p] = @ \cup {t}]
     /\ conns' = cs
     /\ UNCHANGED <<config, up, serv, calls, joined, died, broken, faults>>

\* Mutant of Answered: the call stays in rpc_timeout_list.
AnsweredStaysListed(ns, pkt) ==
  [n \in DOMAIN calls |-> IF n \in ns THEN [calls[n] EXCEPT !.backs = @ + 1, !.wrong = n # pkt.call] ELSE calls[n]]

\* The calls ns are called back with pkt and taken off rpc_timeout_list.
Answered(ns, pkt) ==
  [n \in DOMAIN calls |-> IF n \in ns THEN [calls[n] EXCEPT !.backs = @ + 1, !.listed = FALSE, !.wrong = n # pkt.call]
                                      ELSE calls[n]]

\* ihandle_rpc_back: the call with this number in serv->rpc_hash is called back, then
\* taken off the list, freed and taken out of rpc_hash.
HandleRpcBack(p, q, pkt, cs) ==
  LET s == serv[p][q]
      found == {n \in s.hash : calls[n].req = pkt.req}
      back == Answered(found, pkt)
  IN \/ /\ serv' = [serv EXCEPT ![p][q] = [s EXCEPT !.hash = s.hash \ found]]
        /\ calls' = [n \in DOMAIN back |-> IF n \in found THEN [back[n] EXCEPT !.freed = TRUE] ELSE back[n]]
        /\ conns' = cs
        /\ UNCHANGED <<config, up, todo, joined, died, broken, faults>>
     \/ found # {} /\ ClosedInside(p, q, cs, back)

\* s_servg_do_event with the next packet on end e of k.  When only the end of
\* file is left behind it, it may have come with the packet and is then lost.
DoEvent(k, e) ==
  LET p == conns[k].ends[e]
      q == conns[k].ends[Other(e)]
      chan == conns[k].chan[e]
  IN /\ conns[k].open[e] /\ chan # <<>>
     /\ IF Head(chan) \in {Fin, Rst}
          THEN WhenConnClosed(p, k, e, conns, calls)
          ELSE \E cs \in {[conns EXCEPT ![k].chan[e] = Tail(@)]}
                           \cup (IF Tail(chan) = <<Fin>>
                                   THEN {[conns EXCEPT ![k].chan[e] = <<>>, ![k].missed[e] = TRUE]} ELSE {}) :
                 LET pkt == Head(chan)
                 IN \/ ~conns[k].udata[e] /\ HandleIdentify(p, q, k, e, cs)
                    \/ conns[k].udata[e] /\ pkt.type = "back" /\ HandleIdentifyBack(p, q, cs, pkt.ret)
                    \/ /\ conns[k].udata[e] /\ pkt.type = "call"
                       /\ HandleMsg(p, q, [from |-> q, call |-> pkt.call, req |-> pkt.req], cs)
                    \/ conns[k].udata[e] /\ pkt.type = "ret" /\ HandleRpcBack(p, q, pkt, cs)

---------------------------------------------------------------------------
(* Calls.                                                                  *)

\* A struct s_servg_rpc_param, and what has become of it: in rpc_timeout_list,
\* how often called back, freed, by a close, dead with its process, with the
\* answer to another call, taken out of rpc_hash by the time-out of another call.
NewParam(p, q, req, timed) ==
  [from |-> p, to |-> q, req |-> req, timed |-> timed, listed |-> timed,
   backs |-> 0, freed |-> FALSE, closed |-> FALSE, dead |-> FALSE, wrong |-> FALSE,
   dropped |-> FALSE]

\* Mutant of NextReq: the number is not counted up.
NextReqSame(r) == r

\* serv->req_id++
NextReq(r) == r + 1

\* s_servg_rpc_call to an established server, with or without a time-out.
RpcCall(p, q, timed) ==
  /\ p \in up /\ serv[p][q].est /\ serv[p][q].conn # NULL /\ Len(calls) < MaxCall
  /\ LET n == Len(calls) + 1
         s == serv[p][q]
     IN /\ calls' = Append(calls, NewParam(p, q, s.req, timed))
        /\ serv' = [serv EXCEPT ![p][q] = [s EXCEPT !.req = NextReq(s.req), !.hash = s.hash \cup {n}]]
        /\ conns' = Send(conns, s.conn, EndOf(p, s.conn), [type |-> "call", call |-> n, req |-> s.req])
  /\ UNCHANGED <<config, up, todo, joined, died, broken, faults>>

\* The same for an entry that is established without a connection.
RpcCallDies(p, q) ==
  p \in up /\ serv[p][q].est /\ serv[p][q].conn = NULL /\ Died(p, conns) /\ UNCHANGED faults

\* A handler that kept a request answers it, if the caller is established.
Answer(p) == \E t \in todo[p] :
  IF serv[p][t.from].est
    THEN RpcRet(p, t.from, t, conns)
    ELSE todo' = [todo EXCEPT ![p] = @ \ {t}] /\ UNCHANGED <<config, up, serv, conns, calls, joined, died, broken, faults>>

\* The call n is off rpc_timeout_list, and whatever has its number in the rpc_hash of
\* the moment is taken out of it (s_hash_del_num in s_servg_poll).
Unhooked(ca, n) ==
  LET c == ca[n]
      s == serv[c.from][c.to]
      same == {m \in s.hash : ca[m].req = c.req}
  IN /\ calls' = [m \in DOMAIN ca |-> IF m = n THEN [c EXCEPT !.freed = TRUE]
                                     ELSE IF m \in same THEN [ca[m] EXCEPT !.dropped = TRUE] ELSE ca[m]]
     /\ serv' = [serv EXCEPT ![c.from][c.to] = [s EXCEPT !.hash = s.hash \ same]]
     /\ UNCHANGED <<config, up, conns, todo, joined, died, broken, faults>>

\* The callback of call n for its time-out.
TimedOut(n) == LET c == calls[n] IN [calls EXCEPT ![n] = [c EXCEPT !.backs = c.backs + 1, !.listed = FALSE]]

\* The loop over rpc_timeout_list in s_servg_poll.
Timeout(n) ==
  LET c == calls[n]
  IN /\ c.listed /\ ~c.freed
     /\ \/ Unhooked(TimedOut(n), n)
        \/ n \in serv[c.from][c.to].hash /\ ClosedInside(c.from, c.to, conns, TimedOut(n))

\* The same for a call that a close has freed: the memory may still hold the
\* call, which is called back again, or the process dies.
TimeoutFreed(n) ==
  LET c == calls[n]
  IN /\ c.listed /\ c.freed
     /\ \/ Unhooked(TimedOut(n), n)
        \/ Died(c.from, conns) /\ UNCHANGED faults

Next ==
  \/ \E p, q \in Procs : CheckList(p, q) \/ ServgConnect(p, q) \/ RpcCallDies(p, q)
  \/ \E p, q \in Procs, timed \in BOOLEAN : RpcCall(p, q, timed)
  \/ \E k \in 1 .. MaxConn, e \in Ends : DoEvent(k, e)
  \/ \E k \in 1 .. MaxConn : Break(k)
  \/ \E p \in Procs : Answer(p) \/ Crash(p) \/ Restart(p)
  \/ \E n \in DOMAIN calls : Timeout(n) \/ TimeoutFreed(n)

Spec == Init /\ [][Next]_vars

\* Every process polls again and again: dialing, events and time-outs happen.
\* A handler that has kept a request answers it some time, and a process that
\* has died is started again.
Fairness ==
  /\ \A p, q \in Procs : WF_vars(CheckList(p, q))
  /\ \A k \in 1 .. MaxConn, e \in Ends : WF_vars(DoEvent(k, e))
  /\ \A p \in Procs : WF_vars(Answer(p)) /\ WF_vars(Restart(p))
  /\ \A n \in 1 .. MaxCall : WF_vars(n \in DOMAIN calls /\ (Timeout(n) \/ TimeoutFreed(n)))

FairSpec == Spec /\ Fairness

---------------------------------------------------------------------------
\* The entry of q at p is one that config.conf names.
InConfig(q) == q \in config

\* End e of connection k is held open by p and its udata is the entry of q.
Holds(p, q, k, e) ==
  k # NULL /\ conns[k].ends[e] = p /\ conns[k].ends[Other(e)] = q /\ conns[k].open[e] /\ conns[k].udata[e]

\* The asserts of s_servg_check_list on list_wait_for_conn: what a refusal, a
\* close or a death of the peer puts there has no connection any more and is in
\* the configuration.
WaitForConnAsserts ==
  \A p, q \in Procs : serv[p][q].list = "conn" => serv[p][q].conn = NULL /\ InConfig(q)

\* Two servers of the configuration talk over one connection: when p counts q as
\* established and q holds the other end, then that is q's connection to p and
\* not one that q has given up or refused.
OneConnection ==
  \A p, q \in Procs : InConfig(p) /\ InConfig(q) /\ serv[p][q].est =>
    LET k == serv[p][q].conn
    IN \E e \in Ends : /\ Holds(p, q, k, e)
                       /\ conns[k].open[Other(e)] => serv[q][p].conn = k /\ Holds(q, p, k, Other(e))

\* A call is called back at most once, by its answer, by the close or by its
\* time-out; once more only if its connection was closed while it was in rpc_hash:
\* iwhen_conn_closed leaves it in rpc_timeout_list, and may run inside its callback.
CalledBackOnce ==
  \A n \in DOMAIN calls : calls[n].backs <= (IF calls[n].closed THEN 2 ELSE 1)

\* A callback gets the answer to its own call, if the server called is in config.conf.
\* Numbers start again at 1 with every connection, so an answer that was kept over the
\* death of the caller, or over a break of the connection, can reach another call; a
\* refusal, or a server that died and was dialled again, does not mix up answers.
OwnAnswer ==
  \A n \in DOMAIN calls : calls[n].wrong /\ InConfig(calls[n].to) =>
    calls[n].from \in died \/ {calls[n].from, calls[n].to} \in broken

\* An end of file has been read together with data and was not reported.
EofMissed == \E k \in 1 .. MaxConn, e \in Ends : conns[k].missed[e]

\* s_servg_poll connects and reconnects the servers of the configuration:
\* once all run for good and connections break no more, all are established,
\* whatever died or broke before, unless a close went unnoticed.
Reconnected ==
  (config = Procs /\ <>[](up = Procs)) =>
    <>[]((\A p, q \in Procs : p # q => serv[p][q].est) \/ EofMissed)

\* Every call between servers of the configuration is called back in the end unless the
\* caller dies, a close went unnoticed, or it has no time-out and an earlier call that a
\* close had freed timed out with its number and took it out of rpc_hash.
CallsEnd ==
  \A n \in 1 .. MaxCall :
    (config = Procs /\ n \in DOMAIN calls)
      ~> (n \in DOMAIN calls /\ \/ calls[n].backs > 0 \/ calls[n].dead \/ EofMissed
                                \/ calls[n].dropped /\ ~calls[n].timed)
=============================================================================
