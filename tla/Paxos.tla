------------------------------- MODULE Paxos -------------------------------
(***************************************************************************)
(* The replicated membership and values of the meta servers                *)
(* (core/s_core_paxos.c), driven as test_paxos/s_ud_client.c drives it.    *)
(*                                                                         *)
(* Every server is proposer, acceptor and learner.  A topic is either an   *)
(* ordinary name or "version:<n>", whose value is the member set of        *)
(* version n.  A server that is not a member asks a member to add it; the  *)
(* member proposes the next version.  A server adopts a version when its   *)
(* learner has counted a majority of its present members for it.           *)
(*                                                                         *)
(* An int value is modelled by the set of its bits, as the code itself     *)
(* reads the value of a version; the empty set stands for "no value".      *)
(*                                                                         *)
(* Each process is one event loop: poll, then the driver's update callback.*)
(* A poll empties myself_q (packets to oneself), then calls back the rpc    *)
(* calls that timed out, then reads the network.  `loop' is where the loop  *)
(* stands; it matters only while myself_q holds packets.                    *)
(*                                                                         *)
(* The members at the start are connected, a joiner to the server it asks; *)
(* a server dials the members of a version it adopts.  Connections are not *)
(* lost, and every dial ends before the next s_paxos_check_leave, so that  *)
(* the removal of a member never starts.                                   *)
(***************************************************************************)
EXTENDS Integers, FiniteSets, Sequences, SequencesExt

CONSTANTS
  N,             \* the servers are 1..N
  NormalTopics,  \* ordinary topics ("x0" to "x9")
  Starts         \* what a behaviour may start from and do, see Situations

Servers == 1..N

\* The members at the start are 1..members; contact[j] is the server joiner j is
\* told to ask (argv[1], g_ud.serv); values[s] are the values s proposes for ordinary
\* topics, one after the other (in test_paxos only server 1 does: 3, 4, ...);
\* learns[s] bounds the s_paxos_learn_all calls of s, timeouts the rpc time-outs.
Situations ==
  [members: Nat \ {0}, contact: UNION {[J -> Servers] : J \in SUBSET Servers},
   values: [Servers -> Seq((SUBSET Nat) \ {{}})], learns: [Servers -> Nat], timeouts: Nat]

\* A topic is a pair: the kind and, for a version topic, its number.
VersionTopic(n) == <<"version:", n>>
VersionTopics == {VersionTopic(n) : n \in 2..(N + 1)}
Topics == {<<x, 0>> : x \in NormalTopics} \cup VersionTopics

\* iget_new_version
NewVersion(topic) == IF topic \in VersionTopics THEN topic[2] ELSE -1

\* Ids are <<y, x>>: counter, server.  s_id_gt compares y first.
NoId == <<0, 0>>
IdGt(a, b) == a[1] > b[1] \/ (a[1] = b[1] /\ a[2] > b[2])
NoValue == {}

ASSUME PaxosAssumption ==
  /\ N \in Nat \ {0} /\ IsFiniteSet(NormalTopics)
  /\ \A b \in Starts : b \in Situations /\ b.members <= N

VARIABLES
  start,     \* the situation of this behaviour
  st,        \* st[s]: struct s_paxos of s
  props,     \* the proposals some outstanding rpc refers to
  pending,   \* outstanding rpc calls (the rpc_hash of each server)
  chan,      \* chan[p][q]: packets from p to q; chan[p][p] is myself_q
  links,     \* the pairs of servers that are connected
  loop,      \* loop[s]: the last part of its event loop that s has entered
  asked,     \* the joiners that have sent ADD_ME (static int sent)
  started,   \* started[s]: how many ordinary proposals s has started
  learns,    \* learns[s]: how often s has called s_paxos_learn_all
  timeouts,  \* how many rpc calls have timed out
  chosen,    \* history: <<topic, value>> pairs idump_learn reported
  sent,      \* history: <<topic, id, value>> of the ordinary accept requests
  unheard    \* history: versions proposed after a prepare request had timed out

\* What no handler changes.
driverVars == <<start, links, asked, started, learns, timeouts>>
history == <<chosen, sent, unheard>>
vars == <<st, props, pending, chan, loop, driverVars, history>>

-----------------------------------------------------------------------------
(* The server's tables.  accept[topic] and learn[topic] are the arrays of   *)
(* the code, in their order.                                                *)

\* s_paxos_create, followed for 2, ..., n by the steps that add one server after
\* the other through server 1: its k-th ADD proposal takes the ids 2k-1 and 2k
\* of server 1 and one id of each other member, and all accept "version:k+1".
AddId(k) == <<2 * (k - 1) - 1, 1>>

InitPaxos(s, n) ==
  [version |-> IF s <= n THEN n ELSE 0,
   servs |-> IF s <= n THEN 1..n ELSE {},
   dialled |-> {},
   response_version |-> IF n > 1 /\ s < n THEN n ELSE 0,
   response |-> [t \in Topics |->
      IF t[1] = "version:" /\ s < t[2] /\ t[2] <= n THEN AddId(t[2]) ELSE NoId],
   accept |-> [t \in Topics |->
      IF t[1] = "version:" /\ s <= n /\ t[2] <= n
      THEN <<[value |-> 1..t[2], id |-> AddId(t[2])]>> ELSE <<>>],
   learn |-> [t \in Topics |-> <<>>],
   learn_count |-> 0,
   id |-> IF s = 1 THEN 2 * n - 1 ELSE IF s <= n THEN 1 + n - s ELSE 1]

\* s_paxos_is_in
IsIn(p, s) == s \in p.servs

Majority(p) == Cardinality(p.servs) \div 2

\* The index at which a loop over the array stops: the first of I, if any.
FirstOf(I) == {i \in I : \A j \in I : i <= j}

\* The array with the accepted value added, or the id of its entry raised.
AcceptInto(arr, value, id) ==
  LET same == FirstOf({i \in DOMAIN arr : arr[i].value = value})
  IN IF same = {} THEN Append(arr, [value |-> value, id |-> id])
     ELSE [i \in DOMAIN arr |-> IF i \in same /\ IdGt(id, arr[i].id)
                                THEN [arr[i] EXCEPT !.id = id] ELSE arr[i]]

\* Mutant of Refused: response_version is not looked at.
RefusedNoResponseVersion(p, topic, id, version) ==
  \/ version > 0 /\ version # p.version
  \/ IdGt(p.response[topic], id)

\* Mutant of Refused: the greatest prepare request answered is not looked at.
RefusedIgnoresResponse(p, topic, id, version) ==
  \/ version > 0 /\ version # p.version
  \/ /\ version > 0 /\ version < p.response_version
     /\ NewVersion(topic) < p.response_version

\* The early returns of iaccept; a version of -1 or 0 skips the version tests.
Refused(p, topic, id, version) ==
  \/ version > 0 /\ version # p.version
  \/ /\ version > 0 /\ version < p.response_version
     /\ NewVersion(topic) < p.response_version
  \/ IdGt(p.response[topic], id)

\* A loop over an array: FoldLeft, in a form that can be reasoned about.
ForEach(Step(_, _), p, arr) ==
  LET after[i \in 0..Len(arr)] == IF i = 0 THEN p ELSE Step(after[i - 1], arr[i])
  IN after[Len(arr)]

\* iaccept
IAccept(p, topic, id, value, version) ==
  IF Refused(p, topic, id, version) THEN p
  ELSE [p EXCEPT !.accept[topic] = AcceptInto(@, value, id)]

\* How many entries up to the i-th of a learn array agree with the i-th.
Votes(arr, i) == Cardinality({j \in 1..i : arr[j].value = arr[i].value})

\* icheck_new_version: adopt the next version when a value has a majority of
\* the present members (at server 1 of a pair of members, any vote will do), and
\* dial its members.
CheckNewVersion(p, me) ==
  LET topic == VersionTopic(p.version + 1)
      arr == p.learn[topic]
      won == {i \in DOMAIN arr :
                \/ Votes(arr, i) > Majority(p)
                \/ Cardinality(p.servs) = 2 /\ me = 1}
  IN IF won = {} THEN p
     ELSE LET w == CHOOSE i \in won : \A j \in won : i <= j
          IN IAccept([p EXCEPT !.version = @ + 1, !.servs = arr[w].value,
                                !.dialled = @ \cup arr[w].value],
                     topic, arr[w].id, arr[w].value, -1)

\* ilearn: one vote per server and value; a repeated vote only raises its id.
ILearn(p, me, topic, value, id, from) ==
  LET same == FirstOf({i \in DOMAIN p.learn[topic] :
                  p.learn[topic][i].serv = from /\ p.learn[topic][i].value = value})
  IN IF same # {}
     THEN [p EXCEPT !.learn[topic] =
             [i \in DOMAIN @ |-> IF i \in same /\ IdGt(id, @[i].id)
                                 THEN [@[i] EXCEPT !.id = id] ELSE @[i]]]
     ELSE CheckNewVersion(
            [p EXCEPT !.learn[topic] =
               Append(@, [value |-> value, id |-> id, serv |-> from])], me)

\* The packets of accept entries: every topic's array, one after the other.
\* The order of the topics is the order of the hash table.
TopicSeq == SetToSeq(Topics)

DumpAccept(p) ==
  FlattenSeq([k \in DOMAIN TopicSeq |->
    [i \in DOMAIN p.accept[TopicSeq[k]] |->
       [topic |-> TopicSeq[k], value |-> p.accept[TopicSeq[k]][i].value,
        id |-> p.accept[TopicSeq[k]][i].id]]])

\* idump_learn, first effect: votes of servers that are not members are removed.
MemberVotes(p, t) ==
  ForEach(LAMBDA acc, l : IF IsIn(p, l.serv) THEN Append(acc, l) ELSE acc, <<>>, p.learn[t])

Pruned(p) == [p EXCEPT !.learn = [t \in Topics |-> MemberVotes(p, t)]]

HasMajority(p, arr, i) == Votes(arr, i) > Majority(p)

\* idump_learn: what it reports, for a pruned table.
Winners(p, t) ==
  LET arr == p.learn[t]
      entry(i) == [topic |-> t, value |-> arr[i].value, id |-> arr[i].id]
  IN ForEach(LAMBDA acc, i : IF HasMajority(p, arr, i) THEN Append(acc, entry(i)) ELSE acc,
             <<>>, [i \in DOMAIN arr |-> i])

DumpLearn(p) == FlattenSeq([k \in DOMAIN TopicSeq |-> Winners(p, TopicSeq[k])])

Reported(dump) == {<<dump[i].topic, dump[i].value>> : i \in DOMAIN dump}

-----------------------------------------------------------------------------
(* Packets and the event loop.                                              *)

\* Append to the connections of s: out[d] is what s sends to d.
Route(ch, s, out) == [ch EXCEPT ![s] = [d \in Servers |-> @[d] \o out[d]]]

Nothing == [d \in Servers |-> <<>>]
ToAll(D, m) == [d \in Servers |-> IF d \in D THEN <<m>> ELSE <<>>]

\* The parts of the event loop, in their order.
Drain == 0
Expire == 1
Net == 2
UpdateLearn == 3
UpdateStart == 4

\* The loop of s can enter a part: it is not past it, or a new poll has found
\* myself_q empty; nothing but the drain goes on in a poll that is draining.
MayEnter(s, part) ==
  \/ part = Drain
  \/ chan[s][s] = <<>>
  \/ loop[s] # Drain /\ loop[s] <= part

\* The packets left in the connections are ch and s sends `out', in this part.
Serve(s, part, ch, out) ==
  /\ chan' = Route(ch, s, out)
  /\ loop' = [loop EXCEPT ![s] = IF chan'[s][s] = <<>> THEN Drain ELSE part]

\* The packet m is the next one from q to s and the loop of s may handle it.
Arrives(q, s, m) ==
  /\ chan[q][s] # <<>>
  /\ m = Head(chan[q][s])
  /\ MayEnter(s, IF q = s THEN Drain ELSE Net)

\* Its handler ends, having sent `out'.
Handled(q, s, out) ==
  Serve(s, IF q = s THEN Drain ELSE Net, [chan EXCEPT ![q][s] = Tail(@)], out)

\* Outstanding calls.  "REQUEST" and "ADD_ACCEPT" calls belong to the proposal
\* with this id; for a "LEARN" call the id tells the calls of one server apart.
Call(kind, s, d, id) == [kind |-> kind, from |-> s, to |-> d, id |-> id]

\* Dropping a proposal's last reference frees it.
Referenced(P, calls) == {p \in P : \E c \in calls : c.id = p.id}

-----------------------------------------------------------------------------
Init ==
  /\ start \in Starts
  /\ st = [s \in Servers |-> InitPaxos(s, start.members)]
  /\ props = {}
  /\ pending = {}
  /\ chan = [p \in Servers |-> Nothing]
  /\ links = {{s, t} : s, t \in 1..start.members}
               \cup {{j, start.contact[j]} : j \in DOMAIN start.contact}
  /\ loop = [s \in Servers |-> Drain]
  /\ asked = {}
  /\ started = [s \in Servers |-> 0]
  /\ learns = [s \in Servers |-> 0]
  /\ timeouts = 0
  /\ chosen = {}
  /\ sent = {}
  /\ unheard = {}

\* The members s_servg_get_active_serv finds; a server always finds itself.
ActiveMembers(s) == {d \in st[s].servs : d = s \/ {s, d} \in links}

\* s_paxos_start, once the server is known to be a member: the proposal ...
Proposal(s, topic, value, type, the_serv) ==
  [id |-> <<st[s].id, s>>, topic |-> topic, value |-> value, type |-> type,
   the_serv |-> the_serv, version |-> st[s].version,
   nserv |-> Cardinality(st[s].servs), count |-> 0, max_id |-> NoId,
   rvalue |-> NoValue]

\* ... and the prepare request it broadcasts.
RequestPkt(p) ==
  [fun |-> "REQUEST", id |-> p.id, topic |-> p.topic, type |-> p.type,
   version |-> p.version]

AcceptPkt(p) ==
  [fun |-> "ACCEPT", topic |-> p.topic, id |-> p.id, value |-> p.value,
   version |-> p.version]

RequestCalls(s, p) == {Call("REQUEST", s, d, p.id) : d \in ActiveMembers(s)}

\* s_ud_client_update of a proposer: an ordinary proposal with the next value.
\* It runs every 10 s, an rpc lives 1 s: the previous proposal of s is over.
StartNormal(s, topic) ==
  LET p == Proposal(s, topic, start.values[s][started[s] + 1], "NORMAL", 0)
  IN /\ started[s] < Len(start.values[s])
     /\ MayEnter(s, UpdateStart)
     /\ IsIn(st[s], s)
     /\ \A q \in props : ~(q.type = "NORMAL" /\ q.id[2] = s)
     /\ started' = [started EXCEPT ![s] = @ + 1]
     /\ st' = [st EXCEPT ![s].id = @ + 1]
     /\ props' = props \cup {p}
     /\ pending' = pending \cup RequestCalls(s, p)
     /\ Serve(s, UpdateStart, chan, ToAll(ActiveMembers(s), RequestPkt(p)))
     /\ UNCHANGED <<start, links, asked, learns, timeouts, history>>

\* s_ud_client_update of a server that is not a member: ADD_ME, once.
AskToJoin(s) ==
  /\ s \in DOMAIN start.contact \ asked
  /\ MayEnter(s, UpdateStart)
  /\ ~IsIn(st[s], s)
  /\ asked' = asked \cup {s}
  /\ Serve(s, UpdateStart, chan, ToAll({start.contact[s]}, [fun |-> "ADD_ME"]))
  /\ UNCHANGED <<start, st, props, pending, links, started, learns, timeouts, history>>

\* How many answers s_paxos_learn_all waits for.
LearnCount(s) == Cardinality(ActiveMembers(s))

\* s_paxos_learn_all, called by s_ud_client_update every 5 s (an rpc lives 1 s)
\* once the server has a version: forget all votes and ask the members.
LearnAll(s) ==
  /\ learns[s] < start.learns[s]
  /\ MayEnter(s, UpdateLearn)
  /\ st[s].version > 0
  /\ ~\E c \in pending : c.kind = "LEARN" /\ c.from = s
  /\ learns' = [learns EXCEPT ![s] = @ + 1]
  /\ st' = [st EXCEPT ![s].learn = [t \in Topics |-> <<>>],
                      ![s].learn_count = LearnCount(s)]
  /\ pending' = pending \cup
       {Call("LEARN", s, d, <<learns'[s], 0>>) : d \in ActiveMembers(s)}
  /\ Serve(s, UpdateLearn, chan, ToAll(ActiveMembers(s),
                      [fun |-> "LEARN_REQUEST", id |-> <<learns'[s], 0>>,
                       version |-> st[s].version]))
  /\ UNCHANGED <<start, props, links, asked, started, timeouts, history>>

\* ireceive_add: propose the next version with the sender added.  A server that
\* is no member itself, or has the sender already, does nothing.
ReceiveAdd(q, s, m) ==
  LET p == Proposal(s, VersionTopic(st[s].version + 1), st[s].servs \cup {q},
                    "ADD", q)
  IN /\ Arrives(q, s, m) /\ m.fun = "ADD_ME"
     /\ IF IsIn(st[s], s) /\ ~IsIn(st[s], q)
        THEN /\ st' = [st EXCEPT ![s].id = @ + 1]
             /\ props' = props \cup {p}
             /\ pending' = pending \cup RequestCalls(s, p)
             /\ Handled(q, s, ToAll(ActiveMembers(s), RequestPkt(p)))
        ELSE /\ st' = [st EXCEPT ![s].id = IF IsIn(st[s], s) THEN @ + 1 ELSE @]
             /\ Handled(q, s, Nothing)
             /\ UNCHANGED <<props, pending>>
     /\ UNCHANGED <<driverVars, history>>

\* ireceive_request: the reply names the accepted value with the greatest id
\* below the proposal's; for a membership proposal it carries all of accept.
\* The server's own counter goes up, since the handler creates a proposal too.
Response(p, m) ==
  LET arr == p.accept[m.topic]
      below == {i \in DOMAIN arr : IdGt(m.id, arr[i].id)}
      best == {i \in below : \A j \in below :
                 IdGt(arr[i].id, arr[j].id) \/ (arr[i].id = arr[j].id /\ i <= j)}
  IN [fun |-> "RESPONSE", id |-> m.id, bad |-> FALSE,
      max_id |-> IF best = {} THEN NoId ELSE arr[CHOOSE i \in best : TRUE].id,
      value |-> IF best = {} THEN NoValue ELSE arr[CHOOSE i \in best : TRUE].value,
      dump |-> IF m.type = "NORMAL" THEN <<>> ELSE DumpAccept(p)]

BadVersion(m) ==
  [fun |-> "RESPONSE", id |-> m.id, bad |-> TRUE, max_id |-> NoId,
   value |-> NoValue, dump |-> <<>>]

ReceiveRequest(q, s, m) ==
  /\ Arrives(q, s, m) /\ m.fun = "REQUEST"
  /\ \/ /\ m.version # st[s].version
        /\ st' = [st EXCEPT ![s].id = @ + 1]
        /\ Handled(q, s, ToAll({q}, BadVersion(m)))
     \/ /\ m.version = st[s].version
        /\ st' = [st EXCEPT
             ![s].id = @ + 1,
             ![s].response_version =
                IF m.type = "NORMAL" THEN @ ELSE NewVersion(m.topic),
             ![s].response[m.topic] = IF IdGt(m.id, @) THEN m.id ELSE @]
        /\ Handled(q, s, ToAll({q}, Response(st[s], m)))
  /\ UNCHANGED <<props, pending, driverVars, history>>

\* ireceive_accept
ReceiveAccept(q, s, m) ==
  /\ Arrives(q, s, m) /\ m.fun = "ACCEPT"
  /\ st' = [st EXCEPT ![s] = IAccept(@, m.topic, m.id, m.value, m.version)]
  /\ Handled(q, s, Nothing)
  /\ UNCHANGED <<props, pending, driverVars, history>>

\* The proposal the call c is about.
ProposalOf(c) == CHOOSE p \in props : p.id = c.id

\* The call c is over: pending and props after it, when it leaves its proposal
\* as p and makes the calls `more'.
CallOver(c, p, more) ==
  /\ pending' = (pending \ {c}) \cup more
  /\ props' = Referenced((props \ {ProposalOf(c)}) \cup {p}, pending')

\* A reply raises the greatest id a proposal has seen and the value with it.
Noted(p, m) ==
  IF m.value # NoValue /\ IdGt(m.max_id, p.max_id)
  THEN [p EXCEPT !.max_id = m.max_id, !.rvalue = m.value] ELSE p

\* Mutant of Counted: the proposer keeps its own value.
CountedKeepsValue(p, m) == [Noted(p, m) EXCEPT !.count = @ + 1]

\* iresponse, first part: a newer accepted value replaces the proposer's own.
Counted(p, m) ==
  LET n == Noted(p, m)
  IN [n EXCEPT !.count = @ + 1,
               !.value = IF n.max_id = p.max_id THEN @ ELSE n.rvalue]

\* ireceive_response of an ordinary proposal and iresponse: every reply beyond a
\* majority sends the accept request (again).
ResponseNormal(q, s, m, c) ==
  LET p == Counted(ProposalOf(c), m)
  IN /\ IF m.bad
        THEN CallOver(c, ProposalOf(c), {}) /\ Handled(q, s, Nothing) /\ UNCHANGED sent
        ELSE /\ CallOver(c, p, {})
             /\ IF p.count > p.nserv \div 2
                THEN /\ Handled(q, s, ToAll(ActiveMembers(s), AcceptPkt(p)))
                     /\ sent' = sent \cup {<<p.topic, p.id, p.value>>}
                ELSE Handled(q, s, Nothing) /\ UNCHANGED sent
     /\ UNCHANGED <<st, chosen>>

\* The accept table of q is learnt.
LearnTable(p, s, q, dump) ==
  ForEach(LAMBDA acc, e : ILearn(acc, s, e.topic, e.value, e.id, q), p, dump)

\* i_receive_response_add, for a reply that is not BAD_VERSION, or for none: the
\* accept tables are learnt; when all members have answered (or timed out) the
\* new member gets what has been learnt, unless another value was accepted.
AddResult(s, q, m, c) ==
  LET p == [Noted(ProposalOf(c), m) EXCEPT !.count = @ + 1]
      learnt == LearnTable(st[s], s, q, m.dump)
      go == /\ p.count = p.nserv
            /\ p.rvalue = NoValue \/ p.rvalue = p.value
  IN [p |-> p, go |-> go, st |-> IF go THEN Pruned(learnt) ELSE learnt]

AddAcceptPkt(p, r) ==
  [fun |-> "ADD_ACCEPT", id |-> p.id, version |-> r.version, servs |-> r.servs,
   dump |-> DumpLearn(r)]

\* The effects of AddResult, `out' being what the caller sends with.
AddStep(s, r, c) ==
  /\ st' = [st EXCEPT ![s] = r.st]
  /\ CallOver(c, r.p, IF r.go THEN {Call("ADD_ACCEPT", s, r.p.the_serv, r.p.id)}
                      ELSE {})
  /\ chosen' = IF r.go THEN chosen \cup Reported(DumpLearn(r.st)) ELSE chosen

AddOut(r) == IF r.go THEN ToAll({r.p.the_serv}, AddAcceptPkt(r.p, r.st)) ELSE Nothing

ResponseAdd(q, s, m, c) ==
  IF m.bad
  THEN /\ CallOver(c, ProposalOf(c), {})
       /\ Handled(q, s, Nothing)
       /\ UNCHANGED <<st, chosen, sent>>
  ELSE /\ AddStep(s, AddResult(s, q, m, c), c)
       /\ Handled(q, s, AddOut(AddResult(s, q, m, c)))
       /\ UNCHANGED sent

\* ireceive_response; a reply no call waits for is dropped by the rpc layer.
ReceiveResponse(q, s, m) ==
  LET c == Call("REQUEST", s, q, m.id)
  IN /\ Arrives(q, s, m) /\ m.fun = "RESPONSE" /\ c \in pending
     /\ IF ProposalOf(c).type = "NORMAL"
        THEN ResponseNormal(q, s, m, c)
        ELSE ResponseAdd(q, s, m, c)
     /\ UNCHANGED <<driverVars, unheard>>

TakeOver(p, s, m) == [p EXCEPT !.version = m.version, !.servs = m.servs]

AcceptTable(p, dump) ==
  ForEach(LAMBDA acc, e : IAccept(acc, e.topic, e.id, e.value, -1), p, dump)

\* ireceive_add_accept: the new member takes over version, members and values.
ReceiveAddAccept(q, s, m) ==
  /\ Arrives(q, s, m) /\ m.fun = "ADD_ACCEPT"
  /\ st' = [st EXCEPT ![s] = AcceptTable(TakeOver(@, s, m), m.dump)]
  /\ Handled(q, s, ToAll({q}, [fun |-> "ADDED", id |-> m.id]))
  /\ UNCHANGED <<props, pending, driverVars, history>>

\* i_add_new_serv_ok: the accept request goes to the members of now.
NewServOk(s, c) == ToAll(ActiveMembers(s), AcceptPkt(ProposalOf(c)))

ReceiveAdded(q, s, m) ==
  LET c == Call("ADD_ACCEPT", s, q, m.id)
  IN /\ Arrives(q, s, m) /\ m.fun = "ADDED" /\ c \in pending
     /\ CallOver(c, ProposalOf(c), {})
     /\ Handled(q, s, NewServOk(s, c))
     /\ UNCHANGED <<st, driverVars, history>>

\* ireceive_learn_request: all of accept; the version is the asker's own.
ReceiveLearnRequest(q, s, m) ==
  /\ Arrives(q, s, m) /\ m.fun = "LEARN_REQUEST"
  /\ Handled(q, s, ToAll({q}, [fun |-> "LEARN", id |-> m.id,
                               version |-> m.version, dump |-> DumpAccept(st[s])]))
  /\ UNCHANGED <<st, props, pending, driverVars, history>>

\* The end of ireceive_learn: the last answer prints what has been learnt.
LearnEnd(s, p) ==
  LET d == IF p.learn_count = 0 THEN Pruned(p) ELSE p
  IN /\ st' = [st EXCEPT ![s] = d]
     /\ chosen' = IF p.learn_count = 0 THEN chosen \cup Reported(DumpLearn(d))
                  ELSE chosen

\* ireceive_learn: votes are counted until one of them changes the version.
LearnVotes(p, s, q, m) ==
  ForEach(LAMBDA acc, e :
            IF acc.version = m.version
            THEN ILearn(acc, s, e.topic, e.value, e.id, q) ELSE acc,
          [p EXCEPT !.learn_count = @ - 1], m.dump)

ReceiveLearn(q, s, m) ==
  LET c == Call("LEARN", s, q, m.id)
      p == LearnVotes(st[s], s, q, m)
  IN /\ Arrives(q, s, m) /\ m.fun = "LEARN" /\ c \in pending
     /\ pending' = pending \ {c}
     /\ IF p.version = m.version
        THEN LearnEnd(s, p)
        ELSE st' = [st EXCEPT ![s] = p] /\ UNCHANGED chosen
     /\ Handled(q, s, Nothing)
     /\ UNCHANGED <<props, driverVars, sent, unheard>>

\* ihandle_rpc_back without a call that waits: the reply came after the time-out.
LateReply(q, s, m) ==
  /\ Arrives(q, s, m) /\ m.fun \in {"RESPONSE", "ADDED", "LEARN"}
  /\ ~\E c \in pending :
       /\ c.from = s /\ c.to = q /\ c.id = m.id
       /\ <<c.kind, m.fun>> \in {<<"REQUEST", "RESPONSE">>, <<"ADD_ACCEPT", "ADDED">>,
                                 <<"LEARN", "LEARN">>}
  /\ Handled(q, s, Nothing)
  /\ UNCHANGED <<st, props, pending, driverVars, history>>

\* Mutant of LearnTimedOut: an answer that never came is not counted.
LearnTimedOutIgnored(p) == p

\* ireceive_learn without a packet counts as an answer.
LearnTimedOut(p) == [p EXCEPT !.learn_count = @ - 1]

\* s_servg_poll calls back without a packet.  It does so after it has emptied
\* myself_q, hence never for a call to oneself.
NoReply == [max_id |-> NoId, value |-> NoValue, dump |-> <<>>]

Timeout(c) ==
  LET s == c.from
      add == AddResult(s, c.to, NoReply, c)
  IN /\ c \in pending /\ c.to # s
     /\ timeouts < start.timeouts
     /\ MayEnter(s, Expire)
     /\ timeouts' = timeouts + 1
     /\ \/ /\ c.kind = "REQUEST"
           /\ IF ProposalOf(c).type = "NORMAL"
              THEN /\ CallOver(c, ProposalOf(c), {})
                   /\ Serve(s, Expire, chan, Nothing)
                   /\ UNCHANGED <<st, chosen, unheard>>
              ELSE /\ AddStep(s, add, c)
                   /\ Serve(s, Expire, chan, AddOut(add))
                   /\ unheard' = unheard \cup {NewVersion(add.p.topic)}
        \/ /\ c.kind = "ADD_ACCEPT"
           /\ CallOver(c, ProposalOf(c), {})
           /\ Serve(s, Expire, chan, NewServOk(s, c))
           /\ UNCHANGED <<st, chosen, unheard>>
        \/ /\ c.kind = "LEARN"
           /\ pending' = pending \ {c}
           /\ LearnEnd(s, LearnTimedOut(st[s]))
           /\ Serve(s, Expire, chan, Nothing)
           /\ UNCHANGED <<props, unheard>>
     /\ UNCHANGED <<start, links, asked, started, learns, sent>>

\* A dial of icheck_new_version has ended, and both ends have identified.
Connect(s, d) ==
  /\ d \in st[s].dialled /\ d # s /\ {s, d} \notin links
  /\ links' = links \cup {{s, d}}
  /\ UNCHANGED <<st, props, pending, chan, loop, start, asked, started, learns, timeouts,
                 history>>

Receive(q, s, m) ==
  \/ ReceiveAdd(q, s, m)
  \/ ReceiveRequest(q, s, m)
  \/ ReceiveAccept(q, s, m)
  \/ ReceiveResponse(q, s, m)
  \/ ReceiveAddAccept(q, s, m)
  \/ ReceiveAdded(q, s, m)
  \/ ReceiveLearnRequest(q, s, m)
  \/ ReceiveLearn(q, s, m)
  \/ LateReply(q, s, m)

Next ==
  \/ \E s \in Servers, x \in NormalTopics : StartNormal(s, <<x, 0>>)
  \/ \E s \in Servers : AskToJoin(s)
  \/ \E s \in Servers : LearnAll(s)
  \/ \E q, s \in Servers : chan[q][s] # <<>> /\ Receive(q, s, Head(chan[q][s]))
  \/ \E c \in pending : Timeout(c)
  \/ \E s, d \in Servers : Connect(s, d)

Spec == Init /\ [][Next]_vars

-----------------------------------------------------------------------------
\* Some proposal for the topic has sent accept requests with two values: the first
\* when a majority had answered, another when a later reply named one (line 823).
TwoValues(topic) ==
  \E a, b \in sent : a[1] = topic /\ b[1] = topic /\ a[2] = b[2] /\ a[3] # b[3]

\* Consensus: no two learners, at whatever time, report different values for
\* one topic, unless a proposal of it has sent accept requests with two values.
Agreement ==
  \A a, b \in chosen : a[1] = b[1] /\ a[2] # b[2] => TwoValues(a[1])

\* Two servers that have adopted the same version have the same members in it,
\* however many joiners ask different members at once: every member has to answer
\* the prepare request of a membership proposal, so that of two rivals one is
\* refused by all.  A prepare request that timed out counts like an answer; from
\* that version on nothing is claimed.
VersionAgreement ==
  \A s, t \in Servers :
    /\ st[s].version = st[t].version
    /\ \A n \in unheard : st[s].version < n
    => st[s].servs = st[t].servs

\* The snapshot for a joiner is still on its way although its call timed out,
\* which i_add_new_serv_ok takes for the joiner's answer.
SnapshotLate ==
  \E q, s \in Servers : \E i \in DOMAIN chan[q][s] :
    /\ chan[q][s][i].fun = "ADD_ACCEPT"
    /\ Call("ADD_ACCEPT", q, s, chan[q][s][i].id) \notin pending

\* Handing over to a new version loses nothing: what was ever reported is still
\* accepted by a majority of the members of the newest version.  Between the
\* snapshot for the joiner and the new version, response_version keeps accept
\* requests of the old version out.
ChosenKept ==
  ~SnapshotLate => \A a \in chosen : \A s \in Servers :
    (\A t \in Servers : st[t].version <= st[s].version) =>
      Cardinality({t \in st[s].servs : \E i \in DOMAIN st[t].accept[a[1]] :
                     st[t].accept[a[1]][i].value = a[2]}) > Majority(st[s])

\* learn_req.count is the number of outstanding learn calls: the report comes
\* exactly when the last member has answered or timed out, never twice.
LearnCountExact ==
  \A s \in Servers : st[s].learn_count =
    Cardinality({c \in pending : c.kind = "LEARN" /\ c.from = s})
=============================================================================
