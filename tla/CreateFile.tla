---------------------------- MODULE CreateFile ----------------------------
(***************************************************************************)
(* File creation (core/s_core_create_mserv.c, s_core_create_client.c,      *)
(* s_core_create_dserv.c).                                                 *)
(*                                                                         *)
(* A client calls CREATE at one mserv.  The mserv asks the other mservs    *)
(* whether it may (CREATE_CHECK_AUTH), then stores and broadcasts the      *)
(* file-meta-meta-data, calls CREATE_METADATA at a second mserv and at two *)
(* dservs, and answers the client when all of them have answered.  Both    *)
(* rounds count their answers in creating->ncheck; a call that times out   *)
(* after three seconds is counted like one that was granted.               *)
(*                                                                         *)
(* Packets between two processes arrive in the order they were sent.  The  *)
(* connections that are up at the start stay up; clients may leave.        *)
(***************************************************************************)
EXTENDS Integers, FiniteSets, Sequences, SequencesExt, FiniteSetsExt

CONSTANTS
  MServs,      \* ids of the mservs in config.conf
  DServs,      \* the dservs in config.conf (other numbers than the mservs)
  Clients,     \* the clients
  Names,       \* file names
  Nearby,      \* [c]: the mservs whose delay client c may find the least
  MaxCreate,   \* [c]: bound on the calls of s_core_create_file of client c
  MaxTimeout,  \* bound on the calls between servers that time out
  MaxLeave     \* bound on the clients that leave

Servers == MServs \cup DServs
Nodes == Servers \cup Clients
Pairs == (MServs \X Nodes) \cup (Nodes \X MServs)

ASSUME CreateAssumption ==
  /\ MServs \subseteq Nat \ {0} /\ DServs \subseteq Nat \ {0}
  /\ MServs \cap DServs = {} /\ Servers \cap Clients = {}
  /\ IsFiniteSet(Servers)
  /\ Nearby \in [Clients -> SUBSET MServs] /\ MaxCreate \in [Clients -> Nat]
  /\ MaxTimeout \in Nat /\ MaxLeave \in Nat

NoFile == [file_id |-> 0, file_version |-> 0, mservs |-> <<>>]
NoCreating == [client |-> 0, req_id |-> 0, ncheck |-> 0]

VARIABLES
  file_creating,       \* [m][f]: the entry, or NoCreating
  file_meta_metadata,  \* [m][f]: descriptor and mservs of f, or NoFile
  file_metadata,       \* [m][f]: the same descriptor, as file-meta-data
  file_id,             \* [m]: core->file_id
  req_id,              \* [p]: number of the next rpc of p; the code counts per peer
  calls,               \* [m]: rpc_timeout_list, the oldest call first
  pending,             \* [c]: calls of client c that are not yet answered
  chan,                \* [<<p, q>>]: packets from p to q
  active,              \* [m]: servers s_servg_next_active_serv finds at m
  here,                \* clients that are connected
  aborted,             \* mservs whose assert has failed
  timeouts,            \* number of calls that have timed out
  told,                \* history: [m]: answers m has given to clients
  owed                 \* history: [m][f]: mservs whose answer success of f rests on

mservVars == <<file_creating, file_meta_metadata, file_metadata, file_id>>
rpcVars == <<req_id, calls>>
vars == <<mservVars, rpcVars, pending, chan, active, here, aborted, timeouts, told,
          owed>>

\* The packets; a field a packet does not carry holds its neutral value.
Packet(fun, req, f, ret, file) ==
  [fun |-> fun, req |-> req, name |-> f, ret |-> ret, file |-> file]

AnyName == CHOOSE f \in Names : TRUE

\* The channels after p has sent the packets ps to q.
Send(ch, p, q, ps) == [ch EXCEPT ![<<p, q>>] = @ \o ps]

Receive(p, q) == [chan EXCEPT ![<<p, q>>] = Tail(@)]

Ret(req, ret) == Packet("RPC_BACK", req, AnyName, ret, NoFile)

\* The numbers of the finite set I in increasing order: SetToSortSeq(I, <), in a
\* form whose type can be proved.
Ascending(I) ==
  [j \in 1..Cardinality(I) |-> CHOOSE i \in I : Cardinality({k \in I : k <= i}) = j]

\* The other mservs, in the order of s_servg_next_active_serv.
Others(m) == Ascending(active[m] \cap MServs)

-----------------------------------------------------------------------------
(* The rpc layer: s_servg_rpc_call of m to the servers `to', one by one.    *)

\* Mutant of NewCalls: the last call is sent but not noted.
NewCallsForgetsLast(m, to, fun, f) ==
  [i \in 1..(Len(to) - 1) |->
     [serv |-> to[i], req |-> req_id[m] + i - 1, fun |-> fun, name |-> f]]

NewCalls(m, to, fun, f) ==
  [i \in DOMAIN to |->
     [serv |-> to[i], req |-> req_id[m] + i - 1, fun |-> fun, name |-> f]]

CallPacket(m, i, fun, f, file) == Packet(fun, req_id[m] + i - 1, f, 0, file)

\* The packets of these calls that go to q, in the order they are sent.
CallsTo(m, q, to, fun, f, file) ==
  LET at == Ascending({i \in DOMAIN to : to[i] = q})
  IN [j \in DOMAIN at |-> CallPacket(m, at[j], fun, f, file)]

\* The channels afterwards.
SendCalls(ch, m, to, fun, f, file) ==
  [e \in Pairs |-> IF e[1] = m THEN ch[e] \o CallsTo(m, e[2], to, fun, f, file) ELSE ch[e]]

-----------------------------------------------------------------------------
\* Who is connected: any symmetric relation between the mservs, and any dservs.
Links == {R \in SUBSET (MServs \X Servers) :
            \A m, n \in MServs : /\ <<m, m>> \notin R
                                 /\ <<m, n>> \in R <=> <<n, m>> \in R}

Init ==
  /\ file_creating = [m \in MServs |-> [f \in Names |-> NoCreating]]
  /\ file_meta_metadata = [m \in MServs |-> [f \in Names |-> NoFile]]
  /\ file_metadata = [m \in MServs |-> [f \in Names |-> NoFile]]
  /\ file_id = [m \in MServs |-> 0]
  /\ req_id = [p \in MServs \cup Clients |-> 1]
  /\ calls = [m \in MServs |-> <<>>]
  /\ pending = [c \in Clients |-> {}]
  /\ chan = [e \in Pairs |-> <<>>]
  /\ \E R \in Links : active = [m \in MServs |-> {s \in Servers : <<m, s>> \in R}]
  /\ here = Clients
  /\ aborted = {}
  /\ timeouts = 0
  /\ told = [m \in MServs |-> <<>>]
  /\ owed = [m \in MServs |-> [f \in Names |-> {}]]

\* s_core_create_file; the mserv is the one with the least delay, or the first
\* that is connected.
CreateFile(c, m, f) ==
  LET r == req_id[c]
  IN /\ c \in here /\ m \in Nearby[c] /\ r <= MaxCreate[c]
     /\ pending' = [pending EXCEPT ![c] = @ \cup {[serv |-> m, req |-> r, name |-> f]}]
     /\ req_id' = [req_id EXCEPT ![c] = r + 1]
     /\ chan' = Send(chan, c, m, <<Packet("CREATE", r, f, 0, NoFile)>>)
     /\ UNCHANGED <<mservVars, calls, active, here, aborted, timeouts, told, owed>>

\* icreate_fail_to_client and icreate_suc_to_client: the channels and the
\* history after the answer to the entry cr.  A client that has left is missed.
Tell(ch, m, cr, ret) ==
  IF cr.client \in here
  THEN Send(ch, m, cr.client, <<Ret(cr.req_id, ret)>>) ELSE ch

Told(m, cr, f, ret) ==
  [told EXCEPT ![m] = Append(@, [client |-> cr.client, req |-> cr.req_id, name |-> f,
                                 ok |-> ret = 1])]

\* Mutant of IcheckCanCreate: a file that exists is not looked at.
IcheckCanCreateIgnoresFile(m, from, f) == file_creating[m][f] = NoCreating \/ from < m

\* icheck_can_create.  The flags are read through the address of the hash slot:
\* what lies there is half of an aligned pointer (the link of the node after the
\* next), never the odd S_FILE_MMD_FLAG_DELETED.
IcheckCanCreate(m, from, f) ==
  IF file_creating[m][f] = NoCreating
  THEN file_meta_metadata[m][f] = NoFile
  ELSE from < m

\* The file id is `1 | file_id++ & 0xFFFF', since core->id << 16 && 0xFFFF0000
\* is a truth value.
NewFileId(n) == IF n % 2 = 0 THEN n + 1 ELSE n

\* Mutant of Broadcast: the mserv that gets the file-meta-data is left out.
BroadcastToRest(m, mservs) == {s \in active[m] \cap MServs : s \notin ToSet(mservs)}

\* icreate_fmmd tells every other mserv.
Broadcast(m, mservs) == active[m] \cap MServs

\* The lists icreate_fmmd can make: m, the mserv that uses least memory, and one
\* uninitialised slot for every mserv before it that looked best until then.
MservLists(m) ==
  LET other == active[m] \cap MServs
  IN IF other = {} THEN {<<m>>}
     ELSE UNION {{<<m, s>> \o e : e \in UNION {[1..k -> MServs] :
                                   k \in 0..Cardinality({o \in other : o < s})}} :
                 s \in other}

\* The at most two dservs icreate_fmd can find to use least memory.
DservLists(m) ==
  LET d == active[m] \cap DServs
  IN UNION {SetToSeqs(D) : D \in kSubset(IF Cardinality(d) < 2 THEN Cardinality(d) ELSE 2, d)}

\* The mservs of the list ms that s_servg_get_active_serv finds.
ActiveOnes(m, ms) ==
  LET at == Ascending({i \in DOMAIN ms : ms[i] \in active[m]})
  IN [j \in DOMAIN at |-> ms[at[j]]]

\* What icreate_fmmd and icreate_fmd do with the new descriptor: store it, tell the
\* mservs B, and call CREATE_METADATA at the servers to.
StoreFile(m, f, cr, ch, cs, file, B, to) ==
  LET mmd == Packet("CREATE_META_META_DATA", 0, f, 0, file)
      sent == [e \in Pairs |-> IF e[1] = m /\ e[2] \in B THEN Append(ch[e], mmd) ELSE ch[e]]
  IN /\ file_meta_metadata' = [file_meta_metadata EXCEPT ![m][f] = file]
     /\ file_metadata' = [file_metadata EXCEPT ![m][f] = file]
     /\ file_creating' = [file_creating EXCEPT ![m][f] = [cr EXCEPT !.ncheck = Len(to)]]
     /\ chan' = SendCalls(sent, m, to, "CREATE_METADATA", f, file)
     /\ calls' = [calls EXCEPT ![m] = cs \o NewCalls(m, to, "CREATE_METADATA", f)]
     /\ req_id' = [req_id EXCEPT ![m] = @ + Len(to)]
     /\ owed' = [owed EXCEPT ![m][f] = {m} \cup IF @ = {} THEN ToSet(to) \cap MServs ELSE {}]
     /\ UNCHANGED <<aborted, told>>

\* The assert of icreate_fmmd ends the process; ch and cs are the channels and the
\* calls that are left.
AssertFails(m, f, cr, ch, cs) ==
  /\ aborted' = aborted \cup {m}
  /\ chan' = ch /\ calls' = [calls EXCEPT ![m] = cs]
  /\ file_creating' = [file_creating EXCEPT ![m][f] = cr]
  /\ UNCHANGED <<file_meta_metadata, file_metadata, file_id, req_id, told, owed>>

\* icreate for the entry cr of f.  An entry in file_meta_metadata fails the assert,
\* unless the flags, which nobody has set, happen to say DELETED; then the version
\* goes up.
Icreate(m, f, cr, ch, cs) ==
  LET old == file_meta_metadata[m][f]
      known == old # NoFile
      file(ms) == [file_id |-> IF known THEN old.file_id ELSE NewFileId(file_id[m]),
                   file_version |-> old.file_version + 1, mservs |-> ms]
  IN \/ known /\ AssertFails(m, f, cr, ch, cs)
     \/ /\ file_id' = IF known THEN file_id ELSE [file_id EXCEPT ![m] = (@ + 1) % 65536]
        /\ \E ms \in MservLists(m), ds \in DservLists(m) :
             StoreFile(m, f, cr, ch, cs, file(ms), Broadcast(m, ms), ActiveOnes(m, ms) \o ds)

\* The first packet that q has from p.
Arrives(p, q, fun) ==
  /\ q \notin aborted /\ chan[<<p, q>>] # <<>>
  /\ Head(chan[<<p, q>>]).fun = fun

\* s_core_mserv_create.
MservCreate(m, c) ==
  LET pkt == Head(chan[<<c, m>>])
      f == pkt.name
      rest == Receive(c, m)
      to == Others(m)
      cr == [client |-> c, req_id |-> pkt.req, ncheck |-> Len(to)]
  IN /\ Arrives(c, m, "CREATE")
     /\ \/ /\ ~IcheckCanCreate(m, m, f)
           /\ chan' = Tell(rest, m, cr, 0)
           /\ told' = Told(m, cr, f, 0)
           /\ UNCHANGED <<mservVars, rpcVars, aborted, owed>>
        \/ /\ IcheckCanCreate(m, m, f) /\ to # <<>>
           /\ file_creating' = [file_creating EXCEPT ![m][f] = cr]
           /\ chan' = SendCalls(rest, m, to, "CREATE_CHECK_AUTH", f, NoFile)
           /\ calls' = [calls EXCEPT ![m] = @ \o NewCalls(m, to, "CREATE_CHECK_AUTH", f)]
           /\ req_id' = [req_id EXCEPT ![m] = @ + Len(to)]
           /\ UNCHANGED <<file_meta_metadata, file_metadata, file_id, aborted, told, owed>>
        \/ /\ IcheckCanCreate(m, m, f) /\ to = <<>>
           /\ Icreate(m, f, cr, rest, calls[m])
     /\ UNCHANGED <<pending, active, here, timeouts>>

\* s_core_mserv_create_check_auth.
CheckAuth(m, p) ==
  LET pkt == Head(chan[<<p, m>>])
      ret == IF IcheckCanCreate(m, p, pkt.name) THEN 1 ELSE 0
  IN /\ Arrives(p, m, "CREATE_CHECK_AUTH")
     /\ chan' = Send(Receive(p, m), m, p, <<Ret(pkt.req, ret)>>)
     /\ UNCHANGED <<mservVars, rpcVars, pending, active, here, aborted, timeouts, told,
                    owed>>

\* s_core_mserv_create_meta_meta_data.
CreateMetaMetaData(m, p) ==
  LET pkt == Head(chan[<<p, m>>])
  IN /\ Arrives(p, m, "CREATE_META_META_DATA")
     /\ file_meta_metadata' = [file_meta_metadata EXCEPT ![m][pkt.name] = pkt.file]
     /\ chan' = Receive(p, m)
     /\ UNCHANGED <<file_creating, file_metadata, file_id, rpcVars, pending, active,
                    here, aborted, timeouts, told, owed>>

\* s_core_mserv_create_metadata.
MservCreateMetadata(m, p) ==
  LET pkt == Head(chan[<<p, m>>])
  IN /\ Arrives(p, m, "CREATE_METADATA")
     /\ file_metadata' = [file_metadata EXCEPT ![m][pkt.name] = pkt.file]
     /\ chan' = Send(Receive(p, m), m, p, <<Ret(pkt.req, 1)>>)
     /\ UNCHANGED <<file_creating, file_meta_metadata, file_id, rpcVars, pending,
                    active, here, aborted, timeouts, told, owed>>

\* s_core_dserv_create_metadata: the dserv keeps nothing.
DservCreateMetadata(d, p) ==
  LET pkt == Head(chan[<<p, d>>])
  IN /\ Arrives(p, d, "CREATE_METADATA")
     /\ chan' = Send(Receive(p, d), d, p, <<Ret(pkt.req, 1)>>)
     /\ UNCHANGED <<mservVars, rpcVars, pending, active, here, aborted, timeouts, told,
                    owed>>

\* The entry of f is answered and deleted.
Finish(m, f, ret, ch, cs) ==
  LET cr == file_creating[m][f]
  IN /\ chan' = Tell(ch, m, cr, ret)
     /\ told' = Told(m, cr, f, ret)
     /\ file_creating' = [file_creating EXCEPT ![m][f] = NoCreating]
     /\ calls' = [calls EXCEPT ![m] = cs]
     /\ UNCHANGED <<file_meta_metadata, file_metadata, file_id, req_id, aborted>>

\* A callback that leaves the entry of f as cr.
Keep(m, f, cr, ch, cs) ==
  /\ file_creating' = [file_creating EXCEPT ![m][f] = cr]
  /\ chan' = ch /\ calls' = [calls EXCEPT ![m] = cs]
  /\ UNCHANGED <<file_meta_metadata, file_metadata, file_id, req_id, aborted, told>>

\* Mutant of IrpcCheckAuthBack: a refusal leaves the entry.
IrpcCheckAuthBackKeeps(m, f, ret, ch, cs) ==
  LET cr == file_creating[m][f]
      left == [cr EXCEPT !.ncheck = @ - 1]
  IN \/ /\ cr # NoCreating /\ ret = 0
        /\ chan' = Tell(ch, m, cr, 0)
        /\ told' = Told(m, cr, f, 0)
        /\ calls' = [calls EXCEPT ![m] = cs]
        /\ file_creating' = [file_creating EXCEPT ![m][f] = left]
        /\ UNCHANGED <<file_meta_metadata, file_metadata, file_id, req_id, aborted, owed>>
     \/ cr # NoCreating /\ ret # 0 /\ left.ncheck = 0 /\ Icreate(m, f, left, ch, cs)
     \/ /\ cr # NoCreating /\ ret # 0 /\ left.ncheck # 0 /\ Keep(m, f, left, ch, cs)
        /\ UNCHANGED owed
     \/ cr = NoCreating /\ Keep(m, f, cr, ch, cs) /\ UNCHANGED owed

\* irpc_check_auth_back: 0 is a refusal, 1 a grant, 2 a time-out, which counts
\* like a grant.  One that is left over and counted while the file is handed out
\* stands for an answer that success no longer waits for.
IrpcCheckAuthBack(m, f, ret, ch, cs) ==
  LET cr == file_creating[m][f]
      left == [cr EXCEPT !.ncheck = @ - 1]
  IN \/ cr = NoCreating /\ Keep(m, f, cr, ch, cs) /\ UNCHANGED owed
     \/ cr # NoCreating /\ ret = 0 /\ Finish(m, f, 0, ch, cs) /\ UNCHANGED owed
     \/ cr # NoCreating /\ ret # 0 /\ left.ncheck = 0 /\ Icreate(m, f, left, ch, cs)
     \/ /\ cr # NoCreating /\ ret # 0 /\ left.ncheck # 0 /\ Keep(m, f, left, ch, cs)
        /\ owed' = [owed EXCEPT ![m][f] = @ \cap {m}]

\* Mutant of IrpcSendMdBack: the first answer ends the creation.
IrpcSendMdBackFirst(m, f, ch, cs) ==
  IF file_creating[m][f] = NoCreating THEN Keep(m, f, NoCreating, ch, cs)
  ELSE Finish(m, f, 1, ch, cs)

\* irpc_send_md_back.
IrpcSendMdBack(m, f, ch, cs) ==
  LET cr == file_creating[m][f]
      left == [cr EXCEPT !.ncheck = @ - 1]
      lost == file_metadata[m][f] = NoFile
  IN IF cr = NoCreating THEN Keep(m, f, cr, ch, cs)
     ELSE IF lost \/ left.ncheck = 0
     THEN Finish(m, f, IF lost THEN 0 ELSE 1, ch, cs)
     ELSE Keep(m, f, left, ch, cs)

\* The callback of call i of m; ch are the channels that are left.
Callback(m, i, ret, ch) ==
  LET call == calls[m][i]
      cs == RemoveAt(calls[m], i)
  IN \/ /\ call.fun = "CREATE_CHECK_AUTH"
        /\ IrpcCheckAuthBack(m, call.name, ret, ch, cs)
     \/ /\ call.fun = "CREATE_METADATA"
        /\ IrpcSendMdBack(m, call.name, ch, cs)
        /\ owed' = [owed EXCEPT ![m][call.name] = IF ret = 2 THEN @ \ {call.serv} ELSE @]

\* ihandle_rpc_back at m; an answer nobody waits for is dropped.
RpcBack(m, p) ==
  LET pkt == Head(chan[<<p, m>>])
      waits == {i \in DOMAIN calls[m] : calls[m][i].serv = p /\ calls[m][i].req = pkt.req}
  IN /\ Arrives(p, m, "RPC_BACK")
     /\ \/ \E i \in waits : Callback(m, i, pkt.ret, Receive(p, m))
        \/ /\ waits = {}
           /\ chan' = Receive(p, m)
           /\ UNCHANGED <<mservVars, rpcVars, aborted, told, owed>>
     /\ UNCHANGED <<pending, active, here, timeouts>>

\* s_servg_poll finds that the oldest call has timed out.
Timeout(m) ==
  /\ m \notin aborted /\ calls[m] # <<>>
  /\ timeouts < MaxTimeout
  /\ timeouts' = timeouts + 1
  /\ Callback(m, 1, 2, chan)
  /\ UNCHANGED <<pending, active, here>>

\* s_core_client_create_back; these calls do not time out.
ClientCreateBack(c, m) ==
  LET pkt == Head(chan[<<m, c>>])
  IN /\ Arrives(m, c, "RPC_BACK") /\ c \in here
     /\ pending' = [pending EXCEPT ![c] = {k \in @ : ~(k.serv = m /\ k.req = pkt.req)}]
     /\ chan' = Receive(m, c)
     /\ UNCHANGED <<mservVars, rpcVars, active, here, aborted, timeouts, told, owed>>

\* A client leaves.
Leave(c) ==
  /\ c \in here /\ Cardinality(Clients \ here) < MaxLeave
  /\ here' = here \ {c}
  /\ UNCHANGED <<mservVars, rpcVars, pending, chan, active, aborted, timeouts, told, owed>>

Next ==
  \/ \E c \in Clients, m \in MServs, f \in Names : CreateFile(c, m, f)
  \/ \E m \in MServs, c \in Clients : MservCreate(m, c)
  \/ \E m, p \in MServs : CheckAuth(m, p)
  \/ \E m, p \in MServs : CreateMetaMetaData(m, p)
  \/ \E m, p \in MServs : MservCreateMetadata(m, p)
  \/ \E d \in DServs, p \in MServs : DservCreateMetadata(d, p)
  \/ \E m \in MServs, p \in Servers : RpcBack(m, p)
  \/ \E m \in MServs : Timeout(m)
  \/ \E c \in Clients, m \in MServs : ClientCreateBack(c, m)
  \/ \E c \in Clients : Leave(c)

Spec == Init /\ [][Next]_vars

\* Every process serves its connections; nothing is assumed of time-outs.
Fairness ==
  \A m \in MServs :
    /\ \A p \in MServs : /\ WF_vars(CheckAuth(m, p))
                         /\ WF_vars(CreateMetaMetaData(m, p))
                         /\ WF_vars(MservCreateMetadata(m, p))
    /\ \A d \in DServs : WF_vars(DservCreateMetadata(d, m))
    /\ \A p \in Servers : WF_vars(RpcBack(m, p))
    /\ \A c \in Clients : WF_vars(MservCreate(m, c)) /\ WF_vars(ClientCreateBack(c, m))

FairSpec == Spec /\ Fairness

-----------------------------------------------------------------------------
\* A request is answered once: the entry is deleted with its answer, and the
\* answers that come after it find no entry, or that of another request.
AnsweredOnce ==
  \A m \in MServs : \A i, j \in DOMAIN told[m] :
    told[m][i].client = told[m][j].client /\ told[m][i].req = told[m][j].req => i = j

\* An mserv reports each file as created once, however many clients ask.
CreatedOnce ==
  \A m \in MServs : \A i, j \in DOMAIN told[m] :
    told[m][i].ok /\ told[m][j].ok /\ told[m][i].name = told[m][j].name => i = j

\* A client is told of success only when the file-meta-data is stored at every
\* mserv that was chosen for it and connected, but for those whose call timed out,
\* which counts like an answer.  With three mservs the one counter of both rounds
\* breaks this for a name of which a left-over answer was counted while the file
\* was handed out, or which was handed out twice.
SuccessMeansStored ==
  \A m \in MServs : \A i \in DOMAIN told[m] : told[m][i].ok =>
    \A s \in owed[m][told[m][i].name] : file_metadata[s][told[m][i].name] # NoFile

\* An entry waits for no more answers than there are calls under way, so that
\* answers and time-outs bring ncheck to zero and the client hears of it.
EntryIsCalledBack ==
  \A m \in MServs \ aborted : \A f \in Names : file_creating[m][f] # NoCreating =>
    file_creating[m][f].ncheck <= Cardinality({i \in DOMAIN calls[m] : calls[m][i].name = f})

\* Nothing that concerns two mservs is under way.
Quiet == \A e \in Pairs : e[1] \in MServs /\ e[2] \in MServs => chan[e] = <<>>

\* When the broadcasts have arrived, connected mservs agree on every file.
MservsAgree ==
  Quiet /\ aborted = {} =>
    \A m \in MServs : \A n \in active[m] \cap MServs :
      file_meta_metadata[m] = file_meta_metadata[n]

\* Every client that waits is answered, unless an mserv has aborted or the mserv
\* had nobody to send the file-meta-data to ("none serv!").
EveryCreateAnswered ==
  \A c \in Clients : \A m \in MServs, r \in 1..MaxCreate[c] :
    ([serv |-> m, req |-> r] \in {[serv |-> k.serv, req |-> k.req] : k \in pending[c]})
      ~> \/ [serv |-> m, req |-> r] \notin {[serv |-> k.serv, req |-> k.req] : k \in pending[c]}
         \/ aborted # {} \/ active[m] = {} \/ c \notin here

\* The assert of icreate_fmmd: only the entry of a deleted file is replaced.
AssertHolds == aborted = {}
=============================================================================
