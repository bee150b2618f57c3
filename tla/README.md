# A TLA+ development of simple_distribute_filesystem

The repository is a small distributed file system in C: meta servers (mserv),
data servers (dserv) and clients that talk over one rpc layer. This directory
models its protocols in TLA+, model-checks them with TLC and proves theorems
about them with TLAPS. `PROJECT.json` maps every definition to the lines it
models and lists runs, mutants, hazards and theorems.

## Inventory

| Part | Source | State | Operations | Hard behaviour |
|---|---|---|---|---|
| Dserv lock chain | `core/s_core_dserv.c`, `core/s_core_lock.h`, client in `test3/s_ud_client.c` | `lock_sent`, `lock_waiting`, `locks` of each dserv; `cl->locks`, `g_result` of the client | `LOCK_START`, `LOCK_NEXT`, `LOCK_UNLOCK`, `LOCK_END` | requests overtake one another, lost wakeups, a dserv in the middle dies |
| Global lock | `core/s_core_glock_mserv.c` | mask `glock`, table `glock_elems` | `GLOBAL_LOCK`, `GLOBAL_UNLOCK` | hash order of grants, clients that die while holding or waiting |
| Paxos | `core/s_core_paxos.c`, driver `test_paxos/` | version and members, `response`, `accept`, `learn`, `response_version`, proposals | prepare, accept, learn, add and remove a member, refresh | rival proposals, time-outs counted as answers, a change of version in the middle of a round |
| File creation | `core/s_core_create_*.c` | `file_creating`, `file_metadata`, `file_meta_metadata` | ask the other mservs, create, distribute, answer | two mservs create one name, time-outs counted as permission |
| Server group | `serv_group/` | servers and their flags, connection lists, `rpc_hash`, `rpc_timeout_list`, `myself_q` | connect, identify, poll, rpc call and return, close | simultaneous dialing, callbacks on close, late replies |
| Network | `net/s_net.c`, `net/s_packet.c` | connections, pool, write queues, read buffers, packets | accept, connect, read, write, send, close, poll | edge-triggered events, partial writes, shared packets, closes during a batch |
| Zookeeper client | `zookeeper/s_zookeeper.c` | lock vectors | lock, unlock, sync | watch and completion race |
| Thread queues | `common/s_1r1w_queue.c`, `s_lock_queue.c`, `s_spinlock_queue.c`, `lockfree/s_ms_queue.c` | linked lists | push, pop | two threads without a lock |
| Containers | `common/s_hash.c`, `s_queue.c`, `s_array.c`, `s_string.c`, `include/s_list.h` | tables, ring buffer | get, set, next, push, pop | growth moves elements others point to |
| Configuration, files, memory, drivers | `common/s_config.c`, `fs/`, `server/`, `test*/` | | | none |

Every server process is single-threaded: `s_core_poll` runs `s_servg_poll`
(own packets, rpc time-outs, network) and then the driver's update callback. A
handler therefore runs to its end; the concurrency is between processes and in
the order of packets. Components call each other only through the server group:
`s_servg_send`, `s_servg_rpc_call`, `s_servg_rpc_ret`, `s_servg_get_active_serv`.

What makes each part correct: the lock chain takes locks that share dservs in
one order everywhere and serves every lock; the global lock excludes and forgets
nobody; Paxos reports one value per topic, one member set per version, and loses
no chosen value when the members change; file creation yields one file per name;
the rpc layer calls every callback exactly once, with the answer to its call, and
reconnects; the network keeps every stream in order and every packet as long as it
is used; the queues are FIFO.

## Modules

* `DservLock` (with `MCDservLock`): the chain of dserv locks and its clients.
  `DservLock(s, m)` is `s_core_dserv_lock`; `DservUnlock`, `ScanTake` and
  `ScanEnd` together are `s_core_dserv_lock_unlock`. One step of the model is one
  pass of `label_loop`; `scanning[s]` keeps the other handlers of `s` out until
  the loop ends, so that the handler stays atomic at its dserv. `taken` and
  `before` are history: the code writes a line to `dresult.<id>` when it takes a
  lock. `Crash` kills any process, `Disconnect` is what `iwhen_conn_closed`
  leaves of it. `Restart` starts a dserv again, with the empty lists of `init_dserv`,
  and `Reconnect` is the redial by `s_servg_check_list`; a client, which issues its
  locks once, is not started again. `died` and `forgot` (the locks whose copies a
  dserv lost by its restart) are history.
* `Glock` (with `MCGlock`): the mask is the set of its bits; the loop over
  `glock_elems` is characterised by its result (`IterToUnlock`) for every order
  of the hash table. The clients are external: only commented-out code in
  `test2/s_ud_client.c` is left of them. A client that died may be started again
  and asks with the request ids it used before; `NobodyCameBack` tells the states
  in which none has. `owners` is history: the requests that have been granted and
  not been released.
* `Paxos` (with `MCPaxos`): every server is proposer, acceptor and learner, as in
  `test_paxos`. Values are sets of bits, as `iversion_from_int` reads them. The
  event loop matters here, because a server sends to itself through `myself_q`,
  which is emptied before time-outs and network are looked at: `loop` and
  `MayEnter` say which part may run. A behaviour starts from one of the
  `Starts`: how many servers are members at first (the state that adding them one
  after the other leads to), which servers join and whom they ask, who proposes
  which values, who learns how often, how many time-outs there are. Joiners are
  connected to the server they ask only, and members connect to the others as a new
  version becomes known (`links`, `Connect`); `ActiveMembers` is the loop over
  `s_servg_get_active_serv`. `chosen`, `sent` and `unheard` are history: what was
  reported, which accept requests went out, and the versions proposed after a
  prepare request had timed out. Connections are not lost, and a dial has ended
  before `s_paxos_check_leave` looks for members that are gone.
* `CreateFile` (with `MCCreateFile`): file creation at the mservs, with the
  dservs and clients they talk to. `calls[m]` is `rpc_timeout_list` of `m` and at
  the same time the `rpc_hash` of its peers; the request numbers of a process are
  taken from one counter where the code has one for each peer, which only names
  the calls differently. `Timeout` ends the oldest call, as all calls between
  servers have three seconds. `Nearby` says which mservs a client may ask and
  `MaxCreate` how often; `AssertFails` is the assert of `icreate_fmmd`, which ends
  the process. A file is its descriptor and its list of mservs;
  `MservLists` holds the slots `icreate_fmmd` does not write, with any value.
  `icheck_can_create` reads the flags through the address of the hash slot, where
  half of a pointer lies (for the last two nodes of the table, what follows the
  table; that this is 1 is left out), so an existing file always refuses.
  `icreate_fmmd` reads them correctly, but nobody has written them: both outcomes
  of its assert are modelled. `told` is history, and so is `owed`: the mservs on
  whose answers a report of success rests, less those whose call timed out.

* `ServGroup` (with `MCServGroup`): the server group of several processes. A
  process is its rank in the order of `s_do_i_conn_him`; `config` is one of the
  three kinds of groups the repository runs (all servers in `config.conf`; one,
  the others being its clients; none, mservs that join by `s_servg_connect`). A
  connection has two ends, each with its `udata` and the packets on their way to
  it. A packet that is read together with the end of file behind it hides the
  close (`missed`), as `iread_conn` does. `Break` makes a connection fail while both
  processes run: what is on its way arrives in part, then each end reads the error
  (`rst`) and closes. A callback runs before its call is unhooked, as in
  `ihandle_rpc_back` and the time-out loop; it may send, the send may close the
  connection at once (`s_net.c:261`), and `iwhen_conn_closed` then calls back the
  call whose callback is running and everything else in `rpc_hash`
  (`ClosedInside`). After a callback `Unhooked` takes out of `rpc_hash` whatever has
  the request number, which need not be the call. `iwhen_conn_closed` frees the
  calls but leaves those with a time-out in `rpc_timeout_list`: `TimeoutFreed` lets
  the next poll either call them back again or kill the process. A callback that
  sends to the server whose close it is told of uses a NULL connection; that and
  every other use of one kills the process (`Died`); who is dead may be started
  again. `died` and `broken` (pairs one of whose connections broke) are history.
  Packets are handed over one at a time.
* `Net`: the network library of one process, with packets, their reference
  counts and their free list, and the pool of `s_conn` as the doubly linked list
  it is. A packet is `Size` parts, of which the first carries the request number;
  reads and writes end anywhere between parts. `batch` holds the events that
  `epoll_wait` has returned, `drain` the connection whose packets are being handed
  over; the program may send and close in between, as its callbacks do. epoll is
  edge-triggered. `skipped` (an EPOLLOUT that came with data and is not looked
  at), `missed` (an end of file read behind data) and `shared` (an `s_conn` given
  to two open sockets) are history. The other ends and the kernel are external.
* `Fifo`: the abstract queue: an element is in it from its push to its pop, pops
  follow the order of the pushes.
* `Queue1r1w`, `LockQueue`, `MsQueue`, with `QueueParams`: the four queues
  between threads (`LockQueue` stands for the one with a mutex and the one with a
  spinlock, which differ in the lock only). A step
  is one load or store of shared memory, in the order of the program: the code is
  built with `-O0` (`Makefile:2`) for a machine that keeps the order of stores.
  Each has its refinement mapping (`IsFifo`): an element is pushed by the store that makes
  it visible to the reader. The mappings give every element its place by counting from the oldest and read
  what the links lead to there; no recursion is needed, so they can be proved about. Copying a `struct ms_pointer` takes two loads, and a
  failed `CAS` may be taken for a success, as its macro sets one byte of four. The
  element pools that `#if` and `_free_node` turn off are left out.
* `TestQueues`: the driver `test/s_main.c`, which runs one of the four queues.
* `SHash` (with `MCSHash`), against the abstract `KeyMap`: the hash table all
  servers keep calls, locks and files in, down to the chain of every main position,
  the move of a node that is in the way, the free list and the expansion. Nodes are
  numbered from 1, values move with their nodes, links of free nodes are given one
  value, since nobody reads them. Reference counts of string keys are left out.
* `DservLockProofs`, `GlockProofs`, `CreateFileProofs`, `ServGroupProofs`,
  `NetProofs`, `PaxosProofs`, `SHashProofs`, `TestQueuesProofs`: the theorems about
  the module they are named after, those about `Queue1r1w`, `LockQueue` and
  `MsQueue` in the last one.

Channels are FIFO per pair of processes in `Paxos`, `CreateFile` and `ServGroup`,
where the order matters. In `DservLock` and `Glock` the packets on their way form
a set, which allows more orders than TCP does; the safety properties hold even so.

How the modules meet: `Net` is what the channels of the others stand for, and its
`missed` is the one of `ServGroup`; `ServGroup` is what the calls and time-outs of
`Paxos` and `CreateFile` stand for. The protocols are not composed with the layers
below in one state space, which would be out of TLC's reach.

## Runs

| Run | Instance | Shows |
|---|---|---|
| `dserv_lock` | 3 dservs, 4 locks, no crash, fair | `SameOrder`, `ArrivesInPlace`, `WakeupPending`, `EveryLockEnds` |
| `dserv_lock_crash` | 3 dservs, 3 locks of one client, any one process dies, as often as it is started again; 1.8 million states | `SameOrder`, `UnlockFindsLock`, `CountsEnds` |
| `glock` | 3 clients, 2 bits, two deaths of clients that may come back, fair | `NoLeak`, `MutualExclusion`, `WaitersAreBlocked`, `OnlyOwnerFrees`, `EveryRequestGranted` |
| `paxos_rivals` | 4 servers, two situations: two of three members propose for one topic at once and one learns twice; each of two members is asked by a joiner, 1 time-out; 1.39 million states | `Agreement`, `VersionAgreement` |
| `paxos_join_timeout` | server 2 joins server 1, 2 values, 2 time-outs | `ChosenKept`, `LearnCountExact` |
| `create` | 2 mservs, 1 dserv, 2 clients anywhere with one request each, one name, every set of connections, one client may leave, fair | `MservsAgree`, `EveryCreateAnswered` |
| `create_three` | 3 mservs, no dserv, one client asks mserv 1 once and one asks mserv 3 twice, 1 time-out; 3.08 million states | `AnsweredOnce`, `CreatedOnce`, `EntryIsCalledBack`, `SuccessMeansStored` |
| `create_assert` | 2 mservs | violated: see below |
| `servgroup` | 2 processes, 2 connections at a time, 2 calls, one death with restart or one break of a connection, three kinds of configuration, fair; 235 000 states | `WaitForConnAsserts`, `OneConnection`, `CalledBackOnce`, `OwnAnswer`, `Reconnected`, `CallsEnd` |
| `net` | packets of 2 parts, room for 2, 2 sockets, 2 packets, 3 sends, 2 parts received, fair | `StreamsRight`, `RefsExact`, `NothingLost`, `PendingSent`, `CloseTold` |
| `test_queues` | 4 values through each queue, fair | `OneIsFifo`, `LocksAreFifo`, `MsIsFifo`, `MsTailNotBehindHead`, `AllTaken` |
| `shash` | 5 keys, 2 values, a table that grows from 2 to 8 nodes | `TableSound`, `MapSpec` |

Bounds. Three dservs are the smallest chain with a dserv in the middle, which is
where a shorter list can overtake a longer one; the four lists of `dserv_lock`
({1,2,3}, {1,3}, {1,2}, {2,3}) contain every pair of overlaps of such a chain.
Three clients make a waiter that waits for two others, and two deaths a client
that comes back while another one is away. With restarts (`dserv_lock_crash`) three lists that
overlap on one or two dservs of a chain are enough: one that all dservs serve, one
that leaves out the dserv in the middle, one that starts there.

The situations of `Paxos` are what can disagree. Two proposers with two values for
one topic in a group of three are the smallest with two majorities that differ;
no time-outs there, since one of an ordinary proposal only leaves an answer
uncounted. Two joiners at two members are the smallest group in which two member
sets compete for one version; the time-out may end a prepare request of
either. The third situation has one joiner, two values in a row and two time-outs,
one for each phase. One learner asks twice rather than two learners once, which is
more than six million states: learners are alike up to the packets on their way,
and the second report is made from later tables.

Two mservs are enough for two creations of one name to meet; three are needed for
an answer that outlives the round it belongs to, since with two the refusal is
the only answer, and a client that asks again after a refusal, so that the answers of
the refused round meet a new creation of the name. Where the clients are does not
matter beyond which mserv is the smaller one, so one asks the first and one the
last. Connections between servers are any symmetric relation, chosen
at the start, and stay: what happens when they are lost is in `ServGroup`.

Two processes are enough for every exchange of `ServGroup`, whose entries are per
pair; a second connection is needed for a dial that crosses another or follows a
close not yet read by both, a second call for an answer that finds the wrong one or a
time-out that drops the wrong one. `MaxFault` bounds deaths and breaks together:
one of either is followed by every reconnection; in groups that join by
`s_servg_connect` the joins count too (`Within`).
Room for as many parts as a packet has makes a write end in the middle of a packet
and leaves packets queued behind it; two sockets share a packet and use an `s_conn`
again. A third socket is needed for `shared`: the same module with `MaxSock = 3`,
`MaxMsg = 1`, `MaxSend = 2` passes too (761 000 states) and reaches it. Four values
are enough for the reader to catch up with the writer and fall behind it again.
The five keys of `shash` are two pairs, each with one main position in every table,
which lie in one chain before the first expansion and are parted by it, and a key
whose main position the chains of the others use.

Deadlock is not checked where the system may stop: the servers rest when the
clients have no more requests. In `test_queues`, where `Ended` is the join of both
threads, and in `shash` it is checked.

Fairness. `DservLock`, `Glock` and `CreateFile` assume that packets are delivered
and handled (TCP and an event loop that serves every readable connection) and that
a handler ends; `Glock` also that a client which holds a lock ends its writes.
`ServGroup` assumes that every process polls (so that it dials, handles events and
finds time-outs), that a handler which kept a request answers it some time and that
who died is started again. `Net` assumes that the process goes on polling and that
the other ends read. Nobody is obliged to ask, call, send or close. All of it is
weak fairness: each of these actions stays enabled until it is taken. The
exception is the writer of a queue with a lock, which needs strong fairness: the
reader polls, taking the lock again and again, but waits outside it
(`wait_a_while`), so the lock is not withheld from the writer for ever. The
liveness properties of the locks and of creation are stated only for runs in which
nobody dies, since nothing in the code recovers a lock of a dead process; those of
`ServGroup` include deaths and breaks.

### What the runs found

* `response_version`: the header says "never accept/response to smaller version
  than this" (`s_core_paxos.h:73`). Only `iaccept` looks at it;
  `ireceive_request` answers prepare requests of the smaller version all the
  same. Accepts are refused, so no chosen value is lost by it.
* `assert(mmd->flags == S_FILE_MMD_FLAG_DELETED)` (`s_core_create_mserv.c:89`,
  violation run `create_assert`): 2 asks 1 before 1 has begun, 1 begins and is
  granted by 2 because its id is smaller, and 2's file reaches 1 first. If the
  flags, which nobody sets, happen to say deleted, 1 creates a second version
  instead. With two mservs the tables agree in the end even then
  (`MservsAgree`), because 2's file and 2's grant travel on one connection. With
  three they need not: the second versions reach the others on other connections, in
  other orders. TLC refutes `MservsAgree` for three connected mservs even without
  time-outs, so it is a claim about two.
* `irpc_send_md_back` counts a time-out like an answer (`s_core_create_mserv.c:354`),
  and one counter serves both rounds: with three mservs an answer left over from a
  refused round is counted while the file is handed out, and a file can be handed
  out twice. Success is reported too early in each case. `SuccessMeansStored`
  excepts the mservs whose call timed out and the names to which one of the other two
  happened (`owed`); the run reaches all of these, and without the exceptions TLC
  refutes it.
* "set timeout -> failed" (`s_core_create.h:9`): a question that times out is
  counted as permission.
* The file id (`s_core_create_mserv.c:95`): `&&` for `&` makes the server's part
  of the id 1 everywhere, so two files may have one descriptor although reads and
  writes name files by it (`s_core.h:330`). `NewFileId` computes ids this way.
* An mserv that is connected to nobody never answers a creation ("none serv!").
* The pairwise order of `DservLock` is all there is: three locks over {1,3},
  {1,2} and {2,3} can be taken in a circle. Also, a new request that conflicts
  with nothing in `lock_sent` passes the waiting ones; only liveness under
  finitely many locks is claimed.
* A copy never leaves `lock_sent`: `finish` of the whole lock would need the
  dserv's own element marked, which the code (now in a comment) does not do.
* A dserv that is gone drops the request silently; its client is never told.
* A dserv that is started again has forgotten the copies of the locks it took. A
  LOCK_UNLOCK then finds none (the warning of `s_core_dserv.c:382`), and a later lock
  that should have waited for one of them passes it, so that two locks are taken
  in different orders. `UnlockFindsLock` and `SameOrder` except the locks in `forgot` of
  such a dserv and no others; without the exceptions `dserv_lock_crash` refutes them.
* In `Glock`, once a client may die and come back, `MutualExclusion` is false:
  the mserv keeps the element of the former run with its `req_id`, request ids
  start again at 1, and the late grant answers the new call, which may ask for
  another mask. `MutualExclusion` is stated for the states in which nobody has
  come back (`NobodyCameBack`), and proved for them; without that condition the run
  `glock` refutes it. The same grant lets the client release an element that
  still waits, which clears the bits of whoever holds them: `OnlyOwnerFrees` is
  refuted in the same way.
* In `Paxos`, a proposal sends accept requests to all when a majority has answered,
  and again with every later answer; if that one names a value, it sends this
  one (`s_core_paxos.c:823`). With two proposers two values can be learnt so;
  `Agreement` excepts topics for which a proposal has sent two values (`TwoValues`), and
  TLC refutes it without. Also, learners count a value over all proposals that
  carried it. With four proposals for one topic TLC refutes `Agreement` because of
  this all the same; the run has two, one of each rival.
* When a prepare request of a membership proposal times out, it counts like an
  answer, although a member may have answered a rival. Two member sets for one
  version come of it; `VersionAgreement` excepts versions proposed after such a
  time-out (`unheard`), and TLC refutes it without.
* In `Paxos`, when `ADD_ACCEPT` times out, `i_add_new_serv_ok` goes on as if it
  had been answered: the new version is adopted before the joiner has the
  snapshot. `ChosenKept` excepts exactly the time in which such a snapshot is on
  its way (`SnapshotLate`); without the exception TLC refutes it.
* `iwhen_conn_closed` frees a call that has a time-out without taking it out of
  `rpc_timeout_list` (`s_servg_do_event.c:36`): it is called back a second time,
  from freed memory. `ihandle_rpc_back` calls back before it unhooks
  (`s_servg_do_event.c:273`): if the callback sends and the send fails, the close
  calls the same call back again, with or without a time-out. `CalledBackOnce`
  excepts the calls whose connection was closed while they were in `rpc_hash` and no
  others, and TLC refutes it without.
* A time-out of a freed call deletes its request number from the `rpc_hash` of the
  moment (`s_server_group.c:251`); after a reconnection that is a new call
  with the same number. If that one has no time-out, nothing ends it any more: it is
  the exception `dropped` of `CallsEnd`, without which TLC refutes it.
* A callback that is told of a close and sends to the server that was closed
  writes to a NULL connection; the process dies of it.
* A server that is not in `config.conf` is created anew by every identify, alive
  or not (`s_server_group.c:512`). Two mservs that call `s_servg_connect` for each
  other at once end with entries that are established without a connection, and
  the next call dies on it. `OneConnection`, `OwnAnswer`, `Reconnected` and
  `CallsEnd` are stated for servers of the configuration.
* `s_servg_connect` tests `serv` where it means `serv->conn`
  (`s_server_group.c:480`): a connect that fails kills the caller.
* Request numbers start at 1 with every connection, so an answer that a server
  kept over the death of its caller, or over a break of their connection, reaches
  another call (the exceptions of `OwnAnswer`; TLC refutes it without either).
* An event with EPOLLIN and EPOLLOUT is handled as input only (`s_net.c:224`).
  With edge-triggered epoll no other event comes, and the write queue waits for
  the next send (the exception of `PendingSent`).
* An end of file read behind data is not reported (`s_net.c:492`), and no other
  edge comes: the close goes unnoticed until a write fails (the exception of
  `CloseTold`, `Reconnected` and `CallsEnd`).
* `irm_conn` and `iput_conn` both link the `s_conn` into the pool (`s_net.c:445`).
  After a close it is twice in the list, and a later `iget_conn` can hand it out
  while it is in use. The properties of `Net` are stated up to that.
* An event that is in the batch when its connection is closed is still handled
  (`s_net.c:206`): the callback is told of the close twice, and packets already
  read are handed over after the program's own close (`s_net.c:215`).
* When `s_hash` grows, the string keys of the old nodes are grabbed again by
  `s_hash_set` and not dropped: each expansion leaks one reference of every key.
* The packet at the head of `myself_q` is handled through a pointer into the
  queue (`s_server_group.c:229`), which a send to oneself from the handler may
  move. Memory of this kind is not modelled.

## Proofs

TLC has also checked every inductive invariant on an instance of its module (for
`Ranked` with ranks up to 3). Apart from the named assumptions of the modules, which TLC evaluates in
the runs, nothing is assumed.

`GlockProofs` proves, for any clients, requests, bits and bounds:

* `TypeCorrect`: `Spec => []TypeOK`.
* `MutexCorrect`: `Spec => []MutualExclusion`. The invariant alone is not
  inductive, because what excludes is the mask at the mserv, and what the client
  believes runs ahead of or behind it. `GrantInv` says where the right to a lock is
  at each moment: a granted element's bits are in `glock` (`GrantBacked`) and
  disjoint from those of the other granted ones (`GrantDisjoint`); a client that
  holds, and a reply or a release on its way, belong to a granted element with the
  mask the client wants (`HeldOK`, `RetOK`, `UnlockOK`); a request is at one place
  only (`LockOK`, `WaitOK`, `IdleOK`, `DeadOK`, `ShapeOK`). A restart breaks it.
  That the condition `NobodyCameBack` never comes true again after one follows from
  `Deaths`: the clients that are away are at most as many as have died.
* `NoLeakCorrect`: `Spec => []NoLeak`. `LeakInv` says, for the time before the
  first death, that the mask is exactly the union of the bits of its owners, that
  these are disjoint (`Exact`), that everybody is connected (`AllUp`), and
  `GrantInv`: a release clears the bits of its owner only because no other owner
  has one of them.
* `WaitersCorrect`: `Spec => []WaitersAreBlocked`, restarts included.
* `OnlyOwnerFreesCorrect`: `Spec => OnlyOwnerFrees`, an action property: a bit is
  cleared only by the release of the one request that owns it. `OwnInv` adds to
  `GrantInv` the history `owners`: every grant at a client, or on its way, belongs to an
  owner (`GrantOwned`), the bits of an owner are taken (`OwnersBacked`) and no two
  owners share one (`OwnersDisjoint`). That the element which a release names is
  granted is not local: it is `UnlockOK`, which a restart breaks.

`DservLockProofs` proves, for any dservs, clients, locks, ascending lists,
crashes and restarts (`ChainAssumption` is all it takes from the constants):

* `TypeCorrect`, `ArrivesCorrect`, `UnlockCorrect`: `Spec => []TypeOK`,
  `[]ArrivesInPlace`, `[]UnlockFindsLock`, from the invariant `Struct`. A request
  exists as one *token*, its packet or its place in a `lock_waiting`; the dservs
  before the token have taken the lock and kept a copy, or forgotten it by a restart,
  those from the token on have not taken it (`Place`, `SentTaken`). The rest of `Struct` ties the positions in packets
  and copies, the `finish` marks and the LOCK_UNLOCK packets to that.
* `SameOrderCorrect`: `Spec => []SameOrder`. `SameOrder` is not inductive: it
  speaks of the past, while the danger is in the requests under way. `Order` adds
  `TokenBehind`: if some dserv took `a` before `b`, then the first dserv that the
  token of `b` will reach and `a` visits too has already taken `a`, or `a` goes
  nowhere any more (its packet died with a process), or a dserv of both has
  forgotten one of them (`Lost`); and `TakenBehind`, the same
  for dservs that have taken `b` already. The heart is `TakeMeets`: that
  `ilock_conflict_all` finds no conflict at `s` means exactly that every earlier
  lock of `s` is past the next dserv in common, although the walk looks at the
  first common dserv only. `DservLockTakes` and `ScanTakes` show that the two
  callers of `ilock_take_done` meet its hypotheses.
* `CountsEndsCorrect`: `Spec => []CountsEnds`, whoever dies. `Ends` says that a
  LOCK_END on its way belongs to a lock that all dservs of its list have taken and
  the client has not counted, that there is one of it, and that the client's
  counter is the number of its locks that have ended. It rests on `Place`: a lock
  whose last dserv has taken it has no token, so no second LOCK_END can come.
* `WakeupPendingCorrect`: `Spec => []WakeupPending`, the absence of lost wakeups.
  `Wake` says that what waits at a dserv while no rescan is under way conflicts with
  a copy kept there (`HeldBack`, which holds whoever dies), and, while nobody has
  died (`died = {}`), that every request is somewhere or has been taken everywhere (`Moving`) and
  that a dserv either has the mark of a later one that took the lock or a
  LOCK_UNLOCK with it is on its way (`Marked`). A conflict is a mark that is missing,
  so the request that will send it is still travelling, or the notice is.

`CreateFileProofs` proves, for any mservs, dservs, clients, names, connections and
time-outs, and whichever clients leave:

* `AnsweredOnceCorrect`: `Spec => []AnsweredOnce`. A request of a client is in one
  of three places, its packet, an entry of `file_creating` or the answers given
  (`PacketReqs`, `EntryReqs`, `ToldReqs`), and every handler moves it on.
* `CreatedOnceCorrect`: `Spec => []CreatedOnce`. Once a file has been reported as
  created it is stored and has no entry (`ToldStored`), and every call that sends
  its metadata was made by an mserv that stores it (`AllKnow`), so a late answer
  cannot create it again and the check refuses who asks for it.
* `EntryIsCalledBackCorrect`: `Spec => []EntryIsCalledBack`, which is inductive
  together with the types. The proofs of the three are one induction (`Inv`); the
  handlers share lemmas about what they do to entries, calls and packets
  (`Finishes`, `Refuses`, `Enters`, `Handled`), and the lemmas on sequences say what
  the operators of the community modules do to a queue of packets.

`ServGroupProofs` proves, for any processes, connections, calls, crashes and breaks and
each of the three kinds of configuration, from the invariant `Inv`:

* `WaitForConnAssertsCorrect`: `Spec => []WaitForConnAsserts`, from `WaitOK`; a
  refusal is sent only when all are in the configuration, and only then does
  its receiver wait to dial again (last conjunct of `ConnOK`).
* `OneConnectionCorrect`: `Spec => []OneConnection`. `NetOK` says that, when all
  processes are in the configuration, an entry and the connection it names point at
  each other, in both directions; that the end of the dialer has its `udata` from
  the start and the other one before the answer 1 is sent; and that the dialer
  believes in the connection only if the other end does or is closed. Because
  closes reach the two ends at different times, the property has to be carried by
  these facts about each end alone.
* `CalledBackOnceCorrect`: `Spec => []CalledBackOnce`. `CallsOK`: a call in an
  `rpc_hash` is of that pair and has not been freed; one that has not been freed has
  not been called back; one that is freed and still in `rpc_timeout_list` was freed
  by a close and called back at most once. A close (`Torn`) calls back everything in
  the `rpc_hash` of its pair; when it runs inside a callback (`ClosedInside`), the call of
  that callback is among them, and after it the call is in no list, so there is no
  third time (`InvTorn`, `InvClosedInside`, `InvUnhooked`).
* `OwnAnswerCorrect`: `Spec => []OwnAnswer`, from `Inv /\ Own`. `Own` speaks of each
  pair of a caller that has never died and a server of the configuration, no connection
  of which has broken (`Good`, `PairOK`):
  a call on its way, a request the server has kept and an answer on its way back
  are tokens of the caller's entry, that is, their number is used up and no other
  call in `rpc_hash` has it (`Token`). The counter starts again at 1 with the answer to
  the next identify, so there must be no token left by then. `Line` says why, for each
  connection of the pair: the caller's end is closed last, it is never refused,
  nothing but the identify is on a connection that the server has not taken up
  (`Wire`), and the answer 1 is the first packet the dialer gets. Without a break an end is
  closed only because the other one is, or because the dialer is refused
  (`CloseReason`). A request that is
  kept names the connection both entries have (`Kept`); when that one is closed by the
  server's death the request is gone with it, and the caller does not close first.
  A refusal of the caller by the server is impossible (`NotRefused`), because the
  connection that would be the reason is open at both ends and has to be the one
  of its entry. Lemmas `PairPop`, `PairSend`, `PairClose`, `PairDies`, `PairDial`,
  `PairAccept`, `PairEstablish` and `PairNumber` give what each kind of step does to
  a pair; the lemmas about the actions only have to show which of them apply. A break
  adds its pair to `broken`, so nothing has to be shown of it and everything of the
  other pairs stays (`OwnBreak`). A close ends calls without an answer, so it spoils
  none (`Settled`).

`NetProofs` proves, for every size of packets, room of a socket and number of
sockets, packets and sends, `StreamsRightCorrect`, `RefsExactCorrect` and
`NothingLostCorrect`: `Spec => []StreamsRight`, `[]RefsExact`, `[]NothingLost`. The
invariant is `Inv == ~shared => Good`, since nothing holds of an `s_conn` once it
serves two sockets. `Good` ties every open socket to its `s_conn` and back; says that
the queue of an `s_conn` holds the last packets sent on its socket, in order; that
what the other end has heard, followed by what is in the kernel, ends at `write_pos` of
the head of that queue; that the reference count of a packet is the number of queues
and hands it is in; and that `read_pos` and the packet being filled continue what
has been handed over. The three properties are views of it that are not inductive
alone: which parts come next depends on the head of the queue, whether a packet
may be freed on every other queue, and whether a packet is left out on both.

`PaxosProofs` proves, for every number of servers, every finite set of topics and
every set of situations, rival proposers and joiners included, from the invariant
`Inv`:

* `LearnCountExactCorrect`: `Spec => []LearnCountExact`: `learn_count` is the number
  of learn calls without an answer, whichever of them time out. It needs that these
  are finitely many and that a server which waits has a version, and that the
  proposal of any other call has not been freed (`CallsBacked`), since the handlers
  of answers look for it. A server that waits may adopt versions and learn from dumps
  in between; so `Inv` also says that version n has n members wherever it stands
  (`Groups`): in the state of a server (`States`), its accept and learn tables, the
  proposals (`Props`) and every packet on its way (`Pkts`). Which members these are is
  what `VersionAgreement` is about, and that is left to TLC.

The handlers walk over the entries of packets and tables (`ForEach`). What a loop
leaves is proved by induction over its steps (`Steps`, `Stays`), which `Least` and
`Induct` derive from `WFMin`, that a set of numbers has a least element: the
invariant of a loop is a set of states, so no operator has to be instantiated.

`SHashProofs` proves, for all keys, values and hash functions and every size of
the table:

* `SoundCorrect` and `TableSoundCorrect`: `Spec => []Sound(table)`,
  `Spec => []TableSound`. `TableSound` speaks of whole walks and is not inductive in a
  form the provers can use. `Sound` speaks of neighbours: the nodes without a key are
  the free ones, each once (`FreeOK`); no key is there twice (`KeysOnce`); the main
  position of a key that is stored holds a key of the same chain (`HomesOK`);
  every other node is behind one (`Followed`); links stay in the chain and never meet
  (`LinksOK`); and some rank grows along the links (`Ranked`), so there is no
  cycle. `Reached` derives that the walk of `s_hash_get` comes to every key: the key
  of least rank that it misses is behind one that it reaches, and a walk without a
  repetition is not longer than the array. The forms of an insertion (`SoundAtMainPos`,
  `SoundChained`, `SoundMoved`, where the node in the way moves and its links with it)
  and of a removal (`SoundCut`, `SoundFirst`, `SoundLast`) keep `Sound`, each with the
  rank it takes. `ExpandedSound` is an induction over the nodes that the expansion
  copies; it also shows that the larger array never runs out of free nodes.
* `MapSpecCorrect`: `Spec => MapSpec`, the table implements `KeyMap`. `Entries`, the
  keys with their values, is the function that `KeyMap` has (`StoredIs`); expansion
  leaves it alone, a set and a removal change it at one key.

`TestQueuesProofs` proves of each queue, for every number `LOOP` of values and for one
writer and one reader, an invariant (`OneInvariance`, `LockInvariance`,
`MsInvariance`: `Spec => []IInv`) and that it implements `Fifo` (`OneRefinement`,
`LockRefinement`, `MsRefinement`: `Spec => IsFifo`). The invariant is needed because
the mappings count elements: which have been pushed depends on where the writer
stands between its stores, and which have been taken on where the reader stands
between its loads.

* One writer, one reader without a lock: elements are linked in the order of their
  numbers up to the newest one the reader can see (`OneWriterInv`); `tail`, unless it
  is NULL, is the element after `last`, and the reader has taken exactly the elements
  before it (`OneReaderInv`).
* With a lock: only its holder is in the middle of an operation (`LockOwnerInv`), and
  `LockNextInv` and `LockPrevInv` give every link of the doubly linked list, saying
  which of them is out of date at each step of a push and of a pop.
* Lock-free: with one writer `q->tail` is the last linked node except between the
  link and the swing of the tail; the tags count the moves, so a comparison in two
  words cannot take an old pointer for a new one; the reader's copy of the tail may
  be old and torn, but lies between head and tail (`MsReaderInv`). `MsTailFollows` is
  the theorem that `q->tail` does not fall behind `q->head`.

The program `test/s_main.c` runs one queue and leaves the others alone, so these carry
over to it: `OneCorrectness`, `LocksCorrectness`, `MsCorrectness` and
`MsTailCorrectness` are what the run `test_queues` checks for four values.

Only model-checked:

* every liveness property, which needs fairness and ENABLED;
* `MservsAgree` of `CreateFile`, which is true of two mservs without time-outs only,
  and `SuccessMeansStored`, whose exceptions depend on which answers were counted in
  which round: see what the runs found;
* `Agreement`, `VersionAgreement` and `ChosenKept` of `Paxos`: that two majorities
  cannot learn different values, or adopt different members, is an argument over
  quorums and ballots whose invariant has to describe every answer on its way and
  every exception; it has not been tried.

## Not modelled, and the plan

Not modelled:

* The removal of a member by Paxos (`s_paxos_check_leave`, `i_receive_response_rm`,
  `ireceive_refresh_accept`, backups). It starts from lost connections, so it
  needs the states of `ServGroup` under those of `Paxos`; that a member which is
  only being reconnected may be removed (`s_core_paxos.c:267`) is not checked, and
  neither are connections that are lost during a round.
* In `DservLock`, a connection that breaks while both its processes run: there
  connections are lost by deaths only. In `ServGroup`, a break that one side never
  notices, and several packets that were read together with one whose handler
  closes their connection: that they are still handed over is in `Net`.
* Ping, pong and `min_delay` of the server group: nobody sends a ping.
* `zookeeper/`, `test_zookeeper/`: a wrapper over a vendored client library, used
  by its own driver only. No server of the file system links it.
* `s_core_dserv_push_data` and `s_core_dserv_write`: a hash table and a file,
  sequential.
* `s_array`, `s_string`, `s_config`, `fs/`, `misc/`: sequential code or thin wrappers.
* Formatting, logging, the typed fields of packets, memory exhaustion and the
  growth of buffers; pointers that a growing container invalidates
  (`s_server_group.c:229`, `s_server_group.c:586`).

Done so far: `DservLock`, `Glock`, `Paxos` without removal, `CreateFile`,
`ServGroup`, `Net`, the queues, `SHash`; the proofs above. The plan, in its order:

1. `Paxos`: removal of a member, with connections made and lost.
2. An abstract rpc specification (each call ends once) that `ServGroup` implements
   up to the exceptions above.
3. `ilock_is_conflict` as the walk of the source against its definition by the
   first common dserv.
