----------------------------- MODULE DservLock -----------------------------
(***************************************************************************)
(* The lock chain of the data servers (core/s_core_dserv.c) and the client *)
(* that drives it (test3/s_ud_client.c).                                   *)
(*                                                                         *)
(* A client asks for a lock on several dservs at once.  The request visits *)
(* the dservs of its access list in ascending order.  A dserv that takes   *)
(* the lock tells every earlier dserv of the list (LOCK_UNLOCK), forwards  *)
(* the request to the next one (LOCK_NEXT) and keeps a copy in lock_sent;  *)
(* the last dserv answers the client (LOCK_END).  A request that would     *)
(* race a copy in lock_sent to a dserv they both still have to visit waits *)
(* in lock_waiting until that dserv has taken the earlier one.             *)
(*                                                                         *)
(* Every process is one event loop, so a handler runs to its end.  The     *)
(* rescan of lock_waiting in the unlock handler is one step per lock it    *)
(* takes; `scanning' keeps the other handlers of that dserv out meanwhile. *)
(*                                                                         *)
(* Any process may die.  A dserv may be started again: it begins with      *)
(* empty lists and is connected anew, since dservs are in config.conf.  A  *)
(* client that died stays away: its driver asks for its locks once.        *)
(***************************************************************************)
EXTENDS Integers, FiniteSets, Sequences, SequencesExt

CONSTANTS
  Servers,     \* ids of the dservs, ordered as the code orders them
  Clients,     \* the clients
  Locks,       \* lock ids: (client id, gid) of each access_data call
  Owner,       \* Owner[l]: the client that asks for l
  Chain,       \* Chain[l]: the dservs l must visit (one line of access_id.conf)
  MaxCrash     \* bound on the processes that die, each as often as it likes

Nodes == Servers \cup Clients

\* The access lists are written by gen_random_id.c: qsort'ed, no repetition.
ASSUME ChainAssumption ==
  /\ Servers \subseteq Nat
  /\ Servers \cap Clients = {}
  /\ Owner \in [Locks -> Clients]
  /\ Chain \in [Locks -> Seq(Servers)]
  /\ \A l \in Locks : Len(Chain[l]) > 0
  /\ \A l \in Locks : \A i, j \in 1..Len(Chain[l]) :
        i < j => Chain[l][i] < Chain[l][j]
  /\ MaxCrash \in Nat

VARIABLES
  lock_waiting,  \* lock_waiting[s]: dserv->lock_waiting, oldest first
  lock_sent,     \* lock_sent[s]: the copies in dserv->lock_sent (and ->locks)
  next_pos,      \* next_pos[s][l]: lock->next_pos of the copy of l at s
  finish,        \* finish[s][l]: the dservs whose elem.finish is set in it
  scanning,      \* s is inside the rescan loop of the unlock handler
  msgs,          \* packets on their way
  issued,        \* locks for which access_data has run
  result,        \* locks whose entry of g_result was written
  C,             \* C[c]: the static counter of lock_callback
  active,        \* active[p]: the peers s_servg_get_active_serv finds at p
  alive,         \* the processes that run
  taken,         \* history: the locks s has taken (a line of dresult.<s> each)
  before,        \* history: before[s]: <<a, b>> when s took a, later b
  died,          \* history: the processes that have died
  forgot         \* history: forgot[s]: the locks s had taken when it was restarted

dservVars == <<lock_waiting, lock_sent, next_pos, finish, scanning>>
clientVars == <<issued, result, C>>
netVars == <<active, alive, died, forgot>>
histVars == <<taken, before>>
vars == <<dservVars, msgs, clientVars, netVars, histVars>>

Message == [type: {"LOCK_START", "LOCK_NEXT", "LOCK_UNLOCK", "LOCK_END"},
            id: Locks, curr: Nat, from: Nodes, to: Nodes]

\* LOCK_START and LOCK_NEXT are served by the same handler.
LockTypes == {"LOCK_START", "LOCK_NEXT"}

Packet(type, l, curr, p, q) ==
  [type |-> type, id |-> l, curr |-> curr, from |-> p, to |-> q]

\* What the network delivers of the packets M: those to a dead process vanish,
\* and those sent on the connection to the former run of a restarted one.
Sent(M) == {m \in M : m.to \in alive /\ m.from \in active[m.to]}

Waiting(s) == ToSet(lock_waiting[s])

-----------------------------------------------------------------------------
Init ==
  /\ lock_waiting = [s \in Servers |-> <<>>]
  /\ lock_sent = [s \in Servers |-> {}]
  /\ next_pos = [s \in Servers |-> [l \in Locks |-> 0]]
  /\ finish = [s \in Servers |-> [l \in Locks |-> {}]]
  /\ scanning = [s \in Servers |-> FALSE]
  /\ msgs = {}
  /\ issued = {}
  /\ result = {}
  /\ C = [c \in Clients |-> 0]
  /\ active = [p \in Nodes |-> Nodes]
  /\ alive = Nodes
  /\ taken = [s \in Servers |-> {}]
  /\ before = [s \in Servers |-> {}]
  /\ died = {}
  /\ forgot = [s \in Servers |-> {}]

\* The client's access_data: ask the first dserv of the list, if connected.
AccessData(l) ==
  LET c == Owner[l]
      d == Chain[l][1]
  IN /\ c \in alive
     /\ l \notin issued
     /\ issued' = issued \cup {l}
     /\ msgs' = IF d \in active[c]
                THEN msgs \cup Sent({Packet("LOCK_START", l, 0, c, d)})
                ELSE msgs
     /\ UNCHANGED <<dservVars, result, C, netVars, histVars>>

\* The dservs that a copy of l with this next_pos has still to visit.
Rest(l, pos) == {Chain[l][i] : i \in (pos + 1)..Len(Chain[l])}

\* Mutant of IsConflict: only the next hops of the two copies are compared.
IsConflictNextHopOnly(a, posA, finA, b, posB, finB) ==
  /\ posA < Len(Chain[a]) /\ posB < Len(Chain[b])
  /\ Chain[a][posA + 1] = Chain[b][posB + 1]
  /\ Chain[a][posA + 1] \notin finA \cup finB

\* ilock_is_conflict: the walk over the two ascending lists stops at the first
\* dserv both copies still have to visit and asks whether one has been there.
IsConflict(a, posA, finA, b, posB, finB) ==
  LET common == Rest(a, posA) \cap Rest(b, posB)
  IN \E t \in common : /\ \A u \in common : t <= u
                       /\ t \notin finA \cup finB

\* ilock_conflict_all for a lock whose copy has this next_pos and these marks.
ConflictAll(s, l, pos, fin) ==
  \E a \in lock_sent[s] :
    IsConflict(a, next_pos[s][a], finish[s][a], l, pos, fin)

\* Mutant of UnlockPackets: the loop stops one dserv too early.
UnlockPacketsOffByOne(s, l, pos) ==
  {Packet("LOCK_UNLOCK", l, 0, s, Chain[l][i]) :
     i \in {j \in 1..(pos - 2) : Chain[l][j] \in active[s]}}

\* ilock_unlock: the dservs before s in the list that are still connected.
UnlockPackets(s, l, pos) ==
  {Packet("LOCK_UNLOCK", l, 0, s, Chain[l][i]) :
     i \in {j \in 1..(pos - 1) : Chain[l][j] \in active[s]}}

\* ilock_next: where the request goes from here ...
NextHop(l, pos) == IF pos >= Len(Chain[l]) THEN Owner[l] ELSE Chain[l][pos + 1]

\* Mutant of NextPackets: the request is forwarded with the wrong position.
NextPacketsOffByOne(s, l, pos) ==
  IF NextHop(l, pos) \notin active[s] THEN {}
  ELSE IF pos >= Len(Chain[l])
       THEN {Packet("LOCK_END", l, 0, s, NextHop(l, pos))}
       ELSE {Packet("LOCK_NEXT", l, pos + 1, s, NextHop(l, pos))}

\* Mutant of NextPackets: LOCK_END is sent by the last dserv but one.
NextPacketsEndEarly(s, l, pos) ==
  IF pos + 1 >= Len(Chain[l])
  THEN {Packet("LOCK_END", l, 0, s, Owner[l])}
  ELSE {Packet("LOCK_NEXT", l, pos, s, NextHop(l, pos))}

\* ... the packet that goes there, if the peer is connected ...
NextPackets(s, l, pos) ==
  IF NextHop(l, pos) \notin active[s] THEN {}
  ELSE IF pos >= Len(Chain[l])
       THEN {Packet("LOCK_END", l, 0, s, NextHop(l, pos))}
       ELSE {Packet("LOCK_NEXT", l, pos, s, NextHop(l, pos))}

\* Mutant of NextRet: the copy is not kept by the last dserv but one.
NextRetOffByOne(s, l, pos) ==
  pos + 1 < Len(Chain[l]) /\ NextHop(l, pos) \in active[s]

\* ... and its return value: has the request been forwarded to a dserv?
NextRet(s, l, pos) == pos < Len(Chain[l]) /\ NextHop(l, pos) \in active[s]

\* ilock_take_done on the copy of l; `rest' are the packets left in transit.
TakeDone(s, l, pos, rest) ==
  /\ msgs' = rest \cup Sent(UnlockPackets(s, l, pos) \cup NextPackets(s, l, pos))
  /\ lock_sent' = [lock_sent EXCEPT ![s] = IF NextRet(s, l, pos)
                                           THEN @ \cup {l} ELSE @ \ {l}]
  /\ taken' = [taken EXCEPT ![s] = @ \cup {l}]
  /\ before' = [before EXCEPT ![s] = @ \cup (taken[s] \X {l})]

\* s_core_dserv_lock, for LOCK_START from a client and LOCK_NEXT from a dserv.
DservLock(s, m) ==
  LET pos == m.curr + 1
  IN /\ m \in msgs /\ m.to = s /\ m.type \in LockTypes
     /\ s \in alive /\ ~scanning[s]
     /\ next_pos' = [next_pos EXCEPT ![s][m.id] = pos]
     /\ finish' = [finish EXCEPT ![s][m.id] = {}]
     /\ \/ /\ ConflictAll(s, m.id, pos, {})
           /\ lock_waiting' = [lock_waiting EXCEPT ![s] = Append(@, m.id)]
           /\ msgs' = msgs \ {m}
           /\ UNCHANGED <<lock_sent, histVars>>
        \/ /\ ~ConflictAll(s, m.id, pos, {})
           /\ TakeDone(s, m.id, pos, msgs \ {m})
           /\ UNCHANGED lock_waiting
     /\ UNCHANGED <<scanning, clientVars, netVars>>

\* s_core_dserv_lock_unlock up to label_loop.  `finish' of the whole copy never
\* becomes true: the elements of s itself and of the dservs before it are never
\* marked, so the copy stays in lock_sent.
DservUnlock(s, m) ==
  /\ m \in msgs /\ m.to = s /\ m.type = "LOCK_UNLOCK"
  /\ s \in alive /\ ~scanning[s]
  /\ msgs' = msgs \ {m}
  /\ IF m.id \in lock_sent[s]
     THEN LET fin == finish[s][m.id] \cup ({m.from} \cap ToSet(Chain[m.id]))
              all == ToSet(Chain[m.id]) \subseteq fin
          IN /\ finish' = [finish EXCEPT ![s][m.id] = fin]
             /\ lock_sent' = [lock_sent EXCEPT ![s] = IF all THEN @ \ {m.id} ELSE @]
             /\ scanning' = [scanning EXCEPT ![s] = TRUE]
     ELSE UNCHANGED <<finish, lock_sent, scanning>>
  /\ UNCHANGED <<lock_waiting, next_pos, clientVars, netVars, histVars>>

\* The waiting locks of s that nothing in lock_sent holds back any more.
Free(s) == {i \in DOMAIN lock_waiting[s] :
              LET l == lock_waiting[s][i]
              IN ~ConflictAll(s, l, next_pos[s][l], finish[s][l])}

\* label_loop: take the first free lock and start over.
ScanTake(s) ==
  /\ s \in alive /\ scanning[s]
  /\ \E i \in Free(s) :
       /\ \A j \in Free(s) : i <= j
       /\ lock_waiting' = [lock_waiting EXCEPT ![s] = RemoveAt(@, i)]
       /\ TakeDone(s, lock_waiting[s][i], next_pos[s][lock_waiting[s][i]], msgs)
  /\ UNCHANGED <<next_pos, finish, scanning, clientVars, netVars>>

\* Mutant of ScanEnd: the loop does not start over after it has taken a lock.
ScanEndEarly(s) ==
  /\ s \in alive /\ scanning[s]
  /\ scanning' = [scanning EXCEPT ![s] = FALSE]
  /\ UNCHANGED <<lock_waiting, lock_sent, next_pos, finish, msgs, clientVars,
                 netVars, histVars>>

\* The loop has reached the end of lock_waiting; the handler returns.
ScanEnd(s) ==
  /\ s \in alive /\ scanning[s] /\ Free(s) = {}
  /\ scanning' = [scanning EXCEPT ![s] = FALSE]
  /\ UNCHANGED <<lock_waiting, lock_sent, next_pos, finish, msgs, clientVars,
                 netVars, histVars>>

\* The client's lock_callback on LOCK_END; cl->locks keeps the entry.
LockCallback(c, m) ==
  /\ m \in msgs /\ m.to = c /\ m.type = "LOCK_END"
  /\ c \in alive
  /\ msgs' = msgs \ {m}
  /\ IF m.id \in issued /\ Owner[m.id] = c
     THEN /\ result' = result \cup {m.id}
          /\ C' = [C EXCEPT ![c] = @ + 1]
     ELSE UNCHANGED <<result, C>>
  /\ UNCHANGED <<dservVars, issued, netVars, histVars>>

\* A process dies: what was on its way to it, and any part of what it had
\* handed to its sockets, is lost.
Crash(p) ==
  /\ p \in alive
  /\ Cardinality(died \cup {p}) <= MaxCrash
  /\ alive' = alive \ {p}
  /\ died' = died \cup {p}
  /\ \E lost \in SUBSET {m \in msgs : m.from = p} :
       msgs' = {m \in msgs : m.to # p} \ lost
  /\ UNCHANGED <<dservVars, clientVars, active, forgot, histVars>>

\* The connection of p to q is gone, q having died: p has read everything that q
\* sent and sees it closed.
Disconnect(p, q) ==
  /\ p \in alive /\ q \in active[p]
  /\ q \notin alive \/ p \notin active[q]
  /\ \A m \in msgs : ~(m.from = q /\ m.to = p)
  /\ active' = [active EXCEPT ![p] = @ \ {q}]
  /\ UNCHANGED <<dservVars, msgs, clientVars, alive, died, forgot, histVars>>

\* A dserv is started again: init_dserv gives it empty lists.
Restart(s) ==
  /\ s \notin alive
  /\ alive' = alive \cup {s}
  /\ active' = [active EXCEPT ![s] = {s}]
  /\ lock_waiting' = [lock_waiting EXCEPT ![s] = <<>>]
  /\ lock_sent' = [lock_sent EXCEPT ![s] = {}]
  /\ next_pos' = [next_pos EXCEPT ![s] = [l \in Locks |-> 0]]
  /\ finish' = [finish EXCEPT ![s] = [l \in Locks |-> {}]]
  /\ scanning' = [scanning EXCEPT ![s] = FALSE]
  /\ forgot' = [forgot EXCEPT ![s] = taken[s]]
  /\ UNCHANGED <<msgs, clientVars, died, histVars>>

\* s_servg_check_list dials until the two are connected again; the old connection
\* has been closed at both ends by then.
Reconnect(s, q) ==
  /\ {s, q} \subseteq alive /\ q \notin active[s] /\ s \notin active[q]
  /\ active' = [active EXCEPT ![s] = @ \cup {q}, ![q] = @ \cup {s}]
  /\ UNCHANGED <<dservVars, msgs, clientVars, alive, died, forgot, histVars>>

Next ==
  \/ \E l \in Locks : AccessData(l)
  \/ \E s \in Servers, m \in msgs : DservLock(s, m)
  \/ \E s \in Servers, m \in msgs : DservUnlock(s, m)
  \/ \E s \in Servers : ScanTake(s)
  \/ \E s \in Servers : ScanEnd(s)
  \/ \E c \in Clients, m \in msgs : LockCallback(c, m)
  \/ \E p \in Nodes : Crash(p)
  \/ \E p, q \in Nodes : Disconnect(p, q)
  \/ \E s \in Servers : Restart(s)
  \/ \E s \in Servers, q \in Nodes : Reconnect(s, q)

Spec == Init /\ [][Next]_vars

(***************************************************************************)
(* Fairness.  The client's start-up loop runs to its end; TCP delivers     *)
(* what was sent and each event loop serves every connection with data, so *)
(* every packet is handled; a handler, once begun, returns.                *)
(***************************************************************************)
Fairness ==
  /\ \A l \in Locks : WF_vars(AccessData(l))
  /\ \A s \in Servers, l \in Locks :
       /\ WF_vars(\E m \in msgs : m.id = l /\ DservLock(s, m))
       /\ \A t \in Servers :
            WF_vars(\E m \in msgs : m.id = l /\ m.from = t /\ DservUnlock(s, m))
  /\ \A s \in Servers : WF_vars(ScanTake(s)) /\ WF_vars(ScanEnd(s))
  /\ \A l \in Locks :
       WF_vars(\E m \in msgs : m.id = l /\ LockCallback(Owner[l], m))

FairSpec == Spec /\ Fairness

-----------------------------------------------------------------------------
\* The variables hold what the C declarations say; only dservs are ever marked
\* as finished in a copy.
TypeOK ==
  /\ lock_waiting \in [Servers -> Seq(Locks)]
  /\ lock_sent \in [Servers -> SUBSET Locks]
  /\ next_pos \in [Servers -> [Locks -> Nat]]
  /\ finish \in [Servers -> [Locks -> SUBSET Servers]]
  /\ scanning \in [Servers -> BOOLEAN]
  /\ msgs \subseteq Message
  /\ issued \subseteq Locks
  /\ result \subseteq Locks
  /\ C \in [Clients -> Nat]
  /\ active \in [Nodes -> SUBSET Nodes]
  /\ alive \subseteq Nodes
  /\ taken \in [Servers -> SUBSET Locks]
  /\ before \in [Servers -> SUBSET (Locks \X Locks)]
  /\ died \subseteq Nodes
  /\ forgot \in [Servers -> SUBSET Locks]

\* What lock_sent and ilock_is_conflict are for: two locks that share several
\* dservs are taken in the same order on all of them, whatever the delays on
\* the way and whichever processes die.  The order is lost only with the copies
\* that keep it: when a dserv of both has been restarted after it took one.
SameOrder ==
  \A a, b \in Locks :
    \/ \A s, t \in Servers : <<a, b>> \in before[s] => <<b, a>> \notin before[t]
    \/ \E u \in ToSet(Chain[a]) \cap ToSet(Chain[b]) : {a, b} \cap forgot[u] # {}

\* The assert of s_core_dserv_lock never fails: the request arrives at the
\* dserv its position field points to, and no dserv sees it twice.
ArrivesInPlace ==
  \A m \in msgs : m.type \in LockTypes =>
    /\ m.curr < Len(Chain[m.id])
    /\ Chain[m.id][m.curr + 1] = m.to
    /\ m.id \notin taken[m.to] \cup Waiting(m.to)

\* The warning path of s_core_dserv_lock_unlock is taken only at a dserv that was
\* restarted after it took the lock: elsewhere LOCK_UNLOCK finds its copy, since
\* the copy is stored before the request goes on and no other lock removes it.
UnlockFindsLock ==
  \A m \in msgs : m.type = "LOCK_UNLOCK" => m.id \in lock_sent[m.to] \cup forgot[m.to]

\* The request l has not been taken at t but is still on its way there.
Travelling(l, t) ==
  \/ \E m \in msgs : m.id = l /\ m.type \in LockTypes /\ m.to <= t
  \/ \E u \in Servers : u <= t /\ l \in Waiting(u)

\* No lost wakeup and no circular wait: while no process has died, every lock
\* that waits at s waits for a lock that is on its way to a later dserv, or
\* whose LOCK_UNLOCK is on its way to s (the handler rescans lock_waiting).
WakeupPending ==
  died = {} =>
    \A s \in Servers : ~scanning[s] =>
      \A b \in Waiting(s) : \E a \in lock_sent[s], t \in Servers :
        /\ s < t
        /\ t \in ToSet(Chain[a]) \cap ToSet(Chain[b])
        /\ t \notin finish[s][a]
        /\ \/ Travelling(a, t)
           \/ Packet("LOCK_UNLOCK", a, 0, t, s) \in msgs

\* "All End!" is written when C reaches MaxTry: the counter of a client is
\* exactly the number of its locks that ended, each of them taken on every
\* dserv of its list.
CountsEnds ==
  \A c \in Clients :
    /\ C[c] = Cardinality({l \in result : Owner[l] = c})
    /\ \A l \in result : \A i \in DOMAIN Chain[l] : l \in taken[Chain[l][i]]

\* Every lock a client asks for is eventually granted while no process dies.
EveryLockEnds ==
  \A l \in Locks : (l \in issued) ~> (l \in result \/ died # {})

=============================================================================
