------------------------------- MODULE Glock -------------------------------
(***************************************************************************)
(* The global lock of a meta server (core/s_core_glock_mserv.c).           *)
(*                                                                         *)
(* mserv->glock is a 32-bit mask with one bit per data server that some    *)
(* client has locked; mserv->glock_elems holds one element per request.  A *)
(* mask is modelled by the set of its bits.  A request waits while one of  *)
(* its bits is taken; GLOBAL_UNLOCK releases the bits of an element and    *)
(* then offers the mask to every waiting element, in the order of the hash *)
(* table.                                                                  *)
(*                                                                         *)
(* The client is external: its code survives only as a comment of          *)
(* test2/s_ud_client.c.  It asks for the masks (core->id, gid++), holds    *)
(* one while it writes and then releases it.  It may die and come back, in *)
(* which case it starts again at gid 0.                                    *)
(***************************************************************************)
EXTENDS Integers, FiniteSets

CONSTANTS
  Clients,    \* the clients
  MaxTry,     \* requests per run of a client
  Bits,       \* bits of the mask
  MaxCrash    \* bound on the number of times a client dies

ASSUME GlockAssumption ==
  /\ IsFiniteSet(Clients)
  /\ MaxTry \in Nat
  /\ MaxCrash \in Nat

Ids == Clients \X (1..MaxTry)
Masks == SUBSET Bits \ {{}}

VARIABLES
  glock,        \* mserv->glock
  elems,        \* ids present in mserv->glock_elems
  elem_lock,    \* elem->lock
  is_waiting,   \* elem->is_waiting
  owners,       \* history: ids whose bits the mserv has taken and not released
  connected,    \* clients that s_servg_get_active_serv finds at the mserv
  msgs,         \* packets on their way
  phase,        \* what the client does with the request
  want,         \* the mask the client asked for
  alive,        \* clients that run
  crashes       \* how often a client has died

mservVars == <<glock, elems, elem_lock, is_waiting, owners>>
clientVars == <<phase, want>>
vars == <<mservVars, connected, msgs, clientVars, alive, crashes>>

Message == [type: {"LOCK", "UNLOCK", "RET"}, id: Ids, lock: SUBSET Bits]

LockPkt(i, mask) == [type |-> "LOCK", id |-> i, lock |-> mask]
UnlockPkt(i) == [type |-> "UNLOCK", id |-> i, lock |-> {}]
RetPkt(i) == [type |-> "RET", id |-> i, lock |-> {}]

Init ==
  /\ glock = {}
  /\ elems = {}
  /\ elem_lock = [i \in Ids |-> {}]
  /\ is_waiting = [i \in Ids |-> FALSE]
  /\ owners = {}
  /\ connected = Clients
  /\ msgs = {}
  /\ phase = [i \in Ids |-> "idle"]
  /\ want = [i \in Ids |-> {}]
  /\ alive = Clients
  /\ crashes = 0

-----------------------------------------------------------------------------
\* s_core_mserv_glock: s_hash_set_id creates the element or overwrites the one
\* that has the same id; it is granted at once when no bit is taken.
MservGlock(m) ==
  LET free == glock \cap m.lock = {}
  IN /\ m \in msgs /\ m.type = "LOCK"
     /\ elems' = elems \cup {m.id}
     /\ elem_lock' = [elem_lock EXCEPT ![m.id] = m.lock]
     /\ is_waiting' = [is_waiting EXCEPT ![m.id] = ~free]
     /\ glock' = IF free THEN glock \cup m.lock ELSE glock
     /\ owners' = IF free THEN owners \cup {m.id} ELSE owners \ {m.id}
     /\ msgs' = (msgs \ {m}) \cup
                {RetPkt(i) : i \in {j \in {m.id} : free /\ j[1] \in alive}}
     /\ UNCHANGED <<connected, clientVars, alive, crashes>>

\* The mask the elements I hold together.
MaskOf(I) == UNION {elem_lock[i] : i \in I}

\* Mutant of IterToUnlock: the loop leaves the waiters it has no bits for, and
\* also those it could serve.
IterToUnlockForgets(W, g, ok, gone) == ok = {} /\ gone = {}

\* Mutant of IterToUnlock: the bits of a lock granted in this loop are not seen
\* by the next element.
IterToUnlockNoUpdate(W, g, ok, gone) ==
  /\ ok = {i \in W : i[1] \in connected /\ elem_lock[i] \cap g = {}}
  /\ gone = {i \in W : i[1] \notin connected /\ elem_lock[i] \cap g = {}}

\* The outcomes of the loop over glock_elems in s_core_mserv_glock_unlock, for
\* the waiting elements W and the mask g after the release: `ok' get the lock,
\* `gone' were free but belong to a client that is not connected (they lose
\* is_waiting and take no bits), the others found one of their bits taken.
\* Every order of the hash table is covered.
IterToUnlock(W, g, ok, gone) ==
  /\ ok \in SUBSET {i \in W : i[1] \in connected}
  /\ gone \in SUBSET {i \in W : i[1] \notin connected}
  /\ \A i \in ok \cup gone : elem_lock[i] \cap g = {}
  /\ \A i, j \in ok : i # j => elem_lock[i] \cap elem_lock[j] = {}
  /\ \A i \in W \ (ok \cup gone) : elem_lock[i] \cap (g \cup MaskOf(ok)) # {}

\* Mutant of MservGlockUnlock: the element is not deleted.
MservGlockUnlockKeepsElem(m) ==
  /\ m \in msgs /\ m.type = "UNLOCK"
  /\ glock' = glock \ elem_lock[m.id]
  /\ msgs' = msgs \ {m}
  /\ UNCHANGED <<elems, elem_lock, is_waiting, owners, connected, clientVars,
                 alive, crashes>>

\* s_core_mserv_glock_unlock: an unknown id changes nothing.
MservGlockUnlock(m) ==
  /\ m \in msgs /\ m.type = "UNLOCK"
  /\ \/ /\ m.id \notin elems
        /\ msgs' = msgs \ {m}
        /\ UNCHANGED mservVars
     \/ /\ m.id \in elems
        /\ elems' = elems \ {m.id}
        /\ \E ok, gone \in SUBSET elems' :
             /\ IterToUnlock({i \in elems' : is_waiting[i]},
                             glock \ elem_lock[m.id], ok, gone)
             /\ glock' = (glock \ elem_lock[m.id]) \cup MaskOf(ok)
             /\ owners' = (owners \ {m.id}) \cup ok
             /\ is_waiting' = [i \in Ids |-> is_waiting[i] /\ i \notin ok \cup gone]
             /\ msgs' = (msgs \ {m}) \cup
                        {RetPkt(i) : i \in {j \in ok : j[1] \in alive}}
        /\ UNCHANGED elem_lock
  /\ UNCHANGED <<connected, clientVars, alive, crashes>>

-----------------------------------------------------------------------------
\* The client sends its next request (gid counts up) for a non-empty mask.
ClientLock(i) ==
  /\ i[1] \in alive /\ i[1] \in connected
  /\ phase[i] = "idle"
  /\ \A j \in Ids : j[1] = i[1] /\ j[2] < i[2] => phase[j] # "idle"
  /\ \E mask \in Masks :
       /\ want' = [want EXCEPT ![i] = mask]
       /\ msgs' = msgs \cup {LockPkt(i, mask)}
  /\ phase' = [phase EXCEPT ![i] = "asked"]
  /\ UNCHANGED <<mservVars, connected, alive, crashes>>

\* The reply arrives; one that no call waits for is dropped.
ClientGranted(i) ==
  /\ RetPkt(i) \in msgs
  /\ msgs' = msgs \ {RetPkt(i)}
  /\ phase' = [phase EXCEPT ![i] = IF @ = "asked" THEN "held" ELSE @]
  /\ UNCHANGED <<mservVars, connected, want, alive, crashes>>

\* The client has written its data and releases the lock.
ClientUnlock(i) ==
  /\ phase[i] = "held"
  /\ phase' = [phase EXCEPT ![i] = "done"]
  /\ msgs' = msgs \cup {UnlockPkt(i)}
  /\ UNCHANGED <<mservVars, connected, want, alive, crashes>>

\* A client dies; any part of what it had sent may still reach the mserv.
Crash(c) ==
  /\ c \in alive /\ crashes < MaxCrash
  /\ crashes' = crashes + 1
  /\ alive' = alive \ {c}
  /\ \E lost \in SUBSET {m \in msgs : m.id[1] = c} :
       /\ \A m \in msgs : m.id[1] = c /\ m.type = "RET" => m \in lost
       /\ msgs' = msgs \ lost
  /\ phase' = [i \in Ids |-> IF i[1] = c THEN "idle" ELSE phase[i]]
  /\ want' = [i \in Ids |-> IF i[1] = c THEN {} ELSE want[i]]
  /\ UNCHANGED <<mservVars, connected>>

\* The mserv has read what the client sent and sees the connection closed.  No
\* handler of the mserv touches glock or glock_elems then.
Disconnect(c) ==
  /\ c \in connected \ alive
  /\ \A m \in msgs : m.id[1] # c
  /\ connected' = connected \ {c}
  /\ UNCHANGED <<mservVars, msgs, clientVars, alive, crashes>>

\* The client is started again and connects.  Its request ids start at 1 again,
\* like its gid: a reply to an element of its former run answers its new call.
Restart(c) ==
  /\ c \in Clients \ (alive \cup connected)
  /\ alive' = alive \cup {c}
  /\ connected' = connected \cup {c}
  /\ UNCHANGED <<mservVars, msgs, clientVars, crashes>>

Next ==
  \/ \E m \in msgs : MservGlock(m)
  \/ \E m \in msgs : MservGlockUnlock(m)
  \/ \E i \in Ids : ClientLock(i)
  \/ \E i \in Ids : ClientGranted(i)
  \/ \E i \in Ids : ClientUnlock(i)
  \/ \E c \in Clients : Crash(c)
  \/ \E c \in Clients : Disconnect(c)
  \/ \E c \in Clients : Restart(c)

Spec == Init /\ [][Next]_vars

(***************************************************************************)
(* Fairness: packets are delivered and handled, and a client that holds a  *)
(* lock finishes its writes.  Clients are not obliged to ask.              *)
(***************************************************************************)
Fairness ==
  /\ \A i \in Ids :
       /\ WF_vars(\E m \in msgs : m.id = i /\ MservGlock(m))
       /\ WF_vars(\E m \in msgs : m.id = i /\ MservGlockUnlock(m))
       /\ WF_vars(ClientGranted(i))
       /\ WF_vars(ClientUnlock(i))

FairSpec == Spec /\ Fairness

-----------------------------------------------------------------------------
\* The variables hold what the declarations of struct s_mserver say.
TypeOK ==
  /\ glock \in SUBSET Bits
  /\ elems \in SUBSET Ids
  /\ elem_lock \in [Ids -> SUBSET Bits]
  /\ is_waiting \in [Ids -> BOOLEAN]
  /\ owners \in SUBSET Ids
  /\ connected \in SUBSET Clients
  /\ msgs \in SUBSET Message
  /\ phase \in [Ids -> {"idle", "asked", "held", "done"}]
  /\ want \in [Ids -> SUBSET Bits]
  /\ alive \in SUBSET Clients
  /\ crashes \in Nat

\* Every client that died is still away.
NobodyCameBack == crashes = Cardinality(Clients \ alive)

\* The lock excludes: no two requests that their clients believe granted share
\* a data server, also when clients die while they hold or wait.  It is false
\* once a client has come back: the mserv keeps the element of the former run,
\* and its late grant answers the new call, which may be for another mask.
MutualExclusion ==
  NobodyCameBack =>
    \A i, j \in Ids :
      phase[i] = "held" /\ phase[j] = "held" /\ i # j => want[i] \cap want[j] = {}

\* No waiter is forgotten: whenever the mserv is between two handlers, an
\* element that waits really finds one of its bits taken.
WaitersAreBlocked ==
  \A i \in elems : is_waiting[i] => elem_lock[i] \cap glock # {}

\* While no client has died, every bit of glock belongs to exactly one granted
\* element: nothing leaks and nothing is released twice.
NoLeak ==
  crashes = 0 =>
    /\ glock = UNION {elem_lock[i] : i \in {j \in elems : ~is_waiting[j]}}
    /\ \A i, j \in elems :
         i # j /\ ~is_waiting[i] /\ ~is_waiting[j] =>
           elem_lock[i] \cap elem_lock[j] = {}

\* A taken bit belongs to one request, and only that request's GLOBAL_UNLOCK
\* frees it: no release takes away a bit that another request has been granted,
\* although a release clears the whole mask of its element and waiters, or the
\* elements of clients that are gone, want the same bits.  The bits of a client
\* that died with its grant stay taken.  It is false once a client has come back:
\* the late grant of its former run lets it release an element that still waits.
OnlyOwnerFrees ==
  [][NobodyCameBack =>
       \A x \in glock \ glock' :
         \E i \in owners \ owners' :
           /\ x \in elem_lock[i] /\ UnlockPkt(i) \in msgs \ msgs'
           /\ \A j \in owners \ {i} : x \notin elem_lock[j]]_vars

\* While no client dies, every request is eventually granted.
EveryRequestGranted ==
  \A i \in Ids : (phase[i] = "asked") ~> (phase[i] = "held" \/ crashes > 0)

=============================================================================
