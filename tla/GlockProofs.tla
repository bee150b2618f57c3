---------------------------- MODULE GlockProofs ----------------------------
(***************************************************************************)
(* Proofs about Glock, for any set of clients, of bits and any bounds.     *)
(*                                                                         *)
(* MutualExclusion speaks of what clients believe; it is not inductive.    *)
(* GrantInv follows a grant through its three forms - a RET packet on its  *)
(* way, a client that holds the lock, an UNLOCK packet on its way - and    *)
(* ties each of them to an element of the mserv whose bits are set.        *)
(***************************************************************************)
EXTENDS Glock, FiniteSetTheorems, TLAPS

\* The request i is granted: the client holds the lock, or will, or did and the
\* release is on its way.
Granted(i) ==
  RetPkt(i) \in msgs \/ phase[i] = "held" \/ UnlockPkt(i) \in msgs

\* What is granted is backed by an element and by bits of glock.
GrantBacked ==
  \A i \in Ids : Granted(i) =>
    i \in elems /\ ~is_waiting[i] /\ elem_lock[i] \subseteq glock

\* No bit is granted twice.
GrantDisjoint ==
  \A i, j \in Ids : i # j /\ Granted(i) /\ Granted(j) =>
    elem_lock[i] \cap elem_lock[j] = {}

HeldOK == \A i \in Ids : phase[i] = "held" => want[i] = elem_lock[i]

RetOK ==
  \A i \in Ids : RetPkt(i) \in msgs =>
    phase[i] = "asked" /\ want[i] = elem_lock[i] /\ i[1] \in alive

UnlockOK ==
  \A i \in Ids : UnlockPkt(i) \in msgs => phase[i] = "done" \/ i[1] \notin alive

\* A LOCK packet is the only trace of its request at the mserv.
LockOK ==
  \A m \in msgs : m.type = "LOCK" =>
    /\ m.id \notin elems
    /\ ~Granted(m.id)
    /\ m.id[1] \in alive => phase[m.id] = "asked" /\ want[m.id] = m.lock
    /\ \A n \in msgs : n.type = "LOCK" /\ n.id = m.id => n = m

WaitOK ==
  \A i \in elems : is_waiting[i] =>
    /\ ~Granted(i)
    /\ i[1] \in alive => phase[i] = "asked" /\ want[i] = elem_lock[i]

\* A request that has not been made has left no trace.
IdleOK ==
  \A i \in Ids : i[1] \in alive /\ phase[i] = "idle" =>
    i \notin elems /\ \A m \in msgs : m.id # i

DeadOK == \A i \in Ids : i[1] \notin alive => phase[i] = "idle"

\* UNLOCK and RET packets carry nothing but the id.
ShapeOK ==
  \A m \in msgs : /\ m.type = "UNLOCK" => m = UnlockPkt(m.id)
                  /\ m.type = "RET" => m = RetPkt(m.id)

GrantInv ==
  /\ GrantBacked /\ GrantDisjoint /\ HeldOK /\ RetOK /\ UnlockOK
  /\ LockOK /\ WaitOK /\ IdleOK /\ DeadOK /\ ShapeOK

-----------------------------------------------------------------------------

\* The packets the actions send are packets.
LEMMA PacketTypes ==
  ASSUME NEW i \in Ids, NEW mask \in SUBSET Bits
  PROVE  /\ LockPkt(i, mask) \in Message
         /\ UnlockPkt(i) \in Message
         /\ RetPkt(i) \in Message
  BY DEF LockPkt, UnlockPkt, RetPkt, Message

LEMMA TypeInit == Init => TypeOK
  BY DEF Init, TypeOK

LEMMA TypeNext == TypeOK /\ [Next]_vars => TypeOK'
<1> SUFFICES ASSUME TypeOK, [Next]_vars PROVE TypeOK'
  OBVIOUS
<1> USE DEF TypeOK
<1>1. CASE \E m \in msgs : MservGlock(m)
  <2> PICK m \in msgs : MservGlock(m)
    BY <1>1
  <2>1. m \in Message /\ m.id \in Ids /\ m.lock \in SUBSET Bits
    BY DEF Message
  <2>2. {RetPkt(i) : i \in {j \in {m.id} : glock \cap m.lock = {} /\ j[1] \in alive}}
          \subseteq Message
    BY <2>1, PacketTypes
  <2>3. msgs' \in SUBSET Message
    BY <2>2 DEF MservGlock
  <2>4. glock' \in SUBSET Bits /\ elems' \in SUBSET Ids
    BY <2>1 DEF MservGlock
  <2>5. elem_lock' \in [Ids -> SUBSET Bits] /\ is_waiting' \in [Ids -> BOOLEAN]
    BY <2>1 DEF MservGlock
  <2> QED
    BY <2>3, <2>4, <2>5 DEF MservGlock, clientVars
<1>2. CASE \E m \in msgs : MservGlockUnlock(m)
  <2> PICK m \in msgs : MservGlockUnlock(m)
    BY <1>2
  <2>1. CASE m.id \notin elems
    BY <2>1 DEF MservGlockUnlock, mservVars, clientVars
  <2>2. CASE m.id \in elems
    <3>1. elems' \in SUBSET Ids
      BY <2>2 DEF MservGlockUnlock
    <3>2. PICK ok \in SUBSET elems', gone \in SUBSET elems' :
            /\ glock' = (glock \ elem_lock[m.id]) \cup MaskOf(ok)
            /\ is_waiting' = [i \in Ids |-> is_waiting[i] /\ i \notin ok \cup gone]
            /\ msgs' = (msgs \ {m}) \cup
                       {RetPkt(i) : i \in {j \in ok : j[1] \in alive}}
      BY <2>2 DEF MservGlockUnlock
    <3>3. MaskOf(ok) \in SUBSET Bits
      BY <3>1 DEF MaskOf
    <3>4. {RetPkt(i) : i \in {j \in ok : j[1] \in alive}} \subseteq Message
      BY <3>1, PacketTypes
    <3> QED
      BY <2>2, <3>1, <3>2, <3>3, <3>4 DEF MservGlockUnlock, clientVars
  <2> QED
    BY <2>1, <2>2
<1>3. CASE \E i \in Ids : ClientLock(i)
  <2> PICK i \in Ids : ClientLock(i)
    BY <1>3
  <2>1. PICK mask \in Masks : /\ want' = [want EXCEPT ![i] = mask]
                              /\ msgs' = msgs \cup {LockPkt(i, mask)}
    BY DEF ClientLock
  <2>2. mask \in SUBSET Bits
    BY DEF Masks
  <2> QED
    BY <2>1, <2>2, PacketTypes DEF ClientLock, mservVars
<1>4. CASE \E i \in Ids : ClientGranted(i)
  BY <1>4 DEF ClientGranted, mservVars
<1>5. CASE \E i \in Ids : ClientUnlock(i)
  BY <1>5, PacketTypes DEF ClientUnlock, mservVars
<1>6. CASE \E c \in Clients : Crash(c)
  BY <1>6 DEF Crash, mservVars
<1>7. CASE \E c \in Clients : Disconnect(c)
  BY <1>7 DEF Disconnect, mservVars, clientVars
<1>8. CASE \E c \in Clients : Restart(c)
  BY <1>8 DEF Restart, mservVars, clientVars
<1>9. CASE UNCHANGED vars
  BY <1>9 DEF vars, mservVars, clientVars
<1> QED
  BY <1>1, <1>2, <1>3, <1>4, <1>5, <1>6, <1>7, <1>8, <1>9 DEF Next

\* The tables of the mserv and of the clients keep their types, whatever dies
\* and comes back.
THEOREM TypeCorrect == Spec => []TypeOK
  BY TypeInit, TypeNext, PTL DEF Spec

-----------------------------------------------------------------------------
\* Packets with different types, or for different requests, are different.
LEMMA PacketsDiffer ==
  /\ \A i, j : RetPkt(i) # UnlockPkt(j)
  /\ \A i, j, mask : RetPkt(i) # LockPkt(j, mask) /\ UnlockPkt(i) # LockPkt(j, mask)
  /\ \A i, j : RetPkt(i) = RetPkt(j) => i = j
  /\ \A i, j : UnlockPkt(i) = UnlockPkt(j) => i = j
  /\ \A i : RetPkt(i).type = "RET" /\ RetPkt(i).id = i
  /\ \A i : UnlockPkt(i).type = "UNLOCK" /\ UnlockPkt(i).id = i
  /\ \A i, mask : /\ LockPkt(i, mask).type = "LOCK" /\ LockPkt(i, mask).id = i
                  /\ LockPkt(i, mask).lock = mask
  BY DEF RetPkt, UnlockPkt, LockPkt

LEMMA GrantInit == Init => GrantInv
  BY DEF Init, GrantInv, GrantBacked, GrantDisjoint, HeldOK, RetOK, UnlockOK,
         LockOK, WaitOK, IdleOK, DeadOK, ShapeOK, Granted

\* A new request is granted only bits that nobody has.
LEMMA GrantMservGlock ==
  ASSUME TypeOK, GrantInv, NEW m \in msgs, MservGlock(m)
  PROVE  GrantInv'
<1> DEFINE i == m.id
           grant == glock \cap m.lock = {} /\ i[1] \in alive
<1>1. m.type = "LOCK" /\ i \in Ids /\ m.lock \in SUBSET Bits
  BY DEF MservGlock, TypeOK, Message
<1>2. /\ i \notin elems /\ ~Granted(i)
      /\ i[1] \in alive => phase[i] = "asked" /\ want[i] = m.lock
      /\ \A n \in msgs : n.type = "LOCK" /\ n.id = i => n = m
  BY <1>1 DEF GrantInv, LockOK
<1>3. /\ elems' = elems \cup {i}
      /\ elem_lock' = [elem_lock EXCEPT ![i] = m.lock]
      /\ is_waiting' = [is_waiting EXCEPT ![i] = glock \cap m.lock # {}]
      /\ phase' = phase /\ want' = want /\ alive' = alive
  BY DEF MservGlock, clientVars
<1>4. msgs' = (msgs \ {m}) \cup (IF grant THEN {RetPkt(i)} ELSE {})
  <2>1. CASE grant
    BY <2>1 DEF MservGlock
  <2>2. CASE ~grant
    <3>1. {j \in {m.id} : glock \cap m.lock = {} /\ j[1] \in alive} = {}
      BY <2>2
    <3> QED
      BY <3>1, <2>2 DEF MservGlock
  <2> QED
    BY <2>1, <2>2
<1>5. glock \subseteq glock' /\ (grant => m.lock \subseteq glock')
  BY DEF MservGlock
<1>6. \A j \in Ids : /\ Granted(j)' <=> Granted(j) \/ (j = i /\ grant)
                     /\ j # i => elem_lock'[j] = elem_lock[j]
                                 /\ is_waiting'[j] = is_waiting[j]
  BY <1>1, <1>3, <1>4, PacketsDiffer DEF Granted, TypeOK
<1>7. elem_lock'[i] = m.lock /\ is_waiting'[i] = (glock \cap m.lock # {})
  BY <1>1, <1>3 DEF TypeOK
<1>8. GrantBacked'
  BY <1>2, <1>3, <1>5, <1>6, <1>7, ZenonT(30) DEF GrantInv, GrantBacked
<1>9. GrantDisjoint'
  BY <1>2, <1>6, <1>7 DEF GrantInv, GrantDisjoint, GrantBacked
<1>10. HeldOK' /\ DeadOK'
  BY <1>2, <1>3, <1>6 DEF GrantInv, HeldOK, DeadOK, Granted
<1>11. RetOK' /\ UnlockOK'
  <2>1. UnlockOK'
    BY <1>3, <1>4, PacketsDiffer DEF GrantInv, UnlockOK
  <2> SUFFICES ASSUME NEW j \in Ids, RetPkt(j) \in msgs'
               PROVE  phase[j] = "asked" /\ want[j] = elem_lock'[j] /\ j[1] \in alive
    BY <1>3, <2>1 DEF RetOK
  <2>2. CASE j = i
    <3>1. RetPkt(i) \notin msgs
      BY <1>2 DEF Granted
    <3>2. grant
      BY <2>2, <3>1, <1>4
    <3> QED
      BY <2>2, <3>2, <1>2, <1>7
  <2>3. CASE j # i
    BY <2>3, <1>4, <1>6, PacketsDiffer DEF GrantInv, RetOK
  <2> QED
    BY <2>2, <2>3
<1>12. LockOK'
  <2> SUFFICES ASSUME NEW n \in msgs', n.type = "LOCK"
               PROVE  /\ n.id \notin elems' /\ ~Granted(n.id)'
                      /\ n.id[1] \in alive' => phase'[n.id] = "asked" /\ want'[n.id] = n.lock
                      /\ \A k \in msgs' : k.type = "LOCK" /\ k.id = n.id => k = n
    BY DEF LockOK
  <2>1. n \in msgs /\ n # m
    BY <1>4, PacketsDiffer
  <2>2. n.id # i /\ n.id \in Ids
    BY <2>1, <1>2 DEF TypeOK, Message
  <2>3. \A k \in msgs' : k.type = "LOCK" => k \in msgs
    BY <1>4, PacketsDiffer
  <2>4. /\ n.id \notin elems /\ ~Granted(n.id)
        /\ n.id[1] \in alive => phase[n.id] = "asked" /\ want[n.id] = n.lock
        /\ \A k \in msgs : k.type = "LOCK" /\ k.id = n.id => k = n
    BY <2>1 DEF GrantInv, LockOK
  <2> QED
    BY <2>2, <2>3, <2>4, <1>3, <1>6
<1>13. WaitOK'
  <2> SUFFICES ASSUME NEW j \in elems', is_waiting'[j]
               PROVE  /\ ~Granted(j)'
                      /\ j[1] \in alive' => phase'[j] = "asked" /\ want'[j] = elem_lock'[j]
    BY DEF WaitOK
  <2>1. CASE j = i
    BY <2>1, <1>1, <1>2, <1>3, <1>6, <1>7
  <2>2. CASE j # i
    <3>1. j \in elems /\ j \in Ids
      BY <2>2, <1>3 DEF TypeOK
    <3> QED
      BY <3>1, <2>2, <1>3, <1>6 DEF GrantInv, WaitOK
  <2> QED
    BY <2>1, <2>2
<1>14. IdleOK'
  BY <1>1, <1>2, <1>3, <1>4, PacketsDiffer DEF GrantInv, IdleOK
<1>15. ShapeOK'
  BY <1>4, PacketsDiffer DEF GrantInv, ShapeOK
<1> QED
  BY <1>8, <1>9, <1>10, <1>11, <1>12, <1>13, <1>14, <1>15 DEF GrantInv

\* Unlocking frees the bits of one grant and gives some of them to waiters that
\* do not overlap each other.
LEMMA GrantMservGlockUnlock ==
  ASSUME TypeOK, GrantInv, NEW m \in msgs, MservGlockUnlock(m)
  PROVE  GrantInv'
<1> DEFINE i == m.id
<1>1. m.type = "UNLOCK" /\ i \in Ids /\ m = UnlockPkt(i)
  BY DEF MservGlockUnlock, TypeOK, Message, GrantInv, ShapeOK
<1>2. Granted(i) /\ i \in elems /\ ~is_waiting[i] /\ elem_lock[i] \subseteq glock
  BY <1>1 DEF GrantInv, GrantBacked, Granted
<1>3. phase[i] # "held" /\ RetPkt(i) \notin msgs
  BY <1>1 DEF GrantInv, UnlockOK, DeadOK, RetOK
<1>4. /\ elems' = elems \ {i} /\ elem_lock' = elem_lock
      /\ phase' = phase /\ want' = want /\ alive' = alive
  BY <1>2 DEF MservGlockUnlock, clientVars
<1>5. PICK ok \in SUBSET elems', gone \in SUBSET elems' :
        /\ IterToUnlock({j \in elems' : is_waiting[j]}, glock \ elem_lock[i], ok, gone)
        /\ glock' = (glock \ elem_lock[i]) \cup MaskOf(ok)
        /\ is_waiting' = [j \in Ids |-> is_waiting[j] /\ j \notin ok \cup gone]
        /\ msgs' = (msgs \ {m}) \cup {RetPkt(j) : j \in {k \in ok : k[1] \in alive}}
  BY <1>2 DEF MservGlockUnlock
<1>6. /\ \A j \in ok : /\ j \in elems /\ j # i /\ j \in Ids /\ is_waiting[j]
                       /\ elem_lock[j] \cap (glock \ elem_lock[i]) = {}
      /\ \A j, k \in ok : j # k => elem_lock[j] \cap elem_lock[k] = {}
  BY <1>4, <1>5 DEF IterToUnlock, TypeOK
<1>7. \A j \in ok : ~Granted(j) /\ elem_lock[j] \subseteq glock'
                   /\ (j[1] \in alive => phase[j] = "asked" /\ want[j] = elem_lock[j])
  BY <1>5, <1>6 DEF GrantInv, WaitOK, MaskOf
<1>a. \A n : n \in msgs' <=> \/ n \in msgs /\ n # UnlockPkt(i)
                             \/ \E k \in ok : k[1] \in alive /\ n = RetPkt(k)
  BY <1>1, <1>5
<1>8. \A j \in Ids : RetPkt(j) \in msgs' <=> RetPkt(j) \in msgs \/ (j \in ok /\ j[1] \in alive)
  BY <1>a, PacketsDiffer
<1>9. \A j \in Ids : UnlockPkt(j) \in msgs' <=> UnlockPkt(j) \in msgs /\ j # i
  BY <1>a, PacketsDiffer
<1>10. \A j \in Ids : Granted(j)' <=> (Granted(j) /\ j # i) \/ (j \in ok /\ j[1] \in alive)
  BY <1>1, <1>3, <1>4, <1>6, <1>8, <1>9 DEF Granted
<1>11. \A n \in msgs' : n \in msgs \/ (n.type = "RET" /\ n = RetPkt(n.id) /\ n.id \in ok)
  BY <1>a, PacketsDiffer
<1>12. GrantBacked'
  <2> SUFFICES ASSUME NEW j \in Ids, Granted(j)'
               PROVE  j \in elems' /\ ~is_waiting'[j] /\ elem_lock[j] \subseteq glock'
    BY <1>4 DEF GrantBacked
  <2>1. CASE Granted(j) /\ j # i
    <3>1. j \in elems /\ ~is_waiting[j] /\ elem_lock[j] \subseteq glock
      BY <2>1 DEF GrantInv, GrantBacked
    <3>2. elem_lock[j] \cap elem_lock[i] = {}
      BY <2>1, <1>1, <1>2 DEF GrantInv, GrantDisjoint
    <3> QED
      BY <2>1, <3>1, <3>2, <1>4, <1>5
  <2>2. CASE j \in ok /\ j[1] \in alive
    BY <2>2, <1>4, <1>5, <1>6, <1>7
  <2> QED
    BY <2>1, <2>2, <1>10
<1>13. GrantDisjoint'
  <2>1. \A j, k \in Ids : Granted(j) /\ j # i /\ k \in ok =>
          elem_lock[j] \cap elem_lock[k] = {}
    BY <1>1, <1>2, <1>6 DEF GrantInv, GrantBacked, GrantDisjoint
  <2>2. \A j, k \in Ids : j # k /\ Granted(j) /\ Granted(k) =>
          elem_lock[j] \cap elem_lock[k] = {}
    BY DEF GrantInv, GrantDisjoint
  <2> QED
    BY <2>1, <2>2, <1>4, <1>6, <1>10 DEF GrantDisjoint
<1>14. HeldOK' /\ DeadOK'
  BY <1>4 DEF GrantInv, HeldOK, DeadOK
<1>15. RetOK'
  BY <1>4, <1>7, <1>8 DEF GrantInv, RetOK
<1>16. UnlockOK'
  BY <1>4, <1>9 DEF GrantInv, UnlockOK
<1>17. LockOK'
  <2> SUFFICES ASSUME NEW n \in msgs', n.type = "LOCK"
               PROVE  /\ n.id \notin elems' /\ ~Granted(n.id)'
                      /\ n.id[1] \in alive' => phase'[n.id] = "asked" /\ want'[n.id] = n.lock
                      /\ \A k \in msgs' : k.type = "LOCK" /\ k.id = n.id => k = n
    BY DEF LockOK
  <2>1. n \in msgs /\ n.id \in Ids
    BY <1>11 DEF TypeOK, Message
  <2>2. \A k \in msgs' : k.type = "LOCK" => k \in msgs
    BY <1>11
  <2>3. /\ n.id \notin elems /\ ~Granted(n.id)
        /\ n.id[1] \in alive => phase[n.id] = "asked" /\ want[n.id] = n.lock
        /\ \A k \in msgs : k.type = "LOCK" /\ k.id = n.id => k = n
    BY <2>1 DEF GrantInv, LockOK
  <2> QED
    BY <2>1, <2>2, <2>3, <1>4, <1>6, <1>10
<1>18. WaitOK'
  <2> SUFFICES ASSUME NEW j \in elems', is_waiting'[j]
               PROVE  /\ ~Granted(j)'
                      /\ j[1] \in alive' => phase'[j] = "asked" /\ want'[j] = elem_lock'[j]
    BY DEF WaitOK
  <2>1. j \in elems /\ j \in Ids /\ is_waiting[j] /\ j \notin ok
    BY <1>4, <1>5 DEF TypeOK
  <2> QED
    BY <2>1, <1>4, <1>10 DEF GrantInv, WaitOK
<1>19. IdleOK'
  <2> SUFFICES ASSUME NEW j \in Ids, j[1] \in alive, phase[j] = "idle"
               PROVE  j \notin elems' /\ \A n \in msgs' : n.id # j
    BY <1>4 DEF IdleOK
  <2>1. j \notin elems /\ \A n \in msgs : n.id # j
    BY DEF GrantInv, IdleOK
  <2> QED
    BY <2>1, <1>4, <1>6, <1>11
<1>20. ShapeOK'
  BY <1>11, PacketsDiffer DEF GrantInv, ShapeOK
<1> QED
  BY <1>12, <1>13, <1>14, <1>15, <1>16, <1>17, <1>18, <1>19, <1>20 DEF GrantInv

LEMMA GrantClientLock ==
  ASSUME TypeOK, GrantInv, NEW i \in Ids, ClientLock(i)
  PROVE  GrantInv'
<1>1. PICK mask \in Masks : /\ want' = [want EXCEPT ![i] = mask]
                            /\ msgs' = msgs \cup {LockPkt(i, mask)}
  BY DEF ClientLock
<1>2. /\ phase' = [phase EXCEPT ![i] = "asked"] /\ alive' = alive
      /\ glock' = glock /\ elems' = elems /\ elem_lock' = elem_lock
      /\ is_waiting' = is_waiting /\ phase[i] = "idle" /\ i[1] \in alive
  BY DEF ClientLock, mservVars
<1>3. i \notin elems /\ \A n \in msgs : n.id # i
  BY <1>2 DEF GrantInv, IdleOK
<1>4. \A j \in Ids : /\ RetPkt(j) \in msgs' <=> RetPkt(j) \in msgs
                     /\ UnlockPkt(j) \in msgs' <=> UnlockPkt(j) \in msgs
  BY <1>1, PacketsDiffer
<1>5. /\ phase'[i] = "asked" /\ want'[i] = mask
      /\ \A j \in Ids : j # i => phase'[j] = phase[j] /\ want'[j] = want[j]
  BY <1>1, <1>2 DEF TypeOK
<1>6. ~Granted(i) /\ \A j \in Ids : Granted(j)' <=> Granted(j)
  BY <1>2, <1>3, <1>4, <1>5, PacketsDiffer DEF Granted
<1>7. GrantBacked' /\ GrantDisjoint'
  BY <1>2, <1>6 DEF GrantInv, GrantBacked, GrantDisjoint
<1>8. HeldOK' /\ DeadOK'
  BY <1>2, <1>5 DEF GrantInv, HeldOK, DeadOK
<1>9. RetOK' /\ UnlockOK'
  BY <1>2, <1>3, <1>4, <1>5, PacketsDiffer DEF GrantInv, RetOK, UnlockOK
<1>10. LockOK'
  <2> SUFFICES ASSUME NEW n \in msgs', n.type = "LOCK"
               PROVE  /\ n.id \notin elems' /\ ~Granted(n.id)'
                      /\ n.id[1] \in alive' => phase'[n.id] = "asked" /\ want'[n.id] = n.lock
                      /\ \A k \in msgs' : k.type = "LOCK" /\ k.id = n.id => k = n
    BY DEF LockOK
  <2>1. CASE n = LockPkt(i, mask)
    BY <2>1, <1>1, <1>2, <1>3, <1>5, <1>6, PacketsDiffer
  <2>2. CASE n \in msgs
    <3>1. n.id # i /\ n.id \in Ids
      BY <2>2, <1>3 DEF TypeOK, Message
    <3>2. /\ n.id \notin elems /\ ~Granted(n.id)
          /\ n.id[1] \in alive => phase[n.id] = "asked" /\ want[n.id] = n.lock
          /\ \A k \in msgs : k.type = "LOCK" /\ k.id = n.id => k = n
      BY <2>2 DEF GrantInv, LockOK
    <3> QED
      BY <3>1, <3>2, <1>1, <1>2, <1>5, <1>6, PacketsDiffer
  <2> QED
    BY <2>1, <2>2, <1>1
<1>11. WaitOK'
  <2> SUFFICES ASSUME NEW j \in elems, is_waiting[j]
               PROVE  /\ ~Granted(j)'
                      /\ j[1] \in alive => phase'[j] = "asked" /\ want'[j] = elem_lock[j]
    BY <1>2 DEF WaitOK
  <2>1. j \in Ids /\ j # i
    BY <1>3 DEF TypeOK
  <2> QED
    BY <2>1, <1>5, <1>6 DEF GrantInv, WaitOK
<1>12. IdleOK' /\ ShapeOK'
  BY <1>1, <1>2, <1>5, PacketsDiffer DEF GrantInv, IdleOK, ShapeOK
<1> QED
  BY <1>7, <1>8, <1>9, <1>10, <1>11, <1>12 DEF GrantInv

LEMMA GrantClientGranted ==
  ASSUME TypeOK, GrantInv, NEW i \in Ids, ClientGranted(i)
  PROVE  GrantInv'
<1>1. /\ RetPkt(i) \in msgs /\ msgs' = msgs \ {RetPkt(i)}
      /\ want' = want /\ alive' = alive
      /\ glock' = glock /\ elems' = elems /\ elem_lock' = elem_lock
      /\ is_waiting' = is_waiting
  BY DEF ClientGranted, mservVars
<1>2. phase[i] = "asked" /\ want[i] = elem_lock[i] /\ i[1] \in alive /\ Granted(i)
  BY <1>1 DEF GrantInv, RetOK, Granted
<1>3. /\ phase'[i] = "held"
      /\ \A j \in Ids : j # i => phase'[j] = phase[j]
  BY <1>2 DEF ClientGranted, TypeOK
<1>4. \A j \in Ids : /\ RetPkt(j) \in msgs' <=> RetPkt(j) \in msgs /\ j # i
                     /\ UnlockPkt(j) \in msgs' <=> UnlockPkt(j) \in msgs
  BY <1>1, PacketsDiffer
<1>5. \A j \in Ids : Granted(j)' <=> Granted(j)
  BY <1>2, <1>3, <1>4 DEF Granted
<1>6. GrantBacked' /\ GrantDisjoint'
  BY <1>1, <1>5 DEF GrantInv, GrantBacked, GrantDisjoint
<1>7. HeldOK' /\ DeadOK'
  BY <1>1, <1>2, <1>3 DEF GrantInv, HeldOK, DeadOK
<1>8. RetOK' /\ UnlockOK'
  BY <1>1, <1>2, <1>3, <1>4 DEF GrantInv, RetOK, UnlockOK
<1>9. LockOK'
  <2> SUFFICES ASSUME NEW n \in msgs, n.type = "LOCK"
               PROVE  /\ n.id \notin elems /\ ~Granted(n.id)'
                      /\ n.id[1] \in alive => phase'[n.id] = "asked" /\ want[n.id] = n.lock
                      /\ \A k \in msgs : k.type = "LOCK" /\ k.id = n.id => k = n
    BY <1>1 DEF LockOK
  <2>1. n.id \in Ids
    BY DEF TypeOK, Message
  <2> QED
    BY <2>1, <1>2, <1>3, <1>5 DEF GrantInv, LockOK
<1>10. WaitOK'
  <2> SUFFICES ASSUME NEW j \in elems, is_waiting[j]
               PROVE  /\ ~Granted(j)'
                      /\ j[1] \in alive => phase'[j] = "asked" /\ want[j] = elem_lock[j]
    BY <1>1 DEF WaitOK
  <2>1. j \in Ids
    BY DEF TypeOK
  <2> QED
    BY <2>1, <1>2, <1>3, <1>5 DEF GrantInv, WaitOK
<1>11. IdleOK' /\ ShapeOK'
  BY <1>1, <1>3 DEF GrantInv, IdleOK, ShapeOK
<1> QED
  BY <1>6, <1>7, <1>8, <1>9, <1>10, <1>11 DEF GrantInv

LEMMA GrantClientUnlock ==
  ASSUME TypeOK, GrantInv, NEW i \in Ids, ClientUnlock(i)
  PROVE  GrantInv'
<1>1. /\ phase[i] = "held" /\ msgs' = msgs \cup {UnlockPkt(i)}
      /\ want' = want /\ alive' = alive
      /\ glock' = glock /\ elems' = elems /\ elem_lock' = elem_lock
      /\ is_waiting' = is_waiting
  BY DEF ClientUnlock, mservVars
<1>2. Granted(i) /\ RetPkt(i) \notin msgs
  BY <1>1 DEF GrantInv, RetOK, Granted
<1>3. /\ phase'[i] = "done"
      /\ \A j \in Ids : j # i => phase'[j] = phase[j]
  BY DEF ClientUnlock, TypeOK
<1>4. \A j \in Ids : /\ RetPkt(j) \in msgs' <=> RetPkt(j) \in msgs
                     /\ UnlockPkt(j) \in msgs' <=> UnlockPkt(j) \in msgs \/ j = i
  BY <1>1, PacketsDiffer
<1>5. \A j \in Ids : Granted(j)' <=> Granted(j)
  BY <1>2, <1>3, <1>4 DEF Granted
<1>6. GrantBacked' /\ GrantDisjoint'
  BY <1>1, <1>5 DEF GrantInv, GrantBacked, GrantDisjoint
<1>7. HeldOK' /\ DeadOK'
  BY <1>1, <1>3 DEF GrantInv, HeldOK, DeadOK
<1>8. RetOK' /\ UnlockOK'
  BY <1>1, <1>2, <1>3, <1>4 DEF GrantInv, RetOK, UnlockOK
<1>9. LockOK'
  <2> SUFFICES ASSUME NEW n \in msgs, n.type = "LOCK"
               PROVE  /\ n.id \notin elems /\ ~Granted(n.id)'
                      /\ n.id[1] \in alive => phase'[n.id] = "asked" /\ want[n.id] = n.lock
                      /\ \A k \in msgs : k.type = "LOCK" /\ k.id = n.id => k = n
    BY <1>1, PacketsDiffer DEF LockOK
  <2>1. n.id \in Ids
    BY DEF TypeOK, Message
  <2> QED
    BY <2>1, <1>2, <1>3, <1>5 DEF GrantInv, LockOK
<1>10. WaitOK'
  <2> SUFFICES ASSUME NEW j \in elems, is_waiting[j]
               PROVE  /\ ~Granted(j)'
                      /\ j[1] \in alive => phase'[j] = "asked" /\ want[j] = elem_lock[j]
    BY <1>1 DEF WaitOK
  <2>1. j \in Ids
    BY DEF TypeOK
  <2> QED
    BY <2>1, <1>2, <1>3, <1>5 DEF GrantInv, WaitOK
<1>11. IdleOK' /\ ShapeOK'
  BY <1>1, <1>3, PacketsDiffer DEF GrantInv, IdleOK, ShapeOK
<1> QED
  BY <1>6, <1>7, <1>8, <1>9, <1>10, <1>11 DEF GrantInv

\* A client that dies takes its RET packets with it; a lock it has asked for or
\* released may still reach the mserv.
LEMMA GrantCrash ==
  ASSUME TypeOK, GrantInv, NEW c \in Clients, Crash(c)
  PROVE  GrantInv'
<1>1. /\ alive' = alive \ {c}
      /\ glock' = glock /\ elems' = elems /\ elem_lock' = elem_lock
      /\ is_waiting' = is_waiting
  BY DEF Crash, mservVars
<1>2. /\ msgs' \subseteq msgs
      /\ \A m \in msgs : m.id[1] = c /\ m.type = "RET" => m \notin msgs'
  BY DEF Crash
<1>3. \A j \in Ids : /\ j[1] = c => phase'[j] = "idle"
                     /\ j[1] # c => phase'[j] = phase[j] /\ want'[j] = want[j]
  BY DEF Crash
<1>4. \A j \in Ids : RetPkt(j) \in msgs' => RetPkt(j) \in msgs /\ j[1] # c
  BY <1>2, PacketsDiffer
<1>5. \A j \in Ids : Granted(j)' => Granted(j)
  BY <1>2, <1>3 DEF Granted
<1>6. GrantBacked' /\ GrantDisjoint'
  BY <1>1, <1>5 DEF GrantInv, GrantBacked, GrantDisjoint
<1>7. HeldOK' /\ DeadOK'
  BY <1>1, <1>3 DEF GrantInv, HeldOK, DeadOK
<1>8. RetOK' /\ UnlockOK'
  BY <1>1, <1>2, <1>3, <1>4 DEF GrantInv, RetOK, UnlockOK
<1>9. LockOK'
  <2> SUFFICES ASSUME NEW n \in msgs', n.type = "LOCK"
               PROVE  /\ n.id \notin elems /\ ~Granted(n.id)'
                      /\ n.id[1] \in alive' => phase'[n.id] = "asked" /\ want'[n.id] = n.lock
                      /\ \A k \in msgs' : k.type = "LOCK" /\ k.id = n.id => k = n
    BY <1>1 DEF LockOK
  <2>1. n \in msgs /\ n.id \in Ids
    BY <1>2 DEF TypeOK, Message
  <2> QED
    BY <2>1, <1>1, <1>2, <1>3, <1>5 DEF GrantInv, LockOK
<1>10. WaitOK'
  <2> SUFFICES ASSUME NEW j \in elems, is_waiting[j]
               PROVE  /\ ~Granted(j)'
                      /\ j[1] \in alive' => phase'[j] = "asked" /\ want'[j] = elem_lock[j]
    BY <1>1 DEF WaitOK
  <2>1. j \in Ids
    BY DEF TypeOK
  <2> QED
    BY <2>1, <1>1, <1>3, <1>5 DEF GrantInv, WaitOK
<1>11. IdleOK' /\ ShapeOK'
  BY <1>1, <1>2, <1>3 DEF GrantInv, IdleOK, ShapeOK
<1> QED
  BY <1>6, <1>7, <1>8, <1>9, <1>10, <1>11 DEF GrantInv

LEMMA GrantUnchanged ==
  ASSUME GrantInv, UNCHANGED <<mservVars, msgs, clientVars, alive>>
  PROVE  GrantInv'
  BY DEF GrantInv, GrantBacked, GrantDisjoint, HeldOK, RetOK, UnlockOK, LockOK,
         WaitOK, IdleOK, DeadOK, ShapeOK, Granted, mservVars, clientVars

LEMMA GrantNext ==
  ASSUME TypeOK, GrantInv, [Next]_vars, ~ \E c \in Clients : Restart(c)
  PROVE  GrantInv'
<1>1. CASE \E m \in msgs : MservGlock(m)
  BY <1>1, GrantMservGlock
<1>2. CASE \E m \in msgs : MservGlockUnlock(m)
  BY <1>2, GrantMservGlockUnlock
<1>3. CASE \E i \in Ids : ClientLock(i)
  BY <1>3, GrantClientLock
<1>4. CASE \E i \in Ids : ClientGranted(i)
  BY <1>4, GrantClientGranted
<1>5. CASE \E i \in Ids : ClientUnlock(i)
  BY <1>5, GrantClientUnlock
<1>6. CASE \E c \in Clients : Crash(c)
  BY <1>6, GrantCrash
<1>7. CASE \E c \in Clients : Disconnect(c)
  BY <1>7, GrantUnchanged DEF Disconnect
<1>8. CASE UNCHANGED vars
  BY <1>8, GrantUnchanged DEF vars
<1> QED
  BY <1>1, <1>2, <1>3, <1>4, <1>5, <1>6, <1>7, <1>8 DEF Next

\* No client comes back without a death: nobody has come back after a step only
\* if nobody had before it.
Deaths == Cardinality(Clients \ alive) <= crashes

LEMMA DeathsNext ==
  ASSUME TypeOK, Deaths, [Next]_vars
  PROVE  Deaths' /\ (NobodyCameBack' => NobodyCameBack /\ ~ \E c \in Clients : Restart(c))
<1> DEFINE dead == Clients \ alive
<1>1. IsFiniteSet(dead) /\ Cardinality(dead) \in Nat /\ crashes \in Nat
  BY GlockAssumption, FS_Subset, FS_CardinalityType DEF TypeOK
<1>2. ASSUME NEW c \in Clients, Crash(c)
      PROVE  /\ Deaths' /\ (NobodyCameBack' => NobodyCameBack)
             /\ ~ \E d \in Clients : Restart(d)
  <2>1. dead' = dead \cup {c} /\ c \notin dead /\ crashes' = crashes + 1
    BY <1>2 DEF Crash
  <2>2. Cardinality(dead') = Cardinality(dead) + 1
    BY <1>1, <2>1, FS_AddElement
  <2>3. ~ \E d \in Clients : Restart(d)
    BY <1>1, <2>1 DEF Restart
  <2> QED
    BY <1>1, <2>1, <2>2, <2>3 DEF Deaths, NobodyCameBack
<1>3. ASSUME NEW c \in Clients, Restart(c)
      PROVE  Deaths' /\ ~NobodyCameBack'
  <2>1. dead' = dead \ {c} /\ c \in dead /\ crashes' = crashes
    BY <1>3 DEF Restart
  <2>2. Cardinality(dead') = Cardinality(dead) - 1
    BY <1>1, <2>1, FS_RemoveElement, ZenonT(30)
  <2> QED
    BY <1>1, <2>1, <2>2 DEF Deaths, NobodyCameBack
<1>4. CASE UNCHANGED <<alive, crashes>> /\ ~ \E c \in Clients : Restart(c)
  BY <1>4 DEF Deaths, NobodyCameBack
<1>5. \/ \E c \in Clients : Crash(c)
      \/ \E c \in Clients : Restart(c)
      \/ UNCHANGED <<alive, crashes>> /\ ~ \E c \in Clients : Restart(c)
  BY DEF Next, MservGlock, MservGlockUnlock, ClientLock, ClientGranted, ClientUnlock, Disconnect, vars
<1> QED
  BY <1>2, <1>3, <1>4, <1>5

\* The global lock excludes: as long as no client that died has been started
\* again, two clients that s_core_mserv_glock or s_core_mserv_glock_unlock has
\* told of a grant never hold overlapping masks, for any number of clients,
\* requests, bits and crashes.
THEOREM MutexCorrect == Spec => []MutualExclusion
<1> DEFINE MutexInv == Deaths /\ (NobodyCameBack => GrantInv)
<1>1. Init => TypeOK /\ MutexInv
  <2>1. Init => Deaths
    BY FS_EmptySet DEF Init, Deaths
  <2> QED
    BY <2>1, TypeInit, GrantInit
<1>2. TypeOK /\ MutexInv /\ [Next]_vars => (TypeOK /\ MutexInv)'
  BY TypeNext, GrantNext, DeathsNext
<1>3. TypeOK /\ MutexInv => MutualExclusion
  BY DEF GrantInv, GrantDisjoint, HeldOK, Granted, MutualExclusion
<1> HIDE DEF MutexInv
<1> QED
  BY <1>1, <1>2, <1>3, PTL DEF Spec

-----------------------------------------------------------------------------
LEMMA WaitersNext ==
  ASSUME TypeOK, WaitersAreBlocked, [Next]_vars
  PROVE  WaitersAreBlocked'
<1> USE DEF WaitersAreBlocked
<1>1. CASE \E m \in msgs : MservGlock(m)
  <2> PICK m \in msgs : MservGlock(m)
    BY <1>1
  <2>1. /\ m.id \in Ids /\ elems' = elems \cup {m.id} /\ glock \subseteq glock'
        /\ elem_lock' = [elem_lock EXCEPT ![m.id] = m.lock]
        /\ is_waiting' = [is_waiting EXCEPT ![m.id] = glock \cap m.lock # {}]
    BY DEF MservGlock, TypeOK, Message
  <2> SUFFICES ASSUME NEW i \in elems', is_waiting'[i]
               PROVE  elem_lock'[i] \cap glock' # {}
    OBVIOUS
  <2>2. CASE i = m.id
    BY <2>1, <2>2 DEF TypeOK
  <2>3. CASE i # m.id
    BY <2>1, <2>3 DEF TypeOK
  <2> QED
    BY <2>2, <2>3
<1>2. CASE \E m \in msgs : MservGlockUnlock(m)
  <2> PICK m \in msgs : MservGlockUnlock(m)
    BY <1>2
  <2>1. CASE m.id \notin elems
    BY <2>1 DEF MservGlockUnlock, mservVars
  <2>2. CASE m.id \in elems
    <3>1. PICK ok \in SUBSET elems', gone \in SUBSET elems' :
            /\ IterToUnlock({j \in elems' : is_waiting[j]},
                            glock \ elem_lock[m.id], ok, gone)
            /\ glock' = (glock \ elem_lock[m.id]) \cup MaskOf(ok)
            /\ is_waiting' = [j \in Ids |-> is_waiting[j] /\ j \notin ok \cup gone]
      BY <2>2, ZenonT(30) DEF MservGlockUnlock
    <3>2. elem_lock' = elem_lock /\ elems' \subseteq Ids
      BY <2>2 DEF MservGlockUnlock, TypeOK
    <3> QED
      BY <3>1, <3>2 DEF IterToUnlock
  <2> QED
    BY <2>1, <2>2
<1>3. CASE UNCHANGED mservVars
  BY <1>3 DEF mservVars
<1> QED
  BY <1>1, <1>2, <1>3
     DEF Next, ClientLock, ClientGranted, ClientUnlock, Crash, Disconnect, Restart, vars

\* No lost wakeup in the global lock: between two handlers every waiting element
\* finds one of its bits taken, also when clients die and come back.
THEOREM WaitersCorrect == Spec => []WaitersAreBlocked
<1>1. Init => WaitersAreBlocked
  BY DEF Init, WaitersAreBlocked
<1> QED
  BY <1>1, TypeInit, TypeNext, WaitersNext, PTL DEF Spec

-----------------------------------------------------------------------------
\* Every grant belongs to an owner; the bits of an owner are taken, and no other
\* owner has them.
GrantOwned == \A i \in Ids : Granted(i) => i \in owners

OwnersBacked ==
  \A i \in owners : i \in elems /\ ~is_waiting[i] /\ elem_lock[i] \subseteq glock

OwnersDisjoint ==
  \A i, j \in owners : i # j => elem_lock[i] \cap elem_lock[j] = {}

OwnInv == GrantOwned /\ OwnersBacked /\ OwnersDisjoint

\* A new element becomes an owner only of bits that are not taken.
LEMMA OwnMservGlock ==
  ASSUME TypeOK, GrantInv, OwnInv, NEW m \in msgs, MservGlock(m)
  PROVE  OwnInv'
<1> DEFINE i == m.id
           free == glock \cap m.lock = {}
<1>1. m.type = "LOCK" /\ i \in Ids /\ i \notin elems /\ i \notin owners /\ ~Granted(i)
  BY DEF MservGlock, TypeOK, Message, GrantInv, LockOK, OwnInv, OwnersBacked
<1>2. /\ elems' = elems \cup {i}
      /\ elem_lock' = [elem_lock EXCEPT ![i] = m.lock]
      /\ is_waiting' = [is_waiting EXCEPT ![i] = ~free]
      /\ phase' = phase
  BY DEF MservGlock, clientVars
<1>3. /\ free => glock' = glock \cup m.lock /\ owners' = owners \cup {i}
      /\ ~free => glock' = glock /\ owners' = owners
  BY <1>1 DEF MservGlock
<1>4. \A n \in msgs' : n \in msgs \/ (n = RetPkt(i) /\ free)
  BY DEF MservGlock
<1>5. \A j \in Ids : Granted(j)' => Granted(j) \/ (j = i /\ free)
  BY <1>2, <1>4, PacketsDiffer DEF Granted
<1>6. /\ elem_lock'[i] = m.lock /\ is_waiting'[i] = ~free
      /\ \A j \in owners : /\ j # i /\ j \in elems /\ elem_lock[j] \subseteq glock
                           /\ elem_lock'[j] = elem_lock[j] /\ ~is_waiting'[j]
  BY <1>1, <1>2 DEF TypeOK, OwnInv, OwnersBacked
<1>7. GrantOwned'
  BY <1>3, <1>5 DEF OwnInv, GrantOwned
<1>8. OwnersBacked'
  BY <1>2, <1>3, <1>6 DEF OwnersBacked
<1>9. OwnersDisjoint'
  BY <1>3, <1>6 DEF OwnInv, OwnersDisjoint
<1> QED
  BY <1>7, <1>8, <1>9 DEF OwnInv

\* A release takes the bits of its own element only, and the waiters it serves
\* become owners of bits that are then free.
LEMMA OwnMservGlockUnlock ==
  ASSUME TypeOK, GrantInv, OwnInv, NEW m \in msgs, MservGlockUnlock(m)
  PROVE  OwnInv'
<1> DEFINE i == m.id
<1>1. m.type = "UNLOCK" /\ i \in Ids /\ m = UnlockPkt(i)
  BY DEF MservGlockUnlock, TypeOK, Message, GrantInv, ShapeOK
<1>2. i \in owners /\ i \in elems
  BY <1>1 DEF OwnInv, GrantOwned, OwnersBacked, Granted
<1>3. phase[i] # "held" /\ RetPkt(i) \notin msgs
  BY <1>1 DEF GrantInv, UnlockOK, DeadOK, RetOK
<1>4. elems' = elems \ {i} /\ elem_lock' = elem_lock /\ phase' = phase
  BY <1>2 DEF MservGlockUnlock, clientVars
<1>5. PICK ok \in SUBSET elems', gone \in SUBSET elems' :
        /\ IterToUnlock({j \in elems' : is_waiting[j]}, glock \ elem_lock[i], ok, gone)
        /\ glock' = (glock \ elem_lock[i]) \cup MaskOf(ok)
        /\ owners' = (owners \ {i}) \cup ok
        /\ is_waiting' = [j \in Ids |-> is_waiting[j] /\ j \notin ok \cup gone]
        /\ msgs' = (msgs \ {m}) \cup {RetPkt(j) : j \in {k \in ok : k[1] \in alive}}
  BY <1>2 DEF MservGlockUnlock
<1>6. /\ \A j \in ok : /\ j \in elems' /\ j \in Ids /\ j # i
                       /\ elem_lock[j] \cap (glock \ elem_lock[i]) = {}
                       /\ elem_lock[j] \subseteq glock'
      /\ \A j, k \in ok : j # k => elem_lock[j] \cap elem_lock[k] = {}
  BY <1>4, <1>5 DEF IterToUnlock, TypeOK, MaskOf
<1>7. \A j \in owners \ {i} : /\ j \in elems' /\ j \in Ids /\ ~is_waiting[j]
                              /\ elem_lock[j] \subseteq glock \ elem_lock[i]
  BY <1>2, <1>4 DEF OwnInv, OwnersBacked, OwnersDisjoint, TypeOK
<1>8. \A j \in Ids : Granted(j)' => (Granted(j) /\ j # i) \/ j \in ok
  <2>1. \A n \in msgs' : (n \in msgs /\ n # UnlockPkt(i)) \/ \E k \in ok : n = RetPkt(k)
    BY <1>1, <1>5, PacketsDiffer
  <2> QED
    BY <2>1, <1>3, <1>4, PacketsDiffer DEF Granted
<1>9. GrantOwned'
  BY <1>5, <1>8 DEF OwnInv, GrantOwned
<1>10. OwnersBacked'
  <2> SUFFICES ASSUME NEW j \in owners'
               PROVE  j \in elems' /\ ~is_waiting'[j] /\ elem_lock[j] \subseteq glock'
    BY <1>4 DEF OwnersBacked
  <2>1. CASE j \in ok
    BY <2>1, <1>5, <1>6
  <2>2. CASE j \in owners \ {i}
    BY <2>2, <1>5, <1>7
  <2> QED
    BY <2>1, <2>2, <1>5
<1>11. OwnersDisjoint'
  <2>1. \A j, k \in owners \ {i} : j # k => elem_lock[j] \cap elem_lock[k] = {}
    BY DEF OwnInv, OwnersDisjoint
  <2>2. \A j \in owners \ {i}, k \in ok : elem_lock[j] \cap elem_lock[k] = {}
    BY <1>6, <1>7
  <2> QED
    BY <2>1, <2>2, <1>4, <1>5, <1>6 DEF OwnersDisjoint
<1> QED
  BY <1>9, <1>10, <1>11 DEF OwnInv

LEMMA OwnNext ==
  ASSUME TypeOK, GrantInv, OwnInv, [Next]_vars, ~ \E c \in Clients : Restart(c)
  PROVE  OwnInv'
<1>1. CASE \E m \in msgs : MservGlock(m)
  BY <1>1, OwnMservGlock
<1>2. CASE \E m \in msgs : MservGlockUnlock(m)
  BY <1>2, OwnMservGlockUnlock
<1>3. CASE UNCHANGED mservVars /\ \A i \in Ids : Granted(i)' => Granted(i)
  BY <1>3 DEF OwnInv, GrantOwned, OwnersBacked, OwnersDisjoint, mservVars
<1>4. ASSUME NEW i \in Ids, ClientLock(i)
      PROVE  UNCHANGED mservVars /\ \A j \in Ids : Granted(j)' => Granted(j)
  BY <1>4, PacketsDiffer DEF ClientLock, Granted, TypeOK
<1>5. ASSUME NEW i \in Ids, ClientGranted(i)
      PROVE  UNCHANGED mservVars /\ \A j \in Ids : Granted(j)' => Granted(j)
  BY <1>5, PacketsDiffer DEF ClientGranted, Granted, TypeOK
<1>6. ASSUME NEW i \in Ids, ClientUnlock(i)
      PROVE  UNCHANGED mservVars /\ \A j \in Ids : Granted(j)' => Granted(j)
  BY <1>6, PacketsDiffer DEF ClientUnlock, Granted, TypeOK
<1>7. ASSUME NEW c \in Clients, Crash(c)
      PROVE  UNCHANGED mservVars /\ \A j \in Ids : Granted(j)' => Granted(j)
  BY <1>7 DEF Crash, Granted
<1>8. ASSUME UNCHANGED <<mservVars, msgs, phase>>
      PROVE  UNCHANGED mservVars /\ \A j \in Ids : Granted(j)' => Granted(j)
  BY <1>8 DEF Granted
<1> QED
  BY <1>1, <1>2, <1>3, <1>4, <1>5, <1>6, <1>7, <1>8
     DEF Next, Disconnect, Restart, vars, clientVars

\* Until a client that died has been started again, s_core_mserv_glock_unlock
\* clears a bit only for the one request that has been granted it: no release of
\* one request frees what another owns, whichever clients die, wait or are gone.
THEOREM OnlyOwnerFreesCorrect == Spec => OnlyOwnerFrees
<1> DEFINE Inv == Deaths /\ (NobodyCameBack => GrantInv /\ OwnInv)
           Frees == NobodyCameBack =>
                      \A x \in glock \ glock' :
                        \E i \in owners \ owners' :
                          /\ x \in elem_lock[i] /\ UnlockPkt(i) \in msgs \ msgs'
                          /\ \A j \in owners \ {i} : x \notin elem_lock[j]
<1>1. Init => TypeOK /\ Inv
  <2>1. Init => Deaths
    BY FS_EmptySet DEF Init, Deaths
  <2>2. Init => OwnInv
    BY DEF Init, OwnInv, GrantOwned, OwnersBacked, OwnersDisjoint, Granted
  <2> QED
    BY <2>1, <2>2, TypeInit, GrantInit
<1>2. TypeOK /\ Inv /\ [Next]_vars => (TypeOK /\ Inv)'
  BY TypeNext, GrantNext, OwnNext, DeathsNext
<1>3. TypeOK /\ Inv /\ [Next]_vars => [Frees]_vars
  <2> SUFFICES ASSUME TypeOK, GrantInv, OwnInv, [Next]_vars, NEW x \in glock \ glock'
               PROVE  \E i \in owners \ owners' :
                        /\ x \in elem_lock[i] /\ UnlockPkt(i) \in msgs \ msgs'
                        /\ \A j \in owners \ {i} : x \notin elem_lock[j]
    OBVIOUS
  <2>1. PICK m \in msgs : MservGlockUnlock(m)
    BY DEF Next, vars, mservVars, MservGlock, ClientLock, ClientGranted, ClientUnlock,
           Crash, Disconnect, Restart
  <2>2. m.type = "UNLOCK" /\ m.id \in Ids /\ m = UnlockPkt(m.id)
    BY <2>1 DEF MservGlockUnlock, TypeOK, Message, GrantInv, ShapeOK
  <2>3. m.id \in owners /\ m.id \in elems
    BY <2>2 DEF OwnInv, GrantOwned, OwnersBacked, Granted
  <2>4. PICK ok \in SUBSET elems' :
          /\ elems' = elems \ {m.id}
          /\ owners' = (owners \ {m.id}) \cup ok
          /\ glock' = (glock \ elem_lock[m.id]) \cup MaskOf(ok)
          /\ msgs' = (msgs \ {m}) \cup {RetPkt(i) : i \in {j \in ok : j[1] \in alive}}
    BY <2>1, <2>3 DEF MservGlockUnlock
  <2>5. x \in elem_lock[m.id] /\ m.id \notin owners' /\ m \notin msgs'
    BY <2>2, <2>4, PacketsDiffer
  <2>6. \A j \in owners \ {m.id} : x \notin elem_lock[j]
    BY <2>3, <2>5 DEF OwnInv, OwnersDisjoint
  <2> QED
    BY <2>2, <2>3, <2>5, <2>6
<1> HIDE DEF Inv
<1> QED
  BY <1>1, <1>2, <1>3, PTL DEF Spec, OnlyOwnerFrees

-----------------------------------------------------------------------------
\* The elements that hold their bits.
Served == {i \in elems : ~is_waiting[i]}

\* The bits of the mask are those of the owners, and no two owners share one.
Exact ==
  /\ glock = MaskOf(Served)
  /\ \A i, j \in Served : i # j => elem_lock[i] \cap elem_lock[j] = {}

\* While nobody has died every client runs and is connected, so the loop of
\* s_core_mserv_glock_unlock drops no waiter.
AllUp == alive = Clients /\ connected = Clients

LeakInv == crashes = 0 => AllUp /\ GrantInv /\ Exact

\* A new element joins the owners exactly when its bits are all free.
LEMMA ExactMservGlock ==
  ASSUME TypeOK, GrantInv, Exact, NEW m \in msgs, MservGlock(m)
  PROVE  Exact'
<1> DEFINE i == m.id
<1>1. m.type = "LOCK" /\ i \in Ids /\ i \notin elems
  BY DEF MservGlock, TypeOK, Message, GrantInv, LockOK
<1>2. /\ elems' = elems \cup {i}
      /\ elem_lock' = [elem_lock EXCEPT ![i] = m.lock]
      /\ is_waiting' = [is_waiting EXCEPT ![i] = glock \cap m.lock # {}]
  BY DEF MservGlock
<1>3. /\ elem_lock'[i] = m.lock /\ is_waiting'[i] = (glock \cap m.lock # {})
      /\ \A j \in elems : /\ j \in Ids /\ j # i
                          /\ elem_lock'[j] = elem_lock[j]
                          /\ is_waiting'[j] = is_waiting[j]
  BY <1>1, <1>2 DEF TypeOK
<1>4. \A j \in Served : j \in elems /\ elem_lock[j] \subseteq glock
  BY DEF Exact, MaskOf, Served
<1>5. CASE glock \cap m.lock = {}
  <2>1. Served' = Served \cup {i}
    <3>1. ~is_waiting'[i] /\ \A j \in elems : is_waiting'[j] <=> is_waiting[j]
      BY <1>3, <1>5
    <3>2. \A j : j \in elems' /\ ~is_waiting'[j] <=> (j \in elems /\ ~is_waiting[j]) \/ j = i
      BY <3>1, <1>2
    <3> QED
      BY <3>2 DEF Served
  <2>2. glock' = glock \cup m.lock
    BY <1>5 DEF MservGlock
  <2>a. \A j \in Served : elem_lock'[j] = elem_lock[j]
    BY <1>3, <1>4
  <2>3. MaskOf(Served)' = MaskOf(Served) \cup m.lock
    <3>1. \A x : (\E j \in Served' : x \in elem_lock'[j])
                 <=> (\E j \in Served : x \in elem_lock[j]) \/ x \in m.lock
      BY <2>1, <2>a, <1>3
    <3> QED
      BY <3>1 DEF MaskOf
  <2>4. \A j \in Served : elem_lock[j] \cap m.lock = {}
    BY <1>4, <1>5
  <2>5. \A j, k \in Served' : j # k => elem_lock'[j] \cap elem_lock'[k] = {}
    BY <2>1, <2>4, <1>3, <1>4 DEF Exact
  <2> QED
    BY <2>2, <2>3, <2>5 DEF Exact
<1>6. CASE glock \cap m.lock # {}
  <2>1. Served' = Served
    <3>1. is_waiting'[i] /\ \A j \in elems : is_waiting'[j] <=> is_waiting[j]
      BY <1>3, <1>6
    <3>2. \A j : j \in elems' /\ ~is_waiting'[j] <=> j \in elems /\ ~is_waiting[j]
      BY <3>1, <1>2
    <3> QED
      BY <3>2 DEF Served
  <2>2. glock' = glock
    BY <1>6 DEF MservGlock
  <2>3. MaskOf(Served)' = MaskOf(Served)
    BY <2>1, <1>3, <1>4 DEF MaskOf
  <2> QED
    BY <2>1, <2>2, <2>3, <1>3, <1>4 DEF Exact
<1> QED
  BY <1>5, <1>6

\* The released element leaves the owners with its bits, and each waiter that the
\* loop serves joins them with bits that no other owner has.
LEMMA ExactMservGlockUnlock ==
  ASSUME TypeOK, GrantInv, Exact, connected = Clients,
         NEW m \in msgs, MservGlockUnlock(m)
  PROVE  Exact'
<1> DEFINE i == m.id
<1>1. m.type = "UNLOCK" /\ i \in Ids /\ m = UnlockPkt(i)
  BY DEF MservGlockUnlock, TypeOK, Message, GrantInv, ShapeOK
<1>2. i \in elems /\ ~is_waiting[i] /\ elem_lock[i] \subseteq glock
  BY <1>1 DEF GrantInv, GrantBacked, Granted
<1>3. elems' = elems \ {i} /\ elem_lock' = elem_lock
  BY <1>2 DEF MservGlockUnlock
<1>4. PICK ok \in SUBSET elems', gone \in SUBSET elems' :
        /\ IterToUnlock({j \in elems' : is_waiting[j]}, glock \ elem_lock[i], ok, gone)
        /\ glock' = (glock \ elem_lock[i]) \cup MaskOf(ok)
        /\ is_waiting' = [j \in Ids |-> is_waiting[j] /\ j \notin ok \cup gone]
  BY <1>2 DEF MservGlockUnlock
<1>5. gone = {}
  <2>1. \A j \in elems' : j[1] \in connected
    BY <1>3 DEF TypeOK, Ids
  <2> QED
    BY <2>1, <1>4 DEF IterToUnlock
<1>6. /\ \A j \in ok : /\ j \in elems /\ j # i /\ is_waiting[j]
                       /\ elem_lock[j] \cap (glock \ elem_lock[i]) = {}
      /\ \A j, k \in ok : j # k => elem_lock[j] \cap elem_lock[k] = {}
  BY <1>3, <1>4 DEF IterToUnlock
<1>7. \A j \in elems' : j \in Ids /\ (is_waiting'[j] <=> is_waiting[j] /\ j \notin ok)
  BY <1>3, <1>4, <1>5 DEF TypeOK
<1>8. Served' = (Served \ {i}) \cup ok
  BY <1>3, <1>4, <1>6, <1>7 DEF Served
<1>9. i \in Served /\ \A j \in Served : elem_lock[j] \subseteq glock
  BY <1>2 DEF Served, Exact, MaskOf
<1>10. \A j \in Served \ {i} : elem_lock[j] \subseteq glock \ elem_lock[i]
  BY <1>9 DEF Exact
<1>11. glock \ elem_lock[i] = MaskOf(Served \ {i})
  <2>1. glock \ elem_lock[i] \subseteq MaskOf(Served \ {i})
    BY DEF Exact, MaskOf
  <2>2. MaskOf(Served \ {i}) \subseteq glock \ elem_lock[i]
    BY <1>10 DEF MaskOf
  <2> QED
    BY <2>1, <2>2
<1>12. glock' = MaskOf(Served)'
  <2>1. MaskOf(Served)' = MaskOf(Served \ {i}) \cup MaskOf(ok)
    BY <1>3, <1>8 DEF MaskOf
  <2> QED
    BY <2>1, <1>4, <1>11
<1>13. \A j \in Served \ {i}, k \in ok : elem_lock[j] \cap elem_lock[k] = {}
  BY <1>6, <1>10
<1>14. \A j, k \in Served' : j # k => elem_lock[j] \cap elem_lock[k] = {}
  <2>1. \A j, k \in Served \ {i} : j # k => elem_lock[j] \cap elem_lock[k] = {}
    BY DEF Exact
  <2> QED
    BY <2>1, <1>6, <1>8, <1>13
<1> QED
  BY <1>3, <1>12, <1>14 DEF Exact

LEMMA LeakNext ==
  ASSUME TypeOK, LeakInv, [Next]_vars
  PROVE  LeakInv'
<1> SUFFICES ASSUME crashes' = 0 PROVE (AllUp /\ GrantInv /\ Exact)'
  BY DEF LeakInv
<1>1. crashes = 0 /\ ~ \E c \in Clients : Crash(c)
  <2>1. ~ \E c \in Clients : Crash(c)
    BY DEF Crash, TypeOK
  <2>2. crashes' = crashes
    BY <2>1 DEF Next, MservGlock, MservGlockUnlock, ClientLock, ClientGranted,
                ClientUnlock, Disconnect, Restart, vars
  <2> QED
    BY <2>1, <2>2
<1>2. AllUp /\ GrantInv /\ Exact
  BY <1>1 DEF LeakInv
<1>3. ~ (\E c \in Clients : Restart(c)) /\ ~ (\E c \in Clients : Disconnect(c))
  BY <1>2 DEF AllUp, Restart, Disconnect
<1>4. GrantInv'
  BY <1>2, <1>3, GrantNext
<1>5. AllUp'
  <2>1. UNCHANGED <<alive, connected>>
    BY <1>1, <1>3
       DEF Next, MservGlock, MservGlockUnlock, ClientLock, ClientGranted,
           ClientUnlock, vars
  <2> QED
    BY <2>1, <1>2 DEF AllUp
<1>6. Exact'
  <2>1. CASE \E m \in msgs : MservGlock(m)
    BY <2>1, <1>2, ExactMservGlock
  <2>2. CASE \E m \in msgs : MservGlockUnlock(m)
    BY <2>2, <1>2, ExactMservGlockUnlock DEF AllUp
  <2>3. CASE UNCHANGED mservVars
    BY <2>3, <1>2 DEF Exact, Served, MaskOf, mservVars
  <2> QED
    BY <2>1, <2>2, <2>3, <1>1, <1>3
       DEF Next, ClientLock, ClientGranted, ClientUnlock, vars
<1> QED
  BY <1>4, <1>5, <1>6

\* While no client has died the mask of the mserv is exactly the bits of the
\* elements it has granted, each bit owned once: no release leaks a bit or frees
\* one that another element holds.
THEOREM NoLeakCorrect == Spec => []NoLeak
<1>1. Init => LeakInv
  BY GrantInit DEF Init, LeakInv, AllUp, Exact, MaskOf, Served
<1>2. LeakInv => NoLeak
  BY DEF LeakInv, Exact, MaskOf, Served, NoLeak
<1> QED
  BY <1>1, <1>2, TypeInit, TypeNext, LeakNext, PTL DEF Spec

=============================================================================
