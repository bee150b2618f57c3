---------------------------- MODULE MCDservLock ----------------------------
(* Instances of DservLock: three dservs, one or two clients.               *)
EXTENDS DservLock

CONSTANTS c1, c2, lA, lB, lC, lD

MCClients == {c1, c2}
MCClient == {c1}

\* Three locks, each two of which meet on one or two dservs.
MCLocks3 == {lA, lB, lC}
MCOwner3 == (lA :> c1 @@ lB :> c1 @@ lC :> c1)
MCChain3 == (lA :> <<1, 2, 3>> @@ lB :> <<1, 3>> @@ lC :> <<2, 3>>)

\* Four locks: a fourth one starts in the middle of the others' lists.
MCLocks4 == {lA, lB, lC, lD}
MCOwner4 == (lA :> c1 @@ lB :> c1 @@ lC :> c2 @@ lD :> c2)
MCChain4 == (lA :> <<1, 2, 3>> @@ lB :> <<1, 3>> @@ lC :> <<1, 2>> @@ lD :> <<2, 3>>)
=============================================================================
