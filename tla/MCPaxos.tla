------------------------------ MODULE MCPaxos ------------------------------
(* Situations for TLC.  The values are 3 and 4, the first ones of the driver's *)
(* counter, as the sets of their bits.                                        *)
EXTENDS Paxos

Three == {0, 1}
Four == {2}

\* Three members; servers 1 and 2 propose for one topic at once.
TwoProposers ==
  [members |-> 3, contact |-> <<>>, values |-> <<<<Three>>, <<Four>>, <<>>, <<>>>>,
   learns |-> <<2, 0, 0, 0>>, timeouts |-> 0]

\* Of two members each is asked to add a server.
TwoJoiners ==
  [members |-> 2, contact |-> [j \in {3, 4} |-> j - 2], values |-> <<<<>>, <<>>, <<>>, <<>>>>,
   learns |-> <<1, 1, 0, 0>>, timeouts |-> 1]

\* Server 1 proposes alone while server 2 joins it.
OneJoiner ==
  [members |-> 1, contact |-> [j \in {2} |-> 1], values |-> <<<<Three, Four>>, <<>>>>,
   learns |-> <<2, 2>>, timeouts |-> 2]

Rivals == {TwoProposers, TwoJoiners}
Join == {OneJoiner}
=============================================================================
