--------------------------- MODULE MCCreateFile ---------------------------
(* Instances of CreateFile for TLC.                                         *)
EXTENDS CreateFile, TLC

CONSTANTS c1, c2, f1

TwoMservs == {1, 2}
ThreeMservs == {1, 2, 3}
NoDserv == {}
OneDserv == {11}
TwoClients == {c1, c2}
OneName == {f1}

\* Each client may call any mserv, once.
Anywhere == [c \in TwoClients |-> MServs]
Once == [c \in TwoClients |-> 1]
\* One client calls the first mserv once, the other the last one twice, so that
\* answers to its first request meet the second.
NearEnds == [c \in TwoClients |-> IF c = c1 THEN {1} ELSE {3}]
OnceTwice == [c \in TwoClients |-> IF c = c1 THEN 1 ELSE 2]

=============================================================================
