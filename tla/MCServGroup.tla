--------------------------- MODULE MCServGroup ---------------------------
(* An instance of ServGroup for TLC.                                       *)
EXTENDS ServGroup

TwoProcs == {1, 2}
=============================================================================
