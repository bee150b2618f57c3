------------------------------- MODULE KeyMap -------------------------------
(***************************************************************************)
(* What a hash table promises: a map from keys to values.                  *)
(***************************************************************************)
CONSTANTS Key, Value

VARIABLE map            \* the value of every key that has one

Init == map = [k \in {} |-> {}]

\* s_hash_set and the assignment to what it returns.
Set(k, v) ==
  LET old == map IN map' = [j \in DOMAIN old \cup {k} |-> IF j = k THEN v ELSE old[j]]

\* s_hash_del
Del(k) == LET old == map IN map' = [j \in DOMAIN old \ {k} |-> old[j]]

Next == \E k \in Key : Del(k) \/ \E v \in Value : Set(k, v)

Spec == Init /\ [][Next]_map
=============================================================================
