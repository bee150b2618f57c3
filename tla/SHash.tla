------------------------------- MODULE SHash -------------------------------
(***************************************************************************)
(* The hash table (common/s_hash.c) that holds the rpc calls, locks and    *)
(* files of every server.  All keys lie in one array: a key whose main     *)
(* position is taken goes to a free node that is chained to it, and a node *)
(* in the way of another chain's first key is moved.  The table doubles    *)
(* when no node is free.                                                   *)
(*                                                                         *)
(* A table is its array p and its list free_node, first element first.     *)
(* Nodes are numbered from 1; 0 is NULL.  link.next of a used node is its  *)
(* field next; a free node has the key NULL.  Values move with their nodes *)
(* (memcpy).                                                               *)
(***************************************************************************)
EXTENDS Naturals, Sequences, SequencesExt

CONSTANTS
  Key,                  \* the keys, numbers above 0
  Hash,                 \* iget_hash of every key
  Value,                \* what callers store, numbers
  NElem,                \* nelem_alloc of s_hash_create
  MaxElem               \* bound: the size up to which the table grows

ASSUME HashAssumption == Key \subseteq Nat \ {0} /\ Hash \in [Key -> Nat] /\ NElem \in Nat \ {0}

VARIABLE table

NULL == 0
FreeNode == [key |-> NULL, next |-> NULL, val |-> NULL]

\* An array of n free nodes, each linked in at the head of free_node.
NewTable(n) == [p |-> [i \in 1 .. n |-> FreeNode], free |-> [i \in 1 .. n |-> n + 1 - i]]

\* s_hash_create
Init == table = NewTable(NElem)

\* The main position of a key.
MainPos(h, k) == (Hash[k] % Len(h.p)) + 1

\* The nodes of the walk of s_hash_get and s_hash_del, which starts at pos and
\* goes from link to link.
Chain(h, pos) ==
  LET at[i \in 0 .. Len(h.p)] ==
        IF i = 0 THEN pos ELSE LET n == at[i - 1] IN IF n = NULL THEN NULL ELSE h.p[n].next
  IN {n \in {at[i] : i \in 0 .. Len(h.p)} : n # NULL /\ h.p[n].key # NULL}

\* s_hash_get: the node of key k, or NULL.
Get(h, k) ==
  LET found == {n \in Chain(h, MainPos(h, k)) : h.p[n].key = k}
  IN IF found = {} THEN NULL ELSE CHOOSE n \in found : TRUE

\* The node whose link leads to n on the chain from pos (the walk of s_hash_set).
Before(h, pos, n) == {m \in Chain(h, pos) : h.p[m].next = n}

---------------------------------------------------------------------------
(* s_hash_set of a key that is not in the table, when a node is free: the  *)
(* table and the node for the key.                                         *)

\* The main position is free; free_node is put back.
AtMainPos(h, k) ==
  LET pos == MainPos(h, k)
  IN [node |-> pos,
      table |-> [p |-> [h.p EXCEPT ![pos].key = k, ![pos].next = NULL],
                 free |-> RemoveAt(h.free, CHOOSE i \in DOMAIN h.free : h.free[i] = pos)]]

\* A key of the same chain is at the main position: free_node comes behind it.
Chained(h, k) ==
  LET pos == MainPos(h, k)
      f == Head(h.free)
  IN [node |-> f,
      table |-> [p |-> [h.p EXCEPT ![f].key = k, ![f].next = h.p[pos].next, ![pos].next = f],
                 free |-> Tail(h.free)]]

\* A key of another chain is there: its node moves to free_node.
Moved(h, k) ==
  LET pos == MainPos(h, k)
      f == Head(h.free)
      prev == CHOOSE m \in Before(h, MainPos(h, h.p[pos].key), pos) : TRUE
  IN [node |-> pos,
      table |-> [p |-> [h.p EXCEPT ![f] = h.p[pos], ![prev].next = f, ![pos].key = k, ![pos].next = NULL],
                 free |-> Tail(h.free)]]

Insert(h, k) ==
  LET there == h.p[MainPos(h, k)].key
  IN IF there = NULL THEN AtMainPos(h, k)
     ELSE IF MainPos(h, there) = MainPos(h, k) THEN Chained(h, k)
     ELSE Moved(h, k)

\* The assignment of the caller to the value of node n.
Store(h, n, v) == [h EXCEPT !.p[n].val = v]

\* s_hash_set of a new key when a node is free, and the assignment of its value.
Put(h, k, v) == LET r == Insert(h, k) IN Store(r.table, r.node, v)

\* Mutant of Expanded: the last node is forgotten.
ExpandedShort(h) ==
  LET old == h.p
      new[i \in 0 .. Len(old) - 1] ==
        IF i = 0 THEN NewTable(2 * Len(old)) ELSE Put(new[i - 1], old[i].key, old[i].val)
  IN new[Len(old) - 1]

\* The expansion of i_get_free_node: every node is set anew in a table of twice
\* the size (all are used, since free_node is empty).
Expanded(h) ==
  LET old == h.p
      new[i \in 0 .. Len(old)] ==
        IF i = 0 THEN NewTable(2 * Len(old)) ELSE Put(new[i - 1], old[i].key, old[i].val)
  IN new[Len(old)]

\* i_get_free_node leaves a table in which a node is free.
Room(h) == IF h.free = <<>> THEN Expanded(h) ELSE h

---------------------------------------------------------------------------
\* s_hash_set, and the caller's assignment to what it returns.
Set(k, v) ==
  /\ Get(table, k) = NULL /\ table.free = <<>> => 2 * Len(table.p) <= MaxElem
  /\ table' = IF Get(table, k) # NULL
                THEN Store(table, Get(table, k), v)
                ELSE Put(Room(table), k, v)

\* Mutant of Removed: the rest of the chain is cut off with the first node.
RemovedFirst(h, n, prev) ==
  IF prev # {}
    THEN [p |-> [h.p EXCEPT ![CHOOSE m \in prev : TRUE].next = h.p[n].next, ![n] = FreeNode],
          free |-> <<n>> \o h.free]
    ELSE [p |-> [h.p EXCEPT ![n] = FreeNode], free |-> <<n>> \o h.free]

\* Node n leaves the table; prev is the set of the node before it, if any.  The
\* second node of a chain is moved to the main position when the first one goes.
Removed(h, n, prev) ==
  LET next == h.p[n].next
  IN CASE prev # {} ->
            [p |-> [h.p EXCEPT ![CHOOSE m \in prev : TRUE].next = next, ![n] = FreeNode],
             free |-> <<n>> \o h.free]
       [] prev = {} /\ next # NULL ->
            [p |-> [h.p EXCEPT ![n] = h.p[next], ![next] = FreeNode], free |-> <<next>> \o h.free]
       [] OTHER -> [p |-> [h.p EXCEPT ![n] = FreeNode], free |-> <<n>> \o h.free]

\* s_hash_del
Del(k) ==
  LET n == Get(table, k)
  IN table' = IF n = NULL THEN table ELSE Removed(table, n, Before(table, MainPos(table, k), n))

Next == \E k \in Key : Del(k) \/ \E v \in Value : Set(k, v)

Spec == Init /\ [][Next]_table

---------------------------------------------------------------------------
Used(h) == {n \in 1 .. Len(h.p) : h.p[n].key # NULL}

\* What s_hash_get finds.
Stored == [k \in {k \in Key : Get(table, k) # NULL} |-> table.p[Get(table, k)].val]

\* The table is a map: no set, expansion, move or removal loses, repeats or mixes
\* up the keys and values of another chain.
IsMap == INSTANCE KeyMap WITH map <- Stored
MapSpec == IsMap!Spec

\* s_hash_next, which goes over the array, gives exactly the keys that
\* s_hash_get finds, each of them once.
IterationMatchesGet == \A n \in Used(table) : Get(table, table.p[n].key) = n

\* free_node holds exactly the nodes without a key, each once, so that
\* i_get_free_node never hands out a node in use and none is lost.
FreeExact ==
  /\ IsInjective(table.free)
  /\ {table.free[i] : i \in DOMAIN table.free} = (1 .. Len(table.p)) \ Used(table)

\* The assert of s_hash_set (inext(the_node) == node): a key that is not at its
\* main position is behind another one on the chain that starts there.
MoveFindsNode ==
  \A n \in Used(table) :
    MainPos(table, table.p[n].key) # n => Before(table, MainPos(table, table.p[n].key), n) # {}

\* The array, the chains in it and the list of free nodes stay consistent through
\* every move, removal and expansion of s_hash_set and s_hash_del.
TableSound == IterationMatchesGet /\ FreeExact /\ MoveFindsNode
=============================================================================
