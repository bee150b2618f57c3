----------------------------- MODULE LockQueue -----------------------------
(***************************************************************************)
(* The queue guarded by a lock (s_lock_queue.c, with a mutex or a spinlock *)
(* by use_mutex; s_spinlock_queue.c is the same code with its own          *)
(* spinlock) with the writer and the reader of src/test/s_main.c.          *)
(*                                                                         *)
(* The doubly linked list of s_list.h is kept with its pointers: element 0 *)
(* is q->elem_head, the others are the slots of g_buf in the order in      *)
(* which iget_free_elem hands them out.                                    *)
(***************************************************************************)
EXTENDS QueueParams, Sequences

VARIABLES
  owner,                \* who holds q->m or q->sl
  next, prev, data,     \* the fields of every element
  c,                    \* how many elements iget_free_elem has handed out
  wpc, before, i,       \* the writer: step, the list's last element, next value
  rpc, elem, got        \* the reader: step, element popped, values taken

lists == <<next, prev>>
writerVars == <<data, c, wpc, before, i>>
readerVars == <<rpc, elem, got>>
vars == <<owner, next, prev, data, c, wpc, before, i, rpc, elem, got>>

Head0 == 0              \* &q->elem_head
Nodes == 0 .. LOOP

\* s_lock_queue_create: an empty list.
Init ==
  /\ owner = "nobody"
  /\ next = [e \in Nodes |-> e] /\ prev = [e \in Nodes |-> e]
  /\ data = [e \in Nodes |-> 0] /\ c = 0
  /\ wpc = "lock" /\ before = 0 /\ i = 1
  /\ rpc = "lock" /\ elem = 0 /\ got = <<>>

\* pthread_mutex_lock, pthread_spin_lock and their unlock.
Lock(t) == owner = "nobody" /\ owner' = t
Unlock == owner' = "nobody"

---------------------------------------------------------------------------
PushLock ==
  /\ wpc = "lock" /\ i <= LOOP
  /\ Lock("writer")
  /\ wpc' = "new"
  /\ UNCHANGED <<lists, data, c, before, i, readerVars>>

\* iget_free_elem, elem->data = d, and the arguments of _s_list_insert.
PushNew ==
  /\ wpc = "new"
  /\ c' = c + 1 /\ data' = [data EXCEPT ![c + 1] = i]
  /\ before' = prev[Head0]
  /\ wpc' = "link"
  /\ UNCHANGED <<owner, lists, i, readerVars>>

\* s->prev = prev; s->next = next; prev->next = s
PushLink ==
  /\ wpc = "link"
  /\ prev' = [prev EXCEPT ![c] = before]
  /\ next' = [next EXCEPT ![c] = Head0, ![before] = c]
  /\ wpc' = "back"
  /\ UNCHANGED <<owner, data, c, before, i, readerVars>>

\* next->prev = s
PushBack ==
  /\ wpc = "back"
  /\ prev' = [prev EXCEPT ![Head0] = c]
  /\ wpc' = "unlock"
  /\ UNCHANGED <<owner, next, data, c, before, i, readerVars>>

PushUnlock ==
  /\ wpc = "unlock"
  /\ Unlock
  /\ wpc' = "lock" /\ i' = i + 1
  /\ UNCHANGED <<lists, data, c, before, readerVars>>

Write == PushLock \/ PushNew \/ PushLink \/ PushBack \/ PushUnlock

---------------------------------------------------------------------------
\* The reader pops until it has seen LOOP.
PopLock ==
  /\ rpc = "lock" /\ (IF got = <<>> THEN 0 ELSE got[Len(got)]) # LOOP
  /\ Lock("reader")
  /\ rpc' = "first"
  /\ UNCHANGED <<lists, elem, got, writerVars>>

\* A pop that does not wait for the lock, for the mutants of TestQueues.
PopUnguarded ==
  /\ rpc = "lock" /\ (IF got = <<>> THEN 0 ELSE got[Len(got)]) # LOOP
  /\ rpc' = "first"
  /\ UNCHANGED <<owner, lists, elem, got, writerVars>>

\* s_list_empty, s_list_first_entry: an empty list leaves data NULL.
PopFirst ==
  /\ rpc = "first"
  /\ elem' = next[Head0]
  /\ rpc' = IF next[Head0] = Head0 THEN "unlock" ELSE "unlink"
  /\ UNCHANGED <<owner, lists, got, writerVars>>

\* s_list_del: s->prev->next = s->next
PopUnlink ==
  /\ rpc = "unlink"
  /\ next' = [next EXCEPT ![prev[elem]] = next[elem]]
  /\ rpc' = "back"
  /\ UNCHANGED <<owner, prev, elem, got, writerVars>>

\* s->next->prev = s->prev; s_list_init(s)
PopBack ==
  /\ rpc = "back"
  /\ prev' = [prev EXCEPT ![next[elem]] = prev[elem], ![elem] = elem]
  /\ next' = [next EXCEPT ![elem] = elem]
  /\ rpc' = "unlock"
  /\ UNCHANGED <<owner, elem, got, writerVars>>

PopUnlock ==
  /\ rpc = "unlock"
  /\ Unlock
  /\ got' = IF elem = Head0 THEN got ELSE Append(got, data[elem])
  /\ rpc' = "lock" /\ elem' = Head0
  /\ UNCHANGED <<lists, writerVars>>

Read == PopLock \/ PopFirst \/ PopUnlink \/ PopBack \/ PopUnlock

Next == Write \/ Read

Spec == Init /\ [][Next]_vars

---------------------------------------------------------------------------
\* Elements are linked in the order of their numbers.  The k-th one in the queue,
\* counted from the oldest that no pop has returned, is the one the links lead to
\* from the one before it; an element that a pop has unlinked is still the first.
Newest == IF wpc = "link" THEN c - 1 ELSE c

Unlinked == IF rpc \in {"back", "unlock"} /\ elem # Head0 THEN 1 ELSE 0

Place(k) == IF k <= Unlinked THEN elem
            ELSE next[IF k = Unlinked + 1 THEN Head0 ELSE Len(got) + k - 1]

Contents == [k \in 1 .. (Newest - Len(got)) |-> data[Place(k)]]

Pushed == IF wpc \in {"back", "unlock"} THEN i ELSE i - 1

Abstract == INSTANCE Fifo WITH Value <- 1 .. LOOP, put <- [k \in 1 .. Pushed |-> k],
                               queue <- Contents, taken <- got

\* The lock makes the pointer updates of a push and of a pop one step for the
\* other thread: the queue is a FIFO queue.
IsFifo == Abstract!Spec
=============================================================================
