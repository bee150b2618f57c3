----------------------------- MODULE Queue1r1w -----------------------------
(***************************************************************************)
(* The queue without a lock for one reader and one writer                  *)
(* (s_1r1w_queue.c) with the two threads of src/test/s_main.c that use it: *)
(* the writer pushes 1 .. LOOP, the reader pops until it has seen LOOP.    *)
(*                                                                         *)
(* The elements are the slots of g_buf, numbered in the order in which     *)
(* iget_free_elem hands them out; 0 is NULL.  One step is one access to    *)
(* memory that the other thread also uses (q->tail and elem->prev), with   *)
(* the private accesses around it; the code is built with -O0 for a        *)
(* machine that keeps the order of stores, so the steps of a thread are    *)
(* seen in program order.                                                  *)
(***************************************************************************)
EXTENDS QueueParams, Sequences

VARIABLES
  head, tail, last,     \* q->head, q->tail, q->last
  prev, data,           \* the fields of every element of g_buf
  c,                    \* how many elements iget_free_elem has handed out
  wpc, rpc,             \* where the writer and the reader are
  i,                    \* the value the writer pushes next
  got                   \* the values the reader has taken, oldest first

writerVars == <<head, data, c, wpc, i>>
readerVars == <<last, rpc, got>>
vars == <<head, tail, last, prev, data, c, wpc, rpc, i, got>>

Elems == 1 .. LOOP
NULL == 0

TypeOK ==
  /\ head \in 0 .. LOOP /\ tail \in 0 .. LOOP /\ last \in 0 .. LOOP
  /\ prev \in [Elems -> 0 .. LOOP] /\ data \in [Elems -> 0 .. LOOP]
  /\ c \in 0 .. LOOP
  /\ wpc \in {"push", "tail", "head"} /\ rpc \in {"pop", "again", "take", "next"}
  /\ i \in 1 .. LOOP + 1
  /\ got \in Seq(0 .. LOOP)

\* s_1r1w_queue_create
Init ==
  /\ head = NULL /\ tail = NULL /\ last = NULL
  /\ prev = [e \in Elems |-> NULL] /\ data = [e \in Elems |-> 0]
  /\ c = 0
  /\ wpc = "push" /\ rpc = "pop"
  /\ i = 1 /\ got = <<>>

---------------------------------------------------------------------------
\* The writer.  iget_free_elem returns &g_buf[c++].
NewElem == c + 1

\* The queue has never been used: q->head = elem, and q->tail comes next.
PushFirst ==
  /\ wpc = "push" /\ i <= LOOP /\ head = NULL
  /\ c' = NewElem /\ data' = [data EXCEPT ![NewElem] = i]
  /\ head' = NewElem
  /\ wpc' = "tail"
  /\ UNCHANGED <<tail, prev, i, readerVars>>

\* q->tail = elem: the only write of the writer to q->tail.
PushTail ==
  /\ wpc = "tail"
  /\ tail' = c
  /\ wpc' = "push" /\ i' = i + 1
  /\ UNCHANGED <<head, prev, data, c, readerVars>>

\* q->head->prev = elem makes the element visible to the reader.
PushLink ==
  /\ wpc = "push" /\ i <= LOOP /\ head # NULL
  /\ c' = NewElem /\ data' = [data EXCEPT ![NewElem] = i]
  /\ prev' = [prev EXCEPT ![head] = NewElem]
  /\ wpc' = "head"
  /\ UNCHANGED <<head, tail, i, readerVars>>

\* q->head = elem
PushHead ==
  /\ wpc = "head"
  /\ head' = c
  /\ wpc' = "push" /\ i' = i + 1
  /\ UNCHANGED <<tail, prev, data, c, readerVars>>

s_1r1wq_write == PushFirst \/ PushTail \/ PushLink \/ PushHead

---------------------------------------------------------------------------
\* The reader, until it has seen LOOP.
Reading == (IF got = <<>> THEN 0 ELSE got[Len(got)]) # LOOP

\* Mutant of PopTest: the reader starts again with the last element it popped.
PopTestFromLast ==
  /\ rpc = "pop" /\ Reading
  /\ rpc' = IF tail # NULL THEN "take" ELSE "again"
  /\ tail' = IF tail = NULL THEN last ELSE tail
  /\ UNCHANGED <<prev, last, got, writerVars>>

\* Mutant of PopTest: the prev of the last element is not looked at again.
PopTestOnce ==
  /\ rpc = "pop" /\ Reading
  /\ rpc' = IF tail # NULL THEN "take" ELSE "again"
  /\ UNCHANGED <<tail, prev, last, got, writerVars>>

\* if(!q->tail): with nothing behind the last element popped, its prev is
\* looked at again.
PopTest ==
  /\ rpc = "pop" /\ Reading
  /\ rpc' = IF tail # NULL THEN "take" ELSE "again"
  /\ tail' = IF tail = NULL /\ last # NULL THEN prev[last] ELSE tail
  /\ UNCHANGED <<prev, last, got, writerVars>>

\* The second if(!q->tail): NULL is returned, or the writer's first push has
\* come in between.
PopAgain ==
  /\ rpc = "again"
  /\ rpc' = IF tail = NULL THEN "pop" ELSE "take"
  /\ UNCHANGED <<tail, prev, last, got, writerVars>>

\* elem = q->tail; q->last = elem (ifree_elem returns at once).
PopTake ==
  /\ rpc = "take"
  /\ last' = tail
  /\ rpc' = "next"
  /\ UNCHANGED <<tail, prev, got, writerVars>>

\* q->tail = elem->prev; return elem->data.
PopNext ==
  /\ rpc = "next"
  /\ tail' = prev[last]
  /\ got' = Append(got, data[last])
  /\ rpc' = "pop"
  /\ UNCHANGED <<prev, last, writerVars>>

s_1r1wq_read == PopTest \/ PopAgain \/ PopTake \/ PopNext

Next == s_1r1wq_write \/ s_1r1wq_read

Spec == Init /\ [][Next]_vars

---------------------------------------------------------------------------
(***************************************************************************)
(* The refinement.  The elements in the queue are the linked ones after    *)
(* the last one the reader has returned.  A push takes effect with the     *)
(* store that lets the reader reach the element, a pop when it returns.    *)
(***************************************************************************)
Pushed == IF wpc = "head" THEN i ELSE i - 1

Oldest == IF rpc = "next" THEN last ELSE last + 1

\* The last element that can be reached over prev from the first push on.
Newest == IF wpc = "tail" THEN 0 ELSE IF wpc = "head" THEN head + 1 ELSE head

Contents == [k \in 1 .. (Newest + 1 - Oldest) |-> data[Oldest + k - 1]]

Abstract == INSTANCE Fifo WITH Value <- Elems, put <- [k \in 1 .. Pushed |-> k],
                               queue <- Contents, taken <- got

\* Whatever the interleaving of the two threads, the queue of s_1r1w_queue.c
\* is a FIFO queue: the first push and the pop that finds the queue empty do
\* not lose or repeat an element.
IsFifo == Abstract!Spec
=============================================================================
