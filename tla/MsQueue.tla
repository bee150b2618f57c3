------------------------------ MODULE MsQueue ------------------------------
(***************************************************************************)
(* The lock-free queue of Michael and Scott (lockfree/s_ms_queue.c) with   *)
(* the writer and the reader of src/test/s_main.c and src/test_cas.        *)
(*                                                                         *)
(* A struct ms_pointer is a node and a tag; copying or comparing one takes *)
(* two loads, so a thread can see the node of one value and the tag of the *)
(* next.  Nodes are numbered in the order in which _new_node hands them    *)
(* out; they are never reused (_free_node returns at once).  CAS is the    *)
(* 8 byte compare-and-swap of a 32 bit machine.  Its result is an int of   *)
(* which sete sets one byte, the others being what the stack holds: a CAS  *)
(* that succeeds is seen as true, one that fails as either.                *)
(***************************************************************************)
EXTENDS QueueParams, Sequences

VARIABLES
  head, tail,           \* q->head, q->tail
  next, ival,           \* the fields of every node
  c,                    \* how many nodes _new_node has handed out
  i,                    \* the value the writer pushes next
  wpc, wtail, wnext,    \* the writer's step and its copies of tail and next
  rpc, rhead, rtail, rnext, got   \* the reader's, and the values it has taken

queueVars == <<head, tail, next, ival, c>>
writerVars == <<i, wpc, wtail, wnext>>
readerVars == <<rpc, rhead, rtail, rnext, got>>
vars == <<head, tail, next, ival, c, i, wpc, wtail, wnext, rpc, rhead, rtail, rnext, got>>

NULL == 0
Nodes == 1 .. LOOP + 1
Pointer(ptr, tag) == [ptr |-> ptr, tag |-> tag]
ZeroPointer == Pointer(NULL, 0)

\* ms_queue_create: one node that holds no value.
Init ==
  /\ head = Pointer(1, 0) /\ tail = Pointer(1, 0)
  /\ next = [n \in Nodes |-> ZeroPointer] /\ ival = [n \in Nodes |-> 0]
  /\ c = 1 /\ i = 1
  /\ wpc = "new" /\ wtail = ZeroPointer /\ wnext = ZeroPointer
  /\ rpc = "head" /\ rhead = ZeroPointer /\ rtail = ZeroPointer /\ rnext = ZeroPointer
  /\ got = <<>>

\* What the code after the macro CAS can take its result for.
Seen(succeeded) == IF succeeded THEN {TRUE} ELSE {TRUE, FALSE}

\* The results of CAS whose value nobody looks at.
SwapTail(old, new) == tail' = IF tail = old THEN new ELSE tail

---------------------------------------------------------------------------
\* ms_queue_push.  Every load of two words is two steps.
PushNew ==
  /\ wpc = "new" /\ i <= LOOP
  /\ c' = c + 1
  /\ ival' = [ival EXCEPT ![c + 1] = i] /\ next' = [next EXCEPT ![c + 1] = ZeroPointer]
  /\ wpc' = "tail"
  /\ UNCHANGED <<head, tail, i, wtail, wnext, readerVars>>

\* tail = q->tail; next = tail.ptr->next
PushLoad ==
  /\ \/ wpc = "tail" /\ wpc' = "tail_tag" /\ wtail' = [wtail EXCEPT !.ptr = tail.ptr] /\ UNCHANGED wnext
     \/ wpc = "tail_tag" /\ wpc' = "next" /\ wtail' = [wtail EXCEPT !.tag = tail.tag] /\ UNCHANGED wnext
     \/ wpc = "next" /\ wpc' = "next_tag"
          /\ wnext' = [wnext EXCEPT !.ptr = next[wtail.ptr].ptr] /\ UNCHANGED wtail
     \/ wpc = "next_tag" /\ wpc' = "check"
          /\ wnext' = [wnext EXCEPT !.tag = next[wtail.ptr].tag] /\ UNCHANGED wtail
  /\ UNCHANGED <<queueVars, i, readerVars>>

\* ms_equal_pointer(&tail, &q->tail), then whether tail is the last node.
PushCheck ==
  /\ \/ wpc = "check" /\ wpc' = IF wtail.ptr = tail.ptr THEN "check_tag" ELSE "tail"
     \/ wpc = "check_tag" /\ wpc' = IF wtail.tag # tail.tag THEN "tail"
                                    ELSE IF wnext.ptr = NULL THEN "link" ELSE "help"
  /\ UNCHANGED <<queueVars, i, wtail, wnext, readerVars>>

\* CAS(&tail.ptr->next, next, {n, next.tag + 1})
PushLink ==
  /\ wpc = "link"
  /\ LET done == next[wtail.ptr] = wnext
     IN /\ next' = IF done THEN [next EXCEPT ![wtail.ptr] = Pointer(c, wnext.tag + 1)] ELSE next
        /\ \E ret \in Seen(done) : wpc' = IF ret THEN "swing" ELSE "tail"
  /\ UNCHANGED <<head, tail, ival, c, i, wtail, wnext, readerVars>>

\* CAS(&q->tail, tail, new): in the loop when tail has fallen behind, then again;
\* after the loop to let tail follow the push.
PushSwing ==
  /\ wpc \in {"help", "swing"}
  /\ SwapTail(wtail, Pointer(IF wpc = "help" THEN wnext.ptr ELSE c, wtail.tag + 1))
  /\ wpc' = IF wpc = "help" THEN "tail" ELSE "new"
  /\ i' = IF wpc = "help" THEN i ELSE i + 1
  /\ UNCHANGED <<head, next, ival, c, wtail, wnext, readerVars>>

s_msq_write == PushNew \/ PushLoad \/ PushCheck \/ PushLink \/ PushSwing

---------------------------------------------------------------------------
\* ms_queue_pop, called until LOOP has come.
Reading == (IF got = <<>> THEN 0 ELSE got[Len(got)]) # LOOP

\* head = q->head; tail = q->tail; next = head.ptr->next
PopLoad ==
  /\ \/ /\ rpc = "head" /\ Reading /\ rpc' = "head_tag"
        /\ rhead' = [rhead EXCEPT !.ptr = head.ptr] /\ UNCHANGED <<rtail, rnext>>
     \/ /\ rpc = "head_tag" /\ rpc' = "tail"
        /\ rhead' = [rhead EXCEPT !.tag = head.tag] /\ UNCHANGED <<rtail, rnext>>
     \/ /\ rpc = "tail" /\ rpc' = "tail_tag"
        /\ rtail' = [rtail EXCEPT !.ptr = tail.ptr] /\ UNCHANGED <<rhead, rnext>>
     \/ /\ rpc = "tail_tag" /\ rpc' = "next"
        /\ rtail' = [rtail EXCEPT !.tag = tail.tag] /\ UNCHANGED <<rhead, rnext>>
     \/ /\ rpc = "next" /\ rpc' = "next_tag"
        /\ rnext' = [rnext EXCEPT !.ptr = next[rhead.ptr].ptr] /\ UNCHANGED <<rhead, rtail>>
     \/ /\ rpc = "next_tag" /\ rpc' = "check"
        /\ rnext' = [rnext EXCEPT !.tag = next[rhead.ptr].tag] /\ UNCHANGED <<rhead, rtail>>
  /\ UNCHANGED <<queueVars, got, writerVars>>

\* Mutant of PopCheck: an element is taken as soon as one is linked.
PopCheckIgnoresTail ==
  /\ rpc = "check"
  /\ rpc' = IF rhead = head /\ rnext.ptr # NULL THEN "take" ELSE "head"
  /\ UNCHANGED <<queueVars, rhead, rtail, rnext, got, writerVars>>

\* ms_equal_pointer(&head, &q->head) (only this thread writes q->head), then
\* empty (-1), tail behind, or an element to take.
PopCheck ==
  /\ rpc = "check"
  /\ rpc' = IF rhead # head THEN "head"
            ELSE IF rhead.ptr # rtail.ptr THEN "take"
            ELSE IF rnext.ptr # NULL THEN "help" ELSE "head"
  /\ UNCHANGED <<queueVars, rhead, rtail, rnext, got, writerVars>>

\* CAS(&q->tail, tail, {next.ptr, tail.tag + 1})
PopHelp ==
  /\ rpc = "help"
  /\ SwapTail(rtail, Pointer(rnext.ptr, rtail.tag + 1))
  /\ rpc' = "head"
  /\ UNCHANGED <<head, next, ival, c, rhead, rtail, rnext, got, writerVars>>

\* Mutant of PopTake: the value of the node that is left, not of its successor.
PopTakeOldNode ==
  /\ rpc = "take"
  /\ head' = IF head = rhead THEN Pointer(rnext.ptr, rhead.tag + 1) ELSE head
  /\ \E ret \in Seen(head = rhead) : got' = IF ret THEN Append(got, ival[rhead.ptr]) ELSE got
  /\ rpc' = "head"
  /\ UNCHANGED <<tail, next, ival, c, rhead, rtail, rnext, writerVars>>

\* ret = next.ptr->ival; CAS(&q->head, head, {next.ptr, head.tag + 1})
PopTake ==
  /\ rpc = "take"
  /\ LET done == head = rhead
     IN /\ head' = IF done THEN Pointer(rnext.ptr, rhead.tag + 1) ELSE head
        /\ \E ret \in Seen(done) :
             got' = IF ret THEN Append(got, ival[rnext.ptr]) ELSE got
  /\ rpc' = "head"
  /\ UNCHANGED <<tail, next, ival, c, rhead, rtail, rnext, writerVars>>

s_msq_read == PopLoad \/ PopCheck \/ PopHelp \/ PopTake

Next == s_msq_write \/ s_msq_read

Spec == Init /\ [][Next]_vars

---------------------------------------------------------------------------
\* Nodes are linked in the order of their numbers.  The k-th value in the queue is
\* in the node that the k-th link from q->head leads to.
Linked == IF wpc \in {"new", "swing"} THEN c ELSE c - 1

Contents == [k \in 1 .. (Linked - head.ptr) |-> ival[next[head.ptr + k - 1].ptr]]

Pushed == IF wpc = "swing" THEN i ELSE i - 1

Abstract == INSTANCE Fifo WITH Value <- 1 .. LOOP, put <- [k \in 1 .. Pushed |-> k],
                               queue <- Contents, taken <- got

\* The queue is a FIFO queue: a push takes effect when its node is linked, a
\* pop when q->head moves, whoever moves q->tail.
IsFifo == Abstract!Spec

\* q->tail never falls behind q->head, so that the node a pop leaves is no
\* longer reachable from q->tail: pops and pushes that stop after each load
\* must not break it, or _free_node (disabled for now) would free a node in use.
TailNotBehindHead == tail.ptr \in {n \in Nodes : n >= head.ptr}
=============================================================================
