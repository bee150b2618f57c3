------------------------------- MODULE Fifo -------------------------------
(***************************************************************************)
(* What every queue between two threads promises: an element that is       *)
(* pushed is in the queue until it is popped, and elements are popped in   *)
(* the order of the pushes, none twice.                                    *)
(***************************************************************************)
EXTENDS Naturals, Sequences

CONSTANT Value          \* what can be pushed

VARIABLES put,          \* what has been pushed, in order
          queue,        \* pushed and not yet popped, oldest first
          taken         \* what the pops have returned, in order

vars == <<put, queue, taken>>

Init == put = <<>> /\ queue = <<>> /\ taken = <<>>

\* s_1r1w_queue_push, s_lock_queue_push, s_spinlock_queue_push, ms_queue_push.
Push(v) == /\ put' = Append(put, v)
           /\ queue' = Append(queue, v)
           /\ UNCHANGED taken

\* The pop that returns an element; one that returns NULL or -1 changes nothing.
Pop == /\ queue # <<>>
       /\ queue' = Tail(queue)
       /\ taken' = Append(taken, Head(queue))
       /\ UNCHANGED put

Next == Pop \/ \E v \in Value : Push(v)

Spec == Init /\ [][Next]_vars
=============================================================================
