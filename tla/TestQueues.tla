---------------------------- MODULE TestQueues ----------------------------
(***************************************************************************)
(* The program of src/test/s_main.c (test_3): it picks one of the four     *)
(* queues by its argument C, starts a writer and a reader thread, lets     *)
(* both wait for each other in sync_thread, and ends when both have ended. *)
(***************************************************************************)
EXTENDS QueueParams, Sequences

VARIABLES C, SYN        \* the argument; how many threads have come to sync_thread

\* The one-reader-one-writer queue.
VARIABLES head, tail, last, prev, data, c, wpc, rpc, i, got
\* The queue with a lock, a mutex (C = 3) or a spinlock (C = 4).
VARIABLES lOwner, lNext, lPrev, lData, lC, lWpc, lBefore, lI, lRpc, lElem, lGot
\* The lock-free queue.
VARIABLES fHead, fTail, fNext, fIval, fC, fI, fWpc, fWtail, fWnext,
          fRpc, fRhead, fRtail, fRnext, fGot

OneVars == <<head, tail, last, prev, data, c, wpc, rpc, i, got>>
LockVars == <<lOwner, lNext, lPrev, lData, lC, lWpc, lBefore, lI, lRpc, lElem, lGot>>
MsVars == <<fHead, fTail, fNext, fIval, fC, fI, fWpc, fWtail, fWnext,
            fRpc, fRhead, fRtail, fRnext, fGot>>
vars == <<C, SYN, OneVars, LockVars, MsVars>>

One == INSTANCE Queue1r1w
Locked == INSTANCE LockQueue WITH
  owner <- lOwner, next <- lNext, prev <- lPrev, data <- lData, c <- lC,
  wpc <- lWpc, before <- lBefore, i <- lI, rpc <- lRpc, elem <- lElem, got <- lGot
Ms == INSTANCE MsQueue WITH
  head <- fHead, tail <- fTail, next <- fNext, ival <- fIval, c <- fC, i <- fI,
  wpc <- fWpc, wtail <- fWtail, wnext <- fWnext,
  rpc <- fRpc, rhead <- fRhead, rtail <- fRtail, rnext <- fRnext, got <- fGot

Init == C \in 1 .. 4 /\ SYN = 0 /\ One!Init /\ Locked!Init /\ Ms!Init

\* sync_thread(2): lock addl, then a loop until both threads have come.
sync_thread == SYN < 2 /\ SYN' = SYN + 1 /\ UNCHANGED <<C, OneVars, LockVars, MsVars>>
Synced == SYN = 2 /\ UNCHANGED <<C, SYN>>

\* Mutant of s_slockq_read: the pop does not take the lock.
s_slockq_readUnguarded ==
  C = 4 /\ Synced /\ (Locked!PopUnguarded \/ Locked!Read) /\ UNCHANGED <<OneVars, MsVars>>

s_1r1wq_write == C = 1 /\ Synced /\ One!s_1r1wq_write /\ UNCHANGED <<LockVars, MsVars>>
s_1r1wq_read == C = 1 /\ Synced /\ One!s_1r1wq_read /\ UNCHANGED <<LockVars, MsVars>>
s_msq_write == C = 2 /\ Synced /\ Ms!s_msq_write /\ UNCHANGED <<OneVars, LockVars>>
s_msq_read == C = 2 /\ Synced /\ Ms!s_msq_read /\ UNCHANGED <<OneVars, LockVars>>
s_lockq_write == C = 3 /\ Synced /\ Locked!Write /\ UNCHANGED <<OneVars, MsVars>>
s_lockq_read == C = 3 /\ Synced /\ Locked!Read /\ UNCHANGED <<OneVars, MsVars>>
s_slockq_write == C = 4 /\ Synced /\ Locked!Write /\ UNCHANGED <<OneVars, MsVars>>
s_slockq_read == C = 4 /\ Synced /\ Locked!Read /\ UNCHANGED <<OneVars, MsVars>>

\* What the reader of the queue in use has taken.
Taken == CASE C = 1 -> got [] C = 2 -> fGot [] OTHER -> lGot

\* pthread_join of both threads.
Ended == /\ Taken # <<>> /\ Taken[Len(Taken)] = LOOP
         /\ i + lI + fI = LOOP + 3
         /\ UNCHANGED vars

Writer == s_1r1wq_write \/ s_msq_write \/ s_lockq_write \/ s_slockq_write
Reader == s_1r1wq_read \/ s_msq_read \/ s_lockq_read \/ s_slockq_read

Next == sync_thread \/ Writer \/ Reader \/ Ended

\* Both threads are scheduled again and again.  Only the writer of a queue with
\* a lock needs more: the reader polls, but waits outside the lock after every
\* pop (wait_a_while), and the lock is not withheld from the writer for ever.
Fairness == /\ WF_vars(sync_thread) /\ WF_vars(Writer) /\ WF_vars(Reader)
            /\ SF_vars(s_lockq_write) /\ SF_vars(s_slockq_write)

Spec == Init /\ [][Next]_vars /\ Fairness

---------------------------------------------------------------------------
\* The queue without a lock is a FIFO queue.
OneIsFifo == One!IsFifo
\* The queue with a lock, the mutex or the spinlock, is a FIFO queue.
LocksAreFifo == Locked!IsFifo
\* The lock-free queue is a FIFO queue.
MsIsFifo == Ms!IsFifo
\* In the lock-free queue, q->tail never falls behind q->head.
MsTailNotBehindHead == Ms!TailNotBehindHead

\* The check of every reader (v != i + 1 is an error), as it stands at the end:
\* each value comes, once, in order; the reader never polls an element that
\* was pushed for ever without seeing it.
AllTaken == <>(Taken = [k \in 1 .. LOOP |-> k])
=============================================================================
