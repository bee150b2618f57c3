---------------------------- MODULE QueueParams ----------------------------
(* The parameter of the queue tests: LOOP of src/test/s_main.c.            *)
EXTENDS Naturals

CONSTANTS LOOP,         \* how many values the writer pushes
          MAX_BUF       \* the size of every g_buf, 10000000

\* iget_free_elem and _new_node do not test their counter against MAX_BUF, so
\* the argument of the test must not ask for more.
ASSUME LoopAssumption == MAX_BUF \in Nat /\ LOOP \in 1 .. MAX_BUF
=============================================================================
