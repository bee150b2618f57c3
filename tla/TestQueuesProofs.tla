------------------------- MODULE TestQueuesProofs -------------------------
(***************************************************************************)
(* Every queue that the program of src/test/s_main.c can pick implements   *)
(* Fifo, for every LOOP: a step of the program is a step of each queue or  *)
(* leaves it alone, so that what is proved of a queue holds of the program.*)
(***************************************************************************)
EXTENDS TestQueues, TLAPS

---------------------------------------------------------------------------
(***************************************************************************)
(* The queue for one reader and one writer.  The inductive invariant says  *)
(* that the elements are linked in the order of their numbers up to        *)
(* Newest, that q->tail, unless it is NULL, is the element after q->last,  *)
(* and that the reader has taken exactly the elements before Oldest.       *)
(***************************************************************************)

\* What the writer has made of the list.
OneWriterInv ==
  /\ c = (IF wpc = "push" THEN i - 1 ELSE i)
  /\ head = (IF wpc = "head" THEN c - 1 ELSE c)
  /\ wpc = "tail" => i = 1
  /\ wpc = "head" => i >= 2
  /\ wpc # "push" => i <= LOOP
  /\ \A e \in One!Elems : e <= c => data[e] = e
  /\ \A e \in One!Elems : prev[e] = IF e < One!Newest THEN e + 1 ELSE One!NULL

\* Where the reader is in it.
OneReaderInv ==
  /\ last <= One!Newest
  /\ rpc = "next" => last >= 1
  /\ rpc # "next" /\ tail # One!NULL => tail = last + 1 /\ tail <= One!Newest
  /\ rpc = "take" => tail # One!NULL
  /\ got = [k \in 1 .. (One!Oldest - 1) |-> k]

OneIInv == One!TypeOK /\ OneWriterInv /\ OneReaderInv

\* LOOP is a natural number.
LEMMA LoopNat == LOOP \in Nat /\ LOOP >= 1
BY LoopAssumption

\* The queue is created empty, with nothing read.
LEMMA OneInitInv == One!Init => OneIInv
BY LoopNat DEF One!Init, OneIInv, One!TypeOK, OneWriterInv, OneReaderInv, One!Newest, One!Oldest, One!Elems, One!NULL

\* Appending the next number to the numbers 1 .. n gives the numbers 1 .. n + 1.
LEMMA AppendNext ==
  ASSUME NEW n \in Nat
  PROVE  Append([k \in 1 .. n |-> k], n + 1) = [k \in 1 .. (n + 1) |-> k]
OBVIOUS

\* When the writer leaves q->tail alone and hides no element, the reader does
\* not notice.
LEMMA OneReaderUnmoved ==
  ASSUME OneReaderInv, One!TypeOK, UNCHANGED <<tail, One!readerVars>>,
         One!Newest \in Nat, One!Newest' \in Nat, One!Newest <= One!Newest'
  PROVE  OneReaderInv'
<1>1. One!Oldest' = One!Oldest /\ last' = last /\ tail' = tail /\ rpc' = rpc /\ got' = got
  BY DEF One!readerVars, One!Oldest
<1> QED  BY <1>1 DEF OneReaderInv, One!TypeOK, One!NULL

\* A step of the writer leaves the invariant.
LEMMA OneWriterStep == OneIInv /\ One!s_1r1wq_write => OneIInv'
<1> SUFFICES ASSUME OneIInv, One!s_1r1wq_write PROVE OneIInv'
  OBVIOUS
<1>0. One!TypeOK /\ OneWriterInv /\ OneReaderInv
  BY DEF OneIInv
<1>n. One!Newest \in Nat
  BY <1>0, LoopNat DEF One!TypeOK, One!Newest
<1>1. CASE One!PushFirst
  <2>0. i = 1 /\ c = 0 /\ c' = 1 /\ head' = 1 /\ One!Newest = 0 /\ One!Newest' = 0
    BY <1>0, <1>1, LoopNat DEF One!PushFirst, One!NewElem, One!NULL, One!TypeOK, OneWriterInv, One!Newest
  <2>1. data' \in [One!Elems -> 0 .. LOOP] /\ data' = [data EXCEPT ![1] = 1]
    BY <1>0, <1>1, <2>0, LoopNat DEF One!PushFirst, One!NewElem, One!TypeOK, One!Elems
  <2>2. One!TypeOK'
    BY <1>0, <1>1, <2>0, <2>1, LoopNat DEF One!PushFirst, One!TypeOK, One!readerVars
  <2>3. OneWriterInv'
    BY <1>0, <1>1, <2>0, <2>1, LoopNat DEF One!PushFirst, OneWriterInv, One!TypeOK, One!Elems
  <2>4. OneReaderInv'
    BY <1>0, <1>1, <2>0, OneReaderUnmoved DEF One!PushFirst
  <2> QED  BY <2>2, <2>3, <2>4 DEF OneIInv
<1>2. CASE One!PushTail
  <2>0. i = 1 /\ c = 1 /\ head = 1 /\ One!Newest = 0 /\ One!Newest' = 1 /\ tail' = 1
    BY <1>0, <1>2, LoopNat DEF One!PushTail, OneWriterInv, One!Newest
  <2>1. One!TypeOK'
    BY <1>0, <1>2, <2>0, LoopNat DEF One!PushTail, One!TypeOK, One!readerVars
  <2>2. OneWriterInv'
    BY <1>0, <1>2, <2>0, LoopNat DEF One!PushTail, OneWriterInv, One!TypeOK, One!Elems
  <2>3. last = 0 /\ last' = 0 /\ rpc' = rpc /\ rpc # "next" /\ One!Oldest' = One!Oldest /\ got' = got
    BY <1>0, <1>2, <2>0 DEF One!PushTail, OneReaderInv, One!TypeOK, One!readerVars, One!Oldest
  <2>4. OneReaderInv'
    BY <1>0, <2>0, <2>3 DEF OneReaderInv, One!NULL
  <2> QED  BY <2>1, <2>2, <2>4 DEF OneIInv
<1>3. CASE One!PushLink
  <2>0. /\ head = c /\ i = c + 1 /\ c \in 1 .. LOOP - 1 /\ c' = c + 1
        /\ One!Newest = c /\ One!Newest' = c + 1
    BY <1>0, <1>3, LoopNat DEF One!PushLink, One!NewElem, One!NULL, One!TypeOK, OneWriterInv, One!Newest
  <2>1. /\ data' \in [One!Elems -> 0 .. LOOP] /\ data' = [data EXCEPT ![c + 1] = c + 1]
        /\ prev' \in [One!Elems -> 0 .. LOOP] /\ prev' = [prev EXCEPT ![c] = c + 1]
    BY <1>0, <1>3, <2>0, LoopNat, SMTT(30) DEF One!PushLink, One!NewElem, One!TypeOK, One!Elems
  <2>2. One!TypeOK'
    BY <1>0, <1>3, <2>0, <2>1, LoopNat DEF One!PushLink, One!TypeOK, One!readerVars
  <2>3. \A e \in One!Elems : e <= c' => data'[e] = e
    BY <1>0, <2>0, <2>1, LoopNat DEF OneWriterInv, One!TypeOK, One!Elems
  <2>4. \A e \in One!Elems : prev'[e] = IF e < One!Newest' THEN e + 1 ELSE One!NULL
    BY <1>0, <2>0, <2>1, LoopNat, SMTT(30) DEF OneWriterInv, One!TypeOK, One!Elems
  <2>5. OneWriterInv'
    BY <1>3, <2>0, <2>3, <2>4, LoopNat DEF One!PushLink, OneWriterInv
  <2>6. OneReaderInv'
    BY <1>0, <1>3, <2>0, OneReaderUnmoved DEF One!PushLink
  <2> QED  BY <2>2, <2>5, <2>6 DEF OneIInv
<1>4. CASE One!PushHead
  <2>0. /\ head = c - 1 /\ i = c /\ c \in 2 .. LOOP /\ c' = c /\ head' = c /\ i' = i + 1
        /\ One!Newest = c /\ One!Newest' = c
    BY <1>0, <1>4, LoopNat DEF One!PushHead, One!TypeOK, OneWriterInv, One!Newest
  <2>1. One!TypeOK'
    BY <1>0, <1>4, <2>0, LoopNat DEF One!PushHead, One!TypeOK, One!readerVars
  <2>2. OneWriterInv'
    BY <1>0, <1>4, <2>0, LoopNat DEF One!PushHead, OneWriterInv
  <2>3. OneReaderInv'
    BY <1>0, <1>4, <2>0, OneReaderUnmoved DEF One!PushHead
  <2> QED  BY <2>1, <2>2, <2>3 DEF OneIInv
<1> QED  BY <1>1, <1>2, <1>3, <1>4 DEF One!s_1r1wq_write

\* A step of the reader leaves the invariant.
LEMMA OneReaderStep == OneIInv /\ One!s_1r1wq_read => OneIInv'
<1> SUFFICES ASSUME OneIInv, One!s_1r1wq_read PROVE OneIInv'
  OBVIOUS
<1>0. One!TypeOK /\ OneWriterInv /\ OneReaderInv
  BY DEF OneIInv
<1>u. UNCHANGED <<head, data, c, wpc, i, prev>>
  BY DEF One!s_1r1wq_read, One!PopTest, One!PopAgain, One!PopTake, One!PopNext, One!writerVars
<1>w. OneWriterInv' /\ One!Newest' = One!Newest
  BY <1>0, <1>u DEF OneWriterInv, One!Newest
<1>n. One!Newest \in Nat /\ One!Newest <= c /\ c \in 0 .. LOOP
  BY <1>0, LoopNat DEF One!TypeOK, OneWriterInv, One!Newest
<1>p. \A e \in One!Elems : /\ prev[e] \in 0 .. LOOP
                       /\ prev[e] = IF e < One!Newest THEN e + 1 ELSE One!NULL
  BY <1>0 DEF One!TypeOK, OneWriterInv
<1>l. last \in 0 .. LOOP /\ last <= One!Newest /\ (last # One!NULL => last \in One!Elems)
  BY <1>0, LoopNat DEF One!TypeOK, OneReaderInv, One!Elems, One!NULL
<1>1. CASE One!PopTest
  <2>1. tail' \in 0 .. LOOP /\ (tail' # One!NULL => tail' = last + 1 /\ tail' <= One!Newest)
    BY <1>0, <1>1, <1>n, <1>p, <1>l DEF One!PopTest, One!TypeOK, OneReaderInv, One!NULL
  <2>2. rpc' \in {"take", "again"} /\ (rpc' = "take" => tail' # One!NULL)
    BY <1>1 DEF One!PopTest
  <2>3. One!Oldest' = One!Oldest /\ last' = last /\ got' = got
    BY <1>1, <2>2 DEF One!PopTest, One!Oldest
  <2>4. One!TypeOK'
    BY <1>0, <1>u, <2>1, <2>2, <2>3 DEF One!TypeOK
  <2>5. OneReaderInv'
    BY <1>0, <1>w, <2>1, <2>2, <2>3 DEF OneReaderInv
  <2> QED  BY <1>w, <2>4, <2>5 DEF OneIInv
<1>2. CASE One!PopAgain
  <2>1. /\ rpc' \in {"pop", "take"} /\ (rpc' = "take" => tail' # One!NULL)
        /\ One!Oldest' = One!Oldest /\ last' = last /\ got' = got /\ tail' = tail
    BY <1>2 DEF One!PopAgain, One!Oldest
  <2>2. One!TypeOK'
    BY <1>0, <1>u, <2>1 DEF One!TypeOK
  <2>3. OneReaderInv'
    BY <1>0, <1>2, <1>w, <2>1 DEF OneReaderInv, One!PopAgain
  <2> QED  BY <1>w, <2>2, <2>3 DEF OneIInv
<1>3. CASE One!PopTake
  <2>1. /\ rpc' = "next" /\ last' = tail /\ got' = got /\ tail' = tail
        /\ tail = last + 1 /\ tail <= One!Newest
    BY <1>0, <1>3 DEF One!PopTake, OneReaderInv
  <2>2. One!Oldest' = One!Oldest /\ last' >= 1
    BY <1>3, <1>l, <2>1 DEF One!PopTake, One!Oldest
  <2>3. One!TypeOK'
    BY <1>0, <1>u, <2>1 DEF One!TypeOK
  <2>4. OneReaderInv'
    BY <1>0, <1>w, <2>1, <2>2 DEF OneReaderInv
  <2> QED  BY <1>w, <2>3, <2>4 DEF OneIInv
<1>4. CASE One!PopNext
  <2>0. last >= 1 /\ last \in One!Elems /\ One!Oldest = last /\ One!Oldest' = last + 1
        /\ last' = last /\ rpc' = "pop" /\ tail' = prev[last]
    BY <1>0, <1>4, <1>l DEF One!PopNext, OneReaderInv, One!Oldest, One!NULL
  <2>1. data[last] = last
    BY <1>0, <1>n, <1>l, <2>0 DEF OneWriterInv
  <2>2. got = [k \in 1 .. (last - 1) |-> k] /\ got' = Append(got, last)
    BY <1>0, <1>4, <2>0, <2>1 DEF One!PopNext, OneReaderInv
  <2>3. last - 1 \in Nat /\ (last - 1) + 1 = last
    BY <1>l, <2>0
  <2>4. got' = [k \in 1 .. last |-> k]
    BY <2>2, <2>3, AppendNext
  <2>5. tail' \in 0 .. LOOP /\ (tail' # One!NULL => tail' = last + 1 /\ tail' <= One!Newest)
    BY <1>n, <1>p, <1>l, <2>0 DEF One!NULL
  <2>6. got' \in Seq(0 .. LOOP)
    BY <1>l, <2>4, LoopNat
  <2>7. One!TypeOK'
    BY <1>0, <1>u, <2>0, <2>5, <2>6 DEF One!TypeOK
  <2>8. (One!Oldest - 1)' = last
    BY <1>l, <2>0
  <2>9. OneReaderInv'
    BY <1>l, <1>w, <2>0, <2>4, <2>5, <2>8 DEF OneReaderInv
  <2> QED  BY <1>w, <2>7, <2>9 DEF OneIInv
<1> QED  BY <1>1, <1>2, <1>3, <1>4 DEF One!s_1r1wq_read

\* The invariant holds in every reachable state.
THEOREM OneInvariance == One!Spec => []OneIInv
<1>1. OneIInv /\ UNCHANGED One!vars => OneIInv'
  BY DEF One!vars, OneIInv, One!TypeOK, OneWriterInv, OneReaderInv, One!Newest, One!Oldest
<1> QED  BY OneInitInv, OneWriterStep, OneReaderStep, <1>1, PTL DEF One!Spec, One!Next

---------------------------------------------------------------------------
\* What the queue holds, when the invariant holds: the numbers from Oldest on.
OneHeld == [k \in 1 .. (One!Newest + 1 - One!Oldest) |-> One!Oldest + k - 1]

OneHeldFacts ==
  /\ One!Contents = OneHeld
  /\ One!Newest \in Nat /\ One!Oldest \in Nat \ {0} /\ One!Newest <= One!Pushed /\ One!Pushed \in 0 .. LOOP
  /\ One!Newest <= c /\ c \in 0 .. LOOP

\* The data of the linked elements are their numbers.
LEMMA OneContentsHeld == OneIInv => OneHeldFacts
<1> SUFFICES ASSUME OneIInv PROVE OneHeldFacts
  OBVIOUS
<1> USE LoopNat DEF OneIInv, One!TypeOK, OneWriterInv, OneReaderInv
<1>1. One!Newest \in Nat /\ One!Oldest \in Nat \ {0} /\ One!Newest <= One!Pushed /\ One!Pushed \in 0 .. LOOP
      /\ One!Newest <= c /\ c \in 0 .. LOOP
  BY DEF One!Newest, One!Oldest, One!Pushed, One!NULL
<1>2. \A k \in 1 .. (One!Newest + 1 - One!Oldest) : data[One!Oldest + k - 1] = One!Oldest + k - 1
  BY <1>1 DEF One!Elems
<1> QED  BY <1>1, <1>2 DEF One!Contents, OneHeld, OneHeldFacts

\* A push of the number after the newest one.
LEMMA OneHeldPush ==
  ASSUME NEW o \in Nat \ {0}, NEW n \in Nat, n + 1 >= o
  PROVE  Append([k \in 1 .. (n + 1 - o) |-> o + k - 1], n + 1)
           = [k \in 1 .. (n + 2 - o) |-> o + k - 1]
OBVIOUS

\* A pop of the oldest number.
LEMMA OneHeldPop ==
  ASSUME NEW o \in Nat \ {0}, NEW n \in Nat, n >= o
  PROVE  LET s == [k \in 1 .. (n + 1 - o) |-> o + k - 1]
         IN  s # <<>> /\ Head(s) = o /\ Tail(s) = [k \in 1 .. (n - o) |-> o + k]
OBVIOUS

\* The steps of the writer that publish an element push it, the others change nothing.
LEMMA OneWriterRefines == OneIInv /\ OneIInv' /\ One!s_1r1wq_write => [One!Abstract!Next]_(One!Abstract!vars)
<1> SUFFICES ASSUME OneIInv, OneIInv', One!s_1r1wq_write PROVE [One!Abstract!Next]_(One!Abstract!vars)
  OBVIOUS
<1>00. OneHeldFacts /\ OneHeldFacts'
  BY OneContentsHeld, PTL
<1>0. /\ One!Contents = OneHeld /\ One!Newest \in Nat /\ One!Oldest \in Nat \ {0} /\ One!Pushed \in 0 .. LOOP
      /\ One!Contents' = OneHeld' /\ One!Newest' \in Nat /\ One!Oldest' \in Nat \ {0} /\ One!Pushed' \in 0 .. LOOP
  BY <1>00 DEF OneHeldFacts
<1>a. One!Oldest' = One!Oldest /\ got' = got
  BY DEF One!s_1r1wq_write, One!PushFirst, One!PushTail, One!PushLink, One!PushHead, One!readerVars, One!Oldest
<1>b. ASSUME One!Newest' = One!Newest, One!Pushed' = One!Pushed PROVE [One!Abstract!Next]_(One!Abstract!vars)
  <2>1. One!Contents' = One!Contents  BY <1>0, <1>a, <1>b DEF OneHeld
  <2>2. [k \in 1 .. One!Pushed |-> k]' = [k \in 1 .. One!Pushed |-> k]  BY <1>a, <1>b
  <2> QED  BY <1>a, <1>b, <2>1, <2>2 DEF One!Abstract!vars
<1>c. ASSUME One!Newest = One!Pushed, One!Newest' = One!Newest + 1, One!Pushed' = One!Pushed + 1, One!Newest + 1 >= One!Oldest
      PROVE  [One!Abstract!Next]_(One!Abstract!vars)
  <2>1. OneHeld' = Append(OneHeld, One!Newest + 1)
    BY <1>0, <1>a, <1>c, OneHeldPush DEF OneHeld
  <2>2. [k \in 1 .. One!Pushed |-> k]' = Append([k \in 1 .. One!Pushed |-> k], One!Pushed + 1)
    BY <1>0, <1>c, AppendNext
  <2>3. One!Newest + 1 \in One!Elems  BY <1>0, <1>c, LoopNat DEF One!Elems
  <2> QED  BY <1>0, <1>a, <1>c, <2>1, <2>2, <2>3 DEF One!Abstract!Next, One!Abstract!Push
<1>1. CASE One!PushFirst
  BY <1>1, <1>b, LoopNat DEF One!PushFirst, One!Newest, One!Pushed, One!NewElem, OneIInv, One!TypeOK, OneWriterInv, One!NULL
<1>2. CASE One!PushTail
  <2>1. One!Newest = 0 /\ One!Newest' = 1 /\ One!Pushed = 0 /\ One!Pushed' = 1 /\ One!Oldest <= 1
    BY <1>2, LoopNat DEF One!PushTail, One!Newest, One!Oldest, One!Pushed, OneIInv, One!TypeOK, OneWriterInv, OneReaderInv, One!NULL
  <2> QED  BY <2>1, <1>c, <1>0
<1>3. CASE One!PushLink
  <2>1. One!Newest = One!Pushed /\ One!Newest' = One!Newest + 1 /\ One!Pushed' = One!Pushed + 1 /\ One!Newest + 1 >= One!Oldest
    BY <1>3, LoopNat DEF One!PushLink, One!Newest, One!Oldest, One!Pushed, One!NewElem, OneIInv, One!TypeOK, OneWriterInv, OneReaderInv, One!NULL
  <2> QED  BY <2>1, <1>c
<1>4. CASE One!PushHead
  BY <1>4, <1>b, LoopNat DEF One!PushHead, One!Newest, One!Pushed, OneIInv, One!TypeOK, OneWriterInv, One!NULL
<1> QED  BY <1>1, <1>2, <1>3, <1>4 DEF One!s_1r1wq_write

\* Only the step in which the pop returns takes an element.
LEMMA OneReaderRefines == OneIInv /\ OneIInv' /\ One!s_1r1wq_read => [One!Abstract!Next]_(One!Abstract!vars)
<1> SUFFICES ASSUME OneIInv, OneIInv', One!s_1r1wq_read PROVE [One!Abstract!Next]_(One!Abstract!vars)
  OBVIOUS
<1>00. OneHeldFacts /\ OneHeldFacts'
  BY OneContentsHeld, PTL
<1>0. /\ One!Contents = OneHeld /\ One!Newest \in Nat /\ One!Oldest \in Nat \ {0} /\ One!Newest <= c /\ c \in 0 .. LOOP
      /\ One!Contents' = OneHeld' /\ One!Newest' \in Nat /\ One!Oldest' \in Nat \ {0}
  BY <1>00 DEF OneHeldFacts
<1>a. One!Newest' = One!Newest /\ One!Pushed' = One!Pushed
  BY DEF One!s_1r1wq_read, One!PopTest, One!PopAgain, One!PopTake, One!PopNext, One!writerVars, One!Newest, One!Pushed
<1>b. ASSUME One!Oldest' = One!Oldest, got' = got PROVE [One!Abstract!Next]_(One!Abstract!vars)
  <2>1. One!Contents' = One!Contents  BY <1>0, <1>a, <1>b DEF OneHeld
  <2>2. [k \in 1 .. One!Pushed |-> k]' = [k \in 1 .. One!Pushed |-> k]  BY <1>a, <1>b
  <2> QED  BY <1>a, <1>b, <2>1, <2>2 DEF One!Abstract!vars
<1>1. CASE One!PopTest  BY <1>1, <1>b DEF One!PopTest, One!Oldest
<1>2. CASE One!PopAgain  BY <1>2, <1>b DEF One!PopAgain, One!Oldest
<1>3. CASE One!PopTake
  BY <1>3, <1>b DEF One!PopTake, One!Oldest, OneIInv, OneReaderInv, One!TypeOK, One!NULL
<1>4. CASE One!PopNext
  <2>1. One!Oldest = last /\ One!Oldest' = One!Oldest + 1 /\ One!Newest >= One!Oldest
    BY <1>4, <1>0 DEF One!PopNext, One!Oldest, OneIInv, OneReaderInv, One!TypeOK
  <2>2. data[last] = last /\ got' = Append(got, data[last])
    <3>1. last \in One!Elems /\ last <= c
      BY <1>0, <2>1, LoopNat DEF One!Elems
    <3>2. \A e \in One!Elems : e <= c => data[e] = e
      BY DEF OneIInv, OneWriterInv
    <3> QED  BY <1>4, <3>1, <3>2 DEF One!PopNext
  <2>3. OneHeld # <<>> /\ Head(OneHeld) = One!Oldest /\ Tail(OneHeld) = [k \in 1 .. (One!Newest - One!Oldest) |-> One!Oldest + k]
    BY <1>0, <2>1, OneHeldPop DEF OneHeld
  <2>4. OneHeld' = Tail(OneHeld)
    BY <1>0, <1>a, <2>1, <2>3, SMTT(30) DEF OneHeld
  <2> QED  BY <1>0, <1>a, <2>1, <2>2, <2>3, <2>4 DEF One!Abstract!Next, One!Abstract!Pop
<1> QED  BY <1>1, <1>2, <1>3, <1>4 DEF One!s_1r1wq_read

\* The queue of s_1r1w_queue.c implements the FIFO queue, for every number of
\* pushes: no interleaving of the one writer and the one reader loses, repeats
\* or reorders an element.
THEOREM OneRefinement == One!Spec => One!IsFifo
<1>1. One!Init => One!Abstract!Init
  BY LoopNat DEF One!Init, One!Abstract!Init, One!Contents, One!Newest, One!Oldest, One!Pushed, One!NULL
<1>2. OneIInv /\ OneIInv' /\ [One!Next]_(One!vars) => [One!Abstract!Next]_(One!Abstract!vars)
  <2>1. ASSUME UNCHANGED One!vars PROVE UNCHANGED One!Abstract!vars
    BY <2>1 DEF One!vars, One!Abstract!vars, One!Contents, One!Newest, One!Oldest, One!Pushed
  <2> QED  BY <2>1, OneWriterRefines, OneReaderRefines DEF One!Next
<1> QED  BY <1>1, <1>2, OneInvariance, PTL DEF One!Spec, One!IsFifo, One!Abstract!Spec

\* The program starts this queue as its own specification does, and a step of
\* the program is a step of the queue or leaves it alone.
LEMMA OneCorrect == Spec => One!IsFifo
<1>1. Init => One!Init
  BY DEF Init
<1>2. [Next]_vars => [One!Next]_(One!vars)
  <2> SUFFICES ASSUME [Next]_vars PROVE [One!Next]_(One!vars)
    OBVIOUS
  <2>1. UNCHANGED OneVars => UNCHANGED One!vars
    BY DEF One!vars, OneVars
  <2>2. One!s_1r1wq_write \/ One!s_1r1wq_read \/ UNCHANGED OneVars
    BY DEF Next, Writer, Reader, Ended, sync_thread, vars, s_1r1wq_write, s_1r1wq_read, s_msq_write,
           s_msq_read, s_lockq_write, s_lockq_read, s_slockq_write, s_slockq_read
  <2> QED  BY <2>1, <2>2 DEF One!Next
<1> QED  BY <1>1, <1>2, OneRefinement, PTL DEF Spec, One!Spec

---------------------------------------------------------------------------
(***************************************************************************)
(* The queue with a lock.  The inductive invariant says who is inside the  *)
(* lock, that the elements from First to Newest are linked in both         *)
(* directions in the order of their numbers, except for the pointer that   *)
(* the thread inside is about to write, and that the reader has taken      *)
(* exactly the elements before First.                                      *)
(***************************************************************************)

LockTypeOK ==
  /\ lOwner \in {"nobody", "writer", "reader"}
  /\ lNext \in [Locked!Nodes -> Locked!Nodes] /\ lPrev \in [Locked!Nodes -> Locked!Nodes]
  /\ lData \in [Locked!Nodes -> 0 .. LOOP]
  /\ lC \in 0 .. LOOP /\ lBefore \in Locked!Nodes /\ lI \in 1 .. LOOP + 1
  /\ lWpc \in {"lock", "new", "link", "back", "unlock"}
  /\ lRpc \in {"lock", "first", "unlink", "back", "unlock"}
  /\ lElem \in Locked!Nodes
  /\ lGot \in Seq(0 .. LOOP)

\* A thread between its lock and its unlock owns the lock.
LockOwnerInv ==
  /\ lOwner = "writer" <=> lWpc # "lock"
  /\ lOwner = "reader" <=> lRpc # "lock"

\* How many values the reader has returned, and the first element in the list.
LockCount == Len(lGot)
LockFirst == LockCount + Locked!Unlinked + 1

\* The last element of the list, or its head.
LockLast == IF LockFirst <= Locked!Newest THEN Locked!Newest ELSE Locked!Head0

\* What the writer has made of the elements.
LockWriterInv ==
  /\ lC = (IF lWpc \in {"lock", "new"} THEN lI - 1 ELSE lI)
  /\ lWpc # "lock" => lI <= LOOP
  /\ \A e \in 1 .. lC : lData[e] = e
  /\ lWpc = "link" => lBefore = LockLast
  /\ lWpc = "back" => /\ LockCount < Locked!Newest
                     /\ lBefore = IF LockFirst < Locked!Newest THEN Locked!Newest - 1 ELSE Locked!Head0

\* Where the reader is.
LockReaderInv ==
  /\ LockCount <= Locked!Newest
  /\ lGot = [k \in 1 .. LockCount |-> k]
  /\ lRpc \in {"lock", "first"} => lElem = Locked!Head0
  /\ lRpc \in {"unlink", "back"} => lElem = LockCount + 1 /\ lElem <= lC
  /\ lRpc = "unlock" => lElem = Locked!Head0 \/ (lElem = LockCount + 1 /\ lElem <= lC)
  /\ lRpc = "back" => lNext[lElem] = lNext[Locked!Head0]

\* The list, forwards and backwards.
LockNextInv ==
  /\ lNext[Locked!Head0] = IF LockFirst <= Locked!Newest THEN LockFirst ELSE Locked!Head0
  /\ \A e \in LockFirst .. Locked!Newest : lNext[e] = IF e < Locked!Newest THEN e + 1 ELSE Locked!Head0

LockPrevInv ==
  /\ lPrev[Locked!Head0] = IF lWpc = "back" THEN lBefore
                   ELSE IF lRpc = "back" /\ LockFirst > Locked!Newest THEN lElem ELSE LockLast
  /\ \A e \in LockFirst .. Locked!Newest :
       lPrev[e] = IF e > LockFirst THEN e - 1 ELSE IF lRpc = "back" THEN lElem ELSE Locked!Head0
  /\ lRpc = "back" => lPrev[lElem] = Locked!Head0

LockIInv == LockTypeOK /\ LockOwnerInv /\ LockWriterInv /\ LockReaderInv /\ LockNextInv /\ LockPrevInv

---------------------------------------------------------------------------
\* The length of the numbers 1 .. n, and the next number appended to them.
LEMMA LockNumbers ==
  ASSUME NEW n \in Nat
  PROVE  /\ Len([k \in 1 .. n |-> k]) = n
         /\ Append([k \in 1 .. n |-> k], n + 1) = [k \in 1 .. (n + 1) |-> k]
OBVIOUS

\* The queue is created empty, and nobody is inside the lock.
LEMMA LockInitInv == Locked!Init => LockIInv
<1> SUFFICES ASSUME Locked!Init PROVE LockIInv
  OBVIOUS
<1>0. LockCount = 0 /\ Locked!Unlinked = 0 /\ LockFirst = 1 /\ Locked!Newest = 0 /\ LockLast = 0
  BY DEF Locked!Init, LockCount, Locked!Unlinked, LockFirst, Locked!Newest, LockLast, Locked!Head0
<1>1. LockTypeOK  BY LoopNat DEF Locked!Init, LockTypeOK, Locked!Nodes
<1>2. LockOwnerInv  BY DEF Locked!Init, LockOwnerInv
<1>3. LockWriterInv  BY <1>0 DEF Locked!Init, LockWriterInv
<1>4. LockReaderInv  BY <1>0 DEF Locked!Init, LockReaderInv, Locked!Head0
<1>5. LockNextInv  BY <1>0, LoopNat DEF Locked!Init, LockNextInv, Locked!Head0, Locked!Nodes
<1>6. LockPrevInv  BY <1>0, LoopNat DEF Locked!Init, LockPrevInv, Locked!Head0, Locked!Nodes
<1> QED  BY <1>1, <1>2, <1>3, <1>4, <1>5, <1>6 DEF LockIInv

\* The numbers the invariant speaks of.
LEMMA LockRanges ==
  ASSUME LockIInv
  PROVE  /\ LockCount \in Nat /\ Locked!Unlinked \in {0, 1} /\ LockFirst \in Nat \ {0}
         /\ Locked!Newest \in 0 .. LOOP /\ Locked!Newest <= lC /\ LockCount <= Locked!Newest /\ lC \in 0 .. LOOP
         /\ LockFirst = LockCount + Locked!Unlinked + 1 /\ LockFirst <= Locked!Newest + 1
         /\ LockLast \in Locked!Nodes /\ LOOP \in Nat
<1>1. LockCount \in Nat  BY DEF LockIInv, LockTypeOK, LockCount
<1>2. Locked!Newest \in 0 .. LOOP /\ Locked!Newest <= lC /\ lC \in 0 .. LOOP
  BY LoopNat DEF LockIInv, LockTypeOK, LockWriterInv, Locked!Newest
<1>3. LockCount <= Locked!Newest  BY DEF LockIInv, LockReaderInv
<1>4. Locked!Unlinked = 1 => LockCount + 1 <= Locked!Newest
  <2> SUFFICES ASSUME Locked!Unlinked = 1 PROVE LockCount + 1 <= Locked!Newest
    OBVIOUS
  <2>1. lRpc \in {"back", "unlock"} /\ lElem # Locked!Head0  BY DEF Locked!Unlinked
  <2>2. lWpc = "lock"  BY <2>1 DEF LockIInv, LockOwnerInv
  <2>3. lElem = LockCount + 1 /\ lElem <= lC  BY <2>1 DEF LockIInv, LockReaderInv
  <2> QED  BY <2>2, <2>3 DEF Locked!Newest
<1>5. Locked!Unlinked \in {0, 1}  BY DEF Locked!Unlinked
<1>6. LockFirst = LockCount + Locked!Unlinked + 1 /\ LockFirst \in Nat \ {0} /\ LockFirst <= Locked!Newest + 1
  BY <1>1, <1>2, <1>3, <1>4, <1>5 DEF LockFirst
<1>7. LockLast \in Locked!Nodes  BY <1>2, LoopNat DEF LockLast, Locked!Nodes, Locked!Head0
<1> QED  BY <1>1, <1>2, <1>3, <1>5, <1>6, <1>7, LoopNat

\* A step of the writer leaves the invariant.
LEMMA LockWriterStep == LockIInv /\ Locked!Write => LockIInv'
<1> SUFFICES ASSUME LockIInv, Locked!Write PROVE LockIInv'
  OBVIOUS
<1>0. LockTypeOK /\ LockOwnerInv /\ LockWriterInv /\ LockReaderInv /\ LockNextInv /\ LockPrevInv
  BY DEF LockIInv
<1>r. /\ LockCount \in Nat /\ Locked!Unlinked \in {0, 1} /\ LockFirst \in Nat \ {0}
      /\ Locked!Newest \in 0 .. LOOP /\ Locked!Newest <= lC /\ LockCount <= Locked!Newest /\ lC \in 0 .. LOOP
      /\ LockFirst = LockCount + Locked!Unlinked + 1 /\ LockFirst <= Locked!Newest + 1
      /\ LockLast \in Locked!Nodes /\ LOOP \in Nat
  BY LockRanges
<1>u. lRpc' = lRpc /\ lElem' = lElem /\ lGot' = lGot /\ LockCount' = LockCount /\ Locked!Unlinked' = Locked!Unlinked /\ LockFirst' = LockFirst
  BY DEF Locked!Write, Locked!PushLock, Locked!PushNew, Locked!PushLink, Locked!PushBack, Locked!PushUnlock, Locked!readerVars, LockCount, Locked!Unlinked, LockFirst
<1>l. lRpc = "lock" /\ lElem = Locked!Head0 /\ Locked!Unlinked = 0 /\ LockFirst = LockCount + 1
  <2>1. lRpc = "lock"
    BY <1>0 DEF Locked!Write, Locked!PushLock, Locked!PushNew, Locked!PushLink, Locked!PushBack, Locked!PushUnlock, Locked!Lock, LockOwnerInv, LockTypeOK
  <2> QED  BY <1>0, <1>r, <2>1 DEF LockReaderInv, Locked!Unlinked
<1>1. CASE Locked!PushLock
  <2>0. lWpc = "lock" /\ lWpc' = "new" /\ lI <= LOOP /\ lOwner = "nobody" /\ lOwner' = "writer"
        /\ UNCHANGED <<lNext, lPrev, lData, lC, lBefore, lI>>
    BY <1>1 DEF Locked!PushLock, Locked!Lock, Locked!lists
  <2>1. Locked!Newest' = Locked!Newest /\ LockLast' = LockLast
    BY <1>u, <2>0 DEF Locked!Newest, LockLast
  <2>2. LockTypeOK'  BY <1>0, <1>u, <2>0 DEF LockTypeOK
  <2>3. LockOwnerInv'  BY <1>0, <1>l, <1>u, <2>0 DEF LockOwnerInv
  <2>4. LockWriterInv'  BY <1>0, <2>0 DEF LockWriterInv
  <2>5. LockReaderInv'  BY <1>0, <1>l, <1>u, <2>0, <2>1 DEF LockReaderInv
  <2>6. LockNextInv'  BY <1>0, <1>u, <2>0, <2>1 DEF LockNextInv
  <2>7. LockPrevInv'  BY <1>0, <1>l, <1>u, <2>0, <2>1 DEF LockPrevInv
  <2> QED  BY <2>2, <2>3, <2>4, <2>5, <2>6, <2>7 DEF LockIInv
<1>2. CASE Locked!PushNew
  <2>0. /\ lWpc = "new" /\ lWpc' = "link" /\ lI <= LOOP /\ lC = lI - 1 /\ lC' = lC + 1 /\ lI' = lI /\ lOwner' = lOwner
        /\ lData' = [lData EXCEPT ![lC + 1] = lI] /\ lBefore' = lPrev[Locked!Head0]
        /\ UNCHANGED <<lNext, lPrev>>
    BY <1>0, <1>2 DEF Locked!PushNew, Locked!lists, LockWriterInv
  <2>1. Locked!Newest = lC /\ Locked!Newest' = lC /\ LockLast' = LockLast /\ lC + 1 \in 1 .. LOOP /\ lI = lC + 1
    BY <1>0, <1>r, <1>u, <2>0 DEF Locked!Newest, LockLast, LockTypeOK
  <2>2. lBefore' = LockLast
    BY <1>0, <1>l, <2>0 DEF LockPrevInv
  <2>3. lData' \in [Locked!Nodes -> 0 .. LOOP]
    BY <1>0, <2>0, <2>1, LoopNat DEF LockTypeOK, Locked!Nodes
  <2>4. LockTypeOK'  BY <1>0, <1>r, <1>u, <2>0, <2>1, <2>2, <2>3 DEF LockTypeOK
  <2>5. LockOwnerInv'  BY <1>0, <1>l, <1>u, <2>0 DEF LockOwnerInv
  <2>6. ASSUME NEW e \in 1 .. lC' PROVE lData'[e] = e
    <3>1. e \in 1 .. lC + 1 /\ e \in Locked!Nodes  BY <1>r, <2>0, <2>1 DEF Locked!Nodes
    <3>2. lData'[e] = IF e = lC + 1 THEN lI ELSE lData[e]  BY <1>0, <2>0, <3>1 DEF LockTypeOK
    <3>3. e # lC + 1 => lData[e] = e  BY <1>0, <1>r, <3>1 DEF LockWriterInv
    <3> QED  BY <2>1, <3>2, <3>3
  <2>7. LockWriterInv'  BY <1>0, <2>0, <2>1, <2>2, <2>6 DEF LockWriterInv
  <2>8. LockReaderInv'  BY <1>0, <1>l, <1>u, <2>0, <2>1 DEF LockReaderInv
  <2>9. LockNextInv'  BY <1>0, <1>u, <2>0, <2>1 DEF LockNextInv
  <2>10. LockPrevInv'  BY <1>0, <1>l, <1>u, <2>0, <2>1 DEF LockPrevInv
  <2> QED  BY <2>4, <2>5, <2>7, <2>8, <2>9, <2>10 DEF LockIInv
<1>3. CASE Locked!PushLink
  <2>0. /\ lWpc = "link" /\ lWpc' = "back" /\ lI <= LOOP /\ lC = lI /\ lOwner' = lOwner /\ lBefore = LockLast
        /\ lPrev' = [lPrev EXCEPT ![lC] = lBefore] /\ lNext' = [lNext EXCEPT ![lC] = Locked!Head0, ![lBefore] = lC]
        /\ UNCHANGED <<lData, lC, lBefore, lI>>
    BY <1>0, <1>3 DEF Locked!PushLink, LockWriterInv
  <2>1. Locked!Newest = lC - 1 /\ Locked!Newest' = lC /\ lC \in 1 .. LOOP /\ lC \in Locked!Nodes /\ lBefore # lC
    BY <1>0, <1>r, <1>u, <2>0 DEF Locked!Newest, LockLast, LockTypeOK, Locked!Nodes, Locked!Head0
  <2>2. lPrev' \in [Locked!Nodes -> Locked!Nodes] /\ lNext' \in [Locked!Nodes -> Locked!Nodes]
    <3>1. Locked!Head0 \in Locked!Nodes /\ lC \in Locked!Nodes  BY <1>r, <2>1 DEF Locked!Nodes, Locked!Head0
    <3> QED  BY <1>0, <2>0, <3>1 DEF LockTypeOK
  <2>3. LockTypeOK'  BY <1>0, <1>u, <2>0, <2>2 DEF LockTypeOK
  <2>4. LockOwnerInv'  BY <1>0, <1>l, <1>u, <2>0 DEF LockOwnerInv
  <2>5. lBefore' = IF LockFirst' < Locked!Newest' THEN Locked!Newest' - 1 ELSE Locked!Head0
    BY <1>r, <1>u, <2>0, <2>1 DEF LockLast
  <2>6. LockWriterInv'  BY <1>0, <1>r, <1>u, <2>0, <2>1, <2>5 DEF LockWriterInv
  <2>7. LockReaderInv'  BY <1>0, <1>r, <1>l, <1>u, <2>0, <2>1 DEF LockReaderInv
  <2>8. lNext'[lC] = Locked!Head0 /\ lNext'[lBefore] = lC /\ \A e \in Locked!Nodes : e # lC /\ e # lBefore => lNext'[e] = lNext[e]
    BY <1>0, <2>0, <2>1 DEF LockTypeOK
  <2>9. LockNextInv'
    <3>1. lNext'[Locked!Head0] = IF LockFirst' <= Locked!Newest' THEN LockFirst' ELSE Locked!Head0
      <4>1. CASE LockFirst <= lC - 1
        <5>1. lBefore = lC - 1 /\ Locked!Head0 # lC /\ Locked!Head0 # lBefore /\ Locked!Head0 \in Locked!Nodes
          BY <1>r, <2>0, <2>1, <4>1, LoopNat DEF LockLast, Locked!Head0, Locked!Nodes
        <5>2. lNext'[Locked!Head0] = LockFirst  BY <1>0, <2>1, <2>8, <4>1, <5>1 DEF LockNextInv
        <5> QED  BY <1>r, <1>u, <2>1, <4>1, <5>2
      <4>2. CASE ~(LockFirst <= lC - 1)
        <5>1. lBefore = Locked!Head0 /\ LockFirst = lC  BY <1>r, <2>0, <2>1, <4>2 DEF LockLast
        <5> QED  BY <1>u, <2>1, <2>8, <5>1
      <4> QED  BY <4>1, <4>2
    <3>2. ASSUME NEW e \in LockFirst' .. Locked!Newest' PROVE lNext'[e] = IF e < Locked!Newest' THEN e + 1 ELSE Locked!Head0
      <4>1. e \in LockFirst .. lC /\ e \in Locked!Nodes  BY <1>r, <1>u, <2>1 DEF Locked!Nodes
      <4>2. CASE e = lC  BY <2>1, <2>8, <4>2
      <4>3. CASE e = lC - 1
        <5>1. lBefore = e  BY <1>r, <2>0, <2>1, <4>1, <4>3 DEF LockLast
        <5> QED  BY <2>1, <2>8, <4>3, <5>1
      <4>4. CASE e < lC - 1
        <5>0. LockFirst <= Locked!Newest  BY <1>r, <2>1, <4>1, <4>4
        <5>1. lBefore = lC - 1  BY <2>0, <2>1, <5>0 DEF LockLast
        <5>2. lNext[e] = e + 1  BY <1>0, <1>r, <2>1, <4>1, <4>4 DEF LockNextInv
        <5> QED  BY <2>1, <2>8, <4>1, <4>4, <5>1, <5>2
      <4> QED  BY <1>r, <2>1, <4>1, <4>2, <4>3, <4>4
    <3> QED  BY <3>1, <3>2 DEF LockNextInv
  <2>10. LockPrevInv'
    <3>1. lPrev'[Locked!Head0] = lBefore' /\ lPrev'[lC] = lBefore /\ \A e \in Locked!Nodes : e # lC => lPrev'[e] = lPrev[e]
      <4>1. lPrev[Locked!Head0] = LockLast /\ Locked!Head0 # lC /\ Locked!Head0 \in Locked!Nodes
        BY <1>0, <1>l, <2>0, <2>1, LoopNat DEF LockPrevInv, Locked!Head0, Locked!Nodes
      <4> QED  BY <1>0, <2>0, <2>1, <4>1 DEF LockTypeOK
    <3>2. ASSUME NEW e \in LockFirst' .. Locked!Newest' PROVE lPrev'[e] = IF e > LockFirst' THEN e - 1 ELSE Locked!Head0
      <4>1. e \in LockFirst .. lC /\ e \in Locked!Nodes  BY <1>r, <1>u, <2>1 DEF Locked!Nodes
      <4>2. CASE e = lC  BY <1>r, <1>u, <2>0, <2>1, <3>1, <4>1, <4>2 DEF LockLast
      <4>3. CASE e # lC
        <5>1. e \in LockFirst .. Locked!Newest /\ lPrev'[e] = lPrev[e]  BY <1>r, <2>1, <3>1, <4>1, <4>3
        <5> QED  BY <1>0, <1>l, <1>u, <5>1 DEF LockPrevInv
      <4> QED  BY <4>2, <4>3
    <3> QED  BY <1>l, <1>u, <2>0, <3>1, <3>2 DEF LockPrevInv
  <2> QED  BY <2>3, <2>4, <2>6, <2>7, <2>9, <2>10 DEF LockIInv
<1>4. CASE Locked!PushBack
  <2>0. /\ lWpc = "back" /\ lWpc' = "unlock" /\ lI <= LOOP /\ lC = lI /\ lOwner' = lOwner
        /\ lPrev' = [lPrev EXCEPT ![Locked!Head0] = lC]
        /\ UNCHANGED <<lNext, lData, lC, lBefore, lI>>
    BY <1>0, <1>4 DEF Locked!PushBack, LockWriterInv
  <2>1. Locked!Newest = lC /\ Locked!Newest' = lC /\ LockLast' = LockLast /\ lC \in 1 .. LOOP /\ lC \in Locked!Nodes /\ Locked!Head0 \in Locked!Nodes
    BY <1>0, <1>r, <1>u, <2>0 DEF Locked!Newest, LockLast, LockTypeOK, Locked!Nodes, Locked!Head0
  <2>2. lPrev' \in [Locked!Nodes -> Locked!Nodes] /\ lPrev'[Locked!Head0] = lC /\ \A e \in Locked!Nodes : e # Locked!Head0 => lPrev'[e] = lPrev[e]
    BY <1>0, <2>0, <2>1 DEF LockTypeOK
  <2>3. LockTypeOK'  BY <1>0, <1>u, <2>0, <2>2 DEF LockTypeOK
  <2>4. LockOwnerInv'  BY <1>0, <1>l, <1>u, <2>0 DEF LockOwnerInv
  <2>5. LockWriterInv'  BY <1>0, <2>0 DEF LockWriterInv
  <2>6. LockReaderInv'  BY <1>0, <1>l, <1>u, <2>0, <2>1 DEF LockReaderInv
  <2>7. LockNextInv'  BY <1>0, <1>u, <2>0, <2>1 DEF LockNextInv
  <2>8. LockFirst <= Locked!Newest
    BY <1>0, <1>l, <1>r, <2>0 DEF LockWriterInv
  <2>9. LockPrevInv'
    <3>1. ASSUME NEW e \in LockFirst .. lC PROVE lPrev'[e] = lPrev[e]
      BY <1>r, <2>1, <2>2, LoopNat, SMTT(30) DEF Locked!Nodes, Locked!Head0
    <3>2. LockLast' = lC  BY <2>1, <2>8 DEF LockLast
    <3> QED  BY <1>0, <1>l, <1>u, <2>0, <2>1, <2>2, <3>1, <3>2 DEF LockPrevInv
  <2> QED  BY <2>3, <2>4, <2>5, <2>6, <2>7, <2>9 DEF LockIInv
<1>5. CASE Locked!PushUnlock
  <2>0. /\ lWpc = "unlock" /\ lWpc' = "lock" /\ lI <= LOOP /\ lC = lI /\ lOwner' = "nobody" /\ lI' = lI + 1
        /\ UNCHANGED <<lNext, lPrev, lData, lC, lBefore>>
    BY <1>0, <1>5 DEF Locked!PushUnlock, Locked!Unlock, Locked!lists, LockWriterInv
  <2>1. Locked!Newest' = Locked!Newest /\ LockLast' = LockLast
    BY <1>u, <2>0 DEF Locked!Newest, LockLast
  <2>2. LockTypeOK'  BY <1>0, <1>u, <2>0, LoopNat DEF LockTypeOK
  <2>3. LockOwnerInv'  BY <1>0, <1>l, <1>u, <2>0 DEF LockOwnerInv
  <2>4. LockWriterInv'  BY <1>0, <2>0, LoopNat DEF LockWriterInv, LockTypeOK
  <2>5. LockReaderInv'  BY <1>0, <1>l, <1>u, <2>0, <2>1 DEF LockReaderInv
  <2>6. LockNextInv'  BY <1>0, <1>u, <2>0, <2>1 DEF LockNextInv
  <2>7. LockPrevInv'  BY <1>0, <1>l, <1>u, <2>0, <2>1 DEF LockPrevInv
  <2> QED  BY <2>2, <2>3, <2>4, <2>5, <2>6, <2>7 DEF LockIInv
<1> QED  BY <1>1, <1>2, <1>3, <1>4, <1>5 DEF Locked!Write

\* A step of the reader leaves the invariant.
LEMMA LockReaderStep == LockIInv /\ Locked!Read => LockIInv'
<1> SUFFICES ASSUME LockIInv, Locked!Read PROVE LockIInv'
  OBVIOUS
<1>0. LockTypeOK /\ LockOwnerInv /\ LockWriterInv /\ LockReaderInv /\ LockNextInv /\ LockPrevInv
  BY DEF LockIInv
<1>r. /\ LockCount \in Nat /\ Locked!Unlinked \in {0, 1} /\ LockFirst \in Nat \ {0}
      /\ Locked!Newest \in 0 .. LOOP /\ Locked!Newest <= lC /\ LockCount <= Locked!Newest /\ lC \in 0 .. LOOP
      /\ LockFirst = LockCount + Locked!Unlinked + 1 /\ LockFirst <= Locked!Newest + 1
      /\ LockLast \in Locked!Nodes /\ LOOP \in Nat
  BY LockRanges
<1>u. lData' = lData /\ lC' = lC /\ lWpc' = lWpc /\ lBefore' = lBefore /\ lI' = lI /\ Locked!Newest' = Locked!Newest
  BY DEF Locked!Read, Locked!PopLock, Locked!PopFirst, Locked!PopUnlink, Locked!PopBack, Locked!PopUnlock, Locked!writerVars, Locked!Newest
<1>l. lWpc = "lock" /\ Locked!Newest = lC
  <2>1. lWpc = "lock"
    BY <1>0 DEF Locked!Read, Locked!PopLock, Locked!PopFirst, Locked!PopUnlink, Locked!PopBack, Locked!PopUnlock, Locked!Lock, LockOwnerInv
  <2> QED  BY <2>1 DEF Locked!Newest
<1>w. LockWriterInv'  BY <1>0, <1>u, <1>l DEF LockWriterInv
<1>n. Locked!Head0 \in Locked!Nodes /\ \A e \in LockFirst .. Locked!Newest : e \in Locked!Nodes /\ e # Locked!Head0
  BY <1>r DEF Locked!Nodes, Locked!Head0
<1>1. CASE Locked!PopLock
  <2>0. lRpc = "lock" /\ lRpc' = "first" /\ lOwner = "nobody" /\ lOwner' = "reader"
        /\ UNCHANGED <<lNext, lPrev, lElem, lGot>>
    BY <1>1 DEF Locked!PopLock, Locked!Lock, Locked!lists
  <2>1. LockCount' = LockCount /\ Locked!Unlinked' = Locked!Unlinked /\ LockFirst' = LockFirst /\ LockLast' = LockLast
    BY <1>u, <2>0 DEF LockCount, Locked!Unlinked, LockFirst, LockLast
  <2>2. LockTypeOK'  BY <1>0, <1>u, <2>0 DEF LockTypeOK
  <2>3. LockOwnerInv'  BY <1>0, <1>l, <1>u, <2>0 DEF LockOwnerInv
  <2>4. LockReaderInv'  BY <1>0, <1>u, <2>0, <2>1 DEF LockReaderInv
  <2>5. LockNextInv'  BY <1>0, <1>u, <2>0, <2>1 DEF LockNextInv
  <2>6. LockPrevInv'  BY <1>0, <1>l, <1>u, <2>0, <2>1 DEF LockPrevInv
  <2> QED  BY <1>w, <2>2, <2>3, <2>4, <2>5, <2>6 DEF LockIInv
<1>2. CASE Locked!PopFirst
  <2>0. lRpc = "first" /\ lRpc' = (IF lNext[Locked!Head0] = Locked!Head0 THEN "unlock" ELSE "unlink") /\ lElem' = lNext[Locked!Head0]
        /\ UNCHANGED <<lOwner, lNext, lPrev, lGot>>
    BY <1>2 DEF Locked!PopFirst, Locked!lists
  <2>1. Locked!Unlinked = 0 /\ Locked!Unlinked' = 0 /\ LockFirst = LockCount + 1
    BY <1>0, <1>r, <2>0 DEF Locked!Unlinked, LockReaderInv
  <2>2. LockCount' = LockCount /\ LockFirst' = LockFirst /\ LockLast' = LockLast
    BY <1>u, <2>0, <2>1 DEF LockCount, LockFirst, LockLast
  <2>3. lElem' = (IF LockFirst <= Locked!Newest THEN LockFirst ELSE Locked!Head0) /\ lElem' \in Locked!Nodes
    BY <1>0, <1>n, <1>r, <2>0 DEF LockNextInv
  <2>4. lRpc' = IF LockFirst <= Locked!Newest THEN "unlink" ELSE "unlock"
    BY <1>r, <2>0, <2>3 DEF Locked!Head0
  <2>5. LockTypeOK'  BY <1>0, <1>u, <2>0, <2>3, <2>4 DEF LockTypeOK
  <2>6. LockOwnerInv'  BY <1>0, <1>l, <1>u, <2>0, <2>4 DEF LockOwnerInv
  <2>7. LockReaderInv'
    BY <1>0, <1>l, <1>r, <1>u, <2>0, <2>1, <2>2, <2>3, <2>4 DEF LockReaderInv
  <2>8. LockNextInv'  BY <1>0, <1>u, <2>0, <2>2 DEF LockNextInv
  <2>9. LockPrevInv'  BY <1>0, <1>l, <1>u, <2>0, <2>2, <2>4 DEF LockPrevInv
  <2> QED  BY <1>w, <2>5, <2>6, <2>7, <2>8, <2>9 DEF LockIInv
<1>3. CASE Locked!PopUnlink
  <2>0. /\ lRpc = "unlink" /\ lRpc' = "back" /\ lNext' = [lNext EXCEPT ![lPrev[lElem]] = lNext[lElem]]
        /\ UNCHANGED <<lOwner, lPrev, lElem, lGot>>
    BY <1>3 DEF Locked!PopUnlink
  <2>1. Locked!Unlinked = 0 /\ LockFirst = LockCount + 1 /\ lElem = LockFirst /\ LockFirst <= Locked!Newest /\ lElem # Locked!Head0 /\ lElem \in Locked!Nodes
    BY <1>0, <1>l, <1>n, <1>r, <2>0 DEF Locked!Unlinked, LockReaderInv
  <2>2. LockCount' = LockCount /\ Locked!Unlinked' = 1 /\ LockFirst' = LockFirst + 1
    BY <1>r, <2>0, <2>1 DEF LockCount, Locked!Unlinked, LockFirst
  <2>3. lPrev[lElem] = Locked!Head0  BY <1>0, <1>r, <2>0, <2>1 DEF LockPrevInv
  <2>4. lNext[lElem] = (IF LockFirst < Locked!Newest THEN LockFirst + 1 ELSE Locked!Head0)
    BY <1>0, <1>r, <2>1 DEF LockNextInv
  <2>5. /\ lNext' \in [Locked!Nodes -> Locked!Nodes] /\ lNext'[Locked!Head0] = lNext[lElem]
        /\ \A e \in Locked!Nodes : e # Locked!Head0 => lNext'[e] = lNext[e]
    BY <1>0, <1>n, <2>0, <2>1, <2>3 DEF LockTypeOK
  <2>6. LockTypeOK'  BY <1>0, <1>u, <2>0, <2>5 DEF LockTypeOK
  <2>7. LockOwnerInv'  BY <1>0, <1>l, <1>u, <2>0 DEF LockOwnerInv
  <2>8. LockReaderInv'
    <3>1. lNext'[lElem'] = lNext'[Locked!Head0]  BY <2>0, <2>1, <2>5
    <3>2. lElem' = LockCount' + 1 /\ lElem' <= lC' /\ LockCount' <= Locked!Newest'  BY <1>r, <1>u, <2>0, <2>1, <2>2
    <3> QED  BY <1>0, <2>0, <2>2, <3>1, <3>2 DEF LockReaderInv
  <2>9. LockNextInv'
    <3>1. lNext'[Locked!Head0] = IF LockFirst' <= Locked!Newest' THEN LockFirst' ELSE Locked!Head0
      BY <1>r, <1>u, <2>1, <2>2, <2>4, <2>5
    <3>2. ASSUME NEW e \in LockFirst' .. Locked!Newest' PROVE lNext'[e] = IF e < Locked!Newest' THEN e + 1 ELSE Locked!Head0
      <4>1. e \in LockFirst .. Locked!Newest  BY <1>r, <1>u, <2>2
      <4>2. lNext'[e] = lNext[e]  BY <1>n, <2>5, <4>1
      <4> QED  BY <1>0, <1>u, <4>1, <4>2 DEF LockNextInv
    <3> QED  BY <3>1, <3>2 DEF LockNextInv
  <2>10. LockPrevInv'
    <3>1. lPrev[Locked!Head0] = Locked!Newest  BY <1>0, <1>l, <2>0, <2>1 DEF LockPrevInv, LockLast
    <3>2. lPrev'[Locked!Head0] = IF LockFirst' > Locked!Newest' THEN lElem' ELSE LockLast'
      BY <1>r, <1>u, <2>0, <2>1, <2>2, <3>1 DEF LockLast
    <3>3. ASSUME NEW e \in LockFirst' .. Locked!Newest' PROVE lPrev'[e] = IF e > LockFirst' THEN e - 1 ELSE lElem'
      <4>1. e \in LockFirst .. Locked!Newest /\ e > LockFirst  BY <1>r, <1>u, <2>2
      <4>2. lPrev[e] = e - 1  BY <1>0, <4>1 DEF LockPrevInv
      <4>3. ~(e > LockFirst') => e - 1 = lElem  BY <1>r, <1>u, <2>1, <2>2, <4>1
      <4> QED  BY <2>0, <4>2, <4>3
    <3> QED  BY <1>l, <1>u, <2>0, <2>3, <3>2, <3>3 DEF LockPrevInv
  <2> QED  BY <1>w, <2>6, <2>7, <2>8, <2>9, <2>10 DEF LockIInv
<1>4. CASE Locked!PopBack
  <2>0. /\ lRpc = "back" /\ lRpc' = "unlock"
        /\ lPrev' = [lPrev EXCEPT ![lNext[lElem]] = lPrev[lElem], ![lElem] = lElem]
        /\ lNext' = [lNext EXCEPT ![lElem] = lElem]
        /\ UNCHANGED <<lOwner, lElem, lGot>>
    BY <1>4 DEF Locked!PopBack
  <2>1. lElem = LockCount + 1 /\ lElem <= lC /\ lElem # Locked!Head0 /\ lElem \in Locked!Nodes
    BY <1>0, <1>r, <2>0 DEF LockReaderInv, Locked!Head0, Locked!Nodes
  <2>2. Locked!Unlinked = 1 /\ LockFirst = lElem + 1
    BY <1>r, <2>0, <2>1 DEF Locked!Unlinked
  <2>3. LockCount' = LockCount /\ Locked!Unlinked' = 1 /\ LockFirst' = LockFirst /\ LockLast' = LockLast
    BY <1>r, <1>u, <2>0, <2>1, <2>2 DEF LockCount, Locked!Unlinked, LockFirst, LockLast
  <2>4. lPrev[lElem] = Locked!Head0 /\ lNext[lElem] = IF LockFirst <= Locked!Newest THEN LockFirst ELSE Locked!Head0
    BY <1>0, <2>0 DEF LockPrevInv, LockReaderInv, LockNextInv
  <2>5. lNext[lElem] \in Locked!Nodes /\ lNext[lElem] # lElem
    BY <1>n, <1>r, <2>1, <2>2, <2>4 DEF Locked!Head0
  <2>6. /\ lNext' \in [Locked!Nodes -> Locked!Nodes] /\ lPrev' \in [Locked!Nodes -> Locked!Nodes]
        /\ lPrev'[lNext[lElem]] = Locked!Head0
        /\ \A e \in Locked!Nodes : e # lElem => lNext'[e] = lNext[e]
        /\ \A e \in Locked!Nodes : e # lElem /\ e # lNext[lElem] => lPrev'[e] = lPrev[e]
    BY <1>0, <1>n, <2>0, <2>1, <2>4, <2>5 DEF LockTypeOK
  <2>7. \A e \in LockFirst .. Locked!Newest : e \in Locked!Nodes /\ e # lElem /\ e # Locked!Head0
    BY <1>n, <1>r, <2>1, <2>2
  <2>8. LockTypeOK'  BY <1>0, <1>u, <2>0, <2>6 DEF LockTypeOK
  <2>9. LockOwnerInv'  BY <1>0, <1>l, <1>u, <2>0 DEF LockOwnerInv
  <2>10. LockReaderInv'  BY <1>0, <1>u, <2>0, <2>1, <2>3 DEF LockReaderInv
  <2>11. LockNextInv'  BY <1>0, <1>n, <1>u, <2>1, <2>3, <2>6, <2>7 DEF LockNextInv
  <2>12. LockPrevInv'
    <3>1. lPrev'[Locked!Head0] = LockLast
      <4>1. CASE LockFirst <= Locked!Newest
        <5>1. lNext[lElem] # Locked!Head0  BY <1>r, <2>4, <4>1 DEF Locked!Head0
        <5>2. lPrev'[Locked!Head0] = lPrev[Locked!Head0]  BY <1>n, <2>1, <2>6, <5>1
        <5>3. ~(LockFirst > Locked!Newest)  BY <1>r, <4>1
        <5> QED  BY <1>0, <1>l, <5>2, <5>3 DEF LockPrevInv
      <4>2. CASE ~(LockFirst <= Locked!Newest)  BY <2>4, <2>6, <4>2 DEF LockLast
      <4> QED  BY <4>1, <4>2
    <3>2. ASSUME NEW e \in LockFirst' .. Locked!Newest' PROVE lPrev'[e] = IF e > LockFirst' THEN e - 1 ELSE Locked!Head0
      <4>0. e \in LockFirst .. Locked!Newest  BY <1>u, <2>3
      <4>1. LockFirst <= Locked!Newest  BY <1>r, <4>0
      <4>2. lNext[lElem] = LockFirst  BY <2>4, <4>1
      <4>3. CASE e = LockFirst
        <5>1. ~(e > LockFirst)  BY <1>r, <4>3
        <5> QED  BY <2>3, <2>6, <4>2, <4>3, <5>1
      <4>4. CASE e # LockFirst
        <5>1. e > LockFirst  BY <1>r, <4>0, <4>4
        <5>2. lPrev'[e] = lPrev[e]  BY <2>6, <2>7, <4>0, <4>2, <4>4
        <5> QED  BY <1>0, <2>3, <4>0, <5>1, <5>2 DEF LockPrevInv
      <4> QED  BY <4>3, <4>4
    <3>3. lPrev'[Locked!Head0] = LockLast' /\ lRpc' = "unlock" /\ lWpc' = "lock"  BY <1>l, <1>u, <2>0, <2>3, <3>1
    <3> QED  BY <3>2, <3>3 DEF LockPrevInv
  <2> QED  BY <1>w, <2>8, <2>9, <2>10, <2>11, <2>12 DEF LockIInv
<1>5. CASE Locked!PopUnlock
  <2>0. /\ lRpc = "unlock" /\ lRpc' = "lock" /\ lOwner' = "nobody" /\ lElem' = Locked!Head0
        /\ lGot' = IF lElem = Locked!Head0 THEN lGot ELSE Append(lGot, lData[lElem])
        /\ UNCHANGED <<lNext, lPrev>>
    BY <1>5 DEF Locked!PopUnlock, Locked!Unlock, Locked!lists
  <2>1. lGot = [k \in 1 .. LockCount |-> k] /\ Locked!Unlinked' = 0
    BY <1>0, <2>0 DEF LockReaderInv, Locked!Unlinked
  <2>2. /\ lGot' = [k \in 1 .. LockCount' |-> k] /\ LockCount' = LockCount + Locked!Unlinked /\ lGot' \in Seq(0 .. LOOP)
        /\ LockCount' <= Locked!Newest
    <3>1. CASE lElem = Locked!Head0  BY <1>0, <1>r, <2>0, <2>1, <3>1 DEF Locked!Unlinked, LockCount, LockTypeOK
    <3>2. CASE lElem # Locked!Head0
      <4>1. Locked!Unlinked = 1 /\ lElem = LockCount + 1 /\ lElem <= lC /\ lElem \in 1 .. lC /\ lElem \in 0 .. LOOP
        BY <1>0, <1>r, <2>0, <3>2 DEF Locked!Unlinked, LockReaderInv
      <4>2. lData[lElem] = lElem  BY <1>0, <4>1 DEF LockWriterInv
      <4>3. lGot' = [k \in 1 .. (LockCount + 1) |-> k]
        BY <1>r, <2>0, <2>1, <3>2, <4>1, <4>2, LockNumbers
      <4>4. Len(lGot') = LockCount + 1  BY <1>r, <4>3, LockNumbers
      <4>5. lGot' \in Seq(0 .. LOOP)  BY <1>0, <2>0, <3>2, <4>1, <4>2 DEF LockTypeOK
      <4> QED  BY <1>l, <4>1, <4>3, <4>4, <4>5 DEF LockCount
    <3> QED  BY <3>1, <3>2
  <2>3. LockFirst' = LockFirst /\ LockLast' = LockLast
    BY <1>r, <1>u, <2>1, <2>2 DEF LockFirst, LockLast
  <2>4. LockTypeOK'  BY <1>0, <1>n, <1>u, <2>0, <2>2 DEF LockTypeOK
  <2>5. LockOwnerInv'  BY <1>0, <1>l, <1>u, <2>0 DEF LockOwnerInv
  <2>6. LockReaderInv'  BY <1>u, <2>0, <2>2 DEF LockReaderInv
  <2>7. LockNextInv'  BY <1>0, <1>u, <2>0, <2>3 DEF LockNextInv
  <2>8. LockPrevInv'  BY <1>0, <1>l, <1>u, <2>0, <2>3 DEF LockPrevInv
  <2> QED  BY <1>w, <2>4, <2>5, <2>6, <2>7, <2>8 DEF LockIInv
<1> QED  BY <1>1, <1>2, <1>3, <1>4, <1>5 DEF Locked!Read

\* The invariant holds in every reachable state.
THEOREM LockInvariance == Locked!Spec => []LockIInv
<1>1. LockIInv /\ UNCHANGED Locked!vars => LockIInv'
  BY DEF Locked!vars, LockIInv, LockTypeOK, LockOwnerInv, LockWriterInv, LockReaderInv, LockNextInv, LockPrevInv,
         LockCount, LockFirst, Locked!Unlinked, Locked!Newest, LockLast
<1> QED  BY LockInitInv, LockWriterStep, LockReaderStep, <1>1, PTL DEF Locked!Spec, Locked!Next

---------------------------------------------------------------------------
\* What the queue holds, when the invariant holds: the numbers after Count.
LockHeld == [k \in 1 .. (Locked!Newest - LockCount) |-> LockCount + k]

LockHeldFacts ==
  /\ Locked!Contents = LockHeld
  /\ Locked!Newest \in 0 .. LOOP /\ LockCount \in Nat /\ LockCount <= Locked!Newest
  /\ Locked!Pushed \in 0 .. LOOP /\ Locked!Newest = Locked!Pushed

\* Following the links from the oldest element meets the elements in order, in
\* the middle of a push or of a pop too.
LEMMA LockContentsHeld == LockIInv => LockHeldFacts
<1> SUFFICES ASSUME LockIInv PROVE LockHeldFacts
  OBVIOUS
<1>0. LockTypeOK /\ LockOwnerInv /\ LockWriterInv /\ LockReaderInv /\ LockNextInv
  BY DEF LockIInv
<1>r. /\ LockCount \in Nat /\ Locked!Unlinked \in {0, 1} /\ LockFirst \in Nat \ {0}
      /\ Locked!Newest \in 0 .. LOOP /\ Locked!Newest <= lC /\ LockCount <= Locked!Newest /\ lC \in 0 .. LOOP
      /\ LockFirst = LockCount + Locked!Unlinked + 1 /\ LockFirst <= Locked!Newest + 1 /\ LOOP \in Nat
  BY LockRanges
<1>1. Locked!Pushed \in 0 .. LOOP /\ Locked!Newest = Locked!Pushed
  <2>1. lI \in 1 .. LOOP + 1 /\ lC = (IF lWpc \in {"lock", "new"} THEN lI - 1 ELSE lI)
        /\ (lWpc # "lock" => lI <= LOOP) /\ lWpc \in {"lock", "new", "link", "back", "unlock"}
    BY <1>0 DEF LockTypeOK, LockWriterInv
  <2> QED  BY <1>r, <2>1 DEF Locked!Pushed, Locked!Newest
<1>2. ASSUME NEW k \in 1 .. (Locked!Newest - LockCount) PROVE lData[Locked!Place(k)] = LockCount + k
  <2>1. Locked!Place(k) = LockCount + k
    <3>1. CASE k <= Locked!Unlinked
      <4>1. k = 1 /\ Locked!Unlinked = 1 /\ lElem = LockCount + 1
        BY <1>0, <1>r, <3>1 DEF Locked!Unlinked, LockReaderInv
      <4> QED  BY <3>1, <4>1 DEF Locked!Place
    <3>2. CASE k = Locked!Unlinked + 1
      <4>1. LockFirst <= Locked!Newest /\ LockFirst = LockCount + k /\ ~(k <= Locked!Unlinked)  BY <1>r, <3>2
      <4> QED  BY <1>0, <3>2, <4>1 DEF Locked!Place, LockNextInv
    <3>3. CASE k > Locked!Unlinked + 1
      <4>1. LockCount + k - 1 \in LockFirst .. Locked!Newest /\ LockCount + k - 1 < Locked!Newest /\ ~(k <= Locked!Unlinked)
            /\ k # Locked!Unlinked + 1 /\ LockCount + k - 1 + 1 = LockCount + k
        BY <1>r, <3>3
      <4>2. lNext[LockCount + k - 1] = LockCount + k - 1 + 1
        BY <1>0, <4>1 DEF LockNextInv
      <4>3. Len(lGot) + k - 1 = LockCount + k - 1  BY DEF LockCount
      <4> QED  BY <4>1, <4>2, <4>3 DEF Locked!Place
    <3> QED  BY <1>r, <3>1, <3>2, <3>3
  <2>2. LockCount + k \in 1 .. lC  BY <1>r
  <2> QED  BY <1>0, <2>1, <2>2 DEF LockWriterInv
<1>3. Locked!Contents = LockHeld  BY <1>2 DEF Locked!Contents, LockHeld, LockCount
<1> QED  BY <1>r, <1>1, <1>3 DEF LockHeldFacts

\* A push of the number after the newest one.
LEMMA LockHeldPush ==
  ASSUME NEW o \in Nat, NEW n \in Nat, o <= n
  PROVE  Append([k \in 1 .. (n - o) |-> o + k], n + 1) = [k \in 1 .. (n + 1 - o) |-> o + k]
OBVIOUS

\* A pop of the oldest number.
LEMMA LockHeldPop ==
  ASSUME NEW o \in Nat, NEW n \in Nat, o < n
  PROVE  LET s == [k \in 1 .. (n - o) |-> o + k]
         IN  s # <<>> /\ Head(s) = o + 1 /\ Tail(s) = [k \in 1 .. (n - (o + 1)) |-> (o + 1) + k]
<1> DEFINE s == [k \in 1 .. (n - o) |-> o + k]
<1>1. s \in Seq(Nat) /\ Len(s) = n - o /\ n - o \in Nat \ {0}
  OBVIOUS
<1>2. s # <<>> /\ Head(s) = o + 1
  BY <1>1
<1>3. Tail(s) = [k \in 1 .. (n - o - 1) |-> s[k + 1]]
  BY <1>1, SMTT(30)
<1>4. n - o - 1 = n - (o + 1) /\ \A k \in 1 .. (n - o - 1) : s[k + 1] = (o + 1) + k
  OBVIOUS
<1> QED  BY <1>2, <1>3, <1>4, ZenonT(30)

\* The step of the writer that links the element pushes it, the others change nothing.
LEMMA LockWriterRefines == LockIInv /\ LockIInv' /\ Locked!Write => [Locked!Abstract!Next]_(Locked!Abstract!vars)
<1> SUFFICES ASSUME LockIInv, LockIInv', Locked!Write PROVE [Locked!Abstract!Next]_(Locked!Abstract!vars)
  OBVIOUS
<1>00. LockHeldFacts /\ LockHeldFacts'
  BY LockContentsHeld, PTL
<1>0. /\ Locked!Contents = LockHeld /\ Locked!Newest \in 0 .. LOOP /\ LockCount \in Nat /\ LockCount <= Locked!Newest /\ Locked!Newest = Locked!Pushed
      /\ Locked!Contents' = LockHeld' /\ Locked!Newest' \in 0 .. LOOP /\ Locked!Newest' = Locked!Pushed' /\ LOOP \in Nat
  BY <1>00, LoopNat DEF LockHeldFacts
<1>a. LockCount' = LockCount /\ lGot' = lGot
  BY DEF Locked!Write, Locked!PushLock, Locked!PushNew, Locked!PushLink, Locked!PushBack, Locked!PushUnlock, Locked!readerVars, LockCount
<1>b. ASSUME Locked!Newest' = Locked!Newest PROVE [Locked!Abstract!Next]_(Locked!Abstract!vars)
  <2>1. Locked!Contents' = Locked!Contents  BY <1>0, <1>a, <1>b DEF LockHeld
  <2>2. [k \in 1 .. Locked!Pushed |-> k]' = [k \in 1 .. Locked!Pushed |-> k]  BY <1>0, <1>b
  <2> QED  BY <1>a, <2>1, <2>2 DEF Locked!Abstract!vars
<1>c. ASSUME Locked!Newest' = Locked!Newest + 1 PROVE [Locked!Abstract!Next]_(Locked!Abstract!vars)
  <2>1. LockHeld' = Append(LockHeld, Locked!Newest + 1)
    BY <1>0, <1>a, <1>c, LockHeldPush DEF LockHeld
  <2>2. [k \in 1 .. Locked!Pushed |-> k]' = Append([k \in 1 .. Locked!Pushed |-> k], Locked!Newest + 1)
    BY <1>0, <1>c, LockNumbers
  <2>3. Locked!Newest + 1 \in 1 .. LOOP  BY <1>0, <1>c
  <2> QED  BY <1>0, <1>a, <2>1, <2>2, <2>3 DEF Locked!Abstract!Next, Locked!Abstract!Push
<1>1. CASE Locked!PushLock  BY <1>1, <1>b DEF Locked!PushLock, Locked!Newest
<1>2. CASE Locked!PushNew
  <2>1. Locked!Newest' = Locked!Newest  BY <1>2 DEF Locked!PushNew, Locked!Newest, LockIInv, LockTypeOK
  <2> QED  BY <1>b, <2>1
<1>3. CASE Locked!PushLink
  <2>1. Locked!Newest' = Locked!Newest + 1  BY <1>3 DEF Locked!PushLink, Locked!Newest, LockIInv, LockTypeOK
  <2> QED  BY <1>c, <2>1
<1>4. CASE Locked!PushBack  BY <1>4, <1>b DEF Locked!PushBack, Locked!Newest
<1>5. CASE Locked!PushUnlock  BY <1>5, <1>b DEF Locked!PushUnlock, Locked!Newest
<1> QED  BY <1>1, <1>2, <1>3, <1>4, <1>5 DEF Locked!Write

\* Only the step in which the pop returns takes an element.
LEMMA LockReaderRefines == LockIInv /\ LockIInv' /\ Locked!Read => [Locked!Abstract!Next]_(Locked!Abstract!vars)
<1> SUFFICES ASSUME LockIInv, LockIInv', Locked!Read PROVE [Locked!Abstract!Next]_(Locked!Abstract!vars)
  OBVIOUS
<1>00. LockHeldFacts /\ LockHeldFacts'
  BY LockContentsHeld, PTL
<1>0. /\ Locked!Contents = LockHeld /\ Locked!Newest \in 0 .. LOOP /\ LockCount \in Nat /\ LockCount <= Locked!Newest
      /\ Locked!Contents' = LockHeld' /\ LockCount' \in Nat /\ LockCount' <= Locked!Newest' /\ LOOP \in Nat
  BY <1>00, LoopNat DEF LockHeldFacts
<1>a. Locked!Newest' = Locked!Newest /\ Locked!Pushed' = Locked!Pushed
  BY DEF Locked!Read, Locked!PopLock, Locked!PopFirst, Locked!PopUnlink, Locked!PopBack, Locked!PopUnlock, Locked!writerVars, Locked!Newest, Locked!Pushed
<1>b. ASSUME lGot' = lGot PROVE [Locked!Abstract!Next]_(Locked!Abstract!vars)
  <2>1. Locked!Contents' = Locked!Contents  BY <1>0, <1>a, <1>b DEF LockHeld, LockCount
  <2>2. [k \in 1 .. Locked!Pushed |-> k]' = [k \in 1 .. Locked!Pushed |-> k]  BY <1>a
  <2> QED  BY <1>b, <2>1, <2>2 DEF Locked!Abstract!vars
<1>1. CASE Locked!PopLock  BY <1>1, <1>b DEF Locked!PopLock
<1>2. CASE Locked!PopFirst  BY <1>2, <1>b DEF Locked!PopFirst
<1>3. CASE Locked!PopUnlink  BY <1>3, <1>b DEF Locked!PopUnlink
<1>4. CASE Locked!PopBack  BY <1>4, <1>b DEF Locked!PopBack
<1>5. CASE Locked!PopUnlock
  <2>1. CASE lElem = Locked!Head0  BY <1>5, <1>b, <2>1 DEF Locked!PopUnlock
  <2>2. CASE lElem # Locked!Head0
    <3>1. lElem = LockCount + 1 /\ lElem \in 1 .. lC /\ lGot' = Append(lGot, lData[lElem])
      BY <1>5, <1>0, <2>2, SMTT(30) DEF Locked!PopUnlock, LockIInv, LockReaderInv, LockTypeOK
    <3>2. lData[lElem] = LockCount + 1  BY <3>1 DEF LockIInv, LockWriterInv
    <3>3. LockCount' = LockCount + 1
      BY <3>1 DEF LockCount, LockIInv, LockTypeOK
    <3>4. LockHeld # <<>> /\ Head(LockHeld) = LockCount + 1 /\ Tail(LockHeld) = [k \in 1 .. (Locked!Newest - (LockCount + 1)) |-> (LockCount + 1) + k]
      <4>1. LockCount \in Nat /\ Locked!Newest \in Nat /\ LockCount < Locked!Newest  BY <1>0, <1>a, <3>3
      <4> QED  BY <4>1, LockHeldPop DEF LockHeld
    <3>5. LockHeld' = Tail(LockHeld)
      BY <1>a, <3>3, <3>4 DEF LockHeld
    <3> QED  BY <1>0, <1>a, <3>1, <3>2, <3>4, <3>5 DEF Locked!Abstract!Next, Locked!Abstract!Pop
  <2> QED  BY <2>1, <2>2
<1> QED  BY <1>1, <1>2, <1>3, <1>4, <1>5 DEF Locked!Read

\* The queue of s_lock_queue.c and s_spinlock_queue.c implements the FIFO queue,
\* for every number of pushes: the pointer updates of a push and of a pop take
\* effect at once, at the link of the push and at the return of the pop.
THEOREM LockRefinement == Locked!Spec => Locked!IsFifo
<1>1. Locked!Init => Locked!Abstract!Init
  BY LoopNat DEF Locked!Init, Locked!Abstract!Init, Locked!Contents, Locked!Newest, Locked!Pushed
<1>2. LockIInv /\ LockIInv' /\ [Locked!Next]_(Locked!vars) => [Locked!Abstract!Next]_(Locked!Abstract!vars)
  <2>1. ASSUME UNCHANGED Locked!vars PROVE UNCHANGED Locked!Abstract!vars
    BY <2>1 DEF Locked!vars, Locked!Abstract!vars, Locked!Contents, Locked!Newest, Locked!Pushed, Locked!Place, Locked!Unlinked
  <2> QED  BY <2>1, LockWriterRefines, LockReaderRefines DEF Locked!Next
<1> QED  BY <1>1, <1>2, LockInvariance, PTL DEF Locked!Spec, Locked!IsFifo, Locked!Abstract!Spec

\* The program starts this queue as its own specification does, and a step of
\* the program is a step of the queue or leaves it alone.
LEMMA LockStarts == Init => Locked!Init
BY DEF Init

LEMMA LockStep == [Next]_vars => [Locked!Next]_(Locked!vars)
<1> SUFFICES ASSUME [Next]_vars PROVE [Locked!Next]_(Locked!vars)
  OBVIOUS
<1>1. UNCHANGED LockVars => UNCHANGED Locked!vars
  BY DEF Locked!vars, LockVars
<1>2. Locked!Write \/ Locked!Read \/ UNCHANGED LockVars
  BY DEF Next, Writer, Reader, Ended, sync_thread, vars, s_1r1wq_write, s_1r1wq_read, s_msq_write,
         s_msq_read, s_lockq_write, s_lockq_read, s_slockq_write, s_slockq_read
<1> QED  BY <1>1, <1>2 DEF Locked!Next

LEMMA LockCorrect == Spec => Locked!IsFifo
BY LockStarts, LockStep, LockRefinement, PTL DEF Spec, Locked!Spec

---------------------------------------------------------------------------
(***************************************************************************)
(* The lock-free queue.  The inductive invariant says that the nodes are   *)
(* linked in the order of their numbers up to Linked, that a tag counts    *)
(* the moves of its pointer, that q->tail is the last linked node except   *)
(* while a push is about to move it, and what the copies that the two      *)
(* threads have made of q->head, q->tail and of a next field are worth     *)
(* when they are used.                                                     *)
(***************************************************************************)

MsPointers == [ptr : 0 .. LOOP + 1, tag : Nat]

MsTypeOK ==
  /\ fHead \in [ptr : Ms!Nodes, tag : Nat] /\ fTail \in [ptr : Ms!Nodes, tag : Nat]
  /\ fNext \in [Ms!Nodes -> MsPointers] /\ fIval \in [Ms!Nodes -> 0 .. LOOP]
  /\ fC \in Ms!Nodes /\ fI \in 1 .. LOOP + 1
  /\ fWpc \in {"new", "tail", "tail_tag", "next", "next_tag", "check", "check_tag", "link", "swing"}
  /\ fRpc \in {"head", "head_tag", "tail", "tail_tag", "next", "next_tag", "check", "help", "take"}
  /\ fWtail \in MsPointers /\ fWnext \in MsPointers
  /\ fRhead \in MsPointers /\ fRtail \in MsPointers /\ fRnext \in MsPointers
  /\ fGot \in Seq(0 .. LOOP)

\* The list of nodes and what the reader has taken of it.
MsListInv ==
  /\ fC = (IF fWpc = "new" THEN fI ELSE fI + 1)
  /\ fWpc # "new" => fI <= LOOP
  /\ \A n \in Ms!Nodes : 2 <= n /\ n <= fC => fIval[n] = n - 1
  /\ \A n \in Ms!Nodes : fNext[n] = IF n < Ms!Linked THEN Ms!Pointer(n + 1, 1) ELSE Ms!ZeroPointer
  /\ fGot = [k \in 1 .. (fHead.ptr - 1) |-> k]

\* q->head and q->tail.
MsEndsInv ==
  /\ fHead.tag = fHead.ptr - 1 /\ fTail.tag = fTail.ptr - 1
  /\ fHead.ptr <= fTail.ptr
  /\ fWpc # "swing" => fTail.ptr = Ms!Linked
  /\ fWpc = "swing" => fTail.ptr \in {fC - 1, fC}

\* The writer's copies: nobody moves q->tail or links a node while it is
\* between two nodes, so that its loads in two words are not torn.
MsWriterInv ==
  /\ fWpc \in {"tail_tag", "next", "next_tag", "check", "check_tag", "link"} => fWtail.ptr = fTail.ptr
  /\ fWpc \in {"next", "next_tag", "check", "check_tag", "link"} => fWtail.tag = fTail.tag
  /\ fWpc \in {"next_tag", "check", "check_tag", "link"} => fWnext.ptr = Ms!NULL
  /\ fWpc \in {"check", "check_tag", "link"} => fWnext.tag = 0
  /\ fWpc = "swing" => fWtail = Ms!Pointer(fC - 1, fC - 2)

\* The reader's copies: its head is q->head, its tail may be an old one and torn.
MsReaderInv ==
  /\ fRpc # "head" => fRhead.ptr = fHead.ptr
  /\ fRpc \notin {"head", "head_tag"} => fRhead.tag = fHead.tag
  /\ fRpc \notin {"head", "head_tag", "tail"} => fHead.ptr <= fRtail.ptr /\ fRtail.ptr <= fTail.ptr
  /\ fRpc \in {"next_tag", "check"} =>
       /\ fRnext.ptr \in {Ms!NULL, fHead.ptr + 1}
       /\ fRnext.ptr # Ms!NULL => fHead.ptr + 1 <= Ms!Linked
       /\ fHead.ptr < fRtail.ptr => fRnext.ptr = fHead.ptr + 1
  /\ fRpc = "take" => fRnext.ptr = fHead.ptr + 1 /\ fHead.ptr + 1 <= fTail.ptr
  /\ fRpc = "help" => fRtail.ptr = fHead.ptr /\ fRnext.ptr = fHead.ptr + 1 /\ fHead.ptr + 1 <= Ms!Linked

MsIInv == MsTypeOK /\ MsListInv /\ MsEndsInv /\ MsWriterInv /\ MsReaderInv

---------------------------------------------------------------------------
\* The two loads that copy a pointer.
LEMMA MsLoadPtr ==
  ASSUME NEW p \in MsPointers, NEW x \in 0 .. LOOP + 1
  PROVE  /\ [p EXCEPT !.ptr = x] \in MsPointers
         /\ [p EXCEPT !.ptr = x].ptr = x /\ [p EXCEPT !.ptr = x].tag = p.tag
<1>1. [p EXCEPT !.ptr = x] = Ms!Pointer(x, p.tag)  BY DEF MsPointers, Ms!Pointer
<1> QED  BY <1>1 DEF MsPointers, Ms!Pointer

LEMMA MsLoadTag ==
  ASSUME NEW p \in MsPointers, NEW x \in Nat
  PROVE  /\ [p EXCEPT !.tag = x] \in MsPointers
         /\ [p EXCEPT !.tag = x].tag = x /\ [p EXCEPT !.tag = x].ptr = p.ptr
<1>1. [p EXCEPT !.tag = x] = Ms!Pointer(p.ptr, x)  BY DEF MsPointers, Ms!Pointer
<1> QED  BY <1>1 DEF MsPointers, Ms!Pointer

\* The queue is created with one node that holds no value.
LEMMA MsInitInv == Ms!Init => MsIInv
<1> SUFFICES ASSUME Ms!Init PROVE MsIInv
  OBVIOUS
<1>0. Ms!Linked = 1 /\ fHead.ptr = 1 /\ fHead.tag = 0 /\ fTail.ptr = 1 /\ fTail.tag = 0
  BY DEF Ms!Init, Ms!Linked, Ms!Pointer
<1>1. MsTypeOK
  <2>1. Ms!ZeroPointer \in MsPointers  BY LoopNat DEF Ms!ZeroPointer, Ms!Pointer, MsPointers, Ms!NULL
  <2>2. Ms!Pointer(1, 0) \in [ptr : Ms!Nodes, tag : Nat]  BY LoopNat DEF Ms!Pointer, Ms!Nodes
  <2> QED  BY <2>1, <2>2, LoopNat DEF Ms!Init, MsTypeOK, Ms!Nodes
<1>2. MsListInv  BY <1>0, LoopNat DEF Ms!Init, MsListInv, Ms!Nodes
<1>3. MsEndsInv  BY <1>0 DEF Ms!Init, MsEndsInv
<1>4. MsWriterInv  BY DEF Ms!Init, MsWriterInv
<1>5. MsReaderInv  BY DEF Ms!Init, MsReaderInv
<1> QED  BY <1>1, <1>2, <1>3, <1>4, <1>5 DEF MsIInv

\* The numbers the invariant speaks of.
MsRangesOK ==
  /\ LOOP \in Nat /\ fC \in 1 .. LOOP + 1 /\ fI \in 1 .. LOOP + 1
  /\ Ms!Linked \in 1 .. LOOP + 1 /\ Ms!Linked <= fC
  /\ fHead.ptr \in 1 .. LOOP + 1 /\ fTail.ptr \in 1 .. LOOP + 1
  /\ fHead.ptr <= fTail.ptr /\ fTail.ptr <= Ms!Linked
  /\ fHead = Ms!Pointer(fHead.ptr, fHead.ptr - 1) /\ fTail = Ms!Pointer(fTail.ptr, fTail.ptr - 1)

LEMMA MsRanges == MsIInv => MsRangesOK
<1> SUFFICES ASSUME MsIInv PROVE MsRangesOK
  OBVIOUS
<1>1. fC \in 1 .. LOOP + 1 /\ fI \in 1 .. LOOP + 1 /\ fC = (IF fWpc = "new" THEN fI ELSE fI + 1)
  BY DEF MsIInv, MsTypeOK, MsListInv, Ms!Nodes
<1>2. Ms!Linked \in 1 .. LOOP + 1 /\ Ms!Linked <= fC
  BY <1>1, LoopNat DEF Ms!Linked
<1>3. /\ fHead.ptr \in 1 .. LOOP + 1 /\ fTail.ptr \in 1 .. LOOP + 1
      /\ fHead = Ms!Pointer(fHead.ptr, fHead.tag) /\ fTail = Ms!Pointer(fTail.ptr, fTail.tag)
  BY DEF MsIInv, MsTypeOK, Ms!Nodes, Ms!Pointer
<1>4. fTail.ptr <= Ms!Linked
  BY <1>1, <1>2, LoopNat DEF MsIInv, MsEndsInv, Ms!Linked
<1>5. fHead.ptr <= fTail.ptr /\ fHead.tag = fHead.ptr - 1 /\ fTail.tag = fTail.ptr - 1
  BY DEF MsIInv, MsEndsInv
<1> QED  BY <1>1, <1>2, <1>3, <1>4, <1>5, LoopNat DEF MsRangesOK

\* A step of the writer that only loads, or tests what it has loaded.
LEMMA MsWriterLoads == MsIInv /\ (Ms!PushLoad \/ Ms!PushCheck) => MsIInv'
<1> SUFFICES ASSUME MsIInv, Ms!PushLoad \/ Ms!PushCheck PROVE MsIInv'
  OBVIOUS
<1>0. MsTypeOK /\ MsListInv /\ MsEndsInv /\ MsWriterInv /\ MsReaderInv
  BY DEF MsIInv
<1>r. MsRangesOK  BY MsRanges
<1>u. /\ fHead' = fHead /\ fTail' = fTail /\ fNext' = fNext /\ fIval' = fIval /\ fC' = fC /\ fI' = fI
      /\ fRpc' = fRpc /\ fRhead' = fRhead /\ fRtail' = fRtail /\ fRnext' = fRnext /\ fGot' = fGot
  BY DEF Ms!PushLoad, Ms!PushCheck, Ms!queueVars, Ms!readerVars
<1>t. fTail.ptr \in Ms!Nodes /\ fTail.ptr \in 0 .. LOOP + 1 /\ fTail.tag \in Nat
  BY <1>0, <1>r, SMTT(30) DEF MsTypeOK, Ms!Nodes, MsRangesOK
<1>w. fWtail \in MsPointers /\ fWnext \in MsPointers
  BY <1>0 DEF MsTypeOK
<1>n. fWpc # "swing" => fNext[fTail.ptr] = Ms!ZeroPointer
  <2> SUFFICES ASSUME fWpc # "swing" PROVE fNext[fTail.ptr] = Ms!ZeroPointer
    OBVIOUS
  <2>1. fTail.ptr = Ms!Linked  BY <1>0 DEF MsEndsInv
  <2>2. ~(fTail.ptr < Ms!Linked)  BY <1>r, <2>1 DEF MsRangesOK
  <2> QED  BY <1>0, <1>t, <2>2 DEF MsListInv
<1>a. ASSUME fWpc' \in {"tail", "tail_tag", "next", "next_tag", "check", "check_tag", "link"},
             fWpc \in {"tail", "tail_tag", "next", "next_tag", "check", "check_tag", "link"},
             fWtail' \in MsPointers, fWnext' \in MsPointers, MsWriterInv'
      PROVE  MsIInv'
  <2>1. Ms!Linked' = Ms!Linked  BY <1>u, <1>a DEF Ms!Linked
  <2>2. MsTypeOK'  BY <1>0, <1>u, <1>a DEF MsTypeOK
  <2>3. MsListInv'  BY <1>0, <1>u, <1>a, <2>1 DEF MsListInv
  <2>4. MsEndsInv'  BY <1>0, <1>u, <1>a, <2>1 DEF MsEndsInv
  <2>5. MsReaderInv'  BY <1>0, <1>u, <2>1 DEF MsReaderInv
  <2> QED  BY <1>a, <2>2, <2>3, <2>4, <2>5 DEF MsIInv
<1>1. CASE fWpc = "tail" /\ fWpc' = "tail_tag" /\ fWtail' = [fWtail EXCEPT !.ptr = fTail.ptr] /\ fWnext' = fWnext
  <2>1. fWtail' \in MsPointers /\ fWtail'.ptr = fTail.ptr  BY <1>0, <1>1, <1>t, MsLoadPtr DEF MsTypeOK
  <2>2. MsWriterInv'  BY <1>1, <1>u, <2>1 DEF MsWriterInv
  <2> QED  BY <1>0, <1>1, <1>a, <2>1, <2>2 DEF MsTypeOK
<1>2. CASE fWpc = "tail_tag" /\ fWpc' = "next" /\ fWtail' = [fWtail EXCEPT !.tag = fTail.tag] /\ fWnext' = fWnext
  <2>1. fWtail' \in MsPointers /\ fWtail'.tag = fTail.tag /\ fWtail'.ptr = fWtail.ptr
    BY <1>w, <1>2, <1>t, MsLoadTag
  <2>2. MsWriterInv'  BY <1>0, <1>2, <1>u, <2>1 DEF MsWriterInv
  <2> QED  BY <1>0, <1>2, <1>a, <2>1, <2>2 DEF MsTypeOK
<1>3. CASE fWpc = "next" /\ fWpc' = "next_tag" /\ fWnext' = [fWnext EXCEPT !.ptr = fNext[fWtail.ptr].ptr] /\ fWtail' = fWtail
  <2>0. fNext[fWtail.ptr].ptr = Ms!NULL  BY <1>0, <1>3, <1>n DEF MsWriterInv, Ms!ZeroPointer, Ms!Pointer
  <2>1. fWnext' \in MsPointers /\ fWnext'.ptr = Ms!NULL
    <3>1. fNext[fWtail.ptr].ptr \in 0 .. LOOP + 1  BY <2>0, LoopNat DEF Ms!NULL
    <3> QED  BY <1>w, <1>3, <2>0, <3>1, MsLoadPtr
  <2>2. MsWriterInv'  BY <1>0, <1>3, <1>u, <2>1 DEF MsWriterInv
  <2> QED  BY <1>0, <1>3, <1>a, <2>1, <2>2 DEF MsTypeOK
<1>4. CASE fWpc = "next_tag" /\ fWpc' = "check" /\ fWnext' = [fWnext EXCEPT !.tag = fNext[fWtail.ptr].tag] /\ fWtail' = fWtail
  <2>0. fNext[fWtail.ptr].tag = 0  BY <1>0, <1>4, <1>n DEF MsWriterInv, Ms!ZeroPointer, Ms!Pointer
  <2>1. fWnext' \in MsPointers /\ fWnext'.tag = 0 /\ fWnext'.ptr = fWnext.ptr
    <3>1. fNext[fWtail.ptr].tag \in Nat  BY <2>0
    <3> QED  BY <1>w, <1>4, <2>0, <3>1, MsLoadTag
  <2>2. MsWriterInv'  BY <1>0, <1>4, <1>u, <2>1 DEF MsWriterInv
  <2> QED  BY <1>0, <1>4, <1>a, <2>1, <2>2 DEF MsTypeOK
<1>5. CASE Ms!PushCheck
  <2>0. fWtail' = fWtail /\ fWnext' = fWnext  BY <1>5 DEF Ms!PushCheck
  <2>1. \/ fWpc = "check" /\ fWpc' = "check_tag"
        \/ fWpc = "check_tag" /\ fWpc' = "link"
    <3>1. fWpc \in {"check", "check_tag"}  BY <1>5 DEF Ms!PushCheck
    <3>2. fWtail.ptr = fTail.ptr /\ fWtail.tag = fTail.tag /\ fWnext.ptr = Ms!NULL  BY <1>0, <3>1 DEF MsWriterInv
    <3> QED  BY <1>5, <3>2 DEF Ms!PushCheck
  <2>2. MsWriterInv'
    <3>1. CASE fWpc = "check"  BY <1>0, <1>u, <2>0, <2>1, <3>1 DEF MsWriterInv
    <3>2. CASE fWpc = "check_tag"  BY <1>0, <1>u, <2>0, <2>1, <3>2 DEF MsWriterInv
    <3> QED  BY <2>1, <3>1, <3>2
  <2> QED  BY <1>w, <1>a, <2>0, <2>1, <2>2
<1>6. CASE Ms!PushLoad  BY <1>1, <1>2, <1>3, <1>4, <1>6 DEF Ms!PushLoad
<1> QED  BY <1>5, <1>6

\* When the writer moves q->tail forward and hides no node, what the reader has
\* loaded is worth the same.
LEMMA MsReaderUnmoved ==
  ASSUME MsIInv, fHead' = fHead, UNCHANGED Ms!readerVars,
         fTail'.ptr \in Nat, Ms!Linked' \in Nat, fTail.ptr <= fTail'.ptr, Ms!Linked <= Ms!Linked'
  PROVE  MsReaderInv'
<1>0. MsReaderInv  BY DEF MsIInv
<1>1. fRhead' = fRhead /\ fRtail' = fRtail /\ fRnext' = fRnext /\ fRpc' = fRpc
  BY DEF Ms!readerVars
<1>2. fTail.ptr \in Nat /\ Ms!Linked \in Nat /\ fHead.ptr \in Nat /\ fRtail.ptr \in Nat
  <2>1. MsRangesOK /\ LOOP \in Nat  BY MsRanges, LoopNat
  <2>2. fRtail.ptr \in 0 .. LOOP + 1  BY DEF MsIInv, MsTypeOK, MsPointers
  <2> QED  BY <2>1, <2>2 DEF MsRangesOK
<1>3. fRpc \in {"next_tag", "check"} => (fRnext.ptr # Ms!NULL => fHead.ptr + 1 <= Ms!Linked')
  BY <1>0, <1>2 DEF MsReaderInv
<1>4. fRpc \notin {"head", "head_tag", "tail"} => fRtail.ptr <= fTail'.ptr
  BY <1>0, <1>2 DEF MsReaderInv
<1>5. fRpc = "take" => fHead.ptr + 1 <= fTail'.ptr
  BY <1>0, <1>2 DEF MsReaderInv
<1>6. fRpc = "help" => fHead.ptr + 1 <= Ms!Linked'
  BY <1>0, <1>2 DEF MsReaderInv
<1> QED  BY <1>0, <1>1, <1>3, <1>4, <1>5, <1>6 DEF MsReaderInv

\* A step of the writer that changes the queue leaves the invariant.
LEMMA MsWriterChanges == MsIInv /\ (Ms!PushNew \/ Ms!PushLink \/ Ms!PushSwing) => MsIInv'
<1> SUFFICES ASSUME MsIInv, Ms!PushNew \/ Ms!PushLink \/ Ms!PushSwing PROVE MsIInv'
  OBVIOUS
<1>0. MsTypeOK /\ MsListInv /\ MsEndsInv /\ MsWriterInv
  BY DEF MsIInv
<1>r. MsRangesOK  BY MsRanges
<1>u. /\ fHead' = fHead /\ UNCHANGED Ms!readerVars /\ fGot' = fGot
  BY DEF Ms!PushNew, Ms!PushLink, Ms!PushSwing, Ms!readerVars
<1>z. Ms!ZeroPointer \in MsPointers /\ Ms!ZeroPointer.ptr = Ms!NULL /\ Ms!ZeroPointer.tag = 0
  BY LoopNat DEF Ms!ZeroPointer, Ms!Pointer, MsPointers, Ms!NULL
<1>c. /\ LOOP \in Nat /\ fC \in 1 .. LOOP + 1 /\ fI \in 1 .. LOOP + 1
      /\ Ms!Linked \in 1 .. LOOP + 1 /\ Ms!Linked <= fC /\ fTail.ptr \in 1 .. LOOP + 1
      /\ fTail = Ms!Pointer(fTail.ptr, fTail.ptr - 1) /\ fTail.ptr <= Ms!Linked /\ fHead.ptr <= fTail.ptr
      /\ fHead.ptr \in 1 .. LOOP + 1 /\ fTail.tag = fTail.ptr - 1 /\ fHead.tag = fHead.ptr - 1
  BY <1>0, <1>r DEF MsRangesOK, MsEndsInv
<1>1. CASE Ms!PushNew
  <2>0. /\ fWpc = "new" /\ fWpc' = "tail" /\ fI <= LOOP /\ fC = fI /\ fC' = fC + 1 /\ fI' = fI
        /\ fIval' = [fIval EXCEPT ![fC + 1] = fI] /\ fNext' = [fNext EXCEPT ![fC + 1] = Ms!ZeroPointer]
        /\ fTail' = fTail /\ fWtail' = fWtail /\ fWnext' = fWnext
    BY <1>0, <1>1 DEF Ms!PushNew, MsListInv
  <2>1. Ms!Linked = fC /\ Ms!Linked' = Ms!Linked /\ fC + 1 \in Ms!Nodes /\ fI \in 0 .. LOOP
    BY <1>c, <2>0 DEF Ms!Linked, Ms!Nodes
  <2>2. fNext' \in [Ms!Nodes -> MsPointers] /\ fIval' \in [Ms!Nodes -> 0 .. LOOP]
    BY <1>0, <1>z, <2>0, <2>1 DEF MsTypeOK
  <2>3. MsTypeOK'  BY <1>0, <1>u, <2>0, <2>1, <2>2 DEF MsTypeOK, Ms!readerVars
  <2>4. ASSUME NEW n \in Ms!Nodes, 2 <= n /\ n <= fC' PROVE fIval'[n] = n - 1
    <3>1. fIval'[n] = IF n = fC + 1 THEN fI ELSE fIval[n]  BY <1>0, <2>0 DEF MsTypeOK
    <3>2. n # fC + 1 => n <= fC  BY <1>c, <2>0, <2>4 DEF Ms!Nodes
    <3>3. n # fC + 1 => fIval[n] = n - 1  BY <1>0, <2>4, <3>2 DEF MsListInv
    <3> QED  BY <1>c, <2>0, <3>1, <3>3
  <2>5. ASSUME NEW n \in Ms!Nodes PROVE fNext'[n] = IF n < Ms!Linked' THEN Ms!Pointer(n + 1, 1) ELSE Ms!ZeroPointer
    <3>1. fNext'[n] = IF n = fC + 1 THEN Ms!ZeroPointer ELSE fNext[n]  BY <1>0, <2>0 DEF MsTypeOK
    <3>2. n = fC + 1 => ~(n < Ms!Linked)  BY <1>c, <2>1
    <3> QED  BY <1>0, <2>1, <3>1, <3>2 DEF MsListInv
  <2>6. MsListInv'  BY <1>0, <1>u, <2>0, <2>4, <2>5 DEF MsListInv
  <2>7. MsEndsInv'  BY <1>0, <1>u, <2>0, <2>1 DEF MsEndsInv
  <2>8. MsWriterInv'  BY <2>0 DEF MsWriterInv
  <2>9. MsReaderInv'  BY <1>c, <1>u, <2>0, <2>1, MsReaderUnmoved
  <2> QED  BY <2>3, <2>6, <2>7, <2>8, <2>9 DEF MsIInv
<1>2. CASE Ms!PushLink
  <2>0. /\ fWpc = "link" /\ fC = fI + 1 /\ fI <= LOOP /\ fC' = fC /\ fI' = fI /\ fIval' = fIval
        /\ fTail' = fTail /\ fWtail' = fWtail /\ fWnext' = fWnext
        /\ fWtail.ptr = fTail.ptr /\ fWtail.tag = fTail.tag /\ fWnext.ptr = Ms!NULL /\ fWnext.tag = 0
    BY <1>0, <1>2 DEF Ms!PushLink, MsListInv, MsWriterInv
  <2>1. Ms!Linked = fC - 1 /\ fTail.ptr = fC - 1 /\ fTail.ptr \in Ms!Nodes
    BY <1>0, <1>c, <2>0 DEF Ms!Linked, MsEndsInv, Ms!Nodes
  <2>2. fWnext = Ms!ZeroPointer /\ fWtail = Ms!Pointer(fC - 1, fC - 2)
    <3>1. fWnext = Ms!Pointer(fWnext.ptr, fWnext.tag) /\ fWtail = Ms!Pointer(fWtail.ptr, fWtail.tag)
      BY <1>0 DEF MsTypeOK, MsPointers, Ms!Pointer
    <3>2. fTail.tag = fC - 2  BY <1>c, <2>1
    <3> QED  BY <2>0, <2>1, <3>1, <3>2 DEF Ms!ZeroPointer
  <2>3. fNext[fWtail.ptr] = fWnext
    <3>1. ~(fTail.ptr < Ms!Linked)  BY <1>c, <2>1
    <3> QED  BY <1>0, <2>0, <2>1, <2>2, <3>1 DEF MsListInv
  <2>4. fWpc' = "swing"  BY <1>2, <2>3 DEF Ms!PushLink, Ms!Seen
  <2>5. fNext' = [fNext EXCEPT ![fC - 1] = Ms!Pointer(fC, 1)]
    <3>1. fWnext.tag + 1 = 1  BY <2>0
    <3> QED  BY <1>2, <2>0, <2>1, <2>3, <3>1 DEF Ms!PushLink
  <2>6. Ms!Linked' = fC  BY <2>0, <2>4 DEF Ms!Linked
  <2>7. fNext' \in [Ms!Nodes -> MsPointers]
    <3>1. Ms!Pointer(fC, 1) \in MsPointers  BY <1>c DEF Ms!Pointer, MsPointers
    <3> QED  BY <1>0, <2>5, <3>1 DEF MsTypeOK
  <2>8. MsTypeOK'  BY <1>0, <1>u, <2>0, <2>4, <2>7 DEF MsTypeOK, Ms!readerVars
  <2>9. ASSUME NEW n \in Ms!Nodes PROVE fNext'[n] = IF n < Ms!Linked' THEN Ms!Pointer(n + 1, 1) ELSE Ms!ZeroPointer
    <3>1. fNext'[n] = IF n = fC - 1 THEN Ms!Pointer(fC, 1) ELSE fNext[n]  BY <1>0, <2>5 DEF MsTypeOK
    <3>2. n \in Nat  BY <1>c DEF Ms!Nodes
    <3>3. CASE n = fC - 1
      <4>1. n < Ms!Linked' /\ n + 1 = fC  BY <1>c, <2>6, <3>3
      <4> QED  BY <3>1, <3>3, <4>1
    <3>4. CASE n # fC - 1
      <4>1. n < Ms!Linked' <=> n < Ms!Linked  BY <1>c, <2>1, <2>6, <3>2, <3>4
      <4> QED  BY <1>0, <3>1, <3>4, <4>1 DEF MsListInv
    <3> QED  BY <3>3, <3>4
  <2>10. MsListInv'  BY <1>0, <1>u, <2>0, <2>4, <2>9 DEF MsListInv
  <2>11. MsEndsInv'  BY <1>0, <1>u, <2>0, <2>1, <2>4 DEF MsEndsInv
  <2>12. MsWriterInv'  BY <2>0, <2>2, <2>4 DEF MsWriterInv
  <2>13. MsReaderInv'  BY <1>c, <1>u, <2>0, <2>1, <2>6, MsReaderUnmoved
  <2> QED  BY <2>8, <2>10, <2>11, <2>12, <2>13 DEF MsIInv
<1>3. CASE Ms!PushSwing
  <2>0. /\ fWpc = "swing" /\ fWpc' = "new" /\ fC = fI + 1 /\ fI <= LOOP /\ fC' = fC /\ fI' = fI + 1
        /\ fIval' = fIval /\ fNext' = fNext /\ fWtail' = fWtail /\ fWnext' = fWnext
        /\ fWtail = Ms!Pointer(fC - 1, fC - 2)
    BY <1>0, <1>3 DEF Ms!PushSwing, MsTypeOK, MsListInv, MsWriterInv
  <2>1. fTail' = Ms!Pointer(fC, fC - 1)
    <3>1. fTail' = IF fTail = fWtail THEN Ms!Pointer(fC, fWtail.tag + 1) ELSE fTail
      BY <1>3, <2>0 DEF Ms!PushSwing, Ms!SwapTail
    <3>2. fWtail.tag + 1 = fC - 1  BY <1>c, <2>0 DEF Ms!Pointer
    <3>3. CASE fTail.ptr = fC - 1
      <4>1. fTail = fWtail
        <5>1. fTail.ptr - 1 = fC - 2  BY <1>c, <3>3
        <5> QED  BY <1>c, <2>0, <3>3, <5>1
      <4> QED  BY <3>1, <3>2, <4>1
    <3>4. CASE fTail.ptr = fC
      <4>1. fTail # fWtail
        <5>1. fWtail.ptr = fC - 1  BY <2>0 DEF Ms!Pointer
        <5>2. fC # fC - 1  BY <1>c
        <5> QED  BY <3>4, <5>1, <5>2
      <4>2. fTail = Ms!Pointer(fC, fC - 1)  BY <1>c, <3>4
      <4> QED  BY <3>1, <4>1, <4>2
    <3> QED  BY <1>0, <2>0, <3>3, <3>4 DEF MsEndsInv
  <2>2. Ms!Linked = fC /\ Ms!Linked' = fC  BY <2>0 DEF Ms!Linked
  <2>3. fTail'.ptr = fC /\ fTail'.tag = fC - 1 /\ fTail' \in [ptr : Ms!Nodes, tag : Nat]
    BY <1>c, <2>1 DEF Ms!Pointer, Ms!Nodes
  <2>4. MsTypeOK'  BY <1>0, <1>c, <1>u, <2>0, <2>3 DEF MsTypeOK, Ms!readerVars
  <2>5. MsListInv'  BY <1>0, <1>c, <1>u, <2>0, <2>2 DEF MsListInv
  <2>6. MsEndsInv'  BY <1>0, <1>c, <1>u, <2>0, <2>2, <2>3 DEF MsEndsInv
  <2>7. MsWriterInv'  BY <2>0 DEF MsWriterInv
  <2>8. MsReaderInv'  BY <1>c, <1>u, <2>2, <2>3, MsReaderUnmoved
  <2> QED  BY <2>4, <2>5, <2>6, <2>7, <2>8 DEF MsIInv
<1> QED  BY <1>1, <1>2, <1>3

\* A step of the reader that only loads, or tests what it has loaded.
LEMMA MsReaderLoads == MsIInv /\ (Ms!PopLoad \/ Ms!PopCheck) => MsIInv'
<1> SUFFICES ASSUME MsIInv, Ms!PopLoad \/ Ms!PopCheck PROVE MsIInv'
  OBVIOUS
<1>0. MsTypeOK /\ MsListInv /\ MsEndsInv /\ MsWriterInv /\ MsReaderInv
  BY DEF MsIInv
<1>r. MsRangesOK  BY MsRanges
<1>u. /\ fHead' = fHead /\ fTail' = fTail /\ fNext' = fNext /\ fIval' = fIval /\ fC' = fC
      /\ fI' = fI /\ fWpc' = fWpc /\ fWtail' = fWtail /\ fWnext' = fWnext /\ fGot' = fGot
  BY DEF Ms!PopLoad, Ms!PopCheck, Ms!queueVars, Ms!writerVars
<1>l. Ms!Linked' = Ms!Linked  BY <1>u DEF Ms!Linked
<1>p. fRhead \in MsPointers /\ fRtail \in MsPointers /\ fRnext \in MsPointers
  BY <1>0 DEF MsTypeOK
<1>t. /\ fHead.ptr \in Ms!Nodes /\ fHead.ptr \in 0 .. LOOP + 1 /\ fHead.tag \in Nat
      /\ fTail.ptr \in 0 .. LOOP + 1 /\ fTail.tag \in Nat
      /\ LOOP \in Nat /\ fHead.ptr <= fTail.ptr /\ fTail.ptr <= Ms!Linked /\ Ms!Linked \in 1 .. LOOP + 1
  BY <1>0, <1>r DEF MsTypeOK, Ms!Nodes, MsRangesOK
<1>n. /\ fNext[fHead.ptr].ptr = (IF fHead.ptr < Ms!Linked THEN fHead.ptr + 1 ELSE Ms!NULL)
      /\ fNext[fHead.ptr].ptr \in 0 .. LOOP + 1 /\ fNext[fHead.ptr].tag \in Nat
  <2>1. fNext[fHead.ptr] \in MsPointers  BY <1>0, <1>t DEF MsTypeOK
  <2>2. fNext[fHead.ptr] = IF fHead.ptr < Ms!Linked THEN Ms!Pointer(fHead.ptr + 1, 1) ELSE Ms!ZeroPointer
    BY <1>0, <1>t DEF MsListInv
  <2> QED  BY <2>1, <2>2 DEF MsPointers, Ms!ZeroPointer, Ms!Pointer
<1>a. ASSUME fRpc' \in {"head", "head_tag", "tail", "tail_tag", "next", "next_tag", "check", "help", "take"},
             fRhead' \in MsPointers, fRtail' \in MsPointers, fRnext' \in MsPointers, MsReaderInv'
      PROVE  MsIInv'
  <2>1. MsTypeOK'  BY <1>0, <1>u, <1>a DEF MsTypeOK
  <2>2. MsListInv'  BY <1>0, <1>u, <1>l DEF MsListInv
  <2>3. MsEndsInv'  BY <1>0, <1>u, <1>l DEF MsEndsInv
  <2>4. MsWriterInv'  BY <1>0, <1>u DEF MsWriterInv
  <2> QED  BY <1>a, <2>1, <2>2, <2>3, <2>4 DEF MsIInv
<1>1. CASE fRpc = "head" /\ fRpc' = "head_tag" /\ fRhead' = [fRhead EXCEPT !.ptr = fHead.ptr] /\ UNCHANGED <<fRtail, fRnext>>
  <2>1. fRhead' \in MsPointers /\ fRhead'.ptr = fHead.ptr  BY <1>1, <1>p, <1>t, MsLoadPtr
  <2>2. MsReaderInv'  BY <1>1, <1>u, <2>1 DEF MsReaderInv
  <2> QED  BY <1>1, <1>a, <1>p, <2>1, <2>2
<1>2. CASE fRpc = "head_tag" /\ fRpc' = "tail" /\ fRhead' = [fRhead EXCEPT !.tag = fHead.tag] /\ UNCHANGED <<fRtail, fRnext>>
  <2>1. fRhead' \in MsPointers /\ fRhead'.tag = fHead.tag /\ fRhead'.ptr = fRhead.ptr  BY <1>2, <1>p, <1>t, MsLoadTag
  <2>2. MsReaderInv'  BY <1>0, <1>2, <1>u, <2>1 DEF MsReaderInv
  <2> QED  BY <1>2, <1>a, <1>p, <2>1, <2>2
<1>3. CASE fRpc = "tail" /\ fRpc' = "tail_tag" /\ fRtail' = [fRtail EXCEPT !.ptr = fTail.ptr] /\ UNCHANGED <<fRhead, fRnext>>
  <2>1. fRtail' \in MsPointers /\ fRtail'.ptr = fTail.ptr  BY <1>3, <1>p, <1>t, MsLoadPtr
  <2>2. fHead.ptr <= fRtail'.ptr /\ fRtail'.ptr <= fTail.ptr  BY <1>t, <2>1
  <2>3. MsReaderInv'  BY <1>0, <1>3, <1>u, <2>2 DEF MsReaderInv
  <2> QED  BY <1>3, <1>a, <1>p, <2>1, <2>3
<1>4. CASE fRpc = "tail_tag" /\ fRpc' = "next" /\ fRtail' = [fRtail EXCEPT !.tag = fTail.tag] /\ UNCHANGED <<fRhead, fRnext>>
  <2>1. fRtail' \in MsPointers /\ fRtail'.ptr = fRtail.ptr  BY <1>4, <1>p, <1>t, MsLoadTag
  <2>2. MsReaderInv'  BY <1>0, <1>4, <1>u, <2>1 DEF MsReaderInv
  <2> QED  BY <1>4, <1>a, <1>p, <2>1, <2>2
<1>5. CASE fRpc = "next" /\ fRpc' = "next_tag" /\ fRnext' = [fRnext EXCEPT !.ptr = fNext[fRhead.ptr].ptr] /\ UNCHANGED <<fRhead, fRtail>>
  <2>0. fRhead.ptr = fHead.ptr /\ fRhead.tag = fHead.tag /\ fHead.ptr <= fRtail.ptr /\ fRtail.ptr <= fTail.ptr
    BY <1>0, <1>5 DEF MsReaderInv
  <2>1. fRnext' \in MsPointers /\ fRnext'.ptr = fNext[fHead.ptr].ptr
    <3>1. fRnext' = [fRnext EXCEPT !.ptr = fNext[fHead.ptr].ptr]  BY <1>5, <2>0
    <3> QED  BY <1>n, <1>p, <3>1, MsLoadPtr
  <2>2. fRnext'.ptr \in {Ms!NULL, fHead.ptr + 1}  BY <1>n, <2>1
  <2>3. fRnext'.ptr # Ms!NULL => fHead.ptr + 1 <= Ms!Linked  BY <1>n, <1>t, <2>1
  <2>4. fHead.ptr < fRtail.ptr => fRnext'.ptr = fHead.ptr + 1
    <3>1. fRtail.ptr \in Nat  BY <1>p, <1>t DEF MsPointers
    <3>2. fHead.ptr < fRtail.ptr => fHead.ptr < Ms!Linked  BY <1>t, <2>0, <3>1
    <3> QED  BY <1>n, <2>1, <3>2
  <2>5. MsReaderInv'  BY <1>5, <1>l, <1>u, <2>0, <2>2, <2>3, <2>4 DEF MsReaderInv
  <2> QED  BY <1>5, <1>a, <1>p, <2>1, <2>5
<1>6. CASE fRpc = "next_tag" /\ fRpc' = "check" /\ fRnext' = [fRnext EXCEPT !.tag = fNext[fRhead.ptr].tag] /\ UNCHANGED <<fRhead, fRtail>>
  <2>0. fRhead.ptr = fHead.ptr  BY <1>0, <1>6 DEF MsReaderInv
  <2>1. fRnext' \in MsPointers /\ fRnext'.ptr = fRnext.ptr
    <3>1. fRnext' = [fRnext EXCEPT !.tag = fNext[fHead.ptr].tag]  BY <1>6, <2>0
    <3> QED  BY <1>n, <1>p, <3>1, MsLoadTag
  <2>2. MsReaderInv'  BY <1>0, <1>6, <1>l, <1>u, <2>1 DEF MsReaderInv
  <2> QED  BY <1>6, <1>a, <1>p, <2>1, <2>2
<1>7. CASE Ms!PopCheck
  <2>0. fRpc = "check" /\ fRhead' = fRhead /\ fRtail' = fRtail /\ fRnext' = fRnext
    BY <1>7 DEF Ms!PopCheck
  <2>1. /\ fRhead.ptr = fHead.ptr /\ fRhead.tag = fHead.tag /\ fHead.ptr <= fRtail.ptr /\ fRtail.ptr <= fTail.ptr
        /\ fRnext.ptr \in {Ms!NULL, fHead.ptr + 1}
        /\ (fRnext.ptr # Ms!NULL => fHead.ptr + 1 <= Ms!Linked)
        /\ (fHead.ptr < fRtail.ptr => fRnext.ptr = fHead.ptr + 1)
    BY <1>0, <2>0 DEF MsReaderInv
  <2>2. \/ fRpc' = "head"
        \/ fRpc' = "take" /\ fRhead.ptr # fRtail.ptr
        \/ fRpc' = "help" /\ fRhead.ptr = fRtail.ptr /\ fRnext.ptr # Ms!NULL
    BY <1>7 DEF Ms!PopCheck
  <2>3. fRtail.ptr \in Nat  BY <1>p, <1>t DEF MsPointers
  <2>4. MsReaderInv'
    <3>1. CASE fRpc' = "head"  BY <3>1 DEF MsReaderInv
    <3>2. CASE fRpc' = "take" /\ fRhead.ptr # fRtail.ptr
      <4>1. fHead.ptr < fRtail.ptr /\ fHead.ptr + 1 <= fTail.ptr  BY <1>t, <2>1, <2>3, <3>2
      <4> QED  BY <1>u, <2>0, <2>1, <3>2, <4>1 DEF MsReaderInv
    <3>3. CASE fRpc' = "help" /\ fRhead.ptr = fRtail.ptr /\ fRnext.ptr # Ms!NULL
      BY <1>l, <1>u, <2>0, <2>1, <3>3 DEF MsReaderInv
    <3> QED  BY <2>2, <3>1, <3>2, <3>3
  <2> QED  BY <1>a, <1>p, <2>0, <2>2, <2>4
<1>8. CASE Ms!PopLoad  BY <1>1, <1>2, <1>3, <1>4, <1>5, <1>6, <1>8 DEF Ms!PopLoad
<1> QED  BY <1>7, <1>8

\* The reader moves q->tail or takes a value.
LEMMA MsReaderChanges == MsIInv /\ (Ms!PopHelp \/ Ms!PopTake) => MsIInv'
<1> SUFFICES ASSUME MsIInv, Ms!PopHelp \/ Ms!PopTake PROVE MsIInv'
  OBVIOUS
<1>0. MsTypeOK /\ MsListInv /\ MsEndsInv /\ MsWriterInv /\ MsReaderInv
  BY DEF MsIInv
<1>r. MsRangesOK  BY MsRanges
<1>u. /\ fNext' = fNext /\ fIval' = fIval /\ fC' = fC
      /\ fI' = fI /\ fWpc' = fWpc /\ fWtail' = fWtail /\ fWnext' = fWnext
      /\ fRpc' = "head" /\ fRhead' = fRhead /\ fRtail' = fRtail /\ fRnext' = fRnext
  BY DEF Ms!PopHelp, Ms!PopTake, Ms!writerVars
<1>l. Ms!Linked' = Ms!Linked  BY <1>u DEF Ms!Linked
<1>c. /\ LOOP \in Nat /\ fC \in 1 .. LOOP + 1
      /\ Ms!Linked \in 1 .. LOOP + 1 /\ Ms!Linked <= fC /\ fTail.ptr \in 1 .. LOOP + 1
      /\ fTail.ptr <= Ms!Linked /\ fHead.ptr <= fTail.ptr
      /\ fHead.ptr \in 1 .. LOOP + 1 /\ fTail.tag = fTail.ptr - 1 /\ fHead.tag = fHead.ptr - 1
      /\ fHead = Ms!Pointer(fHead.ptr, fHead.ptr - 1)
  BY <1>0, <1>r DEF MsRangesOK, MsEndsInv
<1>d. MsReaderInv'  BY <1>u DEF MsReaderInv
<1>1. CASE Ms!PopHelp
  <2>0. /\ fRtail.ptr = fHead.ptr /\ fRnext.ptr = fHead.ptr + 1 /\ fHead.ptr + 1 <= Ms!Linked /\ fHead' = fHead /\ fGot' = fGot
        /\ fTail' = IF fTail = fRtail THEN Ms!Pointer(fRnext.ptr, fRtail.tag + 1) ELSE fTail
    BY <1>0, <1>1 DEF Ms!PopHelp, Ms!SwapTail, MsReaderInv
  <2>1. CASE fTail # fRtail
    <3>1. fTail' = fTail  BY <2>0, <2>1
    <3>2. MsTypeOK'  BY <1>0, <1>u, <2>0, <3>1 DEF MsTypeOK
    <3>3. MsListInv'  BY <1>0, <1>l, <1>u, <2>0 DEF MsListInv
    <3>4. MsEndsInv'  BY <1>0, <1>l, <1>u, <2>0, <3>1 DEF MsEndsInv
    <3>5. MsWriterInv'  BY <1>0, <1>u, <3>1 DEF MsWriterInv
    <3> QED  BY <1>d, <3>2, <3>3, <3>4, <3>5 DEF MsIInv
  <2>2. CASE fTail = fRtail
    <3>1. fTail.ptr = fHead.ptr /\ fTail.ptr < Ms!Linked  BY <1>c, <2>0, <2>2
    <3>2. fWpc = "swing" /\ Ms!Linked = fC /\ fTail.ptr = fC - 1
      <4>1. fWpc = "swing"
        <5>1. fTail.ptr # Ms!Linked  BY <1>c, <3>1
        <5> QED  BY <1>0, <5>1 DEF MsEndsInv
      <4>2. Ms!Linked = fC  BY <4>1 DEF Ms!Linked
      <4> QED  BY <1>0, <1>c, <3>1, <4>1, <4>2 DEF MsEndsInv
    <3>3. fTail' = Ms!Pointer(fC, fC - 1)
      <4>1. fRnext.ptr = fC /\ fRtail.tag + 1 = fC - 1  BY <1>c, <2>0, <2>2, <3>1, <3>2
      <4> QED  BY <2>0, <2>2, <4>1
    <3>4. fTail'.ptr = fC /\ fTail'.tag = fC - 1 /\ fTail' \in [ptr : Ms!Nodes, tag : Nat]
      BY <1>c, <3>3 DEF Ms!Pointer, Ms!Nodes
    <3>5. MsTypeOK'  BY <1>0, <1>u, <2>0, <3>4 DEF MsTypeOK
    <3>6. MsListInv'  BY <1>0, <1>l, <1>u, <2>0 DEF MsListInv
    <3>7. MsEndsInv'  BY <1>0, <1>c, <1>u, <2>0, <3>2, <3>4 DEF MsEndsInv
    <3>8. MsWriterInv'  BY <1>0, <1>u, <3>2 DEF MsWriterInv
    <3> QED  BY <1>d, <3>5, <3>6, <3>7, <3>8 DEF MsIInv
  <2> QED  BY <2>1, <2>2
<1>2. CASE Ms!PopTake
  <2>0. /\ fRhead.ptr = fHead.ptr /\ fRhead.tag = fHead.tag /\ fRnext.ptr = fHead.ptr + 1 /\ fHead.ptr + 1 <= fTail.ptr
        /\ fTail' = fTail
    BY <1>0, <1>2 DEF Ms!PopTake, MsReaderInv
  <2>1. fHead = fRhead
    <3>1. fRhead = Ms!Pointer(fRhead.ptr, fRhead.tag)  BY <1>0 DEF MsTypeOK, MsPointers, Ms!Pointer
    <3> QED  BY <1>c, <2>0, <3>1
  <2>2. fHead' = Ms!Pointer(fHead.ptr + 1, fHead.ptr) /\ fGot' = Append(fGot, fIval[fHead.ptr + 1])
    <3>1. fHead.tag + 1 = fHead.ptr  BY <1>c
    <3>2. fHead' = Ms!Pointer(fRnext.ptr, fRhead.tag + 1) /\ fGot' = Append(fGot, fIval[fRnext.ptr])
      BY <1>2, <2>1 DEF Ms!PopTake, Ms!Seen
    <3> QED  BY <2>0, <3>1, <3>2
  <2>3. fHead.ptr + 1 \in Ms!Nodes /\ fHead.ptr + 1 <= fC /\ 2 <= fHead.ptr + 1
        /\ fHead.ptr \in 0 .. LOOP /\ fHead.ptr + 1 - 1 = fHead.ptr
    BY <1>c, <2>0 DEF Ms!Nodes
  <2>4. fIval[fHead.ptr + 1] = fHead.ptr  BY <1>0, <2>3 DEF MsListInv
  <2>5. fHead'.ptr = fHead.ptr + 1 /\ fHead'.tag = fHead.ptr /\ fHead' \in [ptr : Ms!Nodes, tag : Nat]
    BY <1>c, <2>2, <2>3 DEF Ms!Pointer
  <2>6. fGot' = [k \in 1 .. (fHead'.ptr - 1) |-> k]
    <3>1. fHead.ptr - 1 \in Nat /\ fHead.ptr - 1 + 1 = fHead.ptr /\ fHead'.ptr - 1 = fHead.ptr  BY <1>c, <2>5
    <3>2. fGot = [k \in 1 .. (fHead.ptr - 1) |-> k]  BY <1>0 DEF MsListInv
    <3>3. Append(fGot, fHead.ptr) = [k \in 1 .. fHead.ptr |-> k]  BY <3>1, <3>2, AppendNext
    <3> QED  BY <2>2, <2>4, <3>1, <3>3
  <2>7. fGot' \in Seq(0 .. LOOP)  BY <1>0, <2>2, <2>3, <2>4 DEF MsTypeOK
  <2>8. MsTypeOK'  BY <1>0, <1>u, <2>0, <2>5, <2>7 DEF MsTypeOK
  <2>9. MsListInv'  BY <1>0, <1>l, <1>u, <2>6 DEF MsListInv
  <2>10. MsEndsInv'  BY <1>0, <1>c, <1>l, <1>u, <2>0, <2>5 DEF MsEndsInv
  <2>11. MsWriterInv'  BY <1>0, <1>u, <2>0 DEF MsWriterInv
  <2> QED  BY <1>d, <2>8, <2>9, <2>10, <2>11 DEF MsIInv
<1> QED  BY <1>1, <1>2

\* The invariant holds in every reachable state.
THEOREM MsInvariance == Ms!Spec => []MsIInv
<1>1. MsIInv /\ UNCHANGED Ms!vars => MsIInv'
  BY DEF Ms!vars, MsIInv, MsTypeOK, MsListInv, MsEndsInv, MsWriterInv, MsReaderInv, Ms!Linked
<1>2. MsIInv /\ Ms!Next => MsIInv'
  BY MsWriterLoads, MsWriterChanges, MsReaderLoads, MsReaderChanges DEF Ms!Next, Ms!s_msq_write, Ms!s_msq_read
<1> QED  BY MsInitInv, <1>1, <1>2, PTL DEF Ms!Spec

\* q->tail never falls behind q->head, for every number of pushes.
THEOREM MsTailFollows == Ms!Spec => []Ms!TailNotBehindHead
<1>1. MsIInv => Ms!TailNotBehindHead
  BY MsRanges DEF MsRangesOK, Ms!TailNotBehindHead, Ms!Nodes
<1> QED  BY MsInvariance, <1>1, PTL

---------------------------------------------------------------------------
\* How many values the reader has taken, and what the queue holds when the
\* invariant holds: the numbers after it.
MsCount == fHead.ptr - 1
MsHeld == [k \in 1 .. (Ms!Pushed - MsCount) |-> MsCount + k]

MsHeldFacts ==
  /\ Ms!Contents = MsHeld
  /\ Ms!Pushed \in 0 .. LOOP /\ MsCount \in Nat /\ MsCount <= Ms!Pushed /\ Ms!Linked = Ms!Pushed + 1

\* The values in the nodes after q->head are the numbers that are not taken yet.
LEMMA MsContentsHeld == MsIInv => MsHeldFacts
<1> SUFFICES ASSUME MsIInv PROVE MsHeldFacts
  OBVIOUS
<1>0. MsListInv /\ MsEndsInv /\ fWpc \in {"new", "tail", "tail_tag", "next", "next_tag", "check", "check_tag", "link", "swing"}
  BY DEF MsIInv, MsTypeOK
<1>r. /\ LOOP \in Nat /\ fC \in 1 .. LOOP + 1 /\ fI \in 1 .. LOOP + 1 /\ Ms!Linked \in 1 .. LOOP + 1
      /\ Ms!Linked <= fC /\ fHead.ptr \in 1 .. LOOP + 1 /\ fHead.ptr <= Ms!Linked
  BY MsRanges DEF MsRangesOK
<1>1. Ms!Pushed \in 0 .. LOOP /\ Ms!Linked = Ms!Pushed + 1
  <2>1. fC = (IF fWpc = "new" THEN fI ELSE fI + 1)  BY <1>0 DEF MsListInv
  <2> QED  BY <1>r, <2>1 DEF Ms!Pushed, Ms!Linked
<1>2. MsCount \in Nat /\ MsCount <= Ms!Pushed /\ Ms!Linked - fHead.ptr = Ms!Pushed - MsCount
  BY <1>r, <1>1 DEF MsCount
<1>3. ASSUME NEW k \in 1 .. (Ms!Linked - fHead.ptr) PROVE fIval[fNext[fHead.ptr + k - 1].ptr] = MsCount + k
  <2>1. /\ fHead.ptr + k - 1 \in Ms!Nodes /\ fHead.ptr + k - 1 < Ms!Linked
        /\ fHead.ptr + k \in Ms!Nodes /\ 2 <= fHead.ptr + k /\ fHead.ptr + k <= fC
        /\ fHead.ptr + k - 1 + 1 = fHead.ptr + k /\ fHead.ptr + k - 1 = MsCount + k
    BY <1>r DEF Ms!Nodes, MsCount
  <2>2. fNext[fHead.ptr + k - 1].ptr = fHead.ptr + k
    <3>1. \A n \in Ms!Nodes : n < Ms!Linked => fNext[n] = Ms!Pointer(n + 1, 1)  BY <1>0 DEF MsListInv
    <3>2. fNext[fHead.ptr + k - 1] = Ms!Pointer(fHead.ptr + k, 1)  BY <2>1, <3>1
    <3> QED  BY <3>2 DEF Ms!Pointer
  <2>3. fIval[fHead.ptr + k] = fHead.ptr + k - 1
    <3> DEFINE m == fHead.ptr + k
    <3>1. \A n \in Ms!Nodes : 2 <= n /\ n <= fC => fIval[n] = n - 1  BY <1>0 DEF MsListInv
    <3>2. m \in Ms!Nodes /\ 2 <= m /\ m <= fC  BY <2>1
    <3> HIDE DEF m
    <3>3. fIval[m] = m - 1  BY <3>1, <3>2
    <3>4. m - 1 = fHead.ptr + k - 1  BY <1>r DEF m
    <3> QED  BY <3>3, <3>4 DEF m
  <2> QED  BY <2>1, <2>2, <2>3
<1>4. Ms!Contents = MsHeld  BY <1>2, <1>3 DEF Ms!Contents, MsHeld
<1> QED  BY <1>1, <1>2, <1>4 DEF MsHeldFacts

\* A push of the number after the newest one.
LEMMA MsHeldPush ==
  ASSUME NEW o \in Nat, NEW n \in Nat, o <= n
  PROVE  Append([k \in 1 .. (n - o) |-> o + k], n + 1) = [k \in 1 .. (n + 1 - o) |-> o + k]
OBVIOUS

\* A pop of the oldest number.
LEMMA MsHeldPop ==
  ASSUME NEW o \in Nat, NEW n \in Nat, o < n
  PROVE  LET s == [k \in 1 .. (n - o) |-> o + k]
         IN  s # <<>> /\ Head(s) = o + 1 /\ Tail(s) = [k \in 1 .. (n - (o + 1)) |-> (o + 1) + k]
<1> DEFINE s == [k \in 1 .. (n - o) |-> o + k]
<1>1. s \in Seq(Nat) /\ Len(s) = n - o /\ n - o \in Nat \ {0}
  OBVIOUS
<1>2. s # <<>> /\ Head(s) = o + 1
  BY <1>1
<1>3. Tail(s) = [k \in 1 .. (n - o - 1) |-> s[k + 1]]
  BY <1>1
<1>4. n - o - 1 = n - (o + 1) /\ \A k \in 1 .. (n - o - 1) : s[k + 1] = (o + 1) + k
  OBVIOUS
<1> QED  BY <1>2, <1>3, <1>4, ZenonT(30)

\* The step of the writer that links the node pushes its value, the others change nothing.
LEMMA MsWriterRefines == MsIInv /\ MsIInv' /\ Ms!s_msq_write => [Ms!Abstract!Next]_(Ms!Abstract!vars)
<1> SUFFICES ASSUME MsIInv, MsIInv', Ms!s_msq_write PROVE [Ms!Abstract!Next]_(Ms!Abstract!vars)
  OBVIOUS
<1>00. MsHeldFacts /\ MsHeldFacts'
  BY MsContentsHeld, PTL
<1>0. /\ Ms!Contents = MsHeld /\ Ms!Pushed \in 0 .. LOOP /\ MsCount \in Nat /\ MsCount <= Ms!Pushed
      /\ Ms!Contents' = MsHeld' /\ Ms!Pushed' \in 0 .. LOOP /\ LOOP \in Nat
  BY <1>00, LoopNat DEF MsHeldFacts
<1>a. MsCount' = MsCount /\ fGot' = fGot
  BY DEF Ms!s_msq_write, Ms!PushNew, Ms!PushLoad, Ms!PushCheck, Ms!PushLink, Ms!PushSwing, Ms!queueVars, Ms!readerVars, MsCount
<1>b. ASSUME Ms!Pushed' = Ms!Pushed PROVE [Ms!Abstract!Next]_(Ms!Abstract!vars)
  <2>1. Ms!Contents' = Ms!Contents  BY <1>0, <1>a, <1>b DEF MsHeld
  <2>2. [k \in 1 .. Ms!Pushed |-> k]' = [k \in 1 .. Ms!Pushed |-> k]  BY <1>b
  <2> QED  BY <1>a, <2>1, <2>2 DEF Ms!Abstract!vars
<1>c. ASSUME Ms!Pushed' = Ms!Pushed + 1 PROVE [Ms!Abstract!Next]_(Ms!Abstract!vars)
  <2>1. MsHeld' = Append(MsHeld, Ms!Pushed + 1)
    BY <1>0, <1>a, <1>c, MsHeldPush DEF MsHeld
  <2>2. [k \in 1 .. Ms!Pushed |-> k]' = Append([k \in 1 .. Ms!Pushed |-> k], Ms!Pushed + 1)
    BY <1>0, <1>c, AppendNext
  <2>3. Ms!Pushed + 1 \in 1 .. LOOP  BY <1>0, <1>c
  <2> QED  BY <1>0, <1>a, <2>1, <2>2, <2>3 DEF Ms!Abstract!Next, Ms!Abstract!Push
<1>i. fI \in Nat /\ fWpc # "help"  BY LoopNat DEF MsIInv, MsTypeOK
<1>1. CASE Ms!PushNew  BY <1>1, <1>b DEF Ms!PushNew, Ms!Pushed
<1>2. CASE Ms!PushLoad  BY <1>2, <1>b DEF Ms!PushLoad, Ms!Pushed
<1>3. CASE Ms!PushCheck  BY <1>3, <1>b DEF Ms!PushCheck, Ms!Pushed
<1>4. CASE Ms!PushLink
  <2>1. fWpc = "link" /\ fWpc' \in {"swing", "tail"} /\ fI' = fI
    <3>1. fWpc = "link" /\ fI' = fI  BY <1>4 DEF Ms!PushLink
    <3>2. PICK ret \in Ms!Seen(fNext[fWtail.ptr] = fWnext) : fWpc' = IF ret THEN "swing" ELSE "tail"
      BY <1>4 DEF Ms!PushLink
    <3> QED  BY <3>1, <3>2
  <2>2. Ms!Pushed' = Ms!Pushed \/ Ms!Pushed' = Ms!Pushed + 1  BY <1>i, <2>1 DEF Ms!Pushed
  <2> QED  BY <1>b, <1>c, <2>2
<1>5. CASE Ms!PushSwing
  <2>1. fWpc = "swing" /\ fWpc' = "new" /\ fI' = fI + 1  BY <1>5, <1>i DEF Ms!PushSwing
  <2>2. Ms!Pushed' = Ms!Pushed  BY <1>i, <2>1 DEF Ms!Pushed
  <2> QED  BY <1>b, <2>2
<1> QED  BY <1>1, <1>2, <1>3, <1>4, <1>5 DEF Ms!s_msq_write

\* Only the step that moves q->head takes a value; one that moves q->tail does not show.
LEMMA MsReaderRefines == MsIInv /\ MsIInv' /\ Ms!s_msq_read => [Ms!Abstract!Next]_(Ms!Abstract!vars)
<1> SUFFICES ASSUME MsIInv, MsIInv', Ms!s_msq_read PROVE [Ms!Abstract!Next]_(Ms!Abstract!vars)
  OBVIOUS
<1>00. MsHeldFacts /\ MsHeldFacts'
  BY MsContentsHeld, PTL
<1>0. /\ Ms!Contents = MsHeld /\ Ms!Pushed \in 0 .. LOOP /\ MsCount \in Nat /\ MsCount <= Ms!Pushed
      /\ Ms!Contents' = MsHeld' /\ MsCount' \in Nat /\ MsCount' <= Ms!Pushed' /\ LOOP \in Nat
  BY <1>00, LoopNat DEF MsHeldFacts
<1>a. Ms!Pushed' = Ms!Pushed
  BY DEF Ms!s_msq_read, Ms!PopLoad, Ms!PopCheck, Ms!PopHelp, Ms!PopTake, Ms!writerVars, Ms!Pushed
<1>b. ASSUME fHead' = fHead, fGot' = fGot PROVE [Ms!Abstract!Next]_(Ms!Abstract!vars)
  <2>1. Ms!Contents' = Ms!Contents  BY <1>0, <1>a, <1>b DEF MsHeld, MsCount
  <2>2. [k \in 1 .. Ms!Pushed |-> k]' = [k \in 1 .. Ms!Pushed |-> k]  BY <1>a
  <2> QED  BY <1>b, <2>1, <2>2 DEF Ms!Abstract!vars
<1>1. CASE Ms!PopLoad  BY <1>1, <1>b DEF Ms!PopLoad, Ms!queueVars
<1>2. CASE Ms!PopCheck  BY <1>2, <1>b DEF Ms!PopCheck, Ms!queueVars
<1>3. CASE Ms!PopHelp  BY <1>3, <1>b DEF Ms!PopHelp
<1>4. CASE Ms!PopTake
  <2>0. MsRangesOK /\ MsListInv  BY MsRanges DEF MsIInv
  <2>1. /\ fRhead.ptr = fHead.ptr /\ fRhead.tag = fHead.tag /\ fRnext.ptr = fHead.ptr + 1 /\ fHead.ptr + 1 <= fTail.ptr
        /\ fHead \in [ptr : Ms!Nodes, tag : Nat] /\ fRhead \in MsPointers
    BY <1>4 DEF Ms!PopTake, MsIInv, MsReaderInv, MsTypeOK
  <2>2. fHead = fRhead
    <3>1. fRhead = Ms!Pointer(fRhead.ptr, fRhead.tag)  BY <2>1 DEF MsPointers, Ms!Pointer
    <3>2. fHead = Ms!Pointer(fHead.ptr, fHead.tag)  BY <2>1 DEF Ms!Pointer
    <3> QED  BY <2>1, <3>1, <3>2
  <2>3. fHead' = Ms!Pointer(fHead.ptr + 1, fRhead.tag + 1) /\ fGot' = Append(fGot, fIval[fHead.ptr + 1])
    BY <1>4, <2>1, <2>2 DEF Ms!PopTake, Ms!Seen
  <2>4. fHead.ptr + 1 \in Ms!Nodes /\ fHead.ptr + 1 <= fC /\ 2 <= fHead.ptr + 1 /\ fHead.ptr + 1 - 1 = fHead.ptr
        /\ fHead.ptr \in Nat
    BY <2>0, <2>1 DEF MsRangesOK, Ms!Nodes
  <2>5. fIval[fHead.ptr + 1] = fHead.ptr  BY <2>0, <2>4 DEF MsListInv
  <2>6. fHead'.ptr = fHead.ptr + 1  BY <2>3 DEF Ms!Pointer
  <2>7. MsCount' = MsCount + 1 /\ fHead.ptr = MsCount + 1  BY <2>4, <2>6 DEF MsCount
  <2>8. MsCount \in Nat /\ Ms!Pushed \in Nat /\ MsCount < Ms!Pushed  BY <1>0, <1>a, <2>7
  <2>9. MsHeld # <<>> /\ Head(MsHeld) = MsCount + 1 /\ Tail(MsHeld) = [k \in 1 .. (Ms!Pushed - (MsCount + 1)) |-> (MsCount + 1) + k]
    BY <2>8, MsHeldPop DEF MsHeld
  <2>10. MsHeld' = Tail(MsHeld)
    BY <1>a, <2>7, <2>9 DEF MsHeld
  <2> QED  BY <1>0, <1>a, <2>3, <2>5, <2>7, <2>9, <2>10 DEF Ms!Abstract!Next, Ms!Abstract!Pop
<1> QED  BY <1>1, <1>2, <1>3, <1>4 DEF Ms!s_msq_read

\* The queue of s_ms_queue.c implements the FIFO queue, for every number of
\* pushes, although each thread works with copies of q->head, q->tail and of a
\* next field that it loads in two words and that the other may have outdated.
THEOREM MsRefinement == Ms!Spec => Ms!IsFifo
<1>1. Ms!Init => Ms!Abstract!Init
  BY LoopNat DEF Ms!Init, Ms!Abstract!Init, Ms!Contents, Ms!Linked, Ms!Pushed, Ms!Pointer
<1>2. MsIInv /\ MsIInv' /\ [Ms!Next]_(Ms!vars) => [Ms!Abstract!Next]_(Ms!Abstract!vars)
  <2>1. ASSUME UNCHANGED Ms!vars PROVE UNCHANGED Ms!Abstract!vars
    BY <2>1 DEF Ms!vars, Ms!Abstract!vars, Ms!Contents, Ms!Linked, Ms!Pushed
  <2> QED  BY <2>1, MsWriterRefines, MsReaderRefines DEF Ms!Next
<1> QED  BY <1>1, <1>2, MsInvariance, PTL DEF Ms!Spec, Ms!IsFifo, Ms!Abstract!Spec

\* The program starts this queue as its own specification does, and a step of
\* the program is a step of the queue or leaves it alone.
LEMMA MsStarts == Init => Ms!Init
BY DEF Init

LEMMA MsStep == [Next]_vars => [Ms!Next]_(Ms!vars)
<1> SUFFICES ASSUME [Next]_vars PROVE [Ms!Next]_(Ms!vars)
  OBVIOUS
<1>1. UNCHANGED MsVars => UNCHANGED Ms!vars
  BY DEF Ms!vars, MsVars
<1>2. Ms!s_msq_write \/ Ms!s_msq_read \/ UNCHANGED MsVars
  BY DEF Next, Writer, Reader, Ended, sync_thread, vars, s_1r1wq_write, s_1r1wq_read, s_msq_write,
         s_msq_read, s_lockq_write, s_lockq_read, s_slockq_write, s_slockq_read
<1> QED  BY <1>1, <1>2 DEF Ms!Next

LEMMA MsCorrect == Spec => Ms!IsFifo
BY MsStarts, MsStep, MsRefinement, PTL DEF Spec, Ms!Spec

---------------------------------------------------------------------------
\* With C = 1 the program uses a FIFO queue: no interleaving of s_1r1wq_write and
\* s_1r1wq_read loses, repeats or reorders a value, however many are pushed.
THEOREM OneCorrectness == Spec => OneIsFifo
BY OneCorrect DEF OneIsFifo

\* With C = 3 and C = 4 too: the mutex and the spinlock make the pointer updates
\* of a push and of a pop one step for the other thread.
THEOREM LocksCorrectness == Spec => LocksAreFifo
BY LockCorrect DEF LocksAreFifo

\* And with C = 2, where both threads work with copies of q->head, q->tail and of
\* a next field that the other may have outdated.
THEOREM MsCorrectness == Spec => MsIsFifo
BY MsCorrect DEF MsIsFifo

\* In the lock-free queue q->tail never falls behind q->head.
THEOREM MsTailCorrectness == Spec => []MsTailNotBehindHead
<1>1. Ms!TailNotBehindHead => MsTailNotBehindHead
  BY DEF MsTailNotBehindHead
<1> QED  BY <1>1, MsTailFollows, MsStarts, MsStep, PTL DEF Spec, Ms!Spec
=============================================================================
