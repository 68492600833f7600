---------------------------- MODULE UartRxProofs ----------------------------
(***************************************************************************)
(* Proofs about UartRx for every byte set, FIFO size, buffer size and      *)
(* semaphore limit.  The inductive invariant UartInv is preserved by every *)
(* step of the interrupt handler, the three threads and the shell.         *)
(***************************************************************************)
EXTENDS UartRx, TLAPS

\* The wrap-around of rt_hw_serial_isr and _serial_int_rx stays in range and
\* never maps an index to itself.
LEMMA IncRange ==
  ASSUME NEW i \in 0 .. BUFSZ - 1
  PROVE  Inc(i) \in 0 .. BUFSZ - 1 /\ Inc(i) # i
BY SizeAssumption DEF Inc

\* What one received byte does to the FIFO: indices stay in range, there is
\* something to read afterwards, and is_full is only ever set on a full FIFO.
LEMMA FifoPutFacts ==
  ASSUME TypeOK, FullIsFull, NEW ch \in Byte, FifoPut(ch)
  PROVE  /\ buffer' \in [0 .. BUFSZ - 1 -> Byte]
         /\ put_index' \in 0 .. BUFSZ - 1
         /\ get_index' \in 0 .. BUFSZ - 1
         /\ is_full' \in BOOLEAN
         /\ FullIsFull'
         /\ RxLength' > 0
<1>1. buffer' \in [0 .. BUFSZ - 1 -> Byte]
  BY DEF FifoPut, TypeOK
<1>2. put_index' \in 0 .. BUFSZ - 1 /\ get_index' \in 0 .. BUFSZ - 1
  BY IncRange DEF FifoPut, TypeOK
<1>3. is_full' \in BOOLEAN
  BY DEF FifoPut, TypeOK
<1>4. FullIsFull'
  BY SizeAssumption DEF FifoPut, TypeOK, FullIsFull, RxLength, Inc
<1>5. RxLength' > 0
  BY SizeAssumption DEF FifoPut, TypeOK, FullIsFull, RxLength, Inc
<1>6. QED
  BY <1>1, <1>2, <1>3, <1>4, <1>5

\* What one read does to the FIFO.
LEMMA FifoGetFacts ==
  ASSUME TypeOK, FifoGet
  PROVE  /\ get_index' \in 0 .. BUFSZ - 1
         /\ is_full' = FALSE
         /\ UNCHANGED <<buffer, put_index>>
         /\ FullIsFull'
BY IncRange DEF FifoGet, TypeOK, FullIsFull

\* The receive path starts in the inductive invariant, before uart4_init has run.
LEMMA InitInv == Init => UartInv
<1> SUFFICES ASSUME Init PROVE UartInv
  OBVIOUS
<1> USE SizeAssumption, ByteAssumption
<1>1. TypeOK
  <2>1. buffer \in [0 .. BUFSZ - 1 -> Byte] /\ data \in [0 .. SIZE - 1 -> Byte]
    BY DEF Init
  <2>2. clear_pos \in 0 .. NotClearing /\ index \in 0 .. SIZE /\ sem_value \in 0 .. SEM_MAX
    BY DEF Init, NotClearing
  <2>3. put_index \in 0 .. BUFSZ - 1 /\ get_index \in 0 .. BUFSZ - 1
    BY DEF Init
  <2>4. /\ isr \in {"idle", "rx"} /\ rx_pc \in RxPcs /\ uart4_buffer \in Byte
        /\ is_full \in BOOLEAN /\ rx_indicate \in BOOLEAN /\ sem_init \in BOOLEAN
        /\ shell_reading \in BOOLEAN /\ halted \in BOOLEAN
    BY Zenon DEF Init, RxPcs
  <2>5. QED
    BY <2>1, <2>2, <2>3, <2>4 DEF TypeOK
<1>2. NulTerminated /\ IndexInRange
  BY DEF Init, NulTerminated, IndexInRange
<1>3. FullIsFull /\ IsrHasInput /\ LoopReady /\ WakeupPending
  BY DEF Init, FullIsFull, IsrHasInput, LoopReady, WakeupPending
<1>4. QED
  BY <1>1, <1>2, <1>3 DEF UartInv

\* The conjuncts of the invariant that only speak of the FIFO and the handler
\* survive a step that leaves both alone.
LEMMA FifoFrame ==
  ASSUME UartInv, UNCHANGED <<buffer, put_index, get_index, is_full, isr>>
  PROVE  /\ FullIsFull' /\ IsrHasInput'
         /\ RxLength' = RxLength /\ (FifoEmpty' <=> FifoEmpty)
BY DEF UartInv, FullIsFull, IsrHasInput, RxLength, FifoEmpty

\* No step of the handler, the threads or the shell leaves the invariant.
LEMMA NextInv == UartInv /\ [Next]_vars => UartInv'
<1> SUFFICES ASSUME UartInv, [Next]_vars PROVE UartInv'
  OBVIOUS
<1> USE SizeAssumption, ByteAssumption
<1>0. TypeOK /\ FullIsFull
  BY DEF UartInv
<1>1. CASE IsrGetc
  <2>1. PICK ch \in Byte : FifoPut(ch)
    BY <1>1 DEF IsrGetc
  <2>2. TypeOK' /\ FullIsFull' /\ RxLength' > 0
    BY <1>0, <1>1, <2>1, FifoPutFacts DEF IsrGetc, TypeOK
  <2>3. NulTerminated' /\ IndexInRange' /\ IsrHasInput' /\ LoopReady'
    BY <1>1, <2>2 DEF IsrGetc, UartInv, NulTerminated, IndexInRange, IsrHasInput, LoopReady
  <2>4. WakeupPending'
    BY <1>1 DEF IsrGetc, WakeupPending
  <2>5. QED
    BY <2>2, <2>3, <2>4 DEF UartInv
<1>2. CASE IsrIndicate
  <2>1. RxLength > 0
    BY <1>2 DEF IsrIndicate, UartInv, IsrHasInput
  <2>2. UNCHANGED fifoVars /\ FullIsFull' /\ RxLength' = RxLength
    BY <1>2, <1>0 DEF IsrIndicate, fifoVars, FullIsFull, RxLength
  <2>3. TypeOK'
    <3>1. sem_value' \in 0 .. SEM_MAX
      BY <1>2, <1>0 DEF IsrIndicate, SemRelease, TypeOK
    <3>2. rx_pc' \in RxPcs
      BY <1>2, <1>0 DEF IsrIndicate, SemRelease, TypeOK, RxPcs
    <3>3. halted' \in BOOLEAN /\ isr' \in {"idle", "rx"}
      BY <1>2, <1>0 DEF IsrIndicate, TypeOK
    <3>4. QED
      BY <1>2, <1>0, <3>1, <3>2, <3>3 DEF IsrIndicate, TypeOK, fifoVars
  <2>4. NulTerminated' /\ IndexInRange' /\ IsrHasInput'
    BY <1>2 DEF IsrIndicate, UartInv, NulTerminated, IndexInRange, IsrHasInput
  <2>5. LoopReady'
    BY <1>2 DEF IsrIndicate, SemRelease, UartInv, LoopReady
  <2>6. rx_pc' # "blocked" /\ (rx_pc' = "take" => sem_value' > 0)
    <3>1. CASE ~rx_indicate \/ ~HasInput
      BY <1>2, <2>1, <3>1 DEF IsrIndicate, HasInput, UartInv, LoopReady
    <3>2. CASE rx_indicate /\ HasInput /\ sem_init
      BY <1>0, <1>2, <3>2 DEF IsrIndicate, SemRelease, TypeOK
    <3>3. CASE rx_indicate /\ HasInput /\ ~sem_init
      BY <1>2, <3>3 DEF IsrIndicate, UartInv, LoopReady
    <3>4. QED
      BY <3>1, <3>2, <3>3
  <2>7. WakeupPending'
    BY <2>6 DEF WakeupPending
  <2>8. QED
    BY <2>2, <2>3, <2>4, <2>5, <2>7 DEF UartInv
<1>3. CASE RxOpen \/ RxSetIndicate \/ RxSemInit
  <2>0. UNCHANGED <<buffer, put_index, get_index, is_full, isr>>
    BY <1>3 DEF RxOpen, RxSetIndicate, RxSemInit, fifoVars
  <2>1. TypeOK'
    <3>1. rx_pc' \in RxPcs
      BY <1>3 DEF RxOpen, RxSetIndicate, RxSemInit, RxPcs
    <3>2. sem_value' \in 0 .. SEM_MAX
      BY <1>0, <1>3 DEF RxOpen, RxSetIndicate, RxSemInit, TypeOK
    <3>3. QED
      BY <1>0, <1>3, <2>0, <3>1, <3>2 DEF RxOpen, RxSetIndicate, RxSemInit, TypeOK
  <2>2. NulTerminated' /\ IndexInRange'
    BY <1>3 DEF RxOpen, RxSetIndicate, RxSemInit, UartInv, NulTerminated, IndexInRange
  <2>3. LoopReady'
    BY <1>3 DEF RxOpen, RxSetIndicate, RxSemInit, UartInv, LoopReady
  <2>4. WakeupPending'
    BY <1>3 DEF RxOpen, RxSetIndicate, RxSemInit, WakeupPending
  <2>5. QED
    BY <2>0, <2>1, <2>2, <2>3, <2>4, FifoFrame DEF UartInv
<1>4. CASE RxRead
  <2>1. FullIsFull' /\ get_index' \in 0 .. BUFSZ - 1 /\ is_full' \in BOOLEAN
        /\ UNCHANGED <<buffer, put_index>>
    <3>1. CASE FifoGet
      BY <1>0, <3>1, FifoGetFacts
    <3>2. CASE UNCHANGED fifoVars
      BY <1>0, <3>2 DEF fifoVars, FullIsFull, RxLength, TypeOK
    <3>3. QED
      BY <1>4, <3>1, <3>2 DEF RxRead
  <2>2. rx_pc' \in {"store", "take"} /\ (rx_pc' = "take" => FifoEmpty')
    BY <1>4 DEF RxRead, fifoVars, FifoEmpty
  <2>3. uart4_buffer' \in Byte
    BY <1>0, <1>4 DEF RxRead, NextByte, TypeOK
  <2>4. TypeOK'
    BY <1>0, <1>4, <2>1, <2>2, <2>3 DEF RxRead, TypeOK, RxPcs
  <2>5. NulTerminated' /\ IndexInRange' /\ IsrHasInput' /\ LoopReady'
    BY <1>4, <2>2 DEF RxRead, RxRuns, ThreadsRun, UartInv, NulTerminated, IndexInRange,
                      IsrHasInput, LoopReady
  <2>6. WakeupPending'
    BY <2>2 DEF WakeupPending
  <2>7. QED
    BY <2>1, <2>4, <2>5, <2>6 DEF UartInv
<1>5. CASE RxTake
  <2>0. UNCHANGED <<buffer, put_index, get_index, is_full, isr>>
    BY <1>5 DEF RxTake, fifoVars
  <2>1. TypeOK'
    BY <1>0, <1>5, <2>0 DEF RxTake, TypeOK, RxPcs
  <2>2. NulTerminated' /\ IndexInRange' /\ LoopReady'
    BY <1>5 DEF RxTake, UartInv, NulTerminated, IndexInRange, LoopReady
  <2>3. WakeupPending'
    <3>1. FifoEmpty \/ sem_value > 0
      BY <1>5 DEF RxTake, RxRuns, ThreadsRun, UartInv, WakeupPending
    <3>2. QED
      BY <1>0, <1>5, <2>0, <3>1, FifoFrame DEF RxTake, TypeOK, WakeupPending
  <2>4. QED
    BY <2>0, <2>1, <2>2, <2>3, FifoFrame DEF UartInv
<1>6. CASE RxStore
  <2>0. UNCHANGED <<buffer, put_index, get_index, is_full, isr>>
    BY <1>6 DEF RxStore, fifoVars
  <2>1. /\ data' \in [0 .. SIZE - 1 -> Byte] /\ index' \in 0 .. SIZE
        /\ IndexInRange' /\ NulTerminated'
    BY <1>0, <1>6 DEF RxStore, HasRoom, UartInv, TypeOK, IndexInRange, NulTerminated
  <2>2. TypeOK'
    BY <1>0, <1>6, <2>0, <2>1 DEF RxStore, TypeOK, RxPcs
  <2>3. LoopReady' /\ WakeupPending'
    BY <1>6 DEF RxStore, UartInv, LoopReady, WakeupPending
  <2>4. QED
    BY <2>0, <2>1, <2>2, <2>3, FifoFrame DEF UartInv
<1>7. CASE Clear
  <2>0. UNCHANGED <<buffer, put_index, get_index, is_full, isr, rx_pc, rx_indicate,
                    sem_init, sem_value>>
    BY <1>7 DEF Clear, ClearBegin, ClearByte, ClearIndex, fifoVars
  <2>1. /\ data' \in [0 .. SIZE - 1 -> Byte] /\ index' \in 0 .. SIZE
        /\ IndexInRange' /\ NulTerminated'
    BY <1>0, <1>7 DEF Clear, ClearBegin, ClearByte, ClearIndex, UartInv, TypeOK,
                      IndexInRange, NulTerminated
  <2>2. clear_pos' \in 0 .. NotClearing
    BY <1>0, <1>7 DEF Clear, ClearBegin, ClearByte, ClearIndex, TypeOK, NotClearing
  <2>3. TypeOK'
    BY <1>0, <1>7, <2>0, <2>1, <2>2 DEF Clear, ClearBegin, ClearByte, ClearIndex, TypeOK
  <2>4. LoopReady' /\ WakeupPending'
    BY <2>0, FifoFrame DEF UartInv, LoopReady, WakeupPending
  <2>5. QED
    BY <2>0, <2>1, <2>3, <2>4, FifoFrame DEF UartInv
<1>8. CASE Shell
  <2>0. UNCHANGED <<isr, rx_pc, rx_indicate, sem_init, sem_value, data, index>>
    BY <1>8 DEF Shell, ShellBegin, ShellGet, ShellEnd
  <2>1. FullIsFull' /\ get_index' \in 0 .. BUFSZ - 1 /\ is_full' \in BOOLEAN
        /\ UNCHANGED <<buffer, put_index>>
    <3>1. CASE FifoGet
      BY <1>0, <3>1, FifoGetFacts
    <3>2. CASE UNCHANGED fifoVars
      BY <1>0, <3>2 DEF fifoVars, FullIsFull, RxLength, TypeOK
    <3>3. QED
      BY <1>8, <3>1, <3>2 DEF Shell, ShellBegin, ShellGet, ShellEnd
  <2>2. TypeOK'
    BY <1>0, <1>8, <2>0, <2>1 DEF Shell, ShellBegin, ShellGet, ShellEnd, TypeOK
  <2>3. NulTerminated' /\ IndexInRange' /\ LoopReady' /\ IsrHasInput'
    BY <1>8, <2>0 DEF Shell, ShellBegin, ShellGet, ShellEnd, ThreadsRun, UartInv,
                      NulTerminated, IndexInRange, LoopReady, IsrHasInput
  <2>4. FifoEmpty => FifoEmpty'
    BY <1>8 DEF Shell, ShellBegin, ShellGet, ShellEnd, FifoGet, fifoVars, FifoEmpty
  <2>5. WakeupPending'
    BY <2>0, <2>4 DEF UartInv, WakeupPending
  <2>6. QED
    BY <2>1, <2>2, <2>3, <2>5 DEF UartInv
<1>9. CASE UNCHANGED vars
  BY <1>9 DEF vars, fifoVars, UartInv, TypeOK, NulTerminated, FullIsFull, IndexInRange,
              IsrHasInput, LoopReady, WakeupPending, FifoEmpty, RxLength
<1>10. QED
  BY <1>1, <1>2, <1>3, <1>4, <1>5, <1>6, <1>7, <1>8, <1>9 DEF Next, RxThread

\* The inductive invariant holds in every reachable state of the receive path.
LEMMA UartInvariant == Spec => []UartInv
BY InitInv, NextInv, PTL DEF Spec

\* Every variable of the receive path keeps its type; in particular no FIFO or
\* buffer index leaves its array.
THEOREM TypeCorrect == Spec => []TypeOK
<1>1. UartInv => TypeOK
  BY DEF UartInv
<1>2. QED
  BY <1>1, UartInvariant, PTL

\* uart4_recived_data is a terminated string for every strstr() on it.
THEOREM AlwaysTerminated == Spec => []NulTerminated
<1>1. UartInv => NulTerminated
  BY DEF UartInv
<1>2. QED
  BY <1>1, UartInvariant, PTL

\* No wake-up is lost between the interrupt handler, the semaphore and the
\* receive thread, for any FIFO size and semaphore limit.
THEOREM WakeupNeverLost == Spec => []NoLostWakeup
<1>1. UartInv => NoLostWakeup
  BY DEF UartInv, WakeupPending, NoLostWakeup
<1>2. QED
  BY <1>1, UartInvariant, PTL

\* is_full is only ever set while the FIFO holds BUFSZ - 1 bytes.
THEOREM FullFlagRight == Spec => []FullIsFull
<1>1. UartInv => FullIsFull
  BY DEF UartInv
<1>2. QED
  BY <1>1, UartInvariant, PTL

-----------------------------------------------------------------------------
(* The FIFO is a queue. *)

\* The remainder of an index that has passed the end at most once.
LEMMA Wrapped ==
  ASSUME NEW b \in Nat, b > 0, NEW a \in Nat, a < 2 * b
  PROVE  a % b = IF a < b THEN a ELSE a - b
OBVIOUS

\* The place of the i-th unread byte when the read index is g.
Place(g, i) == IF g + i - 1 < BUFSZ THEN g + i - 1 ELSE g + i - 1 - BUFSZ

\* The places follow each other as the indices do; the first is the read index, and
\* the first behind the unread bytes is the write index.
LEMMA Places ==
  ASSUME NEW g \in 0 .. BUFSZ - 1, NEW i \in 1 .. BUFSZ
  PROVE  /\ Place(g, i) \in 0 .. BUFSZ - 1
         /\ (g + i - 1) % BUFSZ = Place(g, i)
         /\ Place(g, 1) = g
         /\ i < BUFSZ => Place(Inc(g), i) = Place(g, i + 1)
         /\ \A j \in 1 .. BUFSZ : i # j => Place(g, i) # Place(g, j)
<1>1. Place(g, i) \in 0 .. BUFSZ - 1 /\ Place(g, 1) = g
  BY SizeAssumption DEF Place
<1>2. (g + i - 1) % BUFSZ = Place(g, i)
  <2>1. PICK a \in Nat : a = g + i - 1 /\ a < 2 * BUFSZ
    BY SizeAssumption
  <2>2. PICK r : r = a % BUFSZ
    OBVIOUS
  <2>3. r = IF a < BUFSZ THEN a ELSE a - BUFSZ
    <3>1. BUFSZ \in Nat /\ BUFSZ > 0
      BY SizeAssumption
    <3> QED BY <2>1, <2>2, <3>1, Wrapped
  <2>4. r = Place(g, i)
    BY <2>1, <2>3, SizeAssumption DEF Place
  <2> QED BY <2>1, <2>2, <2>4, Zenon
<1>3. i < BUFSZ => Place(Inc(g), i) = Place(g, i + 1)
  BY SizeAssumption DEF Place, Inc
<1>4. \A j \in 1 .. BUFSZ : i # j => Place(g, i) # Place(g, j)
  BY SizeAssumption DEF Place
<1> QED BY <1>1, <1>2, <1>3, <1>4

\* How many bytes are unread.
LEMMA LengthFacts ==
  ASSUME TypeOK
  PROVE  /\ RxLength \in 0 .. BUFSZ - 1
         /\ put_index = Place(get_index, RxLength + 1)
         /\ FullIsFull => (FifoEmpty <=> RxLength = 0)
<1>1. RxLength \in 0 .. BUFSZ - 1 /\ put_index = Place(get_index, RxLength + 1)
  BY SizeAssumption DEF TypeOK, RxLength, Place
<1>2. FullIsFull => (FifoEmpty <=> RxLength = 0)
  BY SizeAssumption DEF TypeOK, RxLength, FullIsFull, FifoEmpty
<1> QED BY <1>1, <1>2

\* The unread bytes, oldest first.
IsContents(c) ==
  /\ c \in Seq(Byte) /\ Len(c) = RxLength
  /\ \A i \in 1 .. RxLength : c[i] = buffer[Place(get_index, i)]

\* They are the contents of the queue.
LEMMA ContentsFacts == TypeOK => IsContents(Contents)
<1> SUFFICES ASSUME TypeOK PROVE IsContents(Contents)
    OBVIOUS
<1>1. PICK n \in Nat : n = RxLength /\ n <= BUFSZ - 1
  BY LengthFacts, SizeAssumption
<1>2. ASSUME NEW i \in 1 .. n
      PROVE  /\ buffer[(get_index + i - 1) % BUFSZ] = buffer[Place(get_index, i)]
             /\ buffer[Place(get_index, i)] \in Byte
  <2>1. i \in 1 .. BUFSZ /\ get_index \in 0 .. BUFSZ - 1
    BY <1>1, SizeAssumption DEF TypeOK
  <2>2. Place(get_index, i) \in 0 .. BUFSZ - 1 /\ (get_index + i - 1) % BUFSZ = Place(get_index, i)
    BY <2>1, Places
  <2> QED BY <2>2 DEF TypeOK
<1>3. Contents = [i \in 1 .. n |-> buffer[Place(get_index, i)]]
  BY <1>1, <1>2 DEF Contents
<1>4. PICK c : c = Contents
  OBVIOUS
<1>5. c \in [1 .. n -> Byte] /\ \A i \in 1 .. n : c[i] = buffer[Place(get_index, i)]
  BY <1>2, <1>3, <1>4
<1>6. c \in Seq(Byte) /\ Len(c) = n
  BY <1>5
<1> QED BY <1>1, <1>4, <1>5, <1>6 DEF IsContents

\* Sequences are equal when their elements are.
LEMMA SameSequence ==
  ASSUME NEW S, NEW s \in Seq(S), NEW t \in Seq(S), Len(s) = Len(t),
         \A i \in 1 .. Len(s) : s[i] = t[i]
  PROVE  s = t
OBVIOUS

\* A read takes the oldest byte.
LEMMA GetIsTail ==
  ASSUME TypeOK, TypeOK', FullIsFull, FifoGet
  PROVE  /\ Contents # <<>> /\ Contents' = Tail(Contents)
         /\ NextByte = Head(Contents)
<1>1. PICK c : c = Contents
  OBVIOUS
<1>2. PICK d : d = Contents'
  OBVIOUS
<1>3. PICK n \in Nat : n = RxLength /\ n >= 1 /\ n <= BUFSZ - 1
  BY LengthFacts, SizeAssumption DEF FifoGet
<1>4. /\ c \in Seq(Byte) /\ Len(c) = n
      /\ \A i \in 1 .. n : c[i] = buffer[Place(get_index, i)]
  BY <1>1, <1>3, ContentsFacts DEF IsContents
<1>5. RxLength' = n - 1
  BY <1>3, SizeAssumption DEF FifoGet, RxLength, Inc, TypeOK
<1>6. /\ d \in Seq(Byte) /\ Len(d) = n - 1
      /\ \A i \in 1 .. n - 1 : d[i] = buffer'[Place(get_index', i)]
  <2>1. IsContents(Contents)'
    BY ContentsFacts, PTL
  <2>2. /\ Contents' \in Seq(Byte) /\ Len(Contents') = RxLength'
        /\ \A i \in 1 .. RxLength' : Contents'[i] = buffer'[Place(get_index', i)]
    BY <2>1 DEF IsContents, Place
  <2> QED BY <1>2, <1>5, <2>2
<1>7. get_index \in 0 .. BUFSZ - 1 /\ get_index' = Inc(get_index) /\ buffer' = buffer
  BY DEF FifoGet, TypeOK
<1>8. \A i \in 1 .. n - 1 : d[i] = c[i + 1]
  <2> TAKE i \in 1 .. n - 1
  <2>1. i \in 1 .. BUFSZ /\ i < BUFSZ /\ i + 1 \in 1 .. n
    BY <1>3, SizeAssumption
  <2>2. Place(Inc(get_index), i) = Place(get_index, i + 1)
    BY <1>7, <2>1, Places
  <2> QED BY <1>4, <1>6, <1>7, <2>1, <2>2
<1>9. Tail(c) \in Seq(Byte) /\ Len(Tail(c)) = n - 1 /\ \A i \in 1 .. n - 1 : Tail(c)[i] = c[i + 1]
  <2>1. c \in Seq(Byte) /\ c # <<>> /\ Len(c) = n
    BY <1>3, <1>4
  <2> QED BY <2>1
<1>10. d = Tail(c)
  <2>1. PICK t : t = Tail(c)
    OBVIOUS
  <2> QED BY <1>6, <1>8, <1>9, <2>1, SameSequence
<1>11. c # <<>> /\ Head(c) = c[1]
  BY <1>3, <1>4
<1>12. c[1] = NextByte
  <2>1. Place(get_index, 1) = get_index
    BY <1>7, SizeAssumption DEF Place
  <2> QED BY <1>3, <1>4, <2>1 DEF NextByte
<1> QED BY <1>1, <1>2, <1>10, <1>11, <1>12

\* A received byte is appended; a full FIFO gives up its oldest byte for it.
LEMMA PutIsAppend ==
  ASSUME TypeOK, TypeOK', NEW ch \in Byte, FifoPut(ch)
  PROVE  Contents' = IF Len(Contents) = BUFSZ - 1 THEN Append(Tail(Contents), ch)
                                                  ELSE Append(Contents, ch)
<1>1. PICK c : c = Contents
  OBVIOUS
<1>2. PICK d : d = Contents'
  OBVIOUS
<1>3. PICK n \in Nat : n = RxLength /\ n <= BUFSZ - 1
  BY LengthFacts, SizeAssumption
<1>4. /\ c \in Seq(Byte) /\ Len(c) = n
      /\ \A i \in 1 .. n : c[i] = buffer[Place(get_index, i)]
  BY <1>1, <1>3, ContentsFacts DEF IsContents
<1>5. /\ d \in Seq(Byte) /\ Len(d) = RxLength'
      /\ \A i \in 1 .. RxLength' : d[i] = buffer'[Place(get_index', i)]
  <2>1. IsContents(Contents)'
    BY ContentsFacts, PTL
  <2> QED BY <1>2, <2>1 DEF IsContents, Place
<1>6. get_index \in 0 .. BUFSZ - 1 /\ put_index = Place(get_index, n + 1)
  BY <1>3, LengthFacts DEF TypeOK
<1>7. /\ buffer \in [0 .. BUFSZ - 1 -> Byte]
      /\ buffer' = [buffer EXCEPT ![put_index] = ch]
      /\ n + 1 \in 1 .. BUFSZ
  BY <1>3, SizeAssumption DEF FifoPut, TypeOK
\* The new byte lies behind the others and leaves them alone.
<1>8. /\ buffer'[Place(get_index, n + 1)] = ch
      /\ \A i \in 1 .. n : buffer'[Place(get_index, i)] = c[i]
  <2>1. Place(get_index, n + 1) \in 0 .. BUFSZ - 1
    BY <1>6, <1>7, Places
  <2>2. ASSUME NEW i \in 1 .. n PROVE buffer'[Place(get_index, i)] = c[i]
    <3>1. i \in 1 .. BUFSZ /\ i # n + 1
      BY <1>3, SizeAssumption
    <3>2. Place(get_index, i) \in 0 .. BUFSZ - 1 /\ Place(get_index, i) # Place(get_index, n + 1)
      BY <1>6, <1>7, <3>1, Places
    <3> QED BY <1>4, <1>6, <1>7, <3>2
  <2> QED BY <1>6, <1>7, <2>1, <2>2
<1>9. CASE n # BUFSZ - 1
  <2>1. get_index' = get_index /\ RxLength' = n + 1
    BY <1>3, <1>9, SizeAssumption DEF FifoPut, RxLength, Inc, TypeOK
  <2>2. PICK a : a = Append(c, ch)
    OBVIOUS
  <2>3. /\ a \in Seq(Byte) /\ Len(a) = n + 1 /\ a[n + 1] = ch
        /\ \A i \in 1 .. n : a[i] = c[i]
    BY <1>4, <2>2
  <2>4. Len(d) = n + 1 /\ \A i \in 1 .. n + 1 : d[i] = buffer'[Place(get_index, i)]
    BY <1>5, <2>1
  <2>5. \A i \in 1 .. Len(d) : d[i] = a[i]
    <3>1. d[n + 1] = a[n + 1] /\ \A i \in 1 .. n : d[i] = a[i]
      BY <1>8, <2>3, <2>4
    <3>2. \A i \in 1 .. n + 1 : i = n + 1 \/ i \in 1 .. n
      OBVIOUS
    <3> QED BY <2>4, <3>1, <3>2
  <2>6. d = a
    BY <1>5, <2>3, <2>4, <2>5, SameSequence
  <2> QED BY <1>1, <1>2, <1>4, <1>9, <2>2, <2>6
<1>10. CASE n = BUFSZ - 1
  <2>1. get_index' = Inc(get_index) /\ RxLength' = n /\ n >= 1
    BY <1>3, <1>10, SizeAssumption DEF FifoPut, RxLength, Inc, TypeOK
  <2>2. PICK t : t = Tail(c)
    OBVIOUS
  <2>3. t \in Seq(Byte) /\ Len(t) = n - 1 /\ \A i \in 1 .. n - 1 : t[i] = c[i + 1]
    <3>1. c \in Seq(Byte) /\ c # <<>> /\ Len(c) = n
      BY <1>4, <2>1
    <3> QED BY <2>2, <3>1
  <2>4. PICK a : a = Append(t, ch)
    OBVIOUS
  <2>5. /\ a \in Seq(Byte) /\ Len(a) = n /\ a[n] = ch
        /\ \A i \in 1 .. n - 1 : a[i] = t[i]
    <3>1. t \in Seq(Byte) /\ Len(t) = n - 1
      BY <2>3
    <3> QED BY <2>1, <2>4, <3>1
  <2>6. Len(d) = n /\ \A i \in 1 .. n : d[i] = buffer'[Place(get_index, i + 1)]
    <3>1. ASSUME NEW i \in 1 .. n PROVE Place(Inc(get_index), i) = Place(get_index, i + 1)
      <4>1. i \in 1 .. BUFSZ /\ i < BUFSZ
        BY <1>3, SizeAssumption
      <4> QED BY <1>6, <4>1, Places
    <3> QED BY <1>5, <2>1, <3>1
  <2>7. \A i \in 1 .. Len(d) : d[i] = a[i]
    <3>1. d[n] = a[n]
      BY <1>8, <2>1, <2>5, <2>6
    <3>2. ASSUME NEW i \in 1 .. n - 1 PROVE d[i] = a[i]
      <4>1. i \in 1 .. n /\ i + 1 \in 1 .. n
        OBVIOUS
      <4> QED BY <1>8, <2>3, <2>5, <2>6, <4>1
    <3>3. \A i \in 1 .. n : i = n \/ i \in 1 .. n - 1
      OBVIOUS
    <3> QED BY <2>6, <3>1, <3>2, <3>3
  <2>8. d = a
    BY <1>5, <2>5, <2>6, <2>7, SameSequence
  <2> QED BY <1>1, <1>2, <1>4, <1>10, <2>2, <2>4, <2>8
<1> QED BY <1>9, <1>10

\* What does not touch the FIFO and the thread's byte is a stuttering step.
LEMMA QueueFrame ==
  ASSUME UNCHANGED <<fifoVars, uart4_buffer>>
  PROVE  UNCHANGED <<Contents, uart4_buffer>>
BY DEF fifoVars, Contents, RxLength

\* Each step of the receive path is a step of the queue or a stuttering step.
LEMMA QueueSteps ==
  ASSUME UartInv, UartInv', [Next]_vars
  PROVE  [Queue!Next]_(Queue!vars)
<1> SUFFICES Queue!Next \/ UNCHANGED <<Contents, uart4_buffer>>
  BY DEF Queue!vars
<1>1. TypeOK /\ TypeOK' /\ FullIsFull
  BY DEF UartInv
<1>2. CASE IsrGetc
  <2>1. PICK ch \in Byte : FifoPut(ch)
    BY <1>2 DEF IsrGetc
  <2>2. Queue!Put(ch)
    BY <1>1, <1>2, <2>1, PutIsAppend DEF IsrGetc, Queue!Put
  <2> QED BY <2>2 DEF Queue!Next
<1>3. CASE FifoGet /\ uart4_buffer' = NextByte
  <2>1. Queue!Take
    BY <1>1, <1>3, GetIsTail DEF Queue!Take
  <2> QED BY <2>1 DEF Queue!Next
<1>4. CASE FifoGet /\ uart4_buffer' = uart4_buffer
  <2>1. Queue!Discard
    BY <1>1, <1>4, GetIsTail DEF Queue!Discard
  <2> QED BY <2>1 DEF Queue!Next
<1>5. CASE UNCHANGED <<fifoVars, uart4_buffer>>
  BY <1>5, QueueFrame
<1>6. CASE RxRead
  BY <1>3, <1>5, <1>6 DEF RxRead
<1>7. CASE ShellGet
  BY <1>4, <1>7 DEF ShellGet
<1>8. CASE IsrIndicate
  BY <1>5, <1>8 DEF IsrIndicate
<1>9. CASE RxOpen \/ RxSetIndicate \/ RxSemInit \/ RxTake \/ RxStore
  BY <1>5, <1>9 DEF RxOpen, RxSetIndicate, RxSemInit, RxTake, RxStore
<1>10. CASE Clear
  BY <1>5, <1>10 DEF Clear, ClearBegin, ClearByte, ClearIndex
<1>11. CASE ShellBegin \/ ShellEnd
  BY <1>5, <1>11 DEF ShellBegin, ShellEnd
<1>12. CASE UNCHANGED vars
  BY <1>5, <1>12 DEF vars
<1> QED
  BY <1>2, <1>6, <1>7, <1>8, <1>9, <1>10, <1>11, <1>12 DEF Next, RxThread, Shell

\* The serial driver's FIFO, filled by rt_hw_serial_isr and emptied by the receive
\* thread and the shell through _serial_int_rx, is a queue of at most BUFSZ - 1
\* bytes, for every size of it: bytes are read in the order they came, none twice,
\* and only an overrun loses any, the oldest.
THEOREM ImplementsQueue == Spec => QueueSpec
<1>1. Init => Queue!Init
  <2> SUFFICES ASSUME Init PROVE Contents = <<>> /\ uart4_buffer \in Byte
    BY DEF Queue!Init
  <2>1. TypeOK /\ RxLength = 0
    BY InitInv, SizeAssumption DEF Init, UartInv, RxLength
  <2>2. PICK c : c = Contents
    OBVIOUS
  <2>3. c \in Seq(Byte) /\ Len(c) = 0
    BY <2>1, <2>2, ContentsFacts DEF IsContents
  <2>4. c = <<>>
    BY <2>3
  <2> QED BY <2>1, <2>2, <2>4 DEF TypeOK
<1>2. UartInv /\ UartInv' /\ [Next]_vars => [Queue!Next]_(Queue!vars)
  BY QueueSteps
<1> QED BY <1>1, <1>2, UartInvariant, PTL DEF Spec, QueueSpec, Queue!Spec
=============================================================================
