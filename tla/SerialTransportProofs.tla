------------------------ MODULE SerialTransportProofs ------------------------
(***************************************************************************)
(* Proofs about the serial transport, for every ring size, semaphore limit,*)
(* tick width, scheduling delay, read length and timeout that satisfy the  *)
(* assumptions of SerialTransport.                                         *)
(***************************************************************************)
EXTENDS SerialTransport, SequenceTheorems, TLAPS

USE DEF semVars, devVars, readVars, timeVars
USE DEF SizeAssumption, ReadAssumption, BoundAssumption, TickAssumption

-----------------------------------------------------------------------------
\* Type correctness.

LEMMA TypeInit == Init => TypeOK
<1>1. Init => FlagsOK
  BY DEF Init, FlagsOK
<1>2. Init => DataOK
  BY SizeAssumption, TickAssumption, BoundAssumption
     DEF Init, DataOK, PcValues, Reading, Running
<1> QED BY <1>1, <1>2 DEF TypeOK

LEMMA FlagsStep == FlagsOK /\ [Next]_vars => FlagsOK'
<1> SUFFICES ASSUME FlagsOK, [Next]_vars PROVE FlagsOK'
  OBVIOUS
<1> USE DEF FlagsOK
<1>1. CASE OpenFind
  BY <1>1 DEF OpenFind
<1>2. CASE OpenSem
  BY <1>2 DEF OpenSem, InitSemIfNeeded, InitSem
<1>3. CASE OpenDev
  BY <1>3 DEF OpenDev
<1>4. CASE OpenIndicate
  BY <1>4 DEF OpenIndicate
<1>5. CASE CloseDev
  BY <1>5 DEF CloseDev
<1>6. CASE CloseSem
  BY <1>6 DEF CloseSem
<1>7. ASSUME NEW l \in Lens, NEW t \in Timeouts, ReadCall(l, t) PROVE FlagsOK'
  BY <1>7 DEF ReadCall
<1>8. CASE ReadByte
  BY <1>8 DEF ReadByte, InitSemIfNeeded, InitSem
<1>9. CASE ReadPoll \/ ReadTake \/ ReadCheck \/ UartRx \/ Tick
  BY <1>9 DEF ReadPoll, ReadTake, ReadCheck, UartRx, Tick
<1>10. CASE UNCHANGED vars
  BY <1>10 DEF vars
<1> QED BY <1>1, <1>2, <1>3, <1>4, <1>5, <1>6, <1>7, <1>8, <1>9, <1>10
        DEF Next, Client, ReadStep

LEMMA QuarterType == ASSUME NEW t \in Int PROVE Quarter(t) \in Int
BY DEF Quarter

LEMMA StoredType ==
    ASSUME DataOK, arrived < MaxBytes
    PROVE  /\ Stored(arrived + 1) \in Seq(1..MaxBytes)
           /\ Len(Stored(arrived + 1)) <= FifoSize
<1>1. CASE Len(fifo) = FifoSize
  BY <1>1, SizeAssumption, BoundAssumption DEF DataOK, Stored
<1>2. CASE Len(fifo) # FifoSize
  BY <1>2, SizeAssumption, BoundAssumption DEF DataOK, Stored
<1> QED BY <1>1, <1>2

LEMMA DataStep == DataOK /\ [Next]_vars => DataOK'
<1> SUFFICES ASSUME DataOK, [Next]_vars PROVE DataOK'
  OBVIOUS
<1> USE SizeAssumption, BoundAssumption, TickAssumption
<1> USE DEF DataOK, PcValues, Reading, Running
<1>1. CASE OpenFind
  BY <1>1 DEF OpenFind
<1>2. CASE OpenSem
  BY <1>2 DEF OpenSem, InitSemIfNeeded, InitSem
<1>3. CASE OpenDev
  BY <1>3 DEF OpenDev
<1>4. CASE OpenIndicate
  BY <1>4 DEF OpenIndicate
<1>5. CASE CloseDev
  BY <1>5 DEF CloseDev
<1>6. CASE CloseSem
  BY <1>6 DEF CloseSem
<1>7. ASSUME NEW l \in Lens, NEW t \in Timeouts, ReadCall(l, t) PROVE DataOK'
  BY <1>7, ReadAssumption DEF ReadCall
<1>8. CASE ReadByte
  <2>1. CASE Len(buf) >= len /\ Return /\ UNCHANGED semVars
    BY <1>8, <2>1 DEF ReadByte, Return
  <2>2. CASE Len(buf) < len /\ InitSemIfNeeded /\ pc' = "poll"
             /\ UNCHANGED <<buf, delivered, readVars, wait>>
    BY <1>8, <2>2 DEF ReadByte, InitSemIfNeeded, InitSem
  <2> QED BY <1>8, <2>1, <2>2 DEF ReadByte
<1>9. CASE ReadPoll
  <2>1. CASE devOpen /\ fifo # <<>>
    <3>1. buf' = Append(buf, Head(fifo)) /\ fifo' = Tail(fifo) /\ pc' = "byte"
      BY <1>9, <2>1 DEF ReadPoll
    <3> QED BY <1>9, <2>1, <3>1 DEF ReadPoll
  <2>2. CASE ~(devOpen /\ fifo # <<>>)
    BY <1>9, <2>2 DEF ReadPoll
  <2> QED BY <2>1, <2>2
<1>10. CASE ReadTake
  <2>1. CASE TakeToken
    BY <1>10, <2>1 DEF ReadTake, TakeToken
  <2>2. CASE TakeEmpty(Quarter(timeout))
    BY <1>10, <2>2, QuarterType DEF ReadTake, TakeEmpty
  <2> QED BY <1>10, <2>1, <2>2 DEF ReadTake
<1>11. CASE ReadCheck
  <2>1. CASE Return
    BY <1>11, <2>1 DEF ReadCheck, Return
  <2>2. CASE pc' = "poll" /\ UNCHANGED <<buf, delivered, readVars, wait>>
    BY <1>11, <2>2 DEF ReadCheck
  <2> QED BY <1>11, <2>1, <2>2 DEF ReadCheck
<1>12. CASE UartRx
  BY <1>12, StoredType DEF UartRx, uart_input
<1>13. CASE Tick
  BY <1>13 DEF Tick
<1>14. CASE UNCHANGED vars
  BY <1>14 DEF vars
<1> QED BY <1>1, <1>2, <1>3, <1>4, <1>5, <1>6, <1>7, <1>8, <1>9, <1>10, <1>11,
           <1>12, <1>13, <1>14 DEF Next, Client, ReadStep

\* The transport's state keeps its types: the semaphore's count and the ring
\* never exceed their limits, whatever the interrupts do.
THEOREM TypeCorrect == Spec => []TypeOK
BY TypeInit, FlagsStep, DataStep, PTL DEF Spec, TypeOK
-----------------------------------------------------------------------------
\* The semaphore is live whenever it is used.

LEMMA InitSemIfNeededLive ==
    ASSUME DataOK, SemaphoreInv, InitSemIfNeeded
    PROVE  semLive' = TRUE /\ sem_initialized' = 1
<1>1. CASE sem_initialized = 0
  BY <1>1 DEF InitSemIfNeeded, InitSem
<1>2. CASE sem_initialized = 1
  <2>1. semLive
    BY <1>2 DEF SemaphoreInv
  <2> QED BY <1>2, <2>1 DEF InitSemIfNeeded
<1> QED BY <1>1, <1>2 DEF DataOK

LEMMA SemaphoreStep == DataOK /\ SemaphoreInv /\ [Next]_vars => SemaphoreInv'
<1> SUFFICES ASSUME DataOK, SemaphoreInv, [Next]_vars PROVE SemaphoreInv'
  OBVIOUS
<1> USE DEF SemaphoreInv
<1>1. CASE OpenFind
  BY <1>1 DEF OpenFind
<1>2. CASE OpenSem
  BY <1>2, InitSemIfNeededLive DEF OpenSem
<1>3. CASE OpenDev
  BY <1>3 DEF OpenDev
<1>4. CASE OpenIndicate
  BY <1>4 DEF OpenIndicate
<1>5. CASE CloseDev
  BY <1>5 DEF CloseDev
<1>6. CASE CloseSem
  BY <1>6 DEF CloseSem
<1>7. ASSUME NEW l \in Lens, NEW t \in Timeouts, ReadCall(l, t)
      PROVE  SemaphoreInv'
  BY <1>7 DEF ReadCall
<1>8. CASE ReadByte
  <2>1. CASE Return /\ UNCHANGED semVars
    BY <1>8, <2>1 DEF ReadByte, Return
  <2>2. CASE InitSemIfNeeded /\ pc' = "poll"
    BY <1>8, <2>2, InitSemIfNeededLive DEF ReadByte
  <2> QED BY <1>8, <2>1, <2>2 DEF ReadByte
<1>9. CASE ReadPoll
  BY <1>9 DEF ReadPoll
<1>10. CASE ReadTake
  BY <1>10 DEF ReadTake, TakeToken, TakeEmpty
<1>11. CASE ReadCheck
  BY <1>11 DEF ReadCheck, Return
<1>12. CASE UartRx
  BY <1>12 DEF UartRx, uart_input
<1>13. CASE Tick
  BY <1>13 DEF Tick
<1>14. CASE UNCHANGED vars
  BY <1>14 DEF vars
<1> QED BY <1>1, <1>2, <1>3, <1>4, <1>5, <1>6, <1>7, <1>8, <1>9, <1>10, <1>11,
           <1>12, <1>13, <1>14 DEF Next, Client, ReadStep

LEMMA SemaphoreInvariant == Spec => []SemaphoreInv
<1>1. Init => SemaphoreInv
  BY DEF Init, SemaphoreInv
<1> QED BY <1>1, TypeCorrect, SemaphoreStep, PTL DEF Spec, TypeOK

\* uart_input, rt_sem_take and rt_sem_detach only ever meet an initialised
\* semaphore, across any number of openings, closings and late reads.
THEOREM SemaphoreIsLive == Spec => []SemaphoreLive
<1>1. SemaphoreInv => SemaphoreLive
  BY DEF SemaphoreInv, SemaphoreLive
<1> QED BY <1>1, SemaphoreInvariant, PTL
-----------------------------------------------------------------------------
\* No wakeup is lost.

LEMMA WakeupStep ==
    DataOK /\ SemaphoreInv /\ WakeupInv /\ [Next]_vars => WakeupInv'
<1> SUFFICES ASSUME DataOK, SemaphoreInv, WakeupInv, [Next]_vars PROVE WakeupInv'
  OBVIOUS
<1> USE DEF WakeupInv
<1>1. CASE OpenFind
  BY <1>1 DEF OpenFind
<1>2. CASE OpenSem
  BY <1>2 DEF OpenSem
<1>3. CASE OpenDev
  BY <1>3 DEF OpenDev, SemaphoreInv
<1>4. CASE OpenIndicate
  BY <1>4 DEF OpenIndicate
<1>5. CASE CloseDev
  BY <1>5 DEF CloseDev
<1>6. CASE CloseSem
  BY <1>6 DEF CloseSem
<1>7. ASSUME NEW l \in Lens, NEW t \in Timeouts, ReadCall(l, t) PROVE WakeupInv'
  BY <1>7 DEF ReadCall
<1>8. CASE ReadByte
  BY <1>8 DEF ReadByte, Return
<1>9. CASE ReadPoll
  \* the poll fails only on an empty ring, or on a closed device's, also empty
  <2>1. CASE devOpen /\ fifo # <<>>
    BY <1>9, <2>1 DEF ReadPoll
  <2>2. CASE ~(devOpen /\ fifo # <<>>)
    <3>1. fifo = <<>> /\ fifo' = <<>>
      BY <1>9, <2>2 DEF ReadPoll
    <3> QED BY <1>9, <2>2, <3>1 DEF ReadPoll
  <2> QED BY <2>1, <2>2
<1>10. CASE ReadTake
  <2>1. CASE TakeToken
    BY <1>10, <2>1 DEF ReadTake, TakeToken
  <2>2. CASE TakeEmpty(Quarter(timeout))
    \* no token, so no byte came since the poll
    <3>1. fifo = <<>>
      BY <1>10, <2>2 DEF ReadTake, TakeEmpty, DataOK
    <3> QED BY <1>10, <2>2, <3>1 DEF ReadTake, TakeEmpty
  <2> QED BY <1>10, <2>1, <2>2 DEF ReadTake
<1>11. CASE ReadCheck
  BY <1>11 DEF ReadCheck, Return
<1>12. CASE UartRx
  \* a byte that comes while a read is on finds uart_input registered
  <2>1. devOpen' /\ (devOpen /\ opened => rx_indicate)'
    BY <1>12 DEF UartRx
  <2>2. CASE rx_indicate
    <3>1. CASE pc = "blocked"
      BY <1>12, <2>2, <3>1, <2>1 DEF UartRx, uart_input
    <3>2. CASE pc # "blocked"
      <4>1. semValue' > 0 /\ pc' = pc
        BY <1>12, <2>2, <3>2, SizeAssumption DEF UartRx, uart_input, DataOK
      <4> QED BY <2>1, <3>2, <4>1
    <3> QED BY <3>1, <3>2
  <2>3. CASE ~rx_indicate
    BY <1>12, <2>1, <2>3 DEF UartRx, SemaphoreInv
  <2> QED BY <2>2, <2>3
<1>13. CASE Tick
  BY <1>13 DEF Tick
<1>14. CASE UNCHANGED vars
  BY <1>14 DEF vars
<1> QED BY <1>1, <1>2, <1>3, <1>4, <1>5, <1>6, <1>7, <1>8, <1>9, <1>10, <1>11,
           <1>12, <1>13, <1>14 DEF Next, Client, ReadStep

\* A reader blocked in rt_sem_take has an empty ring: the byte that arrives
\* between rt_device_read and rt_sem_take always leaves a token.
THEOREM NoWakeupIsLost == Spec => []NoLostWakeup
<1>1. Init => WakeupInv
  BY DEF Init, WakeupInv
<1>2. WakeupInv => NoLostWakeup
  BY DEF WakeupInv, NoLostWakeup
<1> QED BY <1>1, <1>2, TypeCorrect, SemaphoreInvariant, WakeupStep, PTL
        DEF Spec, TypeOK
-----------------------------------------------------------------------------
\* No byte is made up, duplicated or silently forgotten.

LEMMA AppendLen ==
    ASSUME NEW S, NEW s \in Seq(S), NEW e PROVE Len(Append(s, e)) = Len(s) + 1
OBVIOUS

LEMMA TailLen ==
    ASSUME NEW S, NEW s \in Seq(S), s # <<>>
    PROVE  Tail(s) \in Seq(S) /\ Len(Tail(s)) = Len(s) - 1
OBVIOUS

\* The driver's ring grows by one byte until it is full.
LEMMA StoredLen ==
    ASSUME DataOK, NEW b
    PROVE  Len(Stored(b)) = IF Len(fifo) = FifoSize THEN Len(fifo) ELSE Len(fifo) + 1
<1>1. CASE Len(fifo) = FifoSize
  <2>1. fifo # <<>>
    BY <1>1, SizeAssumption
  <2>2. Tail(fifo) \in Seq(1..MaxBytes) /\ Len(Tail(fifo)) = Len(fifo) - 1
    BY <2>1, TailLen DEF DataOK
  <2> QED BY <1>1, <2>2, AppendLen, SizeAssumption DEF Stored
<1>2. CASE Len(fifo) # FifoSize
  BY <1>2, AppendLen DEF Stored, DataOK
<1> QED BY <1>1, <1>2

LEMMA ConservationStep ==
    DataOK /\ ByteConservation /\ [Next]_vars => ByteConservation'
<1> SUFFICES ASSUME DataOK, ByteConservation, [Next]_vars
             PROVE  ByteConservation'
  OBVIOUS
<1> USE DEF DataOK
<1>a. Len(delivered) + Len(buf) + Len(fifo) + lost = arrived
  BY DEF ByteConservation, Stream!Accounted
<1>b. DataOK'
  BY DataStep
<1> SUFFICES Len(delivered') + Len(buf') + Len(fifo') + lost' = arrived'
  BY <1>b DEF ByteConservation, Stream!Accounted
<1>1. CASE OpenFind \/ OpenSem \/ OpenDev \/ OpenIndicate \/ CloseSem \/ Tick
  BY <1>a, <1>1 DEF OpenFind, OpenSem, OpenDev, OpenIndicate, CloseSem, Tick
<1>2. CASE CloseDev
  BY <1>a, <1>2 DEF CloseDev
<1>3. ASSUME NEW l \in Lens, NEW t \in Timeouts, ReadCall(l, t)
      PROVE  Len(delivered') + Len(buf') + Len(fifo') + lost' = arrived'
  BY <1>a, <1>3 DEF ReadCall
<1>4. CASE ReadByte \/ ReadCheck \/ ReadTake
  <2>1. CASE Return
    BY <1>a, <1>4, <2>1 DEF ReadByte, ReadCheck, ReadTake, Return
  <2>2. CASE UNCHANGED <<buf, delivered>>
    BY <1>a, <1>4, <2>2 DEF ReadByte, ReadCheck, ReadTake
  <2> QED BY <1>4, <2>1, <2>2 DEF ReadByte, ReadCheck, ReadTake
<1>5. CASE ReadPoll
  <2>1. CASE devOpen /\ fifo # <<>>
    <3>1. buf' = Append(buf, Head(fifo)) /\ fifo' = Tail(fifo)
      BY <1>5, <2>1 DEF ReadPoll
    <3>2. Len(buf') = Len(buf) + 1 /\ Len(fifo') = Len(fifo) - 1
      BY <2>1, <3>1, AppendLen, TailLen
    <3>3. UNCHANGED <<delivered, arrived, lost>>
      BY <1>5 DEF ReadPoll
    <3>4. /\ Len(delivered) \in Nat /\ Len(buf) \in Nat /\ Len(fifo) \in Nat
          /\ lost \in Nat
      OBVIOUS
    <3> HIDE DEF DataOK
    <3> QED BY <1>a, <3>2, <3>3, <3>4
  <2>2. CASE ~(devOpen /\ fifo # <<>>)
    BY <1>a, <1>5, <2>2 DEF ReadPoll
  <2> QED BY <2>1, <2>2
<1>6. CASE UartRx
  <2>1. CASE Len(fifo) = FifoSize
    <3>1. Len(fifo') = Len(fifo) /\ lost' = lost + 1
      BY <1>6, <2>1, StoredLen DEF UartRx
    <3> QED BY <1>a, <1>6, <3>1 DEF UartRx
  <2>2. CASE Len(fifo) # FifoSize
    <3>1. Len(fifo') = Len(fifo) + 1 /\ lost' = lost
      BY <1>6, <2>2, StoredLen DEF UartRx
    <3> QED BY <1>a, <1>6, <3>1 DEF UartRx
  <2> QED BY <2>1, <2>2
<1>7. CASE UNCHANGED vars
  BY <1>a, <1>7 DEF vars
<1> QED BY <1>1, <1>2, <1>3, <1>4, <1>5, <1>6, <1>7 DEF Next, Client, ReadStep

\* Every byte that reached the UART is read, readable or counted as dropped by
\* the driver, also when reads time out half way and the device is closed.
THEOREM BytesAreConserved == Spec => []ByteConservation
<1>1. Init => ByteConservation
  BY DEF Init, ByteConservation, Stream!Accounted
<1> QED BY <1>1, TypeCorrect, ConservationStep, PTL DEF Spec, TypeOK
-----------------------------------------------------------------------------
\* Reads meet their deadline.

LEMMA QuarterNat ==
    ASSUME NEW t \in Nat PROVE Quarter(t) = t \div 4 /\ t \div 4 \in Nat
BY DEF Quarter

LEMMA LocalsStep == DataOK /\ LocalsInv /\ [Next]_vars => LocalsInv'
<1> SUFFICES ASSUME DataOK, LocalsInv, [Next]_vars PROVE LocalsInv'
  OBVIOUS
<1> USE DEF LocalsInv, Reading, Running
<1>1. CASE OpenFind \/ OpenSem \/ OpenDev \/ OpenIndicate \/ CloseDev \/ CloseSem
  BY <1>1 DEF OpenFind, OpenSem, OpenDev, OpenIndicate, CloseDev, CloseSem
<1>2. ASSUME NEW l \in Lens, NEW t \in Timeouts, ReadCall(l, t) PROVE LocalsInv'
  BY <1>2, ReadAssumption DEF ReadCall
<1>3. CASE ReadByte
  BY <1>3 DEF ReadByte, Return
<1>4. CASE ReadPoll
  <2>1. CASE devOpen /\ fifo # <<>>
    <3>1. buf' = Append(buf, Head(fifo)) /\ pc' = "byte"
      BY <1>4, <2>1 DEF ReadPoll
    <3>2. Len(buf') = Len(buf) + 1
      BY <3>1, AppendLen DEF DataOK
    <3>3. len \in Nat /\ Len(buf) \in Nat /\ Len(buf) < len
      BY <1>4 DEF ReadPoll, DataOK
    <3>4. Len(buf') <= len
      BY <3>2, <3>3
    <3> QED BY <1>4, <3>1, <3>4 DEF ReadPoll
  <2>2. CASE ~(devOpen /\ fifo # <<>>)
    BY <1>4, <2>2 DEF ReadPoll
  <2> QED BY <2>1, <2>2
<1>5. CASE ReadTake
  <2>1. CASE TakeToken
    BY <1>5, <2>1 DEF ReadTake, TakeToken
  <2>2. CASE TakeEmpty(Quarter(timeout))
    <3>1. CASE Quarter(timeout) = 0
      BY <1>5, <2>2, <3>1 DEF ReadTake, TakeEmpty
    <3>2. CASE Quarter(timeout) # 0
      <4>1. pc' = "blocked" /\ wait' = Quarter(timeout) /\ late' = 0
        BY <1>5, <2>2, <3>2 DEF ReadTake, TakeEmpty
      <4>2. ASSUME timeout >= 0 PROVE wait' \in 1..(timeout \div 4)
        <5>1. timeout \in Nat
          BY <4>2 DEF DataOK
        <5>2. Quarter(timeout) = timeout \div 4 /\ timeout \div 4 \in Nat
          BY <5>1, QuarterNat
        <5> QED BY <3>2, <4>1, <5>2
      <4> QED BY <1>5, <4>1, <4>2 DEF ReadTake
    <3> QED BY <3>1, <3>2
  <2> QED BY <1>5, <2>1, <2>2 DEF ReadTake
<1>6. CASE ReadCheck
  BY <1>6 DEF ReadCheck, Return
<1>7. CASE UartRx
  BY <1>7 DEF UartRx, uart_input
<1>8. CASE Tick
  <2>1. CASE pc = "blocked" /\ wait > 0
    <3>1. wait' = wait - 1 /\ pc' = (IF wait = 1 THEN "check" ELSE pc) /\ late' = late
      BY <1>8, <2>1 DEF Tick
    <3>2. pc' = "blocked" /\ timeout >= 0 => wait' \in 1..(timeout \div 4)
      BY <2>1, <3>1, QuarterNat DEF DataOK
    <3> QED BY <1>8, <2>1, <3>1, <3>2 DEF Tick
  <2>2. CASE ~(pc = "blocked" /\ wait > 0)
    BY <1>8, <2>2 DEF Tick
  <2> QED BY <2>1, <2>2
<1>9. CASE UNCHANGED vars
  BY <1>9 DEF vars
<1> QED BY <1>1, <1>2, <1>3, <1>4, <1>5, <1>6, <1>7, <1>8, <1>9
        DEF Next, Client, ReadStep

LEMMA ModSmall == ASSUME NEW N \in Nat \ {0}, NEW x \in 0..N-1 PROVE x % N = x
OBVIOUS

LEMMA ModNegative ==
    ASSUME NEW N \in Nat \ {0}, NEW x \in (-N)..(-1) PROVE x % N = x + N
OBVIOUS

LEMMA ModSelf == ASSUME NEW N \in Nat \ {0} PROVE N % N = 0
OBVIOUS

\* Unsigned subtraction of tick counts is right across the wrap of the counter,
\* as long as less than a whole turn has passed.
LEMMA ElapsedOneMore ==
    ASSUME NEW N \in Nat \ {0}, NEW t \in 0..N-1, NEW s \in 0..N-1,
           ((t - s) % N) + 1 < N
    PROVE  (((t + 1) % N) - s) % N = ((t - s) % N) + 1
<1>1. CASE t >= s
  <2>1. (t - s) % N = t - s
    BY <1>1, ModSmall
  <2>2. CASE t + 1 < N
    <3>1. (t + 1) % N = t + 1
      BY <2>2, ModSmall
    <3> QED BY <1>1, <2>1, <2>2, <3>1, ModSmall
  <2>3. CASE t + 1 = N
    <3>1. (t + 1) % N = 0 /\ s # 0
      BY <1>1, <2>1, <2>3, ModSelf
    <3>2. (0 - s) % N = N - s
      BY <3>1, ModNegative
    <3> QED BY <2>1, <2>3, <3>1, <3>2
  <2> QED BY <2>2, <2>3
<1>2. CASE t < s
  <2>1. (t - s) % N = t - s + N
    BY <1>2, ModNegative
  <2>2. (t + 1) % N = t + 1
    BY <1>2, ModSmall
  <2>3. t + 1 < s
    BY <1>2, <2>1
  <2>4. ((t + 1) - s) % N = (t + 1) - s + N
    BY <2>3, ModNegative
  <2> QED BY <2>1, <2>2, <2>4
<1> QED BY <1>1, <1>2

\* What a step may have used up is within the deadline.
LEMMA UsedWithinDeadline ==
    ASSUME NEW p \in Reading, NEW l \in Nat, NEW b \in Nat, NEW t \in Nat,
           NEW w \in Nat, NEW d \in 0..Lag,
           b <= l, p # "byte" => b < l
    PROVE  Used(p, b, t, w, d) \in Int /\ Used(p, b, t, w, d) <= Deadline(l, t)
<1> USE TickAssumption
<1>1. t \div 4 \in Nat
  BY QuarterNat
<1>2. Lag * (2 * l + 2) = Lag * (2 * l) + Lag + Lag
  OBVIOUS
<1>3. CASE p = "byte"
  <2>1. Lag * (2 * b) \in Nat /\ Lag * (2 * b) <= Lag * (2 * l)
    OBVIOUS
  <2> QED BY <1>1, <1>2, <1>3, <2>1 DEF Used, Deadline
<1>4. CASE p # "byte"
  <2>1. Lag * (2 * b) + Lag + Lag <= Lag * (2 * l)
    BY <1>4
  <2>2. /\ Lag * (2 * b) \in Nat
        /\ Lag * (2 * b + 1) = Lag * (2 * b) + Lag
        /\ Lag * (2 * b + 2) = Lag * (2 * b) + Lag + Lag
        /\ Lag * (2 * b + 3) = Lag * (2 * b) + Lag + Lag + Lag
    OBVIOUS
  <2> QED BY <1>1, <1>2, <1>4, <2>1, <2>2 DEF Used, Deadline, Reading, Running
<1> QED BY <1>3, <1>4

LEMMA ElapsedType ==
    ASSUME NEW t \in 0..TickMod-1, NEW s \in 0..TickMod-1
    PROVE  (t - s) % TickMod \in 0..TickMod-1
BY TickAssumption

LEMMA DeadlineStep ==
    DataOK /\ LocalsInv /\ DeadlineInv /\ [Next]_vars => DeadlineInv'
<1> SUFFICES ASSUME DataOK, LocalsInv, DeadlineInv, [Next]_vars,
                    pc' \in Reading, timeout' >= 0
             PROVE  Elapsed' <= Used(pc', Len(buf'), timeout', wait', late')
  BY DEF DeadlineInv
<1> DEFINE b == Len(buf)
           base == Lag * (2 * b)
<1>a. DataOK' /\ LocalsInv'
  BY DataStep, LocalsStep
<1>b. b \in Nat /\ Lag \in Nat /\ late \in 0..Lag /\ timeout \in Int /\ wait \in Int
  BY TickAssumption DEF DataOK
<1>c. /\ base \in Nat
      /\ Lag * (2 * b + 1) = base + Lag
      /\ Lag * (2 * b + 2) = base + Lag + Lag
      /\ Lag * (2 * b + 3) = base + Lag + Lag + Lag
      /\ Lag * (2 * (b + 1)) = base + Lag + Lag
  BY <1>b
<1>d. Elapsed \in 0..TickMod-1
  BY ElapsedType DEF DataOK, Elapsed
<1>e. ASSUME UNCHANGED <<tick, start>> PROVE Elapsed' = Elapsed
  BY <1>e DEF Elapsed
<1>f. ASSUME pc \in Reading, timeout >= 0
      PROVE  /\ Elapsed <= Used(pc, b, timeout, wait, late)
             /\ timeout \div 4 \in Nat
  BY <1>b, <1>f, QuarterNat DEF DeadlineInv
<1> HIDE DEF b, base
<1>1. CASE OpenFind \/ OpenSem \/ OpenDev \/ OpenIndicate \/ CloseDev \/ CloseSem
  BY <1>1 DEF OpenFind, OpenSem, OpenDev, OpenIndicate, CloseDev, CloseSem,
              Reading, Running, LocalsInv
<1>2. ASSUME NEW l \in Lens, NEW t \in Timeouts, ReadCall(l, t)
      PROVE  Elapsed' <= Used(pc', Len(buf'), timeout', wait', late')
  <2>1. Elapsed' = 0
    BY <1>2, ModSmall, TickAssumption DEF ReadCall, Elapsed, DataOK
  <2>2. buf' = <<>> /\ late' = 0 /\ pc' = "byte" /\ timeout' = t /\ t \in Nat
    BY <1>2, ReadAssumption DEF ReadCall, LocalsInv, Reading, Running
  <2>3. Used(pc', Len(buf'), timeout', wait', late') = t + Lag * (2 * 0) + 0
    BY <2>2 DEF Used
  <2> QED BY <1>b, <2>1, <2>2, <2>3
<1>3. CASE ReadByte
  <2>1. pc = "byte" /\ pc' = "poll" /\ late' = 0 /\ UNCHANGED <<buf, timeout, wait>>
    BY <1>3 DEF ReadByte, Return, Reading, Running
  <2>2. Elapsed' = Elapsed
    BY <1>3, <1>e DEF ReadByte, Return, Reading, Running
  <2>3. Elapsed <= timeout + base + late
    BY <1>f, <2>1 DEF Used, Reading, Running, base
  <2>4. Used(pc', Len(buf'), timeout', wait', late') = timeout + (base + Lag) + 0
    BY <1>c, <2>1 DEF Used, b
  <2> QED BY <1>b, <1>c, <1>d, <2>2, <2>3, <2>4
<1>4. CASE ReadPoll
  <2>1. pc = "poll" /\ late' = 0 /\ UNCHANGED <<timeout, wait>> /\ Elapsed' = Elapsed
    BY <1>4, <1>e DEF ReadPoll
  <2>2. Elapsed <= timeout + (base + Lag) + late
    BY <1>c, <1>f, <2>1 DEF Used, Reading, Running
  <2>3. CASE devOpen /\ fifo # <<>>
    <3>1. pc' = "byte" /\ Len(buf') = b + 1
      BY <1>4, <2>3, AppendLen DEF ReadPoll, DataOK, b
    <3>2. Used(pc', Len(buf'), timeout', wait', late') = timeout + (base + Lag + Lag) + 0
      BY <1>c, <2>1, <3>1 DEF Used
    <3> QED BY <1>b, <1>c, <1>d, <2>1, <2>2, <3>2
  <2>4. CASE ~(devOpen /\ fifo # <<>>)
    <3>1. pc' = "take" /\ Len(buf') = b
      BY <1>4, <2>4 DEF ReadPoll, b
    <3>2. Used(pc', Len(buf'), timeout', wait', late') = timeout + (base + Lag + Lag) + 0
      BY <1>c, <2>1, <3>1 DEF Used
    <3> QED BY <1>b, <1>c, <1>d, <2>1, <2>2, <3>2
  <2> QED BY <2>3, <2>4
<1>5. CASE ReadTake
  <2>1. /\ pc = "take" /\ late' = 0 /\ UNCHANGED <<timeout, buf>>
        /\ Elapsed' = Elapsed /\ Len(buf') = b
    BY <1>5, <1>e DEF ReadTake, b
  <2>2. Elapsed <= timeout + (base + Lag + Lag) + late /\ timeout \div 4 \in Nat
    BY <1>c, <1>f, <2>1 DEF Used, Reading, Running
  <2>3. CASE pc' = "check"
    <3>1. Used(pc', Len(buf'), timeout', wait', late')
            = timeout + (base + Lag + Lag + Lag) + timeout \div 4 + 0
      BY <1>c, <2>1, <2>3 DEF Used
    <3> QED BY <1>b, <1>c, <1>d, <2>1, <2>2, <3>1
  <2>4. CASE pc' = "blocked"
    <3>1. wait' = timeout \div 4
      BY <1>5, <1>b, <2>1, <2>4, QuarterNat DEF ReadTake, TakeToken, TakeEmpty
    <3>2. Used(pc', Len(buf'), timeout', wait', late')
            = timeout + (base + Lag + Lag + Lag) + timeout \div 4 - timeout \div 4
      BY <1>c, <2>1, <2>4, <3>1 DEF Used
    <3> QED BY <1>b, <1>c, <1>d, <2>1, <2>2, <3>2
  <2> QED BY <1>5, <2>3, <2>4 DEF ReadTake, TakeToken, TakeEmpty
<1>6. CASE ReadCheck
  <2>1. /\ pc' = "poll" /\ late' = 0 /\ UNCHANGED <<timeout, buf>> /\ Elapsed' = Elapsed
        /\ Elapsed <= timeout % TickMod /\ Len(buf') = b
    <3>1. ~Return
      BY DEF Return, Reading, Running
    <3>2. ~(Elapsed > timeout % TickMod)
      BY <1>6, <3>1 DEF ReadCheck
    <3> QED BY <1>6, <1>b, <1>d, <1>e, <3>2, TickAssumption DEF ReadCheck, b
  <2>2. timeout \in Nat /\ timeout < TickMod
    <3>1. pc = "check" /\ timeout >= 0
      BY <1>6, <2>1 DEF ReadCheck
    <3>a. len \in Lens /\ timeout \in Timeouts
      BY <3>1 DEF LocalsInv, Reading, Running
    <3>2. len \in Lens /\ timeout \in Timeouts /\ timeout \in Nat /\ len \in Nat
      BY <1>b, <3>1, <3>a DEF DataOK
    <3>3. Deadline(len, timeout) < TickMod
      BY <3>2, TickAssumption
    <3>4. timeout \div 4 \in Nat /\ Lag * (2 * len + 2) \in Nat
      BY <1>b, <3>2, QuarterNat
    <3> QED BY <3>2, <3>3, <3>4, TickAssumption DEF Deadline
  <2>3. timeout % TickMod = timeout
    BY <2>2, ModSmall, TickAssumption
  <2>4. Used(pc', Len(buf'), timeout', wait', late') = timeout + (base + Lag) + 0
    BY <1>c, <2>1 DEF Used
  <2> QED BY <1>b, <1>c, <1>d, <2>1, <2>2, <2>3, <2>4
<1>7. CASE UartRx
  <2>1. Elapsed' = Elapsed /\ UNCHANGED <<timeout, buf, wait, late>>
    BY <1>7, <1>e DEF UartRx
  <2>2. CASE pc' = pc
    BY <1>f, <2>1, <2>2 DEF b
  <2>3. CASE pc' # pc
    <3>1. pc = "blocked" /\ pc' = "check"
      BY <1>7, <2>3 DEF UartRx, uart_input
    <3>2. late = 0 /\ wait >= 1
      BY <1>b, <2>1, <3>1 DEF LocalsInv
    <3>3. Elapsed <= timeout + (base + Lag + Lag + Lag) + timeout \div 4 - wait
          /\ timeout \div 4 \in Nat
      BY <1>c, <1>f, <2>1, <3>1 DEF Used, Reading, Running
    <3>4. Used(pc', Len(buf'), timeout', wait', late')
            = timeout + (base + Lag + Lag + Lag) + timeout \div 4 + 0
      BY <1>c, <2>1, <3>1, <3>2 DEF Used, b
    <3> QED BY <1>b, <1>c, <1>d, <2>1, <3>2, <3>3, <3>4
  <2> QED BY <2>2, <2>3
<1>8. CASE Tick
  \* one tick later the bound has grown by one as well, and is within the deadline
  <2> DEFINE U == Used(pc, b, timeout, wait, late)
             V == Used(pc', b, timeout, wait', late')
  <2>1. UNCHANGED <<timeout, buf, len, start>> /\ pc \in Reading /\ timeout >= 0
    BY <1>8 DEF Tick, Reading, Running
  <2>2. V = U + 1 /\ wait' \in Int
    <3>1. CASE pc = "blocked"
      <4>1. late = 0 /\ late' = 0 /\ wait >= 1 /\ wait' = wait - 1
            /\ pc' = (IF wait = 1 THEN "check" ELSE pc)
        BY <1>8, <1>b, <2>1, <3>1 DEF Tick, LocalsInv, Running
      <4>2. U = timeout + (base + Lag + Lag + Lag) + timeout \div 4 - wait
        BY <1>c, <3>1 DEF Used
      <4>3. CASE wait = 1
        <5>1. V = timeout + (base + Lag + Lag + Lag) + timeout \div 4 + 0
          BY <1>c, <4>1, <4>3 DEF Used
        <5> QED BY <1>b, <1>c, <1>f, <2>1, <4>1, <4>2, <4>3, <5>1
      <4>4. CASE wait # 1
        <5>1. V = timeout + (base + Lag + Lag + Lag) + timeout \div 4 - (wait - 1)
          BY <1>c, <3>1, <4>1, <4>4 DEF Used
        <5> QED BY <1>b, <1>c, <1>f, <2>1, <4>1, <4>2, <5>1
      <4> QED BY <4>3, <4>4
    <3>2. CASE pc \in Running
      <4>1. late' = late + 1 /\ UNCHANGED <<pc, wait>>
        BY <1>8, <3>2 DEF Tick, Running
      <4>2. timeout \div 4 \in Int
        BY <1>f, <2>1
      <4> QED BY <1>b, <1>c, <3>2, <4>1, <4>2 DEF Used, Running
    <3> QED BY <2>1, <3>1, <3>2 DEF Reading
  <2>3. V \in Int /\ V <= Deadline(len, timeout)
    <3>1. late' \in 0..Lag /\ Len(buf') = b /\ timeout \in Nat /\ len \in Nat
      BY <1>a, <1>b, <2>1 DEF DataOK, b
    <3>2. b <= len /\ (pc' # "byte" => b < len)
      BY <1>a, <2>1, <3>1 DEF LocalsInv
    <3>3. CASE pc' = "blocked"
      <4>1. wait' \in Nat
        BY <1>a, <2>1, <2>2, <3>3, QuarterNat, <1>b DEF LocalsInv
      <4> QED BY <1>b, <3>1, <3>2, <4>1, UsedWithinDeadline
    <3>4. CASE pc' # "blocked"
      <4>1. V = Used(pc', b, timeout, 0, late')
        BY <3>4 DEF Used, Reading, Running
      <4> QED BY <1>b, <3>1, <3>2, <4>1, UsedWithinDeadline
    <3> QED BY <3>3, <3>4
  <2>4. Deadline(len, timeout) < TickMod
    BY <2>1, TickAssumption DEF LocalsInv
  <2>5. U \in Int /\ Elapsed <= U
    <3>1. U \in Int
      BY <1>b, <1>c, <1>f, <2>1 DEF Used, Reading, Running
    <3> QED BY <1>f, <2>1, <3>1
  <2> HIDE DEF U, V
  <2>6. Deadline(len, timeout) \in Int
    BY <1>b, <2>1, QuarterNat DEF Deadline, DataOK
  <2>7. Elapsed + 1 < TickMod
    BY <1>d, <2>2, <2>3, <2>4, <2>5, <2>6, TickAssumption
  <2>8. Elapsed' = Elapsed + 1
    <3>1. tick' = (tick + 1) % TickMod /\ tick \in 0..TickMod-1 /\ start \in 0..TickMod-1
      BY <1>8 DEF Tick, DataOK
    <3> QED BY <2>1, <2>7, <3>1, ElapsedOneMore, TickAssumption DEF Elapsed
  <2>9. Used(pc', Len(buf'), timeout', wait', late') = V
    BY <2>1 DEF V, b
  <2> QED BY <1>d, <2>2, <2>5, <2>8, <2>9
<1>9. CASE UNCHANGED vars
  BY <1>9, <1>e, <1>f DEF vars, b
<1> QED BY <1>1, <1>2, <1>3, <1>4, <1>5, <1>6, <1>7, <1>8, <1>9
        DEF Next, Client, ReadStep

\* A read with a timeout is over by its deadline, across the wrap of the tick
\* counter and however many bytes trickle in.
THEOREM ReadsAreBounded == Spec => []ReadBounded
<1>1. Init => LocalsInv /\ DeadlineInv
  BY DEF Init, LocalsInv, DeadlineInv, Reading, Running
<1>2. DataOK /\ LocalsInv /\ DeadlineInv => ReadBounded
  <2> SUFFICES ASSUME DataOK, LocalsInv, DeadlineInv, pc \in Reading, timeout >= 0
               PROVE  Elapsed <= Deadline(len, timeout)
    BY DEF ReadBounded
  <2> DEFINE w == IF pc = "blocked" THEN wait ELSE 0
  <2>1. /\ Len(buf) \in Nat /\ len \in Nat /\ timeout \in Nat /\ late \in 0..Lag
        /\ Len(buf) <= len /\ (pc # "byte" => Len(buf) < len)
    BY DEF DataOK, LocalsInv
  <2>2. w \in Nat
    BY <2>1, QuarterNat DEF LocalsInv
  <2>3. Used(pc, Len(buf), timeout, wait, late) = Used(pc, Len(buf), timeout, w, late)
    BY DEF Used, Reading, Running
  <2> HIDE DEF w
  <2>4. /\ Used(pc, Len(buf), timeout, w, late) \in Int
        /\ Used(pc, Len(buf), timeout, w, late) <= Deadline(len, timeout)
    BY <2>1, <2>2, UsedWithinDeadline
  <2>5. Elapsed \in Int /\ Deadline(len, timeout) \in Int
    BY <2>1, ElapsedType, QuarterNat, TickAssumption DEF DataOK, Elapsed, Deadline
  <2> QED BY <2>3, <2>4, <2>5 DEF DeadlineInv
<1> QED BY <1>1, <1>2, TypeCorrect, LocalsStep, DeadlineStep, PTL DEF Spec, TypeOK
-----------------------------------------------------------------------------
\* Bytes keep their order: every step is one of the byte stream's, and these keep it.

\* Moving the first byte of t to the end of s changes nothing of s \o t.
LEMMA MoveHead ==
    ASSUME NEW S, NEW s \in Seq(S), NEW t \in Seq(S), t # <<>>
    PROVE  Append(s, Head(t)) \o Tail(t) = s \o t
OBVIOUS

\* Dropping the first byte of t from s \o t.
LEMMA DropFirst ==
    ASSUME NEW S, NEW s \in Seq(S), NEW t \in Seq(S), t # <<>>
    PROVE  /\ SubSeq(s \o t, 1, Len(s)) = s
           /\ SubSeq(s \o t, Len(s) + 2, Len(s \o t)) = Tail(t)
OBVIOUS

LEMMA AppendLast ==
    ASSUME NEW S, NEW s \in Seq(S), NEW t \in Seq(S), NEW b \in S
    PROVE  /\ s \o Append(t, b) = (s \o t) \o <<b>>
           /\ Append(s \o t, b) = s \o (t \o <<b>>)
<1>1. s \o Append(t, b) = (s \o t) \o <<b>>
  OBVIOUS
<1>2. Append(t, b) = t \o <<b>> /\ Append(s \o t, b) = (s \o t) \o <<b>>
  OBVIOUS
<1> QED BY <1>1, <1>2

LEMMA ConcatAppend ==
    ASSUME NEW S, NEW s \in Seq(S), NEW t \in Seq(S), NEW b \in S
    PROVE  s \o Append(t, b) = Append(s \o t, b)
OBVIOUS

LEMMA Split ==
    ASSUME NEW S, NEW s \in Seq(S), NEW t \in Seq(S)
    PROVE  /\ SubSeq(s \o t, 1, Len(s)) = s
           /\ SubSeq(s \o t, Len(s) + 1, Len(s \o t)) = t
OBVIOUS

LEMMA StreamInit == Init => Stream!Init
BY DEF Init, Stream!Init

\* A read that returns delivers the bytes it has stored.
LEMMA ReturnDelivers ==
    ASSUME DataOK, Return, UNCHANGED <<fifo, arrived, lost>>
    PROVE  Stream!Deliver
<1> DEFINE n == Len(buf)
           p == buf \o fifo
<1>1. n \in 0..Len(p)
  BY DEF DataOK
<1>2. SubSeq(p, 1, n) = buf /\ SubSeq(p, n + 1, Len(p)) = fifo
  BY Split DEF DataOK
<1>3. (buf \o fifo)' = fifo
  BY DEF Return, DataOK
<1>4. delivered' = delivered \o buf
  BY DEF Return
<1> HIDE DEF n, p
<1>5. /\ delivered' = delivered \o SubSeq(p, 1, n)
      /\ (buf \o fifo)' = SubSeq(p, n + 1, Len(p))
  BY <1>2, <1>3, <1>4
<1> QED BY <1>1, <1>5 DEF Stream!Deliver, n, p

\* The receive interrupt is the arrival of a byte, for which the ring may drop
\* its oldest, the one after those the current read has stored.
LEMMA UartRxArrives ==
    ASSUME DataOK, UartRx
    PROVE  Stream!Arrive
<1> DEFINE a == arrived + 1
           p == buf \o fifo
<1>0. /\ arrived < MaxBytes /\ arrived' = a /\ fifo' = Stored(a)
      /\ UNCHANGED <<buf, delivered>>
      /\ lost' = IF Len(fifo) = FifoSize THEN lost + 1 ELSE lost
  BY DEF UartRx
<1>a. a \in 1..MaxBytes
  BY <1>0, BoundAssumption DEF DataOK
<1>1. CASE Len(fifo) = FifoSize
  <2>1. fifo # <<>>
    BY <1>1, SizeAssumption
  <2>2. (buf \o fifo)' = buf \o Append(Tail(fifo), a) /\ lost' = lost + 1
    BY <1>0, <1>1 DEF Stored
  <2>3. (buf \o fifo)' = SubSeq(p, 1, Len(buf)) \o SubSeq(p, Len(buf) + 2, Len(p)) \o <<a>>
    <3>1. buf \in Seq(1..MaxBytes) /\ fifo \in Seq(1..MaxBytes)
      BY DEF DataOK
    <3> HIDE DEF a
    <3>2. buf \o Append(Tail(fifo), a)
          = SubSeq(p, 1, Len(buf)) \o SubSeq(p, Len(buf) + 2, Len(p)) \o <<a>>
      <4>1. SubSeq(p, 1, Len(buf)) = buf /\ SubSeq(p, Len(buf) + 2, Len(p)) = Tail(fifo)
        BY <2>1, <3>1, DropFirst
      <4>2. Tail(fifo) \in Seq(1..MaxBytes)
        BY <2>1, <3>1
      <4>3. buf \o Append(Tail(fifo), a) = (buf \o Tail(fifo)) \o <<a>>
        BY <1>a, <3>1, <4>2, AppendLast
      <4> QED BY <4>1, <4>3
    <3> QED BY <2>2, <3>2
  <2> DEFINE k == Len(buf) + 1
  <2>4. k \in 1..Len(p) /\ k - 1 = Len(buf) /\ k + 1 = Len(buf) + 2
    BY <2>1 DEF DataOK
  <2>5. (buf \o fifo)' = SubSeq(p, 1, k - 1) \o SubSeq(p, k + 1, Len(p)) \o <<a>>
    BY <2>3, <2>4
  <2> HIDE DEF k
  <2> QED BY <1>0, <2>2, <2>4, <2>5 DEF Stream!Arrive
<1>2. CASE Len(fifo) # FifoSize
  <2>1. (buf \o fifo)' = Append(buf \o fifo, a) /\ lost' = lost
    BY <1>0, <1>2, <1>a, ConcatAppend DEF Stored, DataOK
  <2> QED BY <1>0, <2>1 DEF Stream!Arrive
<1> QED BY <1>1, <1>2

LEMMA StreamStep ==
    DataOK /\ LocalsInv /\ [Next]_vars => [Stream!Next]_Stream!vars
<1> SUFFICES ASSUME DataOK, LocalsInv, [Next]_vars
             PROVE  [Stream!Next]_Stream!vars
  OBVIOUS
<1>s. ASSUME UNCHANGED <<buf, fifo, delivered, arrived, lost>>
      PROVE  UNCHANGED Stream!vars
  BY <1>s DEF Stream!vars
<1>1. CASE OpenFind \/ OpenSem \/ OpenDev \/ OpenIndicate \/ CloseSem \/ Tick
  BY <1>s, <1>1 DEF OpenFind, OpenSem, OpenDev, OpenIndicate, CloseSem, Tick
<1>2. CASE CloseDev
  \* no read is on, so what is pending is what the ring holds
  <2>1. buf = <<>> /\ buf' = <<>> /\ fifo' = <<>> /\ lost' = lost + Len(fifo)
        /\ UNCHANGED <<delivered, arrived>>
    BY <1>2 DEF CloseDev, LocalsInv, Reading, Running
  <2>2. buf \o fifo = fifo /\ (buf \o fifo)' = <<>>
    BY <2>1 DEF DataOK
  <2> QED BY <2>1, <2>2 DEF Stream!Next, Stream!Flush
<1>3. ASSUME NEW l \in Lens, NEW t \in Timeouts, ReadCall(l, t)
      PROVE  UNCHANGED Stream!vars
  BY <1>s, <1>3 DEF ReadCall
<1>4. CASE ReadByte \/ ReadCheck \/ ReadTake
  <2>1. CASE Return
    BY <1>4, <2>1, ReturnDelivers DEF Stream!Next, ReadByte, ReadCheck, ReadTake
  <2>2. CASE UNCHANGED <<buf, delivered>>
    BY <1>s, <1>4, <2>2 DEF ReadByte, ReadCheck, ReadTake
  <2> QED BY <1>4, <2>1, <2>2 DEF ReadByte, ReadCheck, ReadTake
<1>5. CASE ReadPoll
  <2>1. CASE devOpen /\ fifo # <<>>
    <3>1. buf' = Append(buf, Head(fifo)) /\ fifo' = Tail(fifo)
          /\ UNCHANGED <<delivered, arrived, lost>>
      BY <1>5, <2>1 DEF ReadPoll
    <3>2. (buf \o fifo)' = buf \o fifo
      BY <2>1, <3>1, MoveHead DEF DataOK
    <3> QED BY <3>1, <3>2 DEF Stream!vars
  <2>2. CASE ~(devOpen /\ fifo # <<>>)
    BY <1>s, <1>5, <2>2 DEF ReadPoll
  <2> QED BY <2>1, <2>2
<1>6. CASE UartRx
  BY <1>6, UartRxArrives DEF Stream!Next
<1>7. CASE UNCHANGED vars
  BY <1>s, <1>7 DEF vars
<1> QED BY <1>1, <1>2, <1>3, <1>4, <1>5, <1>6, <1>7 DEF Next, Client, ReadStep

LEMMA LocalsInvariant == Spec => []LocalsInv
<1>1. Init => LocalsInv
  BY DEF Init, LocalsInv, Reading, Running
<1> QED BY <1>1, TypeCorrect, LocalsStep, PTL DEF Spec, TypeOK

\* The serial transport is a byte stream to its client: whatever the interrupts,
\* the timeouts and the closings do, bytes arrive, are delivered in order by the
\* read that returns, or are lost, and nothing else happens to them.
THEOREM TransportIsByteStream == Spec => ImplementsByteStream
BY StreamInit, StreamStep, TypeCorrect, LocalsInvariant, PTL
   DEF Spec, ImplementsByteStream, Stream!Spec, TypeOK

\* The byte stream's own steps keep its order.
Ascending(s, top) ==
    /\ \A i, j \in 1..Len(s) : i < j => s[i] < s[j]
    /\ \A i \in 1..Len(s) : s[i] <= top

LEMMA AppendAscends ==
    ASSUME NEW s \in Seq(Int), NEW top \in Int, Ascending(s, top)
    PROVE  Ascending(Append(s, top + 1), top + 1)
BY DEF Ascending

\* Leaving out the k-th element of an ascending sequence, or what follows it,
\* leaves it ascending.
LEMMA ThinnedAscends ==
    ASSUME NEW s \in Seq(Int), NEW top \in Int, Ascending(s, top),
           NEW r \in Seq(Int), NEW k \in Nat,
           \A i \in 1..Len(r) :
              LET m == IF i < k THEN i ELSE i + 1 IN m \in 1..Len(s) /\ r[i] = s[m]
    PROVE  Ascending(r, top)
<1>1. ASSUME NEW i \in 1..Len(r) PROVE r[i] <= top
  BY <1>1 DEF Ascending
<1>2. ASSUME NEW i \in 1..Len(r), NEW j \in 1..Len(r), i < j PROVE r[i] < r[j]
  <2> DEFINE m == IF i < k THEN i ELSE i + 1
             n == IF j < k THEN j ELSE j + 1
  <2>1. m \in 1..Len(s) /\ r[i] = s[m] /\ n \in 1..Len(s) /\ r[j] = s[n]
    OBVIOUS
  <2>2. m < n
    BY <1>2
  <2> HIDE DEF m, n
  <2> QED BY <2>1, <2>2 DEF Ascending
<1> QED BY <1>1, <1>2 DEF Ascending

\* Removing the k-th of the pending bytes p, after the delivered bytes d.
LEMMA RemovedAscends ==
    ASSUME NEW d \in Seq(Int), NEW p \in Seq(Int), NEW top \in Int,
           Ascending(d \o p, top), NEW k \in 1..Len(p), NEW u \in Seq(Int),
           Len(u) = Len(p) - 1,
           \A i \in 1..Len(u) : u[i] = IF i < k THEN p[i] ELSE p[i + 1]
    PROVE  Ascending(d \o u, top)
<1> DEFINE s == d \o p
           v == d \o u
           l == Len(d) + k
<1>1. s \in Seq(Int) /\ v \in Seq(Int) /\ l \in Nat
  OBVIOUS
<1>2. ASSUME NEW i \in 1..Len(v)
      PROVE  LET m == IF i < l THEN i ELSE i + 1 IN m \in 1..Len(s) /\ v[i] = s[m]
  <2> DEFINE j == i - Len(d)
  <2>1. CASE i <= Len(d)
    BY <2>1
  <2>2. CASE i > Len(d)
    <3>1. j \in 1..Len(u) /\ v[i] = u[j]
      BY <2>2
    <3>2. \A m \in 1..Len(p) : Len(d) + m \in 1..Len(s) /\ s[Len(d) + m] = p[m]
      OBVIOUS
    <3>3. Len(d) + j = i /\ Len(d) + (j + 1) = i + 1 /\ (j < k <=> i < l)
      OBVIOUS
    <3>4. j \in 1..Len(p) /\ j + 1 \in 1..Len(p)
      BY <3>1
    <3> HIDE DEF j, s, v, l
    <3>5. CASE j < k
      BY <3>1, <3>2, <3>3, <3>4, <3>5
    <3>6. CASE ~(j < k)
      BY <3>1, <3>2, <3>3, <3>4, <3>6
    <3> QED BY <3>5, <3>6
  <2>3. i \in Int /\ Len(d) \in Int
    OBVIOUS
  <2> HIDE DEF s, v, l, j
  <2> QED BY <2>1, <2>2, <2>3
<1> HIDE DEF s, v, l
<1>3. Ascending(v, top)
  BY <1>1, <1>2, ThinnedAscends DEF s
<1> QED BY <1>3 DEF v

LEMMA DroppedSubSeq ==
    ASSUME NEW S, NEW p \in Seq(S), NEW k \in 1..Len(p)
    PROVE  LET u == SubSeq(p, 1, k - 1) \o SubSeq(p, k + 1, Len(p))
           IN  /\ u \in Seq(S) /\ Len(u) = Len(p) - 1
               /\ \A i \in 1..Len(u) : u[i] = IF i < k THEN p[i] ELSE p[i + 1]
<1> DEFINE x == SubSeq(p, 1, k - 1)
           y == SubSeq(p, k + 1, Len(p))
<1>1. x \in Seq(S) /\ Len(x) = k - 1 /\ \A i \in 1..(k - 1) : x[i] = p[i]
  OBVIOUS
<1>2. y \in Seq(S) /\ Len(y) = Len(p) - k /\ \A i \in 1..(Len(p) - k) : y[i] = p[k + i]
  OBVIOUS
<1> HIDE DEF x, y
<1>a. Len(p) \in Nat
  OBVIOUS
<1>3. (x \o y) \in Seq(S) /\ Len(x \o y) = Len(p) - 1
  <2>1. x \o y \in Seq(S) /\ Len(x \o y) = Len(x) + Len(y)
    BY <1>1, <1>2, ConcatProperties
  <2> QED BY <1>1, <1>2, <1>a, <2>1
<1>4. ASSUME NEW i \in 1..Len(x \o y) PROVE (x \o y)[i] = IF i < k THEN p[i] ELSE p[i + 1]
  <2>1. (x \o y)[i] = IF i <= Len(x) THEN x[i] ELSE y[i - Len(x)]
    BY <1>1, <1>2, <1>3, <1>a
  <2>2. CASE i < k
    BY <1>1, <1>3, <1>a, <2>1, <2>2
  <2>3. CASE ~(i < k)
    <3>1. i - Len(x) \in 1..(Len(p) - k) /\ k + (i - Len(x)) = i + 1 /\ ~(i <= Len(x))
      BY <1>1, <1>3, <1>a, <2>3
    <3> QED BY <1>2, <2>1, <2>3, <3>1
  <2> QED BY <2>2, <2>3
<1> QED BY <1>3, <1>4 DEF x, y

LEMMA DroppedAscends ==
    ASSUME NEW d \in Seq(Int), NEW p \in Seq(Int), NEW top \in Int,
           Ascending(d \o p, top), NEW k \in 1..Len(p)
    PROVE  Ascending(d \o (SubSeq(p, 1, k - 1) \o SubSeq(p, k + 1, Len(p)) \o <<top + 1>>),
                     top + 1)
<1> DEFINE u == SubSeq(p, 1, k - 1) \o SubSeq(p, k + 1, Len(p))
<1>1. /\ u \in Seq(Int) /\ Len(u) = Len(p) - 1
      /\ \A i \in 1..Len(u) : u[i] = IF i < k THEN p[i] ELSE p[i + 1]
  BY DroppedSubSeq
<1> HIDE DEF u
<1>2. Ascending(d \o u, top)
  BY <1>1, RemovedAscends
<1>3. d \o (u \o <<top + 1>>) = Append(d \o u, top + 1)
  <2> DEFINE b == top + 1
  <2>1. b \in Int /\ u \in Seq(Int)
    BY <1>1
  <2> HIDE DEF b
  <2>2. d \o (u \o <<b>>) = Append(d \o u, b)
    BY <2>1, AppendLast
  <2> QED BY <2>2 DEF b
<1>4. d \o u \in Seq(Int)
  BY <1>1
<1>5. Ascending(d \o (u \o <<top + 1>>), top + 1)
  BY <1>2, <1>3, <1>4, AppendAscends
<1> QED BY <1>5 DEF u

LEMMA DeliveredSame ==
    ASSUME NEW S, NEW d \in Seq(S), NEW p \in Seq(S), NEW n \in 0..Len(p)
    PROVE  (d \o SubSeq(p, 1, n)) \o SubSeq(p, n + 1, Len(p)) = d \o p
<1> DEFINE x == SubSeq(p, 1, n)
           y == SubSeq(p, n + 1, Len(p))
<1>1. x \in Seq(S) /\ y \in Seq(S)
  OBVIOUS
<1>2. x \o y = p
  <2>1. 1 \in 1..Len(p)+1 /\ n \in (1-1)..Len(p) /\ Len(p) \in n..Len(p)
    OBVIOUS
  <2>2. x \o y = SubSeq(p, 1, Len(p))
    BY <2>1, ConcatAdjacentSubSeq, Zenon
  <2> QED BY <2>2, SubSeqFull
<1> HIDE DEF x, y
<1>3. (d \o x) \o y = d \o (x \o y)
  BY <1>1, ConcatAssociative
<1> QED BY <1>2, <1>3 DEF x, y

LEMMA FlushedAscends ==
    ASSUME NEW d \in Seq(Int), NEW p \in Seq(Int), NEW top \in Int,
           Ascending(d \o p, top)
    PROVE  Ascending(d \o <<>>, top)
<1>1. d \o <<>> = d
  OBVIOUS
<1>2. \A i \in 1..Len(d) : i \in 1..Len(d \o p) /\ d[i] = (d \o p)[i]
  OBVIOUS
<1> QED BY <1>1, <1>2 DEF Ascending

LEMMA OrderStep ==
    ASSUME DataOK, ByteOrder, [Stream!Next]_Stream!vars
    PROVE  ByteOrder'
<1> DEFINE p == buf \o fifo
           d == delivered
           a == arrived
<1>t. p \in Seq(Int) /\ d \in Seq(Int) /\ a \in Int
  <2>1. 1..MaxBytes \subseteq Int
    OBVIOUS
  <2>2. buf \in Seq(Int) /\ fifo \in Seq(Int) /\ d \in Seq(Int)
    BY <2>1, SeqMonotonic DEF DataOK
  <2> QED BY <2>2 DEF DataOK
<1>a. Ascending(d \o p, a)
  BY DEF ByteOrder, Stream!InOrder, Ascending
<1> SUFFICES Ascending(d' \o p', a')
  BY DEF ByteOrder, Stream!InOrder, Ascending
<1>1. CASE Stream!Arrive
  <2>1. a' = a + 1 /\ d' = d
    BY <1>1 DEF Stream!Arrive
  <2>2. CASE p' = Append(p, a + 1)
    <3> HIDE DEF p, d, a
    <3>1. d \o Append(p, a + 1) = Append(d \o p, a + 1) /\ d \o p \in Seq(Int)
      BY <1>t
    <3> QED BY <1>a, <1>t, <2>1, <2>2, <3>1, AppendAscends
  <2>3. ASSUME NEW k \in 1..Len(p),
               p' = SubSeq(p, 1, k - 1) \o SubSeq(p, k + 1, Len(p)) \o <<a + 1>>
        PROVE  Ascending(d' \o p', a')
    <3> HIDE DEF p, d, a
    <3> QED BY <1>a, <1>t, <2>1, <2>3, DroppedAscends
  <2> QED BY <1>1, <2>2, <2>3 DEF Stream!Arrive
<1>2. CASE Stream!Deliver
  <2>1. PICK n \in 0..Len(p) : d' = d \o SubSeq(p, 1, n) /\ p' = SubSeq(p, n + 1, Len(p))
    BY <1>2 DEF Stream!Deliver
  <2>2. a' = a
    BY <1>2 DEF Stream!Deliver
  <2> HIDE DEF p, d, a
  <2> QED BY <1>a, <1>t, <2>1, <2>2, DeliveredSame
<1>3. CASE Stream!Flush
  <2>1. p' = <<>> /\ d' = d /\ a' = a
    BY <1>3 DEF Stream!Flush
  <2> HIDE DEF p, d, a
  <2> QED BY <1>a, <1>t, <2>1, FlushedAscends
<1>4. CASE UNCHANGED Stream!vars
  BY <1>a, <1>4 DEF Stream!vars
<1> QED BY <1>1, <1>2, <1>3, <1>4 DEF Stream!Next

\* The client reads bytes in the order they reached the UART and none twice, also
\* when the ring overflows, a read times out half way or the device is closed.
THEOREM BytesStayInOrder == Spec => []ByteOrder
<1>1. Init => ByteOrder
  BY DEF Init, ByteOrder, Stream!InOrder
<1>2. DataOK /\ LocalsInv /\ ByteOrder /\ [Next]_vars => ByteOrder'
  BY StreamStep, OrderStep, DataStep
<1> QED BY <1>1, <1>2, TypeCorrect, LocalsInvariant, PTL DEF Spec, TypeOK
=============================================================================
