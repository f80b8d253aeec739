--------------------------- MODULE SerialTransport ---------------------------
(***************************************************************************)
(* The serial transport of micro-ROS on RT-Thread                          *)
(* (src/src/rtt_serial_transports.c): the four callbacks given to          *)
(* rmw_uros_set_custom_transport, run by one client thread, together with  *)
(* the two interrupts that run between any two of their steps: the UART    *)
(* receive interrupt, which fills the driver's ring and calls uart_input,  *)
(* and the system tick, which ends timed waits.                            *)
(*                                                                         *)
(* The device and the semaphore belong to RT-Thread and are modelled from  *)
(* the calls the transport makes.  Bytes are numbered in the order they    *)
(* reach the UART, so that order, loss and duplication can be told apart.  *)
(***************************************************************************)
EXTENDS Integers, Sequences

CONSTANTS FifoSize,  \* bytes the driver's receive ring holds
          SemMax,    \* RT_SEM_VALUE_MAX
          TickMod,   \* rt_tick_get() counts modulo this (2^32)
          Lag,       \* ticks a runnable reader may wait for the CPU at one step
          Lens,      \* lengths passed to rtt_transport_read
          Timeouts,  \* timeouts passed to rtt_transport_read; < 0 is infinite
          MaxBytes   \* bound: bytes that ever reach the UART

ASSUME SizeAssumption == FifoSize \in Nat \ {0} /\ SemMax \in Nat \ {0}
ASSUME ReadAssumption == Lens \subseteq Nat /\ Timeouts \subseteq Int
ASSUME BoundAssumption == MaxBytes \in Nat

\* C division truncates towards zero.
Quarter(t) == IF t >= 0 THEN t \div 4 ELSE -((-t) \div 4)

\* The longest a read of l bytes with timeout t >= 0 may take: the timeout, one
\* wait that began just before it, and the scheduling delay of the steps between
\* two looks at the clock (up to two for every byte that was already there).
Deadline(l, t) == t + t \div 4 + Lag * (2 * l + 2)

\* The counter does not lap a reader that has a timeout: 2^32 ticks are more
\* than any deadline.
ASSUME TickAssumption ==
    /\ TickMod \in Nat \ {0} /\ Lag \in Nat
    /\ \A l \in Lens, t \in Timeouts : Deadline(l, t) < TickMod

VARIABLES
    sem_initialized,  \* the static flag of the same name
    semLive,          \* rx_sem is an initialised kernel object
    semValue,         \* its count
    found,            \* micro_ros_serial # NULL
    devOpen,          \* the device is open: its receive interrupt is enabled
    rx_indicate,      \* uart_input is registered with the device
    fifo,             \* the driver's receive ring
    tick,             \* rt_tick_get()
    pc,               \* where the client thread is
    opened,           \* what the last rtt_transport_open returned
    buf,              \* bytes the current read has stored; Len(buf) is its i
    len, timeout,     \* arguments of the current read
    start,            \* its local variable tick
    wait,             \* ticks left in rt_sem_take; < 0 is RT_WAITING_FOREVER
    late,             \* ticks a runnable reader has been waiting for the CPU
    delivered,        \* history: bytes handed to the client, in order
    arrived,          \* history: bytes that reached the UART
    lost              \* history: bytes the driver dropped

semVars  == <<sem_initialized, semLive, semValue>>
devVars  == <<found, devOpen, rx_indicate>>
readVars == <<len, timeout, start>>
timeVars == <<wait, late>>
vars == <<semVars, devVars, fifo, tick, pc, opened, buf, readVars, timeVars,
          delivered, arrived, lost>>

Running  == {"byte", "poll", "take", "check"}   \* steps of a read in progress
Reading  == Running \cup {"blocked"}
PcValues == Reading \cup {"closed", "idle", "open_sem", "open_dev", "open_ind",
                          "close_sem"}

FlagsOK ==
    /\ semLive \in BOOLEAN /\ found \in BOOLEAN /\ devOpen \in BOOLEAN
    /\ rx_indicate \in BOOLEAN /\ opened \in BOOLEAN

DataOK ==
    /\ sem_initialized \in {0, 1} /\ semValue \in 0..SemMax
    /\ fifo \in Seq(1..MaxBytes) /\ Len(fifo) <= FifoSize
    /\ tick \in 0..TickMod-1 /\ start \in 0..TickMod-1 /\ pc \in PcValues
    /\ buf \in Seq(1..MaxBytes) /\ delivered \in Seq(1..MaxBytes)
    /\ len \in Nat /\ timeout \in Int /\ wait \in Int
    /\ late \in 0..Lag /\ arrived \in 0..MaxBytes /\ lost \in Nat

\* The types of the transport's state; the semaphore's count and the driver's
\* ring stay within their limits and the tick wraps.
TypeOK == FlagsOK /\ DataOK

Init ==
    /\ sem_initialized = 0 /\ semLive = FALSE /\ semValue = 0
    /\ found = FALSE /\ devOpen = FALSE /\ rx_indicate = FALSE
    /\ fifo = <<>> /\ tick = 0 /\ pc = "closed" /\ opened = FALSE
    /\ buf = <<>> /\ len = 0 /\ timeout = 0 /\ start = 0 /\ wait = 0 /\ late = 0
    /\ delivered = <<>> /\ arrived = 0 /\ lost = 0

-----------------------------------------------------------------------------
\* RT-Thread, as the transport uses it.

\* rt_sem_init(&rx_sem, ..., 0, ...) followed by sem_initialized = 1.
InitSem == semLive' = TRUE /\ semValue' = 0 /\ sem_initialized' = 1

InitSemIfNeeded == IF sem_initialized = 0 THEN InitSem ELSE UNCHANGED semVars

\* Fault: the difference does not wrap with the counter.
ElapsedSaturating == IF tick >= start THEN tick - start ELSE 0

\* rt_tick_get() - tick, in the unsigned arithmetic of rt_tick_t.
Elapsed == (tick - start) % TickMod

\* Fault: a full ring overwrites its oldest slot without moving the read index.
StoredInPlace(b) ==
    IF Len(fifo) = FifoSize THEN [fifo EXCEPT ![1] = b] ELSE Append(fifo, b)

\* The receive ring with b stored: when it is full the oldest byte is dropped.
Stored(b) == Append(IF Len(fifo) = FifoSize THEN Tail(fifo) ELSE fifo, b)
-----------------------------------------------------------------------------
\* rtt_transport_open, one step per call it makes.

OpenFind ==
    /\ pc = "closed"
    /\ \E ok \in BOOLEAN : found' = ok /\ pc' = IF ok THEN "open_sem" ELSE "closed"
    /\ UNCHANGED <<semVars, devOpen, rx_indicate, fifo, tick, opened, buf,
                   readVars, timeVars, delivered, arrived, lost>>

\* Fault: open leaves the semaphore to the read that needs it.
OpenSemLeftToRead ==
    /\ pc = "open_sem" /\ pc' = "open_dev"
    /\ UNCHANGED <<semVars, devVars, fifo, tick, opened, buf, readVars,
                   timeVars, delivered, arrived, lost>>

OpenSem ==
    /\ pc = "open_sem" /\ pc' = "open_dev"
    /\ InitSemIfNeeded
    /\ UNCHANGED <<devVars, fifo, tick, opened, buf, readVars, timeVars,
                   delivered, arrived, lost>>

\* The result of rt_device_open is not looked at.
OpenDev ==
    /\ pc = "open_dev" /\ pc' = "open_ind"
    /\ devOpen' \in BOOLEAN
    /\ UNCHANGED <<semVars, found, rx_indicate, fifo, tick, opened, buf,
                   readVars, timeVars, delivered, arrived, lost>>

OpenIndicate ==
    /\ pc = "open_ind" /\ pc' = "idle"
    /\ rx_indicate' = TRUE /\ opened' = TRUE
    /\ UNCHANGED <<semVars, found, devOpen, fifo, tick, buf, readVars, timeVars,
                   delivered, arrived, lost>>

\* rtt_transport_close.  rt_device_close disables the receive interrupt and
\* frees the ring; whether it forgets rx_indicate depends on the driver.
CloseDev ==
    /\ pc = "idle" /\ pc' = "close_sem"
    /\ devOpen' = FALSE /\ rx_indicate' \in {rx_indicate, FALSE}
    /\ fifo' = <<>> /\ lost' = lost + Len(fifo)
    /\ UNCHANGED <<semVars, found, tick, opened, buf, readVars, timeVars,
                   delivered, arrived>>

CloseSem ==
    /\ pc = "close_sem" /\ pc' = "closed"
    /\ semLive' = FALSE /\ sem_initialized' = 0 /\ opened' = FALSE
    /\ UNCHANGED <<semValue, devVars, fifo, tick, buf, readVars, timeVars,
                   delivered, arrived, lost>>
-----------------------------------------------------------------------------
\* rtt_transport_read.  The client reads while the transport is open, and may
\* read after closing it: the loop re-creates the semaphore for that case.

\* The locals of a read are dead once it returns.
Return ==
    /\ delivered' = delivered \o buf /\ buf' = <<>>
    /\ len' = 0 /\ timeout' = 0 /\ start' = 0 /\ wait' = 0
    /\ pc' = IF opened THEN "idle" ELSE "closed"

ReadCall(l, t) ==
    /\ pc \in {"idle", "closed"} /\ found
    /\ pc' = "byte" /\ len' = l /\ timeout' = t /\ start' = tick
    /\ UNCHANGED <<semVars, devVars, fifo, tick, opened, buf, timeVars,
                   delivered, arrived, lost>>

\* Fault: the loop runs once more than len.
ReadByteOffByOne ==
    /\ pc = "byte" /\ late' = 0
    /\ \/ Len(buf) > len /\ Return /\ UNCHANGED semVars
       \/ Len(buf) <= len /\ InitSemIfNeeded /\ pc' = "poll"
                          /\ UNCHANGED <<buf, delivered, readVars, wait>>
    /\ UNCHANGED <<devVars, fifo, tick, opened, arrived, lost>>

\* The head of the for loop.
ReadByte ==
    /\ pc = "byte" /\ late' = 0
    /\ \/ Len(buf) >= len /\ Return /\ UNCHANGED semVars
       \/ Len(buf) < len /\ InitSemIfNeeded /\ pc' = "poll"
                         /\ UNCHANGED <<buf, delivered, readVars, wait>>
    /\ UNCHANGED <<devVars, fifo, tick, opened, arrived, lost>>

\* Fault: the byte is copied but stays in the ring.
ReadPollPeek ==
    /\ pc = "poll" /\ late' = 0 /\ UNCHANGED fifo
    /\ IF devOpen /\ fifo # <<>>
       THEN buf' = Append(buf, Head(fifo)) /\ pc' = "byte"
       ELSE UNCHANGED buf /\ pc' = "take"
    /\ UNCHANGED <<semVars, devVars, tick, opened, readVars, wait,
                   delivered, arrived, lost>>

\* rt_device_read of one byte, the condition of the while loop.
ReadPoll ==
    /\ pc = "poll" /\ late' = 0
    /\ IF devOpen /\ fifo # <<>>
       THEN buf' = Append(buf, Head(fifo)) /\ fifo' = Tail(fifo) /\ pc' = "byte"
       ELSE UNCHANGED <<buf, fifo>> /\ pc' = "take"
    /\ UNCHANGED <<semVars, devVars, tick, opened, readVars, wait,
                   delivered, arrived, lost>>

\* rt_sem_take(&rx_sem, ticks) when the count is zero.
TakeEmpty(ticks) ==
    /\ semValue = 0 /\ UNCHANGED semValue
    /\ wait' = ticks
    /\ pc' = IF ticks = 0 THEN "check" ELSE "blocked"

TakeToken == semValue > 0 /\ semValue' = semValue - 1 /\ pc' = "check" /\ UNCHANGED wait

\* Fault: each wait may use up the whole timeout.
ReadTakeWhole ==
    /\ pc = "take" /\ late' = 0
    /\ TakeToken \/ TakeEmpty(timeout)
    /\ UNCHANGED <<sem_initialized, semLive, devVars, fifo, tick, opened, buf,
                   readVars, delivered, arrived, lost>>

\* rt_sem_take(&rx_sem, timeout / 4): take a token, give up at once, or block.
ReadTake ==
    /\ pc = "take" /\ late' = 0
    /\ TakeToken \/ TakeEmpty(Quarter(timeout))
    /\ UNCHANGED <<sem_initialized, semLive, devVars, fifo, tick, opened, buf,
                   readVars, delivered, arrived, lost>>

\* Fault: a read that times out forgets the bytes it has stored.
ReadCheckReturnsZero ==
    /\ pc = "check" /\ late' = 0
    /\ IF Elapsed > timeout % TickMod
       THEN /\ buf' = <<>> /\ UNCHANGED delivered
            /\ len' = 0 /\ timeout' = 0 /\ start' = 0 /\ wait' = 0
            /\ pc' = IF opened THEN "idle" ELSE "closed"
       ELSE pc' = "poll" /\ UNCHANGED <<buf, delivered, readVars, wait>>
    /\ UNCHANGED <<semVars, devVars, fifo, tick, opened, arrived, lost>>

\* The timeout test compares unsigned numbers: a timeout of -1 never passes.
ReadCheck ==
    /\ pc = "check" /\ late' = 0
    /\ IF Elapsed > timeout % TickMod
       THEN Return
       ELSE pc' = "poll" /\ UNCHANGED <<buf, delivered, readVars, wait>>
    /\ UNCHANGED <<semVars, devVars, fifo, tick, opened, arrived, lost>>
-----------------------------------------------------------------------------
\* Interrupts.

\* Fault: the count is not bounded.
uart_inputUnbounded ==
    IF pc = "blocked"
    THEN pc' = "check" /\ UNCHANGED semValue
    ELSE semValue' = semValue + 1 /\ UNCHANGED pc

\* Fault: only a reader that already waits is told.
uart_inputIfWaiting ==
    pc' = (IF pc = "blocked" THEN "check" ELSE pc) /\ UNCHANGED semValue

\* uart_input: rt_sem_release hands the token to a waiter or counts it.
uart_input ==
    IF pc = "blocked"
    THEN pc' = "check" /\ UNCHANGED semValue
    ELSE semValue' = (IF semValue < SemMax THEN semValue + 1 ELSE semValue)
         /\ UNCHANGED pc

\* The receive interrupt stores the byte, then calls the indication, if any.
UartRx ==
    /\ devOpen /\ arrived < MaxBytes
    /\ arrived' = arrived + 1 /\ fifo' = Stored(arrived + 1)
    /\ lost' = IF Len(fifo) = FifoSize THEN lost + 1 ELSE lost
    /\ IF rx_indicate THEN uart_input ELSE UNCHANGED <<pc, semValue>>
    /\ UNCHANGED <<sem_initialized, semLive, devVars, tick, opened, buf,
                   readVars, timeVars, delivered>>

\* The system tick, which also ends a timed wait.  A runnable reader gets the
\* CPU after at most Lag ticks.
Tick ==
    /\ pc \in Running => late < Lag
    /\ tick' = (tick + 1) % TickMod
    /\ late' = IF pc \in Running THEN late + 1 ELSE late
    /\ IF pc = "blocked" /\ wait > 0
       THEN wait' = wait - 1 /\ pc' = IF wait = 1 THEN "check" ELSE pc
       ELSE UNCHANGED <<wait, pc>>
    /\ UNCHANGED <<semVars, devVars, fifo, opened, buf, readVars, delivered,
                   arrived, lost>>
-----------------------------------------------------------------------------
ReadStep == ReadByte \/ ReadPoll \/ ReadTake \/ ReadCheck

Client ==
    \/ OpenFind \/ OpenSem \/ OpenDev \/ OpenIndicate
    \/ CloseDev \/ CloseSem
    \/ \E l \in Lens, t \in Timeouts : ReadCall(l, t)
    \/ ReadStep

Next == Client \/ UartRx \/ Tick

Spec == Init /\ [][Next]_vars

\* The scheduler runs a runnable reader and the tick interrupt keeps coming;
\* the client need not call anything and no byte need arrive.
FairSpec == Spec /\ WF_vars(ReadStep) /\ WF_vars(Tick)
-----------------------------------------------------------------------------
\* Properties.

\* rx_sem is a live kernel object whenever uart_input may release it, the read
\* may take it or close detaches it: this is why open initialises it before it
\* opens the device, whose old indication survives a close, and why close
\* detaches it after the device.
SemaphoreLive ==
    /\ devOpen /\ rx_indicate => semLive
    /\ pc \in {"take", "blocked", "check", "close_sem"} => semLive

\* A reader never sleeps while a byte lies in the ring, however the interrupt
\* falls between the failed rt_device_read and rt_sem_take.
NoLostWakeup == pc = "blocked" => fifo = <<>>

\* A read with a timeout is over by its deadline: the timeout, a quarter of it,
\* and the scheduling delay of a bounded number of steps.
ReadBounded == pc \in Reading /\ timeout >= 0 => Elapsed <= Deadline(len, timeout)

\* To its client the transport is a lossy but ordered, duplicate-free stream.
Stream == INSTANCE ByteStream WITH pending <- buf \o fifo

\* Every byte that reached the UART was read, can be read, or is counted lost,
\* also when a read times out half way.
ByteConservation == Stream!Accounted

\* The bytes read and still to be read are in the order they arrived.
ByteOrder == Stream!InOrder

\* Every step of the driver, the interrupts and the client is one the byte
\* stream allows, or changes nothing of it.
ImplementsByteStream == Stream!Spec

\* A read with a timeout returns, whatever the UART does.
ReadReturns == (pc \in Reading /\ timeout >= 0) ~> (pc \notin Reading)

\* A read without a timeout (UXR_TIMEOUT_INF, -1) returns once the bytes it asks
\* for are there.
UntimedReadServed ==
    (pc \in Reading /\ timeout < 0 /\ devOpen /\ Len(buf) + Len(fifo) >= len)
        ~> (pc \notin Reading)
-----------------------------------------------------------------------------
\* Strengthenings of the invariants above that every step preserves.

\* Where the client thread is, against the semaphore and the device.
SemaphoreInv ==
    /\ semLive <=> sem_initialized = 1
    /\ opened => semLive
    /\ pc \in {"open_dev", "open_ind", "idle", "poll", "take", "blocked", "check",
               "close_sem"} => semLive
    /\ devOpen => semLive /\ (opened \/ pc = "open_ind")
    /\ pc = "close_sem" => ~devOpen
    /\ pc \in {"closed", "open_sem", "open_dev", "open_ind"} => ~opened

\* A byte stored after the failed poll has left a token.
WakeupInv ==
    /\ devOpen /\ opened => rx_indicate
    /\ fifo # <<>> => devOpen
    /\ pc = "take" /\ fifo # <<>> => semValue > 0
    /\ pc = "blocked" => fifo = <<>>

\* The time a read with timeout t and b stored bytes may have used up at step p,
\* of which d ticks since it became runnable there and w still to be waited.
Used(p, b, t, w, d) ==
    CASE p = "byte"    -> t + Lag * (2 * b) + d
      [] p = "poll"    -> t + Lag * (2 * b + 1) + d
      [] p = "take"    -> t + Lag * (2 * b + 2) + d
      [] p = "blocked" -> t + Lag * (2 * b + 3) + t \div 4 - w
      [] p = "check"   -> t + Lag * (2 * b + 3) + t \div 4 + d

\* What the locals of a read hold at each of its steps.
LocalsInv ==
    /\ pc \notin Reading => buf = <<>> /\ late = 0
    /\ pc \in Reading =>
         /\ len \in Lens /\ timeout \in Timeouts /\ Len(buf) <= len
         /\ pc # "byte" => Len(buf) < len
    /\ pc = "blocked" => late = 0 /\ (timeout >= 0 => wait \in 1..(timeout \div 4))

\* A deadline is met because no step is reached later than Used allows.
DeadlineInv ==
    pc \in Reading /\ timeout >= 0 =>
        Elapsed <= Used(pc, Len(buf), timeout, wait, late)
=============================================================================
