--------------------------- MODULE ClockConversion ---------------------------
(***************************************************************************)
(* How clock_gettime turns the tick count of RT-Thread into a timespec, in *)
(* the same way in all three transports.  The arithmetic up to the         *)
(* assignment to m is done in rt_tick_t, an unsigned integer of Word       *)
(* values (2^32); Kilo stands for the factor 1000 between seconds,         *)
(* milliseconds, microseconds and nanoseconds.                             *)
(***************************************************************************)
EXTENDS Integers

CONSTANTS Word,            \* number of values of rt_tick_t
          Kilo,            \* 1000
          TicksPerSecond   \* RT_TICK_PER_SECOND

ASSUME ConversionAssumption ==
    Word \in Nat \ {0} /\ Kilo \in Nat \ {0} /\ TicksPerSecond \in Nat \ {0}

Mega == Kilo * Kilo

\* rt_tick_get() when now ticks have passed since the start.
rt_tick_get(now) == now % Word

\* Fault: the tick is widened before it is multiplied.
MicrosWide(now) == ((rt_tick_get(now) * Kilo) \div TicksPerSecond) * Kilo

\* Fault: the ticks are divided first.
MicrosDivideFirst(now) == ((rt_tick_get(now) \div TicksPerSecond) * Mega) % Word

\* m = rt_tick_get() * 1000 / RT_TICK_PER_SECOND * 1000
Micros(now) ==
    ((((rt_tick_get(now) * Kilo) % Word) \div TicksPerSecond) * Kilo) % Word

\* The timespec of a number of microseconds, and the nanoseconds it stands for.
Timespec(us) == [tv_sec |-> us \div Mega, tv_nsec |-> (us % Mega) * Kilo]
Nanos(tp)    == tp.tv_sec * (Mega * Kilo) + tp.tv_nsec

\* The microseconds that have really passed after now ticks.
TrueMicros(now) == (now * Mega) \div TicksPerSecond
=============================================================================
