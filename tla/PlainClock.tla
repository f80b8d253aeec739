------------------------------ MODULE PlainClock ------------------------------
(***************************************************************************)
(* clock_gettime of the serial and TCP transports                          *)
(* (src/src/rtt_serial_transports.c, src/src/rtt_tcp_transport.c): it      *)
(* keeps no state, so that any number of threads may call it, and returns  *)
(* the wrapping microsecond count as it is.                                *)
(***************************************************************************)
EXTENDS ClockConversion

CONSTANT MaxTicks   \* bound: ticks that pass

VARIABLES now,       \* ticks since the start, without wrapping
          tp,        \* what the last call returned
          at,        \* history: now when it was called
          reported   \* history: the latest time returned before it

vars == <<now, tp, at, reported>>

TypeOK ==
    /\ now \in 0..MaxTicks /\ at \in 0..MaxTicks
    /\ tp \in [tv_sec : Nat, tv_nsec : 0..(Mega * Kilo - 1)]
    /\ reported \in Nat

Init == now = 0 /\ tp = Timespec(0) /\ at = 0 /\ reported = 0

Tick == now < MaxTicks /\ now' = now + 1 /\ UNCHANGED <<tp, at, reported>>

clock_gettime ==
    /\ tp' = Timespec(Micros(now)) /\ at' = now
    /\ reported' = IF Nanos(tp) > reported THEN Nanos(tp) ELSE reported
    /\ UNCHANGED now

Next == Tick \/ clock_gettime

Spec == Init /\ [][Next]_vars
-----------------------------------------------------------------------------
\* Until the multiplication by 1000 wraps (71 minutes at 1000 ticks a second)
\* the clock shows the time that has passed, to the millisecond.
AccurateUntilWrap ==
    at * Mega < Word * TicksPerSecond /\ at * Kilo < Word =>
        /\ Nanos(tp) <= TrueMicros(at) * Kilo
        /\ TrueMicros(at) * Kilo - Nanos(tp) < Mega

\* After it the clock still measures short intervals if they are taken modulo
\* Word: it is the time that has passed, modulo Word, to the millisecond.
AccurateModuloWord ==
    (TrueMicros(at) - Nanos(tp) \div Kilo) % Word < Kilo

\* The clock never goes back: the contract of rcutils_steady_time_now.
Monotone == Nanos(tp) >= reported
=============================================================================
