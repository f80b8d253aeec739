----------------------------- MODULE RolloverClock -----------------------------
(***************************************************************************)
(* clock_gettime of the UDP transport (src/src/rtt_udp_transport.c), which *)
(* extends the wrapping microsecond count with a count of its wraps, kept  *)
(* in two static variables without any locking.  Each call is four steps:  *)
(* take the measure, compare it with the last one, store the new count of  *)
(* wraps, and store the measure; ticks and other threads come in between.  *)
(* rollover is 32 bits wide and would need 2^32 wraps of 71 minutes to     *)
(* overflow, so it is a natural number here.                               *)
(***************************************************************************)
EXTENDS ClockConversion

CONSTANTS Threads,   \* threads that call clock_gettime
          MaxGap,    \* the clock is read at least once in so many ticks
          MaxTicks   \* bound: ticks that pass

ASSUME ClockBounds == MaxGap \in Nat /\ MaxTicks \in Nat

VARIABLES
    now,            \* ticks since the start, without wrapping
    rollover,       \* the static variables of clock_gettime
    last_measure,
    pc,             \* per thread: where its call is
    m,              \* per thread: the local m
    r,              \* per thread: the sum about to be stored in rollover
    real_us,        \* per thread: the local real_us
    at,             \* history, per thread: now when m was taken
    floor,          \* history, per thread: latest time returned before the call
    reported,       \* history: latest time returned, in nanoseconds
    sampled         \* history: now when the last returned call took its measure

vars == <<now, rollover, last_measure, pc, m, r, real_us, at, floor, reported,
          sampled>>
calls == <<m, r, real_us, at, floor>>

\* The types of the clock: what is stored in last_measure fits its 32 bits.
TypeOK ==
    /\ now \in Nat /\ rollover \in Nat /\ last_measure \in 0..Word-1
    /\ pc \in [Threads -> {"idle", "count", "store", "finish"}]
    /\ m \in [Threads -> 0..Word-1] /\ r \in [Threads -> Nat]
    /\ real_us \in [Threads -> Nat] /\ at \in [Threads -> Nat]
    /\ floor \in [Threads -> Nat] /\ reported \in Nat /\ sampled \in Nat

Init ==
    /\ now = 0 /\ rollover = 0 /\ last_measure = 0
    /\ pc = [t \in Threads |-> "idle"]
    /\ m = [t \in Threads |-> 0] /\ r = [t \in Threads |-> 0]
    /\ real_us = [t \in Threads |-> 0] /\ at = [t \in Threads |-> 0]
    /\ floor = [t \in Threads |-> 0] /\ reported = 0 /\ sampled = 0
-----------------------------------------------------------------------------
Tick ==
    /\ now < MaxTicks /\ now - sampled < MaxGap
    /\ now' = now + 1
    /\ UNCHANGED <<rollover, last_measure, pc, calls, reported, sampled>>

Measure(t) ==
    /\ pc[t] = "idle"
    /\ m' = [m EXCEPT ![t] = Micros(now)]
    /\ at' = [at EXCEPT ![t] = now]
    /\ floor' = [floor EXCEPT ![t] = reported]
    /\ pc' = [pc EXCEPT ![t] = "count"]
    /\ UNCHANGED <<now, rollover, last_measure, r, real_us, reported, sampled>>

\* Fault: two calls within one tick count as a wrap.
CountOnEqual(t) ==
    /\ pc[t] = "count"
    /\ r' = [r EXCEPT ![t] = rollover + (IF m[t] <= last_measure THEN 1 ELSE 0)]
    /\ pc' = [pc EXCEPT ![t] = "store"]
    /\ UNCHANGED <<now, rollover, last_measure, m, real_us, at, floor, reported,
                   sampled>>

\* rollover += (m < last_measure) ? 1 : 0, up to the store
Count(t) ==
    /\ pc[t] = "count"
    /\ r' = [r EXCEPT ![t] = rollover + (IF m[t] < last_measure THEN 1 ELSE 0)]
    /\ pc' = [pc EXCEPT ![t] = "store"]
    /\ UNCHANGED <<now, rollover, last_measure, m, real_us, at, floor, reported,
                   sampled>>

\* The store, and real_us = m + rollover * micro_rollover_useconds.
Store(t) ==
    /\ pc[t] = "store"
    /\ rollover' = r[t]
    /\ real_us' = [real_us EXCEPT ![t] = m[t] + r[t] * (Word - 1)]
    /\ pc' = [pc EXCEPT ![t] = "finish"]
    /\ UNCHANGED <<now, last_measure, m, r, at, floor, reported, sampled>>

Later(a, b) == IF a > b THEN a ELSE b

\* Fault: the measure is not remembered.
FinishForgetful(t) ==
    /\ pc[t] = "finish"
    /\ reported' = Later(reported, Nanos(Timespec(real_us[t])))
    /\ sampled' = Later(sampled, at[t])
    /\ pc' = [pc EXCEPT ![t] = "idle"]
    /\ UNCHANGED <<now, rollover, last_measure, calls>>

\* tp is filled in and last_measure = m.
Finish(t) ==
    /\ pc[t] = "finish"
    /\ reported' = Later(reported, Nanos(Timespec(real_us[t])))
    /\ sampled' = Later(sampled, at[t])
    /\ last_measure' = m[t]
    /\ pc' = [pc EXCEPT ![t] = "idle"]
    /\ UNCHANGED <<now, rollover, calls>>

clock_gettime(t) == Measure(t) \/ Count(t) \/ Store(t) \/ Finish(t)

Next == Tick \/ \E t \in Threads : clock_gettime(t)

Spec == Init /\ [][Next]_vars
-----------------------------------------------------------------------------
\* A call returns no earlier time than any call that returned before it began:
\* the contract of rcutils_steady_time_now, which reads this clock.
Monotone ==
    \A t \in Threads : pc[t] = "finish" => Nanos(Timespec(real_us[t])) >= floor[t]

\* Read often enough, the clock is never ahead of the time that has passed, and
\* behind it by one microsecond for every wrap plus the rounding of the measure:
\* each wrap counts for Word - 1, not Word, microseconds.
Accurate ==
    \A t \in Threads : pc[t] = "finish" =>
        /\ real_us[t] <= TrueMicros(at[t])
        /\ TrueMicros(at[t]) - real_us[t] < r[t] + Kilo

\* A call never returns a time that has not come yet.
NeverAhead ==
    \A t \in Threads : pc[t] = "finish" => real_us[t] <= TrueMicros(at[t])
-----------------------------------------------------------------------------
\* Why one thread sees a monotone clock: the time it will return next is at
\* least that of the last measure, whatever number of wraps it missed.
TimeOf(us, wraps) == (us + wraps * (Word - 1)) * Kilo

MonotoneInv ==
    \A t \in Threads :
        /\ floor[t] <= reported
        /\ pc[t] # "finish" => reported <= TimeOf(last_measure, rollover)
        /\ pc[t] = "store" => reported <= TimeOf(m[t], r[t])
        /\ pc[t] = "finish" => /\ rollover = r[t]
                               /\ real_us[t] = m[t] + r[t] * (Word - 1)
                               /\ reported <= TimeOf(m[t], r[t])
=============================================================================
