------------------------------- MODULE MCClocks -------------------------------
(***************************************************************************)
(* The two clocks under TLC.  A firmware is built with one of them: the    *)
(* clock of the UDP transport, or the plain one of the serial and TCP      *)
(* transports.  Both read the same tick count.                             *)
(***************************************************************************)
EXTENDS RolloverClock

VARIABLES build,                       \* "udp" or "plain"
          tp, plain_at, plain_reported \* the state of the plain clock

Plain == INSTANCE PlainClock WITH at <- plain_at, reported <- plain_reported

plainVars == <<tp, plain_at, plain_reported>>
udpVars   == <<rollover, last_measure, pc, calls, reported, sampled>>

BuiltInit == Init /\ Plain!Init /\ build \in {"udp", "plain"}

BuiltNext ==
    /\ \/ build = "udp" /\ Next /\ UNCHANGED plainVars
       \/ build = "plain" /\ Plain!Next /\ UNCHANGED udpVars
    /\ UNCHANGED build

BuiltSpec == BuiltInit /\ [][BuiltNext]_<<vars, plainVars, build>>

\* The plain clock returns a normalised timespec, which shows the time that has
\* passed until the multiplication wraps, and after that modulo Word microseconds.
PlainAccurate ==
    build = "plain" => Plain!TypeOK /\ Plain!AccurateUntilWrap /\ Plain!AccurateModuloWord

\* The plain clock never goes back, as the steady clock that is read from it
\* promises.
PlainMonotone == Plain!Monotone

CONSTANTS t1, t2
OneThread  == {t1}
TwoThreads == {t1, t2}
=============================================================================
