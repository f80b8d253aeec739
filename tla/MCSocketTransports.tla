-------------------------- MODULE MCSocketTransports --------------------------
(***************************************************************************)
(* The two socket transports under TLC.  A firmware is built with one of   *)
(* them, which use the socket layer in the same variables.                 *)
(***************************************************************************)
EXTENDS UdpTransport

VARIABLES build,             \* the transport that is built in: "udp" or "tcp"
          timeo, tcp_call    \* rcvtimeo and call of the TCP transport

Tcp == INSTANCE TcpTransport WITH rcvtimeo <- timeo, call <- tcp_call

udpVars == <<errcode, rcvtimeo, call, failed>>
tcpVars == <<timeo, tcp_call>>

BuiltInit == Init /\ Tcp!Init /\ build \in {"udp", "tcp"}

BuiltNext ==
    /\ \/ build = "udp" /\ Next /\ UNCHANGED tcpVars
       \/ build = "tcp" /\ Tcp!Next /\ UNCHANGED udpVars
    /\ UNCHANGED build

BuiltSpec == BuiltInit /\ [][BuiltNext]_<<vars, tcpVars, build>>

\* The type invariants of the two transports.
BuiltTypeOK == IF build = "udp" THEN TypeOK ELSE Tcp!TypeOK

\* The TCP transport holds no socket unless it is open or being opened.
TcpNoSocketLeak == build = "tcp" => Tcp!NoSocketLeak

MCFds      == {1, 2, 3}
MCLens     == {0, 2}
MCTimeouts == {-1, 0, 1, 5, 8}
=============================================================================
