----------------------------- MODULE UdpTransport -----------------------------
(***************************************************************************)
(* The UDP transport (src/src/rtt_udp_transport.c): the four callbacks, as *)
(* the XRCE client calls them, over a socket layer that may fail.  The     *)
(* client closes what it has opened and may try again whenever open fails. *)
(***************************************************************************)
EXTENDS SocketLayer

CONSTANT Kilo           \* 1000

ASSUME UdpAssumption == Kilo \in Nat \ {0}

VARIABLES errcode,      \* what the last callback left in *errcode
          rcvtimeo,     \* the socket's SO_RCVTIMEO, a timeval
          call,         \* history: the last callback and its arguments
          failed        \* history: connects that failed

vars == <<netVars, errcode, rcvtimeo, call, failed>>

Called(op, l, t) == call' = [op |-> op, len |-> l, timeout |-> t]

\* Results fit their C types; sock is a descriptor, -1, or its initial zero.
TypeOK ==
    /\ inUse \subseteq Fds /\ sock \in Fds \cup {-1, 0}
    /\ server_addr \in {"none", "agent", "garbage", "fault"}
    /\ pc \in {"closed", "connect", "open", "fault"}
    /\ rv \in 0..Word-1 /\ errcode \in {0, 1} /\ failed \in Nat

Init ==
    /\ NetInit /\ errcode = 0 /\ rcvtimeo = [tv_sec |-> 0, tv_usec |-> 0]
    /\ call = [op |-> "none", len |-> 0, timeout |-> 0] /\ failed = 0
-----------------------------------------------------------------------------
\* rtt_udp_transport_open up to connect.  The lookup comes before socket(), but
\* its result is only looked at once there is a socket.
OpenSocket ==
    /\ pc = "closed" /\ NewSocket
    /\ \/ /\ sock' = -1
          /\ rv' = 0 /\ Called("open", 0, 0)
          /\ UNCHANGED <<pc, server_addr>>
       \/ /\ sock' # -1
          /\ \E found \in BOOLEAN : server_addr' \in LookedUp(found)
          /\ pc' = IF server_addr' = "fault" THEN "fault" ELSE "connect"
          /\ UNCHANGED <<rv, call>>
    /\ UNCHANGED <<errcode, rcvtimeo, failed>>

\* connect, and the return.  A failed connect leaves the socket in use.
Connect ==
    /\ pc = "connect" /\ Called("open", 0, 0)
    /\ \/ rv' = 1 /\ pc' = "open" /\ UNCHANGED failed
       \/ rv' = 0 /\ pc' = "closed" /\ failed' = failed + 1
    /\ UNCHANGED <<inUse, sock, server_addr, errcode, rcvtimeo>>

\* Fault: close only marks the transport closed.
CloseKeepsSocket ==
    /\ pc = "open" /\ pc' = "closed"
    /\ rv' = 1 /\ Called("close", 0, 0)
    /\ UNCHANGED <<inUse, sock, server_addr, errcode, rcvtimeo, failed>>

\* rtt_udp_transport_close
Close ==
    /\ pc = "open" /\ pc' = "closed"
    /\ CloseSocket /\ rv' = Bool(CloseResult) /\ Called("close", 0, 0)
    /\ UNCHANGED <<sock, server_addr, errcode, rcvtimeo, failed>>

\* Fault: the result of send or recv is returned as it is.
ReportUnchecked(n) == rv' = SizeT(n) /\ errcode' = IF n = -1 THEN 1 ELSE 0

\* What write and read do with the result of send and recv.
Report(n) ==
    \/ n # -1 /\ rv' = SizeT(n) /\ errcode' = 0
    \/ n = -1 /\ rv' = 0 /\ errcode' = 1

\* rtt_udp_transport_write
Write(l) ==
    /\ pc = "open" /\ Called("write", l, 0)
    /\ \E n \in Transferred(l) : Report(n)
    /\ UNCHANGED <<inUse, sock, server_addr, pc, rcvtimeo, failed>>

\* Fault: a timeout of zero or less is passed on.
AtLeastOneUnchecked(t) == t

\* timeout = (timeout <= 0) ? 1 : timeout
AtLeastOne(t) == IF t <= 0 THEN 1 ELSE t

\* The timeval of t milliseconds.
Timeval(t) == [tv_sec |-> t \div Kilo, tv_usec |-> (t % Kilo) * Kilo]

\* rtt_udp_transport_read: setsockopt fails, or recv is called.
Read(l, t) ==
    /\ pc = "open"
    /\ \/ /\ Called("setsockopt", l, t)
          /\ errcode' = 1 /\ rv' = 0 /\ UNCHANGED rcvtimeo
       \/ /\ Called("read", l, t)
          /\ rcvtimeo' = Timeval(AtLeastOne(t))
          /\ \E n \in Transferred(l) : Report(n)
    /\ UNCHANGED <<inUse, sock, server_addr, pc, failed>>

Next ==
    \/ OpenSocket \/ Connect \/ Close
    \/ \E l \in Lens : Write(l)
    \/ \E l \in Lens, t \in Timeouts : Read(l, t)

Spec == Init /\ [][Next]_vars
-----------------------------------------------------------------------------
\* The descriptors in use are the open transport's and one for every connect
\* that failed: nothing else takes one, and close gives one back.  After as many
\* failed connects as the stack has descriptors no open can succeed.
SocketsAccounted ==
    Cardinality(inUse) = failed + (IF pc = "closed" THEN 0 ELSE 1)

\* The client never takes an error for data: the count returned is within the
\* buffer and zero when errcode is set.
HonestResult ==
    call.op \in {"read", "write", "setsockopt"} =>
        rv <= call.len /\ (errcode = 1 => rv = 0)

\* recv waits for the client's timeout, and never forever: zero, which means no
\* timeout to the socket layer, is not passed on.
ReadWaits ==
    call.op = "read" =>
        LET ms == rcvtimeo.tv_sec * Kilo + rcvtimeo.tv_usec \div Kilo
        IN  ms = (IF call.timeout > 0 THEN call.timeout ELSE 1)
            /\ rcvtimeo.tv_usec \in 0..(Kilo * Kilo - 1)
=============================================================================
