----------------------------- MODULE TcpTransport -----------------------------
(***************************************************************************)
(* The TCP transport (src/src/rtt_tcp_transport.c).  Its timeouts are set  *)
(* once, in open, and read and write return the result of recv and send    *)
(* as it is.                                                               *)
(***************************************************************************)
EXTENDS SocketLayer

VARIABLES rcvtimeo,  \* SO_RCVTIMEO of the socket in ms; 0 is no timeout
          call       \* history: the last callback and its arguments

vars == <<netVars, rcvtimeo, call>>

Called(op, l, t) == call' = [op |-> op, len |-> l, timeout |-> t]

\* Results fit their C types; sock is a descriptor, -1, or its initial zero.
TypeOK ==
    /\ inUse \subseteq Fds /\ sock \in Fds \cup {-1, 0}
    /\ server_addr \in {"none", "agent", "garbage", "fault"}
    /\ pc \in {"closed", "connect", "open", "fault"}
    /\ rv \in 0..Word-1 /\ rcvtimeo \in {0, 200}

Init ==
    /\ NetInit /\ rcvtimeo = 0
    /\ call = [op |-> "none", len |-> 0, timeout |-> 0]
-----------------------------------------------------------------------------
\* rtt_tcp_transport_open up to connect.  Whether setsockopt succeeded is not
\* looked at; a new socket has no timeout.
OpenSocket ==
    /\ pc = "closed" /\ NewSocket
    /\ \/ /\ sock' = -1
          /\ rv' = 0 /\ Called("open", 0, 0)
          /\ UNCHANGED <<pc, server_addr, rcvtimeo>>
       \/ /\ sock' # -1
          /\ \E found \in BOOLEAN : server_addr' \in LookedUp(found)
          /\ pc' = IF server_addr' = "fault" THEN "fault" ELSE "connect"
          /\ rcvtimeo' \in (IF pc' = "connect" THEN {0, 200} ELSE {0})
          /\ UNCHANGED <<rv, call>>

\* Fault: a failed connect leaves the socket in use.
ConnectLeaks ==
    /\ pc = "connect" /\ Called("open", 0, 0)
    /\ \/ rv' = 1 /\ pc' = "open"
       \/ rv' = 0 /\ pc' = "closed"
    /\ UNCHANGED <<inUse, sock, server_addr, rcvtimeo>>

\* connect, and the return.
Connect ==
    /\ pc = "connect" /\ Called("open", 0, 0)
    /\ \/ rv' = 1 /\ pc' = "open" /\ UNCHANGED inUse
       \/ rv' = 0 /\ pc' = "closed" /\ CloseSocket
    /\ UNCHANGED <<sock, server_addr, rcvtimeo>>

\* rtt_tcp_transport_close
Close ==
    /\ pc = "open" /\ pc' = "closed"
    /\ CloseSocket /\ rv' = Bool(CloseResult) /\ Called("close", 0, 0)
    /\ UNCHANGED <<sock, server_addr, rcvtimeo>>

\* Fault: the result is returned without the conversion to size_t.
WriteSigned(l) ==
    /\ pc = "open" /\ Called("write", l, 0)
    /\ rv' \in Transferred(l)
    /\ UNCHANGED <<inUse, sock, server_addr, pc, rcvtimeo>>

\* rtt_tcp_transport_write
Write(l) ==
    /\ pc = "open" /\ Called("write", l, 0)
    /\ \E n \in Transferred(l) : rv' = SizeT(n)
    /\ UNCHANGED <<inUse, sock, server_addr, pc, rcvtimeo>>

\* rtt_tcp_transport_read
Read(l, t) ==
    /\ pc = "open" /\ Called("read", l, t)
    /\ \E n \in Transferred(l) : rv' = SizeT(n)
    /\ UNCHANGED <<inUse, sock, server_addr, pc, rcvtimeo>>

Next ==
    \/ OpenSocket \/ Connect \/ Close
    \/ \E l \in Lens : Write(l)
    \/ \E l \in Lens, t \in Timeouts : Read(l, t)

Spec == Init /\ [][Next]_vars
-----------------------------------------------------------------------------
\* A transport that is not open, or being opened, holds no socket: every failing
\* path of open, and close, give it back.
NoSocketLeak == inUse = IF pc = "closed" THEN {} ELSE {sock}
=============================================================================
