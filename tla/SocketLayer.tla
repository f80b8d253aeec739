----------------------------- MODULE SocketLayer -----------------------------
(***************************************************************************)
(* The socket layer under the UDP and TCP transports, from the calls they  *)
(* make: a fixed pool of descriptors, a name lookup that may fail, and     *)
(* calls that return -1 on error.                                          *)
(***************************************************************************)
EXTENDS Integers, FiniteSets

CONSTANTS Fds,    \* descriptors the network stack can hand out
          Lens,   \* buffer lengths the client passes
          Timeouts, \* timeouts in ms it passes to read
          Word    \* number of values of size_t, which wraps

ASSUME SocketAssumption ==
    /\ IsFiniteSet(Fds) /\ Fds \cap {-1} = {}
    /\ Timeouts \subseteq Int /\ Word \in Nat \ {0, 1} /\ Lens \subseteq 0..(Word - 2)

VARIABLES inUse,        \* descriptors that have been handed out
          sock,         \* the transport's static variable of that name
          server_addr,  \* whose address is in server_addr
          pc,           \* "closed", "open", a step of open, or "fault"
          rv            \* what the last callback returned

netVars == <<inUse, sock, server_addr, pc, rv>>

NetInit ==
    /\ inUse = {} /\ sock = 0 /\ server_addr = "none" /\ pc = "closed" /\ rv = 0

\* sock = socket(...): a descriptor of the pool, or -1, when the pool is empty and
\* for whatever else the network stack lacks.
NewSocket ==
    \/ \E fd \in Fds \ inUse : sock' = fd /\ inUse' = inUse \cup {fd}
    \/ sock' = -1 /\ UNCHANGED inUse

\* closesocket(sock) fails, and changes nothing, on a descriptor not in use.
CloseSocket == inUse' = inUse \ {sock}
CloseResult == IF sock \in inUse THEN 0 ELSE -1

\* *((struct in_addr *)host->h_addr) with host = gethostbyname(...): when the
\* lookup failed host is NULL, and reading through it faults or, where address
\* zero is readable, yields some other address.
LookedUp(found) == IF found THEN {"agent"} ELSE {"fault", "garbage"}

\* A C bool, and a ssize_t returned as a size_t.
Bool(n)  == IF n = 0 THEN 0 ELSE 1
SizeT(n) == n % Word

\* send or recv of up to l bytes: how many were transferred, or -1.
Transferred(l) == IF sock \in inUse THEN -1..l ELSE {-1}
=============================================================================
