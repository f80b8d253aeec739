----------------------- MODULE SocketTransportsProofs -----------------------
(***************************************************************************)
(* Proofs about the UDP and TCP transports, for any pool of descriptors,   *)
(* any buffer lengths and timeouts, and any width of size_t that holds the *)
(* lengths.                                                                *)
(***************************************************************************)
EXTENDS MCSocketTransports, FiniteSetTheorems, TLAPS

-----------------------------------------------------------------------------
\* Where the UDP transport's descriptors go.

\* While the transport is open, or being opened, its descriptor is in use.
HoldsSocket == pc # "closed" => sock \in inUse

IInv == TypeOK /\ HoldsSocket /\ SocketsAccounted

LEMMA ReportType ==
    ASSUME NEW n \in Int, Report(n)
    PROVE  rv' \in 0..Word-1 /\ errcode' \in {0, 1}
BY SocketAssumption DEF Report, SizeT, SocketAssumption

LEMMA InUseFinite == TypeOK => IsFiniteSet(inUse)
BY SocketAssumption, FS_Subset DEF TypeOK, SocketAssumption

LEMMA InitIInv == Init => IInv
<1> SUFFICES ASSUME Init PROVE IInv
  OBVIOUS
<1>1. TypeOK /\ HoldsSocket
  BY SocketAssumption DEF Init, NetInit, TypeOK, HoldsSocket, SocketAssumption
<1>2. SocketsAccounted
  BY FS_EmptySet DEF Init, NetInit, SocketsAccounted
<1> QED BY <1>1, <1>2 DEF IInv

\* A step that keeps the descriptors, and whether the transport is closed.
LEMMA SameSockets ==
    ASSUME IInv, UNCHANGED <<inUse, sock, server_addr, pc, failed>>,
           rv' \in 0..Word-1, errcode' \in {0, 1}
    PROVE  IInv'
BY DEF IInv, TypeOK, HoldsSocket, SocketsAccounted

LEMMA OpenSocketStep == IInv /\ OpenSocket => IInv'
<1> SUFFICES ASSUME IInv, OpenSocket PROVE IInv'
  OBVIOUS
<1> USE SocketAssumption DEF SocketAssumption
<1>t. /\ TypeOK /\ pc = "closed" /\ IsFiniteSet(inUse) /\ Cardinality(inUse) = failed
      /\ errcode' = errcode /\ failed' = failed
  <2>1. TypeOK /\ pc = "closed" /\ errcode' = errcode /\ failed' = failed
    BY DEF IInv, OpenSocket
  <2>2. Cardinality(inUse) = failed
    BY <2>1 DEF IInv, SocketsAccounted, TypeOK
  <2> QED BY <2>1, <2>2, InUseFinite
<1>1. CASE sock' = -1
  <2>1. inUse' = inUse /\ pc' = pc /\ server_addr' = server_addr /\ rv' = 0
    BY <1>1 DEF OpenSocket, NewSocket
  <2>2. TypeOK'
    BY <1>1, <1>t, <2>1 DEF TypeOK
  <2> QED BY <1>t, <2>1, <2>2 DEF IInv, HoldsSocket, SocketsAccounted
<1>2. CASE sock' # -1
  <2>1. PICK fd \in Fds \ inUse : sock' = fd /\ inUse' = inUse \cup {fd}
    BY <1>2 DEF OpenSocket, NewSocket
  <2>2. /\ server_addr' \in {"agent", "garbage", "fault"}
        /\ pc' \in {"connect", "fault"} /\ rv' = rv
    BY <1>2 DEF OpenSocket, LookedUp
  <2>3. Cardinality(inUse') = failed + 1
    BY <1>t, <2>1, FS_AddElement
  <2>4. TypeOK'
    BY <1>t, <2>1, <2>2 DEF TypeOK
  <2> QED BY <1>t, <2>1, <2>2, <2>3, <2>4 DEF IInv, HoldsSocket, SocketsAccounted
<1> QED BY <1>1, <1>2

LEMMA ConnectStep == IInv /\ Connect => IInv'
<1> SUFFICES ASSUME IInv, Connect PROVE IInv'
  OBVIOUS
<1> USE SocketAssumption DEF SocketAssumption
<1>1. TypeOK /\ HoldsSocket /\ Cardinality(inUse) = failed + 1
  BY DEF IInv, Connect, SocketsAccounted
<1>2. /\ (pc' = "open" /\ failed' = failed) \/ (pc' = "closed" /\ failed' = failed + 1)
      /\ inUse' = inUse /\ sock' = sock
  BY DEF Connect
<1>3. TypeOK'
  <2>1. rv' \in {0, 1} /\ server_addr' = server_addr /\ errcode' = errcode
    BY DEF Connect
  <2> QED BY <1>1, <1>2, <2>1 DEF TypeOK
<1>4. HoldsSocket'
  BY <1>1, <1>2 DEF HoldsSocket, Connect
<1>5. SocketsAccounted'
  BY <1>1, <1>2 DEF SocketsAccounted, TypeOK
<1> QED BY <1>3, <1>4, <1>5 DEF IInv

LEMMA CloseStep == IInv /\ Close => IInv'
<1> SUFFICES ASSUME IInv, Close PROVE IInv'
  OBVIOUS
<1> USE SocketAssumption DEF SocketAssumption
<1>1. /\ TypeOK /\ sock \in inUse /\ Cardinality(inUse) = failed + 1 /\ IsFiniteSet(inUse)
  BY InUseFinite DEF IInv, Close, SocketsAccounted, HoldsSocket
<1>2. /\ inUse' = inUse \ {sock} /\ pc' = "closed" /\ failed' = failed
      /\ sock' = sock /\ server_addr' = server_addr /\ errcode' = errcode
  BY DEF Close, CloseSocket
<1>3. rv' \in {0, 1}
  BY DEF Close, Bool
<1>4. Cardinality(inUse') = failed
  <2>1. Cardinality(inUse \ {sock}) = Cardinality(inUse) - 1
    BY <1>1, FS_RemoveElement
  <2>2. failed \in Nat
    BY <1>1 DEF TypeOK
  <2> QED BY <1>1, <1>2, <2>1, <2>2
<1>5. TypeOK'
  BY <1>1, <1>2, <1>3 DEF TypeOK
<1> QED BY <1>2, <1>4, <1>5 DEF IInv, HoldsSocket, SocketsAccounted, TypeOK

LEMMA NextIInv == IInv /\ [Next]_vars => IInv'
<1> SUFFICES ASSUME IInv, [Next]_vars PROVE IInv'
  OBVIOUS
<1> USE SocketAssumption DEF SocketAssumption
<1>1. CASE OpenSocket \/ Connect \/ Close
  BY <1>1, OpenSocketStep, ConnectStep, CloseStep
<1>2. ASSUME NEW l \in Lens, Write(l) PROVE IInv'
  <2>1. PICK n \in Transferred(l) : Report(n)
    BY <1>2 DEF Write
  <2>2. n \in Int
    BY <2>1 DEF Transferred
  <2> QED BY <1>2, <2>1, <2>2, ReportType, SameSockets DEF Write
<1>3. ASSUME NEW l \in Lens, NEW t \in Timeouts, Read(l, t) PROVE IInv'
  <2>1. UNCHANGED <<inUse, sock, server_addr, pc, failed>>
    BY <1>3 DEF Read
  <2>2. CASE errcode' = 1 /\ rv' = 0
    BY <2>1, <2>2, SameSockets
  <2>3. CASE ~(errcode' = 1 /\ rv' = 0)
    <3>1. PICK n \in Transferred(l) : Report(n)
      BY <1>3, <2>3 DEF Read
    <3>2. n \in Int
      BY <3>1 DEF Transferred
    <3> QED BY <2>1, <3>1, <3>2, ReportType, SameSockets
  <2> QED BY <2>2, <2>3
<1>4. CASE UNCHANGED vars
  BY <1>4 DEF vars, netVars, IInv, TypeOK, HoldsSocket, SocketsAccounted
<1> QED BY <1>1, <1>2, <1>3, <1>4 DEF Next

LEMMA Invariance == Spec => []IInv
BY InitIInv, NextIInv, PTL DEF Spec

\* Every descriptor in use is the open transport's or was left by a connect that
\* failed, however many opens, closes and failures there have been.
THEOREM DescriptorsAccounted == Spec => []SocketsAccounted
<1>1. IInv => SocketsAccounted
  BY DEF IInv
<1> QED BY <1>1, Invariance, PTL
-----------------------------------------------------------------------------
\* A count within the buffer survives the conversion to size_t.
LEMMA SizeTSmall ==
    ASSUME NEW l \in Lens, NEW n \in 0..l PROVE SizeT(n) = n
BY SocketAssumption DEF SocketAssumption, SizeT

\* What Report leaves behind for a transfer of up to l bytes.
LEMMA ReportHonest ==
    ASSUME NEW l \in Lens, NEW n \in Transferred(l), Report(n)
    PROVE  rv' <= l /\ (errcode' = 1 => rv' = 0)
<1>1. l \in Nat /\ n \in -1..l
  BY SocketAssumption DEF SocketAssumption, Transferred
<1>2. CASE n = -1
  BY <1>1, <1>2 DEF Report
<1>3. CASE n # -1
  <2>1. n \in 0..l
    BY <1>1, <1>3
  <2> QED BY <1>1, <1>3, <2>1, SizeTSmall DEF Report
<1> QED BY <1>2, <1>3

LEMMA HonestStep == HonestResult /\ [Next]_vars => HonestResult'
<1> SUFFICES ASSUME HonestResult, [Next]_vars PROVE HonestResult'
  OBVIOUS
<1> USE DEF HonestResult, Called
<1>1. CASE OpenSocket
  BY <1>1 DEF OpenSocket
<1>2. CASE Connect
  BY <1>2 DEF Connect
<1>3. CASE Close
  BY <1>3 DEF Close
<1>4. ASSUME NEW l \in Lens, Write(l) PROVE HonestResult'
  <2>1. PICK n \in Transferred(l) : Report(n)
    BY <1>4 DEF Write
  <2> QED BY <1>4, <2>1, ReportHonest DEF Write
<1>5. ASSUME NEW l \in Lens, NEW t \in Timeouts, Read(l, t) PROVE HonestResult'
  <2>1. call'.len = l /\ l \in Nat
    BY <1>5, SocketAssumption DEF Read, SocketAssumption
  <2>2. CASE errcode' = 1 /\ rv' = 0
    BY <2>1, <2>2
  <2>3. CASE ~(errcode' = 1 /\ rv' = 0)
    <3>1. PICK n \in Transferred(l) : Report(n)
      BY <1>5, <2>3 DEF Read
    <3> QED BY <2>1, <3>1, ReportHonest
  <2> QED BY <2>2, <2>3
<1>6. CASE UNCHANGED vars
  BY <1>6 DEF vars, netVars
<1> QED BY <1>1, <1>2, <1>3, <1>4, <1>5, <1>6 DEF Next

\* The XRCE client never takes an error of send or recv for data, and is never
\* told of more bytes than its buffer holds.
THEOREM ResultsAreHonest == Spec => []HonestResult
<1>1. Init => HonestResult
  BY DEF Init, NetInit, HonestResult
<1> QED BY <1>1, HonestStep, PTL DEF Spec
-----------------------------------------------------------------------------
\* recv waits as long as the client asked for.

LEMMA DivMod ==
    ASSUME NEW t \in Nat, NEW K \in Nat \ {0}
    PROVE  /\ t \div K \in Nat /\ t % K \in 0..K-1
           /\ t = (t \div K) * K + (t % K)
OBVIOUS

LEMMA ProductDiv ==
    ASSUME NEW m \in Nat, NEW K \in Nat \ {0} PROVE (m * K) \div K = m
OBVIOUS

\* Splitting milliseconds into seconds and microseconds loses nothing.
LEMMA TimevalExact ==
    ASSUME NEW t \in Nat
    PROVE  LET tv == Timeval(t)
           IN  /\ tv.tv_sec * Kilo + tv.tv_usec \div Kilo = t
               /\ tv.tv_usec \in 0..(Kilo * Kilo - 1)
<1> DEFINE s == t \div Kilo
           r == t % Kilo
           u == r * Kilo
<1>k. Kilo \in Nat \ {0}
  BY UdpAssumption DEF UdpAssumption
<1>1. s \in Nat /\ r \in 0..Kilo-1 /\ t = s * Kilo + r
  BY <1>k, DivMod
<1>2. Timeval(t).tv_sec = s /\ Timeval(t).tv_usec = u
  BY DEF Timeval
<1> HIDE DEF s, r
<1>3. u \div Kilo = r
  BY <1>1, <1>k, ProductDiv
<1>4. u \in 0..(Kilo * Kilo - 1)
  <2>1. u \in Nat
    BY <1>1, <1>k
  <2>2. u <= (Kilo - 1) * Kilo
    BY <1>1, <1>k
  <2>3. (Kilo - 1) * Kilo = Kilo * Kilo - Kilo /\ Kilo * Kilo \in Nat
    BY <1>k
  <2> HIDE DEF u
  <2> QED BY <1>k, <2>1, <2>2, <2>3
<1> QED BY <1>1, <1>2, <1>3, <1>4

LEMMA WaitsStep == ReadWaits /\ [Next]_vars => ReadWaits'
<1> SUFFICES ASSUME ReadWaits, [Next]_vars PROVE ReadWaits'
  OBVIOUS
<1>u. ASSUME UNCHANGED <<call, rcvtimeo>> PROVE ReadWaits'
  BY <1>u DEF ReadWaits
<1>o. ASSUME call'.op # "read" PROVE ReadWaits'
  BY <1>o DEF ReadWaits
<1>1. CASE OpenSocket
  <2>1. CASE UNCHANGED call
    BY <1>1, <1>u, <2>1 DEF OpenSocket
  <2>2. CASE Called("open", 0, 0)
    BY <1>o, <2>2 DEF Called
  <2> QED BY <1>1, <2>1, <2>2 DEF OpenSocket
<1>2. CASE Connect \/ Close
  BY <1>2, <1>o DEF Connect, Close, Called
<1>3. ASSUME NEW l \in Lens, Write(l) PROVE ReadWaits'
  BY <1>3, <1>o DEF Write, Called
<1>4. ASSUME NEW l \in Lens, NEW t \in Timeouts, Read(l, t) PROVE ReadWaits'
  <2>1. CASE Called("setsockopt", l, t)
    BY <1>o, <2>1 DEF Called
  <2>2. CASE Called("read", l, t) /\ rcvtimeo' = Timeval(AtLeastOne(t))
    <3>1. t \in Int
      BY SocketAssumption DEF SocketAssumption
    <3>2. AtLeastOne(t) \in Nat /\ AtLeastOne(t) = IF t > 0 THEN t ELSE 1
      BY <3>1 DEF AtLeastOne
    <3>3. /\ rcvtimeo'.tv_sec * Kilo + rcvtimeo'.tv_usec \div Kilo = AtLeastOne(t)
          /\ rcvtimeo'.tv_usec \in 0..(Kilo * Kilo - 1)
      BY <2>2, <3>2, TimevalExact
    <3>4. call'.timeout = t
      BY <2>2 DEF Called
    <3> QED BY <3>2, <3>3, <3>4 DEF ReadWaits
  <2> QED BY <1>4, <2>1, <2>2 DEF Read
<1>5. CASE UNCHANGED vars
  BY <1>5, <1>u DEF vars
<1> QED BY <1>1, <1>2, <1>3, <1>4, <1>5 DEF Next

\* A read waits for the client's timeout and no longer, whatever the timeout is:
\* the milliseconds survive the conversion, and zero never means for ever.
THEOREM ReadsWaitAsAsked == Spec => []ReadWaits
<1>1. Init => ReadWaits
  BY DEF Init, ReadWaits
<1> QED BY <1>1, WaitsStep, PTL DEF Spec
-----------------------------------------------------------------------------
\* Both transports over the one socket layer.

\* What the steps of the TCP transport preserve.
TcpInv == Tcp!TypeOK /\ Tcp!NoSocketLeak

BuiltInv == IF build = "udp" THEN IInv ELSE TcpInv

\* The pool never hands out -1, so a socket of -1 means that nothing was taken.
LEMMA NewSocketTcp ==
    ASSUME inUse = {}, NewSocket
    PROVE  \/ sock' = -1 /\ inUse' = {}
           \/ sock' \in Fds /\ sock' # -1 /\ inUse' = {sock'}
BY SocketAssumption DEF SocketAssumption, NewSocket

LEMMA TransferredType ==
    ASSUME NEW l \in Lens, NEW n \in Transferred(l)
    PROVE  SizeT(n) \in 0..Word-1
<1>1. n \in Int
  BY DEF Transferred
<1> QED BY <1>1, SocketAssumption DEF SizeT, SocketAssumption

LEMMA TcpStep == TcpInv /\ Tcp!Next => TcpInv'
<1> SUFFICES ASSUME TcpInv, Tcp!Next PROVE TcpInv'
  OBVIOUS
<1> USE SocketAssumption DEF SocketAssumption, TcpInv, Tcp!TypeOK, Tcp!NoSocketLeak
<1>1. CASE Tcp!OpenSocket
  <2>1. pc = "closed" /\ inUse = {} /\ NewSocket
    BY <1>1 DEF Tcp!OpenSocket, Tcp!NewSocket, NewSocket
  <2>2. CASE sock' = -1
    <3>1. inUse' = {} /\ pc' = pc /\ rv' = 0 /\ UNCHANGED <<server_addr, timeo>>
      BY <1>1, <2>1, <2>2, NewSocketTcp DEF Tcp!OpenSocket
    <3> QED BY <2>1, <2>2, <3>1
  <2>3. CASE sock' # -1
    <3>1. sock' \in Fds /\ inUse' = {sock'}
      BY <2>1, <2>3, NewSocketTcp
    <3>2. /\ server_addr' \in {"agent", "garbage", "fault"}
          /\ pc' \in {"connect", "fault"} /\ timeo' \in {0, 200} /\ rv' = rv
      BY <1>1, <2>3 DEF Tcp!OpenSocket, Tcp!LookedUp
    <3> QED BY <3>1, <3>2
  <2> QED BY <2>2, <2>3
<1>2. CASE Tcp!Connect
  <2>1. pc = "connect" /\ inUse = {sock} /\ UNCHANGED <<sock, server_addr, timeo>>
    BY <1>2 DEF Tcp!Connect
  <2>2. CASE rv' = 1 /\ pc' = "open" /\ inUse' = inUse
    BY <2>1, <2>2
  <2>3. CASE rv' = 0 /\ pc' = "closed" /\ Tcp!CloseSocket
    <3>1. inUse' = {}
      BY <2>1, <2>3 DEF Tcp!CloseSocket
    <3> QED BY <2>1, <2>3, <3>1
  <2> QED BY <1>2, <2>2, <2>3 DEF Tcp!Connect
<1>3. CASE Tcp!Close
  <2>1. inUse' = {} /\ pc' = "closed" /\ UNCHANGED <<sock, server_addr, timeo>>
    BY <1>3 DEF Tcp!Close, Tcp!CloseSocket
  <2>2. rv' \in {0, 1}
    BY <1>3 DEF Tcp!Close, Tcp!Bool
  <2> QED BY <2>1, <2>2
<1>s. ASSUME UNCHANGED <<inUse, sock, server_addr, pc, timeo>>, rv' \in 0..Word-1
      PROVE  TcpInv'
  BY <1>s
<1>4. ASSUME NEW l \in Lens, Tcp!Write(l) PROVE TcpInv'
  <2>1. rv' \in 0..Word-1
    BY <1>4, TransferredType DEF Tcp!Write, Tcp!Transferred, Tcp!SizeT, Transferred, SizeT
  <2> QED BY <1>4, <1>s, <2>1 DEF Tcp!Write
<1>5. ASSUME NEW l \in Lens, NEW t \in Timeouts, Tcp!Read(l, t) PROVE TcpInv'
  <2>1. rv' \in 0..Word-1
    BY <1>5, TransferredType DEF Tcp!Read, Tcp!Transferred, Tcp!SizeT, Transferred, SizeT
  <2> QED BY <1>5, <1>s, <2>1 DEF Tcp!Read
<1> QED BY <1>1, <1>2, <1>3, <1>4, <1>5 DEF Tcp!Next

LEMMA BuiltInvariance == BuiltSpec => []BuiltInv
<1>1. BuiltInit => BuiltInv
  <2> SUFFICES ASSUME BuiltInit PROVE BuiltInv
    OBVIOUS
  <2>1. IInv
    BY InitIInv DEF BuiltInit
  <2>2. TcpInv
    BY SocketAssumption
       DEF BuiltInit, Tcp!Init, Tcp!NetInit, TcpInv, Tcp!TypeOK, Tcp!NoSocketLeak,
           SocketAssumption
  <2> QED BY <2>1, <2>2 DEF BuiltInv
<1>2. BuiltInv /\ [BuiltNext]_<<vars, tcpVars, build>> => BuiltInv'
  <2> SUFFICES ASSUME BuiltInv, [BuiltNext]_<<vars, tcpVars, build>> PROVE BuiltInv'
    OBVIOUS
  <2>1. CASE build = "udp" /\ Next /\ build' = build
    BY <2>1, NextIInv DEF BuiltInv
  <2>2. CASE build = "tcp" /\ Tcp!Next /\ build' = build
    BY <2>2, TcpStep DEF BuiltInv
  <2>3. CASE UNCHANGED <<vars, tcpVars, build>>
    <3>1. IInv => IInv'
      BY <2>3, NextIInv
    <3>2. TcpInv => TcpInv'
      BY <2>3 DEF vars, netVars, tcpVars, TcpInv, Tcp!TypeOK, Tcp!NoSocketLeak
    <3> QED BY <2>3, <3>1, <3>2 DEF BuiltInv
  <2> QED BY <2>1, <2>2, <2>3 DEF BuiltNext
<1> QED BY <1>1, <1>2, PTL DEF BuiltSpec

\* Whichever transport is built in, its results fit their C types and its socket
\* is one of the pool, -1 or the initial zero.
THEOREM BuiltTypeCorrect == BuiltSpec => []BuiltTypeOK
<1>1. BuiltInv => BuiltTypeOK
  BY DEF BuiltInv, BuiltTypeOK, IInv, TcpInv
<1> QED BY <1>1, BuiltInvariance, PTL

\* The TCP transport never leaks a descriptor: every path on which open fails
\* closes the socket it has made, and close closes the one in use.
THEOREM TcpNeverLeaks == BuiltSpec => []TcpNoSocketLeak
<1>1. BuiltInv => TcpNoSocketLeak
  BY DEF BuiltInv, TcpNoSocketLeak, TcpInv
<1> QED BY <1>1, BuiltInvariance, PTL
=============================================================================
