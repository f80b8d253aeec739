------------------------------ MODULE ByteStream ------------------------------
(***************************************************************************)
(* What a stream-oriented custom transport promises the XRCE client above  *)
(* it (uxr_set_custom_transport_callbacks with framing = true): the bytes  *)
(* the client reads are bytes that arrived, each at most once and in the   *)
(* order of arrival.  Bytes may be lost, and the framing layer finds out   *)
(* from its CRC; nothing else may happen to them.                          *)
(*                                                                         *)
(* Bytes are numbered 1, 2, ... in the order they arrive.                  *)
(***************************************************************************)
EXTENDS Integers, Sequences

CONSTANT MaxBytes   \* bound: bytes that ever arrive

VARIABLES pending,    \* bytes received and not yet handed to the client
          delivered,  \* bytes handed to the client
          arrived,    \* how many bytes have arrived
          lost        \* how many were dropped

vars == <<pending, delivered, arrived, lost>>

Init == pending = <<>> /\ delivered = <<>> /\ arrived = 0 /\ lost = 0

\* A byte arrives; room may be made for it by dropping the k-th pending one.
Arrive ==
    /\ arrived < MaxBytes
    /\ arrived' = arrived + 1
    /\ \/ pending' = Append(pending, arrived + 1) /\ UNCHANGED lost
       \/ \E k \in 1..Len(pending) :
             /\ pending' = SubSeq(pending, 1, k - 1)
                           \o SubSeq(pending, k + 1, Len(pending))
                           \o <<arrived + 1>>
             /\ lost' = lost + 1
    /\ UNCHANGED delivered

\* A read returns the first n pending bytes.
Deliver ==
    /\ \E n \in 0..Len(pending) :
          /\ delivered' = delivered \o SubSeq(pending, 1, n)
          /\ pending' = SubSeq(pending, n + 1, Len(pending))
    /\ UNCHANGED <<arrived, lost>>

\* Closing the transport discards what was not read.
Flush ==
    /\ pending' = <<>> /\ lost' = lost + Len(pending)
    /\ UNCHANGED <<delivered, arrived>>

Next == Arrive \/ Deliver \/ Flush

Spec == Init /\ [][Next]_vars
-----------------------------------------------------------------------------
\* Every byte that arrived is delivered, pending or lost: none is made up,
\* duplicated or silently forgotten.
Accounted == Len(delivered) + Len(pending) + lost = arrived

\* What the client has read, followed by what it can still read, is in the
\* order of arrival, without repetition, and arrived.
InOrder ==
    LET s == delivered \o pending
    IN  /\ \A i, j \in 1..Len(s) : i < j => s[i] < s[j]
        /\ \A i \in 1..Len(s) : s[i] <= arrived
=============================================================================
