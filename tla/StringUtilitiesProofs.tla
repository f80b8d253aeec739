------------------------- MODULE StringUtilitiesProofs -------------------------
(***************************************************************************)
(* What every sequence of calls of the string utilities preserves, for any *)
(* set of blocks and any length.  The three invariants are inductive only  *)
(* together: that a write ends at most one byte behind the block needs     *)
(* capacity to be the size of the block.  And what the listing of any      *)
(* message type preserves, for every set of types.                         *)
(***************************************************************************)
EXTENDS MCStringUtilities, RecursionProofs, SequenceTheorems, TLAPS

IInv == TypeOK /\ OwnsItsBlock /\ AtMostTerminatorPast

\* A block of at least o + n - 1 bytes is overrun by one byte at most.
LEMMA PastBound ==
    ASSUME NEW h, NEW b, NEW o \in Nat, NEW n \in Nat, h[b] \in Nat, o + n <= h[b] + 1
    PROVE  Past(h, b, o, n) \in 0..1
BY DEF Past

LEMMA InitIInv == Init => IInv
BY StringAssumption DEF Init, IInv, TypeOK, OwnsItsBlock, AtMostTerminatorPast, NoString,
   Live, StringAssumption

\* The string after a call of set or append whose block grew.
LEMMA GrowStep ==
    ASSUME IInv, pc = "live", UNCHANGED pc,
           NEW o \in 0..MaxLen, NEW w \in 0..MaxLen, NEW n \in 0..MaxLen, o + w = n,
           NEW b \in (Blocks \ Live) \cup {str.data},
           heap' = Reallocated(str.data, b, n + 1),
           str' = [data |-> b, size |-> n, capacity |-> n + 1],
           past' = Past(heap', b, o, w + 1)
    PROVE  IInv'
<1> USE StringAssumption DEF StringAssumption
<1>1. Live = {str.data} /\ str.data \in Blocks
  BY DEF IInv, OwnsItsBlock, TypeOK
<1>2. heap' = [x \in {b} |-> n + 1]
  BY <1>1 DEF Reallocated
<1>3. heap'[b] = n + 1 /\ Live' = {b}
  BY <1>2 DEF Live
<1>4. past' \in 0..1
  <2>1. o \in Nat /\ w + 1 \in Nat /\ heap'[b] \in Nat /\ o + (w + 1) <= heap'[b] + 1
    BY <1>3
  <2>2. Past(heap', b, o, w + 1) \in 0..1
    BY <2>1 DEF Past
  <2> QED BY <2>2
<1>5. TypeOK'
  <2>1. b \in Blocks
    BY <1>1
  <2>2. Live' \subseteq Blocks /\ heap' \in [Live' -> 1..(MaxLen + 1)]
    BY <1>2, <1>3, <2>1
  <2>3. str' \in [data : Blocks \cup {NULL}, size : 0..MaxLen, capacity : 0..(MaxLen + 1)]
    BY <2>1
  <2> QED BY <1>4, <2>2, <2>3 DEF TypeOK, IInv
<1>6. OwnsItsBlock'
  BY <1>3 DEF OwnsItsBlock
<1>7. AtMostTerminatorPast'
  BY <1>4 DEF AtMostTerminatorPast
<1> QED BY <1>5, <1>6, <1>7 DEF IInv

\* The same where the text fits the block as it is.
LEMMA FitStep ==
    ASSUME IInv, pc = "live", UNCHANGED <<heap, pc>>,
           NEW o \in 0..MaxLen, NEW w \in 0..MaxLen, NEW n \in 0..MaxLen, o + w = n,
           n <= str.capacity,
           str' = [str EXCEPT !.size = n],
           past' = Past(heap, str.data, o, w + 1)
    PROVE  IInv'
<1> USE StringAssumption DEF StringAssumption
<1>1. heap[str.data] = str.capacity /\ str.capacity \in 0..(MaxLen + 1) /\ Live = {str.data}
  BY DEF IInv, OwnsItsBlock, TypeOK
<1>2. past' \in 0..1
  <2>1. o \in Nat /\ w + 1 \in Nat /\ heap[str.data] \in Nat
        /\ o + (w + 1) <= heap[str.data] + 1
    BY <1>1
  <2>2. Past(heap, str.data, o, w + 1) \in 0..1
    BY <2>1, PastBound
  <2> QED BY <2>2
<1>3. /\ str' \in [data : Blocks \cup {NULL}, size : 0..MaxLen, capacity : 0..(MaxLen + 1)]
      /\ str'.data = str.data /\ str'.capacity = str.capacity /\ str'.size = n
  BY DEF IInv, TypeOK
<1>4. TypeOK'
  BY <1>2, <1>3 DEF IInv, TypeOK, Live
<1>5. OwnsItsBlock'
  BY <1>1, <1>3 DEF OwnsItsBlock, Live
<1>6. AtMostTerminatorPast'
  BY <1>2, <1>3 DEF AtMostTerminatorPast
<1> QED BY <1>4, <1>5, <1>6 DEF IInv

LEMMA FaultStep == IInv /\ Fault => IInv'
BY DEF IInv, Fault, TypeOK, OwnsItsBlock, AtMostTerminatorPast, Live

\* What set and append share.
LEMMA WriteStep ==
    ASSUME IInv, pc = "live", NEW grow \in BOOLEAN,
           NEW o \in 0..MaxLen, NEW w \in 0..MaxLen, NEW n \in 0..MaxLen, o + w = n,
           ~grow => n <= str.capacity, Write(grow, o, w, n)
    PROVE  IInv'
<1>1. CASE grow
  <2>1. CASE Fault
    BY <2>1, FaultStep
  <2>2. CASE ~Fault
    <3>1. PICK b \in (Blocks \ Live) \cup {str.data} :
            /\ heap' = Reallocated(str.data, b, n + 1)
            /\ str' = [data |-> b, size |-> n, capacity |-> n + 1]
            /\ past' = Past(heap', b, o, w + 1)
            /\ UNCHANGED pc
      BY <1>1, <2>2 DEF Write
    <3> QED BY <3>1, GrowStep
  <2> QED BY <2>1, <2>2
<1>2. CASE ~grow
  <2>1. /\ str' = [str EXCEPT !.size = n]
        /\ past' = Past(heap, str.data, o, w + 1)
        /\ UNCHANGED <<heap, pc>>
    BY <1>2 DEF Write
  <2> QED BY <1>2, <2>1, FitStep
<1> QED BY <1>1, <1>2

LEMMA NextIInv == IInv /\ [Next]_vars => IInv'
<1> SUFFICES ASSUME IInv, [Next]_vars PROVE IInv'
  OBVIOUS
<1> USE StringAssumption DEF StringAssumption
<1>t. pc = "live" => /\ str.size \in 0..MaxLen /\ str.capacity \in 0..(MaxLen + 1)
                     /\ Live = {str.data} /\ heap[str.data] = str.capacity
  BY DEF IInv, TypeOK, OwnsItsBlock
<1>1. ASSUME NEW n \in 0..MaxLen, init(n) PROVE IInv'
  <2>1. CASE Fault
    BY <2>1, FaultStep
  <2>2. CASE ~Fault
    <3>1. PICK b \in Blocks \ Live :
             /\ heap' = Allocated(b, n + 1)
             /\ str' = [data |-> b, size |-> n, capacity |-> n + 1]
             /\ past' = Past(heap', b, 0, n + 1)
             /\ pc' = "live"
      BY <1>1, <2>2 DEF init
    <3>2. Live = {}
      BY <1>1 DEF init, IInv, OwnsItsBlock
    <3>3. heap' = [x \in {b} |-> n + 1]
      BY <3>1, <3>2 DEF Allocated
    <3>4. heap'[b] = n + 1 /\ Live' = {b}
      BY <3>3 DEF Live
    <3>5. past' \in 0..1
      BY <3>1, <3>4, PastBound
    <3>6. Live' \subseteq Blocks /\ heap' \in [Live' -> 1..(MaxLen + 1)]
      BY <3>1, <3>3, <3>4
    <3>7. TypeOK'
      BY <3>1, <3>5, <3>6 DEF TypeOK
    <3>8. OwnsItsBlock'
      BY <3>1, <3>4 DEF OwnsItsBlock
    <3>9. AtMostTerminatorPast'
      BY <3>1, <3>5 DEF AtMostTerminatorPast
    <3> QED BY <3>7, <3>8, <3>9 DEF IInv
  <2> QED BY <2>1, <2>2
<1>2. ASSUME NEW n \in 0..MaxLen, set(n) PROVE IInv'
  <2>1. pc = "live" /\ Write(n > str.capacity, 0, n, n) /\ 0 + n = n
    BY <1>2 DEF set
  <2>2. ~(n > str.capacity) => n <= str.capacity
    BY <1>t, <2>1
  <2> DEFINE g == n > str.capacity
  <2>3. g \in BOOLEAN /\ (~g => n <= str.capacity) /\ Write(g, 0, n, n)
    BY <2>1, <2>2
  <2> HIDE DEF g
  <2>4. 0 \in 0..MaxLen /\ 0 + n = n
    OBVIOUS
  <2> QED BY <2>1, <2>3, <2>4, WriteStep
<1>3. ASSUME NEW n \in 0..MaxLen, append(n) PROVE IInv'
  <2>1. /\ pc = "live" /\ str.size + n <= MaxLen
        /\ Write(str.size + n > str.capacity, str.size, n, str.size + n)
    BY <1>3 DEF append
  <2>2. str.size \in 0..MaxLen /\ str.size + n \in 0..MaxLen
    BY <1>t, <2>1
  <2>3. ~(str.size + n > str.capacity) => str.size + n <= str.capacity
    BY <1>t, <2>1, <2>2
  <2> DEFINE g == str.size + n > str.capacity
             l == str.size + n
  <2>4. g \in BOOLEAN /\ (~g => l <= str.capacity) /\ Write(g, str.size, n, l)
    BY <2>1, <2>3
  <2>5. str.size \in 0..MaxLen /\ l \in 0..MaxLen /\ str.size + n = l
    BY <2>2
  <2> HIDE DEF g, l
  <2> QED BY <2>1, <2>4, <2>5, WriteStep
<1>4. ASSUME NEW n \in 0..MaxLen, remove_tail_chars(n) PROVE IInv'
  <2> DEFINE s == str.size - n
  <2>1. /\ pc = "live" /\ n <= str.size /\ UNCHANGED <<heap, pc>>
        /\ str' = [str EXCEPT !.size = s] /\ past' = Past(heap, str.data, s, 0 + 1)
    BY <1>4 DEF remove_tail_chars
  <2>2. s \in 0..MaxLen /\ s + 0 = s /\ s <= str.capacity
    BY <1>t, <2>1 DEF IInv, AtMostTerminatorPast
  <2> HIDE DEF s
  <2> QED BY <2>1, <2>2, FitStep
<1>5. ASSUME destroy PROVE IInv'
  <2>1. /\ heap' = [b \in {} |-> heap[b]] /\ str' = NoString /\ past' = 0 /\ pc' = "none"
    BY <1>5, <1>t DEF destroy
  <2>2. Live' = {}
    BY <2>1 DEF Live
  <2> QED BY <2>1, <2>2 DEF IInv, TypeOK, OwnsItsBlock, AtMostTerminatorPast, NoString
<1>6. CASE UNCHANGED vars
  BY <1>6 DEF vars, IInv, TypeOK, OwnsItsBlock, AtMostTerminatorPast, Live
<1> QED BY <1>1, <1>2, <1>3, <1>4, <1>5, <1>6 DEF Next

LEMMA Invariance == Spec => []IInv
BY InitIInv, NextIInv, PTL DEF Spec

\* However often a string grows or moves, its block is neither leaked nor shared
\* and its capacity is the block's size.
THEOREM StringOwnsItsBlock == Spec => []OwnsItsBlock
<1>1. IInv => OwnsItsBlock
  BY DEF IInv
<1> QED BY <1>1, Invariance, PTL

\* No sequence of calls writes more than one byte behind the block, although set
\* and append leave the terminator out of their test.  The calls are those of
\* callers that remove no more characters than the string has.
THEOREM OverrunIsOneByte == Spec => []AtMostTerminatorPast
<1>1. IInv => AtMostTerminatorPast
  BY DEF IInv
<1> QED BY <1>1, Invariance, PTL
-----------------------------------------------------------------------------
\* The listing of a type.

\* Strings, and calls of print_type_info.
Strings == [data : Nat, size : Nat, capacity : Nat]
Calls == [type : DOMAIN Types, indent : Strings, i : Int]

\* The k-th call has k characters in its string, once it has begun.
CallOK(f, k) ==
    /\ f.i \in -1..Len(Types[f.type])
    /\ f.indent.size = IF f.i = -1 THEN k - 1 ELSE k

CallsOK(s) == s \in Seq(Calls) /\ \A k \in 1..Len(s) : CallOK(s[k], k)

ListInv ==
    /\ status \in {"idle", "listing", "returned", "null", "stale"}
    /\ root \in DOMAIN Types /\ moves \in BOOLEAN
    /\ \A b \in DOMAIN tabs : tabs[b] \in Nat
    /\ CallsOK(frames)

\* Without moves, or without nested types, one block serves all calls: it is too
\* small for one character and its terminator, but append does not see that.
BlockInv ==
    /\ status = "stale" => moves /\ Info!Nested(root)
    /\ status = "listing" /\ frames # << >> => frames[1].type = root
    /\ status = "listing" /\ ~(moves /\ Info!Nested(root)) =>
          /\ DOMAIN tabs = {1} /\ indent_buffer.data = 1
          /\ \A k \in 1..Len(frames) : frames[k].indent.data = 1
          /\ moves => /\ Len(frames) <= 1
                      /\ frames # << >> => frames[1].indent.capacity = 1

LEMMA TypeMembers ==
    ASSUME NEW t \in DOMAIN Types
    PROVE  /\ Types[t] \in Seq([name : STRING, type : STRING]) /\ Len(Types[t]) \in Nat
BY ListedAssumption, LenProperties DEF ListedAssumption

\* What a step of the innermost call finds.
LEMMA TopCall ==
    ASSUME CallsOK(frames), frames # << >>
    PROVE  /\ Len(frames) \in Nat \ {0} /\ Info!Top = frames[Len(frames)]
           /\ Info!Top \in Calls /\ CallOK(Info!Top, Len(frames))
<1>1. Len(frames) \in Nat \ {0}
  BY EmptySeq DEF CallsOK
<1> QED BY <1>1, ElementOfSeq DEF CallsOK, Info!Top

\* The innermost call goes on as f.
LEMMA Replaced ==
    ASSUME CallsOK(frames), frames # << >>, NEW f \in Calls
    PROVE  /\ Append(Info!Returned, f) \in Seq(Calls)
           /\ Len(Append(Info!Returned, f)) = Len(frames)
           /\ Append(Info!Returned, f)[Len(frames)] = f
           /\ \A k \in 1..(Len(frames) - 1) : Append(Info!Returned, f)[k] = frames[k]
           /\ Info!Returned \in Seq(Calls) /\ Len(Info!Returned) = Len(frames) - 1
           /\ \A k \in 1..(Len(frames) - 1) : Info!Returned[k] = frames[k]
<1> DEFINE n == Len(frames) - 1
           s == Info!Returned
<1>1. n \in Nat /\ n + 1 = Len(frames) /\ n <= Len(frames)
  BY TopCall
<1>2. \A k \in 1..n : frames[k] \in Calls
  BY <1>1, ElementOfSeq DEF CallsOK
<1>3. s \in Seq(Calls) /\ Len(s) = n /\ \A k \in 1..n : s[k] = frames[k]
  <2>1. s = SubSeq(frames, 1, n)
    BY DEF Info!Returned
  <2> HIDE DEF s, n
  <2> QED BY <1>1, <1>2, <2>1, SubSeqProperties DEF CallsOK
<1> HIDE DEF s, n
<1>4. /\ Append(s, f) \in Seq(Calls) /\ Len(Append(s, f)) = n + 1
      /\ Append(s, f)[n + 1] = f /\ \A k \in 1..n : Append(s, f)[k] = s[k]
  BY <1>1, <1>3
<1> QED BY <1>1, <1>3, <1>4 DEF s, n

LEMMA ReplacedOK ==
    ASSUME CallsOK(frames), frames # << >>, NEW f \in Calls, CallOK(f, Len(frames))
    PROVE  CallsOK(Append(Info!Returned, f)) /\ CallsOK(Info!Returned)
<1> DEFINE s == Append(Info!Returned, f)
           r == Info!Returned
           n == Len(frames)
<1>1. /\ s \in Seq(Calls) /\ Len(s) = n /\ s[n] = f
      /\ \A k \in 1..(n - 1) : s[k] = frames[k]
      /\ r \in Seq(Calls) /\ Len(r) = n - 1 /\ \A k \in 1..(n - 1) : r[k] = frames[k]
  BY Replaced
<1>2. n \in Nat \ {0} /\ \A k \in 1..n : CallOK(frames[k], k)
  BY TopCall DEF CallsOK
<1> HIDE DEF s, r, n
<1>3. \A k \in 1..n : CallOK(s[k], k)
  BY <1>1, <1>2 DEF n
<1>4. \A k \in 1..(n - 1) : CallOK(r[k], k)
  BY <1>1, <1>2
<1>5. CallsOK(s) /\ CallsOK(r)
  BY <1>1, <1>3, <1>4 DEF CallsOK
<1> QED BY <1>5 DEF s, r

\* The innermost call goes on as f and calls g.
LEMMA CalledOK ==
    ASSUME NEW s, CallsOK(s), NEW g \in Calls, CallOK(g, Len(s) + 1)
    PROVE  CallsOK(Append(s, g))
<1>1. s \in Seq(Calls) /\ Len(s) \in Nat
  BY LenProperties DEF CallsOK
<1>2. /\ Append(s, g) \in Seq(Calls) /\ Len(Append(s, g)) = Len(s) + 1
      /\ Append(s, g)[Len(s) + 1] = g /\ \A k \in 1..Len(s) : Append(s, g)[k] = s[k]
  BY <1>1
<1>3. ASSUME NEW k \in 1..(Len(s) + 1) PROVE CallOK(Append(s, g)[k], k)
  BY <1>1, <1>2 DEF CallsOK
<1> QED BY <1>2, <1>3 DEF CallsOK

LEMMA StopKeeps ==
    ASSUME ListInv, NEW why \in {"null", "stale"}, Info!Stop(why)
    PROVE  ListInv'
BY DEF ListInv, Info!Stop, CallsOK

LEMMA StartKeeps ==
    ASSUME ListInv, NEW t \in DOMAIN Types, Info!micro_ros_utilities_type_info(t)
    PROVE  ListInv'
<1>1. root' = t /\ UNCHANGED moves
  BY DEF Info!micro_ros_utilities_type_info
<1>2. CASE status' = "null" /\ UNCHANGED <<tabs, frames>>
  BY <1>1, <1>2 DEF ListInv, CallsOK
<1>3. CASE /\ status' = "listing" /\ tabs' = <<0>>
           /\ indent_buffer' = [data |-> 1, size |-> 0, capacity |-> 1]
           /\ frames' = <<Info!Call(t, indent_buffer')>>
  <2> DEFINE f == Info!Call(t, indent_buffer')
  <2>1. f \in Calls /\ f.i = -1 /\ f.type = t /\ f.indent.size = 0
    BY <1>3 DEF Info!Call, Calls, Strings
  <2>2. Len(Types[t]) \in Nat
    BY TypeMembers
  <2>3. CallOK(f, 1)
    BY <2>1, <2>2 DEF CallOK
  <2> HIDE DEF f
  <2>4. frames' = <<f>>
    BY <1>3 DEF f
  <2>5. CallsOK(frames')
    BY <2>1, <2>3, <2>4 DEF CallsOK
  <2> QED BY <1>1, <1>3, <2>5 DEF ListInv
<1> QED BY <1>2, <1>3 DEF Info!micro_ros_utilities_type_info

LEMMA Begun ==
    ASSUME NEW c \in Calls, NEW z \in Strings
    PROVE  LET f == [c EXCEPT !.i = 0, !.indent = z]
           IN  f \in Calls /\ f.i = 0 /\ f.type = c.type /\ f.indent = z
<1> DEFINE f == [c EXCEPT !.i = 0, !.indent = z]
<1>0. c = [type |-> c.type, indent |-> c.indent, i |-> c.i]
  BY DEF Calls
<1> DEFINE g == [c EXCEPT !.i = 0]
<1>g. g = [type |-> c.type, indent |-> c.indent, i |-> 0]
  BY <1>0
<1>f. f = [g EXCEPT !.indent = z]
  OBVIOUS
<1> HIDE DEF f, g
<1>1. f = [type |-> c.type, indent |-> z, i |-> 0]
  BY <1>g, <1>f
<1>2. c.type \in DOMAIN Types
  BY DEF Calls
<1> HIDE DEF f
<1>3. f \in Calls
  BY <1>1, <1>2 DEF Calls
<1>4. f.i = 0 /\ f.type = c.type /\ f.indent = z
  BY <1>1
<1> QED BY <1>3, <1>4 DEF f

LEMMA EnterKeeps == ListInv /\ Info!Enter => ListInv'
<1> SUFFICES ASSUME ListInv, Info!Enter PROVE ListInv'
  OBVIOUS
<1>0. /\ frames # << >> /\ Info!Top.i = -1 /\ CallsOK(frames) /\ UNCHANGED <<status, root, moves>>
      /\ Info!Top.indent.data \in DOMAIN tabs
  BY DEF Info!Enter, Info!Beginning, ListInv, Info!Live
<1>1. /\ Len(frames) \in Nat \ {0} /\ Info!Top \in Calls /\ CallOK(Info!Top, Len(frames))
      /\ Len(Types[Info!Top.type]) \in Nat
  BY <1>0, TopCall, TypeMembers DEF Calls
<1> DEFINE s == Info!Top.indent
           room == IF Info!Grows(s) THEN s.size + 2 ELSE s.capacity
           new(b) == [data |-> b, size |-> s.size + 1, capacity |-> room]
           f(b) == [Info!Top EXCEPT !.i = 0, !.indent = new(b)]
<1>2. s \in Strings
  BY <1>1 DEF Calls
<1>3. PICK b \in Info!MayHold(s) :
         tabs' = Info!Tabbed(s, b) /\ frames' = Append(Info!Returned, f(b))
  BY DEF Info!Enter
<1>4. b \in Nat
  BY <1>2 DEF Info!MayHold, Strings
<1>5. new(b) \in Strings /\ new(b).size = s.size + 1
  BY <1>2, <1>4 DEF Strings
<1> HIDE DEF new
<1>6. f(b) \in Calls /\ f(b).i = 0 /\ f(b).type = Info!Top.type /\ f(b).indent = new(b)
  BY <1>1, <1>5, Begun
<1> HIDE DEF f
<1>7. s.size = Len(frames) - 1
  BY <1>0, <1>1 DEF CallOK
<1>8. CallOK(f(b), Len(frames))
  BY <1>1, <1>5, <1>6, <1>7 DEF CallOK
<1>9. CallsOK(frames')
  BY <1>0, <1>3, <1>6, <1>8, ReplacedOK
<1>10. \A x \in DOMAIN tabs' : tabs'[x] \in Nat
  <2> DEFINE n == IF tabs[s.data] < s.size THEN tabs[s.data] ELSE s.size + 1
  <2>1. n \in Nat
    BY <1>0, <1>2 DEF ListInv, Strings
  <2> HIDE DEF n
  <2>2. /\ DOMAIN tabs' \subseteq DOMAIN tabs \cup {b}
        /\ \A x \in DOMAIN tabs' : tabs'[x] = IF x = b THEN n ELSE tabs[x]
    BY <1>0, <1>3 DEF Info!Tabbed, Info!Live, n
  <2> QED BY <2>1, <2>2 DEF ListInv
<1> QED BY <1>0, <1>9, <1>10 DEF ListInv

LEMMA PrintKeeps == ListInv /\ Info!PrintMember => ListInv'
<1> SUFFICES ASSUME ListInv, Info!PrintMember PROVE ListInv'
  OBVIOUS
<1>0. /\ frames # << >> /\ Info!Top.i \in 0..(Len(Types[Info!Top.type]) - 1) /\ CallsOK(frames)
  BY DEF Info!PrintMember, ListInv, Info!Members
<1>1. /\ Len(frames) \in Nat \ {0} /\ Info!Top \in Calls /\ CallOK(Info!Top, Len(frames))
      /\ Len(Types[Info!Top.type]) \in Nat
  BY <1>0, TopCall, TypeMembers DEF Calls
<1> DEFINE f == [Info!Top EXCEPT !.i = @ + 1]
           t == Info!Members[Info!Top.i + 1].type
           g == Info!Call(t, Info!Top.indent)
           counted == Append(Info!Returned, f)
<1>2. Info!Top.i + 1 \in Int /\ Info!Top.i + 1 # -1 /\ Info!Top.i + 1 \in -1..Len(Types[Info!Top.type])
  BY <1>0, <1>1
<1>3. f \in Calls /\ f.i = Info!Top.i + 1 /\ f.type = Info!Top.type /\ f.indent = Info!Top.indent
  BY <1>1, <1>2 DEF Calls
<1> HIDE DEF f
<1>4. CallOK(f, Len(frames))
  BY <1>0, <1>1, <1>2, <1>3 DEF CallOK
<1>5. CallsOK(counted) /\ Len(counted) = Len(frames)
  BY <1>0, <1>3, <1>4, ReplacedOK, Replaced
<1> HIDE DEF counted
<1>6. ASSUME t \in DOMAIN Types PROVE CallsOK(Append(counted, g))
  <2>1. g \in Calls /\ g.i = -1 /\ g.type = t /\ g.indent = Info!Top.indent
    BY <1>1, <1>6 DEF Info!Call, Calls
  <2> HIDE DEF g, t
  <2>2. Len(Types[g.type]) \in Nat
    BY <1>6, <2>1, TypeMembers
  <2>3. CallOK(g, Len(counted) + 1)
    <3>1. g.indent.size = Len(frames)
      BY <1>0, <1>1, <2>1 DEF CallOK
    <3> QED BY <1>1, <1>5, <2>1, <2>2, <3>1 DEF CallOK
  <2> QED BY <1>5, <2>1, <2>3, CalledOK
<1>7. CASE /\ frames' = counted \/ (t \in DOMAIN Types /\ frames' = Append(counted, g))
           /\ UNCHANGED <<status, root, moves, tabs>>
  BY <1>5, <1>6, <1>7 DEF ListInv
<1>8. CASE Info!Stop("null") \/ Info!Stop("stale")
  BY <1>8, StopKeeps
<1> QED BY <1>7, <1>8 DEF Info!PrintMember, Info!Composed, f, counted

LEMMA ReturnKeeps == ListInv /\ Info!Return => ListInv'
<1> SUFFICES ASSUME ListInv, Info!Return PROVE ListInv'
  OBVIOUS
<1>0. frames # << >> /\ Info!Top.i = Len(Types[Info!Top.type]) /\ CallsOK(frames)
  BY DEF Info!Return, ListInv, Info!AtEnd, Info!Members
<1>1. /\ Len(frames) \in Nat \ {0} /\ Info!Top \in Calls /\ CallOK(Info!Top, Len(frames))
      /\ Len(Types[Info!Top.type]) \in Nat
  BY <1>0, TopCall, TypeMembers DEF Calls
<1>2. CallsOK(Info!Returned)
  BY <1>0, <1>1, ReplacedOK
<1>3. Info!Top.indent.size \in Nat \ {0}
  BY <1>0, <1>1 DEF CallOK
<1>4. CASE tabs' = Info!Truncated(Info!Top.indent, 1) /\ frames' = Info!Returned
           /\ UNCHANGED <<status, root, moves>>
  <2>1. \A b \in DOMAIN tabs' : tabs'[b] \in Nat
    BY <1>3, <1>4 DEF Info!Truncated, ListInv
  <2> QED BY <1>2, <1>4, <2>1 DEF ListInv
<1>5. CASE Info!Stop("stale")
  BY <1>5, StopKeeps
<1> QED BY <1>4, <1>5 DEF Info!Return

LEMMA ListStep == ListInv /\ [Info!Next]_(Info!vars) => ListInv'
<1> SUFFICES ASSUME ListInv, [Info!Next]_(Info!vars) PROVE ListInv'
  OBVIOUS
<1>1. CASE Info!EnterStops
  BY <1>1, StopKeeps DEF Info!EnterStops
<1>2. CASE Info!TypeInfoReturns
  <2>1. CASE Info!Stop("stale")
    BY <2>1, StopKeeps
  <2>2. CASE ~Info!Stop("stale")
    BY <1>2, <2>2 DEF Info!TypeInfoReturns, ListInv, Info!Live, CallsOK
  <2> QED BY <2>1, <2>2
<1>3. CASE Info!Release
  BY <1>3 DEF Info!Release, ListInv, CallsOK
<1>4. CASE UNCHANGED Info!vars
  BY <1>4 DEF Info!vars, ListInv, CallsOK
<1> QED BY <1>1, <1>2, <1>3, <1>4, StartKeeps, EnterKeeps, PrintKeeps, ReturnKeeps DEF Info!Next

\* The innermost call's string has its block, where no block moves.
LEMMA BlockFinds ==
    ASSUME ListInv, BlockInv, status = "listing", ~(moves /\ Info!Nested(root))
    PROVE  /\ DOMAIN tabs = {1} /\ indent_buffer.data = 1
           /\ frames # << >> => Info!Top.indent.data = 1
<1>1. frames # << >> => Len(frames) \in Nat \ {0} /\ Info!Top = frames[Len(frames)]
  BY TopCall DEF ListInv
<1> QED BY <1>1 DEF BlockInv

\* A type without nested ones is listed by one call.
LEMMA OnlyCall ==
    ASSUME ListInv, BlockInv, status = "listing", frames # << >>, moves, ~Info!Nested(root)
    PROVE  Len(frames) = 1 /\ Info!Top.type = root /\ Info!Top.indent.capacity = 1
<1>1. Len(frames) \in Nat \ {0} /\ Info!Top = frames[Len(frames)]
  BY TopCall DEF ListInv
<1>2. Len(frames) <= 1 /\ frames[1].type = root /\ frames[1].indent.capacity = 1
  <2>1. ~(moves /\ Info!Nested(root))
    OBVIOUS
  <2> QED BY <2>1, Zenon DEF BlockInv
<1>3. \A n \in Nat \ {0} : n <= 1 => n = 1
  OBVIOUS
<1>4. Len(frames) = 1
  BY <1>1, <1>2, <1>3, Zenon
<1> QED BY <1>1, <1>2, <1>4

LEMMA StartBlock ==
    ASSUME ListInv, BlockInv, NEW t \in DOMAIN Types, Info!micro_ros_utilities_type_info(t)
    PROVE  BlockInv'
<1>1. root' = t /\ UNCHANGED moves
  BY DEF Info!micro_ros_utilities_type_info
<1>2. CASE status' = "null"
  BY <1>2 DEF BlockInv
<1>3. CASE /\ status' = "listing" /\ tabs' = <<0>>
           /\ indent_buffer' = [data |-> 1, size |-> 0, capacity |-> 1]
           /\ frames' = <<Info!Call(t, indent_buffer')>>
  <2>1. /\ frames'[1].type = t /\ frames'[1].indent.data = 1 /\ frames'[1].indent.capacity = 1
        /\ Len(frames') = 1
    BY <1>3 DEF Info!Call
  <2>2. DOMAIN tabs' = {1} /\ indent_buffer'.data = 1
    BY <1>3
  <2>3. \A k \in 1..Len(frames') : frames'[k].indent.data = 1
    BY <2>1
  <2> QED BY <1>1, <1>3, <2>1, <2>2, <2>3 DEF BlockInv
<1> QED BY <1>2, <1>3 DEF Info!micro_ros_utilities_type_info

\* What the innermost call becomes keeps the block.
LEMMA ReplacedBlock ==
    ASSUME ListInv, BlockInv, status = "listing", frames # << >>, NEW f \in Calls,
           f.type = Info!Top.type,
           ~(moves /\ Info!Nested(root)) => f.indent.data = 1,
           ~(moves /\ Info!Nested(root)) /\ moves => f.indent.capacity = Info!Top.indent.capacity
    PROVE  LET s == Append(Info!Returned, f)
           IN  /\ s[1].type = root /\ Len(s) = Len(frames)
               /\ ~(moves /\ Info!Nested(root)) =>
                     /\ \A k \in 1..Len(s) : s[k].indent.data = 1
                     /\ moves => Len(s) = 1 /\ s[1].indent.capacity = 1
<1> DEFINE s == Append(Info!Returned, f)
           n == Len(frames)
<1>1. /\ n \in Nat \ {0} /\ Info!Top = frames[n]
      /\ Len(s) = n /\ s[n] = f /\ \A k \in 1..(n - 1) : s[k] = frames[k]
  BY TopCall, Replaced DEF ListInv
<1> HIDE DEF s
<1>2. s[1].type = root
  <2>1. CASE n = 1
    BY <1>1, <2>1 DEF BlockInv
  <2>2. CASE n # 1
    <3>1. 1 \in 1..(n - 1)
      BY <1>1, <2>2
    <3> QED BY <1>1, <3>1 DEF BlockInv
  <2> QED BY <2>1, <2>2
<1>3. ASSUME ~(moves /\ Info!Nested(root))
      PROVE  /\ \A k \in 1..n : s[k].indent.data = 1
             /\ moves => n = 1 /\ s[1].indent.capacity = 1
  <2>1. \A k \in 1..n : frames[k].indent.data = 1
    BY <1>3 DEF BlockInv
  <2>2. \A k \in 1..n : s[k].indent.data = 1
    BY <1>1, <1>3, <2>1
  <2>3. moves => n = 1 /\ frames[1].indent.capacity = 1
    BY <1>1, <1>3 DEF BlockInv
  <2> QED BY <1>1, <1>3, <2>2, <2>3
<1> QED BY <1>1, <1>2, <1>3 DEF s

LEMMA EnterBlock == ListInv /\ BlockInv /\ Info!Enter => BlockInv'
<1> SUFFICES ASSUME ListInv, BlockInv, Info!Enter PROVE BlockInv'
  OBVIOUS
<1>0. /\ frames # << >> /\ Info!Top.i = -1 /\ status = "listing" /\ CallsOK(frames)
      /\ UNCHANGED <<status, root, moves, indent_buffer>>
  BY DEF Info!Enter, Info!Beginning, ListInv
<1>1. /\ Len(frames) \in Nat \ {0} /\ Info!Top \in Calls /\ CallOK(Info!Top, Len(frames))
      /\ Info!Top = frames[Len(frames)]
  BY <1>0, TopCall
<1> DEFINE s == Info!Top.indent
           room == IF Info!Grows(s) THEN s.size + 2 ELSE s.capacity
           new(b) == [data |-> b, size |-> s.size + 1, capacity |-> room]
           f(b) == [Info!Top EXCEPT !.i = 0, !.indent = new(b)]
<1>2. PICK b \in Info!MayHold(s) :
         tabs' = Info!Tabbed(s, b) /\ frames' = Append(Info!Returned, f(b))
  BY DEF Info!Enter
<1>3. s \in Strings
  BY <1>1 DEF Calls
<1>4. b \in Nat
  BY <1>2, <1>3 DEF Info!MayHold, Strings
<1>5. new(b) \in Strings /\ new(b).data = b /\ new(b).capacity = room
  BY <1>3, <1>4 DEF Strings
<1> HIDE DEF new
<1>6. f(b) \in Calls /\ f(b).type = Info!Top.type /\ f(b).indent = new(b)
  BY <1>1, <1>5, Begun
<1> HIDE DEF f
<1>7. ASSUME ~(moves /\ Info!Nested(root))
      PROVE  b = 1 /\ s.data = 1 /\ DOMAIN tabs = {1} /\ (moves => room = s.capacity)
  <2>1. s.data = 1 /\ DOMAIN tabs = {1}
    BY <1>0, <1>7, BlockFinds
  <2>2. ASSUME moves PROVE ~Info!Grows(s)
    <3>1. Len(frames) = 1 /\ s.capacity = 1
      BY <1>0, <1>7, <2>2, OnlyCall
    <3>2. s.size = 0
      BY <1>0, <1>1, <3>1 DEF CallOK
    <3> QED BY <3>1, <3>2 DEF Info!Grows
  <2> QED BY <1>2, <2>1, <2>2 DEF Info!MayHold
<1>8. LET t == Append(Info!Returned, f(b))
      IN  /\ t[1].type = root /\ Len(t) = Len(frames)
          /\ ~(moves /\ Info!Nested(root)) =>
                /\ \A k \in 1..Len(t) : t[k].indent.data = 1
                /\ moves => Len(t) = 1 /\ t[1].indent.capacity = 1
  <2> HIDE DEF room, s
  <2>1. ~(moves /\ Info!Nested(root)) => f(b).indent.data = 1
    BY <1>5, <1>6, <1>7
  <2>2. ~(moves /\ Info!Nested(root)) /\ moves =>
           f(b).indent.capacity = Info!Top.indent.capacity
    BY <1>5, <1>6, <1>7 DEF s
  <2> QED BY <1>0, <1>6, <2>1, <2>2, ReplacedBlock
<1>9. ~(moves /\ Info!Nested(root)) => DOMAIN tabs' = {1}
  BY <1>2, <1>7 DEF Info!Tabbed, Info!Live
<1> QED BY <1>0, <1>2, <1>8, <1>9 DEF BlockInv

LEMMA PrintBlock == ListInv /\ BlockInv /\ Info!PrintMember => BlockInv'
<1> SUFFICES ASSUME ListInv, BlockInv, Info!PrintMember PROVE BlockInv'
  OBVIOUS
<1>0. /\ frames # << >> /\ status = "listing" /\ CallsOK(frames)
      /\ Info!Top.i \in 0..(Len(Types[Info!Top.type]) - 1)
  BY DEF Info!PrintMember, ListInv, Info!Members
<1>1. /\ Len(frames) \in Nat \ {0} /\ Info!Top \in Calls /\ Info!Top = frames[Len(frames)]
      /\ Len(Types[Info!Top.type]) \in Nat
  BY <1>0, TopCall, TypeMembers DEF Calls
<1>2. CASE Info!Stop("null")
  BY <1>2 DEF Info!Stop, BlockInv
<1>3. CASE Info!Stop("stale") /\ Info!Top.indent.data \notin DOMAIN tabs
  <2>1. moves /\ Info!Nested(root)
    BY <1>0, <1>3, BlockFinds
  <2> QED BY <1>3, <2>1 DEF Info!Stop, BlockInv
<1> DEFINE f == [Info!Top EXCEPT !.i = @ + 1]
           t == Info!Members[Info!Top.i + 1]
           g == Info!Call(t.type, Info!Top.indent)
           s == Append(Info!Returned, f)
<1>4. Info!Top.i + 1 \in Int /\ Info!Top.i + 1 \in 1..Len(Types[Info!Top.type])
  BY <1>0, <1>1
<1>5. f \in Calls /\ f.type = Info!Top.type /\ f.indent = Info!Top.indent
  BY <1>1, <1>4 DEF Calls
<1> HIDE DEF f
<1>6. /\ s[1].type = root /\ Len(s) = Len(frames) /\ s \in Seq(Calls)
      /\ ~(moves /\ Info!Nested(root)) =>
            /\ \A k \in 1..Len(s) : s[k].indent.data = 1
            /\ moves => Len(s) = 1 /\ s[1].indent.capacity = 1
  BY <1>0, <1>5, BlockFinds, ReplacedBlock, Replaced
<1> HIDE DEF s
<1>7. CASE frames' = s /\ UNCHANGED <<status, root, moves, tabs, indent_buffer>>
  BY <1>0, <1>1, <1>6, <1>7 DEF BlockInv
<1>8. CASE /\ t.type \in DOMAIN Types /\ frames' = Append(s, g)
           /\ UNCHANGED <<status, root, moves, tabs, indent_buffer>>
  <2>1. /\ Len(frames') = Len(frames) + 1 /\ frames'[Len(frames) + 1] = g
        /\ \A k \in 1..Len(frames) : frames'[k] = s[k]
    BY <1>1, <1>6, <1>8
  <2>2. frames'[1].type = root
    BY <1>1, <1>6, <2>1
  <2>3. g.indent = Info!Top.indent
    BY DEF Info!Call
  <2> HIDE DEF g
  <2>4. ASSUME ~(moves /\ Info!Nested(root))
        PROVE  ~moves /\ \A k \in 1..Len(frames') : frames'[k].indent.data = 1
    <3>1. ASSUME moves PROVE FALSE
      <4>1. Len(frames) = 1 /\ Info!Top.type = root
        BY <1>0, <2>4, <3>1, OnlyCall
      <4>2. Info!Nested(root)
        BY <1>4, <1>8, <4>1 DEF Info!Nested, Info!Composed, Info!Members
      <4> QED BY <2>4, <3>1, <4>2
    <3>2. Info!Top.indent.data = 1
      BY <1>0, <2>4, BlockFinds
    <3>3. ASSUME NEW k \in 1..(Len(frames) + 1) PROVE frames'[k].indent.data = 1
      <4>1. CASE k = Len(frames) + 1
        BY <2>1, <2>3, <3>2, <4>1
      <4>2. CASE k \in 1..Len(frames)
        BY <1>6, <2>1, <2>4, <4>2
      <4> QED BY <1>1, <4>1, <4>2
    <3> QED BY <2>1, <3>1, <3>3
  <2> QED BY <1>0, <1>8, <2>2, <2>4 DEF BlockInv
<1> QED BY <1>2, <1>3, <1>7, <1>8 DEF Info!PrintMember, Info!Composed, Info!Live, f, s

LEMMA ReturnBlock == ListInv /\ BlockInv /\ Info!Return => BlockInv'
<1> SUFFICES ASSUME ListInv, BlockInv, Info!Return PROVE BlockInv'
  OBVIOUS
<1>0. frames # << >> /\ status = "listing" /\ CallsOK(frames)
  BY DEF Info!Return, ListInv, Info!AtEnd
<1>1. Len(frames) \in Nat \ {0} /\ Info!Top \in Calls
  BY <1>0, TopCall
<1>2. CASE Info!Stop("stale") /\ Info!Top.indent.data \notin DOMAIN tabs
  <2>1. moves /\ Info!Nested(root)
    BY <1>0, <1>2, BlockFinds
  <2> QED BY <1>2, <2>1 DEF Info!Stop, BlockInv
<1>3. CASE /\ tabs' = Info!Truncated(Info!Top.indent, 1) /\ frames' = Info!Returned
           /\ UNCHANGED <<status, root, moves, indent_buffer>>
  <2>1. DOMAIN tabs' = DOMAIN tabs
    BY <1>3 DEF Info!Truncated
  <2> DEFINE n == Len(frames) - 1
  <2>2. /\ frames' \in Seq(Calls) /\ Len(frames') = n /\ \A k \in 1..n : frames'[k] = frames[k]
        /\ n \in Nat /\ n < Len(frames) /\ \A k \in 1..n : k \in 1..Len(frames)
    BY <1>0, <1>1, <1>3, Replaced
  <2>3. ASSUME frames' # << >>
        PROVE  frames'[1] = frames[1]
    <3>1. n # 0
      BY <2>2, <2>3, EmptySeq
    <3>2. 1 \in 1..n
      BY <2>2, <3>1
    <3> QED BY <2>2, <3>2
  <2> HIDE DEF n
  <2>4. ~(moves /\ Info!Nested(root)) /\ moves => Len(frames') <= 1
    BY <1>0, <1>1, <2>2 DEF BlockInv
  <2>5. ~(moves /\ Info!Nested(root)) =>
           \A k \in 1..Len(frames') : frames'[k].indent.data = 1
    BY <1>0, <2>2 DEF BlockInv
  <2> QED BY <1>0, <1>3, <2>1, <2>3, <2>4, <2>5 DEF BlockInv
<1> QED BY <1>2, <1>3 DEF Info!Return, Info!Live

LEMMA BlockStep == ListInv /\ BlockInv /\ [Info!Next]_(Info!vars) => BlockInv'
<1> SUFFICES ASSUME ListInv, BlockInv, [Info!Next]_(Info!vars) PROVE BlockInv'
  OBVIOUS
<1>1. CASE Info!EnterStops
  <2>1. CASE Info!Stop("null")
    BY <2>1 DEF Info!Stop, BlockInv
  <2>2. CASE Info!Stop("stale") /\ Info!Top.indent.data \notin DOMAIN tabs
    <3>1. moves /\ Info!Nested(root)
      BY <1>1, <2>2, BlockFinds DEF Info!EnterStops, Info!Beginning
    <3> QED BY <2>2, <3>1 DEF Info!Stop, BlockInv
  <2> QED BY <1>1, <2>1, <2>2 DEF Info!EnterStops, Info!Live
<1>2. CASE Info!TypeInfoReturns
  <2>1. CASE Info!Stop("stale") /\ indent_buffer.data \notin DOMAIN tabs
    <3>1. moves /\ Info!Nested(root)
      BY <1>2, <2>1, BlockFinds DEF Info!TypeInfoReturns
    <3> QED BY <2>1, <3>1 DEF Info!Stop, BlockInv
  <2>2. CASE status' = "returned"
    BY <2>2 DEF BlockInv
  <2> QED BY <1>2, <2>1, <2>2 DEF Info!TypeInfoReturns, Info!Live
<1>3. CASE Info!Release
  BY <1>3 DEF Info!Release, BlockInv
<1>4. CASE UNCHANGED Info!vars
  BY <1>4 DEF Info!vars, BlockInv
<1> QED BY <1>1, <1>2, <1>3, <1>4, StartBlock, EnterBlock, PrintBlock, ReturnBlock DEF Info!Next
-----------------------------------------------------------------------------
\* What the listing reads.

Texts == Seq([tabs : Nat, what : STRING \cup DOMAIN Types])

\* The lines of the members of t behind the first i, at depth d.
From(t, i, d) == Info!Lines[<<t, i + 1, d>>]

\* Lines is defined: it is, unless some type has itself inside.
LinesDefined ==
    \A t \in DOMAIN Types, i \in Nat, d \in Nat :
        /\ From(t, i, d) \in Texts
        /\ i >= Len(Types[t]) => From(t, i, d) = << >>
        /\ i \in 0..(Len(Types[t]) - 1) =>
              From(t, i, d) =
                 <<[tabs |-> d, what |-> Types[t][i + 1].name]>>
                 \o (IF Info!Composed(Types[t][i + 1])
                     THEN From(Types[t][i + 1].type, 0, d + 1) ELSE << >>)
                 \o From(t, i + 1, d)

\* The heading, and the whole text.
Heading(t) == <<[tabs |-> 1, what |-> t]>>
Listing(t) == Heading(t) \o From(t, 0, 1)

\* What the k-th call has still to print of its own.
Left(f, k) ==
    IF f.i = -1 THEN (IF k = 1 THEN Heading(f.type) ELSE << >>) \o From(f.type, 0, k)
    ELSE From(f.type, f.i, k)

\* rest[k]: what the first k calls have still to print, the innermost first.
IsRest(rest, s) ==
    /\ rest \in [0..Len(s) -> Texts] /\ rest[0] = << >>
    /\ \A k \in 1..Len(s) : rest[k] = Left(s[k], k) \o rest[k - 1]

\* The text and the rest are the whole listing, and the one block that there is has
\* the indentation of the innermost call, unless that call has lost it.
OutInv ==
    /\ status = "listing" =>
          /\ \E b : DOMAIN tabs = {b}
          /\ frames # << >> /\ Info!Top.indent.data \in DOMAIN tabs =>
                tabs[Info!Top.indent.data] = Info!Top.indent.size
          /\ \A k \in 1..(Len(frames) - 1) : frames[k].i # -1
          /\ Len(frames) = 1 /\ frames[1].i = -1 => out = << >>
          /\ out \in Texts
          /\ \E rest : IsRest(rest, frames) /\ out \o rest[Len(frames)] = Listing(root)
    /\ status = "returned" => out = Listing(root) /\ DOMAIN tabs = {}

LEMMA TextConcat ==
    /\ \A x, y \in Texts : x \o y \in Texts
    /\ << >> \in Texts /\ \A x \in Texts : x \o << >> = x /\ << >> \o x = x
<1> DEFINE L == [tabs : Nat, what : STRING \cup DOMAIN Types]
<1>1. Texts = Seq(L)
  BY DEF Texts
<1> HIDE DEF L
<1>2. \A x, y \in Texts : x \o y \in Texts
  BY <1>1, ConcatProperties
<1>4. << >> \in Texts /\ \A x \in Texts : x \o << >> = x /\ << >> \o x = x
  BY <1>1, EmptySeq, ConcatEmptySeq
<1> QED BY <1>2, <1>4

LEMMA TextAssociative == \A x, y, z \in Texts : (x \o y) \o z = x \o (y \o z)
<1> DEFINE L == [tabs : Nat, what : STRING \cup DOMAIN Types]
<1>1. Texts = Seq(L)
  BY DEF Texts
<1> HIDE DEF L
<1> QED BY <1>1, ConcatAssociative

LEMMA HeadingText == ASSUME NEW t \in DOMAIN Types PROVE Heading(t) \in Texts
BY DEF Heading, Texts

LEMMA LeftText ==
    ASSUME LinesDefined, NEW f \in Calls, NEW k \in Nat \ {0}, CallOK(f, k)
    PROVE  Left(f, k) \in Texts
<1>1. f.type \in DOMAIN Types /\ Len(Types[f.type]) \in Nat
  BY TypeMembers DEF Calls
<1>2. CASE f.i = -1
  <2> DEFINE h == IF k = 1 THEN Heading(f.type) ELSE << >>
             l == From(f.type, 0, k)
  <2>1. h \in Texts
    BY <1>1, HeadingText, EmptySeq DEF Texts
  <2>2. l \in Texts
    BY <1>1 DEF LinesDefined
  <2> HIDE DEF h, l
  <2>3. h \o l \in Texts
    BY <2>1, <2>2, TextConcat
  <2> QED BY <1>2, <2>3 DEF Left, h, l
<1>3. CASE f.i # -1
  <2>1. f.i \in Nat
    BY <1>1, <1>3 DEF CallOK
  <2> QED BY <1>1, <1>3, <2>1 DEF Left, LinesDefined
<1> QED BY <1>2, <1>3

\* The innermost call prints x and goes on as f.
LEMMA RestReplaced ==
    ASSUME CallsOK(frames), frames # << >>, NEW rest, IsRest(rest, frames), NEW f \in Calls,
           NEW x \in Texts, Left(f, Len(frames)) \in Texts,
           Left(Info!Top, Len(frames)) = x \o Left(f, Len(frames))
    PROVE  \E next : /\ IsRest(next, Append(Info!Returned, f))
                     /\ next[Len(frames)] \in Texts
                     /\ rest[Len(frames)] = x \o next[Len(frames)]
<1> DEFINE s == Append(Info!Returned, f)
           n == Len(frames)
           l == Left(f, n) \o rest[n - 1]
           next == [rest EXCEPT ![n] = l]
<1>1. /\ n \in Nat \ {0} /\ Info!Top = frames[n] /\ Len(s) = n /\ s[n] = f
      /\ \A k \in 1..(n - 1) : s[k] = frames[k]
  BY TopCall, Replaced
<1>2. /\ rest \in [0..n -> Texts] /\ rest[0] = << >>
      /\ \A k \in 1..n : rest[k] = Left(frames[k], k) \o rest[k - 1]
  BY DEF IsRest
<1>3. n - 1 \in 0..n /\ n \in 1..n /\ n \in 0..n /\ n # 0
  BY <1>1
<1> HIDE DEF s, n
<1>4. rest[n - 1] \in Texts
  BY <1>2, <1>3
<1>5. l \in Texts
  BY <1>4, TextConcat DEF n
<1>6. rest[n] = x \o l
  <2> DEFINE u == Left(f, n)
             v == rest[n - 1]
  <2>1. rest[n] = (x \o u) \o v
    BY <1>1, <1>2, <1>3 DEF n
  <2>2. u \in Texts /\ v \in Texts
    BY <1>4 DEF n
  <2>3. l = u \o v
    OBVIOUS
  <2> HIDE DEF u, v, l
  <2>4. (x \o u) \o v = x \o (u \o v)
    BY <2>2, TextAssociative
  <2> QED BY <2>1, <2>3, <2>4
<1>7. /\ next \in [0..n -> Texts] /\ next[n] = l
      /\ \A k \in 0..n : k # n => next[k] = rest[k]
  <2> HIDE DEF l
  <2> QED BY <1>2, <1>3, <1>5
<1> HIDE DEF next
<1>8. next[n - 1] = rest[n - 1] /\ next[0] = << >>
  BY <1>1, <1>2, <1>3, <1>7
<1>9. ASSUME NEW k \in 1..n PROVE next[k] = Left(s[k], k) \o next[k - 1]
  <2>1. CASE k = n
    BY <1>1, <1>7, <1>8, <2>1
  <2>2. CASE k # n
    <3>1. k \in 1..(n - 1) /\ k \in 0..n /\ k - 1 \in 0..n /\ k - 1 # n
      BY <1>1, <2>2
    <3> QED BY <1>1, <1>2, <1>7, <2>2, <3>1
  <2> QED BY <2>1, <2>2
<1>10. IsRest(next, s)
  BY <1>1, <1>7, <1>8, <1>9 DEF IsRest
<1> QED BY <1>5, <1>6, <1>7, <1>10 DEF s, n

\* Another call begins.
LEMMA RestCalled ==
    ASSUME NEW s \in Seq(Calls), NEW rest, IsRest(rest, s), NEW g \in Calls,
           Left(g, Len(s) + 1) \in Texts
    PROVE  \E next : /\ IsRest(next, Append(s, g))
                     /\ next[Len(s) + 1] = Left(g, Len(s) + 1) \o rest[Len(s)]
<1> DEFINE n == Len(s)
           t == Append(s, g)
           l == Left(g, n + 1) \o rest[n]
           next == [k \in 0..(n + 1) |-> IF k = n + 1 THEN l ELSE rest[k]]
<1>1. /\ n \in Nat /\ Len(t) = n + 1 /\ t[n + 1] = g /\ \A k \in 1..n : t[k] = s[k]
  BY LenProperties
<1>2. /\ rest \in [0..n -> Texts] /\ rest[0] = << >>
      /\ \A k \in 1..n : rest[k] = Left(s[k], k) \o rest[k - 1]
  BY DEF IsRest
<1> HIDE DEF t, n
<1>3. rest[n] \in Texts
  BY <1>1, <1>2
<1>4. l \in Texts
  BY <1>3, TextConcat DEF n
<1>5. /\ next \in [0..(n + 1) -> Texts] /\ next[n + 1] = l
      /\ \A k \in 0..n : next[k] = rest[k]
  <2> HIDE DEF l
  <2>1. \A k \in 0..(n + 1) : k # n + 1 => k \in 0..n
    BY <1>1
  <2> QED BY <1>1, <1>2, <1>4, <2>1
<1> HIDE DEF next
<1>6. next[0] = << >>
  BY <1>1, <1>2, <1>5
<1>7. ASSUME NEW k \in 1..(n + 1) PROVE next[k] = Left(t[k], k) \o next[k - 1]
  <2>1. CASE k = n + 1
    <3>1. k - 1 = n /\ n \in 0..n
      BY <1>1, <2>1
    <3> QED BY <1>1, <1>5, <2>1, <3>1
  <2>2. CASE k # n + 1
    <3>1. k \in 1..n /\ k \in 0..n /\ k - 1 \in 0..n
      BY <1>1, <2>2
    <3> QED BY <1>1, <1>2, <1>5, <3>1
  <2> QED BY <2>1, <2>2
<1>8. IsRest(next, t)
  BY <1>1, <1>5, <1>6, <1>7 DEF IsRest
<1> QED BY <1>5, <1>8 DEF t, n

\* The innermost call has printed all it has to.
LEMMA RestReturned ==
    ASSUME CallsOK(frames), frames # << >>, NEW rest, IsRest(rest, frames),
           Left(Info!Top, Len(frames)) = << >>
    PROVE  \E next : /\ IsRest(next, Info!Returned)
                     /\ next[Len(frames) - 1] = rest[Len(frames)]
<1> DEFINE s == Info!Returned
           n == Len(frames)
           next == [k \in 0..(n - 1) |-> rest[k]]
<1>1. /\ n \in Nat \ {0} /\ Info!Top \in Calls /\ Info!Top = frames[n]
  BY TopCall
<1>2. Len(s) = n - 1 /\ \A k \in 1..(n - 1) : s[k] = frames[k]
  BY <1>1, Replaced
<1>3. /\ rest \in [0..n -> Texts] /\ rest[0] = << >>
      /\ \A k \in 1..n : rest[k] = Left(frames[k], k) \o rest[k - 1]
  BY DEF IsRest
<1> HIDE DEF s, n
<1>4. n \in 1..n /\ n - 1 \in 0..n /\ n - 1 \in 0..(n - 1) /\ 0 \in 0..(n - 1)
      /\ \A k \in 0..(n - 1) : k \in 0..n
  BY <1>1
<1>5. rest[n - 1] \in Texts
  BY <1>3, <1>4
<1>6. rest[n] = rest[n - 1]
  <2>1. rest[n] = << >> \o rest[n - 1]
    BY <1>1, <1>3, <1>4 DEF n
  <2> QED BY <1>5, <2>1, TextConcat
<1>7. next \in [0..(n - 1) -> Texts] /\ \A k \in 0..(n - 1) : next[k] = rest[k]
  BY <1>3, <1>4
<1> HIDE DEF next
<1>8. ASSUME NEW k \in 1..(n - 1) PROVE next[k] = Left(s[k], k) \o next[k - 1]
  <2>1. k \in 0..(n - 1) /\ k - 1 \in 0..(n - 1) /\ k \in 1..n
    BY <1>1
  <2> QED BY <1>2, <1>3, <1>7, <2>1
<1>9. IsRest(next, s)
  BY <1>2, <1>3, <1>4, <1>7, <1>8 DEF IsRest
<1> QED BY <1>4, <1>6, <1>7, <1>9 DEF s, n

LEMMA StopOut ==
    ASSUME NEW why \in {"null", "stale"}, status' = why
    PROVE  OutInv'
BY DEF OutInv

LEMMA StartOut ==
    ASSUME LinesDefined, NEW t \in DOMAIN Types, Info!micro_ros_utilities_type_info(t)
    PROVE  OutInv'
<1>1. CASE status' = "null"
  BY <1>1, StopOut
<1>2. CASE /\ status' = "listing" /\ tabs' = <<0>> /\ root' = t
           /\ indent_buffer' = [data |-> 1, size |-> 0, capacity |-> 1]
           /\ frames' = <<Info!Call(t, indent_buffer')>> /\ out' = << >>
  <2> DEFINE f == Info!Call(t, indent_buffer')
             rest == [k \in 0..1 |-> IF k = 0 THEN << >> ELSE Listing(t)]
  <2>1. f.i = -1 /\ f.type = t /\ f.indent.data = 1 /\ f.indent.size = 0
    BY <1>2 DEF Info!Call
  <2> HIDE DEF f
  <2>2. frames' = <<f>> /\ Len(frames') = 1 /\ frames'[1] = f
    BY <1>2 DEF f
  <2>3. DOMAIN tabs' = {1} /\ tabs'[1] = 0 /\ (Info!Top)' = f
    BY <1>2, <2>2 DEF Info!Top
  <2>4. Listing(t) \in Texts /\ << >> \in Texts /\ out' \in Texts
    <3>1. From(t, 0, 1) \in Texts
      BY DEF LinesDefined
    <3> QED BY <1>2, <3>1, HeadingText, TextConcat DEF Listing
  <2>5. Left(f, 1) = Listing(t)
    BY <2>1 DEF Left, Listing
  <2>6. Listing(t) \o << >> = Listing(t) /\ << >> \o Listing(t) = Listing(t)
    BY <2>4, TextConcat
  <2>7. rest \in [0..1 -> Texts] /\ rest[0] = << >> /\ rest[1] = Listing(t)
    BY <2>4
  <2> HIDE DEF rest
  <2>8. IsRest(rest, frames')
    <3>1. ASSUME NEW k \in 1..1 PROVE k = 1 /\ k - 1 = 0
      OBVIOUS
    <3>2. rest[1] = Left(f, 1) \o rest[0]
      BY <2>5, <2>6, <2>7
    <3>3. ASSUME NEW k \in 1..1 PROVE rest[k] = Left(frames'[k], k) \o rest[k - 1]
      BY <2>2, <3>1, <3>2
    <3> QED BY <2>2, <2>7, <3>3 DEF IsRest
  <2>9. out' \o rest[Len(frames')] = Listing(root')
    BY <1>2, <2>2, <2>6, <2>7
  <2>10. 1..(Len(frames') - 1) = {}
    BY <2>2
  <2> QED BY <1>2, <2>1, <2>3, <2>4, <2>8, <2>9, <2>10 DEF OutInv
<1> QED BY <1>1, <1>2 DEF Info!micro_ros_utilities_type_info

LEMMA EnterOut == LinesDefined /\ ListInv /\ OutInv /\ Info!Enter => OutInv'
<1> SUFFICES ASSUME LinesDefined, ListInv, OutInv, Info!Enter PROVE OutInv'
  OBVIOUS
<1>0. /\ frames # << >> /\ Info!Top.i = -1 /\ status = "listing" /\ CallsOK(frames)
      /\ UNCHANGED <<status, root>> /\ Info!Top.indent.data \in DOMAIN tabs
  BY DEF Info!Enter, Info!Beginning, ListInv, Info!Live
<1> DEFINE n == Len(frames)
           s == Info!Top.indent
           room == IF Info!Grows(s) THEN s.size + 2 ELSE s.capacity
           new(b) == [data |-> b, size |-> s.size + 1, capacity |-> room]
           f(b) == [Info!Top EXCEPT !.i = 0, !.indent = new(b)]
           ty == Info!Top.type
           x == IF n = 1 THEN Heading(ty) ELSE << >>
<1>1. /\ n \in Nat \ {0} /\ Info!Top \in Calls /\ CallOK(Info!Top, n)
      /\ Info!Top = frames[n] /\ ty \in DOMAIN Types /\ Len(Types[ty]) \in Nat
  BY <1>0, TopCall, TypeMembers DEF Calls
<1>2. PICK b \in Info!MayHold(s) :
         /\ tabs' = Info!Tabbed(s, b) /\ frames' = Append(Info!Returned, f(b))
         /\ out' = IF n = 1 THEN <<[tabs |-> tabs'[b], what |-> ty]>> ELSE out
  BY DEF Info!Enter
<1>3. s \in Strings /\ s.size = n - 1 /\ s.size \in Nat
  BY <1>0, <1>1 DEF Calls, CallOK, Strings
<1>4. b \in Nat
  BY <1>2, <1>3 DEF Info!MayHold, Strings
<1>5. new(b) \in Strings /\ new(b).data = b /\ new(b).size = n
  BY <1>1, <1>3, <1>4 DEF Strings
<1> HIDE DEF new
<1> DEFINE g == f(b)
<1>6. g \in Calls /\ g.type = Info!Top.type /\ g.indent = new(b) /\ g.i = 0
  <2>1. Info!Top \in Calls /\ new(b) \in Strings
    BY <1>1, <1>5
  <2> QED BY <2>1, Begun
<1> HIDE DEF f, g
<1>g. g.type = ty /\ frames' = Append(Info!Returned, g)
  BY <1>2, <1>6 DEF g
<1>7. DOMAIN tabs' = {b} /\ tabs'[b] = n
  <2>1. PICK c : DOMAIN tabs = {c}
    BY <1>0 DEF OutInv
  <2>2. s.data = c /\ tabs[s.data] = s.size
    BY <1>0, <2>1 DEF OutInv
  <2>3. ~(tabs[s.data] < s.size)
    BY <1>3, <2>2
  <2>4. DOMAIN tabs' = {b}
    BY <1>2, <2>1, <2>2 DEF Info!Tabbed, Info!Live
  <2>5. tabs'[b] = s.size + 1
    BY <1>2, <2>3, <2>4 DEF Info!Tabbed
  <2> QED BY <1>1, <1>3, <2>4, <2>5
<1>8. /\ Len(frames') = n /\ frames'[n] = g /\ \A k \in 1..(n - 1) : frames'[k] = frames[k]
  BY <1>0, <1>6, <1>g, Replaced
<1>10. x \in Texts /\ out \in Texts
  BY <1>0, <1>1, HeadingText, TextConcat DEF OutInv
<1>11. out' = out \o x
  <2>1. CASE n = 1
    <3>1. out = << >>
      BY <1>0, <1>1, <2>1 DEF OutInv
    <3>2. out' = x
      BY <1>2, <1>7, <2>1 DEF Heading
    <3> QED BY <1>10, <3>1, <3>2, TextConcat
  <2>2. CASE n # 1
    <3>1. out' = out /\ x = << >>
      BY <1>2, <2>2
    <3> QED BY <1>10, <3>1, TextConcat
  <2> QED BY <2>1, <2>2
<1>12. Left(g, n) \in Texts /\ Left(Info!Top, n) = x \o Left(g, n)
  <2>1. Left(g, n) = From(ty, 0, n)
    BY <1>6, <1>g DEF Left
  <2>2. From(ty, 0, n) \in Texts
    BY <1>1 DEF LinesDefined
  <2> QED BY <1>0, <2>1, <2>2 DEF Left
<1> HIDE DEF x
<1>13. PICK rest : IsRest(rest, frames) /\ out \o rest[n] = Listing(root)
  BY <1>0 DEF OutInv
<1>14. PICK next : /\ IsRest(next, Append(Info!Returned, g)) /\ next[n] \in Texts
                   /\ rest[n] = x \o next[n]
  <2>1. /\ CallsOK(frames) /\ frames # << >> /\ IsRest(rest, frames)
        /\ g \in Calls /\ x \in Texts /\ Left(g, Len(frames)) \in Texts
        /\ Left(Info!Top, Len(frames)) = x \o Left(g, Len(frames))
    BY <1>0, <1>6, <1>10, <1>12, <1>13
  <2>2. \E next : /\ IsRest(next, Append(Info!Returned, g))
                  /\ next[Len(frames)] \in Texts
                  /\ rest[Len(frames)] = x \o next[Len(frames)]
    <3> HIDE DEF s, room, ty, n
    <3> QED BY <2>1, RestReplaced, Zenon
  <2> QED BY <2>2
<1>15. out' \o next[n] = Listing(root)
  <2>1. (out \o x) \o next[n] = out \o (x \o next[n])
    BY <1>10, <1>14, TextAssociative
  <2> QED BY <1>11, <1>13, <1>14, <2>1
<1>16. out' \in Texts
  BY <1>10, <1>11, TextConcat
<1>17. /\ (Info!Top)' = g /\ \A k \in 1..(Len(frames') - 1) : frames'[k].i # -1
       /\ ~(Len(frames') = 1 /\ frames'[1].i = -1)
  BY <1>0, <1>6, <1>8 DEF Info!Top, OutInv
<1>18. /\ status' = "listing" /\ \E c : DOMAIN tabs' = {c}
       /\ tabs'[(Info!Top)'.indent.data] = (Info!Top)'.indent.size
  BY <1>0, <1>5, <1>6, <1>7, <1>17
<1>19. IsRest(next, frames') /\ out' \o next[Len(frames')] = Listing(root')
  BY <1>0, <1>8, <1>14, <1>15, <1>g
<1> QED BY <1>16, <1>17, <1>18, <1>19 DEF OutInv

LEMMA PrintOut == LinesDefined /\ ListInv /\ OutInv /\ Info!PrintMember => OutInv'
<1> SUFFICES ASSUME LinesDefined, ListInv, OutInv, Info!PrintMember PROVE OutInv'
  OBVIOUS
<1>0. /\ frames # << >> /\ status = "listing" /\ CallsOK(frames)
      /\ Info!Top.i \in 0..(Len(Types[Info!Top.type]) - 1)
  BY DEF Info!PrintMember, ListInv, Info!Members
<1>1. CASE Info!Stop("null") \/ Info!Stop("stale")
  BY <1>1, StopOut DEF Info!Stop
<1> DEFINE n == Len(frames)
           ty == Info!Top.type
           i == Info!Top.i + 1
           m == Types[ty][i]
           f == [Info!Top EXCEPT !.i = @ + 1]
           g == Info!Call(m.type, Info!Top.indent)
           s == Append(Info!Returned, f)
           line == <<[tabs |-> n, what |-> m.name]>>
           sub == IF Info!Composed(m) THEN From(m.type, 0, n + 1) ELSE << >>
           more == From(ty, i, n)
<1>2. CASE /\ Info!Top.indent.data \in DOMAIN tabs
           /\ out' = Append(out, [tabs |-> tabs[Info!Top.indent.data], what |-> m.name])
           /\ frames' = IF Info!Composed(m) THEN Append(s, g) ELSE s
           /\ UNCHANGED <<status, root, tabs>>
  <2>1. /\ n \in Nat \ {0} /\ Info!Top \in Calls /\ CallOK(Info!Top, n)
        /\ Info!Top = frames[n] /\ ty \in DOMAIN Types /\ Len(Types[ty]) \in Nat
        /\ Types[ty] \in Seq([name : STRING, type : STRING])
    BY <1>0, TopCall, TypeMembers DEF Calls
  <2>2. i \in 1..Len(Types[ty]) /\ i \in Nat /\ i + 1 \in Nat /\ Info!Top.i + 1 \in Int
    BY <1>0, <2>1
  <2>3. m \in [name : STRING, type : STRING]
    BY <2>1, <2>2, ElementOfSeq
  <2>4. f \in Calls /\ f.i = i /\ f.type = Info!Top.type /\ f.indent = Info!Top.indent
    BY <2>1, <2>2 DEF Calls
  <2> HIDE DEF f, m, i
  <2>5. Info!Top.indent.size = n /\ tabs[Info!Top.indent.data] = n
    BY <1>0, <1>2, <2>1 DEF CallOK, OutInv
  <2>6. line \in Texts
    BY <2>1, <2>3 DEF Texts
  <2>7. sub \in Texts
    <3>1. CASE Info!Composed(m)
      <4>1. m.type \in DOMAIN Types
        BY <3>1 DEF Info!Composed
      <4>2. 0 \in Nat /\ n + 1 \in Nat
        BY <2>1
      <4>3. From(m.type, 0, n + 1) \in Texts
        BY <4>1, <4>2 DEF LinesDefined
      <4> QED BY <3>1, <4>3
    <3>2. CASE ~Info!Composed(m)
      BY <3>2, TextConcat
    <3> QED BY <3>1, <3>2
  <2>8. more \in Texts
    BY <2>1, <2>2 DEF LinesDefined
  <2>9. From(ty, Info!Top.i, n) = (line \o sub) \o more
    <3>1. Info!Top.i \in Nat /\ Info!Top.i \in 0..(Len(Types[ty]) - 1) /\ n \in Nat
      BY <1>0, <2>1
    <3> QED BY <2>1, <3>1 DEF LinesDefined, m, i
  <2>10. Left(Info!Top, n) = From(ty, Info!Top.i, n)
    BY <1>0 DEF Left, i
  <2>11. Left(f, n) = more
    <3>1. f.i # -1
      BY <2>2, <2>4
    <3> QED BY <2>4, <3>1 DEF Left
  <2>12. out \in Texts /\ out' = out \o line
    <3>1. out \in Texts
      BY <1>0 DEF OutInv
    <3>2. out' = Append(out, [tabs |-> n, what |-> m.name])
      BY <1>2, <2>5
    <3> QED BY <3>1, <3>2 DEF Texts
  <2> HIDE DEF line, sub, more, ty, n, g
  <2>13. PICK rest : IsRest(rest, frames) /\ out \o rest[n] = Listing(root)
    BY <1>0 DEF OutInv, n
  <2>14. PICK next : /\ IsRest(next, s) /\ next[n] \in Texts
                     /\ rest[n] = (line \o sub) \o next[n]
    <3> DEFINE x == line \o sub
    <3>1. x \in Texts
      BY <2>6, <2>7, TextConcat
    <3>2. Left(Info!Top, n) = x \o more
      BY <2>9, <2>10
    <3> HIDE DEF x
    <3>3. /\ CallsOK(frames) /\ frames # << >> /\ IsRest(rest, frames)
          /\ f \in Calls /\ x \in Texts /\ Left(f, Len(frames)) \in Texts
          /\ Left(Info!Top, Len(frames)) = x \o Left(f, Len(frames))
      BY <1>0, <2>4, <2>8, <2>11, <2>13, <3>1, <3>2 DEF n
    <3>4. \E next : /\ IsRest(next, Append(Info!Returned, f))
                    /\ next[Len(frames)] \in Texts
                    /\ rest[Len(frames)] = x \o next[Len(frames)]
      BY <3>3, RestReplaced, Zenon
    <3> QED BY <3>4 DEF x, n
  <2>15. /\ out' \in Texts /\ out' \o (sub \o next[n]) = Listing(root)
    <3>1. (line \o sub) \o next[n] = line \o (sub \o next[n])
      BY <2>6, <2>7, <2>14, TextAssociative
    <3>2. sub \o next[n] \in Texts
      BY <2>7, <2>14, TextConcat
    <3> DEFINE y == sub \o next[n]
    <3> HIDE DEF y
    <3>3. (out \o line) \o y = out \o (line \o y)
      BY <2>6, <2>12, <3>2, TextAssociative DEF y
    <3>4. out' \in Texts
      BY <2>6, <2>12, TextConcat
    <3> QED BY <2>12, <2>13, <2>14, <3>1, <3>3, <3>4 DEF y
  <2>16. /\ s \in Seq(Calls) /\ Len(s) = n /\ s[n] = f
         /\ \A k \in 1..(n - 1) : s[k] = frames[k]
    BY <1>0, <2>4, Replaced DEF n
  <2> HIDE DEF s
  <2>17. ASSUME NEW k \in 1..n PROVE s[k].i # -1
    <3>1. CASE k = n
      BY <2>2, <2>4, <2>16, <3>1
    <3>2. CASE k # n
      <4>1. k \in 1..(n - 1)
        BY <2>1, <3>2
      <4> QED BY <1>0, <2>16, <4>1 DEF OutInv, n
    <3> QED BY <3>1, <3>2
  <2>18. \E b : DOMAIN tabs' = {b}
    BY <1>0, <1>2 DEF OutInv
  <2>19. CASE ~Info!Composed(m)
    <3>1. frames' = s /\ sub = << >>
      BY <1>2, <2>19 DEF sub
    <3>2. out' \o next[n] = Listing(root')
      BY <1>2, <2>14, <2>15, <3>1, TextConcat
    <3>3. (Info!Top)' = f
      BY <2>16, <3>1 DEF Info!Top
    <3>4. tabs'[(Info!Top)'.indent.data] = (Info!Top)'.indent.size
      BY <1>2, <2>4, <2>5, <3>3
    <3>5. \A k \in 1..Len(frames') : frames'[k].i # -1
      BY <2>16, <2>17, <3>1
    <3>6. (\A k \in 1..(Len(frames') - 1) : frames'[k].i # -1) /\ frames'[1].i # -1
      BY <2>1, <2>16, <3>1, <3>5
    <3>7. IsRest(next, frames') /\ out' \o next[Len(frames')] = Listing(root')
      BY <2>14, <2>16, <3>1, <3>2
    <3> QED BY <1>0, <1>2, <2>15, <2>18, <3>4, <3>6, <3>7 DEF OutInv
  <2>20. CASE Info!Composed(m)
    <3>1. frames' = Append(s, g) /\ sub = From(m.type, 0, n + 1)
      BY <1>2, <2>20 DEF sub
    <3>2. /\ g.i = -1 /\ g.type = m.type /\ g.indent = Info!Top.indent /\ g \in Calls
      <4>1. m.type \in DOMAIN Types /\ Info!Top.indent \in Strings
        BY <2>1, <2>20 DEF Info!Composed, Calls
      <4> QED BY <4>1 DEF g, Info!Call, Calls
    <3>3. Left(g, n + 1) = sub
      <4>1. n + 1 # 1
        BY <2>1
      <4>2. Left(g, n + 1) = << >> \o sub
        BY <3>1, <3>2, <4>1 DEF Left
      <4> QED BY <2>7, <4>2, TextConcat
    <3>4. /\ Len(frames') = n + 1 /\ frames'[n + 1] = g /\ \A k \in 1..n : frames'[k] = s[k]
      BY <2>1, <2>16, <3>1
    <3>5. PICK after : IsRest(after, Append(s, g)) /\ after[n + 1] = sub \o next[n]
      <4>1. /\ s \in Seq(Calls) /\ IsRest(next, s) /\ g \in Calls
            /\ Left(g, Len(s) + 1) \in Texts
        BY <2>7, <2>14, <2>16, <3>2, <3>3
      <4>2. \E after : /\ IsRest(after, Append(s, g))
                       /\ after[Len(s) + 1] = Left(g, Len(s) + 1) \o next[Len(s)]
        BY <4>1, RestCalled, Zenon
      <4> QED BY <2>16, <3>3, <4>2
    <3>6. IsRest(after, frames') /\ out' \o after[Len(frames')] = Listing(root')
      BY <1>2, <2>15, <3>1, <3>4, <3>5
    <3>7. (Info!Top)' = g
      BY <3>4 DEF Info!Top
    <3>8. tabs'[(Info!Top)'.indent.data] = (Info!Top)'.indent.size
      BY <1>2, <2>5, <3>2, <3>7
    <3>9. (n + 1) - 1 = n /\ n + 1 # 1
      BY <2>1
    <3>10. /\ \A k \in 1..(Len(frames') - 1) : frames'[k].i # -1
           /\ Len(frames') # 1
      BY <2>17, <3>4, <3>9
    <3> QED BY <1>0, <1>2, <2>15, <2>18, <3>6, <3>8, <3>10 DEF OutInv
  <2> QED BY <2>19, <2>20
<1> QED BY <1>1, <1>2 DEF Info!PrintMember, Info!Members, Info!Live

LEMMA ReturnOut == LinesDefined /\ ListInv /\ OutInv /\ Info!Return => OutInv'
<1> SUFFICES ASSUME LinesDefined, ListInv, OutInv, Info!Return PROVE OutInv'
  OBVIOUS
<1>0. /\ frames # << >> /\ status = "listing" /\ CallsOK(frames)
      /\ Info!Top.i = Len(Types[Info!Top.type])
  BY DEF Info!Return, Info!AtEnd, ListInv, Info!Members
<1>1. CASE Info!Stop("stale")
  BY <1>1, StopOut DEF Info!Stop
<1> DEFINE n == Len(frames)
           ty == Info!Top.type
           d == Info!Top.indent.data
<1>2. CASE /\ d \in DOMAIN tabs /\ tabs' = Info!Truncated(Info!Top.indent, 1)
           /\ frames' = Info!Returned /\ UNCHANGED <<status, root, out>>
  <2>1. /\ n \in Nat \ {0} /\ Info!Top \in Calls /\ CallOK(Info!Top, n)
        /\ Info!Top = frames[n] /\ ty \in DOMAIN Types /\ Len(Types[ty]) \in Nat
    BY <1>0, TopCall, TypeMembers DEF Calls
  <2>2. Left(Info!Top, n) = << >>
    <3>1. Info!Top.i \in Nat /\ Info!Top.i >= Len(Types[ty]) /\ Info!Top.i # -1
      BY <1>0, <2>1
    <3> QED BY <2>1, <3>1 DEF Left, LinesDefined
  <2>3. Info!Top.indent.size = n /\ tabs[d] = n
    BY <1>0, <1>2, <2>1 DEF CallOK, OutInv
  <2>4. DOMAIN tabs' = {d} /\ tabs'[d] = n - 1
    <3>1. DOMAIN tabs = {d}
      BY <1>0, <1>2 DEF OutInv
    <3>2. ~(tabs[d] < n - 1)
      BY <2>1, <2>3
    <3> QED BY <1>2, <2>3, <3>1, <3>2 DEF Info!Truncated
  <2>5. /\ Len(frames') = n - 1 /\ \A k \in 1..(n - 1) : frames'[k] = frames[k]
    BY <1>0, <1>2, <2>1, Replaced
  <2>6. CallsOK(frames')
    BY <1>0, <1>2, <2>1, ReplacedOK
  <2> HIDE DEF n, ty, d
  <2>7. PICK rest : IsRest(rest, frames) /\ out \o rest[n] = Listing(root)
    BY <1>0 DEF OutInv, n
  <2>8. PICK next : IsRest(next, frames') /\ next[n - 1] = rest[n]
    <3>1. /\ CallsOK(frames) /\ frames # << >> /\ IsRest(rest, frames)
          /\ Left(Info!Top, Len(frames)) = << >>
      BY <1>0, <2>2, <2>7 DEF n
    <3>2. \E next : IsRest(next, Info!Returned) /\ next[Len(frames) - 1] = rest[Len(frames)]
      BY <3>1, RestReturned, Zenon
    <3> QED BY <1>2, <3>2 DEF n
  <2>9. out' \in Texts /\ out' \o next[Len(frames')] = Listing(root')
    BY <1>0, <1>2, <2>5, <2>7, <2>8 DEF OutInv
  <2>10. \A k \in 1..(n - 1) : frames'[k].i # -1
    BY <1>0, <2>5 DEF OutInv, n
  <2>11. /\ \A k \in 1..(Len(frames') - 1) : frames'[k].i # -1
         /\ ~(Len(frames') = 1 /\ frames'[1].i = -1)
    BY <2>1, <2>5, <2>10
  <2>12. ASSUME frames' # << >>, (Info!Top)'.indent.data \in DOMAIN tabs'
         PROVE  tabs'[(Info!Top)'.indent.data] = (Info!Top)'.indent.size
    <3>1. n - 1 \in 1..(n - 1) /\ (Info!Top)' = frames'[n - 1]
      <4>1. n - 1 \in Nat \ {0}
        BY <2>5, <2>6, <2>12, EmptySeq DEF CallsOK
      <4>2. n - 1 \in 1..(n - 1)
        BY <2>1, <4>1
      <4>3. (Info!Top)' = frames'[Len(frames')] /\ Len(frames') = n - 1
        BY <2>5, Zenon DEF Info!Top
      <4> QED BY <4>2, <4>3
    <3>2. CallOK(frames'[n - 1], n - 1)
      BY <2>5, <2>6, <3>1 DEF CallsOK
    <3>3. (Info!Top)'.indent.size = n - 1
      BY <2>10, <3>1, <3>2 DEF CallOK
    <3> QED BY <2>4, <2>12, <3>3
  <2>13. status' = "listing" /\ \E b : DOMAIN tabs' = {b}
    BY <1>0, <1>2, <2>4
  <2> QED BY <2>8, <2>9, <2>11, <2>12, <2>13 DEF OutInv
<1> QED BY <1>1, <1>2 DEF Info!Return, Info!Live

LEMMA OutStep == LinesDefined /\ ListInv /\ OutInv /\ [Info!Next]_(Info!vars) => OutInv'
<1> SUFFICES ASSUME LinesDefined, ListInv, OutInv, [Info!Next]_(Info!vars) PROVE OutInv'
  OBVIOUS
<1>1. CASE Info!EnterStops
  BY <1>1, StopOut DEF Info!EnterStops, Info!Stop
<1>2. CASE Info!TypeInfoReturns
  <2>1. CASE Info!Stop("stale")
    BY <2>1, StopOut DEF Info!Stop
  <2>2. CASE /\ indent_buffer.data \in DOMAIN tabs /\ status' = "returned"
             /\ tabs' = [x \in DOMAIN tabs \ {indent_buffer.data} |-> tabs[x]]
             /\ UNCHANGED <<root, out>>
    <3>1. status = "listing" /\ frames = << >> /\ Len(frames) = 0
      BY <1>2 DEF Info!TypeInfoReturns
    <3>2. DOMAIN tabs = {indent_buffer.data}
      BY <2>2, <3>1 DEF OutInv
    <3>3. DOMAIN tabs' = {}
      BY <2>2, <3>2
    <3>4. PICK rest : IsRest(rest, frames) /\ out \o rest[Len(frames)] = Listing(root)
      BY <3>1 DEF OutInv
    <3>5. out \in Texts /\ rest[Len(frames)] = << >>
      BY <3>1, <3>4 DEF OutInv, IsRest
    <3>6. out = Listing(root)
      BY <3>4, <3>5, TextConcat
    <3> QED BY <2>2, <3>3, <3>6 DEF OutInv
  <2> QED BY <1>2, <2>1, <2>2 DEF Info!TypeInfoReturns, Info!Live
<1>3. CASE Info!Release
  BY <1>3 DEF Info!Release, OutInv
<1>4. CASE UNCHANGED Info!vars
  <2>1. UNCHANGED <<status, root, tabs, frames, out>> /\ UNCHANGED Info!Top
    BY <1>4 DEF Info!vars, Info!Top
  <2> QED BY <2>1 DEF OutInv
<1> QED BY <1>1, <1>2, <1>3, <1>4, StartOut, EnterOut, PrintOut, ReturnOut DEF Info!Next
-----------------------------------------------------------------------------
\* The strings and their user in one firmware.

UsedInv == IInv /\ ListInv /\ BlockInv

LEMMA UsedInvariance == UsedSpec => []UsedInv
<1>1. UsedInit => UsedInv
  <2> SUFFICES ASSUME UsedInit PROVE UsedInv
    OBVIOUS
  <2>1. IInv
    BY InitIInv DEF UsedInit
  <2>2. ListInv /\ BlockInv
    BY DEF UsedInit, Info!Init, ListInv, BlockInv, CallsOK
  <2> QED BY <2>1, <2>2 DEF UsedInv
<1>2. UsedInv /\ [UsedNext]_<<vars, infoVars, user>> => UsedInv'
  <2> SUFFICES ASSUME UsedInv, [UsedNext]_<<vars, infoVars, user>> PROVE UsedInv'
    OBVIOUS
  <2>1. [Next]_vars /\ [Info!Next]_(Info!vars)
    BY DEF UsedNext, infoVars, Info!vars
  <2> QED BY <2>1, NextIInv, ListStep, BlockStep DEF UsedInv
<1> QED BY <1>1, <1>2, PTL DEF UsedSpec

\* The strings, and the calls of print_type_info, keep their types: a call has as many
\* characters of indentation as it is deep, whatever type is listed.
THEOREM UsedTypeCorrect == UsedSpec => []UsedTypeOK
<1>1. UsedInv => UsedTypeOK
  <2> SUFFICES ASSUME UsedInv PROVE UsedTypeOK
    OBVIOUS
  <2>1. TypeOK
    BY DEF UsedInv, IInv
  <2>2. ASSUME NEW k \in 1..Len(frames)
        PROVE  /\ frames[k].type \in DOMAIN Types
               /\ frames[k].i \in -1..Len(Types[frames[k].type])
               /\ frames[k].indent.size \in (k - 1)..k
    <3>1. frames[k] \in Calls /\ CallOK(frames[k], k) /\ k \in Nat
      BY ElementOfSeq, LenProperties DEF UsedInv, ListInv, CallsOK
    <3>2. frames[k].indent.size \in {k - 1, k}
      BY <3>1 DEF CallOK
    <3> QED BY <3>1, <3>2 DEF CallOK, Calls
  <2>3. Info!TypeOK
    BY <2>2 DEF UsedInv, ListInv, Info!TypeOK, Info!Live
  <2> QED BY <2>1, <2>3 DEF UsedTypeOK
<1> QED BY <1>1, UsedInvariance, PTL

\* Listing a type uses a block that was given up only if the type has members of message
\* types and reallocate moves blocks: the outermost call never grows its block.
THEOREM StaleNeedsNesting == UsedSpec => []StaleOnlyNested
<1>1. UsedInv => StaleOnlyNested
  BY DEF UsedInv, BlockInv, StaleOnlyNested, Info!StaleOnlyNested
<1> QED BY <1>1, UsedInvariance, PTL
-----------------------------------------------------------------------------
\* That the listing is defined.

\* No type contains itself, however deep, and there is a bound on the number of members.
Acyclic ==
    \E rank \in [DOMAIN Types -> Nat], K \in Nat :
        \A t \in DOMAIN Types :
           /\ Len(Types[t]) <= K
           /\ \A i \in 1..Len(Types[t]) :
                 Info!Composed(Types[t][i]) => rank[Types[t][i].type] < rank[t]

\* What the recursion makes of lines that are known.
Printed(f, p) ==
    LET t == p[1]
        m == Types[t][p[2]]
    IN  IF p[2] > Len(Types[t]) THEN << >>
        ELSE <<[tabs |-> p[3], what |-> m.name]>>
             \o (IF Info!Composed(m) THEN f[<<m.type, 1, p[3] + 1>>] ELSE << >>)
             \o f[<<t, p[2] + 1, p[3]>>]

\* The places that a place refers to are places.
LEMMA PlaceNext ==
    ASSUME NEW p \in Info!Places
    PROVE  /\ p[1] \in DOMAIN Types /\ p[2] \in Nat \ {0} /\ p[3] \in Nat
           /\ Len(Types[p[1]]) \in Nat
           /\ p[2] <= Len(Types[p[1]]) =>
                 LET m == Types[p[1]][p[2]]
                 IN  /\ p[2] \in 1..Len(Types[p[1]]) /\ m.name \in STRING
                     /\ Info!Composed(m) => <<m.type, 1, p[3] + 1>> \in Info!Places
                     /\ <<p[1], p[2] + 1, p[3]>> \in Info!Places
<1>1. p[1] \in DOMAIN Types /\ p[2] \in Nat \ {0} /\ p[3] \in Nat
  BY DEF Info!Places
<1>2. Types[p[1]] \in Seq([name : STRING, type : STRING]) /\ Len(Types[p[1]]) \in Nat
  BY <1>1, ListedAssumption
<1>3. p[2] + 1 \in Nat \ {0} /\ p[3] + 1 \in Nat /\ 1 \in Nat \ {0}
  BY <1>1
<1>4. <<p[1], p[2] + 1, p[3]>> \in Info!Places
  BY <1>1, <1>3 DEF Info!Places
<1> DEFINE m == Types[p[1]][p[2]]
<1>5. ASSUME p[2] <= Len(Types[p[1]]) PROVE p[2] \in 1..Len(Types[p[1]]) /\ m.name \in STRING
  <2>1. p[2] \in 1..Len(Types[p[1]])
    BY <1>1, <1>2, <1>5
  <2>2. m \in [name : STRING, type : STRING]
    BY <1>2, <2>1, ElementOfSeq
  <2> QED BY <2>1, <2>2
<1>6. Info!Composed(m) => <<m.type, 1, p[3] + 1>> \in Info!Places
  BY <1>1, <1>3 DEF Info!Composed, Info!Places
<1> QED BY <1>1, <1>2, <1>4, <1>5, <1>6

LEMMA PrintedText ==
    ASSUME NEW f \in [Info!Places -> Texts], NEW p \in Info!Places
    PROVE  Printed(f, p) \in Texts
<1> DEFINE m == Types[p[1]][p[2]]
           A == <<[tabs |-> p[3], what |-> m.name]>>
           B == IF Info!Composed(m) THEN f[<<m.type, 1, p[3] + 1>>] ELSE << >>
           C == f[<<p[1], p[2] + 1, p[3]>>]
<1>0. Texts = Seq([tabs : Nat, what : STRING \cup DOMAIN Types]) /\ << >> \in Texts
  BY DEF Texts
<1>1. CASE p[2] > Len(Types[p[1]])
  BY <1>0, <1>1 DEF Printed
<1>2. CASE ~(p[2] > Len(Types[p[1]]))
  <2>0. p[2] \in Nat /\ p[3] \in Nat /\ Len(Types[p[1]]) \in Nat
    BY PlaceNext
  <2>1. p[2] <= Len(Types[p[1]]) /\ p[3] \in Nat
    BY <1>2, <2>0
  <2>2. m.name \in STRING
    BY <2>1, PlaceNext
  <2>3. A \in Texts
    BY <1>0, <2>1, <2>2
  <2>4. B \in Texts
    BY <1>0, <2>1, PlaceNext
  <2>5. C \in Texts
    BY <2>1, PlaceNext
  <2>6. Printed(f, p) = A \o B \o C
    BY <1>2 DEF Printed
  <2> HIDE DEF A, B, C
  <2> QED BY <1>0, <2>3, <2>4, <2>5, <2>6, ConcatProperties
<1> QED BY <1>1, <1>2

\* A measure of the places that Printed decreases.
Lowers(v) ==
    /\ v \in [Info!Places -> Nat]
    /\ \A p \in Info!Places : p[2] <= Len(Types[p[1]]) =>
          LET m == Types[p[1]][p[2]]
          IN  /\ v[<<p[1], p[2] + 1, p[3]>>] < v[p]
              /\ Info!Composed(m) => v[<<m.type, 1, p[3] + 1>>] < v[p]

LEMMA LinesRank == Acyclic => \E v : Lowers(v)
<1> SUFFICES ASSUME Acyclic PROVE \E v : Lowers(v)
  OBVIOUS
<1>1. PICK rank \in [DOMAIN Types -> Nat], K \in Nat :
        \A t \in DOMAIN Types :
           /\ Len(Types[t]) <= K
           /\ \A i \in 1..Len(Types[t]) :
                 Info!Composed(Types[t][i]) => rank[Types[t][i].type] < rank[t]
  BY DEF Acyclic
<1> DEFINE D == DOMAIN Types
<1>2. PICK w : Falls(D, rank, K, w)
  <2>1. rank \in [D -> Nat]
    OBVIOUS
  <2> HIDE DEF D
  <2> QED BY <2>1, MemberRank
<1> DEFINE S == Info!Places
           v == [p \in S |-> w[<<p[1], p[2]>>]]
<1>3. v \in [S -> Nat]
  <2>1. ASSUME NEW p \in S PROVE w[<<p[1], p[2]>>] \in Nat
    BY <1>2, PlaceNext DEF Falls
  <2> QED BY <2>1
<1>4. ASSUME NEW p \in S, p[2] <= Len(Types[p[1]])
      PROVE  LET m == Types[p[1]][p[2]]
             IN  /\ v[<<p[1], p[2] + 1, p[3]>>] < v[p]
                 /\ Info!Composed(m) => v[<<m.type, 1, p[3] + 1>>] < v[p]
  <2> DEFINE m == Types[p[1]][p[2]]
             a == <<m.type, 1, p[3] + 1>>
             b == <<p[1], p[2] + 1, p[3]>>
  <2>1. p[1] \in D /\ Len(Types[p[1]]) \in Nat
    BY PlaceNext
  <2>2. b \in S /\ (Info!Composed(m) => a \in S) /\ p[2] \in 1..Len(Types[p[1]])
    BY <1>4, PlaceNext
  <2>3. p[2] \in 1..K
    BY <1>1, <2>1, <2>2
  <2>4. v[p] = w[<<p[1], p[2]>>] /\ v[b] = w[<<p[1], p[2] + 1>>]
    BY <2>2
  <2>5. v[b] < v[p]
    BY <1>2, <2>1, <2>3, <2>4 DEF Falls
  <2>6. ASSUME Info!Composed(m) PROVE v[a] < v[p]
    <3>1. v[a] = w[<<m.type, 1>>]
      BY <2>2, <2>6
    <3>2. m.type \in D /\ rank[m.type] < rank[p[1]]
      BY <1>1, <2>1, <2>2, <2>6 DEF Info!Composed
    <3> QED BY <1>2, <2>1, <2>3, <2>4, <3>1, <3>2 DEF Falls
  <2> QED BY <2>5, <2>6
<1> HIDE DEF v
<1>5. Lowers(v)
  BY <1>3, <1>4 DEF Lowers
<1> QED BY <1>5

\* What is printed at a place depends only on lower places.
LEMMA PrintedSame ==
    ASSUME NEW v, Lowers(v), NEW f, NEW g, NEW p \in Info!Places,
           \A q \in Info!Places : v[q] < v[p] => f[q] = g[q]
    PROVE  Printed(f, p) = Printed(g, p)
<1>1. CASE p[2] > Len(Types[p[1]])
  BY <1>1 DEF Printed
<1>2. CASE ~(p[2] > Len(Types[p[1]]))
  <2> DEFINE m == Types[p[1]][p[2]]
             a == <<m.type, 1, p[3] + 1>>
             b == <<p[1], p[2] + 1, p[3]>>
  <2>1. p[2] \in Nat /\ Len(Types[p[1]]) \in Nat
    BY PlaceNext
  <2>2. p[2] <= Len(Types[p[1]])
    BY <1>2, <2>1
  <2>3. b \in Info!Places /\ (Info!Composed(m) => a \in Info!Places)
    BY <2>2, PlaceNext
  <2>4. v[b] < v[p] /\ (Info!Composed(m) => v[a] < v[p])
    BY <2>2 DEF Lowers
  <2>5. f[b] = g[b] /\ (Info!Composed(m) => f[a] = g[a])
    BY <2>3, <2>4
  <2> QED BY <1>2, <2>5 DEF Printed
<1> QED BY <1>1, <1>2

LEMMA LinesExist ==
    ASSUME NEW v, Lowers(v)
    PROVE  \E f \in [Info!Places -> Texts] : f = [p \in Info!Places |-> Printed(f, p)]
<1> DEFINE S == Info!Places
           phi == [f \in [S -> Texts] |-> [p \in S |-> Printed(f, p)]]
<1>1. v \in [S -> Nat]
  BY DEF Lowers
<1>2. phi \in [[S -> Texts] -> [S -> Texts]]
  BY PrintedText
<1>3. ASSUME NEW f \in [S -> Texts], NEW g \in [S -> Texts], NEW p \in S,
             \A q \in S : v[q] < v[p] => f[q] = g[q]
      PROVE  phi[f][p] = phi[g][p]
  <2>1. phi[f][p] = Printed(f, p) /\ phi[g][p] = Printed(g, p)
    OBVIOUS
  <2> QED BY <1>3, <2>1, PrintedSame
<1>4. Texts # {}
  <2>1. << >> \in Texts
    BY DEF Texts
  <2> QED BY <2>1
<1> HIDE DEF phi, S
<1>5. Contracts(S, Texts, v, phi)
  BY <1>1, <1>2, <1>3, <1>4 DEF Contracts
<1>6. PICK f \in [S -> Texts] : phi[f] = f
  BY <1>5, Fixpoint
<1>7. f = [p \in S |-> Printed(f, p)]
  BY <1>6 DEF phi
<1> QED BY <1>6, <1>7 DEF S

\* Lines is defined, unless some type has itself inside.
LEMMA AcyclicLines == Acyclic => LinesDefined
<1> SUFFICES ASSUME Acyclic PROVE LinesDefined
  OBVIOUS
<1> DEFINE S == Info!Places
           L == Info!Lines
<1>0. PICK v : Lowers(v)
  BY LinesRank
<1>1. PICK g \in [S -> Texts] : g = [p \in S |-> Printed(g, p)]
  BY <1>0, LinesExist
<1>2. L = [p \in S |-> Printed(L, p)]
  BY <1>1, Zenon DEF Info!Lines, Printed
<1> HIDE DEF L
<1>3. \A p \in S : L[p] = Printed(L, p)
  BY <1>2
<1>4. \A p \in S : L[p] = g[p]
  <2>1. ASSUME NEW p \in S, \A q \in S : v[q] < v[p] => L[q] = g[q] PROVE L[p] = g[p]
    <3>1. Printed(L, p) = Printed(g, p)
      BY <1>0, <2>1, PrintedSame
    <3>2. g[p] = Printed(g, p)
      BY <1>1
    <3> QED BY <1>3, <3>1, <3>2
  <2>2. v \in [S -> Nat]
    BY <1>0 DEF Lowers
  <2> HIDE DEF S
  <2> QED BY <2>1, <2>2, Agree
<1>5. ASSUME NEW t \in DOMAIN Types, NEW i \in Nat, NEW d \in Nat
      PROVE  /\ From(t, i, d) \in Texts
             /\ i >= Len(Types[t]) => From(t, i, d) = << >>
             /\ i \in 0..(Len(Types[t]) - 1) =>
                   From(t, i, d) =
                      <<[tabs |-> d, what |-> Types[t][i + 1].name]>>
                      \o (IF Info!Composed(Types[t][i + 1])
                          THEN From(Types[t][i + 1].type, 0, d + 1) ELSE << >>)
                      \o From(t, i + 1, d)
  <2> DEFINE p == <<t, i + 1, d>>
  <2>1. i + 1 \in Nat \ {0} /\ Len(Types[t]) \in Nat
    BY ListedAssumption
  <2>2. p \in S /\ p[1] = t /\ p[2] = i + 1 /\ p[3] = d
    BY <2>1 DEF Info!Places
  <2>3. From(t, i, d) = L[p] /\ L[p] = g[p]
    BY <1>4, <2>2 DEF From, L
  <2>4. L[p] = Printed(L, p)
    BY <1>3, <2>2
  <2> HIDE DEF p
  <2>5. ASSUME i >= Len(Types[t]) PROVE Printed(L, p) = << >>
    <3>1. i + 1 > Len(Types[t])
      BY <2>1, <2>5
    <3> QED BY <2>2, <3>1 DEF Printed
  <2>6. ASSUME i \in 0..(Len(Types[t]) - 1)
        PROVE  Printed(L, p) = <<[tabs |-> d, what |-> Types[t][i + 1].name]>>
                      \o (IF Info!Composed(Types[t][i + 1])
                          THEN From(Types[t][i + 1].type, 0, d + 1) ELSE << >>)
                      \o From(t, i + 1, d)
    <3>1. ~(i + 1 > Len(Types[t])) /\ 0 + 1 = 1
      BY <2>1, <2>6
    <3>2. From(Types[t][i + 1].type, 0, d + 1) = L[<<Types[t][i + 1].type, 1, d + 1>>]
      BY <3>1 DEF From, L
    <3>3. From(t, i + 1, d) = L[<<t, (i + 1) + 1, d>>]
      BY DEF From, L
    <3> QED BY <2>2, <3>1, <3>2, <3>3 DEF Printed
  <2> QED BY <2>2, <2>3, <2>4, <2>5, <2>6
<1> QED BY <1>5 DEF LinesDefined

\* What type_info returns lists every member once, in order and at its depth, and leaves
\* nothing of its indentation, for every set of types of which none contains itself.
THEOREM ListsEveryMember == Acyclic => (UsedSpec => []ListingIsTree)
<1> SUFFICES ASSUME LinesDefined PROVE UsedSpec => []ListingIsTree
  BY AcyclicLines
<1>1. UsedInit => OutInv
  BY DEF UsedInit, Info!Init, OutInv
<1>2. UsedInv /\ OutInv /\ [UsedNext]_<<vars, infoVars, user>> => OutInv'
  <2> SUFFICES ASSUME UsedInv, OutInv, [UsedNext]_<<vars, infoVars, user>> PROVE OutInv'
    OBVIOUS
  <2>1. [Info!Next]_(Info!vars)
    BY DEF UsedNext, infoVars, Info!vars
  <2> QED BY <2>1, OutStep DEF UsedInv
<1>3. OutInv => ListingIsTree
  <2> SUFFICES ASSUME OutInv, status = "returned"
               PROVE  out = Heading(root) \o Info!Lines[<<root, 1, 1>>] /\ DOMAIN tabs = {}
    BY DEF ListingIsTree, Info!ListingIsTree, Info!Live, Heading
  <2>1. 0 + 1 = 1
    OBVIOUS
  <2>2. From(root, 0, 1) = Info!Lines[<<root, 1, 1>>]
    BY <2>1, Zenon DEF From
  <2> QED BY <2>2 DEF OutInv, Listing
<1> QED BY <1>1, <1>2, <1>3, UsedInvariance, PTL DEF UsedSpec
==============================================================================
