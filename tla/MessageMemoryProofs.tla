------------------------- MODULE MessageMemoryProofs -------------------------
(***************************************************************************)
(* The memory of a message, for every set of message types and rules, any  *)
(* heap and any alignment: the walks keep their types, the rules are       *)
(* looked up under the right name, both walks of a call add up to the same *)
(* size, and the pieces of a buffer are apart and inside it.               *)
(***************************************************************************)
EXTENDS MessageMemory, RecursionProofs, SequenceTheorems, TLAPS
-----------------------------------------------------------------------------
\* What a pointer, an address of a structure and a name are.
Pointers == {"null", "message", "heap", "buffer"} \X Nat
Locs == Seq(Pointers \cup Nat)
Names == [data : Nat, size : Int, capacity : Nat]

Frames ==
    [ty : DOMAIN Types, loc : Locs, name : Names,
     at : {"name", "memory", "inner", "pop", "done"}, i : Nat, n : Nat, k : Nat, used : Nat]

\* A frame is at a member of its type, or behind the last, and counts its recursive
\* calls from the time it has the member's memory.
FrameOK(f) ==
    /\ f.i \in 1..(Len(Types[f.ty]) + 1) /\ f.k \in 0..(f.n + 1)
    /\ f.at \in {"name", "memory"} => f.k = 0
    /\ f.at \in {"memory", "inner", "pop"} => f.i <= Len(Types[f.ty])

StackOK(s) == s \in Seq(Frames) /\ \A j \in 1..Len(s) : FrameOK(s[j])

Apis == {"dynamic_size", "static_size", "create", "create_static", "destroy"}
Calls == [api : Apis, root : Roots, conf : Confs, len : Nat]

HeapOK ==
    /\ Live \subseteq 1..NBlocks /\ \A b \in Live : heap[b].size \in Nat
    /\ \A l \in DOMAIN fields : fields[l].data \in Pointers /\ fields[l].capacity \in Nat

\* What is called, and what is made; between two calls nothing is walked.
CallOK ==
    /\ call \in Calls \cup {Idle} /\ made \in Calls \cup {Idle}
    /\ msg \in {"raw", "made", "failed", "static"}
    /\ msg \in {"made", "failed"} => made # Idle
    /\ op \in Apis \cup {"none"} /\ name_tree \in Names
    /\ call = Idle => stack = << >>

CountOK ==
    /\ calculated \in Nat /\ rv \in Nat /\ index \in Nat
    /\ oom \in {"no", "empty", "lost"} /\ fault \in {"none", "null", "name", "memory"}

TypeInv == HeapOK /\ StackOK(stack) /\ CallOK /\ CountOK
-----------------------------------------------------------------------------
\* Facts about numbers.

LEMMA Division ==
    ASSUME NEW a \in Int, NEW b \in Nat \ {0}
    PROVE  a \div b \in Int /\ a % b \in 0..b-1 /\ a = b * (a \div b) + (a % b)
OBVIOUS

LEMMA Monotone ==
    ASSUME NEW a \in Nat, NEW x \in Int, NEW y \in Int, x <= y
    PROVE  a * x \in Int /\ a * y \in Int /\ a * x <= a * y
OBVIOUS

LEMMA Before ==
    ASSUME NEW x \in Nat \ {0}, x # 1
    PROVE  x - 1 \in Nat \ {0} /\ x - 1 \in 1..x /\ x - 1 < x
OBVIOUS

\* A multiple is divided without remainder.
LEMMA DivideMultiple ==
    ASSUME NEW q \in Int, NEW b \in Nat \ {0}
    PROVE  (b * q) \div b = q /\ (b * q) % b = 0
<1> DEFINE a == b * q
           p == a \div b
           u == a % b
<1>0. a \in Int /\ a = b * q
  OBVIOUS
<1> HIDE DEF a
<1>1. p \in Int /\ u \in 0..b-1 /\ b * p + u = a
  BY <1>0, Division
<1> HIDE DEF p, u
<1>2. b * p \in Int /\ b * q \in Int /\ b * (q + 1) = b * q + b /\ b * (p + 1) = b * p + b
  BY <1>1
<1>3. ~(p <= q - 1)
  <2> SUFFICES ASSUME p + 1 <= q PROVE FALSE
    BY <1>1
  <2>1. b * (p + 1) <= b * q
    BY <1>1, Monotone
  <2> QED BY <1>0, <1>1, <1>2, <2>1
<1>4. ~(p >= q + 1)
  <2> SUFFICES ASSUME q + 1 <= p PROVE FALSE
    BY <1>1
  <2>1. b * (q + 1) <= b * p
    BY <1>1, Monotone
  <2> QED BY <1>0, <1>1, <1>2, <2>1
<1>5. p = q
  BY <1>1, <1>3, <1>4
<1>6. u = 0
  BY <1>0, <1>1, <1>2, <1>5
<1> QED BY <1>5, <1>6 DEF p, u, a

\* get_static_memory only moves forward, to a multiple of ALIGNMENT.
LEMMA AlignedUp ==
    ASSUME NEW n \in Nat
    PROVE  Aligned(n) \in Nat /\ Aligned(n) >= n /\ Aligned(n) % Alignment = 0
<1> DEFINE a == n + Alignment - 1
           q == a \div Alignment
           r == a % Alignment
<1>1. Alignment \in Nat \ {0} /\ a \in Int
  BY MessageAssumption DEF MessageAssumption
<1>2. q \in Int /\ r \in 0..Alignment-1 /\ a = Alignment * q + r
  BY <1>1, Division
<1>3. Aligned(n) = Alignment * q
  <2>1. Aligned(n) = q * Alignment
    BY DEF Aligned
  <2> HIDE DEF q
  <2> QED BY <1>1, <1>2, <2>1
<1>4. Alignment * q \in Int /\ Alignment * q = n + Alignment - 1 - r
  BY <1>1, <1>2
<1> HIDE DEF q, r
<1>5. Alignment * q >= n
  BY <1>1, <1>2, <1>4
<1>6. (Alignment * q) % Alignment = 0
  BY <1>1, <1>2, DivideMultiple
<1> QED BY <1>3, <1>4, <1>5, <1>6

\* A set of numbers that is not empty has a least one.
\* The allocator returns a free block.
LEMMA FirstFreeIsFree == Free # {} => FirstFree \in Free
<1> SUFFICES ASSUME Free # {} PROVE FirstFree \in Free
  OBVIOUS
<1>1. Free \subseteq Nat
  BY MessageAssumption DEF Free, MessageAssumption
<1>2. \E b \in Free : \A c \in Free : b <= c
  BY <1>1, LeastExists
<1> QED BY <1>2 DEF FirstFree
-----------------------------------------------------------------------------
\* Facts about the stack of frames.

LEMMA SetTopFrames ==
    ASSUME stack \in Seq(Frames), stack # << >>, NEW f \in Frames
    PROVE  /\ SetTop(f) \in Seq(Frames) /\ Len(SetTop(f)) = Len(stack)
           /\ SetTop(f)[Len(stack)] = f
           /\ \A j \in 1..(Len(stack) - 1) : SetTop(f)[j] = stack[j]
<1>1. Len(stack) \in 1..Len(stack)
  BY EmptySeq, LenProperties
<1> QED BY <1>1, ExceptSeq DEF SetTop

LEMMA FrameUsed ==
    ASSUME NEW f \in Frames, NEW u \in Nat
    PROVE  /\ [f EXCEPT !.used = @ + u] \in Frames
           /\ [f EXCEPT !.at = "done", !.used = u] \in Frames
           /\ FrameOK(f) => /\ FrameOK([f EXCEPT !.used = @ + u])
                            /\ FrameOK([f EXCEPT !.at = "done", !.used = u])
<1>1. [f EXCEPT !.used = @ + u] \in Frames
  BY DEF Frames
<1>2. [f EXCEPT !.at = "done", !.used = u] \in Frames
  BY DEF Frames
<1>3. FrameOK(f) => FrameOK([f EXCEPT !.used = @ + u])
  BY DEF Frames, FrameOK
<1>4. FrameOK(f) => FrameOK([f EXCEPT !.at = "done", !.used = u])
  BY DEF Frames, FrameOK
<1> QED BY <1>1, <1>2, <1>3, <1>4

LEMMA FrameStep ==
    ASSUME NEW f \in Frames, NEW n \in Nat, NEW u \in Nat
    PROVE  /\ [f EXCEPT !.at = "inner", !.n = n, !.used = u] \in Frames
           /\ [f EXCEPT !.at = "name", !.i = n, !.n = 0, !.k = 0] \in Frames
<1>1. [f EXCEPT !.at = "inner", !.n = n, !.used = u] \in Frames
  BY DEF Frames
<1>2. [f EXCEPT !.at = "name", !.i = n, !.n = 0, !.k = 0] \in Frames
  BY DEF Frames
<1> QED BY <1>1, <1>2

LEMMA PopFrames ==
    ASSUME stack \in Seq(Frames), NEW u \in Nat, stack # << >>
    PROVE  /\ Pop(u) \in Seq(Frames)
           /\ Len(stack) = 1 =>
                 Len(Pop(u)) = 1 /\ Pop(u)[1] = [Top EXCEPT !.at = "done", !.used = u]
           /\ Len(stack) # 1 =>
                 /\ Len(Pop(u)) = Len(stack) - 1
                 /\ \A j \in 1..(Len(stack) - 2) : Pop(u)[j] = stack[j]
                 /\ Pop(u)[Len(stack) - 1] =
                       [stack[Len(stack) - 1] EXCEPT !.used = @ + u]
<1>0. Len(stack) \in Nat \ {0}
  BY EmptySeq
<1>1. \A j \in 1..Len(stack) : stack[j] \in Frames
  BY ElementOfSeq
<1>2. CASE Len(stack) = 1
  <2>0. Top \in Frames
    BY <1>1, <1>2 DEF Top
  <2>1. [Top EXCEPT !.at = "done", !.used = u] \in Frames
    BY <2>0, FrameUsed
  <2> QED BY <1>2, <2>1 DEF Pop
<1>3. CASE Len(stack) # 1
  <2> DEFINE n == Len(stack) - 1
             s == SubSeq(stack, 1, n)
             f == [stack[n] EXCEPT !.used = @ + u]
  <2>1. n \in Nat \ {0} /\ n \in 1..Len(stack) /\ n < Len(stack)
    BY <1>0, <1>3, Before
  <2>2. s \in Seq(Frames) /\ Len(s) = n /\ \A j \in 1..n : s[j] = stack[j]
    BY <1>1, <2>1, SubSeqProperties
  <2>3. f \in Frames
    BY <1>1, <2>1, FrameUsed
  <2>4. Pop(u) = [s EXCEPT ![n] = f]
    BY <1>3, <2>1, <2>2 DEF Pop
  <2> HIDE DEF n, s, f
  <2>5. /\ [s EXCEPT ![n] = f] \in Seq(Frames) /\ Len([s EXCEPT ![n] = f]) = n
        /\ \A j \in 1..n : [s EXCEPT ![n] = f][j] = IF j = n THEN f ELSE s[j]
    BY <2>1, <2>2, <2>3, ExceptSeq
  <2>6. n = Len(stack) - 1 /\ f = [stack[n] EXCEPT !.used = @ + u]
    BY DEF n, f
  <2>7. Pop(u)[n] = f /\ \A j \in 1..(n - 1) : Pop(u)[j] = stack[j]
    BY <2>1, <2>2, <2>4, <2>5
  <2>8. n - 1 = Len(stack) - 2
    BY <1>0, <2>6
  <2> QED BY <1>3, <2>4, <2>5, <2>6, <2>7, <2>8
<1> QED BY <1>2, <1>3

LEMMA PushFrames ==
    ASSUME NEW s \in Seq(Frames), NEW f \in Frames
    PROVE  /\ Append(s, f) \in Seq(Frames) /\ Len(Append(s, f)) = Len(s) + 1
           /\ Append(s, f)[Len(s) + 1] = f
           /\ \A j \in 1..Len(s) : Append(s, f)[j] = s[j]
OBVIOUS

LEMMA TopFrame ==
    ASSUME StackOK(stack), stack # << >>
    PROVE  /\ Len(stack) \in Nat \ {0} /\ Top \in Frames /\ FrameOK(Top)
           /\ Len(members) \in Nat
           /\ Top.i <= Len(members) => m \in MessageMember
<1>1. Len(stack) \in Nat \ {0}
  BY EmptySeq DEF StackOK
<1>2. Top \in Frames /\ FrameOK(Top)
  BY <1>1, ElementOfSeq DEF StackOK, Top
<1>3. members \in Seq(MessageMember)
  BY <1>2, MessageAssumption DEF Frames, members, MessageAssumption
<1>4. Top.i <= Len(members) => Top.i \in 1..Len(members)
  BY <1>2, <1>3 DEF FrameOK, members
<1> QED BY <1>1, <1>2, <1>3, <1>4, ElementOfSeq DEF m

LEMMA SetTopOK ==
    ASSUME StackOK(stack), stack # << >>, NEW f \in Frames, FrameOK(f)
    PROVE  StackOK(SetTop(f))
<1>1. /\ SetTop(f) \in Seq(Frames) /\ Len(SetTop(f)) = Len(stack)
      /\ SetTop(f)[Len(stack)] = f
      /\ \A j \in 1..(Len(stack) - 1) : SetTop(f)[j] = stack[j]
  BY SetTopFrames DEF StackOK
<1>2. Len(stack) \in Nat
  BY LenProperties DEF StackOK
<1>3. ASSUME NEW j \in 1..Len(stack) PROVE FrameOK(SetTop(f)[j])
  BY <1>1, <1>2 DEF StackOK
<1> QED BY <1>1, <1>3 DEF StackOK

LEMMA PushOK ==
    ASSUME NEW s, StackOK(s), NEW f \in Frames, FrameOK(f)
    PROVE  StackOK(Append(s, f))
<1>1. /\ Append(s, f) \in Seq(Frames) /\ Len(Append(s, f)) = Len(s) + 1
      /\ Append(s, f)[Len(s) + 1] = f
      /\ \A j \in 1..Len(s) : Append(s, f)[j] = s[j]
  BY PushFrames DEF StackOK
<1>2. Len(s) \in Nat
  BY LenProperties DEF StackOK
<1>3. ASSUME NEW j \in 1..(Len(s) + 1) PROVE FrameOK(Append(s, f)[j])
  BY <1>1, <1>2 DEF StackOK
<1> QED BY <1>1, <1>3 DEF StackOK

LEMMA PopOK ==
    ASSUME StackOK(stack), stack # << >>, NEW u \in Nat
    PROVE  StackOK(Pop(u))
<1>0. Len(stack) \in Nat \ {0}
  BY EmptySeq DEF StackOK
<1>1. \A j \in 1..Len(stack) : stack[j] \in Frames /\ FrameOK(stack[j])
  BY ElementOfSeq DEF StackOK
<1>2. Pop(u) \in Seq(Frames)
  BY PopFrames DEF StackOK
<1>3. CASE Len(stack) = 1
  <2>1. Len(Pop(u)) = 1 /\ Pop(u)[1] = [Top EXCEPT !.at = "done", !.used = u]
    BY <1>3, PopFrames DEF StackOK
  <2>2. Top \in Frames /\ FrameOK(Top)
    BY <1>1, <1>3 DEF Top
  <2>3. FrameOK([Top EXCEPT !.at = "done", !.used = u])
    BY <2>2, FrameUsed
  <2> QED BY <1>2, <2>1, <2>3 DEF StackOK
<1>4. CASE Len(stack) # 1
  <2>1. /\ Len(Pop(u)) = Len(stack) - 1
        /\ \A j \in 1..(Len(stack) - 2) : Pop(u)[j] = stack[j]
        /\ Pop(u)[Len(stack) - 1] = [stack[Len(stack) - 1] EXCEPT !.used = @ + u]
    BY <1>4, PopFrames DEF StackOK
  <2>2. Len(stack) - 1 \in 1..Len(stack)
    BY <1>0, <1>4, Before
  <2>4. FrameOK([stack[Len(stack) - 1] EXCEPT !.used = @ + u])
    BY <1>1, <2>2, FrameUsed
  <2>5. ASSUME NEW j \in 1..(Len(stack) - 1) PROVE FrameOK(Pop(u)[j])
    BY <1>0, <1>1, <2>1, <2>4
  <2> QED BY <1>2, <2>1, <2>5 DEF StackOK
<1> QED BY <1>3, <1>4
-----------------------------------------------------------------------------
\* Facts about configurations and sizes.

LEMMA ConfType ==
    ASSUME NEW c \in Confs
    PROVE  /\ get_configuration(c).rules = c.rules
           /\ c.rules \in Seq([rule : Seq(STRING), size : Nat])
           /\ get_configuration(c).max_string_capacity \in Nat
           /\ get_configuration(c).max_ros2_type_sequence_capacity \in Nat
           /\ get_configuration(c).max_basic_type_sequence_capacity \in Nat
<1>1. c \in MemoryConf /\ Default \in Capacities
  BY MessageAssumption DEF MessageAssumption
<1> QED BY <1>1 DEF get_configuration, MemoryConf, Capacities

LEMMA SizeNat ==
    ASSUME call \in Calls, NEW t \in MessageMember, NEW text
    PROVE  sequence_size(t, text) \in Nat
<1>1. call.conf \in Confs
  BY DEF Calls
<1> DEFINE R == [rule : Seq(STRING), size : Nat]
           hits == {r \in 1..Len(conf.rules) : conf.rules[r].rule = text}
<1>2. /\ conf.rules \in Seq(R)
      /\ conf.max_string_capacity \in Nat
      /\ conf.max_ros2_type_sequence_capacity \in Nat
      /\ conf.max_basic_type_sequence_capacity \in Nat
  BY <1>1, ConfType DEF conf
<1>3. CASE hits # {}
  <2>1. hits \subseteq Nat
    BY <1>2, LenProperties
  <2>2. \E r \in hits : \A q \in hits : r <= q
    BY <1>3, <2>1, LeastExists
  <2>3. PICK r \in hits : r = CHOOSE x \in hits : \A q \in hits : x <= q
    BY <2>2
  <2>4. conf.rules[r] \in R
    BY <1>2, ElementOfSeq
  <2>5. sequence_size(t, text) = conf.rules[r].size
    BY <1>3, <2>3 DEF sequence_size
  <2> QED BY <2>4, <2>5
<1>4. CASE hits = {}
  BY <1>2, <1>4 DEF sequence_size
<1> QED BY <1>3, <1>4

LEMMA BytesNat ==
    ASSUME NEW t \in MessageMember, NEW n \in Nat
    PROVE  n * member_size(t) \in Nat
<1>1. member_size(t) \in Nat
  BY MessageAssumption DEF member_size, Composed, MessageMember, MessageAssumption
<1> QED BY <1>1, ProductNat
-----------------------------------------------------------------------------
\* Every step keeps the types.

\* What a step of a walk finds.
LEMMA WalkFinds ==
    ASSUME TypeInv, NEW at, Walking(at)
    PROVE  /\ stack # << >> /\ call \in Calls /\ Len(stack) \in Nat \ {0}
           /\ Top \in Frames /\ FrameOK(Top) /\ Top.at = at /\ fault = "none"
           /\ Top.i \in 1..Len(Types[Top.ty]) /\ m \in MessageMember
           /\ Top.k \in Nat /\ Top.n \in Nat /\ Top.used \in Nat /\ Len(Types[Top.ty]) \in Nat
<1>1. stack # << >> /\ Top.at = at /\ Top.i <= Len(members) /\ fault = "none"
  BY DEF Walking
<1>2. call \in Calls
  BY <1>1 DEF TypeInv, CallOK
<1>3. /\ Len(stack) \in Nat \ {0} /\ Top \in Frames /\ FrameOK(Top)
      /\ Len(members) \in Nat /\ m \in MessageMember
  BY <1>1, TopFrame DEF TypeInv
<1>4. Top.k \in Nat /\ Top.n \in Nat /\ Top.used \in Nat /\ Top.i \in Nat
  BY <1>3 DEF Frames
<1>5. Top.i \in 1..Len(Types[Top.ty])
  BY <1>1, <1>3, <1>4 DEF FrameOK, members
<1> QED BY <1>1, <1>2, <1>3, <1>4, <1>5 DEF members

LEMMA WalkKeepsCall ==
    ASSUME CallOK, stack # << >>, UNCHANGED callVars
    PROVE  CallOK'
BY DEF CallOK, callVars

LEMMA PushNameType == TypeInv /\ PushName => TypeInv'
<1> SUFFICES ASSUME TypeInv, PushName PROVE TypeInv'
  OBVIOUS
<1>0. Walking("name") /\ UNCHANGED callVars
  BY DEF PushName
<1>1. /\ stack # << >> /\ Top \in Frames /\ FrameOK(Top) /\ Top.at = "name"
      /\ Top.i \in 1..Len(Types[Top.ty]) /\ Len(Types[Top.ty]) \in Nat
  BY <1>0, WalkFinds
<1>2. CallOK'
  BY <1>0, <1>1, WalkKeepsCall DEF TypeInv
<1>3. CASE UNCHANGED <<heap, fields, stack>> /\ fault' \in {"name", "null"}
           /\ UNCHANGED <<index, oom>>
  BY <1>0, <1>2, <1>3 DEF TypeInv, HeapOK, StackOK, CountOK, Live, callVars
<1>4. CASE /\ stack' = SetTop([Top EXCEPT !.at = "memory"])
           /\ UNCHANGED <<heap, fields, index, oom, fault>>
  <2>1. [Top EXCEPT !.at = "memory"] \in Frames
    BY <1>1 DEF Frames
  <2>2. FrameOK([Top EXCEPT !.at = "memory"])
    BY <1>1 DEF Frames, FrameOK
  <2>3. StackOK(stack')
    BY <1>1, <1>4, <2>1, <2>2, SetTopOK DEF TypeInv
  <2> QED BY <1>0, <1>2, <1>4, <2>3 DEF TypeInv, HeapOK, CountOK, Live, callVars
<1>5. ASSUME NEW b, NEW cap \in Nat, NEW text, NEW size \in Int, Top.name.data \in Live,
             b \in Grown(Top.name.data), cap # Top.name.capacity \/ b = Top.name.data,
             heap' = [x \in (Live \ {Top.name.data}) \cup {b} |->
                        IF x = b THEN [size |-> IF cap # Top.name.capacity THEN cap
                                                ELSE heap[b].size,
                                       text |-> text]
                        ELSE heap[x]],
             stack' = SetTop([Top EXCEPT !.at = "memory",
                                !.name = [data |-> b, size |-> size, capacity |-> cap]]),
             UNCHANGED <<fields, index, oom, fault>>
      PROVE  TypeInv'
  <2>1. b \in 1..NBlocks /\ NBlocks \in Nat
    BY <1>5, FirstFreeIsFree, MessageAssumption
       DEF Grown, Free, TypeInv, HeapOK, MessageAssumption
  <2>2. HeapOK'
    BY <1>5, <2>1 DEF TypeInv, HeapOK, Live
  <2> DEFINE name == [data |-> b, size |-> size, capacity |-> cap]
             f == [Top EXCEPT !.at = "memory", !.name = name]
  <2>n. name \in Names
    BY <2>1 DEF Names
  <2> HIDE DEF name
  <2>3. f \in Frames
    BY <1>1, <2>n DEF Frames
  <2>4. FrameOK(f)
    BY <1>1 DEF Frames, FrameOK
  <2>5. StackOK(stack')
    BY <1>1, <1>5, <2>3, <2>4, SetTopOK DEF TypeInv, name
  <2> QED BY <1>0, <1>2, <1>5, <2>2, <2>5 DEF TypeInv, CountOK, callVars
<1>6. /\ Appended(Top.name) \in Nat /\ Top.name.size + NameLen + 1 \in Int
      /\ Appended(Top.name) = Top.name.capacity => Top.name.data \in Grown(Top.name.data)
  <2>1. Top.name \in Names /\ NameLen \in Nat
    BY <1>1, MessageAssumption DEF Frames, MessageAssumption
  <2>2. Appended(Top.name) \in Nat
    BY <2>1 DEF Names, Appended
  <2> QED BY <2>1, <2>2 DEF Names, Grown
<1> DEFINE cap == Appended(Top.name)
           size == Top.name.size + NameLen + 1
           text == Append(SubSeq(heap[Top.name.data].text, 1, Depth(Top.name.size)), m.name)
           Grows(b) ==
             /\ heap' = [x \in (Live \ {Top.name.data}) \cup {b} |->
                           IF x = b THEN [size |-> IF cap # Top.name.capacity THEN cap
                                                   ELSE heap[b].size,
                                          text |-> text]
                           ELSE heap[x]]
             /\ stack' = SetTop([Top EXCEPT !.at = "memory",
                                   !.name = [data |-> b, size |-> size, capacity |-> cap]])
<1>7. \/ /\ stack' = SetTop([Top EXCEPT !.at = "memory"])
         /\ UNCHANGED <<heap, fields, index, oom, fault>>
      \/ UNCHANGED <<heap, fields, stack, index, oom>> /\ fault' \in {"name", "null"}
      \/ /\ Top.name.data \in Live /\ UNCHANGED <<fields, index, oom, fault>>
         /\ \E b \in (IF cap # Top.name.capacity THEN Grown(Top.name.data)
                       ELSE {Top.name.data}) : Grows(b)
  BY DEF PushName, Fault
<1>8. ASSUME NEW b \in (IF cap # Top.name.capacity THEN Grown(Top.name.data)
                        ELSE {Top.name.data}),
             Grows(b), Top.name.data \in Live, UNCHANGED <<fields, index, oom, fault>>
      PROVE  TypeInv'
  <2>1. b \in Grown(Top.name.data) /\ (cap # Top.name.capacity \/ b = Top.name.data)
    BY <1>6
  <2> HIDE DEF cap, size, text
  <2>2. cap \in Nat /\ size \in Int
    BY <1>6 DEF cap, size
  <2> QED BY <1>5, <1>8, <2>1, <2>2
<1> QED BY <1>3, <1>4, <1>7, <1>8

\* The frame has what the member needs, and goes on to the recursive calls.
LEMMA SizedOK ==
    ASSUME TypeInv, Walking("memory"), NEW n \in Nat, NEW u \in Nat
    PROVE  /\ StackOK(Sized(n, u))
           /\ StackOK(SetTop([Top EXCEPT !.at = "inner"]))
<1>1. /\ stack # << >> /\ Top \in Frames /\ FrameOK(Top) /\ Top.at = "memory"
      /\ Top.i \in 1..Len(Types[Top.ty]) /\ Len(Types[Top.ty]) \in Nat
  BY WalkFinds
<1> DEFINE f == [Top EXCEPT !.at = "inner", !.n = n, !.used = @ + u]
           g == [Top EXCEPT !.at = "inner"]
<1>2. g \in Frames
  BY <1>1 DEF Frames
<1>0. Top.used + u \in Nat
  BY <1>1 DEF Frames
<1>5. f \in Frames
  BY <1>0, <1>1, FrameStep
<1>3. FrameOK(f)
  BY <1>1 DEF Frames, FrameOK
<1>4. FrameOK(g)
  BY <1>1 DEF Frames, FrameOK
<1> QED BY <1>1, <1>2, <1>3, <1>4, <1>5, SetTopOK DEF TypeInv, Sized

LEMMA MemorySize ==
    ASSUME TypeInv, Walking("memory")
    PROVE  sequence_size(m, Text) \in Nat /\ sequence_size(m, Text) * member_size(m) \in Nat
<1>1. call \in Calls /\ m \in MessageMember
  BY WalkFinds
<1>2. sequence_size(m, Text) \in Nat
  BY <1>1, SizeNat
<1> QED BY <1>1, <1>2, BytesNat

LEMMA AssignedOK ==
    ASSUME HeapOK, NEW p \in Pointers, NEW n \in Nat
    PROVE  \A l \in DOMAIN Assigned(p, n) :
              Assigned(p, n)[l].data \in Pointers /\ Assigned(p, n)[l].capacity \in Nat
BY DEF HeapOK, Assigned

LEMMA WithOK ==
    ASSUME HeapOK, Free # {}, NEW size \in Nat, NEW text,
           heap' = With(FirstFree, size, text)
    PROVE  /\ Live' = Live \cup {FirstFree} /\ FirstFree \in 1..NBlocks /\ FirstFree \notin Live
           /\ Live' \subseteq 1..NBlocks /\ \A b \in Live' : heap'[b].size \in Nat
           /\ FirstFree \in Nat
<1>1. FirstFree \in 1..NBlocks /\ FirstFree \notin Live /\ NBlocks \in Nat
  BY FirstFreeIsFree, MessageAssumption DEF Free, MessageAssumption
<1>2. Live' = Live \cup {FirstFree}
  BY DEF With, Live
<1>3. \A b \in Live' : heap'[b].size \in Nat
  BY <1>2 DEF HeapOK, With, Live
<1> QED BY <1>1, <1>2, <1>3 DEF HeapOK

LEMMA MemoryType ==
    TypeInv /\ (Plain \/ Allocate \/ Preallocate \/ Count) => TypeInv'
<1> SUFFICES ASSUME TypeInv, Plain \/ Allocate \/ Preallocate \/ Count PROVE TypeInv'
  OBVIOUS
<1>0. Walking("memory") /\ UNCHANGED callVars /\ UNCHANGED fault
  BY DEF Plain, Allocate, Preallocate, Count
<1>1. stack # << >> /\ CallOK' /\ UNCHANGED <<calculated, rv>> /\ HeapOK /\ StackOK(stack) /\ CountOK
  BY <1>0, WalkFinds, WalkKeepsCall DEF TypeInv, callVars
<1> DEFINE n == sequence_size(m, Text)
           bytes == n * member_size(m)
<1>2. n \in Nat /\ bytes \in Nat
  BY <1>0, MemorySize
<1>3. CASE Plain
  <2>1. StackOK(stack') /\ UNCHANGED <<heap, fields, index, oom>>
    BY <1>0, <1>2, <1>3, SizedOK DEF Plain
  <2> QED BY <1>0, <1>1, <2>1 DEF TypeInv, HeapOK, CountOK, Live
<1>4. CASE Count
  <2>1. stack' = Sized(n, bytes) /\ UNCHANGED <<heap, fields, index, oom>>
    BY <1>4 DEF Count
  <2> HIDE DEF n, bytes
  <2>2. StackOK(stack')
    BY <1>0, <1>2, <2>1, SizedOK
  <2> QED BY <1>0, <1>1, <2>1, <2>2 DEF TypeInv, HeapOK, CountOK, Live
<1>5. CASE Preallocate
  <2> DEFINE start == Aligned(index)
             used == index' - index
  <2>1. /\ index' = start + bytes /\ stack' = Sized(n, used) /\ UNCHANGED <<heap, oom>>
        /\ fields' = Assigned(<<"buffer", start>>, n) \/ UNCHANGED fields
    BY <1>5 DEF Preallocate
  <2>2. start \in Nat /\ start >= index
    BY <1>1, AlignedUp DEF CountOK
  <2> HIDE DEF n, bytes, start
  <2>3. index \in Nat /\ index' \in Nat /\ used \in Nat
    BY <1>1, <1>2, <2>1, <2>2 DEF CountOK
  <2> HIDE DEF used
  <2>4. StackOK(stack')
    BY <1>0, <1>2, <2>1, <2>3, SizedOK
  <2>5. <<"buffer", start>> \in Pointers
    BY <2>2 DEF Pointers
  <2>6. HeapOK'
    BY <1>1, <1>2, <2>1, <2>5, AssignedOK DEF HeapOK, Live
  <2> QED BY <1>0, <1>1, <2>1, <2>3, <2>4, <2>6 DEF TypeInv, CountOK
<1>6. CASE Allocate
  <2>1. UNCHANGED index
    BY <1>6 DEF Allocate
  <2>2. CASE /\ Free # {} /\ heap' = With(FirstFree, bytes, << >>)
             /\ fields' = Assigned(<<"heap", FirstFree>>, n)
             /\ stack' = Sized(n, bytes) /\ UNCHANGED oom
    <3> HIDE DEF n, bytes
    <3>1. StackOK(stack')
      BY <1>0, <1>2, <2>2, SizedOK
    <3>2. /\ Live' \subseteq 1..NBlocks /\ \A b \in Live' : heap'[b].size \in Nat
          /\ FirstFree \in Nat
      BY <1>1, <1>2, <2>2, WithOK
    <3>3. <<"heap", FirstFree>> \in Pointers
      BY <3>2 DEF Pointers
    <3>4. HeapOK'
      BY <1>1, <1>2, <2>2, <3>2, <3>3, AssignedOK DEF HeapOK
    <3> QED BY <1>0, <1>1, <2>1, <2>2, <3>1, <3>4 DEF TypeInv, CountOK
  <2>3. CASE /\ stack' = Pop(0) /\ UNCHANGED <<heap, fields>>
             /\ oom' \in {"lost", "empty"}
    <3>1. StackOK(stack')
      BY <1>1, <2>3, PopOK
    <3> QED BY <1>0, <1>1, <2>1, <2>3, <3>1 DEF TypeInv, CountOK, HeapOK, Live
  <2> QED BY <1>6, <2>2, <2>3 DEF Allocate
<1> QED BY <1>3, <1>4, <1>5, <1>6

LEMMA FieldPointer ==
    ASSUME HeapOK, NEW l
    PROVE  FieldAt(l).data \in Pointers
BY DEF HeapOK, FieldAt, Cleared, Null, Pointers

LEMMA NewFrame ==
    ASSUME NEW ty \in DOMAIN Types, NEW loc \in Locs, NEW name \in Names
    PROVE  Frame(ty, loc, name) \in Frames /\ FrameOK(Frame(ty, loc, name))
<1>1. Types[ty] \in Seq(MessageMember)
  BY MessageAssumption DEF MessageAssumption
<1>2. Len(Types[ty]) \in Nat
  BY <1>1, LenProperties
<1>3. Frame(ty, loc, name) \in Frames
  BY DEF Frame, Frames
<1>4. FrameOK(Frame(ty, loc, name))
  BY <1>2 DEF Frame, FrameOK
<1> QED BY <1>3, <1>4

LEMMA DescendType == TypeInv /\ Descend => TypeInv'
<1> SUFFICES ASSUME TypeInv, Descend PROVE TypeInv'
  OBVIOUS
<1>0. Walking("inner") /\ UNCHANGED callVars /\ Top.k < Times
  BY DEF Descend
<1>1. /\ stack # << >> /\ Top \in Frames /\ FrameOK(Top) /\ Top.at = "inner"
      /\ Top.i \in 1..Len(Types[Top.ty]) /\ Len(Types[Top.ty]) \in Nat
      /\ Top.k \in Nat /\ Top.n \in Nat
  BY <1>0, WalkFinds
<1>2. CallOK' /\ UNCHANGED <<calculated, rv>> /\ HeapOK /\ StackOK(stack) /\ CountOK
  BY <1>0, <1>1, WalkKeepsCall DEF TypeInv, callVars
<1>3. CASE Fault("memory")
  BY <1>2, <1>3 DEF Fault, TypeInv, HeapOK, CountOK, Live
<1>4. Composed(m) /\ Times <= Top.n + 1
  BY <1>0, <1>1 DEF Times
<1> DEFINE f == [Top EXCEPT !.k = @ + 1]
<1>5. f \in Frames
  BY <1>1 DEF Frames
<1>6. FrameOK(f)
  BY <1>0, <1>1, <1>4 DEF Frames, FrameOK, Times
<1>7. StackOK(SetTop(f))
  BY <1>1, <1>2, <1>5, <1>6, SetTopOK
<1>8. Top.name \in Names /\ Top.loc \in Locs
  BY <1>1 DEF Frames
<1>9. /\ Field \in Locs /\ <<Null>> \in Locs
      /\ Element(FieldAt(Field).data, Top.k) \in Locs
  <2>1. Field \in Locs
    BY <1>1, <1>8 DEF Field, Member, Locs
  <2>2. Null \in Pointers
    BY DEF Null, Pointers
  <2>3. FieldAt(Field).data \in Pointers
    BY <1>2, FieldPointer
  <2> QED BY <1>1, <2>1, <2>2, <2>3 DEF Locs, Element
<1>10. ASSUME NEW loc \in Locs, stack' = Append(SetTop(f), Frame(m.type, loc, Top.name)),
              UNCHANGED <<heap, fields, index, arena, oom, fault>>
       PROVE  TypeInv'
  <2>1. StackOK(stack')
    BY <1>4, <1>7, <1>8, <1>10, NewFrame, PushOK DEF Composed
  <2> QED BY <1>2, <1>10, <2>1 DEF TypeInv, HeapOK, CountOK, Live
<1> QED BY <1>3, <1>9, <1>10 DEF Descend

LEMMA ReleaseType == TypeInv /\ Release => TypeInv'
<1> SUFFICES ASSUME TypeInv, Release PROVE TypeInv'
  OBVIOUS
<1>0. Walking("inner") /\ UNCHANGED callVars /\ UNCHANGED <<index, oom>>
  BY DEF Release
<1>1. /\ stack # << >> /\ Top \in Frames /\ FrameOK(Top) /\ Top.at = "inner"
      /\ Top.i \in 1..Len(Types[Top.ty]) /\ Len(Types[Top.ty]) \in Nat
  BY <1>0, WalkFinds
<1>2. CallOK' /\ UNCHANGED <<calculated, rv>> /\ HeapOK /\ StackOK(stack) /\ CountOK
  BY <1>0, <1>1, WalkKeepsCall DEF TypeInv, callVars
<1> DEFINE f == [Top EXCEPT !.at = "pop"]
<1>3. f \in Frames
  BY <1>1 DEF Frames
<1>4. FrameOK(f)
  BY <1>1 DEF Frames, FrameOK
<1>5. StackOK(SetTop(f))
  BY <1>1, <1>2, <1>3, <1>4, SetTopOK
<1>6. CASE fault' = "memory" /\ UNCHANGED <<heap, fields, stack>>
  BY <1>0, <1>2, <1>6 DEF TypeInv, HeapOK, CountOK, Live
<1>7. CASE stack' = SetTop(f) /\ UNCHANGED <<heap, fields, fault>>
  BY <1>0, <1>2, <1>5, <1>7 DEF TypeInv, HeapOK, CountOK, Live
<1>8. ASSUME NEW b, NEW kept, kept \subseteq DOMAIN fields, heap' = Without(b),
             fields' = [l \in kept |-> fields[l]], stack' = SetTop(f), UNCHANGED fault
      PROVE  TypeInv'
  <2>1. HeapOK'
    BY <1>2, <1>8 DEF HeapOK, Without, Live
  <2> QED BY <1>0, <1>2, <1>5, <1>8, <2>1 DEF TypeInv, CountOK
<1> HIDE DEF f
<1>9. {x \in DOMAIN fields : x # Field /\ Head(x) # FieldAt(Field).data} \subseteq DOMAIN fields
  OBVIOUS
<1> QED BY <1>6, <1>7, <1>8, <1>9 DEF Release, f

LEMMA PopNameType == TypeInv /\ PopName => TypeInv'
<1> SUFFICES ASSUME TypeInv, PopName PROVE TypeInv'
  OBVIOUS
<1>0. Walking("pop") /\ UNCHANGED callVars /\ UNCHANGED <<fields, index, oom>>
  BY DEF PopName
<1>1. /\ stack # << >> /\ Top \in Frames /\ FrameOK(Top) /\ Top.at = "pop"
      /\ Top.i \in 1..Len(Types[Top.ty]) /\ Len(Types[Top.ty]) \in Nat
  BY <1>0, WalkFinds
<1>2. CallOK' /\ UNCHANGED <<calculated, rv>> /\ HeapOK /\ StackOK(stack) /\ CountOK
  BY <1>0, <1>1, WalkKeepsCall DEF TypeInv, callVars
<1> DEFINE f == [Top EXCEPT !.at = "name", !.i = @ + 1, !.n = 0, !.k = 0]
           size == Top.name.size - (NameLen + 1)
           g == [f EXCEPT !.name.size = size]
<1>3. f \in Frames
  <2>1. Top.i + 1 \in Nat
    BY <1>1
  <2> QED BY <1>1, <2>1, FrameStep
<1>4. FrameOK(f)
  BY <1>1 DEF Frames, FrameOK
<1> HIDE DEF f
<1>5. size \in Int
  BY <1>1, MessageAssumption DEF Frames, Names, MessageAssumption
<1> HIDE DEF size
<1>6. g \in Frames
  BY <1>3, <1>5 DEF Frames, Names
<1>7. FrameOK(g)
  BY <1>3, <1>4 DEF Frames, FrameOK
<1>8. StackOK(SetTop(f)) /\ StackOK(SetTop(g))
  BY <1>1, <1>2, <1>3, <1>4, <1>6, <1>7, SetTopOK
<1>9. CASE stack' = SetTop(f) /\ UNCHANGED <<heap, fault>>
  BY <1>0, <1>2, <1>8, <1>9 DEF TypeInv, HeapOK, CountOK, Live
<1>10. CASE fault' = "name" /\ UNCHANGED <<heap, stack>>
  BY <1>0, <1>2, <1>10 DEF TypeInv, HeapOK, CountOK, Live
<1>11. ASSUME stack' = SetTop(g), UNCHANGED fault, NEW text,
              heap' = [heap EXCEPT ![Top.name.data].text = text], Top.name.data \in Live
       PROVE  TypeInv'
  <2>1. Live' = Live
    BY <1>11 DEF Live
  <2>2. ASSUME NEW b \in Live PROVE heap'[b].size = heap[b].size
    BY <1>11 DEF Live
  <2>3. HeapOK'
    BY <1>0, <1>2, <2>1, <2>2 DEF HeapOK
  <2> QED BY <1>0, <1>2, <1>8, <1>11, <2>3 DEF TypeInv, CountOK
<1> QED BY <1>9, <1>10, <1>11 DEF PopName, f, g, size

LEMMA ReturnType == TypeInv /\ Return => TypeInv'
<1> SUFFICES ASSUME TypeInv, Return PROVE TypeInv'
  OBVIOUS
<1>1. /\ stack # << >> /\ stack' = Pop(Top.used) /\ UNCHANGED callVars
      /\ UNCHANGED <<heap, fields, index, oom, fault>>
  BY DEF Return
<1>2. Top \in Frames
  BY <1>1, TopFrame DEF TypeInv
<1>3. StackOK(stack')
  BY <1>1, <1>2, PopOK DEF TypeInv, Frames
<1> QED BY <1>1, <1>3, WalkKeepsCall DEF TypeInv, HeapOK, CountOK, Live, callVars

LEMMA WalkType ==
    ASSUME TypeInv, NEW o \in Apis, NEW root \in Roots, NEW rules, Walk(o, root, rules)
    PROVE  /\ Live' \subseteq 1..NBlocks /\ \A b \in Live' : heap'[b].size \in Nat
           /\ StackOK(stack') /\ op' = o /\ name_tree' \in Names
           /\ fault' \in {fault, "null"}
<1> DEFINE loc == IF o \in {"dynamic_size", "static_size"} THEN <<Null>> ELSE <<Message>>
           name(b) == [data |-> b, size |-> 0, capacity |-> 1]
<1>0. HeapOK /\ StackOK(stack) /\ name_tree \in Names /\ op' = o
  BY DEF TypeInv, CallOK, Walk
<1>1. loc \in Locs
  <2>1. Null \in Pointers /\ Message \in Pointers
    BY DEF Null, Message, Pointers
  <2>2. <<Null>> \in Locs /\ <<Message>> \in Locs
    BY <2>1 DEF Locs
  <2> QED BY <2>2
<1> HIDE DEF loc
<1>2. root \in DOMAIN Types
  BY MessageAssumption DEF MessageAssumption
<1>3. ASSUME NEW s \in Names PROVE StackOK(<<Frame(root, loc, s)>>)
  <2>1. Frame(root, loc, s) \in Frames /\ FrameOK(Frame(root, loc, s))
    BY <1>1, <1>2, NewFrame
  <2> QED BY <2>1 DEF StackOK
<1>4. NoString \in Names
  BY DEF NoString, Names
<1>5. CASE /\ UNCHANGED <<heap, fault>> /\ name_tree' = NoString
           /\ stack' = <<Frame(root, loc, NoString)>>
  BY <1>0, <1>3, <1>4, <1>5 DEF HeapOK, Live
<1>6. CASE /\ Free # {} /\ UNCHANGED fault
           /\ heap' = With(FirstFree, 1, << >>) /\ name_tree' = name(FirstFree)
           /\ stack' = <<Frame(root, loc, name(FirstFree))>>
  <2>1. /\ Live' \subseteq 1..NBlocks /\ \A b \in Live' : heap'[b].size \in Nat
        /\ FirstFree \in Nat
    BY <1>0, <1>6, WithOK
  <2>2. name(FirstFree) \in Names
    BY <2>1 DEF Names
  <2> HIDE DEF name
  <2> QED BY <1>0, <1>3, <1>6, <2>1, <2>2
<1>7. CASE fault' = "null" /\ UNCHANGED <<heap, name_tree, stack>>
  BY <1>0, <1>7 DEF HeapOK, Live
<1> QED BY <1>5, <1>6, <1>7 DEF Walk, loc

LEMMA FirstWalkApi == ASSUME NEW api PROVE FirstWalk(api) \in Apis \ {"create", "create_static", "destroy"}
BY DEF FirstWalk, Apis

\* The library functions: what they are called with, and when.
LEMMA CallTypes ==
    ASSUME TypeInv, Sizes \/ Create \/ CreateStatic \/ Destroy
    PROVE  \E c \in Calls : /\ call = Idle /\ Call(c.api, c.root, c.conf, c.len)
                            /\ c.api = "destroy" => msg \in {"made", "failed"}
                            /\ c.api \in {"create", "create_static"} => msg \in {"raw", "static"}
<1> DEFINE C(api, root, cnf, len) == [api |-> api, root |-> root, conf |-> cnf, len |-> len]
<1>0. /\ Programs \subseteq SUBSET {"dynamic_size", "static_size", "create", "create_static"}
      /\ BufferLens \subseteq Nat
  BY MessageAssumption DEF MessageAssumption
<1>1. CASE Sizes
  <2>1. PICK r \in Roots, c \in Confs, api \in {"dynamic_size", "static_size"} :
           Call(api, r, c, 0)
    BY <1>1 DEF Sizes
  <2>2. C(api, r, c, 0) \in Calls
    BY DEF Calls, Apis
  <2> QED BY <2>1, <2>2 DEF Call
<1>2. CASE Create
  <2>1. PICK r \in Roots, c \in Confs : Call("create", r, c, 0)
    BY <1>2 DEF Create
  <2>2. C("create", r, c, 0) \in Calls /\ msg \in {"raw", "static"}
    BY <1>2 DEF Calls, Apis, Create
  <2> QED BY <2>1, <2>2 DEF Call
<1>3. CASE CreateStatic
  <2>1. PICK r \in Roots, c \in Confs, l \in BufferLens : Call("create_static", r, c, l)
    BY <1>3 DEF CreateStatic
  <2>2. C("create_static", r, c, l) \in Calls /\ msg \in {"raw", "static"}
    BY <1>0, <1>3 DEF Calls, Apis, CreateStatic
  <2> QED BY <2>1, <2>2 DEF Call
<1>4. CASE Destroy
  <2>1. made \in Calls /\ msg \in {"made", "failed"} /\ Call("destroy", made.root, made.conf, 0)
    BY <1>4 DEF Destroy, TypeInv, CallOK
  <2>2. C("destroy", made.root, made.conf, 0) \in Calls
    BY <2>1 DEF Calls, Apis
  <2> QED BY <2>1, <2>2 DEF Call
<1> QED BY <1>1, <1>2, <1>3, <1>4

LEMMA CallType == TypeInv /\ (Sizes \/ Create \/ CreateStatic \/ Destroy) => TypeInv'
<1> SUFFICES ASSUME TypeInv, Sizes \/ Create \/ CreateStatic \/ Destroy PROVE TypeInv'
  OBVIOUS
<1>1. PICK c \in Calls : call = Idle /\ Call(c.api, c.root, c.conf, c.len)
  BY CallTypes
<1> DEFINE o == FirstWalk(c.api)
<1>2. o \in Apis /\ c.root \in Roots
  BY FirstWalkApi DEF Calls
<1>3. /\ Walk(o, c.root, c.conf.rules) /\ rv' = 0 /\ index' \in {0, index}
      /\ call' = [api |-> c.api, root |-> c.root, conf |-> c.conf, len |-> c.len]
      /\ UNCHANGED <<fields, arena, oom, calculated, msg, made>>
  BY <1>1 DEF Call
<1> HIDE DEF o
<1>4. /\ Live' \subseteq 1..NBlocks /\ \A b \in Live' : heap'[b].size \in Nat
      /\ StackOK(stack') /\ op' = o /\ name_tree' \in Names
      /\ fault' \in {fault, "null"}
  BY <1>2, <1>3, WalkType
<1>5. call' \in Calls /\ call' # Idle
  BY <1>3 DEF Calls, Apis, Idle
<1>6. CallOK'
  BY <1>2, <1>3, <1>4, <1>5 DEF TypeInv, CallOK
<1>7. HeapOK' /\ CountOK'
  BY <1>3, <1>4 DEF TypeInv, HeapOK, CountOK
<1> QED BY <1>4, <1>6, <1>7 DEF TypeInv

LEMMA SecondWalkType == TypeInv /\ SecondWalk => TypeInv'
<1> SUFFICES ASSUME TypeInv, SecondWalk PROVE TypeInv'
  OBVIOUS
<1>1. /\ call \in Calls /\ stack = << >> /\ call # Idle
      /\ UNCHANGED <<calculated, msg, made>>
  BY DEF SecondWalk, TypeInv, CallOK
<1>2. CASE rv' = 0 /\ call' = Idle /\ UNCHANGED <<walkVars, op, name_tree>>
           /\ call.api = "create_static"
  <2>1. StackOK(stack') /\ HeapOK' /\ CountOK'
    BY <1>1, <1>2 DEF TypeInv, HeapOK, CountOK, walkVars, Live
  <2>2. CallOK'
    BY <1>1, <1>2 DEF TypeInv, CallOK, walkVars
  <2> QED BY <2>1, <2>2 DEF TypeInv
<1>3. CASE /\ Walk(call.api, call.root, call.conf.rules) /\ fields' \in {fields, << >>}
           /\ oom' \in {oom, "no"} /\ index' \in {index, 0} /\ UNCHANGED <<call, rv>>
  <2>1. call.api \in Apis /\ call.root \in Roots
    BY <1>1 DEF Calls
  <2>2. /\ Live' \subseteq 1..NBlocks /\ \A b \in Live' : heap'[b].size \in Nat
        /\ StackOK(stack') /\ op' = call.api /\ name_tree' \in Names
        /\ fault' \in {fault, "null"}
    BY <1>3, <2>1, WalkType
  <2>3. HeapOK' /\ CountOK'
    BY <1>1, <1>3, <2>2 DEF TypeInv, HeapOK, CountOK
  <2>4. call' = call /\ call' # Idle /\ msg' = msg /\ made' = made /\ op' \in Apis
    BY <1>1, <1>3, <2>1, <2>2
  <2>5. CallOK'
    BY <2>2, <2>4 DEF TypeInv, CallOK
  <2> QED BY <2>2, <2>3, <2>5 DEF TypeInv
<1> QED BY <1>2, <1>3 DEF SecondWalk

LEMMA EndWalkType == TypeInv /\ EndWalk => TypeInv'
<1> SUFFICES ASSUME TypeInv, EndWalk PROVE TypeInv'
  OBVIOUS
<1>1. stack # << >> /\ HeapOK /\ StackOK(stack) /\ CallOK /\ CountOK
  BY DEF EndWalk, TypeInv
<1>2. Top.used \in Nat /\ call \in Calls
  BY <1>1, TopFrame DEF Frames, CallOK
<1>3. CASE Fault("name") /\ UNCHANGED callVars
  BY <1>1, <1>3 DEF Fault, callVars, TypeInv, HeapOK, CallOK, CountOK, Live
<1>4. CASE /\ heap' = Without(name_tree.data) /\ name_tree' = NoString
           /\ stack' = << >> /\ op' = "none" /\ UNCHANGED <<index, oom, fault>>
           /\ calculated' \in {calculated, Top.used} /\ rv' \in {rv, 0, 1, Top.used}
           /\ fields' \in {fields, << >>} /\ call' \in {call, Idle}
           /\ \/ UNCHANGED <<msg, made>>
              \/ made' = call /\ msg' \in {"raw", "made", "failed", "static"}
              \/ made' = Idle /\ msg' = "raw"
  <2>1. HeapOK'
    BY <1>1, <1>4 DEF HeapOK, Without, Live
  <2>2. StackOK(stack')
    BY <1>4 DEF StackOK
  <2>3. CallOK'
    <3>1. NoString \in Names /\ Idle \notin Calls
      BY DEF NoString, Names, Idle, Calls, Apis
    <3> QED BY <1>1, <1>2, <1>4, <3>1 DEF CallOK
  <2>4. CountOK'
    BY <1>1, <1>2, <1>4 DEF CountOK
  <2> QED BY <2>1, <2>2, <2>3, <2>4 DEF TypeInv
<1> QED BY <1>3, <1>4 DEF EndWalk

LEMMA NextType == TypeInv /\ [Next]_vars => TypeInv'
<1> SUFFICES ASSUME TypeInv, [Next]_vars PROVE TypeInv'
  OBVIOUS
<1>1. CASE UNCHANGED vars
  BY <1>1 DEF vars, walkVars, callVars, TypeInv, HeapOK, CallOK, CountOK, Live
<1> QED BY <1>1, CallType, EndWalkType, SecondWalkType, PushNameType, MemoryType,
           DescendType, ReleaseType, PopNameType, ReturnType DEF Next

LEMMA TypeInvariance == Spec => []TypeInv
<1>1. Init => TypeInv
  <2> SUFFICES ASSUME Init PROVE TypeInv
    OBVIOUS
  <2>1. HeapOK
    BY DEF Init, HeapOK, Live
  <2>2. StackOK(stack)
    BY DEF Init, StackOK
  <2>3. CallOK
    BY DEF Init, CallOK, NoString, Names
  <2> QED BY <2>1, <2>2, <2>3 DEF Init, TypeInv, CountOK
<1> QED BY <1>1, NextType, PTL DEF Spec

\* Whatever allocations fail, and whether or not blocks move, a frame is at a member
\* of its type or behind the last, calls itself no more often than the member has
\* items, and neither sizes nor the buffer's index run below zero.
THEOREM TypeCorrect == Spec => []TypeOK
<1>1. TypeInv => TypeOK
  <2> SUFFICES ASSUME TypeInv PROVE TypeOK
    OBVIOUS
  <2>1. ASSUME NEW j \in 1..Len(stack)
        PROVE  /\ stack[j].i \in 1..(Len(Types[stack[j].ty]) + 1)
               /\ stack[j].used \in Nat /\ stack[j].k \in 0..(stack[j].n + 1)
    <3>1. stack[j] \in Frames /\ FrameOK(stack[j])
      BY ElementOfSeq DEF TypeInv, StackOK
    <3> QED BY <3>1 DEF Frames, FrameOK
  <2> QED BY <2>1 DEF TypeInv, HeapOK, CallOK, CountOK, TypeOK
<1> QED BY <1>1, TypeInvariance, PTL
-----------------------------------------------------------------------------
\* The pieces of a buffer.

\* While pieces are handed out all of them end at or below operation_buffer_index.
ArenaInv ==
    /\ \A a \in arena : a.start \in Nat /\ a.len \in Nat
    /\ PiecesApart
    /\ op = "create_static" => \A a \in arena : a.start + a.len <= index

LEMMA PreallocateArena == TypeInv /\ ArenaInv /\ Preallocate => ArenaInv'
<1> SUFFICES ASSUME TypeInv, ArenaInv, Preallocate PROVE ArenaInv'
  OBVIOUS
<1> DEFINE start == Aligned(index)
           len == sequence_size(m, Text) * member_size(m)
<1>1. /\ index' = start + len /\ UNCHANGED op /\ op \in {"create_static", "static_size"}
      /\ IF op = "create_static" THEN arena' = arena \cup {[start |-> start, len |-> len]}
         ELSE UNCHANGED arena
  BY DEF Preallocate, callVars
<1>2. len \in Nat
  BY MemorySize DEF Preallocate
<1>3. index \in Nat /\ start \in Nat /\ start >= index /\ start % Alignment = 0
  BY AlignedUp DEF TypeInv, CountOK
<1> HIDE DEF start, len
<1>4. CASE op = "static_size"
  BY <1>1, <1>4 DEF ArenaInv, PiecesApart
<1>5. CASE op = "create_static"
  <2> DEFINE piece == [start |-> start, len |-> len]
  <2>1. piece.start = start /\ piece.len = len /\ arena' = arena \cup {piece}
    BY <1>1, <1>5
  <2> HIDE DEF piece
  <2>2. \A a \in arena : a.start \in Nat /\ a.len \in Nat /\ a.start + a.len <= index
    BY <1>5 DEF ArenaInv
  <2>3. \A a \in arena' : a.start \in Nat /\ a.len \in Nat
    BY <1>2, <1>3, <2>1, <2>2
  <2>4. \A a \in arena : a.start + a.len <= piece.start
    BY <1>3, <2>1, <2>2
  <2>5. PiecesApart'
    BY <1>3, <2>1, <2>4 DEF ArenaInv, PiecesApart
  <2>6. \A a \in arena' : a.start + a.len <= index'
    BY <1>1, <1>2, <1>3, <2>1, <2>2
  <2> QED BY <2>3, <2>5, <2>6 DEF ArenaInv
<1> QED BY <1>1, <1>4, <1>5

LEMMA ArenaStep == TypeInv /\ ArenaInv /\ [Next]_vars => ArenaInv'
<1> SUFFICES ASSUME TypeInv, ArenaInv, [Next]_vars PROVE ArenaInv'
  OBVIOUS
<1>1. CASE UNCHANGED <<arena, index, op>>
  BY <1>1 DEF ArenaInv, PiecesApart
<1>2. CASE UNCHANGED arena /\ op' # "create_static"
  BY <1>2 DEF ArenaInv, PiecesApart
<1>3. CASE Sizes \/ Create \/ CreateStatic \/ Destroy
  <2>1. PICK c \in Calls : Call(c.api, c.root, c.conf, c.len)
    BY <1>3, CallTypes
  <2>2. UNCHANGED arena /\ op' # "create_static"
    BY <2>1, FirstWalkApi DEF Call, Walk
  <2> QED BY <1>2, <2>2
<1>4. CASE EndWalk
  BY <1>1, <1>2, <1>4 DEF EndWalk, Fault, callVars
<1>5. CASE SecondWalk
  <2>1. CASE call.api = "create_static" /\ arena' = {}
    BY <2>1 DEF ArenaInv, PiecesApart
  <2> QED BY <1>1, <1>2, <1>5, <2>1 DEF SecondWalk, Walk, walkVars
<1>6. CASE PushName \/ Plain \/ Allocate \/ Count \/ Descend \/ Release \/ PopName \/ Return
  BY <1>1, <1>6 DEF PushName, Plain, Allocate, Count, Descend, Release, PopName, Return,
                    Fault, callVars
<1>7. CASE UNCHANGED vars
  BY <1>1, <1>7 DEF vars, walkVars, callVars
<1> QED BY <1>3, <1>4, <1>5, <1>6, <1>7, PreallocateArena DEF Next

\* The pieces that get_static_memory hands out of one buffer are aligned and do not
\* overlap, for every type, every set of rules and every alignment.  (That they end
\* within the buffer is in ArenaStaysSound below.)
THEOREM PiecesStayApart == Spec => []PiecesApart
<1>1. Init => ArenaInv
  BY DEF Init, ArenaInv, PiecesApart
<1>2. ArenaInv => PiecesApart
  BY DEF ArenaInv
<1> QED BY <1>1, <1>2, TypeInvariance, ArenaStep, PTL DEF Spec
-----------------------------------------------------------------------------
\* Whose block is whose, where reallocate does not move blocks.

\* The blocks of the message's fields are live, no two fields share one, and none is
\* the name's; destroy only walks a message that create has made from the heap.
OwnInv ==
    /\ name_tree.data \in Live \cup {0}
    /\ \A l \in DOMAIN fields :
          fields[l].data[1] = "heap" => fields[l].data[2] \in Live \ {name_tree.data}
    /\ \A l, k \in DOMAIN fields :
          fields[l].data[1] = "heap" /\ fields[l].data = fields[k].data => l = k
    /\ msg \in {"made", "failed"} \/ op = "create" =>
          \A l \in DOMAIN fields : fields[l].data[1] = "heap"
    /\ op = "destroy" \/ call.api = "destroy" => msg \in {"made", "failed"}
    /\ {op, call.api} \cap {"create", "create_static"} # {} => msg \in {"raw", "static"}

LEMMA OwnSame ==
    ASSUME OwnInv, UNCHANGED callVars, UNCHANGED fields, Live' = Live
    PROVE  OwnInv'
BY DEF OwnInv, callVars

\* The name is extended or cut off in place.
LEMMA NameInPlace ==
    ASSUME ~Moves, PushName \/ PopName
    PROVE  Live' = Live /\ UNCHANGED fields /\ UNCHANGED callVars
<1>1. CASE PushName
  <2>1. \A b \in Grown(Top.name.data) : b = Top.name.data
    BY DEF Grown
  <2>2. UNCHANGED fields /\ UNCHANGED callVars
    BY <1>1 DEF PushName, Fault
  <2>3. \/ UNCHANGED heap
        \/ /\ Top.name.data \in Live
           /\ \E b \in Grown(Top.name.data) \cup {Top.name.data} :
                 DOMAIN heap' = (Live \ {Top.name.data}) \cup {b}
    BY <1>1 DEF PushName, Fault
  <2> QED BY <2>1, <2>2, <2>3 DEF Live
<1>2. CASE PopName
  BY <1>2 DEF PopName, Live
<1> QED BY <1>1, <1>2

LEMMA AllocateOwn == TypeInv /\ OwnInv /\ Allocate => OwnInv'
<1> SUFFICES ASSUME TypeInv, OwnInv, Allocate PROVE OwnInv'
  OBVIOUS
<1>1. Walking("memory") /\ op = "create" /\ UNCHANGED callVars
  BY DEF Allocate
<1>2. CASE UNCHANGED <<heap, fields>>
  BY <1>1, <1>2, OwnSame DEF Live
<1> DEFINE n == sequence_size(m, Text)
           bytes == n * member_size(m)
<1>3. CASE /\ Free # {} /\ heap' = With(FirstFree, bytes, << >>)
           /\ fields' = Assigned(<<"heap", FirstFree>>, n)
  <2>1. bytes \in Nat
    BY <1>1, MemorySize
  <2> HIDE DEF n, bytes
  <2>2. /\ Live' = Live \cup {FirstFree} /\ FirstFree \notin Live
        /\ FirstFree \in 1..NBlocks
    BY <1>3, <2>1, WithOK DEF TypeInv
  <2>3. FirstFree # name_tree.data /\ name_tree' = name_tree /\ name_tree'.data \in Live' \cup {0}
    BY <1>1, <2>2 DEF OwnInv, callVars
  <2>4. DOMAIN fields' = DOMAIN fields \cup {Field}
    BY <1>3 DEF Assigned
  <2>5. fields'[Field].data = <<"heap", FirstFree>>
    BY <1>3 DEF Assigned
  <2>6. \A l \in DOMAIN fields \ {Field} : fields'[l] = fields[l]
    BY <1>3 DEF Assigned
  <2>7. \A l \in DOMAIN fields : fields[l].data[1] = "heap" /\ fields[l].data[2] \in Live \ {name_tree.data}
    BY <1>1 DEF OwnInv
  <2>8. \A l \in DOMAIN fields' :
           fields'[l].data[1] = "heap" /\ fields'[l].data[2] \in Live' \ {name_tree'.data}
    BY <2>2, <2>3, <2>4, <2>5, <2>6, <2>7
  <2>9. ASSUME NEW l \in DOMAIN fields', NEW k \in DOMAIN fields',
               fields'[l].data = fields'[k].data
        PROVE  l = k
    <3>1. \A j \in DOMAIN fields \ {Field} : fields'[j].data # <<"heap", FirstFree>>
      BY <2>2, <2>6, <2>7
    <3>2. CASE l = Field \/ k = Field
      BY <2>4, <2>5, <2>9, <3>1, <3>2
    <3>3. CASE l # Field /\ k # Field
      BY <1>1, <2>4, <2>6, <2>7, <2>9, <3>3 DEF OwnInv
    <3> QED BY <3>2, <3>3
  <2> QED BY <1>1, <2>3, <2>8, <2>9 DEF OwnInv, callVars
<1> QED BY <1>2, <1>3 DEF Allocate

LEMMA PreallocateOwn == TypeInv /\ OwnInv /\ Preallocate => OwnInv'
<1> SUFFICES ASSUME TypeInv, OwnInv, Preallocate PROVE OwnInv'
  OBVIOUS
<1>1. UNCHANGED heap /\ Live' = Live /\ UNCHANGED callVars
  BY DEF Preallocate, Live
<1>2. CASE UNCHANGED fields
  BY <1>1, <1>2, OwnSame
<1> DEFINE start == Aligned(index)
           n == sequence_size(m, Text)
<1>3. CASE op = "create_static" /\ fields' = Assigned(<<"buffer", start>>, n)
  <2> HIDE DEF n, start
  <2>1. DOMAIN fields' = DOMAIN fields \cup {Field}
    BY <1>3 DEF Assigned
  <2>2. fields'[Field].data = <<"buffer", start>>
    BY <1>3 DEF Assigned
  <2>3. \A l \in DOMAIN fields \ {Field} : fields'[l] = fields[l]
    BY <1>3 DEF Assigned
  <2>4. \A l \in DOMAIN fields' :
           fields'[l].data[1] = "heap" => fields'[l].data[2] \in Live' \ {name_tree'.data}
    BY <1>1, <2>1, <2>2, <2>3 DEF OwnInv, callVars
  <2>5. \A l, k \in DOMAIN fields' :
           fields'[l].data[1] = "heap" /\ fields'[l].data = fields'[k].data => l = k
    BY <2>1, <2>2, <2>3 DEF OwnInv
  <2>6. msg \in {"raw", "static"} /\ op' = "create_static" /\ msg' = msg
    BY <1>1, <1>3 DEF OwnInv, callVars
  <2> QED BY <1>1, <2>4, <2>5, <2>6 DEF OwnInv, callVars
<1> QED BY <1>2, <1>3 DEF Preallocate

LEMMA ReleaseOwn == TypeInv /\ OwnInv /\ Release => OwnInv'
<1> SUFFICES ASSUME TypeInv, OwnInv, Release PROVE OwnInv'
  OBVIOUS
<1>1. UNCHANGED callVars
  BY DEF Release
<1>2. CASE UNCHANGED <<heap, fields>>
  BY <1>1, <1>2, OwnSame DEF Live
<1> DEFINE data == FieldAt(Field).data
           kept == {x \in DOMAIN fields : x # Field /\ Head(x) # data}
<1>3. CASE op = "destroy" /\ heap' = Without(data[2]) /\ fields' = [l \in kept |-> fields[l]]
  <2>1. \A l \in DOMAIN fields : fields[l].data[1] = "heap"
    BY <1>3 DEF OwnInv
  <2>2. Live' = Live \ {data[2]} /\ Live \subseteq 1..NBlocks
    BY <1>3 DEF Without, Live, TypeInv, HeapOK
  <2>3. data[2] # name_tree.data \/ data[2] \notin Live
    BY <2>1, <2>2 DEF OwnInv, FieldAt, Cleared, Null
  <2>4. ASSUME NEW l \in kept PROVE fields[l].data[2] \in Live'
    <3>1. fields[l].data[1] = "heap" /\ fields[l].data[2] \in Live /\ fields[l].data \in Pointers
      BY <2>1 DEF OwnInv, TypeInv, HeapOK
    <3>2. CASE Field \in DOMAIN fields
      <4>1. data = fields[Field].data /\ data \in Pointers /\ data[1] = "heap"
        BY <2>1, <3>2 DEF FieldAt, TypeInv, HeapOK
      <4>2. fields[l].data # data
        BY <2>1, <3>2, <4>1 DEF OwnInv
      <4> HIDE DEF data
      <4>3. fields[l].data[2] # data[2]
        BY <3>1, <4>1, <4>2 DEF Pointers
      <4> QED BY <2>2, <3>1, <4>3
    <3>3. CASE Field \notin DOMAIN fields
      <4>1. data[2] = 0
        BY <3>3 DEF FieldAt, Cleared, Null
      <4> QED BY <2>2, <3>1, <4>1
    <3> QED BY <3>2, <3>3
  <2>5. DOMAIN fields' = kept /\ \A l \in kept : fields'[l] = fields[l]
    BY <1>3
  <2>6. kept \subseteq DOMAIN fields
    OBVIOUS
  <2>7. name_tree.data \in Live' \cup {0}
    BY <2>2, <2>3 DEF OwnInv
  <2> HIDE DEF kept, data
  <2>8. \A l \in DOMAIN fields' :
           fields'[l].data[1] = "heap" /\ fields'[l].data[2] \in Live' \ {name_tree.data}
    BY <2>1, <2>4, <2>5, <2>6 DEF OwnInv
  <2>9. \A l, k \in DOMAIN fields' : fields'[l].data = fields'[k].data => l = k
    BY <2>1, <2>5, <2>6 DEF OwnInv
  <2> QED BY <1>1, <2>7, <2>8, <2>9 DEF OwnInv, callVars
<1> QED BY <1>2, <1>3 DEF Release

\* A walk takes a block of its own for the name.
LEMMA WalkOwn ==
    ASSUME TypeInv, OwnInv, NEW o, NEW root, NEW rules, Walk(o, root, rules)
    PROVE  /\ name_tree'.data \in Live' \cup {0} /\ op' = o
           /\ Live \ {name_tree.data} \subseteq Live' \ {name_tree'.data}
<1>0. op' = o /\ HeapOK /\ name_tree.data \in Live \cup {0}
  BY DEF Walk, TypeInv, OwnInv
<1>1. CASE UNCHANGED heap /\ name_tree' = NoString
  BY <1>0, <1>1 DEF NoString, Live, HeapOK
<1>2. CASE /\ Free # {} /\ heap' = With(FirstFree, 1, << >>)
           /\ name_tree' = [data |-> FirstFree, size |-> 0, capacity |-> 1]
  <2>1. Live' = Live \cup {FirstFree} /\ FirstFree \notin Live
    BY <1>0, <1>2, WithOK
  <2> QED BY <1>0, <1>2, <2>1
<1>3. CASE UNCHANGED <<heap, name_tree>>
  BY <1>0, <1>3 DEF Live
<1> QED BY <1>0, <1>1, <1>2, <1>3 DEF Walk

LEMMA CallOwn == TypeInv /\ OwnInv /\ (Sizes \/ Create \/ CreateStatic \/ Destroy) => OwnInv'
<1> SUFFICES ASSUME TypeInv, OwnInv, Sizes \/ Create \/ CreateStatic \/ Destroy PROVE OwnInv'
  OBVIOUS
<1>1. PICK c \in Calls : /\ Call(c.api, c.root, c.conf, c.len)
                         /\ c.api = "destroy" => msg \in {"made", "failed"}
                         /\ c.api \in {"create", "create_static"} => msg \in {"raw", "static"}
  BY CallTypes
<1>2. Walk(FirstWalk(c.api), c.root, c.conf.rules) /\ UNCHANGED <<fields, msg>> /\ call'.api = c.api
  BY <1>1 DEF Call
<1>3. op' \notin {"create", "create_static", "destroy"}
  BY <1>2, FirstWalkApi DEF Walk
<1>4. /\ name_tree'.data \in Live' \cup {0}
      /\ Live \ {name_tree.data} \subseteq Live' \ {name_tree'.data}
  BY <1>2, WalkOwn
<1> QED BY <1>1, <1>2, <1>3, <1>4 DEF OwnInv

LEMMA SecondWalkOwn == TypeInv /\ OwnInv /\ SecondWalk => OwnInv'
<1> SUFFICES ASSUME TypeInv, OwnInv, SecondWalk PROVE OwnInv'
  OBVIOUS
<1>1. UNCHANGED msg /\ call \in Calls
  BY DEF SecondWalk, TypeInv, CallOK
<1>2. CASE call' = Idle /\ UNCHANGED <<walkVars, op, name_tree>>
  BY <1>1, <1>2 DEF OwnInv, walkVars, Idle, Live
<1>3. CASE /\ Walk(call.api, call.root, call.conf.rules) /\ UNCHANGED call
           /\ fields' = IF call.api = "destroy" THEN fields ELSE << >>
  <2>1. /\ name_tree'.data \in Live' \cup {0} /\ op' = call.api
        /\ Live \ {name_tree.data} \subseteq Live' \ {name_tree'.data}
    BY <1>3, WalkOwn
  <2>2. CASE call.api = "destroy"
    BY <1>1, <1>3, <2>1, <2>2 DEF OwnInv
  <2>3. CASE call.api # "destroy"
    <3>1. DOMAIN fields' = {}
      BY <1>3, <2>3
    <3> QED BY <1>1, <1>3, <2>1, <2>3, <3>1 DEF OwnInv
  <2> QED BY <2>2, <2>3
<1> QED BY <1>2, <1>3 DEF SecondWalk

LEMMA EndWalkOwn == TypeInv /\ OwnInv /\ EndWalk => OwnInv'
<1> SUFFICES ASSUME TypeInv, OwnInv, EndWalk PROVE OwnInv'
  OBVIOUS
<1>1. CASE Fault("name") /\ UNCHANGED callVars
  BY <1>1, OwnSame DEF Fault, Live
<1>2. ASSUME heap' = Without(name_tree.data), name_tree' = NoString, op' = "none"
      PROVE  /\ name_tree'.data = 0
             /\ \A l \in DOMAIN fields :
                   fields[l].data[1] = "heap" => fields[l].data[2] \in Live' \ {0}
  BY <1>2 DEF NoString, Without, Live, OwnInv, TypeInv, HeapOK
<1>3. /\ FirstWalk(call.api) \notin {"create", "create_static", "destroy"}
      /\ Idle.api = "none"
  BY FirstWalkApi DEF Idle
<1>4. CASE /\ heap' = Without(name_tree.data) /\ name_tree' = NoString /\ op' = "none"
           /\ UNCHANGED <<msg, fields>> /\ call' \in {call, Idle}
  BY <1>2, <1>3, <1>4 DEF OwnInv
<1>5. CASE /\ heap' = Without(name_tree.data) /\ name_tree' = NoString /\ op' = "none"
           /\ op = "create" /\ UNCHANGED fields /\ call' = Idle
  BY <1>2, <1>3, <1>5 DEF OwnInv
<1>6. CASE /\ heap' = Without(name_tree.data) /\ name_tree' = NoString /\ op' = "none"
           /\ msg' \in {"static", "raw"} /\ UNCHANGED fields /\ call' = Idle
  BY <1>2, <1>3, <1>6 DEF OwnInv
<1>7. CASE /\ heap' = Without(name_tree.data) /\ name_tree' = NoString /\ op' = "none"
           /\ msg' = "raw" /\ fields' = << >> /\ call' = Idle
  <2>1. DOMAIN fields' = {}
    BY <1>7
  <2> QED BY <1>2, <1>3, <1>7, <2>1 DEF OwnInv
<1> QED BY <1>1, <1>4, <1>5, <1>6, <1>7 DEF EndWalk

LEMMA OwnStep == ~Moves /\ TypeInv /\ OwnInv /\ [Next]_vars => OwnInv'
<1> SUFFICES ASSUME ~Moves, TypeInv, OwnInv, [Next]_vars PROVE OwnInv'
  OBVIOUS
<1>1. CASE PushName \/ PopName
  BY <1>1, NameInPlace, OwnSame
<1>2. CASE Plain \/ Count \/ Descend \/ Return
  <2>1. UNCHANGED <<heap, fields>> /\ UNCHANGED callVars
    BY <1>2 DEF Plain, Count, Descend, Return, Fault
  <2> QED BY <2>1, OwnSame DEF Live
<1>3. CASE UNCHANGED vars
  BY <1>3, OwnSame DEF vars, walkVars, Live
<1> QED BY <1>1, <1>2, <1>3, AllocateOwn, PreallocateOwn, ReleaseOwn, CallOwn,
           SecondWalkOwn, EndWalkOwn DEF Next

LEMMA OwnInvariance == ~Moves => (Spec => []OwnInv)
<1> SUFFICES ASSUME ~Moves PROVE Spec => []OwnInv
  OBVIOUS
<1>1. Init => OwnInv
  BY DEF Init, OwnInv, NoString, Idle
<1>2. TypeInv /\ OwnInv /\ [Next]_vars => OwnInv'
  BY OwnStep
<1> QED BY <1>1, <1>2, TypeInvariance, PTL DEF Spec
-----------------------------------------------------------------------------
\* What the name reads.

\* The length of a name of q members, with their dots.
Size(q) == (NameLen + 1) * q

\* How many members of the path are in the name of the innermost frame.
Deep(s) == IF s[Len(s)].at = "name" THEN Len(s) - 1 ELSE Len(s)

\* Every frame has the one block, and has in it the names of the members that it
\* and the frames below it are at.
NamesAt(s, d) ==
    /\ \A j \in 1..Len(s) : s[j].name.data = d
    /\ \A j \in 1..(Len(s) - 1) : s[j].at = "inner" /\ s[j].name.size = Size(j)
    /\ s[Len(s)].at # "done" => s[Len(s)].name.size = Size(Deep(s))

\* The text begins with the path; a subtree that was given up may have left more
\* behind it, which the next append cuts off.
TextAt(s, text) ==
    s[Len(s)].at # "done" =>
        /\ text \in Seq(STRING) /\ Len(text) >= Deep(s)
        /\ \A j \in 1..Deep(s) : text[j] = Types[s[j].ty][s[j].i].name
        /\ s[Len(s)].at = "memory" => Len(text) = Len(s)

NameInv ==
    stack # << >> /\ Named =>
        /\ name_tree.data \in Live /\ "text" \in DOMAIN heap[name_tree.data]
        /\ NamesAt(stack, name_tree.data) /\ TextAt(stack, heap[name_tree.data].text)

LEMMA SizeFacts ==
    ASSUME NEW q \in Int
    PROVE  /\ Size(q) \in Int /\ Depth(Size(q)) = q /\ Size(0) = 0
           /\ Size(q) + NameLen + 1 = Size(q + 1) /\ Size(q) - (NameLen + 1) = Size(q - 1)
<1>1. NameLen + 1 \in Nat \ {0} /\ NameLen \in Nat
  BY MessageAssumption DEF MessageAssumption
<1> DEFINE b == NameLen + 1
<1>2. b \in Nat \ {0} /\ b = NameLen + 1
  BY <1>1
<1> HIDE DEF b
<1>3. (b * q) \div b = q
  BY <1>2, DivideMultiple
<1>5. b * q \in Int /\ b * 0 = 0
  BY <1>2
<1>4. b * q + b = b * (q + 1) /\ b * q - b = b * (q - 1)
  BY <1>2
<1> QED BY <1>1, <1>2, <1>3, <1>4, <1>5 DEF Size, Depth

LEMMA NamedRules == ASSUME call \in Calls PROVE Named <=> call.conf.rules # << >>
<1>1. call.conf \in Confs
  BY DEF Calls
<1>2. conf.rules = call.conf.rules /\ call.conf.rules \in Seq([rule : Seq(STRING), size : Nat])
  BY <1>1, ConfType DEF conf
<1> QED BY <1>2, EmptySeq DEF Named

\* The innermost frame goes on with its member.
LEMMA SameMember ==
    ASSUME StackOK(stack), stack # << >>, NEW f \in Frames,
           f.ty = Top.ty, f.i = Top.i, f.name = Top.name,
           Top.at \in {"memory", "inner"}, f.at \in {"inner", "pop"},
           NEW d, NEW text, NamesAt(stack, d), TextAt(stack, text)
    PROVE  NamesAt(SetTop(f), d) /\ TextAt(SetTop(f), text)
<1> DEFINE s == SetTop(f)
           n == Len(stack)
<1>1. n \in Nat \ {0} /\ Len(s) = n /\ s[n] = f /\ \A j \in 1..(n - 1) : s[j] = stack[j]
  BY TopFrame, SetTopFrames DEF StackOK
<1>2. /\ \A j \in 1..n : stack[j].name.data = d
      /\ \A j \in 1..(n - 1) : stack[j].at = "inner" /\ stack[j].name.size = Size(j)
      /\ stack[n].name.size = Size(n) /\ stack[n] = Top
      /\ text \in Seq(STRING) /\ Len(text) >= n
      /\ \A j \in 1..n : text[j] = Types[stack[j].ty][stack[j].i].name
  BY DEF NamesAt, TextAt, Deep, Top
<1> HIDE DEF s, n
<1>3. Deep(s) = n /\ s[Len(s)] = f
  BY <1>1 DEF Deep
<1>t. ASSUME NEW j \in 1..n PROVE s[j].name = stack[j].name
  <2>1. CASE j = n
    BY <1>1, <1>2, <2>1
  <2>2. CASE j \in 1..(n - 1)
    BY <1>1, <2>2
  <2> QED BY <1>1, <2>1, <2>2
<1>u. s[n].name.size = Size(n) /\ \A j \in 1..n : s[j].name.data = d
  BY <1>1, <1>2, <1>t
<1>4. NamesAt(s, d)
  BY <1>1, <1>2, <1>3, <1>u DEF NamesAt
<1>5. ASSUME NEW j \in 1..n PROVE text[j] = Types[s[j].ty][s[j].i].name
  BY <1>1, <1>2
<1>6. TextAt(s, text)
  BY <1>1, <1>2, <1>3, <1>5 DEF TextAt
<1> QED BY <1>4, <1>6 DEF s

\* A frame returns.
LEMMA Returned ==
    ASSUME StackOK(stack), stack # << >>, NEW u \in Nat, Top.at # "done",
           NEW d, NEW text, NamesAt(stack, d), TextAt(stack, text)
    PROVE  NamesAt(Pop(u), d) /\ TextAt(Pop(u), text)
<1> DEFINE s == Pop(u)
           n == Len(stack)
<1>1. n \in Nat \ {0} /\ Top \in Frames /\ \A j \in 1..n : stack[j] \in Frames
  BY TopFrame, ElementOfSeq DEF StackOK
<1>2. /\ \A j \in 1..n : stack[j].name.data = d
      /\ \A j \in 1..(n - 1) : stack[j].at = "inner" /\ stack[j].name.size = Size(j)
  BY DEF NamesAt
<1>3. CASE n = 1
  <2>1. Len(s) = 1 /\ s[1] = [Top EXCEPT !.at = "done", !.used = u]
    BY <1>3, PopFrames DEF StackOK
  <2>2. s[1].at = "done" /\ s[1].name = stack[1].name
    BY <1>1, <1>3, <2>1 DEF Frames, Top
  <2>3. s[1].name.data = d
    BY <1>1, <1>2, <2>2
  <2> HIDE DEF s
  <2>e. 1..(Len(s) - 1) = {} /\ \A j \in 1..Len(s) : j = 1
    BY <2>1
  <2>4. NamesAt(s, d) /\ TextAt(s, text)
    BY <2>1, <2>2, <2>3, <2>e DEF NamesAt, TextAt
  <2> QED BY <2>4 DEF s
<1>4. CASE n # 1
  <2>0. n - 1 \in Nat \ {0} /\ n - 1 \in 1..n
    BY <1>1, <1>4, Before
  <2>1. /\ Len(s) = n - 1 /\ \A j \in 1..(n - 2) : s[j] = stack[j]
        /\ s[n - 1] = [stack[n - 1] EXCEPT !.used = @ + u]
    BY <1>4, PopFrames DEF StackOK
  <2>2. stack[n - 1] \in Frames
    BY <1>1, <2>0
  <2>3. /\ s[n - 1].at = stack[n - 1].at /\ s[n - 1].name = stack[n - 1].name
        /\ s[n - 1].ty = stack[n - 1].ty /\ s[n - 1].i = stack[n - 1].i
    BY <2>1, <2>2 DEF Frames
  <2>4. /\ text \in Seq(STRING) /\ Len(text) >= n - 1
        /\ \A j \in 1..(n - 1) : text[j] = Types[stack[j].ty][stack[j].i].name
    <3>1. Deep(stack) \in {n - 1, n} /\ stack[Len(stack)].at # "done"
      BY DEF Deep, Top
    <3>2. text \in Seq(STRING) /\ Len(text) \in Nat
      BY <3>1, LenProperties DEF TextAt
    <3> QED BY <1>1, <3>1, <3>2 DEF TextAt
  <2> HIDE DEF s, n
  <2>5. Deep(s) = n - 1 /\ s[Len(s)] = s[n - 1] /\ s[n - 1].at = "inner"
    BY <1>2, <2>0, <2>1, <2>3 DEF Deep
  <2>6. ASSUME NEW j \in 1..(n - 1)
        PROVE  /\ s[j].name = stack[j].name /\ s[j].at = "inner"
               /\ s[j].ty = stack[j].ty /\ s[j].i = stack[j].i
    <3>1. CASE j = n - 1
      BY <2>3, <2>5, <3>1
    <3>2. CASE j \in 1..(n - 2)
      BY <1>1, <1>2, <2>1, <3>2
    <3> QED BY <1>1, <3>1, <3>2
  <2>a. \A j \in 1..(n - 1) : j \in 1..n
    BY <1>1
  <2>b. \A j \in 1..(n - 1) : s[j].name.data = d /\ s[j].name.size = Size(j)
    BY <1>2, <2>6, <2>a
  <2>c. s[n - 1].name.size = Size(n - 1)
    BY <2>0, <2>b
  <2>d. \A j \in 1..((n - 1) - 1) : j \in 1..(n - 1)
    BY <2>0
  <2>7. NamesAt(s, d)
    BY <2>1, <2>5, <2>6, <2>b, <2>c, <2>d DEF NamesAt
  <2>8. TextAt(s, text)
    BY <2>1, <2>4, <2>5, <2>6 DEF TextAt
  <2> QED BY <2>7, <2>8 DEF s
<1> QED BY <1>3, <1>4

\* A frame is called.
LEMMA Called ==
    ASSUME StackOK(stack), stack # << >>, Top.at = "inner", NEW f \in Frames,
           f.ty = Top.ty, f.i = Top.i, f.name = Top.name, f.at = "inner",
           NEW g \in Frames, g.name = Top.name, g.at = "name",
           NEW d, NEW text, NamesAt(stack, d), TextAt(stack, text)
    PROVE  NamesAt(Append(SetTop(f), g), d) /\ TextAt(Append(SetTop(f), g), text)
<1> DEFINE t == SetTop(f)
           s == Append(t, g)
           n == Len(stack)
<1>1. n \in Nat \ {0} /\ t \in Seq(Frames) /\ Len(t) = n /\ t[n] = f
      /\ \A j \in 1..(n - 1) : t[j] = stack[j]
  BY TopFrame, SetTopFrames DEF StackOK
<1>2. /\ \A j \in 1..n : stack[j].name.data = d
      /\ \A j \in 1..(n - 1) : stack[j].at = "inner" /\ stack[j].name.size = Size(j)
      /\ stack[n].name.size = Size(n) /\ stack[n] = Top
      /\ text \in Seq(STRING) /\ Len(text) >= n
      /\ \A j \in 1..n : text[j] = Types[stack[j].ty][stack[j].i].name
  BY DEF NamesAt, TextAt, Deep, Top
<1> HIDE DEF t, n
<1>3. Len(s) = n + 1 /\ s[n + 1] = g /\ \A j \in 1..n : s[j] = t[j]
  BY <1>1, PushFrames
<1> HIDE DEF s
<1>4. Deep(s) = n /\ s[Len(s)] = g
  BY <1>1, <1>3 DEF Deep
<1>5. ASSUME NEW j \in 1..n
      PROVE  /\ s[j].name = stack[j].name /\ s[j].at = "inner"
             /\ s[j].ty = stack[j].ty /\ s[j].i = stack[j].i
  <2>1. CASE j = n
    BY <1>1, <1>2, <1>3, <2>1
  <2>2. CASE j \in 1..(n - 1)
    BY <1>1, <1>2, <1>3, <2>2
  <2> QED BY <1>1, <2>1, <2>2
<1>6. \A j \in 1..(n + 1) : s[j].name.data = d
  BY <1>1, <1>2, <1>3, <1>5
<1>7. \A j \in 1..n : s[j].name.size = Size(j)
  BY <1>1, <1>2, <1>5
<1>8. (n + 1) - 1 = n
  BY <1>1
<1>9. NamesAt(s, d)
  BY <1>2, <1>3, <1>4, <1>5, <1>6, <1>7, <1>8 DEF NamesAt
<1>10. TextAt(s, text)
  BY <1>2, <1>3, <1>4, <1>5 DEF TextAt
<1> QED BY <1>9, <1>10 DEF s, t

\* What a named walk finds.
LEMMA NameFinds ==
    ASSUME TypeInv, NameInv, stack # << >>, Named
    PROVE  /\ name_tree.data \in Live /\ "text" \in DOMAIN heap[name_tree.data]
           /\ NamesAt(stack, name_tree.data) /\ TextAt(stack, heap[name_tree.data].text)
           /\ Top.name.data = name_tree.data
<1>1. Len(stack) \in Nat \ {0}
  BY TopFrame DEF TypeInv
<1>2. NamesAt(stack, name_tree.data)
  BY DEF NameInv
<1> QED BY <1>1, <1>2 DEF NameInv, NamesAt, Top

\* A step that leaves the name's text as it is.
LEMMA NameKept ==
    ASSUME NameInv, stack # << >>, UNCHANGED callVars,
           Named => /\ name_tree.data \in Live'
                    /\ heap'[name_tree.data] = heap[name_tree.data]
                    /\ NamesAt(stack', name_tree.data)
                    /\ TextAt(stack', heap[name_tree.data].text)
    PROVE  NameInv'
<1>1. Named' <=> Named
  BY DEF Named, conf, callVars
<1>2. name_tree' = name_tree
  BY DEF callVars
<1> QED BY <1>1, <1>2 DEF NameInv

LEMMA NameSame ==
    ASSUME NameInv, UNCHANGED callVars, UNCHANGED <<heap, stack>>
    PROVE  NameInv'
<1>1. Named' <=> Named
  BY DEF Named, conf, callVars
<1> QED BY <1>1 DEF NameInv, callVars, Live

LEMMA MemoryName ==
    TypeInv /\ OwnInv /\ NameInv /\ (Plain \/ Allocate \/ Preallocate \/ Count) => NameInv'
<1> SUFFICES ASSUME TypeInv, OwnInv, NameInv, Plain \/ Allocate \/ Preallocate \/ Count
             PROVE  NameInv'
  OBVIOUS
<1>1. Walking("memory") /\ UNCHANGED callVars
  BY DEF Plain, Allocate, Preallocate, Count
<1>2. stack # << >> /\ Top \in Frames /\ Top.at = "memory" /\ StackOK(stack)
  BY <1>1, WalkFinds DEF TypeInv
<1> DEFINE d == name_tree.data
           text == heap[d].text
<1>3. ASSUME Named PROVE d \in Live' /\ heap'[d] = heap[d]
  <2>1. d \in Live
    BY <1>2, <1>3, NameFinds
  <2>2. CASE UNCHANGED heap
    BY <2>1, <2>2 DEF Live
  <2>3. ASSUME NEW size, Free # {}, heap' = With(FirstFree, size, << >>)
        PROVE  d \in Live' /\ heap'[d] = heap[d]
    <3>1. FirstFree \notin Live
      BY <2>3, FirstFreeIsFree DEF Free
    <3> QED BY <2>1, <2>3, <3>1 DEF With, Live
  <2> QED BY <2>2, <2>3 DEF Plain, Allocate, Preallocate, Count
<1>4. ASSUME NEW f \in Frames, f.ty = Top.ty, f.i = Top.i, f.name = Top.name, f.at = "inner",
             stack' = SetTop(f)
      PROVE  NameInv'
  <2>1. ASSUME Named PROVE NamesAt(stack', d) /\ TextAt(stack', text)
    BY <1>2, <1>4, <2>1, NameFinds, SameMember
  <2> QED BY <1>1, <1>2, <1>3, <2>1, NameKept
<1>5. CASE stack' = Pop(0)
  <2>1. ASSUME Named PROVE NamesAt(stack', d) /\ TextAt(stack', text)
    BY <1>2, <1>5, <2>1, NameFinds, Returned
  <2> QED BY <1>1, <1>2, <1>3, <2>1, NameKept
<1>6. CASE stack' = SetTop([Top EXCEPT !.at = "inner"])
  <2> DEFINE f == [Top EXCEPT !.at = "inner"]
  <2>1. f \in Frames /\ f.ty = Top.ty /\ f.i = Top.i /\ f.name = Top.name /\ f.at = "inner"
    BY <1>2 DEF Frames
  <2> QED BY <1>4, <1>6, <2>1
<1>7. ASSUME NEW n \in Nat, NEW u \in Nat, stack' = Sized(n, u) PROVE NameInv'
  <2> DEFINE f == [Top EXCEPT !.at = "inner", !.n = n, !.used = @ + u]
  <2>0. Top.used + u \in Nat
    BY <1>2 DEF Frames
  <2>1. f \in Frames
    BY <1>2, <2>0, FrameStep
  <2>2. f.ty = Top.ty /\ f.i = Top.i /\ f.name = Top.name /\ f.at = "inner"
    BY <1>2 DEF Frames
  <2>3. stack' = SetTop(f)
    BY <1>7 DEF Sized
  <2> HIDE DEF f
  <2> QED BY <1>4, <2>1, <2>2, <2>3
<1> DEFINE n == sequence_size(m, Text)
           bytes == n * member_size(m)
<1>8. n \in Nat /\ bytes \in Nat
  BY <1>1, MemorySize
<1>9. CASE Preallocate
  <2>1. index' = Aligned(index) + bytes /\ stack' = Sized(n, index' - index)
    BY <1>9 DEF Preallocate
  <2>2. index \in Nat /\ Aligned(index) \in Nat /\ Aligned(index) >= index
    BY AlignedUp DEF TypeInv, CountOK
  <2> HIDE DEF n, bytes
  <2>3. index' - index \in Nat
    BY <1>8, <2>1, <2>2
  <2> QED BY <1>7, <1>8, <2>1, <2>3
<1> QED BY <1>5, <1>6, <1>7, <1>8, <1>9 DEF Plain, Allocate, Count

LEMMA DescendName == TypeInv /\ NameInv /\ Descend => NameInv'
<1> SUFFICES ASSUME TypeInv, NameInv, Descend PROVE NameInv'
  OBVIOUS
<1>0. Walking("inner") /\ UNCHANGED callVars /\ UNCHANGED heap
  BY DEF Descend, Fault
<1>1. /\ stack # << >> /\ Top \in Frames /\ Top.at = "inner" /\ StackOK(stack)
      /\ StackOK(stack')
  BY <1>0, WalkFinds, DescendType DEF TypeInv
<1>2. CASE UNCHANGED stack
  BY <1>0, <1>2, NameSame
<1> DEFINE f == [Top EXCEPT !.k = @ + 1]
<1>3. ASSUME NEW loc, stack' = Append(SetTop(f), Frame(m.type, loc, Top.name))
      PROVE  NameInv'
  <2> DEFINE g == Frame(m.type, loc, Top.name)
             n == Len(stack)
  <2>1. f \in Frames /\ f.ty = Top.ty /\ f.i = Top.i /\ f.name = Top.name /\ f.at = "inner"
    BY <1>1 DEF Frames
  <2>2. g.name = Top.name /\ g.at = "name"
    BY DEF Frame
  <2>3. g \in Frames
    <3>1. SetTop(f) \in Seq(Frames)
      BY <1>1, <2>1, SetTopFrames DEF StackOK
    <3>2. stack' \in Seq(Frames)
      BY <1>1 DEF StackOK
    <3> HIDE DEF f, g
    <3>3. Len(stack') = Len(SetTop(f)) + 1 /\ stack'[Len(stack')] = g
      BY <1>3, <3>1 DEF g
    <3>4. Len(stack') \in 1..Len(stack')
      BY <3>1, <3>3, LenProperties
    <3> QED BY <3>2, <3>3, <3>4, ElementOfSeq
  <2> HIDE DEF f
  <2>4. stack' = Append(SetTop(f), g)
    BY <1>3
  <2> HIDE DEF g
  <2>5. ASSUME Named
        PROVE  /\ name_tree.data \in Live'
               /\ NamesAt(stack', name_tree.data)
               /\ TextAt(stack', heap[name_tree.data].text)
    BY <1>0, <1>1, <2>1, <2>2, <2>3, <2>4, <2>5, NameFinds, Called DEF Live
  <2> QED BY <1>0, <1>1, <2>5, NameKept
<1> QED BY <1>2, <1>3 DEF Descend, Fault

LEMMA ReleaseName == TypeInv /\ OwnInv /\ NameInv /\ Release => NameInv'
<1> SUFFICES ASSUME TypeInv, OwnInv, NameInv, Release PROVE NameInv'
  OBVIOUS
<1>0. Walking("inner") /\ UNCHANGED callVars
  BY DEF Release
<1>1. stack # << >> /\ Top \in Frames /\ Top.at = "inner" /\ StackOK(stack)
  BY <1>0, WalkFinds DEF TypeInv
<1>2. CASE UNCHANGED <<heap, stack>>
  BY <1>0, <1>2, NameSame
<1> DEFINE f == [Top EXCEPT !.at = "pop"]
           data == FieldAt(Field).data
<1>3. f \in Frames /\ f.ty = Top.ty /\ f.i = Top.i /\ f.name = Top.name /\ f.at = "pop"
  BY <1>1 DEF Frames
<1> HIDE DEF f
<1>4. ASSUME stack' = SetTop(f),
             UNCHANGED heap \/ (op = "destroy" /\ heap' = Without(data[2]))
      PROVE  NameInv'
  <2>1. ASSUME Named
        PROVE  /\ name_tree.data \in Live'
               /\ heap'[name_tree.data] = heap[name_tree.data]
    <3>1. name_tree.data \in Live
      BY <1>1, <2>1, NameFinds
    <3>2. op = "destroy" => data[2] # name_tree.data
      BY <3>1 DEF OwnInv, FieldAt, Cleared, Null, TypeInv, HeapOK
    <3> QED BY <1>4, <3>1, <3>2 DEF Without, Live
  <2>2. ASSUME Named
        PROVE  /\ NamesAt(stack', name_tree.data)
               /\ TextAt(stack', heap[name_tree.data].text)
    BY <1>1, <1>3, <1>4, <2>2, NameFinds, SameMember
  <2> QED BY <1>0, <1>1, <2>1, <2>2, NameKept
<1> QED BY <1>2, <1>4 DEF Release, f

LEMMA ReturnName == TypeInv /\ NameInv /\ Return => NameInv'
<1> SUFFICES ASSUME TypeInv, NameInv, Return PROVE NameInv'
  OBVIOUS
<1>1. /\ stack # << >> /\ Top.at = "name" /\ stack' = Pop(Top.used)
      /\ UNCHANGED callVars /\ UNCHANGED heap
  BY DEF Return
<1>2. StackOK(stack) /\ Top.used \in Nat
  BY <1>1, TopFrame DEF TypeInv, Frames
<1>3. ASSUME Named
      PROVE  /\ name_tree.data \in Live'
             /\ NamesAt(stack', name_tree.data) /\ TextAt(stack', heap[name_tree.data].text)
  BY <1>1, <1>2, <1>3, NameFinds, Returned DEF Live
<1> QED BY <1>1, <1>3, NameKept

\* The member's name is appended.
LEMMA Pushed ==
    ASSUME StackOK(stack), stack # << >>, Top.at = "name", NEW f \in Frames,
           f.ty = Top.ty, f.i = Top.i, f.at = "memory",
           NEW name \in STRING, name = Types[Top.ty][Top.i].name,
           NEW d, NEW text, NamesAt(stack, d), TextAt(stack, text),
           f.name.data = d, f.name.size = Top.name.size + NameLen + 1
    PROVE  /\ NamesAt(SetTop(f), d)
           /\ TextAt(SetTop(f), Append(SubSeq(text, 1, Depth(Top.name.size)), name))
<1> DEFINE s == SetTop(f)
           n == Len(stack)
           q == n - 1
           cut == SubSeq(text, 1, q)
           new == Append(cut, name)
<1>1. n \in Nat \ {0} /\ Len(s) = n /\ s[n] = f /\ \A j \in 1..(n - 1) : s[j] = stack[j]
  BY TopFrame, SetTopFrames DEF StackOK
<1>2. /\ \A j \in 1..n : stack[j].name.data = d
      /\ \A j \in 1..(n - 1) : stack[j].at = "inner" /\ stack[j].name.size = Size(j)
      /\ stack[n].name.size = Size(n - 1) /\ stack[n] = Top
      /\ text \in Seq(STRING) /\ Len(text) >= n - 1
      /\ \A j \in 1..(n - 1) : text[j] = Types[stack[j].ty][stack[j].i].name
  BY DEF NamesAt, TextAt, Deep, Top
<1> HIDE DEF s, n
<1>q. q \in Nat /\ q + 1 = n
  BY <1>1
<1>3. Depth(Top.name.size) = q /\ f.name.size = Size(n)
  <2> HIDE DEF q
  <2>1. Depth(Size(q)) = q /\ Size(q) + NameLen + 1 = Size(q + 1)
    BY <1>q, SizeFacts
  <2>2. Top.name.size = Size(q)
    BY <1>2 DEF q
  <2> QED BY <1>q, <2>1, <2>2
<1>4. cut \in Seq(STRING) /\ Len(cut) = q /\ \A j \in 1..q : cut[j] = text[j]
  <2>1. \A j \in 1..q : text[j] \in STRING
    BY <1>2, <1>q, ElementOfSeq, LenProperties
  <2> HIDE DEF q
  <2>2. Len(text) \in Nat /\ Len(text) >= q
    BY <1>2, LenProperties DEF q
  <2> QED BY <1>2, <1>q, <2>1, <2>2, SubSeqProperties
<1> HIDE DEF q, cut
<1>5. /\ new \in Seq(STRING) /\ Len(new) = n /\ new[n] = name
      /\ \A j \in 1..q : new[j] = cut[j]
  BY <1>q, <1>4
<1> HIDE DEF new
<1>6. Deep(s) = n /\ s[Len(s)] = f
  BY <1>1 DEF Deep
<1>7. \A j \in 1..n : s[j].name.data = d
  BY <1>1, <1>2
<1>8. NamesAt(s, d)
  BY <1>1, <1>2, <1>3, <1>6, <1>7 DEF NamesAt
<1>9. ASSUME NEW j \in 1..n PROVE new[j] = Types[s[j].ty][s[j].i].name
  <2>1. CASE j = n
    BY <1>1, <1>2, <1>5, <2>1
  <2>2. CASE j \in 1..q
    <3>1. j \in 1..(n - 1)
      BY <2>2 DEF q
    <3>2. s[j] = stack[j] /\ text[j] = Types[stack[j].ty][stack[j].i].name
      BY <1>1, <1>2, <3>1
    <3>3. new[j] = text[j]
      BY <1>4, <1>5, <2>2
    <3> QED BY <3>2, <3>3
  <2> QED BY <1>q, <2>1, <2>2
<1>10. TextAt(s, new)
  BY <1>1, <1>5, <1>6, <1>9 DEF TextAt
<1> QED BY <1>3, <1>8, <1>10 DEF s, new, cut

\* The member's name is cut off.
LEMMA Popped ==
    ASSUME StackOK(stack), stack # << >>, Top.at = "pop", NEW f \in Frames, f.at = "name",
           NEW d, NEW text, NamesAt(stack, d), TextAt(stack, text),
           f.name.data = d, f.name.size = Top.name.size - (NameLen + 1)
    PROVE  NamesAt(SetTop(f), d) /\ TextAt(SetTop(f), SubSeq(text, 1, Depth(f.name.size)))
<1> DEFINE s == SetTop(f)
           n == Len(stack)
           q == n - 1
           new == SubSeq(text, 1, q)
<1>1. n \in Nat \ {0} /\ Len(s) = n /\ s[n] = f /\ \A j \in 1..(n - 1) : s[j] = stack[j]
  BY TopFrame, SetTopFrames DEF StackOK
<1>2. /\ \A j \in 1..n : stack[j].name.data = d
      /\ \A j \in 1..(n - 1) : stack[j].at = "inner" /\ stack[j].name.size = Size(j)
      /\ stack[n].name.size = Size(n) /\ stack[n] = Top
      /\ text \in Seq(STRING) /\ Len(text) >= n
      /\ \A j \in 1..n : text[j] = Types[stack[j].ty][stack[j].i].name
  BY DEF NamesAt, TextAt, Deep, Top
<1> HIDE DEF s, n
<1>q. q \in Nat /\ q + 1 = n
  BY <1>1
<1>3. f.name.size = Size(q) /\ Depth(f.name.size) = q
  <2>1. n \in Int /\ q \in Int
    BY <1>1
  <2>2. Size(n) - (NameLen + 1) = Size(n - 1)
    BY <2>1, SizeFacts
  <2> HIDE DEF q
  <2>3. Depth(Size(q)) = q
    BY <2>1, SizeFacts
  <2>4. f.name.size = Size(q)
    BY <1>2, <2>2 DEF q
  <2> QED BY <2>3, <2>4
<1>4. new \in Seq(STRING) /\ Len(new) = q /\ \A j \in 1..q : new[j] = text[j]
  <2>0. Len(text) \in Nat /\ Len(text) >= q
    BY <1>1, <1>2, <1>q, LenProperties
  <2>1. \A j \in 1..q : text[j] \in STRING
    BY <1>2, <1>q, <2>0, ElementOfSeq
  <2> HIDE DEF q
  <2> QED BY <1>2, <1>q, <2>0, <2>1, SubSeqProperties
<1> HIDE DEF new
<1>6. Deep(s) = q /\ s[Len(s)] = f
  BY <1>1 DEF Deep
<1>7. \A j \in 1..n : s[j].name.data = d
  BY <1>1, <1>2
<1>8. NamesAt(s, d)
  BY <1>1, <1>2, <1>3, <1>6, <1>7 DEF NamesAt
<1>9. ASSUME NEW j \in 1..q PROVE new[j] = Types[s[j].ty][s[j].i].name
  BY <1>1, <1>2, <1>4, <1>q
<1> HIDE DEF q
<1>10. TextAt(s, new)
  BY <1>q, <1>4, <1>6, <1>9 DEF TextAt
<1> QED BY <1>3, <1>8, <1>10 DEF s, new

LEMMA PushNameName == ~Moves /\ TypeInv /\ NameInv /\ PushName => NameInv'
<1> SUFFICES ASSUME ~Moves, TypeInv, NameInv, PushName PROVE NameInv'
  OBVIOUS
<1>0. Walking("name") /\ UNCHANGED callVars
  BY DEF PushName
<1>1. /\ stack # << >> /\ Top \in Frames /\ Top.at = "name" /\ StackOK(stack)
      /\ m \in MessageMember /\ Top.name \in Names
  BY <1>0, WalkFinds DEF TypeInv, Frames
<1>2. CASE UNCHANGED <<heap, stack>>
  BY <1>0, <1>2, NameSame
<1>3. CASE ~Named
  BY <1>0, <1>1, <1>3, NameKept
<1> DEFINE d == Top.name.data
           cap == Appended(Top.name)
           size == Top.name.size + NameLen + 1
           name == [data |-> d, size |-> size, capacity |-> cap]
           f == [Top EXCEPT !.at = "memory", !.name = name]
           text == Append(SubSeq(heap[d].text, 1, Depth(Top.name.size)), m.name)
<1>4. ASSUME NEW bytes, Named, d \in Live, stack' = SetTop(f),
             heap' = [x \in Live |-> IF x = d THEN [size |-> bytes, text |-> text] ELSE heap[x]]
      PROVE  NameInv'
  <2>1. cap \in Nat /\ size \in Int /\ d \in Nat
    BY <1>1, MessageAssumption DEF Names, Appended, MessageAssumption
  <2>2. name \in Names
    BY <2>1 DEF Names
  <2>3. name.data = d /\ name.size = size
    OBVIOUS
  <2> HIDE DEF name
  <2>4. f \in Frames
    BY <1>1, <2>2 DEF Frames
  <2>5. f.ty = Top.ty /\ f.i = Top.i /\ f.at = "memory" /\ f.name = name
    BY <1>1 DEF Frames
  <2>6. m.name \in STRING /\ m.name = Types[Top.ty][Top.i].name
    BY <1>1 DEF MessageMember, m, members
  <2>7. /\ d = name_tree.data /\ NamesAt(stack, d) /\ TextAt(stack, heap[d].text)
    BY <1>1, <1>4, NameFinds
  <2> HIDE DEF f
  <2>8. NamesAt(stack', d) /\ TextAt(stack', text)
    BY <1>1, <1>4, <2>3, <2>4, <2>5, <2>6, <2>7, Pushed
  <2>9. d \in Live' /\ heap'[d].text = text /\ "text" \in DOMAIN heap'[d]
    BY <1>4 DEF Live
  <2>10. name_tree' = name_tree
    BY <1>0 DEF callVars
  <2> QED BY <2>7, <2>8, <2>9, <2>10 DEF NameInv
<1>5. ASSUME Named, d \in Live,
             NEW b \in (IF cap # Top.name.capacity THEN Grown(d) ELSE {d}),
             heap' = [x \in (Live \ {d}) \cup {b} |->
                        IF x = b THEN [size |-> IF cap # Top.name.capacity THEN cap
                                                ELSE heap[b].size,
                                       text |-> text]
                        ELSE heap[x]],
             stack' = SetTop([Top EXCEPT !.at = "memory",
                                !.name = [data |-> b, size |-> size, capacity |-> cap]])
      PROVE  NameInv'
  <2>1. b = d
    BY <1>5 DEF Grown
  <2>2. (Live \ {d}) \cup {b} = Live
    BY <1>5, <2>1
  <2> QED BY <1>4, <1>5, <2>1, <2>2
<1> QED BY <1>2, <1>3, <1>5 DEF PushName, Fault

LEMMA PopNameName == TypeInv /\ NameInv /\ PopName => NameInv'
<1> SUFFICES ASSUME TypeInv, NameInv, PopName PROVE NameInv'
  OBVIOUS
<1>0. Walking("pop") /\ UNCHANGED callVars
  BY DEF PopName
<1>1. /\ stack # << >> /\ Top \in Frames /\ Top.at = "pop" /\ StackOK(stack)
      /\ Top.name \in Names /\ Top.i + 1 \in Nat
  BY <1>0, WalkFinds DEF TypeInv, Frames
<1>2. CASE UNCHANGED <<heap, stack>>
  BY <1>0, <1>2, NameSame
<1>3. CASE ~Named
  BY <1>0, <1>1, <1>3, NameKept
<1> DEFINE d == Top.name.data
           size == Top.name.size - (NameLen + 1)
           g == [Top EXCEPT !.at = "name", !.i = @ + 1, !.n = 0, !.k = 0]
           f == [g EXCEPT !.name.size = size]
           text == SubSeq(heap[d].text, 1, Depth(size))
<1>4. ASSUME Named, d \in Live, stack' = SetTop(f), heap' = [heap EXCEPT ![d].text = text]
      PROVE  NameInv'
  <2>1. g \in Frames
    BY <1>1, FrameStep
  <2>2. g.at = "name" /\ g.name = Top.name
    BY <1>1 DEF Frames
  <2>3. size \in Int
    BY <1>1, MessageAssumption DEF Names, MessageAssumption
  <2> HIDE DEF g, size
  <2>4. f \in Frames
    BY <2>1, <2>3 DEF Frames, Names
  <2>5. f.at = "name" /\ f.name.data = d /\ f.name.size = size
    BY <1>1, <2>1, <2>2 DEF Frames, Names
  <2>6. /\ d = name_tree.data /\ "text" \in DOMAIN heap[d]
        /\ NamesAt(stack, d) /\ TextAt(stack, heap[d].text)
    BY <1>1, <1>4, NameFinds
  <2> HIDE DEF f
  <2>7. NamesAt(stack', d) /\ TextAt(stack', text)
    BY <1>1, <1>4, <2>4, <2>5, <2>6, Popped DEF size
  <2>8. d \in Live' /\ heap'[d].text = text /\ "text" \in DOMAIN heap'[d]
    BY <1>4, <2>6 DEF Live
  <2>9. name_tree' = name_tree
    BY <1>0 DEF callVars
  <2> QED BY <2>6, <2>7, <2>8, <2>9 DEF NameInv
<1> QED BY <1>2, <1>3, <1>4 DEF PopName

\* A walk begins with an empty name.
LEMMA WalkName ==
    ASSUME TypeInv, stack = << >>, call' \in Calls, NEW o \in Apis, NEW root \in Roots,
           Walk(o, root, call'.conf.rules)
    PROVE  NameInv'
<1> DEFINE loc == IF o \in {"dynamic_size", "static_size"} THEN <<Null>> ELSE <<Message>>
           name == [data |-> FirstFree, size |-> 0, capacity |-> 1]
<1>1. Named' <=> call'.conf.rules # << >>
  <2>1. call'.conf \in Confs
    BY DEF Calls
  <2>2. /\ conf'.rules = call'.conf.rules
        /\ call'.conf.rules \in Seq([rule : Seq(STRING), size : Nat])
    BY <2>1, ConfType DEF conf
  <2> QED BY <2>2, EmptySeq DEF Named
<1>2. CASE call'.conf.rules = << >>
  BY <1>1, <1>2 DEF NameInv
<1>3. CASE UNCHANGED stack
  BY <1>3 DEF NameInv
<1>4. CASE /\ Free # {} /\ heap' = With(FirstFree, 1, << >>) /\ name_tree' = name
           /\ stack' = <<Frame(root, loc, name)>>
  <2> DEFINE d == name_tree'.data
  <2>1. d = FirstFree /\ d \in Live' /\ heap'[d] = [size |-> 1, text |-> << >>]
    BY <1>4 DEF With, Live
  <2>2. Len(stack') = 1 /\ stack'[1] = Frame(root, loc, name)
    BY <1>4
  <2>3. stack'[1].at = "name" /\ stack'[1].name.data = d /\ stack'[1].name.size = 0
    BY <1>4, <2>2 DEF Frame
  <2>4. Size(0) = 0 /\ Deep(stack') = 0
    BY <2>2, <2>3, SizeFacts DEF Deep
  <2> HIDE DEF d
  <2>5. 1..(Len(stack') - 1) = {} /\ 1..Deep(stack') = {} /\ \A j \in 1..Len(stack') : j = 1
    BY <2>2, <2>4
  <2>6. NamesAt(stack', d)
    BY <2>2, <2>3, <2>4, <2>5 DEF NamesAt
  <2>7. << >> \in Seq(STRING) /\ Len(<< >>) = 0
    OBVIOUS
  <2>8. TextAt(stack', << >>)
    BY <2>2, <2>3, <2>4, <2>5, <2>7 DEF TextAt
  <2>9. heap'[d].text = << >> /\ "text" \in DOMAIN heap'[d]
    BY <2>1
  <2> QED BY <2>1, <2>6, <2>8, <2>9 DEF NameInv, d
<1> QED BY <1>2, <1>3, <1>4 DEF Walk

LEMMA LibraryName ==
    TypeInv /\ NameInv /\ (Sizes \/ Create \/ CreateStatic \/ Destroy \/ SecondWalk \/ EndWalk)
        => NameInv'
<1> SUFFICES ASSUME TypeInv, NameInv,
                    Sizes \/ Create \/ CreateStatic \/ Destroy \/ SecondWalk \/ EndWalk
             PROVE  NameInv'
  OBVIOUS
<1>1. CASE Sizes \/ Create \/ CreateStatic \/ Destroy
  <2>1. PICK c \in Calls : Call(c.api, c.root, c.conf, c.len)
    BY <1>1, CallTypes
  <2>2. /\ stack = << >> /\ Walk(FirstWalk(c.api), c.root, c.conf.rules)
        /\ call' = [api |-> c.api, root |-> c.root, conf |-> c.conf, len |-> c.len]
    BY <2>1 DEF Call, TypeInv, CallOK
  <2>3. call' \in Calls /\ call'.conf = c.conf
    BY <2>2 DEF Calls
  <2>4. FirstWalk(c.api) \in Apis /\ c.root \in Roots
    BY FirstWalkApi DEF Calls
  <2> QED BY <2>2, <2>3, <2>4, WalkName
<1>2. CASE SecondWalk
  <2>1. call \in Calls /\ stack = << >> /\ call.api \in Apis /\ call.root \in Roots
    BY <1>2 DEF SecondWalk, TypeInv, CallOK, Calls
  <2>2. CASE UNCHANGED walkVars
    BY <2>1, <2>2 DEF walkVars, NameInv
  <2>3. CASE Walk(call.api, call.root, call.conf.rules) /\ UNCHANGED call
    BY <2>1, <2>3, WalkName
  <2> QED BY <1>2, <2>2, <2>3 DEF SecondWalk
<1>3. CASE EndWalk
  <2>1. CASE Fault("name") /\ UNCHANGED callVars
    BY <2>1, NameSame DEF Fault
  <2>2. CASE stack' = << >>
    BY <2>2 DEF NameInv
  <2> QED BY <1>3, <2>1, <2>2 DEF EndWalk
<1> QED BY <1>1, <1>2, <1>3

LEMMA NameStep == ~Moves /\ TypeInv /\ OwnInv /\ NameInv /\ [Next]_vars => NameInv'
<1> SUFFICES ASSUME ~Moves, TypeInv, OwnInv, NameInv, [Next]_vars PROVE NameInv'
  OBVIOUS
<1>1. CASE UNCHANGED vars
  BY <1>1, NameSame DEF vars, walkVars
<1> QED BY <1>1, LibraryName, PushNameName, MemoryName, DescendName, ReleaseName,
           PopNameName, ReturnName DEF Next

LEMMA NameInvariance == ~Moves => (Spec => []NameInv)
<1> SUFFICES ASSUME ~Moves PROVE Spec => []NameInv
  OBVIOUS
<1>1. Init => NameInv
  BY DEF Init, NameInv
<1>2. TypeInv /\ OwnInv /\ NameInv /\ [Next]_vars => NameInv'
  BY NameStep
<1> QED BY <1>1, <1>2, TypeInvariance, OwnInvariance, PTL DEF Spec

LEMMA NamePath == ASSUME TypeInv, NameInv PROVE NameIsPath
<1> SUFFICES ASSUME stack # << >>, Top.at = "memory", Named
             PROVE  Text = [j \in 1..Len(stack) |-> Types[stack[j].ty][stack[j].i].name]
  BY DEF NameIsPath
<1> DEFINE text == heap[name_tree.data].text
<1>1. TextAt(stack, text) /\ Text = text
  BY NameFinds DEF Text
<1> HIDE DEF text
<1>2. stack[Len(stack)].at = "memory" /\ Deep(stack) = Len(stack)
  BY DEF Top, Deep
<1>3. /\ text \in Seq(STRING) /\ Len(text) = Len(stack)
      /\ \A j \in 1..Len(stack) : text[j] = Types[stack[j].ty][stack[j].i].name
  BY <1>1, <1>2 DEF TextAt
<1>4. text \in [1..Len(stack) -> STRING]
  BY <1>3, LenProperties
<1> QED BY <1>1, <1>3, <1>4

\* Where reallocate does not move blocks, the rules are always looked up under the path
\* of the member being visited, whatever subtrees were walked or given up before.
THEOREM RulesSeePath == ~Moves => (Spec => []NameIsPath)
<1> SUFFICES ASSUME ~Moves PROVE Spec => []NameIsPath
  OBVIOUS
<1>1. TypeInv /\ NameInv => NameIsPath
  BY NamePath
<1> QED BY <1>1, TypeInvariance, NameInvariance, PTL

\* The name's block is live whenever it is read, extended, cut off or released.
THEOREM NamesStayLive == ~Moves => (Spec => []NamesLive)
<1> SUFFICES ASSUME ~Moves PROVE Spec => []NamesLive
  OBVIOUS
<1>1. Init => NamesLive
  BY DEF Init, NamesLive
<1>2. TypeInv /\ NameInv /\ NamesLive /\ [Next]_vars => NamesLive'
  <2> SUFFICES ASSUME TypeInv, NameInv, NamesLive, [Next]_vars PROVE NamesLive'
    OBVIOUS
  <2>1. CASE PushName \/ PopName
    <3>1. stack # << >>
      BY <2>1 DEF PushName, PopName, Walking
    <3>2. Named => Top.name.data \in Live
      BY <3>1, NameFinds
    <3> QED BY <2>1, <3>2 DEF PushName, PopName, Fault, NamesLive
  <2>2. CASE EndWalk
    <3>1. Named => name_tree.data \in Live
      BY <2>2, NameFinds DEF EndWalk
    <3> QED BY <2>2, <3>1 DEF EndWalk, NamesLive
  <2>3. CASE Sizes \/ Create \/ CreateStatic \/ Destroy \/ SecondWalk
    <3>1. fault' \in {fault, "null"}
      BY <2>3 DEF Sizes, Create, CreateStatic, Destroy, SecondWalk, Call, Walk, walkVars
    <3> QED BY <3>1 DEF NamesLive
  <2>4. CASE Plain \/ Allocate \/ Preallocate \/ Count \/ Return
    BY <2>4 DEF Plain, Allocate, Preallocate, Count, Return, NamesLive
  <2>5. CASE Descend \/ Release
    <3>1. fault' \in {fault, "memory"}
      BY <2>5 DEF Descend, Release, Fault
    <3> QED BY <3>1 DEF NamesLive
  <2>6. CASE UNCHANGED vars
    BY <2>6 DEF vars, walkVars, NamesLive
  <2> QED BY <2>1, <2>2, <2>3, <2>4, <2>5, <2>6 DEF Next
<1> QED BY <1>1, <1>2, TypeInvariance, NameInvariance, PTL DEF Spec
-----------------------------------------------------------------------------
\* Where a walk is.

\* The member that a frame is at, and the names of the members that lead to frame j.
Item(f) == Types[f.ty][f.i]
Path(s, j) == [q \in 1..(j - 1) |-> Item(s[q]).name]

\* sequence_size of a member at the path q, and how often the walk recurs for it.
Capacity(c, x, q) ==
    LET g == get_configuration(c)
        hits == {r \in 1..Len(g.rules) : g.rules[r].rule = q}
    IN  IF hits # {}
        THEN g.rules[CHOOSE r \in hits : \A s \in hits : r <= s].size
        ELSE IF Composed(x) THEN g.max_ros2_type_sequence_capacity
        ELSE IF x.type = "string" THEN g.max_string_capacity
        ELSE g.max_basic_type_sequence_capacity
Repeats(c, x, q) ==
    IF ~Composed(x) THEN 0 ELSE IF is_sequence(x) THEN Capacity(c, x, q) ELSE 1

\* A frame has the capacity that the configuration gives its member, and recurs as
\* often as that says.
Placed(c, f, p) ==
    f.at \in {"inner", "pop"} =>
        /\ NeedsMemory(Item(f)) => f.n = Capacity(c, Item(f), Append(p, Item(f).name))
        /\ f.k <= Repeats(c, Item(f), Append(p, Item(f).name))
        /\ f.at = "pop" => f.k = Repeats(c, Item(f), Append(p, Item(f).name))

\* Frame f has called frame g.
Under(f, g) ==
    f.at = "inner" /\ Composed(Item(f)) /\ g.ty = Item(f).type /\ f.k >= 1

Nested(s, c) ==
    /\ \A j \in 1..Len(s) : Placed(c, s[j], Path(s, j))
    /\ \A j \in 1..(Len(s) - 1) : Under(s[j], s[j + 1])
    /\ s[Len(s)].at = "done" => Len(s) = 1

\* The frames are nested as the type is, and the walk is one of the call's.
NestInv ==
    /\ stack # << >> => /\ stack[1].ty = call.root /\ Nested(stack, call.conf)
                        /\ op \in {FirstWalk(call.api), call.api}
    /\ call # Idle /\ fault = "none" /\ stack = << >> =>
          op = "none" /\ call.api \in {"create", "create_static", "destroy"}
    /\ call = Idle => op = "none"

LEMMA PathSame ==
    ASSUME NEW s, NEW t, NEW j,
           \A q \in 1..(j - 1) : s[q].ty = t[q].ty /\ s[q].i = t[q].i
    PROVE  Path(s, j) = Path(t, j)
BY DEF Path, Item

LEMMA PathFirst == ASSUME NEW s PROVE Path(s, 1) = << >>
<1>1. 1..(1 - 1) = {}
  OBVIOUS
<1>2. << >> = [q \in {} |-> Item(s[q]).name]
  OBVIOUS
<1> QED BY <1>1, <1>2 DEF Path

\* A frame that is at a member of its type.
Within(f) == f.i <= Len(Types[f.ty])

LEMMA ItemType ==
    ASSUME NEW f \in Frames, FrameOK(f), Within(f)
    PROVE  Item(f) \in MessageMember /\ Item(f).name \in STRING
<1>1. Types[f.ty] \in Seq(MessageMember)
  BY MessageAssumption DEF Frames, MessageAssumption
<1>2. f.i \in 1..Len(Types[f.ty])
  BY <1>1, LenProperties DEF FrameOK, Within
<1>3. Item(f) \in MessageMember
  BY <1>1, <1>2, ElementOfSeq DEF Item
<1> QED BY <1>3 DEF MessageMember

LEMMA PathType ==
    ASSUME NEW s, StackOK(s), NEW j \in Nat \ {0}, j - 1 <= Len(s),
           \A q \in 1..(j - 1) : Within(s[q])
    PROVE  Path(s, j) \in Seq(STRING) /\ Len(Path(s, j)) = j - 1
           /\ \A q \in 1..(j - 1) : Path(s, j)[q] = Item(s[q]).name
<1>0. Len(s) \in Nat
  BY LenProperties DEF StackOK
<1>1. ASSUME NEW q \in 1..(j - 1) PROVE Item(s[q]).name \in STRING
  <2>1. q \in 1..Len(s)
    BY <1>0
  <2>2. s[q] \in Frames /\ FrameOK(s[q]) /\ Within(s[q])
    BY <1>1, <2>1, ElementOfSeq DEF StackOK
  <2> QED BY <2>2, ItemType
<1>2. Path(s, j) \in [1..(j - 1) -> STRING]
  BY <1>1 DEF Path
<1>3. j - 1 \in Nat
  BY <1>0
<1>4. \A q \in 1..(j - 1) : Path(s, j)[q] = Item(s[q]).name
  BY DEF Path
<1> HIDE DEF Path
<1> QED BY <1>2, <1>3, <1>4

LEMMA PathNext ==
    ASSUME NEW s, StackOK(s), NEW j \in 1..Len(s), \A q \in 1..j : Within(s[q])
    PROVE  /\ Path(s, j + 1) = Append(Path(s, j), Item(s[j]).name)
           /\ Path(s, j + 1) \in Seq(STRING)
<1>0. Len(s) \in Nat /\ j \in Nat \ {0} /\ j <= Len(s)
  BY LenProperties DEF StackOK
<1> DEFINE p == Path(s, j)
           r == Path(s, j + 1)
           x == Item(s[j]).name
<1>1. p \in Seq(STRING) /\ Len(p) = j - 1 /\ \A q \in 1..(j - 1) : p[q] = Item(s[q]).name
  BY <1>0, PathType
<1>2. r \in Seq(STRING) /\ Len(r) = j /\ \A q \in 1..j : r[q] = Item(s[q]).name
  <2> DEFINE h == j + 1
  <2>1. h \in Nat \ {0} /\ h - 1 = j
    BY <1>0
  <2> HIDE DEF h
  <2>2. h - 1 <= Len(s) /\ \A q \in 1..(h - 1) : Within(s[q])
    BY <1>0, <2>1
  <2>3. /\ Path(s, h) \in Seq(STRING) /\ Len(Path(s, h)) = h - 1
        /\ \A q \in 1..(h - 1) : Path(s, h)[q] = Item(s[q]).name
    BY <2>1, <2>2, PathType
  <2> QED BY <2>1, <2>3 DEF h
<1>3. x \in STRING
  <2>1. s[j] \in Frames /\ FrameOK(s[j]) /\ Within(s[j])
    BY <1>0, ElementOfSeq DEF StackOK
  <2> QED BY <2>1, ItemType
<1>x. x = Item(s[j]).name
  OBVIOUS
<1> HIDE DEF p, r, x
<1>4. /\ Append(p, x) \in Seq(STRING) /\ Len(Append(p, x)) = j
      /\ \A q \in 1..(j - 1) : Append(p, x)[q] = p[q]
      /\ Append(p, x)[j] = x
  <2>1. (j - 1) + 1 = j
    BY <1>0
  <2> QED BY <1>1, <1>3, <2>1, AppendProperties
<1>5. ASSUME NEW q \in 1..j PROVE r[q] = Append(p, x)[q]
  <2>1. CASE q = j
    BY <1>2, <1>4, <1>x, <2>1
  <2>2. CASE q \in 1..(j - 1)
    BY <1>1, <1>2, <1>4, <2>2
  <2>3. q = j \/ q \in 1..(j - 1)
    BY <1>0
  <2> QED BY <2>1, <2>2, <2>3
<1>6. r = Append(p, x)
  BY <1>2, <1>4, <1>5, SeqEqual
<1> QED BY <1>2, <1>6 DEF p, r, x

LEMMA SetTopPaths ==
    ASSUME StackOK(stack), stack # << >>, NEW f \in Frames, NEW j \in 1..(Len(stack) + 1),
           j <= Len(stack) \/ (f.ty = Top.ty /\ f.i = Top.i)
    PROVE  Path(SetTop(f), j) = Path(stack, j)
<1>1. /\ Len(stack) \in Nat \ {0} /\ SetTop(f)[Len(stack)] = f
      /\ \A q \in 1..(Len(stack) - 1) : SetTop(f)[q] = stack[q]
  BY TopFrame, SetTopFrames DEF StackOK
<1>2. ASSUME NEW q \in 1..(j - 1)
      PROVE  SetTop(f)[q].ty = stack[q].ty /\ SetTop(f)[q].i = stack[q].i
  <2>1. CASE q = Len(stack)
    <3>1. j > Len(stack)
      BY <1>1, <2>1
    <3> QED BY <1>1, <2>1, <3>1 DEF Top
  <2>2. CASE q # Len(stack)
    <3>1. q \in 1..(Len(stack) - 1)
      BY <1>1, <2>2
    <3> QED BY <1>1, <3>1
  <2> QED BY <2>1, <2>2
<1> QED BY <1>2, PathSame

LEMMA PushPaths ==
    ASSUME StackOK(stack), stack # << >>, NEW f \in Frames, f.ty = Top.ty, f.i = Top.i,
           NEW g \in Frames, NEW j \in 1..(Len(stack) + 1)
    PROVE  Path(Append(SetTop(f), g), j) = Path(stack, j)
<1> DEFINE t == SetTop(f)
           s == Append(t, g)
<1>1. Len(stack) \in Nat \ {0} /\ t \in Seq(Frames) /\ Len(t) = Len(stack)
  BY TopFrame, SetTopFrames DEF StackOK
<1> HIDE DEF t
<1>2. \A q \in 1..Len(t) : s[q] = t[q]
  BY <1>1, PushFrames
<1> HIDE DEF s
<1>3. \A q \in 1..(j - 1) : s[q] = t[q]
  BY <1>1, <1>2
<1>4. Path(s, j) = Path(t, j)
  BY <1>3, PathSame
<1> QED BY <1>4, SetTopPaths DEF s, t

LEMMA PopPaths ==
    ASSUME StackOK(stack), stack # << >>, NEW u \in Nat, NEW j \in 1..Len(stack)
    PROVE  Path(Pop(u), j) = Path(stack, j)
<1> DEFINE n == Len(stack)
           s == Pop(u)
<1>1. n \in Nat \ {0} /\ \A q \in 1..n : stack[q] \in Frames
  BY TopFrame, ElementOfSeq DEF StackOK
<1>2. CASE n = 1
  <2>1. 1..(j - 1) = {}
    BY <1>2
  <2> QED BY <2>1, PathSame
<1>3. CASE n # 1
  <2>0. n - 1 \in Nat \ {0} /\ n - 1 \in 1..n
    BY <1>1, <1>3, Before
  <2>1. /\ \A q \in 1..(n - 2) : s[q] = stack[q]
        /\ s[n - 1] = [stack[n - 1] EXCEPT !.used = @ + u]
    BY <1>3, PopFrames DEF StackOK
  <2>2. s[n - 1].ty = stack[n - 1].ty /\ s[n - 1].i = stack[n - 1].i
    <3>1. stack[n - 1] \in Frames
      BY <1>1, <2>0
    <3> QED BY <2>1, <3>1 DEF Frames
  <2> HIDE DEF s
  <2>3. ASSUME NEW q \in 1..(j - 1) PROVE s[q].ty = stack[q].ty /\ s[q].i = stack[q].i
    <3>1. q = n - 1 \/ q \in 1..(n - 2)
      BY <1>1
    <3> QED BY <2>1, <2>2, <3>1
  <2>4. Path(s, j) = Path(stack, j)
    BY <2>3, PathSame
  <2> QED BY <2>4 DEF s
<1> QED BY <1>2, <1>3
-----------------------------------------------------------------------------
LEMMA CapacityNat ==
    ASSUME NEW c \in Confs, NEW x \in MessageMember, NEW q
    PROVE  Capacity(c, x, q) \in Nat /\ Repeats(c, x, q) \in Nat
<1> DEFINE R == [rule : Seq(STRING), size : Nat]
           g == get_configuration(c)
           hits == {r \in 1..Len(g.rules) : g.rules[r].rule = q}
<1>2. /\ g.rules \in Seq(R)
      /\ g.max_string_capacity \in Nat
      /\ g.max_ros2_type_sequence_capacity \in Nat
      /\ g.max_basic_type_sequence_capacity \in Nat
  BY ConfType
<1> HIDE DEF g
<1>3. CASE hits # {}
  <2>1. hits \subseteq Nat
    BY <1>2, LenProperties
  <2>2. \E r \in hits : \A z \in hits : r <= z
    BY <1>3, <2>1, LeastExists
  <2>3. PICK r \in hits : r = CHOOSE y \in hits : \A z \in hits : y <= z
    BY <2>2
  <2>4. g.rules[r] \in R
    BY <1>2, ElementOfSeq
  <2>5. Capacity(c, x, q) = g.rules[r].size
    BY <1>3, <2>3 DEF Capacity, g
  <2> QED BY <2>4, <2>5 DEF Repeats
<1>4. CASE hits = {}
  BY <1>2, <1>4 DEF Capacity, Repeats, g
<1> QED BY <1>3, <1>4

\* sequence_size is what the configuration says for the member's path.
LEMMA SizeCapacity ==
    ASSUME TypeInv, NameInv, Walking("memory")
    PROVE  sequence_size(m, Text) = Capacity(call.conf, m, Path(stack, Len(stack) + 1))
<1> DEFINE p == Path(stack, Len(stack) + 1)
<1>1. stack # << >> /\ Top.at = "memory" /\ call \in Calls /\ Len(stack) \in Nat
  BY WalkFinds
<1>2. CASE Named
  <2>1. Text = [j \in 1..Len(stack) |-> Types[stack[j].ty][stack[j].i].name]
    BY <1>1, <1>2, NamePath DEF NameIsPath
  <2>2. (Len(stack) + 1) - 1 = Len(stack)
    BY <1>1
  <2>3. Text = p
    BY <2>1, <2>2 DEF Path, Item
  <2> QED BY <2>3 DEF sequence_size, Capacity, conf
<1>3. CASE ~Named
  <2>1. conf.rules = << >>
    BY <1>1, <1>3, NamedRules, ConfType DEF conf, Calls
  <2>2. 1..Len(conf.rules) = {}
    BY <2>1
  <2> HIDE DEF p
  <2>3. sequence_size(m, Text) = Capacity(call.conf, m, p)
    BY <2>2 DEF sequence_size, Capacity, conf
  <2> QED BY <2>3 DEF p
<1> QED BY <1>2, <1>3
-----------------------------------------------------------------------------
LEMMA NestedPath ==
    ASSUME StackOK(stack), stack # << >>, NEW c, Nested(stack, c), NEW j \in 1..Len(stack)
    PROVE  /\ Path(stack, j) \in Seq(STRING)
           /\ j < Len(stack) \/ Within(Top) =>
                 /\ Path(stack, j + 1) = Append(Path(stack, j), Item(stack[j]).name)
                 /\ Path(stack, j + 1) \in Seq(STRING)
<1>1. Len(stack) \in Nat \ {0} /\ j \in Nat \ {0} /\ j <= Len(stack) /\ stack[Len(stack)] = Top
  BY TopFrame DEF StackOK, Top
<1>2. ASSUME NEW q \in 1..(Len(stack) - 1) PROVE Within(stack[q])
  <2>1. q \in 1..Len(stack) /\ stack[q].at = "inner"
    BY <1>1 DEF Nested, Under
  <2> QED BY <2>1 DEF StackOK, FrameOK, Within
<1>3. Path(stack, j) \in Seq(STRING)
  <2>1. \A q \in 1..(j - 1) : Within(stack[q])
    BY <1>1, <1>2
  <2>2. j - 1 <= Len(stack)
    BY <1>1
  <2> QED BY <1>1, <2>1, <2>2, PathType
<1>4. ASSUME j < Len(stack) \/ Within(Top)
      PROVE  /\ Path(stack, j + 1) = Append(Path(stack, j), Item(stack[j]).name)
             /\ Path(stack, j + 1) \in Seq(STRING)
  <2>1. ASSUME NEW q \in 1..j PROVE Within(stack[q])
    <3>1. CASE q = Len(stack)
      BY <1>1, <1>4, <3>1
    <3>2. CASE q # Len(stack)
      BY <1>1, <1>2, <3>2
    <3> QED BY <3>1, <3>2
  <2> QED BY <2>1, PathNext
<1> QED BY <1>3, <1>4

\* What a step of a walk finds of its place.
LEMMA PlaceFinds ==
    ASSUME TypeInv, NestInv, NEW at, Walking(at)
    PROVE  /\ Path(stack, Len(stack)) \in Seq(STRING)
           /\ Path(stack, Len(stack) + 1) = Append(Path(stack, Len(stack)), m.name)
           /\ Path(stack, Len(stack) + 1) \in Seq(STRING)
           /\ m = Item(Top) /\ call.conf \in Confs /\ Within(Top)
           /\ Placed(call.conf, Top, Path(stack, Len(stack)))
           /\ Nested(stack, call.conf) /\ StackOK(stack)
           /\ op \in {FirstWalk(call.api), call.api}
<1>1. /\ stack # << >> /\ call \in Calls /\ Len(stack) \in Nat \ {0} /\ Top \in Frames
      /\ Top.i \in 1..Len(Types[Top.ty]) /\ Len(Types[Top.ty]) \in Nat
  BY WalkFinds
<1>2. Nested(stack, call.conf) /\ StackOK(stack) /\ op \in {FirstWalk(call.api), call.api}
  BY <1>1 DEF NestInv, TypeInv
<1>3. Within(Top) /\ m = Item(Top) /\ call.conf \in Confs
  BY <1>1 DEF Within, m, members, Item, Calls
<1>4. Len(stack) \in 1..Len(stack) /\ stack[Len(stack)] = Top
  BY <1>1 DEF Top
<1>5. Placed(call.conf, Top, Path(stack, Len(stack)))
  BY <1>2, <1>4 DEF Nested
<1>6. /\ Path(stack, Len(stack)) \in Seq(STRING)
      /\ Path(stack, Len(stack) + 1) = Append(Path(stack, Len(stack)), Item(stack[Len(stack)]).name)
      /\ Path(stack, Len(stack) + 1) \in Seq(STRING)
  BY <1>1, <1>2, <1>3, <1>4, NestedPath
<1> QED BY <1>2, <1>3, <1>4, <1>5, <1>6

LEMMA SetTopNested ==
    ASSUME StackOK(stack), stack # << >>, NEW c, Nested(stack, c), NEW f \in Frames,
           f.ty = Top.ty, f.at # "done", Placed(c, f, Path(stack, Len(stack)))
    PROVE  Nested(SetTop(f), c) /\ SetTop(f)[1].ty = stack[1].ty
<1> DEFINE s == SetTop(f)
           n == Len(stack)
<1>1. /\ n \in Nat \ {0} /\ Len(s) = n /\ s[n] = f /\ stack[n] = Top
      /\ \A j \in 1..(n - 1) : s[j] = stack[j]
  BY TopFrame, SetTopFrames DEF StackOK, Top
<1>2. ASSUME NEW j \in 1..n PROVE Path(s, j) = Path(stack, j)
  <2>1. j \in 1..(Len(stack) + 1) /\ j <= Len(stack)
    BY <1>1
  <2>2. j <= Len(stack) \/ (f.ty = Top.ty /\ f.i = Top.i)
    BY <2>1
  <2> QED BY <2>1, <2>2, SetTopPaths
<1> HIDE DEF s, n
<1>3. ASSUME NEW j \in 1..n PROVE Placed(c, s[j], Path(s, j))
  <2>1. CASE j = n
    BY <1>1, <1>2, <2>1 DEF n
  <2>2. CASE j \in 1..(n - 1)
    BY <1>1, <1>2, <2>2 DEF Nested, n
  <2> QED BY <1>1, <2>1, <2>2
<1>4. ASSUME NEW j \in 1..(n - 1) PROVE Under(s[j], s[j + 1])
  <2>1. Under(stack[j], stack[j + 1]) /\ s[j] = stack[j]
    BY <1>1 DEF Nested, n
  <2>2. CASE j + 1 = n
    BY <1>1, <2>1, <2>2 DEF Under
  <2>3. CASE j + 1 \in 1..(n - 1)
    BY <1>1, <2>1, <2>3
  <2> QED BY <1>1, <2>2, <2>3
<1>5. s[1].ty = stack[1].ty
  <2>1. CASE n = 1
    BY <1>1, <2>1
  <2>2. CASE n # 1
    <3>1. 1 \in 1..(n - 1)
      BY <1>1, <2>2
    <3> QED BY <1>1, <3>1
  <2> QED BY <2>1, <2>2
<1> QED BY <1>1, <1>3, <1>4, <1>5 DEF Nested, s

LEMMA PushNested ==
    ASSUME StackOK(stack), stack # << >>, NEW c, Nested(stack, c), NEW f \in Frames,
           f.ty = Top.ty, f.i = Top.i, Placed(c, f, Path(stack, Len(stack))),
           NEW g \in Frames, Under(f, g), g.at = "name"
    PROVE  Nested(Append(SetTop(f), g), c) /\ Append(SetTop(f), g)[1].ty = stack[1].ty
<1> DEFINE t == SetTop(f)
           s == Append(t, g)
           n == Len(stack)
<1>1. n \in Nat \ {0} /\ t \in Seq(Frames) /\ Len(t) = n /\ t[n] = f
  BY TopFrame, SetTopFrames DEF StackOK
<1>2. Nested(t, c) /\ t[1].ty = stack[1].ty
  BY SetTopNested DEF Under
<1>3. ASSUME NEW j \in 1..n PROVE Path(s, j) = Path(t, j)
  <2>1. j \in 1..(n + 1)
    BY <1>1
  <2>2. Path(s, j) = Path(stack, j)
    BY <2>1, PushPaths
  <2>3. Path(t, j) = Path(stack, j)
    BY <2>1, SetTopPaths
  <2> QED BY <2>2, <2>3
<1> HIDE DEF t, n
<1>4. Len(s) = n + 1 /\ s[n + 1] = g /\ \A j \in 1..n : s[j] = t[j]
  BY <1>1, PushFrames
<1> HIDE DEF s
<1>5. ASSUME NEW j \in 1..(n + 1) PROVE Placed(c, s[j], Path(s, j))
  <2>1. CASE j = n + 1
    BY <1>4, <2>1 DEF Placed
  <2>2. CASE j \in 1..n
    BY <1>1, <1>2, <1>3, <1>4, <2>2 DEF Nested
  <2> QED BY <1>1, <2>1, <2>2
<1>6. ASSUME NEW j \in 1..((n + 1) - 1) PROVE Under(s[j], s[j + 1])
  <2>1. CASE j = n
    <3>1. s[j] = f /\ s[j + 1] = g
      BY <1>1, <1>4, <2>1
    <3> QED BY <3>1
  <2>2. CASE j \in 1..(n - 1)
    <3>1. s[j] = t[j] /\ s[j + 1] = t[j + 1]
      BY <1>1, <1>4, <2>2
    <3> QED BY <1>1, <1>2, <2>2, <3>1 DEF Nested
  <2> QED BY <1>1, <2>1, <2>2
<1>7. s[1].ty = stack[1].ty
  <2>1. 1 \in 1..n
    BY <1>1
  <2> QED BY <1>2, <1>4, <2>1
<1> QED BY <1>4, <1>5, <1>6, <1>7 DEF Nested, s, t

LEMMA PopNested ==
    ASSUME StackOK(stack), stack # << >>, NEW c, Nested(stack, c), NEW u \in Nat
    PROVE  Nested(Pop(u), c) /\ Pop(u)[1].ty = stack[1].ty
<1> DEFINE s == Pop(u)
           n == Len(stack)
<1>1. n \in Nat \ {0} /\ Top \in Frames /\ \A j \in 1..n : stack[j] \in Frames
  BY TopFrame, ElementOfSeq DEF StackOK
<1>2. CASE n = 1
  <2>1. Len(s) = 1 /\ s[1] = [Top EXCEPT !.at = "done", !.used = u]
    BY <1>2, PopFrames DEF StackOK
  <2>2. s[1].at = "done" /\ s[1].ty = stack[1].ty
    BY <1>1, <1>2, <2>1 DEF Frames, Top
  <2> HIDE DEF s
  <2>3. (\A j \in 1..Len(s) : j = 1) /\ 1..(Len(s) - 1) = {}
    BY <2>1
  <2>4. Nested(s, c)
    BY <2>1, <2>2, <2>3 DEF Nested, Placed
  <2> QED BY <2>2, <2>4 DEF s
<1>3. CASE n # 1
  <2>0. n - 1 \in Nat \ {0} /\ n - 1 \in 1..n
    BY <1>1, <1>3, Before
  <2>1. /\ Len(s) = n - 1 /\ \A j \in 1..(n - 2) : s[j] = stack[j]
        /\ s[n - 1] = [stack[n - 1] EXCEPT !.used = @ + u]
    BY <1>3, PopFrames DEF StackOK
  <2>2. ASSUME NEW j \in 1..(n - 1)
        PROVE  /\ s[j].at = stack[j].at /\ s[j].ty = stack[j].ty /\ s[j].i = stack[j].i
               /\ s[j].n = stack[j].n /\ s[j].k = stack[j].k
    <3>1. CASE j = n - 1
      <4>1. stack[n - 1] \in Frames
        BY <1>1, <2>0
      <4> QED BY <2>1, <3>1, <4>1 DEF Frames
    <3>2. CASE j \in 1..(n - 2)
      BY <2>1, <3>2
    <3> QED BY <1>1, <3>1, <3>2
  <2>3. ASSUME NEW j \in 1..(n - 1) PROVE Path(s, j) = Path(stack, j)
    <3>1. j \in 1..n
      BY <1>1
    <3> QED BY <3>1, PopPaths
  <2> HIDE DEF s, n
  <2>4. ASSUME NEW j \in 1..(n - 1) PROVE Placed(c, s[j], Path(s, j))
    <3>1. Placed(c, stack[j], Path(stack, j))
      BY <1>1 DEF Nested, n
    <3> QED BY <2>2, <2>3, <3>1 DEF Placed, Item
  <2>5. ASSUME NEW j \in 1..((n - 1) - 1) PROVE Under(s[j], s[j + 1])
    <3>1. j \in 1..(n - 1) /\ j + 1 \in 1..(n - 1)
      BY <1>1
    <3>2. Under(stack[j], stack[j + 1])
      BY <3>1 DEF Nested, n
    <3> QED BY <2>2, <3>1, <3>2 DEF Under, Item
  <2>6. s[1].ty = stack[1].ty
    BY <2>0, <2>2
  <2>7. s[n - 1].at # "done"
    <3>1. n - 1 \in 1..(n - 1)
      BY <2>0
    <3>2. stack[n - 1].at = "inner"
      BY <3>1 DEF Nested, Under, n
    <3> QED BY <2>2, <3>1, <3>2
  <2> QED BY <2>1, <2>4, <2>5, <2>6, <2>7 DEF Nested, s
<1> QED BY <1>2, <1>3
-----------------------------------------------------------------------------
\* What each step of a walk makes of the innermost frame.

\* The frame goes on with the structure that it is at.
Same(f) == f.ty = Top.ty /\ f.loc = Top.loc

\* The bytes that a member needs for itself.
Own(c, x, q) == IF NeedsMemory(x) THEN Capacity(c, x, q) * member_size(x) ELSE 0

LEMMA OwnNat ==
    ASSUME NEW c \in Confs, NEW x \in MessageMember, NEW q
    PROVE  Own(c, x, q) \in Nat
<1>1. Capacity(c, x, q) \in Nat
  BY CapacityNat
<1> QED BY <1>1, BytesNat DEF Own

LEMMA PushNameFrame ==
    ASSUME TypeInv, PushName
    PROVE  \/ UNCHANGED stack /\ fault' # "none"
           \/ \E f \in Frames : /\ stack' = SetTop(f) /\ Same(f) /\ f.at = "memory"
                                /\ f.i = Top.i /\ f.used = Top.used
<1>0. Walking("name")
  BY DEF PushName
<1>1. Top \in Frames /\ StackOK(stack') /\ StackOK(stack) /\ stack # << >>
  BY <1>0, WalkFinds, PushNameType DEF TypeInv
<1>2. ASSUME stack' = SetTop([Top EXCEPT !.at = "memory"])
      PROVE  \E f \in Frames : /\ stack' = SetTop(f) /\ Same(f) /\ f.at = "memory"
                               /\ f.i = Top.i /\ f.used = Top.used
  <2> DEFINE f == [Top EXCEPT !.at = "memory"]
  <2>1. /\ f \in Frames /\ f.ty = Top.ty /\ f.loc = Top.loc /\ f.at = "memory" /\ f.i = Top.i
        /\ f.used = Top.used
    BY <1>1 DEF Frames
  <2> QED BY <1>2, <2>1 DEF Same
<1>3. ASSUME NEW name, stack' = SetTop([Top EXCEPT !.at = "memory", !.name = name])
      PROVE  \E f \in Frames : /\ stack' = SetTop(f) /\ Same(f) /\ f.at = "memory"
                               /\ f.i = Top.i /\ f.used = Top.used
  <2> DEFINE f == [Top EXCEPT !.at = "memory", !.name = name]
             n == Len(stack)
  <2>1. /\ f.ty = Top.ty /\ f.loc = Top.loc /\ f.at = "memory" /\ f.i = Top.i
        /\ f.used = Top.used
    BY <1>1 DEF Frames
  <2> HIDE DEF f
  <2>2. n \in 1..n /\ stack' = [stack EXCEPT ![n] = f] /\ DOMAIN stack = 1..n
    BY <1>1, <1>3, TopFrame, LenProperties DEF SetTop, f, StackOK
  <2>3. stack'[n] = f /\ DOMAIN stack' = 1..n
    BY <2>2
  <2>4. stack'[n] \in Frames
    BY <1>1, <2>2, <2>3, LenProperties, ElementOfSeq DEF StackOK
  <2> QED BY <1>3, <2>1, <2>3, <2>4 DEF Same, f
<1> QED BY <1>2, <1>3 DEF PushName, Fault

LEMMA DescendFrame ==
    ASSUME TypeInv, Descend
    PROVE  \/ UNCHANGED stack /\ fault' = "memory"
           \/ \E f \in Frames, g \in Frames :
                 /\ stack' = Append(SetTop(f), g) /\ Same(f) /\ f.at = "inner"
                 /\ f.i = Top.i /\ f.used = Top.used /\ f.n = Top.n /\ f.k = Top.k + 1
                 /\ g.ty = m.type /\ g.at = "name" /\ g.i = 1 /\ g.used = 0 /\ UNCHANGED fault
                 /\ g.loc = IF ~is_sequence(m) THEN Field
                            ELSE IF op \in {"dynamic_size", "static_size"} THEN <<Null>>
                            ELSE Element(FieldAt(Field).data, Top.k)
<1>0. Walking("inner")
  BY DEF Descend
<1>1. Top \in Frames /\ Top.at = "inner" /\ StackOK(stack) /\ StackOK(stack') /\ stack # << >>
  BY <1>0, WalkFinds, DescendType DEF TypeInv
<1> DEFINE f == [Top EXCEPT !.k = @ + 1]
           loc == IF ~is_sequence(m) THEN Field
                  ELSE IF op \in {"dynamic_size", "static_size"} THEN <<Null>>
                  ELSE Element(FieldAt(Field).data, Top.k)
           g == Frame(m.type, loc, Top.name)
<1>2. /\ f \in Frames /\ f.ty = Top.ty /\ f.loc = Top.loc /\ f.at = "inner" /\ f.i = Top.i
      /\ f.used = Top.used /\ f.n = Top.n /\ f.k = Top.k + 1
  BY <1>1 DEF Frames
<1>3. g.ty = m.type /\ g.at = "name" /\ g.i = 1 /\ g.used = 0 /\ g.loc = loc
  BY DEF Frame
<1>4. ASSUME stack' = Append(SetTop(f), g) PROVE g \in Frames
  <2>1. SetTop(f) \in Seq(Frames) /\ stack' \in Seq(Frames)
    BY <1>1, <1>2, SetTopFrames DEF StackOK
  <2> HIDE DEF f, g
  <2>2. Len(stack') = Len(SetTop(f)) + 1 /\ stack'[Len(stack')] = g
    BY <1>4, <2>1
  <2>3. Len(stack') \in 1..Len(stack')
    BY <2>1, <2>2, LenProperties
  <2> QED BY <2>1, <2>2, <2>3, ElementOfSeq
<1>5. \/ UNCHANGED stack /\ fault' = "memory"
      \/ stack' = Append(SetTop(f), g) /\ UNCHANGED fault
  BY DEF Descend, Fault
<1> HIDE DEF f, g, loc
<1>6. CASE stack' = Append(SetTop(f), g) /\ UNCHANGED fault
  BY <1>2, <1>3, <1>4, <1>6 DEF Same, loc
<1> QED BY <1>5, <1>6

LEMMA ReleaseFrame ==
    ASSUME TypeInv, Release
    PROVE  \/ UNCHANGED stack /\ fault' = "memory"
           \/ \E f \in Frames : /\ stack' = SetTop(f) /\ Same(f) /\ f.at = "pop"
                                /\ f.i = Top.i /\ f.used = Top.used
                                /\ f.n = Top.n /\ f.k = Top.k /\ UNCHANGED fault
<1>0. Walking("inner")
  BY DEF Release
<1>1. Top \in Frames
  BY <1>0, WalkFinds
<1> DEFINE f == [Top EXCEPT !.at = "pop"]
<1>2. /\ f \in Frames /\ f.ty = Top.ty /\ f.loc = Top.loc /\ f.at = "pop" /\ f.i = Top.i
      /\ f.used = Top.used /\ f.n = Top.n /\ f.k = Top.k
  BY <1>1 DEF Frames
<1>3. \/ UNCHANGED stack /\ fault' = "memory"
      \/ stack' = SetTop(f) /\ UNCHANGED fault
  BY DEF Release
<1> HIDE DEF f
<1> QED BY <1>2, <1>3 DEF Same

LEMMA PopNameFrame ==
    ASSUME TypeInv, PopName
    PROVE  \/ UNCHANGED stack /\ fault' = "name"
           \/ \E f \in Frames : /\ stack' = SetTop(f) /\ Same(f) /\ f.at = "name"
                                /\ f.i = Top.i + 1 /\ f.used = Top.used /\ UNCHANGED fault
<1>0. Walking("pop")
  BY DEF PopName
<1>1. Top \in Frames /\ Top.i + 1 \in Nat
  BY <1>0, WalkFinds DEF Frames
<1> DEFINE f == [Top EXCEPT !.at = "name", !.i = @ + 1, !.n = 0, !.k = 0]
           size == Top.name.size - (NameLen + 1)
           g == [f EXCEPT !.name.size = size]
<1>2. f \in Frames
  BY <1>1, FrameStep
<1>3. /\ f.ty = Top.ty /\ f.loc = Top.loc /\ f.at = "name" /\ f.i = Top.i + 1
      /\ f.used = Top.used
  BY <1>1 DEF Frames
<1>4. size \in Int
  BY <1>1, MessageAssumption DEF Frames, Names, MessageAssumption
<1>5. \/ UNCHANGED stack /\ fault' = "name"
      \/ stack' = SetTop(f) /\ UNCHANGED fault
      \/ stack' = SetTop(g) /\ UNCHANGED fault
  BY DEF PopName
<1> HIDE DEF f, size
<1>6. g \in Frames
  BY <1>2, <1>4 DEF Frames, Names
<1>7. /\ g.ty = f.ty /\ g.loc = f.loc /\ g.at = f.at /\ g.i = f.i /\ g.used = f.used
  BY <1>2 DEF Frames
<1> HIDE DEF g
<1> QED BY <1>2, <1>3, <1>5, <1>6, <1>7 DEF Same

\* The bytes that the member being visited needs for itself.
Needs == Own(call.conf, m, Path(stack, Len(stack) + 1))

\* What the field that points to that memory is given.
Stored(f) ==
    /\ ~NeedsMemory(m) \/ op \notin {"create", "create_static"} => UNCHANGED <<heap, fields>>
    /\ NeedsMemory(m) /\ op = "create" =>
          /\ Free # {} /\ heap' = With(FirstFree, Needs, << >>)
          /\ fields' = Assigned(<<"heap", FirstFree>>, f.n)
    /\ NeedsMemory(m) /\ op = "create_static" =>
          UNCHANGED heap /\ fields' = Assigned(<<"buffer", Aligned(index)>>, f.n)

\* The frame has the member's memory.  In a buffer the piece is aligned first.
Entered(f) ==
    /\ stack' = SetTop(f) /\ Same(f) /\ f.at = "inner" /\ f.i = Top.i /\ f.k = 0 /\ Stored(f)
    /\ NeedsMemory(m) => f.n = Capacity(call.conf, m, Path(stack, Len(stack) + 1))
    /\ UNCHANGED oom
    /\ op \in {"dynamic_size", "create", "destroy"} => f.used = Top.used + Needs /\ UNCHANGED index
    /\ op \in {"static_size", "create_static"} =>
          /\ index' = IF NeedsMemory(m) THEN Aligned(index) + Needs ELSE index
          /\ f.used = Top.used + (index' - index)

LEMMA MemoryFrame ==
    ASSUME TypeInv, NameInv, Plain \/ Allocate \/ Preallocate \/ Count
    PROVE  \/ \E f \in Frames : Entered(f)
           \/ /\ Allocate /\ stack' = Pop(0) /\ UNCHANGED <<heap, fields, index>>
              /\ oom' = IF oom = "lost" \/ Needs > 0 THEN "lost" ELSE "empty"
<1>0. Walking("memory") /\ UNCHANGED fault
  BY DEF Plain, Allocate, Preallocate, Count
<1>1. /\ Top \in Frames /\ FrameOK(Top) /\ Top.at = "memory" /\ Top.used \in Nat
      /\ m \in MessageMember /\ call \in Calls
  BY <1>0, WalkFinds
<1>k. Top.k = 0 /\ index \in Nat
  BY <1>1 DEF FrameOK, TypeInv, CountOK
<1> DEFINE n == sequence_size(m, Text)
           bytes == n * member_size(m)
<1>2. n \in Nat /\ bytes \in Nat
  BY <1>0, MemorySize
<1>3. n = Capacity(call.conf, m, Path(stack, Len(stack) + 1))
  BY <1>0, SizeCapacity
<1>4. NeedsMemory(m) => Needs = bytes
  BY <1>3 DEF Needs, Own
<1>5. ~NeedsMemory(m) => Needs = 0
  BY DEF Needs, Own
<1>6. CASE Plain
  <2> DEFINE f == [Top EXCEPT !.at = "inner"]
  <2>1. /\ f \in Frames /\ f.ty = Top.ty /\ f.loc = Top.loc /\ f.at = "inner" /\ f.i = Top.i
        /\ f.used = Top.used /\ f.k = Top.k
    BY <1>1 DEF Frames
  <2>2. stack' = SetTop(f) /\ ~NeedsMemory(m) /\ UNCHANGED <<index, oom>>
    BY <1>6 DEF Plain
  <2> HIDE DEF f
  <2>3. Top.used + 0 = Top.used /\ index' - index = 0
    BY <1>1, <1>k, <2>2
  <2>s. Stored(f)
    BY <1>6, <2>2 DEF Plain, Stored
  <2>4. Entered(f)
    BY <1>5, <1>k, <2>1, <2>2, <2>3, <2>s DEF Entered, Same
  <2> QED BY <2>1, <2>4
<1>7. ASSUME NEW u \in Nat
      PROVE  LET f == [Top EXCEPT !.at = "inner", !.n = n, !.used = @ + u]
             IN  /\ f \in Frames /\ Same(f) /\ f.at = "inner" /\ f.i = Top.i
                 /\ f.used = Top.used + u /\ f.k = 0 /\ f.n = n /\ SetTop(f) = Sized(n, u)
  <2> DEFINE f == [Top EXCEPT !.at = "inner", !.n = n, !.used = @ + u]
  <2> HIDE DEF n
  <2>0. Top.used + u \in Nat
    BY <1>1
  <2>1. f \in Frames
    BY <1>1, <1>2, <2>0, FrameStep
  <2>2. /\ f.ty = Top.ty /\ f.loc = Top.loc /\ f.at = "inner" /\ f.i = Top.i
        /\ f.used = Top.used + u /\ f.k = Top.k /\ f.n = n
    BY <1>1 DEF Frames
  <2>3. SetTop(f) = Sized(n, u)
    BY DEF Sized
  <2> HIDE DEF f
  <2> QED BY <1>k, <2>1, <2>2, <2>3 DEF Same, f
<1>8. CASE Count
  <2> DEFINE f == [Top EXCEPT !.at = "inner", !.n = n, !.used = @ + bytes]
  <2>1. /\ stack' = Sized(n, bytes) /\ NeedsMemory(m) /\ UNCHANGED <<index, oom>>
        /\ op \in {"dynamic_size", "destroy"}
    BY <1>8 DEF Count
  <2>2. /\ f \in Frames /\ Same(f) /\ f.at = "inner" /\ f.i = Top.i
        /\ f.used = Top.used + bytes /\ f.k = 0 /\ f.n = n /\ SetTop(f) = Sized(n, bytes)
    BY <1>2, <1>7
  <2> HIDE DEF f, bytes, n
  <2>s. Stored(f)
    BY <1>8 DEF Count, Stored
  <2>3. Entered(f)
    BY <1>3, <1>4, <2>1, <2>2, <2>s DEF Entered
  <2> QED BY <2>2, <2>3
<1>9. CASE Preallocate
  <2> DEFINE u == index' - index
             f == [Top EXCEPT !.at = "inner", !.n = n, !.used = @ + u]
  <2>1. /\ index' = Aligned(index) + bytes /\ stack' = Sized(n, index' - index)
        /\ NeedsMemory(m) /\ UNCHANGED oom /\ op \in {"create_static", "static_size"}
    BY <1>9 DEF Preallocate
  <2>2. Aligned(index) \in Nat /\ Aligned(index) >= index
    BY <1>k, AlignedUp
  <2> HIDE DEF bytes
  <2>3. u \in Nat
    BY <1>2, <1>k, <2>1, <2>2
  <2>4. /\ f \in Frames /\ Same(f) /\ f.at = "inner" /\ f.i = Top.i
        /\ f.used = Top.used + u /\ f.k = 0 /\ f.n = n /\ SetTop(f) = Sized(n, u)
    BY <1>7, <2>3
  <2>s. Stored(f)
    BY <1>9, <2>4 DEF Preallocate, Stored
  <2> HIDE DEF f, n
  <2>5. Entered(f)
    BY <1>3, <1>4, <2>1, <2>4, <2>s DEF Entered
  <2> QED BY <2>4, <2>5
<1>10. CASE Allocate
  <2>0. NeedsMemory(m) /\ op = "create" /\ UNCHANGED index
    BY <1>10 DEF Allocate
  <2>1. CASE /\ stack' = Sized(n, bytes) /\ UNCHANGED oom /\ Free # {}
             /\ heap' = With(FirstFree, bytes, << >>)
             /\ fields' = Assigned(<<"heap", FirstFree>>, n)
    <3> DEFINE f == [Top EXCEPT !.at = "inner", !.n = n, !.used = @ + bytes]
    <3>1. /\ f \in Frames /\ Same(f) /\ f.at = "inner" /\ f.i = Top.i
          /\ f.used = Top.used + bytes /\ f.k = 0 /\ f.n = n /\ SetTop(f) = Sized(n, bytes)
      BY <1>2, <1>7
    <3> HIDE DEF f, bytes, n
    <3>s. Stored(f)
      BY <1>4, <2>0, <2>1, <3>1 DEF Stored
    <3>2. Entered(f)
      BY <1>3, <1>4, <2>0, <2>1, <3>1, <3>s DEF Entered
    <3> QED BY <3>1, <3>2
  <2>2. CASE /\ stack' = Pop(0) /\ UNCHANGED <<heap, fields>>
             /\ oom' = IF oom = "lost" \/ bytes > 0 THEN "lost" ELSE "empty"
    BY <1>4, <1>10, <2>0, <2>2
  <2> QED BY <1>10, <2>1, <2>2 DEF Allocate
<1> QED BY <1>6, <1>8, <1>9, <1>10
-----------------------------------------------------------------------------
\* Every step keeps the frames nested.

LEMMA NestKept ==
    ASSUME NestInv, stack # << >>, UNCHANGED callVars, stack' # << >>,
           Nested(stack', call.conf), stack'[1].ty = stack[1].ty
    PROVE  NestInv'
<1>1. call' = call /\ op' = op
  BY DEF callVars
<1> QED BY <1>1 DEF NestInv

LEMMA NestSame ==
    ASSUME NestInv, UNCHANGED callVars, UNCHANGED stack, stack # << >> \/ fault' = fault
    PROVE  NestInv'
<1>1. call' = call /\ op' = op
  BY DEF callVars
<1> QED BY <1>1 DEF NestInv

LEMMA SetTopNest ==
    ASSUME TypeInv, NestInv, stack # << >>, UNCHANGED callVars, NEW f \in Frames,
           stack' = SetTop(f), Same(f), f.at # "done",
           Placed(call.conf, f, Path(stack, Len(stack)))
    PROVE  NestInv'
<1>1. StackOK(stack) /\ Nested(stack, call.conf)
  BY DEF TypeInv, NestInv
<1>2. Nested(stack', call.conf) /\ stack'[1].ty = stack[1].ty
  BY <1>1, SetTopNested DEF Same
<1>3. stack' # << >>
  <2>1. Len(stack') = Len(stack) /\ Len(stack) \in Nat \ {0}
    BY <1>1, SetTopFrames, TopFrame DEF StackOK
  <2> QED BY <2>1
<1> QED BY <1>2, <1>3, NestKept

LEMMA PopNest ==
    ASSUME TypeInv, NestInv, stack # << >>, UNCHANGED callVars, NEW u \in Nat, stack' = Pop(u)
    PROVE  NestInv'
<1>1. StackOK(stack) /\ Nested(stack, call.conf) /\ Len(stack) \in Nat \ {0}
  BY TopFrame DEF TypeInv, NestInv
<1>2. Nested(stack', call.conf) /\ stack'[1].ty = stack[1].ty
  BY <1>1, PopNested
<1>3. stack' # << >>
  <2>1. Len(stack') = IF Len(stack) = 1 THEN 1 ELSE Len(stack) - 1
    BY <1>1, PopFrames DEF StackOK
  <2>2. Len(stack') # 0
    BY <1>1, <2>1
  <2> QED BY <2>2
<1> QED BY <1>2, <1>3, NestKept

LEMMA WalkNest ==
    ASSUME TypeInv, NameInv, NestInv,
           PushName \/ Plain \/ Allocate \/ Preallocate \/ Count \/ Descend \/ Release
              \/ PopName \/ Return
    PROVE  NestInv'
<1>0. stack # << >> /\ UNCHANGED callVars /\ StackOK(stack)
  BY DEF PushName, Plain, Allocate, Preallocate, Count, Descend, Release, PopName, Return,
         Walking, TypeInv
<1>1. CASE UNCHANGED stack
  BY <1>0, <1>1, NestSame
<1>2. CASE PushName
  BY <1>0, <1>1, <1>2, PushNameFrame, SetTopNest DEF Placed
<1>3. CASE Plain \/ Allocate \/ Preallocate \/ Count
  <2>1. CASE stack' = Pop(0)
    BY <1>0, <2>1, PopNest
  <2>2. ASSUME NEW f \in Frames, Entered(f) PROVE NestInv'
    <3>0. Walking("memory")
      BY <1>3 DEF Plain, Allocate, Preallocate, Count
    <3> DEFINE q == Path(stack, Len(stack) + 1)
    <3>1. /\ m = Item(Top) /\ m \in MessageMember /\ call.conf \in Confs
          /\ q = Append(Path(stack, Len(stack)), m.name)
      BY <3>0, PlaceFinds, WalkFinds
    <3> HIDE DEF q
    <3>2. Repeats(call.conf, m, q) \in Nat
      BY <3>1, CapacityNat
    <3>3. Item(f) = m
      BY <2>2, <3>1 DEF Entered, Same, Item
    <3>4. f.at = "inner" /\ f.k = 0 /\ (NeedsMemory(m) => f.n = Capacity(call.conf, m, q))
      BY <2>2 DEF Entered, q
    <3>5. Placed(call.conf, f, Path(stack, Len(stack)))
      BY <3>1, <3>2, <3>3, <3>4 DEF Placed
    <3> QED BY <1>0, <2>2, <3>5, SetTopNest DEF Entered
  <2> QED BY <1>3, <2>1, <2>2, MemoryFrame
<1>4. CASE Descend
  <2>0. Walking("inner") /\ Top.k < Times
    BY <1>4 DEF Descend
  <2> DEFINE q == Path(stack, Len(stack) + 1)
  <2>1. /\ m = Item(Top) /\ m \in MessageMember /\ call.conf \in Confs /\ Top.at = "inner"
        /\ Nested(stack, call.conf)
        /\ q = Append(Path(stack, Len(stack)), m.name) /\ Top.k \in Nat
        /\ Placed(call.conf, Top, Path(stack, Len(stack)))
    BY <2>0, PlaceFinds, WalkFinds
  <2> HIDE DEF q
  <2>2. /\ Repeats(call.conf, m, q) \in Nat
        /\ NeedsMemory(m) => Top.n = Capacity(call.conf, m, q)
    BY <2>1, CapacityNat DEF Placed
  <2>3. Times = Repeats(call.conf, m, q) /\ Composed(m)
    BY <2>0, <2>1, <2>2 DEF Times, Repeats, NeedsMemory
  <2>4. ASSUME NEW f \in Frames, NEW g \in Frames, stack' = Append(SetTop(f), g), Same(f),
               f.at = "inner", f.i = Top.i, f.n = Top.n, f.k = Top.k + 1,
               g.ty = m.type, g.at = "name"
        PROVE  NestInv'
    <3>1. Item(f) = m /\ f.ty = Top.ty
      BY <2>1, <2>4 DEF Same, Item
    <3>2. f.k <= Repeats(call.conf, m, q) /\ f.k >= 1
      BY <2>0, <2>1, <2>2, <2>3, <2>4
    <3>3. Placed(call.conf, f, Path(stack, Len(stack))) /\ Under(f, g)
      BY <2>1, <2>2, <2>3, <2>4, <3>1, <3>2 DEF Placed, Under
    <3>4. Nested(stack', call.conf) /\ stack'[1].ty = stack[1].ty
      BY <1>0, <2>1, <2>4, <3>1, <3>3, PushNested
    <3>5. stack' # << >>
      <4>1. SetTop(f) \in Seq(Frames)
        BY <1>0, SetTopFrames DEF StackOK
      <4> QED BY <2>4, <4>1
    <3> QED BY <1>0, <3>4, <3>5, NestKept
  <2> QED BY <1>1, <1>4, <2>4, DescendFrame
<1>5. CASE Release
  <2>0. Walking("inner") /\ Top.k = Times
    BY <1>5 DEF Release
  <2>1. Placed(call.conf, Top, Path(stack, Len(stack))) /\ Top.at = "inner"
    BY <2>0, PlaceFinds, WalkFinds
  <2>2. ASSUME NEW f \in Frames, stack' = SetTop(f), Same(f), f.at = "pop", f.i = Top.i,
               f.n = Top.n, f.k = Top.k
        PROVE  NestInv'
    <3>1. m = Item(Top) /\ Path(stack, Len(stack) + 1) = Append(Path(stack, Len(stack)), m.name)
      BY <2>0, PlaceFinds
    <3>2. NeedsMemory(m) => Top.n = Capacity(call.conf, m, Append(Path(stack, Len(stack)), m.name))
      BY <2>1, <3>1 DEF Placed
    <3>3. Top.k = Repeats(call.conf, m, Append(Path(stack, Len(stack)), m.name))
      BY <2>0, <3>2 DEF Times, Repeats, NeedsMemory
    <3>4. Item(f) = m
      BY <2>2, <3>1 DEF Item, Same
    <3>5. Placed(call.conf, f, Path(stack, Len(stack)))
      BY <2>1, <2>2, <3>1, <3>3, <3>4 DEF Placed
    <3> QED BY <1>0, <2>2, <3>5, SetTopNest
  <2> QED BY <1>1, <1>5, <2>2, ReleaseFrame
<1>6. CASE PopName
  BY <1>0, <1>1, <1>6, PopNameFrame, SetTopNest DEF Placed
<1>7. CASE Return
  <2>1. stack' = Pop(Top.used) /\ Top.used \in Nat
    BY <1>0, <1>7, TopFrame DEF Return, Frames
  <2> QED BY <1>0, <2>1, PopNest
<1> QED BY <1>2, <1>3, <1>4, <1>5, <1>6, <1>7

\* A walk begins with one frame, at the first member of the root.
LEMMA FirstFrame ==
    ASSUME NEW o, NEW root, NEW rules, Walk(o, root, rules)
    PROVE  /\ op' = o
           /\ \/ UNCHANGED stack /\ fault' = "null"
              \/ /\ Len(stack') = 1 /\ stack' # << >> /\ UNCHANGED fault
                 /\ stack'[1].ty = root /\ stack'[1].at = "name" /\ stack'[1].i = 1
                 /\ stack'[1].used = 0
                 /\ stack'[1].loc = IF o \in {"dynamic_size", "static_size"} THEN <<Null>>
                                    ELSE <<Message>>
<1>1. ASSUME NEW loc, NEW name, stack' = <<Frame(root, loc, name)>>
      PROVE  /\ Len(stack') = 1 /\ stack' # << >> /\ stack'[1].loc = loc
             /\ stack'[1].ty = root /\ stack'[1].at = "name" /\ stack'[1].i = 1
             /\ stack'[1].used = 0
  BY <1>1 DEF Frame
<1> QED BY <1>1 DEF Walk

LEMMA FirstNest ==
    ASSUME TypeInv, stack = << >>, NEW o, NEW root, NEW rules, Walk(o, root, rules),
           call'.root = root, o \in {FirstWalk(call'.api), call'.api}, call' # Idle
    PROVE  NestInv'
<1>1. op' = o
  BY FirstFrame
<1>2. CASE UNCHANGED stack /\ fault' = "null"
  BY <1>1, <1>2 DEF NestInv
<1>3. CASE /\ Len(stack') = 1 /\ stack' # << >>
           /\ stack'[1].ty = root /\ stack'[1].at = "name"
  <2>1. (\A j \in 1..Len(stack') : j = 1) /\ 1..(Len(stack') - 1) = {}
    BY <1>3
  <2>2. Nested(stack', call'.conf)
    BY <1>3, <2>1 DEF Nested, Placed
  <2> QED BY <1>1, <1>3, <2>2 DEF NestInv
<1> QED BY <1>2, <1>3, FirstFrame

LEMMA LibraryNest ==
    ASSUME TypeInv, NestInv, Sizes \/ Create \/ CreateStatic \/ Destroy \/ SecondWalk \/ EndWalk
    PROVE  NestInv'
<1>1. CASE Sizes \/ Create \/ CreateStatic \/ Destroy
  <2>1. PICK c \in Calls : Call(c.api, c.root, c.conf, c.len)
    BY <1>1, CallTypes
  <2>2. /\ stack = << >> /\ Walk(FirstWalk(c.api), c.root, c.conf.rules)
        /\ call' = [api |-> c.api, root |-> c.root, conf |-> c.conf, len |-> c.len]
    BY <2>1 DEF Call, TypeInv, CallOK
  <2>3. call'.root = c.root /\ call'.api = c.api /\ call' # Idle
    BY <2>2 DEF Calls, Apis, Idle
  <2> QED BY <2>2, <2>3, FirstNest
<1>2. CASE SecondWalk
  <2>1. stack = << >> /\ call # Idle /\ fault = "none"
    BY <1>2 DEF SecondWalk
  <2>2. CASE call' = Idle /\ UNCHANGED walkVars /\ UNCHANGED op
    BY <2>1, <2>2 DEF NestInv, walkVars
  <2>3. CASE Walk(call.api, call.root, call.conf.rules) /\ UNCHANGED call
    BY <2>1, <2>3, FirstNest
  <2> QED BY <1>2, <2>2, <2>3 DEF SecondWalk
<1>3. CASE EndWalk
  <2>1. stack # << >> /\ call \in Calls
    BY <1>3 DEF EndWalk, TypeInv, CallOK
  <2>2. CASE Fault("name") /\ UNCHANGED callVars
    BY <2>1, <2>2, NestSame DEF Fault
  <2>3. CASE stack' = << >> /\ op' = "none" /\ call' = Idle
    BY <2>3 DEF NestInv
  <2>4. CASE /\ stack' = << >> /\ op' = "none" /\ UNCHANGED call
             /\ op = FirstWalk(call.api) /\ op # call.api
    <3>1. call.api \in {"create", "create_static", "destroy"}
      BY <2>1, <2>4 DEF FirstWalk, Calls, Apis
    <3>2. call # Idle
      BY <2>1 DEF Calls, Apis, Idle
    <3> QED BY <2>4, <3>1, <3>2 DEF NestInv
  <2> QED BY <1>3, <2>2, <2>3, <2>4 DEF EndWalk
<1> QED BY <1>1, <1>2, <1>3

LEMMA NestStep == TypeInv /\ NameInv /\ NestInv /\ [Next]_vars => NestInv'
<1> SUFFICES ASSUME TypeInv, NameInv, NestInv, [Next]_vars PROVE NestInv'
  OBVIOUS
<1>1. CASE UNCHANGED vars
  BY <1>1, NestSame DEF vars, walkVars
<1> QED BY <1>1, WalkNest, LibraryNest DEF Next

LEMMA NestInvariance == ~Moves => (Spec => []NestInv)
<1> SUFFICES ASSUME ~Moves PROVE Spec => []NestInv
  OBVIOUS
<1>1. Init => NestInv
  BY DEF Init, NestInv
<1>2. TypeInv /\ NameInv /\ NestInv /\ [Next]_vars => NestInv'
  BY NestStep
<1> QED BY <1>1, <1>2, TypeInvariance, NameInvariance, PTL DEF Spec
-----------------------------------------------------------------------------
\* The bytes of a message, as a recursive definition over its type.

Places == Confs \X Seq(STRING) \X (DOMAIN Types) \X Nat

\* f counts, for a configuration, a path and a type, the bytes of the members from
\* the i-th on.
Measures(f) ==
    /\ f \in [Places -> Nat]
    /\ \A c \in Confs, p \in Seq(STRING), t \in DOMAIN Types, i \in Nat :
          /\ i > Len(Types[t]) => f[<<c, p, t, i>>] = 0
          /\ i \in 1..Len(Types[t]) =>
                LET x == Types[t][i]
                    q == Append(p, x.name)
                IN  f[<<c, p, t, i>>] =
                      Own(c, x, q)
                      + Repeats(c, x, q) * (IF Composed(x) THEN f[<<c, q, x.type, 1>>] ELSE 0)
                      + f[<<c, p, t, i + 1>>]

Measured == \E f : Measures(f)
Bytes(c, p, t, i) == (CHOOSE f : Measures(f))[<<c, p, t, i>>]

\* The bytes of one message that a member contains.
Inner(c, x, q) == IF Composed(x) THEN Bytes(c, q, x.type, 1) ELSE 0

LEMMA BytesSum ==
    ASSUME Measured, NEW c \in Confs, NEW p \in Seq(STRING), NEW t \in DOMAIN Types,
           NEW i \in Nat
    PROVE  /\ Bytes(c, p, t, i) \in Nat
           /\ i > Len(Types[t]) => Bytes(c, p, t, i) = 0
           /\ i \in 1..Len(Types[t]) =>
                 LET x == Types[t][i]
                     q == Append(p, x.name)
                 IN  Bytes(c, p, t, i) =
                       Own(c, x, q) + Repeats(c, x, q) * Inner(c, x, q) + Bytes(c, p, t, i + 1)
<1> DEFINE f == CHOOSE f : Measures(f)
<1>1. Measures(f)
  BY DEF Measured
<1>2. ASSUME NEW d, NEW y, NEW r, NEW k PROVE Bytes(d, y, r, k) = f[<<d, y, r, k>>]
  BY DEF Bytes
<1>3. <<c, p, t, i>> \in Places
  BY DEF Places
<1> HIDE DEF f
<1>4. Bytes(c, p, t, i) \in Nat
  BY <1>1, <1>2, <1>3 DEF Measures
<1>5. i > Len(Types[t]) => Bytes(c, p, t, i) = 0
  BY <1>1, <1>2 DEF Measures
<1>6. ASSUME i \in 1..Len(Types[t])
      PROVE  LET x == Types[t][i]
                 q == Append(p, x.name)
             IN  Bytes(c, p, t, i) =
                   Own(c, x, q) + Repeats(c, x, q) * Inner(c, x, q) + Bytes(c, p, t, i + 1)
  <2> DEFINE x == Types[t][i]
             q == Append(p, x.name)
  <2>1. f[<<c, p, t, i>>] =
           Own(c, x, q)
           + Repeats(c, x, q) * (IF Composed(x) THEN f[<<c, q, x.type, 1>>] ELSE 0)
           + f[<<c, p, t, i + 1>>]
    BY <1>1, <1>6 DEF Measures
  <2>2. Inner(c, x, q) = IF Composed(x) THEN f[<<c, q, x.type, 1>>] ELSE 0
    BY <1>2 DEF Inner
  <2> HIDE DEF x, q
  <2>3. Bytes(c, p, t, i) =
           Own(c, x, q) + Repeats(c, x, q) * Inner(c, x, q) + Bytes(c, p, t, i + 1)
    BY <1>2, <2>1, <2>2
  <2> QED BY <2>3 DEF x, q
<1> QED BY <1>4, <1>5, <1>6

\* What a frame has still to count, the message it is walking for not included.
Left(c, f, p) ==
    LET x == Item(f)
        q == Append(p, x.name)
    IN  IF f.at \in {"name", "memory"} THEN Bytes(c, p, f.ty, f.i)
        ELSE IF f.at = "inner"
        THEN (Repeats(c, x, q) - f.k) * Inner(c, x, q) + Bytes(c, p, f.ty, f.i + 1)
        ELSE IF f.at = "pop" THEN Bytes(c, p, f.ty, f.i + 1)
        ELSE 0

\* What frame j has counted and will count, and what it ought to.
Sum(c, s, j) ==
    s[j].used + Left(c, s[j], Path(s, j))
    + (IF j < Len(s) THEN Inner(c, Item(s[j]), Path(s, j + 1)) ELSE 0)
Whole(c, s, j) == Bytes(c, Path(s, j), s[j].ty, 1)

AtMost(c, s) == \A j \in 1..Len(s) : Sum(c, s, j) <= Whole(c, s, j)
Exact(c, s) == \A j \in 1..Len(s) : Sum(c, s, j) = Whole(c, s, j)
Short(c, s) == \E j \in 1..Len(s) : Sum(c, s, j) < Whole(c, s, j)

LEMMA LeftNat ==
    ASSUME Measured, NEW c \in Confs, NEW f \in Frames, FrameOK(f), NEW p \in Seq(STRING),
           Placed(c, f, p)
    PROVE  /\ Left(c, f, p) \in Nat /\ Bytes(c, p, f.ty, 1) \in Nat
           /\ Within(f) => Inner(c, Item(f), Append(p, Item(f).name)) \in Nat
<1> DEFINE x == Item(f)
           q == Append(p, x.name)
<1>0. f.ty \in DOMAIN Types /\ f.i \in Nat /\ f.i + 1 \in Nat /\ f.k \in Nat /\ 1 \in Nat
      /\ f.at \in {"name", "memory", "inner", "pop", "done"}
  BY DEF Frames
<1>1. /\ Bytes(c, p, f.ty, f.i) \in Nat /\ Bytes(c, p, f.ty, f.i + 1) \in Nat
      /\ Bytes(c, p, f.ty, 1) \in Nat
  BY <1>0, BytesSum
<1>2. ASSUME Within(f) PROVE /\ x \in MessageMember /\ Inner(c, x, q) \in Nat
                             /\ Repeats(c, x, q) \in Nat
  <2>1. x \in MessageMember /\ x.name \in STRING
    BY <1>2, ItemType
  <2> HIDE DEF x
  <2>2. q \in Seq(STRING)
    BY <2>1, AppendProperties
  <2>3. Inner(c, x, q) \in Nat
    <3>1. CASE Composed(x)
      <4>1. x.type \in DOMAIN Types
        BY <3>1 DEF Composed
      <4> HIDE DEF q
      <4> QED BY <1>0, <2>2, <3>1, <4>1, BytesSum DEF Inner
    <3>2. CASE ~Composed(x)
      BY <3>2 DEF Inner
    <3> QED BY <3>1, <3>2
  <2> QED BY <2>1, <2>3, CapacityNat
<1> HIDE DEF x, q
<1>3. CASE f.at = "inner"
  <2>1. Within(f)
    BY <1>3 DEF FrameOK, Within
  <2>2. f.k <= Repeats(c, x, q)
    BY <1>3 DEF Placed, x, q
  <2>3. Inner(c, x, q) \in Nat /\ Repeats(c, x, q) \in Nat
    BY <1>2, <2>1
  <2>4. Repeats(c, x, q) - f.k \in Nat
    BY <1>0, <2>2, <2>3
  <2>5. (Repeats(c, x, q) - f.k) * Inner(c, x, q) \in Nat
    BY <2>3, <2>4, ProductNat
  <2>6. Left(c, f, p) = (Repeats(c, x, q) - f.k) * Inner(c, x, q) + Bytes(c, p, f.ty, f.i + 1)
    BY <1>3 DEF Left, x, q
  <2>7. Left(c, f, p) \in Nat
    BY <1>1, <2>5, <2>6
  <2> QED BY <1>1, <1>2, <2>7 DEF x, q
<1>4. CASE f.at # "inner"
  <2>1. Left(c, f, p) \in {Bytes(c, p, f.ty, f.i), Bytes(c, p, f.ty, f.i + 1), 0}
    BY <1>4 DEF Left
  <2> QED BY <1>1, <1>2, <2>1 DEF x, q
<1> QED BY <1>3, <1>4
-----------------------------------------------------------------------------
LEMMA SumNat ==
    ASSUME Measured, StackOK(stack), stack # << >>, NEW c \in Confs, Nested(stack, c),
           NEW j \in 1..Len(stack)
    PROVE  /\ Sum(c, stack, j) \in Nat /\ Whole(c, stack, j) \in Nat
           /\ Left(c, stack[j], Path(stack, j)) \in Nat /\ stack[j].used \in Nat
           /\ j < Len(stack) => Inner(c, Item(stack[j]), Path(stack, j + 1)) \in Nat
<1>1. Len(stack) \in Nat \ {0} /\ stack[j] \in Frames /\ FrameOK(stack[j])
  BY TopFrame, ElementOfSeq DEF StackOK
<1>2. /\ Path(stack, j) \in Seq(STRING)
      /\ j < Len(stack) => Path(stack, j + 1) = Append(Path(stack, j), Item(stack[j]).name)
  BY NestedPath
<1>3. Placed(c, stack[j], Path(stack, j))
  BY DEF Nested
<1>4. ASSUME j < Len(stack) PROVE Within(stack[j])
  <2>1. j \in 1..(Len(stack) - 1)
    BY <1>1, <1>4
  <2>2. stack[j].at = "inner"
    BY <2>1 DEF Nested, Under
  <2> QED BY <1>1, <2>2 DEF FrameOK, Within
<1>5. /\ Left(c, stack[j], Path(stack, j)) \in Nat
      /\ Bytes(c, Path(stack, j), stack[j].ty, 1) \in Nat
      /\ Within(stack[j]) => Inner(c, Item(stack[j]), Append(Path(stack, j), Item(stack[j]).name)) \in Nat
  BY <1>1, <1>2, <1>3, LeftNat
<1>6. j < Len(stack) => Inner(c, Item(stack[j]), Path(stack, j + 1)) \in Nat
  BY <1>2, <1>4, <1>5
<1>7. stack[j].used \in Nat
  BY <1>1 DEF Frames
<1> QED BY <1>5, <1>6, <1>7 DEF Sum, Whole

LEMMA SetTopSum ==
    ASSUME StackOK(stack), stack # << >>, NEW c, NEW f \in Frames, Same(f)
    PROVE  /\ Len(SetTop(f)) = Len(stack)
           /\ \A j \in 1..Len(stack) : Whole(c, SetTop(f), j) = Whole(c, stack, j)
           /\ \A j \in 1..(Len(stack) - 1) : Sum(c, SetTop(f), j) = Sum(c, stack, j)
           /\ Sum(c, SetTop(f), Len(stack)) = f.used + Left(c, f, Path(stack, Len(stack))) + 0
<1> DEFINE s == SetTop(f)
           n == Len(stack)
<1>1. /\ n \in Nat \ {0} /\ Len(s) = n /\ s[n] = f /\ stack[n] = Top
      /\ \A j \in 1..(n - 1) : s[j] = stack[j]
  BY TopFrame, SetTopFrames DEF StackOK, Top
<1>2. ASSUME NEW j \in 1..n PROVE Path(s, j) = Path(stack, j)
  <2>1. j \in 1..(Len(stack) + 1) /\ j <= Len(stack)
    BY <1>1
  <2>2. j <= Len(stack) \/ (f.ty = Top.ty /\ f.i = Top.i)
    BY <2>1
  <2> QED BY <2>1, <2>2, SetTopPaths
<1> HIDE DEF s
<1>3. ASSUME NEW j \in 1..n PROVE s[j].ty = stack[j].ty
  <2>1. CASE j = n
    BY <1>1, <2>1 DEF Same
  <2>2. CASE j # n
    BY <1>1, <2>2
  <2> QED BY <2>1, <2>2
<1>4. ASSUME NEW j \in 1..(n - 1) PROVE Sum(c, s, j) = Sum(c, stack, j)
  <2>1. j \in 1..n /\ j + 1 \in 1..n
    BY <1>1
  <2>2. s[j] = stack[j] /\ Path(s, j) = Path(stack, j) /\ Path(s, j + 1) = Path(stack, j + 1)
    BY <1>1, <1>2, <2>1
  <2> QED BY <1>1, <2>2 DEF Sum
<1>5. Sum(c, s, n) = f.used + Left(c, f, Path(stack, n)) + 0
  <2>1. n \in 1..n /\ ~(n < n)
    BY <1>1
  <2> QED BY <1>1, <1>2, <2>1 DEF Sum
<1> QED BY <1>1, <1>2, <1>3, <1>4, <1>5 DEF Whole, s

LEMMA PushSum ==
    ASSUME StackOK(stack), stack # << >>, NEW c, NEW f \in Frames, Same(f), f.i = Top.i,
           NEW g \in Frames
    PROVE  LET s == Append(SetTop(f), g)
               n == Len(stack)
           IN  /\ Len(s) = n + 1
               /\ \A j \in 1..n : Whole(c, s, j) = Whole(c, stack, j)
               /\ \A j \in 1..(n - 1) : Sum(c, s, j) = Sum(c, stack, j)
               /\ Sum(c, s, n) = f.used + Left(c, f, Path(stack, n))
                                 + Inner(c, Item(f), Path(stack, n + 1))
               /\ Sum(c, s, n + 1) = g.used + Left(c, g, Path(stack, n + 1)) + 0
               /\ Whole(c, s, n + 1) = Bytes(c, Path(stack, n + 1), g.ty, 1)
<1> DEFINE t == SetTop(f)
           s == Append(t, g)
           n == Len(stack)
<1>1. /\ n \in Nat \ {0} /\ t \in Seq(Frames) /\ Len(t) = n /\ t[n] = f /\ stack[n] = Top
      /\ \A j \in 1..(n - 1) : t[j] = stack[j]
  BY TopFrame, SetTopFrames DEF StackOK, Top
<1>2. ASSUME NEW j \in 1..(n + 1) PROVE Path(s, j) = Path(stack, j)
  BY PushPaths DEF Same
<1> HIDE DEF t
<1>3. Len(s) = n + 1 /\ s[n + 1] = g /\ \A j \in 1..n : s[j] = t[j]
  BY <1>1, PushFrames
<1> HIDE DEF s
<1>4. ASSUME NEW j \in 1..n PROVE s[j].ty = stack[j].ty
  <2>1. CASE j = n
    BY <1>1, <1>3, <2>1 DEF Same
  <2>2. CASE j # n
    BY <1>1, <1>3, <2>2
  <2> QED BY <2>1, <2>2
<1>5. ASSUME NEW j \in 1..(n - 1) PROVE Sum(c, s, j) = Sum(c, stack, j)
  <2>1. j \in 1..n /\ j \in 1..(n + 1) /\ j + 1 \in 1..(n + 1) /\ j < n /\ j < n + 1
    BY <1>1
  <2>2. s[j] = stack[j] /\ Path(s, j) = Path(stack, j) /\ Path(s, j + 1) = Path(stack, j + 1)
    BY <1>1, <1>2, <1>3, <2>1
  <2> QED BY <1>3, <2>1, <2>2 DEF Sum
<1>6. Sum(c, s, n) = f.used + Left(c, f, Path(stack, n)) + Inner(c, Item(f), Path(stack, n + 1))
  <2>1. n \in 1..n /\ n \in 1..(n + 1) /\ n + 1 \in 1..(n + 1) /\ n < n + 1
    BY <1>1
  <2>2. s[n] = f /\ Path(s, n) = Path(stack, n) /\ Path(s, n + 1) = Path(stack, n + 1)
    BY <1>1, <1>2, <1>3, <2>1
  <2> QED BY <1>3, <2>1, <2>2 DEF Sum
<1>7. /\ Sum(c, s, n + 1) = g.used + Left(c, g, Path(stack, n + 1)) + 0
      /\ Whole(c, s, n + 1) = Bytes(c, Path(stack, n + 1), g.ty, 1)
  <2>1. n + 1 \in 1..(n + 1) /\ ~(n + 1 < n + 1)
    BY <1>1
  <2>2. Path(s, n + 1) = Path(stack, n + 1)
    BY <1>2, <2>1
  <2> QED BY <1>3, <2>1, <2>2 DEF Sum, Whole
<1>8. \A j \in 1..n : Whole(c, s, j) = Whole(c, stack, j)
  <2>1. \A j \in 1..n : j \in 1..(n + 1)
    BY <1>1
  <2> QED BY <1>2, <1>4, <2>1 DEF Whole
<1> QED BY <1>3, <1>5, <1>6, <1>7, <1>8 DEF s, t

LEMMA PopSum ==
    ASSUME StackOK(stack), stack # << >>, NEW c, NEW u \in Nat
    PROVE  LET s == Pop(u)
               n == Len(stack)
           IN  /\ n = 1 => Len(s) = 1 /\ Sum(c, s, 1) = u + 0 + 0 /\ Whole(c, s, 1) = Whole(c, stack, 1)
               /\ n # 1 =>
                     /\ Len(s) = n - 1
                     /\ \A j \in 1..(n - 1) : Whole(c, s, j) = Whole(c, stack, j)
                     /\ \A j \in 1..(n - 2) : Sum(c, s, j) = Sum(c, stack, j)
                     /\ Sum(c, s, n - 1) = (stack[n - 1].used + u)
                            + Left(c, stack[n - 1], Path(stack, n - 1)) + 0
                     /\ Sum(c, stack, n - 1) = stack[n - 1].used
                            + Left(c, stack[n - 1], Path(stack, n - 1))
                            + Inner(c, Item(stack[n - 1]), Path(stack, n))
<1> DEFINE s == Pop(u)
           n == Len(stack)
<1>1. n \in Nat \ {0} /\ Top \in Frames /\ \A j \in 1..n : stack[j] \in Frames
  BY TopFrame, ElementOfSeq DEF StackOK
<1>p. ASSUME NEW j \in 1..n PROVE Path(s, j) = Path(stack, j)
  BY PopPaths
<1>2. CASE n = 1
  <2>1. Len(s) = 1 /\ s[1] = [Top EXCEPT !.at = "done", !.used = u]
    BY <1>2, PopFrames DEF StackOK
  <2>2. s[1].at = "done" /\ s[1].ty = stack[1].ty /\ s[1].used = u
    BY <1>1, <1>2, <2>1 DEF Frames, Top
  <2>3. Path(s, 1) = Path(stack, 1)
    BY <1>2, <1>p
  <2> HIDE DEF s
  <2>4. Left(c, s[1], Path(s, 1)) = 0
    BY <2>2 DEF Left
  <2>5. ~(1 < 1)
    OBVIOUS
  <2>6. Sum(c, s, 1) = u + 0 + 0
    BY <2>1, <2>2, <2>4, <2>5 DEF Sum
  <2>7. Whole(c, s, 1) = Whole(c, stack, 1)
    BY <2>2, <2>3 DEF Whole
  <2> QED BY <1>2, <2>1, <2>6, <2>7 DEF s
<1>3. CASE n # 1
  <2>z. n - 1 \in Nat \ {0} /\ n - 1 \in 1..n /\ n - 1 < n
    BY <1>1, <1>3, Before
  <2>0. n - 1 \in Nat \ {0} /\ n - 1 \in 1..n /\ n - 1 < n /\ (n - 1) + 1 = n
    BY <1>1, <2>z
  <2>1. /\ Len(s) = n - 1 /\ \A j \in 1..(n - 2) : s[j] = stack[j]
        /\ s[n - 1] = [stack[n - 1] EXCEPT !.used = @ + u]
    BY <1>3, PopFrames DEF StackOK
  <2>2. /\ s[n - 1].at = stack[n - 1].at /\ s[n - 1].ty = stack[n - 1].ty
        /\ s[n - 1].i = stack[n - 1].i /\ s[n - 1].k = stack[n - 1].k
        /\ s[n - 1].used = stack[n - 1].used + u
    <3>1. stack[n - 1] \in Frames
      BY <1>1, <2>0
    <3> QED BY <2>1, <3>1 DEF Frames
  <2> HIDE DEF s, n
  <2>3. ASSUME NEW j \in 1..(n - 1) PROVE Whole(c, s, j) = Whole(c, stack, j)
    <3>1. s[j].ty = stack[j].ty
      <4>1. j = n - 1 \/ j \in 1..(n - 2)
        BY <1>1
      <4> QED BY <2>1, <2>2, <4>1
    <3>2. j \in 1..n
      BY <1>1
    <3> QED BY <1>p, <3>1, <3>2 DEF Whole
  <2>4. ASSUME NEW j \in 1..(n - 2) PROVE Sum(c, s, j) = Sum(c, stack, j)
    <3>1. j \in 1..n /\ j + 1 \in 1..n /\ j < n /\ j < n - 1
      BY <1>1
    <3>2. s[j] = stack[j] /\ Path(s, j) = Path(stack, j) /\ Path(s, j + 1) = Path(stack, j + 1)
      BY <1>p, <2>1, <3>1
    <3> QED BY <2>1, <3>1, <3>2 DEF Sum, n
  <2>5. Left(c, s[n - 1], Path(s, n - 1)) = Left(c, stack[n - 1], Path(stack, n - 1))
    <3>1. Path(s, n - 1) = Path(stack, n - 1)
      BY <1>p, <2>0
    <3>2. Item(s[n - 1]) = Item(stack[n - 1])
      BY <2>2 DEF Item
    <3> QED BY <2>2, <3>1, <3>2 DEF Left
  <2>6. Sum(c, s, n - 1) = (stack[n - 1].used + u)
                            + Left(c, stack[n - 1], Path(stack, n - 1)) + 0
    <3>1. ~(n - 1 < n - 1)
      BY <2>0
    <3> QED BY <2>1, <2>2, <2>5, <3>1 DEF Sum
  <2>7. Sum(c, stack, n - 1) = stack[n - 1].used
                            + Left(c, stack[n - 1], Path(stack, n - 1))
                            + Inner(c, Item(stack[n - 1]), Path(stack, n))
    <3>1. Sum(c, stack, n - 1) = stack[n - 1].used
             + Left(c, stack[n - 1], Path(stack, n - 1))
             + Inner(c, Item(stack[n - 1]), Path(stack, (n - 1) + 1))
      BY <2>0 DEF Sum, n
    <3> QED BY <2>0, <3>1
  <2> QED BY <1>3, <2>1, <2>3, <2>4, <2>6, <2>7 DEF s, n
<1> QED BY <1>2, <1>3
-----------------------------------------------------------------------------
\* The innermost frame counts, and the balance stays what it was.
LEMMA SetTopBalance ==
    ASSUME StackOK(stack), stack # << >>, NEW c, NEW f \in Frames, Same(f),
           Sum(c, stack, Len(stack)) = f.used + Left(c, f, Path(stack, Len(stack))) + 0
    PROVE  /\ AtMost(c, stack) => AtMost(c, SetTop(f))
           /\ Exact(c, stack) => Exact(c, SetTop(f))
           /\ Short(c, stack) => Short(c, SetTop(f))
<1> DEFINE s == SetTop(f)
           n == Len(stack)
<1>1. /\ Len(s) = n
      /\ \A j \in 1..n : Whole(c, s, j) = Whole(c, stack, j)
      /\ \A j \in 1..(n - 1) : Sum(c, s, j) = Sum(c, stack, j)
      /\ Sum(c, s, n) = Sum(c, stack, n)
  BY SetTopSum
<1>2. n \in Nat \ {0}
  BY TopFrame
<1> HIDE DEF s, n
<1>3. ASSUME NEW j \in 1..n PROVE Sum(c, s, j) = Sum(c, stack, j)
  <2>1. j = n \/ j \in 1..(n - 1)
    BY <1>2
  <2> QED BY <1>1, <2>1
<1>4. /\ AtMost(c, stack) => AtMost(c, s)
      /\ Exact(c, stack) => Exact(c, s)
      /\ Short(c, stack) => Short(c, s)
  BY <1>1, <1>3 DEF AtMost, Exact, Short, n
<1> QED BY <1>4 DEF s

\* A frame is called, to count what the member contains.
LEMMA PushBalance ==
    ASSUME StackOK(stack), stack # << >>, NEW c, NEW f \in Frames, Same(f), f.i = Top.i,
           NEW g \in Frames,
           Sum(c, stack, Len(stack)) = f.used + Left(c, f, Path(stack, Len(stack)))
                                       + Inner(c, Item(f), Path(stack, Len(stack) + 1)),
           g.used + Left(c, g, Path(stack, Len(stack) + 1)) + 0
              = Bytes(c, Path(stack, Len(stack) + 1), g.ty, 1),
           Bytes(c, Path(stack, Len(stack) + 1), g.ty, 1) \in Nat
    PROVE  /\ AtMost(c, stack) => AtMost(c, Append(SetTop(f), g))
           /\ Exact(c, stack) => Exact(c, Append(SetTop(f), g))
           /\ Short(c, stack) => Short(c, Append(SetTop(f), g))
<1> DEFINE s == Append(SetTop(f), g)
           n == Len(stack)
<1>1. /\ Len(s) = n + 1
      /\ \A j \in 1..n : Whole(c, s, j) = Whole(c, stack, j)
      /\ \A j \in 1..(n - 1) : Sum(c, s, j) = Sum(c, stack, j)
      /\ Sum(c, s, n) = Sum(c, stack, n)
      /\ Sum(c, s, n + 1) = Whole(c, s, n + 1)
      /\ Whole(c, s, n + 1) \in Nat
  BY PushSum
<1>2. n \in Nat \ {0}
  BY TopFrame
<1> HIDE DEF s, n
<1>3. ASSUME NEW j \in 1..n PROVE Sum(c, s, j) = Sum(c, stack, j)
  <2>1. j = n \/ j \in 1..(n - 1)
    BY <1>2
  <2> QED BY <1>1, <2>1
<1>4. \A j \in 1..(n + 1) : j \in 1..n \/ j = n + 1
  BY <1>2
<1>5. \A j \in 1..n : j \in 1..(n + 1)
  BY <1>2
<1>6. Sum(c, s, n + 1) <= Whole(c, s, n + 1)
  BY <1>1
<1>7. AtMost(c, stack) => AtMost(c, s)
  BY <1>1, <1>3, <1>4, <1>6 DEF AtMost, n
<1>8. Exact(c, stack) => Exact(c, s)
  BY <1>1, <1>3, <1>4 DEF Exact, n
<1>9. Short(c, stack) => Short(c, s)
  BY <1>1, <1>3, <1>5 DEF Short, n
<1> QED BY <1>7, <1>8, <1>9 DEF s

\* A frame returns no more than it has counted: what is missing in it is then missing
\* in the frame that called it.
LEMMA PopBalance ==
    ASSUME Measured, StackOK(stack), stack # << >>, NEW c \in Confs, Nested(stack, c),
           NEW u \in Nat, u <= Sum(c, stack, Len(stack)), AtMost(c, stack)
    PROVE  /\ AtMost(c, Pop(u))
           /\ Exact(c, stack) /\ u = Sum(c, stack, Len(stack)) => Exact(c, Pop(u))
           /\ Short(c, stack) \/ u < Whole(c, stack, Len(stack)) => Short(c, Pop(u))
<1> DEFINE s == Pop(u)
           n == Len(stack)
<1>1. n \in Nat \ {0} /\ n \in 1..n
  BY TopFrame
<1>2. ASSUME NEW j \in 1..n
      PROVE  /\ Sum(c, stack, j) \in Nat /\ Whole(c, stack, j) \in Nat
             /\ Sum(c, stack, j) <= Whole(c, stack, j)
             /\ Left(c, stack[j], Path(stack, j)) \in Nat /\ stack[j].used \in Nat
             /\ j < n => Inner(c, Item(stack[j]), Path(stack, j + 1)) \in Nat
  BY SumNat DEF AtMost
<1>3. u <= Sum(c, stack, n) /\ Sum(c, stack, n) <= Whole(c, stack, n)
  BY <1>1, <1>2
<1>4. CASE n = 1
  <2>1. Len(s) = 1 /\ Sum(c, s, 1) = u + 0 + 0 /\ Whole(c, s, 1) = Whole(c, stack, 1)
    BY <1>4, PopSum
  <2>2. Sum(c, s, 1) = u
    BY <2>1
  <2> HIDE DEF s
  <2>3. Sum(c, s, 1) <= Whole(c, s, 1)
    BY <1>1, <1>2, <1>3, <1>4, <2>1, <2>2
  <2>4. \A j \in 1..1 : j = 1
    OBVIOUS
  <2>5. AtMost(c, s)
    BY <2>1, <2>3, <2>4 DEF AtMost
  <2>6. Exact(c, stack) /\ u = Sum(c, stack, n) => Exact(c, s)
    BY <1>1, <1>4, <2>1, <2>2, <2>4 DEF Exact
  <2>7. Short(c, stack) => u < Whole(c, stack, n)
    BY <1>1, <1>2, <1>3, <1>4, <2>4 DEF Short
  <2>8. u < Whole(c, stack, n) => Short(c, s)
    BY <1>4, <2>1, <2>2 DEF Short
  <2> QED BY <2>5, <2>6, <2>7, <2>8 DEF s
<1>5. CASE n # 1
  <2> DEFINE b == n - 1
             used == stack[b].used
             left == Left(c, stack[b], Path(stack, b))
             inner == Inner(c, Item(stack[b]), Path(stack, n))
  <2>0. b \in Nat \ {0} /\ b \in 1..n /\ b < n
    BY <1>1, <1>5, Before
  <2>z. b + 1 = n /\ b - 1 = n - 2
    BY <1>1
  <2>1. /\ Len(s) = b
        /\ \A j \in 1..b : Whole(c, s, j) = Whole(c, stack, j)
        /\ \A j \in 1..(b - 1) : Sum(c, s, j) = Sum(c, stack, j)
        /\ Sum(c, s, b) = (used + u) + left + 0
        /\ Sum(c, stack, b) = used + left + inner
    BY <1>5, <2>z, PopSum
  <2>2. inner = Whole(c, stack, n)
    <3>1. Composed(Item(stack[b])) /\ stack[n].ty = Item(stack[b]).type
      <4>1. b \in 1..(n - 1)
        BY <2>0
      <4>2. Under(stack[b], stack[b + 1])
        BY <4>1 DEF Nested
      <4> QED BY <2>z, <4>2 DEF Under
    <3> QED BY <3>1 DEF Inner, Whole
  <2>3. /\ used \in Nat /\ left \in Nat /\ inner \in Nat
        /\ Sum(c, stack, b) \in Nat /\ Sum(c, stack, b) <= Whole(c, stack, b)
        /\ Whole(c, stack, b) \in Nat /\ Whole(c, s, b) = Whole(c, stack, b)
    <3>1. Whole(c, stack, n) \in Nat
      BY <1>1, <1>2
    <3>2. b \in 1..b
      BY <2>0
    <3> QED BY <1>2, <2>0, <2>1, <2>2, <3>1, <3>2
  <2> HIDE DEF s, used, left, inner, b
  <2>4. Sum(c, s, b) \in Nat /\ Sum(c, s, b) + (inner - u) = Sum(c, stack, b)
    BY <2>1, <2>3
  <2>5. inner - u \in Nat /\ (u = inner <=> inner - u = 0)
    BY <1>3, <2>2, <2>3, <1>1, <1>2
  <2>6. \A j \in 1..b : j = b \/ j \in 1..(b - 1)
    BY <2>0
  <2>7. \A j \in 1..(b - 1) : j \in 1..n /\ j \in 1..b
    BY <2>0, <1>1
  <2>8. AtMost(c, s)
    <3>1. Sum(c, s, b) <= Whole(c, s, b)
      BY <2>3, <2>4, <2>5
    <3>2. ASSUME NEW j \in 1..(b - 1) PROVE Sum(c, s, j) <= Whole(c, s, j)
      BY <1>2, <2>1, <2>7
    <3> QED BY <2>1, <2>6, <3>1, <3>2 DEF AtMost
  <2>9. ASSUME Exact(c, stack), u = Sum(c, stack, n) PROVE Exact(c, s)
    <3>1. u = inner
      BY <1>1, <2>2, <2>9 DEF Exact
    <3>2. Sum(c, s, b) = Whole(c, s, b)
      BY <2>0, <2>3, <2>4, <2>5, <2>9, <3>1 DEF Exact
    <3>3. ASSUME NEW j \in 1..(b - 1) PROVE Sum(c, s, j) = Whole(c, s, j)
      BY <2>1, <2>7, <2>9 DEF Exact
    <3> QED BY <2>1, <2>6, <3>2, <3>3 DEF Exact
  <2>10. ASSUME u < Whole(c, stack, n) PROVE Short(c, s)
    <3>1. Sum(c, s, b) < Whole(c, s, b)
      BY <1>1, <1>2, <2>2, <2>3, <2>4, <2>5, <2>10
    <3>2. b \in 1..Len(s)
      BY <2>0, <2>1
    <3> QED BY <3>1, <3>2 DEF Short
  <2>11. ASSUME Short(c, stack) PROVE Short(c, s)
    <3>1. PICK j \in 1..n : Sum(c, stack, j) < Whole(c, stack, j)
      BY <2>11 DEF Short
    <3>2. CASE j = n
      <4>1. u < Whole(c, stack, n)
        BY <1>1, <1>2, <1>3, <3>1, <3>2
      <4> QED BY <2>10, <4>1
    <3>3. CASE j = b
      <4>1. Sum(c, s, b) < Whole(c, s, b)
        BY <2>3, <2>4, <2>5, <3>1, <3>3
      <4>2. b \in 1..Len(s)
        BY <2>0, <2>1
      <4> QED BY <4>1, <4>2 DEF Short
    <3>4. CASE j \in 1..(b - 1)
      <4>1. Sum(c, s, j) < Whole(c, s, j) /\ j \in 1..Len(s)
        BY <2>1, <2>7, <3>1, <3>4
      <4> QED BY <4>1 DEF Short
    <3> QED BY <1>1, <2>0, <2>z, <3>2, <3>3, <3>4
  <2> QED BY <2>8, <2>9, <2>10, <2>11 DEF s
<1> QED BY <1>4, <1>5
-----------------------------------------------------------------------------
\* The bytes are counted exactly; in create, a subtree that is given up is missing in
\* the frames below it.
BalInv ==
    /\ stack # << >> /\ op \in {"dynamic_size", "create", "destroy"} =>
          /\ AtMost(call.conf, stack)
          /\ op # "create" \/ oom = "no" => Exact(call.conf, stack)
          /\ op = "create" /\ oom = "lost" => Short(call.conf, stack)
    /\ call.api \in {"create", "destroy"} /\ op \in {"none", call.api} =>
          calculated = Bytes(call.conf, << >>, call.root, 1)
    /\ CreateHonest

\* In create, what is missing is never made good.
StaysShort == op = "create" /\ Short(call.conf, stack) => Short(call.conf, stack')

LEMMA BalKept ==
    ASSUME BalInv, stack # << >>, UNCHANGED callVars, UNCHANGED oom,
           AtMost(call.conf, stack) => AtMost(call.conf, stack'),
           Exact(call.conf, stack) => Exact(call.conf, stack'),
           Short(call.conf, stack) => Short(call.conf, stack')
    PROVE  BalInv' /\ StaysShort
<1>1. call' = call /\ op' = op /\ msg' = msg /\ calculated' = calculated
  BY DEF callVars
<1> QED BY <1>1 DEF BalInv, CreateHonest, StaysShort

LEMMA BalSame ==
    ASSUME BalInv, UNCHANGED callVars, UNCHANGED <<stack, oom>>
    PROVE  BalInv' /\ StaysShort
<1>1. call' = call /\ op' = op /\ msg' = msg /\ calculated' = calculated
  BY DEF callVars
<1> QED BY <1>1 DEF BalInv, CreateHonest, StaysShort

\* What a frame has still to count, step by step.
LEMMA LeftSteps ==
    ASSUME Measured, NEW c \in Confs, NEW f \in Frames, FrameOK(f), Within(f),
           NEW p \in Seq(STRING), Placed(c, f, p)
    PROVE  LET x == Item(f)
               q == Append(p, x.name)
           IN  /\ Repeats(c, x, q) \in Nat /\ Own(c, x, q) \in Nat /\ Inner(c, x, q) \in Nat
               /\ Bytes(c, p, f.ty, f.i + 1) \in Nat
               /\ Repeats(c, x, q) * Inner(c, x, q) \in Nat
               /\ Bytes(c, p, f.ty, f.i) =
                    Own(c, x, q) + Repeats(c, x, q) * Inner(c, x, q) + Bytes(c, p, f.ty, f.i + 1)
<1> DEFINE x == Item(f)
           q == Append(p, x.name)
<1>1. f.ty \in DOMAIN Types /\ f.i \in Nat /\ f.i + 1 \in Nat /\ Len(Types[f.ty]) \in Nat
  BY MessageAssumption, LenProperties DEF Frames, MessageAssumption
<1>2. f.i \in 1..Len(Types[f.ty])
  BY <1>1 DEF FrameOK, Within
<1>3. x \in MessageMember /\ Inner(c, x, q) \in Nat
  BY ItemType, LeftNat
<1>4. /\ Bytes(c, p, f.ty, f.i + 1) \in Nat
      /\ Bytes(c, p, f.ty, f.i) =
           Own(c, x, q) + Repeats(c, x, q) * Inner(c, x, q) + Bytes(c, p, f.ty, f.i + 1)
  BY <1>1, <1>2, BytesSum DEF Item
<1> HIDE DEF x, q
<1>5. Repeats(c, x, q) \in Nat /\ Own(c, x, q) \in Nat
  BY <1>3, CapacityNat, OwnNat
<1>6. Repeats(c, x, q) * Inner(c, x, q) \in Nat
  BY <1>3, <1>5, ProductNat
<1> QED BY <1>3, <1>4, <1>5, <1>6 DEF x, q

LEMMA OneLess ==
    ASSUME NEW a \in Nat, NEW k \in Nat, NEW b \in Nat
    PROVE  (a - (k + 1)) * b + b = (a - k) * b /\ (a - k) * b \in Int
           /\ (a - (k + 1)) * b \in Int /\ (a - a) * b = 0 /\ (a - 0) * b = a * b
<1>1. (a - (k + 1)) * b = (a - k) * b - b
  OBVIOUS
<1>2. (a - k) * b \in Int /\ (a - (k + 1)) * b \in Int
  OBVIOUS
<1>3. (a - a) * b = 0
  OBVIOUS
<1>4. (a - 0) * b = a * b
  OBVIOUS
<1> QED BY <1>1, <1>2, <1>3, <1>4

LEMMA WalkBal ==
    ASSUME Measured, TypeInv, NameInv, OwnInv, NestInv, BalInv,
           PushName \/ Plain \/ Allocate \/ Preallocate \/ Count \/ Descend \/ Release
              \/ PopName \/ Return
    PROVE  BalInv' /\ StaysShort
<1> DEFINE c == call.conf
           n == Len(stack)
           p == Path(stack, n)
           q == Path(stack, n + 1)
<1>0. /\ stack # << >> /\ UNCHANGED callVars /\ StackOK(stack) /\ call \in Calls
      /\ n \in Nat \ {0} /\ n \in 1..n /\ stack[n] = Top /\ Nested(stack, c)
      /\ Top \in Frames /\ FrameOK(Top) /\ fault = "none"
  <2>1. stack # << >> /\ UNCHANGED callVars /\ fault = "none"
    BY DEF PushName, Plain, Allocate, Preallocate, Count, Descend, Release, PopName, Return,
           Walking
  <2>2. StackOK(stack) /\ call \in Calls /\ Nested(stack, c)
    BY <2>1 DEF TypeInv, CallOK, NestInv
  <2> QED BY <2>1, <2>2, TopFrame DEF Top
<1>c. c \in Confs
  BY <1>0 DEF Calls
<1>s. /\ Sum(c, stack, n) = Top.used + Left(c, Top, p) + 0 /\ Sum(c, stack, n) \in Nat
      /\ Top.used \in Nat /\ Left(c, Top, p) \in Nat
  <2>1. ~(n < n)
    BY <1>0
  <2> QED BY <1>0, <1>c, <2>1, SumNat DEF Sum
<1>1. CASE UNCHANGED <<stack, oom>>
  BY <1>0, <1>1, BalSame
<1>2. ASSUME NEW f \in Frames, Same(f), stack' = SetTop(f), UNCHANGED oom,
             Sum(c, stack, n) = f.used + Left(c, f, p) + 0
      PROVE  BalInv' /\ StaysShort
  BY <1>0, <1>2, SetTopBalance, BalKept
<1>3. CASE PushName
  <2>1. UNCHANGED oom /\ Top.at = "name"
    BY <1>3 DEF PushName, Fault, Walking
  <2>2. ASSUME NEW f \in Frames, stack' = SetTop(f), Same(f), f.at = "memory",
               f.i = Top.i, f.used = Top.used
        PROVE  BalInv' /\ StaysShort
    <3>1. Left(c, f, p) = Left(c, Top, p)
      BY <2>1, <2>2 DEF Left, Same
    <3> QED BY <1>2, <1>s, <2>1, <2>2, <3>1
  <2> QED BY <1>1, <1>3, <2>1, <2>2, PushNameFrame
<1>w. ASSUME NEW at, Walking(at)
      PROVE  /\ m = Item(Top) /\ q = Append(p, m.name) /\ p \in Seq(STRING) /\ q \in Seq(STRING)
             /\ Repeats(c, m, q) \in Nat /\ Own(c, m, q) \in Nat /\ Inner(c, m, q) \in Nat
             /\ Bytes(c, p, Top.ty, Top.i + 1) \in Nat /\ Top.at = at
             /\ Repeats(c, m, q) * Inner(c, m, q) \in Nat
             /\ Bytes(c, p, Top.ty, Top.i) =
                  Own(c, m, q) + Repeats(c, m, q) * Inner(c, m, q) + Bytes(c, p, Top.ty, Top.i + 1)
  <2>1. /\ m = Item(Top) /\ q = Append(p, m.name) /\ p \in Seq(STRING) /\ q \in Seq(STRING)
        /\ Within(Top) /\ Placed(c, Top, p)
    BY <1>w, PlaceFinds
  <2>2. Top.at = at
    BY <1>w DEF Walking
  <2> HIDE DEF c, n, p, q
  <2> QED BY <1>0, <1>c, <2>1, <2>2, LeftSteps
<1>4. CASE Plain \/ Allocate \/ Preallocate \/ Count
  <2>0. Walking("memory")
    BY <1>4 DEF Plain, Allocate, Preallocate, Count
  <2>1. /\ m = Item(Top) /\ q = Append(p, m.name) /\ Top.at = "memory"
        /\ Repeats(c, m, q) \in Nat /\ Own(c, m, q) \in Nat /\ Inner(c, m, q) \in Nat
        /\ Bytes(c, p, Top.ty, Top.i + 1) \in Nat
        /\ Repeats(c, m, q) * Inner(c, m, q) \in Nat
        /\ Bytes(c, p, Top.ty, Top.i) =
             Own(c, m, q) + Repeats(c, m, q) * Inner(c, m, q) + Bytes(c, p, Top.ty, Top.i + 1)
    BY <1>w, <2>0
  <2>2. Left(c, Top, p) = Bytes(c, p, Top.ty, Top.i)
    BY <2>1 DEF Left
  <2>3. Needs = Own(c, m, q)
    BY DEF Needs
  <2>4. ASSUME NEW f \in Frames, Entered(f) PROVE BalInv' /\ StaysShort
    <3>1. /\ stack' = SetTop(f) /\ Same(f) /\ f.at = "inner" /\ f.i = Top.i /\ f.k = 0
          /\ UNCHANGED oom
      BY <2>4 DEF Entered
    <3>2. CASE op \in {"dynamic_size", "create", "destroy"}
      <4>1. f.used = Top.used + Own(c, m, q)
        BY <2>3, <2>4, <3>2 DEF Entered
      <4>2. Item(f) = m /\ f.ty = Top.ty
        BY <2>1, <3>1 DEF Item, Same
      <4>3. Left(c, f, p) = (Repeats(c, m, q) - 0) * Inner(c, m, q) + Bytes(c, p, Top.ty, Top.i + 1)
        BY <2>1, <3>1, <4>2 DEF Left
      <4> HIDE DEF c, n, p, q
      <4>4. (Repeats(c, m, q) - 0) * Inner(c, m, q) = Repeats(c, m, q) * Inner(c, m, q)
        BY <2>1, OneLess
      <4>5. Sum(c, stack, n) = f.used + Left(c, f, p) + 0
        BY <1>s, <2>1, <2>2, <4>1, <4>3, <4>4
      <4> QED BY <1>2, <3>1, <4>5
    <3>3. CASE op \notin {"dynamic_size", "create", "destroy"}
      <4>1. call' = call /\ op' = op /\ msg' = msg /\ calculated' = calculated
        BY <1>0 DEF callVars
      <4> QED BY <3>1, <3>3, <4>1 DEF BalInv, CreateHonest, StaysShort
    <3> QED BY <3>2, <3>3
  <2>5. CASE /\ Allocate /\ stack' = Pop(0)
             /\ oom' = IF oom = "lost" \/ Needs > 0 THEN "lost" ELSE "empty"
    <3>1. op = "create" /\ msg \in {"raw", "static"}
      BY <2>5 DEF Allocate, OwnInv
    <3>2. AtMost(c, stack) /\ (oom = "lost" => Short(c, stack))
      BY <1>0, <3>1 DEF BalInv
    <3>3. 0 <= Sum(c, stack, n) /\ 0 \in Nat
      BY <1>s
    <3>4. /\ AtMost(c, stack')
          /\ Short(c, stack) \/ 0 < Whole(c, stack, n) => Short(c, stack')
      BY <1>0, <1>c, <2>5, <3>2, <3>3, PopBalance
    <3>5. ASSUME Needs > 0 PROVE 0 < Whole(c, stack, n)
      <4>1. Sum(c, stack, n) <= Whole(c, stack, n) /\ Whole(c, stack, n) \in Nat
        BY <1>0, <1>c, <3>2, SumNat DEF AtMost
      <4> HIDE DEF c, n, p, q
      <4>2. Sum(c, stack, n) > 0
        BY <1>s, <2>1, <2>2, <2>3, <3>5
      <4> QED BY <1>s, <4>1, <4>2
    <3>6. oom' # "no" /\ (oom' = "lost" => Short(c, stack'))
      BY <2>5, <3>2, <3>4, <3>5
    <3>7. call' = call /\ op' = op /\ msg' = msg /\ calculated' = calculated
      BY <1>0 DEF callVars
    <3>8. StaysShort
      BY <3>4 DEF StaysShort
    <3>9. BalInv'
      BY <3>1, <3>4, <3>6, <3>7 DEF BalInv, CreateHonest
    <3> QED BY <3>8, <3>9
  <2> QED BY <1>4, <2>4, <2>5, MemoryFrame
<1>5. CASE Descend
  <2>0. Walking("inner") /\ Top.k < Times /\ UNCHANGED oom
    BY <1>5 DEF Descend, Fault
  <2>1. /\ m = Item(Top) /\ q = Append(p, m.name) /\ q \in Seq(STRING) /\ Top.at = "inner"
        /\ Repeats(c, m, q) \in Nat /\ Inner(c, m, q) \in Nat
        /\ Bytes(c, p, Top.ty, Top.i + 1) \in Nat
    BY <1>w, <2>0
  <2>c. Composed(m) /\ Top.k \in Nat
    BY <1>0, <2>0, WalkFinds DEF Times
  <2>2. Left(c, Top, p) =
          (Repeats(c, m, q) - Top.k) * Inner(c, m, q) + Bytes(c, p, Top.ty, Top.i + 1)
    BY <2>1 DEF Left
  <2>3. ASSUME NEW f \in Frames, NEW g \in Frames, stack' = Append(SetTop(f), g), Same(f),
               f.at = "inner", f.i = Top.i, f.used = Top.used, f.k = Top.k + 1,
               g.ty = m.type, g.at = "name", g.i = 1, g.used = 0
        PROVE  BalInv' /\ StaysShort
    <3>1. Item(f) = m /\ f.ty = Top.ty
      BY <2>1, <2>3 DEF Item, Same
    <3>2. Left(c, f, p) =
            (Repeats(c, m, q) - (Top.k + 1)) * Inner(c, m, q) + Bytes(c, p, Top.ty, Top.i + 1)
      BY <2>1, <2>3, <3>1 DEF Left
    <3>3. Left(c, g, q) = Bytes(c, q, m.type, 1) /\ Inner(c, m, q) = Bytes(c, q, m.type, 1)
      BY <2>3, <2>c DEF Left, Inner
    <3> HIDE DEF c, p, q
    <3>4. Sum(c, stack, n) = f.used + Left(c, f, p) + Inner(c, Item(f), q)
      <4> DEFINE a == (Repeats(c, m, q) - (Top.k + 1)) * Inner(c, m, q)
                 b == (Repeats(c, m, q) - Top.k) * Inner(c, m, q)
      <4>1. a + Inner(c, m, q) = b /\ a \in Int /\ b \in Int
        BY <2>1, <2>c, OneLess
      <4> HIDE DEF a, b
      <4>2. /\ Left(c, Top, p) = b + Bytes(c, p, Top.ty, Top.i + 1)
            /\ Left(c, f, p) = a + Bytes(c, p, Top.ty, Top.i + 1)
        BY <2>2, <3>2 DEF a, b
      <4> QED BY <1>s, <2>1, <2>3, <3>1, <4>1, <4>2
    <3>5. /\ g.used + Left(c, g, q) + 0 = Bytes(c, q, g.ty, 1)
          /\ Bytes(c, q, g.ty, 1) \in Nat
      BY <2>1, <2>3, <3>3
    <3>6. /\ AtMost(c, stack) => AtMost(c, stack')
          /\ Exact(c, stack) => Exact(c, stack')
          /\ Short(c, stack) => Short(c, stack')
      BY <1>0, <2>3, <3>4, <3>5, PushBalance DEF p, q
    <3> QED BY <1>0, <2>0, <3>6, BalKept DEF c
  <2> QED BY <1>1, <1>5, <2>0, <2>3, DescendFrame
<1>6. CASE Release
  <2>0. Walking("inner") /\ Top.k = Times /\ UNCHANGED oom
    BY <1>6 DEF Release
  <2>1. /\ m = Item(Top) /\ q = Append(p, m.name) /\ Top.at = "inner"
        /\ Repeats(c, m, q) \in Nat /\ Inner(c, m, q) \in Nat
        /\ Bytes(c, p, Top.ty, Top.i + 1) \in Nat
    BY <1>w, <2>0
  <2>2. Left(c, Top, p) =
          (Repeats(c, m, q) - Top.k) * Inner(c, m, q) + Bytes(c, p, Top.ty, Top.i + 1)
    BY <2>1 DEF Left
  <2>3. Top.k = Repeats(c, m, q)
    <3>1. Placed(c, Top, p)
      BY <2>0, PlaceFinds
    <3>2. NeedsMemory(m) => Top.n = Capacity(c, m, q)
      BY <2>1, <3>1 DEF Placed
    <3> QED BY <2>0, <3>2 DEF Times, Repeats, NeedsMemory
  <2>4. ASSUME NEW f \in Frames, stack' = SetTop(f), Same(f), f.at = "pop", f.i = Top.i,
               f.used = Top.used
        PROVE  BalInv' /\ StaysShort
    <3>1. Left(c, f, p) = Bytes(c, p, Top.ty, Top.i + 1)
      BY <2>4 DEF Left, Same
    <3> HIDE DEF c, n, p, q
    <3>2. (Repeats(c, m, q) - Repeats(c, m, q)) * Inner(c, m, q) = 0
      BY <2>1, OneLess
    <3>3. Left(c, f, p) = Left(c, Top, p)
      BY <2>1, <2>2, <2>3, <3>1, <3>2
    <3> QED BY <1>2, <1>s, <2>0, <2>4, <3>3
  <2> QED BY <1>1, <1>6, <2>0, <2>4, ReleaseFrame
<1>7. CASE PopName
  <2>0. Top.at = "pop" /\ UNCHANGED oom
    BY <1>7 DEF PopName, Walking
  <2>1. ASSUME NEW f \in Frames, stack' = SetTop(f), Same(f), f.at = "name",
               f.i = Top.i + 1, f.used = Top.used
        PROVE  BalInv' /\ StaysShort
    <3>1. Left(c, f, p) = Left(c, Top, p)
      BY <2>0, <2>1 DEF Left, Same
    <3> QED BY <1>2, <1>s, <2>0, <2>1, <3>1
  <2> QED BY <1>1, <1>7, <2>0, <2>1, PopNameFrame
<1>8. CASE Return
  <2>1. /\ stack' = Pop(Top.used) /\ Top.at = "name" /\ Top.i > Len(Types[Top.ty])
        /\ UNCHANGED oom
    BY <1>8 DEF Return, members
  <2>2. Left(c, Top, p) = 0
    <3>1. Top.ty \in DOMAIN Types /\ Top.i \in Nat /\ p \in Seq(STRING)
      BY <1>0, NestedPath DEF Frames
    <3>2. Left(c, Top, p) = Bytes(c, p, Top.ty, Top.i)
      BY <2>1 DEF Left
    <3> HIDE DEF c, n, p, q
    <3> QED BY <1>c, <2>1, <3>1, <3>2, BytesSum
  <2>3. Sum(c, stack, n) = Top.used
    BY <1>s, <2>2
  <2>4. Top.used <= Sum(c, stack, n)
    BY <1>s, <2>3
  <2>5. AtMost(c, stack) =>
          /\ AtMost(c, stack')
          /\ Exact(c, stack) => Exact(c, stack')
          /\ Short(c, stack) => Short(c, stack')
    <3> SUFFICES ASSUME AtMost(c, stack)
                 PROVE  /\ AtMost(c, stack')
                        /\ Exact(c, stack) => Exact(c, stack')
                        /\ Short(c, stack) => Short(c, stack')
      OBVIOUS
    <3>1. /\ AtMost(c, Pop(Top.used))
          /\ Exact(c, stack) /\ Top.used = Sum(c, stack, n) => Exact(c, Pop(Top.used))
          /\ Short(c, stack) \/ Top.used < Whole(c, stack, n) => Short(c, Pop(Top.used))
      BY <1>0, <1>c, <1>s, <2>4, PopBalance
    <3> QED BY <2>1, <2>3, <3>1
  <2>6. call' = call /\ op' = op /\ msg' = msg /\ calculated' = calculated
    BY <1>0 DEF callVars
  <2> QED BY <1>0, <2>1, <2>5, <2>6 DEF BalInv, CreateHonest, StaysShort
<1> QED BY <1>3, <1>4, <1>5, <1>6, <1>7, <1>8
-----------------------------------------------------------------------------
\* A walk begins with everything still to count.
LEMMA FirstBalance ==
    ASSUME Measured, NEW c \in Confs, NEW s, NEW root \in DOMAIN Types, Len(s) = 1,
           s[1].ty = root, s[1].at = "name", s[1].i = 1, s[1].used = 0
    PROVE  AtMost(c, s) /\ Exact(c, s)
<1>1. Path(s, 1) = << >> /\ << >> \in Seq(STRING)
  BY PathFirst
<1>2. Left(c, s[1], Path(s, 1)) = Bytes(c, << >>, root, 1)
  BY <1>1 DEF Left
<1>3. Bytes(c, << >>, root, 1) \in Nat
  BY <1>1, BytesSum
<1>4. Sum(c, s, 1) = 0 + Bytes(c, << >>, root, 1) + 0
  <2>1. ~(1 < 1)
    OBVIOUS
  <2> QED BY <1>2, <2>1 DEF Sum
<1>5. Whole(c, s, 1) = Bytes(c, << >>, root, 1)
  BY <1>1 DEF Whole
<1>6. Sum(c, s, 1) = Whole(c, s, 1) /\ Sum(c, s, 1) <= Whole(c, s, 1)
  BY <1>3, <1>4, <1>5
<1>7. \A j \in 1..Len(s) : j = 1
  OBVIOUS
<1> QED BY <1>6, <1>7 DEF AtMost, Exact

\* A walk that has ended has counted everything, or knows what it has not.
LEMMA LastBalance ==
    ASSUME Measured, TypeInv, NestInv, BalInv, stack # << >>, Top.at = "done",
           op \in {"dynamic_size", "create", "destroy"}
    PROVE  /\ op # "create" \/ oom = "no" => Top.used = Bytes(call.conf, << >>, call.root, 1)
           /\ op = "create" /\ oom = "lost" => Top.used # Bytes(call.conf, << >>, call.root, 1)
           /\ Short(call.conf, stack) => Top.used # Bytes(call.conf, << >>, call.root, 1)
<1> DEFINE c == call.conf
           total == Bytes(c, << >>, call.root, 1)
<1>1. /\ call \in Calls /\ StackOK(stack) /\ Nested(stack, c) /\ stack[1].ty = call.root
      /\ Len(stack) \in Nat \ {0} /\ Top \in Frames
  BY TopFrame DEF TypeInv, CallOK, NestInv
<1>2. Len(stack) = 1 /\ Top = stack[1]
  BY <1>1 DEF Nested, Top
<1>3. /\ Left(c, stack[1], Path(stack, 1)) = 0 /\ Whole(c, stack, 1) = total
      /\ Top.used \in Nat
  BY <1>1, <1>2, PathFirst DEF Left, Whole, Frames
<1>4. Sum(c, stack, 1) = Top.used
  <2>1. ~(1 < 1)
    OBVIOUS
  <2>2. Sum(c, stack, 1) = Top.used + 0 + 0
    BY <1>2, <1>3, <2>1 DEF Sum
  <2> QED BY <1>3, <2>2
<1>5. 1 \in 1..Len(stack) /\ \A j \in 1..Len(stack) : j = 1
  BY <1>2
<1>c. c \in Confs
  BY <1>1 DEF Calls
<1>6. total \in Nat
  <2>1. Whole(c, stack, 1) \in Nat
    BY <1>1, <1>5, <1>c, SumNat
  <2> QED BY <1>3, <2>1
<1> HIDE DEF total
<1>7. Exact(c, stack) => Top.used = total
  BY <1>3, <1>4, <1>5 DEF Exact
<1>8. Short(c, stack) => Top.used # total
  BY <1>3, <1>4, <1>5, <1>6 DEF Short
<1> QED BY <1>7, <1>8 DEF BalInv, total

LEMMA CallBal ==
    ASSUME Measured, TypeInv, NestInv, BalInv, Sizes \/ Create \/ CreateStatic \/ Destroy
    PROVE  BalInv'
<1>1. PICK c \in Calls : Call(c.api, c.root, c.conf, c.len)
  BY CallTypes
<1>2. /\ stack = << >> /\ Walk(FirstWalk(c.api), c.root, c.conf.rules)
      /\ call' = [api |-> c.api, root |-> c.root, conf |-> c.conf, len |-> c.len]
      /\ UNCHANGED <<oom, msg>>
  BY <1>1 DEF Call, TypeInv, CallOK
<1>3. call'.root = c.root /\ call'.conf = c.conf /\ call'.api = c.api
  BY <1>2
<1>4. op' = FirstWalk(c.api) /\ op' \notin {"none", "create", "destroy"}
  BY <1>2, FirstFrame, FirstWalkApi DEF Apis
<1>5. CreateHonest'
  BY <1>2 DEF BalInv, CreateHonest
<1>6. c.conf \in Confs /\ c.root \in DOMAIN Types
  BY MessageAssumption DEF Calls, MessageAssumption
<1>7. stack' # << >> => AtMost(c.conf, stack') /\ Exact(c.conf, stack')
  BY <1>2, <1>6, FirstFrame, FirstBalance
<1> QED BY <1>3, <1>4, <1>5, <1>7 DEF BalInv

LEMMA SecondWalkBal ==
    ASSUME Measured, TypeInv, OwnInv, NestInv, BalInv, SecondWalk
    PROVE  BalInv'
<1>1. /\ stack = << >> /\ call \in Calls /\ op = "none" /\ UNCHANGED <<calculated, msg>>
      /\ call.api \in {"create", "create_static", "destroy"}
  BY DEF SecondWalk, TypeInv, CallOK, NestInv
<1>2. CASE call' = Idle /\ UNCHANGED <<walkVars, op, name_tree>>
  BY <1>1, <1>2 DEF BalInv, CreateHonest, walkVars, Idle
<1>3. CASE /\ Walk(call.api, call.root, call.conf.rules) /\ UNCHANGED call
           /\ oom' = IF call.api = "destroy" THEN oom ELSE "no"
  <2>1. op' = call.api
    BY <1>3, FirstFrame
  <2>2. call.conf \in Confs /\ call.root \in DOMAIN Types
    BY <1>1, MessageAssumption DEF Calls, MessageAssumption
  <2>3. stack' # << >> => AtMost(call.conf, stack') /\ Exact(call.conf, stack')
    BY <1>1, <1>3, <2>2, FirstFrame, FirstBalance
  <2>4. CreateHonest'
    <3>1. call.api # "destroy" => msg \in {"raw", "static"}
      BY <1>1 DEF OwnInv
    <3> QED BY <1>1, <1>3, <3>1 DEF BalInv, CreateHonest
  <2>5. op' = "create" => oom' = "no"
    BY <1>3, <2>1
  <2>6. call.api \in {"create", "destroy"} => calculated = Bytes(call.conf, << >>, call.root, 1)
    BY <1>1 DEF BalInv
  <2> QED BY <1>1, <1>3, <2>1, <2>3, <2>4, <2>5, <2>6 DEF BalInv
<1> QED BY <1>2, <1>3 DEF SecondWalk

LEMMA EndWalkBal ==
    ASSUME Measured, TypeInv, OwnInv, NestInv, BalInv, EndWalk
    PROVE  BalInv'
<1> DEFINE total == Bytes(call.conf, << >>, call.root, 1)
<1>1. stack # << >> /\ Top.at = "done" /\ op \in {FirstWalk(call.api), call.api} /\ call \in Calls
      /\ UNCHANGED oom
  BY DEF EndWalk, NestInv, Fault, TypeInv, CallOK
<1>i. Idle.api = "none"
  BY DEF Idle
<1>2. CASE Fault("name") /\ UNCHANGED callVars
  BY <1>2, BalSame DEF Fault
<1>3. CASE stack' = << >> /\ UNCHANGED msg /\ call' = Idle
  BY <1>1, <1>3, <1>i DEF BalInv, CreateHonest
<1>4. CASE /\ stack' = << >> /\ UNCHANGED <<msg, call>> /\ calculated' = Top.used
           /\ op = FirstWalk(call.api) /\ op # call.api
  <2>1. CASE call.api \in {"create", "destroy"}
    <3>1. op = "dynamic_size"
      BY <1>4, <2>1 DEF FirstWalk
    <3>2. Top.used = total
      BY <1>1, <3>1, LastBalance
    <3> QED BY <1>1, <1>4, <3>2 DEF BalInv, CreateHonest
  <2>2. CASE call.api \notin {"create", "destroy"}
    BY <1>1, <1>4, <2>2 DEF BalInv, CreateHonest
  <2> QED BY <2>1, <2>2
<1>5. CASE /\ stack' = << >> /\ op = "create" /\ call' = Idle
           /\ rv' = (IF Top.used = calculated THEN 1 ELSE 0)
           /\ msg' = IF rv' = 1 THEN "made" ELSE "failed"
  <2>1. call.api = "create"
    BY <1>1, <1>5 DEF FirstWalk
  <2>2. calculated = total
    BY <1>5, <2>1 DEF BalInv
  <2>3. /\ oom = "no" => Top.used = total
        /\ oom = "lost" => Top.used # total
    BY <1>1, <1>5, LastBalance
  <2> HIDE DEF total
  <2>4. CreateHonest'
    BY <1>1, <1>5, <2>2, <2>3 DEF CreateHonest
  <2> QED BY <1>5, <1>i, <2>4 DEF BalInv
<1>6. CASE stack' = << >> /\ msg' \in {"static", "raw"} /\ call' = Idle
  BY <1>6, <1>i DEF BalInv, CreateHonest
<1> QED BY <1>2, <1>3, <1>4, <1>5, <1>6 DEF EndWalk

LEMMA BalStep ==
    Measured /\ TypeInv /\ NameInv /\ OwnInv /\ NestInv /\ BalInv /\ [Next]_vars => BalInv'
<1> SUFFICES ASSUME Measured, TypeInv, NameInv, OwnInv, NestInv, BalInv, [Next]_vars
             PROVE  BalInv'
  OBVIOUS
<1>1. CASE UNCHANGED vars
  BY <1>1, BalSame DEF vars, walkVars
<1> QED BY <1>1, WalkBal, CallBal, SecondWalkBal, EndWalkBal DEF Next

LEMMA BalInvariance == ~Moves /\ Measured => (Spec => []BalInv)
<1> SUFFICES ASSUME ~Moves, Measured PROVE Spec => []BalInv
  OBVIOUS
<1>1. Init => BalInv
  BY DEF Init, BalInv, CreateHonest, Idle
<1>2. TypeInv /\ NameInv /\ OwnInv /\ NestInv /\ BalInv /\ [Next]_vars => BalInv'
  BY BalStep
<1> QED BY <1>1, <1>2, TypeInvariance, NameInvariance, OwnInvariance, NestInvariance, PTL
        DEF Spec
-----------------------------------------------------------------------------
\* No type contains itself, however deep, and types are of bounded length.
Acyclic ==
    \E rank \in [DOMAIN Types -> Nat], K \in Nat :
        \A t \in DOMAIN Types :
           /\ Len(Types[t]) <= K
           /\ \A i \in 1..Len(Types[t]) :
                 Composed(Types[t][i]) => rank[Types[t][i].type] < rank[t]

\* The member at a place, the place behind it, and the first place inside it.
Inside(z) == z[4] \in 1..Len(Types[z[3]])
At(z) == Types[z[3]][z[4]]
AtPath(z) == Append(z[2], At(z).name)
Rest(z) == <<z[1], z[2], z[3], z[4] + 1>>
Child(z) == <<z[1], AtPath(z), At(z).type, 1>>

LEMMA PlaceParts ==
    ASSUME NEW z \in Places
    PROVE  /\ z[1] \in Confs /\ z[2] \in Seq(STRING) /\ z[3] \in DOMAIN Types /\ z[4] \in Nat
           /\ Len(Types[z[3]]) \in Nat
           /\ Rest(z) \in Places
           /\ Inside(z) => /\ At(z) \in MessageMember
                           /\ AtPath(z) \in Seq(STRING)
                           /\ Composed(At(z)) => Child(z) \in Places
<1>1. z[1] \in Confs /\ z[2] \in Seq(STRING) /\ z[3] \in DOMAIN Types /\ z[4] \in Nat
  BY DEF Places
<1>2. z[4] + 1 \in Nat /\ 1 \in Nat
  BY <1>1
<1>3. Rest(z) \in Places
  BY <1>1, <1>2 DEF Rest, Places
<1>4. Types[z[3]] \in Seq(MessageMember)
  BY <1>1, MessageAssumption
<1>5. ASSUME Inside(z) PROVE At(z) \in MessageMember /\ At(z).name \in STRING
  <2>1. At(z) \in MessageMember
    BY <1>4, <1>5 DEF Inside, At
  <2> QED BY <2>1 DEF MessageMember
<1>6. ASSUME Inside(z) PROVE AtPath(z) \in Seq(STRING)
  BY <1>1, <1>5, <1>6, AppendProperties DEF AtPath
<1>7. ASSUME Inside(z), Composed(At(z)) PROVE Child(z) \in Places
  BY <1>1, <1>2, <1>6, <1>7 DEF Child, Places, Composed
<1>8. Len(Types[z[3]]) \in Nat
  BY <1>4
<1> QED BY <1>1, <1>3, <1>5, <1>6, <1>7, <1>8

\* A measure of the places, that the walk from a place decreases.
Descends(w) ==
    /\ w \in [Places -> Nat]
    /\ \A z \in Places : Inside(z) =>
          /\ w[Rest(z)] < w[z]
          /\ Composed(At(z)) => w[Child(z)] < w[z]

LEMMA PlaceRank == ASSUME Acyclic PROVE \E w : Descends(w)
<1>1. PICK rank \in [DOMAIN Types -> Nat], K \in Nat :
        \A t \in DOMAIN Types :
           /\ Len(Types[t]) <= K
           /\ \A i \in 1..Len(Types[t]) :
                 Composed(Types[t][i]) => rank[Types[t][i].type] < rank[t]
  BY DEF Acyclic
<1> DEFINE D == DOMAIN Types
<1>2. PICK v : Falls(D, rank, K, v)
  <2>1. rank \in [D -> Nat]
    OBVIOUS
  <2> HIDE DEF D
  <2> QED BY <2>1, MemberRank
<1> DEFINE w == [z \in Places |-> v[<<z[3], z[4]>>]]
<1>3. w \in [Places -> Nat]
  <2>1. ASSUME NEW z \in Places PROVE v[<<z[3], z[4]>>] \in Nat
    BY <1>2, PlaceParts DEF Falls
  <2> QED BY <2>1
<1>4. ASSUME NEW z \in Places, Inside(z)
      PROVE  z[3] \in D /\ z[4] \in 1..K /\ w[z] = v[<<z[3], z[4]>>]
  <2>1. z[3] \in D /\ z[4] \in Nat /\ Len(Types[z[3]]) \in Nat
    BY PlaceParts
  <2>2. z[4] \in 1..K
    BY <1>1, <1>4, <2>1 DEF Inside
  <2> QED BY <2>1, <2>2
<1>5. ASSUME NEW z \in Places, Inside(z) PROVE w[Rest(z)] < w[z]
  <2>1. Rest(z) \in Places /\ Rest(z)[3] = z[3] /\ Rest(z)[4] = z[4] + 1
    BY PlaceParts DEF Rest
  <2>2. w[Rest(z)] = v[<<z[3], z[4] + 1>>]
    BY <2>1
  <2> QED BY <1>2, <1>4, <1>5, <2>2 DEF Falls
<1>6. ASSUME NEW z \in Places, Inside(z), Composed(At(z)) PROVE w[Child(z)] < w[z]
  <2>1. Child(z) \in Places /\ Child(z)[3] = At(z).type /\ Child(z)[4] = 1
    BY <1>6, PlaceParts DEF Child
  <2>2. w[Child(z)] = v[<<At(z).type, 1>>]
    BY <2>1
  <2>3. At(z).type \in D /\ rank[At(z).type] < rank[z[3]]
    BY <1>1, <1>4, <1>6 DEF Inside, At, Composed
  <2> QED BY <1>2, <1>4, <1>6, <2>2, <2>3 DEF Falls
<1> HIDE DEF w
<1>7. Descends(w)
  BY <1>3, <1>5, <1>6 DEF Descends
<1> QED BY <1>7
-----------------------------------------------------------------------------
\* One step of the recursive definition of Measures.
OwnAt(z) == Own(z[1], At(z), AtPath(z))
RepeatsAt(z) == Repeats(z[1], At(z), AtPath(z))
Adds(f, z) ==
    IF Inside(z)
    THEN OwnAt(z) + RepeatsAt(z) * (IF Composed(At(z)) THEN f[Child(z)] ELSE 0) + f[Rest(z)]
    ELSE 0

LEMMA AtNat ==
    ASSUME NEW z \in Places, Inside(z) PROVE OwnAt(z) \in Nat /\ RepeatsAt(z) \in Nat
BY PlaceParts, CapacityNat, OwnNat DEF OwnAt, RepeatsAt

LEMMA AddsNat == ASSUME NEW f \in [Places -> Nat], NEW z \in Places PROVE Adds(f, z) \in Nat
<1>1. CASE ~Inside(z)
  BY <1>1 DEF Adds
<1>2. CASE Inside(z)
  <2> DEFINE e == IF Composed(At(z)) THEN f[Child(z)] ELSE 0
             o == OwnAt(z)
             r == RepeatsAt(z)
             b == f[Rest(z)]
  <2>1. e \in Nat /\ b \in Nat
    BY <1>2, PlaceParts
  <2>2. o \in Nat /\ r \in Nat
    BY <1>2, AtNat
  <2>3. Adds(f, z) = o + r * e + b
    BY <1>2 DEF Adds
  <2> HIDE DEF e, o, r, b
  <2>4. r * e \in Nat
    BY <2>1, <2>2, ProductNat
  <2> QED BY <2>1, <2>2, <2>3, <2>4
<1> QED BY <1>1, <1>2

\* When no type contains itself the bytes of a message are well defined.
LEMMA AcyclicMeasured == ASSUME Acyclic PROVE Measured
<1>1. PICK w : Descends(w)
  BY PlaceRank
<1> DEFINE F == [Places -> Nat]
           phi == [f \in F |-> [z \in Places |-> Adds(f, z)]]
<1>2. phi \in [F -> F]
  <2>1. ASSUME NEW f \in F PROVE [z \in Places |-> Adds(f, z)] \in F
    BY AddsNat
  <2> HIDE DEF F
  <2> QED BY <2>1
<1>3. ASSUME NEW f \in F, NEW z \in Places PROVE phi[f][z] = Adds(f, z)
  OBVIOUS
<1>4. ASSUME NEW f \in F, NEW g \in F, NEW z \in Places,
             \A y \in Places : w[y] < w[z] => f[y] = g[y]
      PROVE  Adds(f, z) = Adds(g, z)
  <2>1. CASE ~Inside(z)
    BY <2>1 DEF Adds
  <2>2. CASE Inside(z)
    <3>1. f[Rest(z)] = g[Rest(z)]
      BY <1>1, <1>4, <2>2, PlaceParts DEF Descends
    <3>2. Composed(At(z)) => f[Child(z)] = g[Child(z)]
      BY <1>1, <1>4, <2>2, PlaceParts DEF Descends
    <3>3. (IF Composed(At(z)) THEN f[Child(z)] ELSE 0) = (IF Composed(At(z)) THEN g[Child(z)] ELSE 0)
      BY <3>2
    <3> QED BY <3>1, <3>3 DEF Adds
  <2> QED BY <2>1, <2>2
<1> HIDE DEF phi
<1>5. Contracts(Places, Nat, w, phi)
  <2>1. Nat # {} /\ w \in [Places -> Nat] /\ phi \in [[Places -> Nat] -> [Places -> Nat]]
    BY <1>1, <1>2 DEF Descends
  <2>2. ASSUME NEW f \in [Places -> Nat], NEW g \in [Places -> Nat], NEW z \in Places,
               \A y \in Places : w[y] < w[z] => f[y] = g[y]
        PROVE  phi[f][z] = phi[g][z]
    BY <1>3, <1>4, <2>2
  <2> QED BY <2>1, <2>2 DEF Contracts
<1>6. PICK f \in F : phi[f] = f
  BY <1>5, Fixpoint
<1>7. ASSUME NEW z \in Places PROVE f[z] = Adds(f, z)
  BY <1>3, <1>6
<1>8. ASSUME NEW c \in Confs, NEW p \in Seq(STRING), NEW t \in DOMAIN Types, NEW i \in Nat
      PROVE  /\ i > Len(Types[t]) => f[<<c, p, t, i>>] = 0
             /\ i \in 1..Len(Types[t]) =>
                   LET x == Types[t][i]
                       q == Append(p, x.name)
                   IN  f[<<c, p, t, i>>] =
                         Own(c, x, q)
                         + Repeats(c, x, q) * (IF Composed(x) THEN f[<<c, q, x.type, 1>>] ELSE 0)
                         + f[<<c, p, t, i + 1>>]
  <2> DEFINE z == <<c, p, t, i>>
             x == Types[t][i]
             q == Append(p, x.name)
  <2>1. z \in Places /\ Len(Types[t]) \in Nat
    BY MessageAssumption DEF Places
  <2>2. /\ Inside(z) <=> i \in 1..Len(Types[t])
        /\ At(z) = x /\ AtPath(z) = q /\ Rest(z) = <<c, p, t, i + 1>>
        /\ Child(z) = <<c, q, x.type, 1>>
    BY DEF Inside, At, AtPath, Rest, Child
  <2>3. OwnAt(z) = Own(c, x, q) /\ RepeatsAt(z) = Repeats(c, x, q)
    BY <2>2 DEF OwnAt, RepeatsAt
  <2>4. f[z] = Adds(f, z)
    BY <1>7, <2>1
  <2> HIDE DEF x, q
  <2>5. ASSUME i \in 1..Len(Types[t])
        PROVE  f[<<c, p, t, i>>] =
                 Own(c, x, q)
                 + Repeats(c, x, q) * (IF Composed(x) THEN f[<<c, q, x.type, 1>>] ELSE 0)
                 + f[<<c, p, t, i + 1>>]
    <3> HIDE DEF z
    <3>1. f[z] = Own(c, x, q)
                 + Repeats(c, x, q) * (IF Composed(x) THEN f[<<c, q, x.type, 1>>] ELSE 0)
                 + f[<<c, p, t, i + 1>>]
      BY <2>2, <2>3, <2>4, <2>5 DEF Adds
    <3> QED BY <3>1 DEF z
  <2>6. i > Len(Types[t]) => f[<<c, p, t, i>>] = 0
    BY <2>1, <2>2, <2>4 DEF Adds
  <2> QED BY <2>5, <2>6 DEF x, q
<1>9. Measures(f)
  BY <1>6, <1>8 DEF Measures
<1> QED BY <1>9 DEF Measured
-----------------------------------------------------------------------------
\* Where the buffer's index ends, as a recursive definition over a type.

\* Functions that take an index to one that is not below it.
Growing == {g \in [Nat -> Nat] : \A x \in Nat : g[x] >= x}
Stay == [x \in Nat |-> x]

\* f[r] is h, r times.
Powers(h, f) ==
    /\ f \in [Nat -> Growing]
    /\ \A x \in Nat : f[0][x] = x
    /\ \A r \in Nat, x \in Nat : f[r + 1][x] = f[r][h[x]]
Again(h, r, x) == (CHOOSE f : Powers(h, f))[r][x]

LEMMA StayGrowing == Stay \in Growing
BY DEF Stay, Growing

LEMMA PowerExists == ASSUME NEW h \in Growing PROVE \E f : Powers(h, f)
<1> DEFINE F == [Nat -> Growing]
           w == [n \in Nat |-> n]
           step(f, r) == IF r = 0 THEN Stay ELSE [x \in Nat |-> f[r - 1][h[x]]]
           phi == [f \in F |-> [r \in Nat |-> step(f, r)]]
<1>1. ASSUME NEW f \in F, NEW r \in Nat PROVE step(f, r) \in Growing
  <2>1. CASE r = 0
    BY <2>1, StayGrowing
  <2>2. CASE r # 0
    <3>1. r - 1 \in Nat
      BY <2>2
    <3> DEFINE e == f[r - 1]
    <3>2. e \in Growing
      BY <3>1
    <3> HIDE DEF e
    <3>3. ASSUME NEW x \in Nat PROVE e[h[x]] \in Nat /\ e[h[x]] >= x
      <4>1. h[x] \in Nat /\ h[x] >= x
        BY DEF Growing
      <4>2. e[h[x]] \in Nat /\ e[h[x]] >= h[x]
        BY <3>2, <4>1 DEF Growing
      <4> QED BY <4>1, <4>2
    <3>4. [x \in Nat |-> e[h[x]]] \in Growing
      BY <3>3 DEF Growing
    <3> QED BY <2>2, <3>4 DEF e
  <2> QED BY <2>1, <2>2
<1>2. ASSUME NEW f \in F, NEW r \in Nat PROVE phi[f][r] = step(f, r)
  OBVIOUS
<1>3. phi \in [F -> F]
  <2>1. ASSUME NEW f \in F PROVE [r \in Nat |-> step(f, r)] \in F
    <3> HIDE DEF step
    <3> QED BY <1>1
  <2> HIDE DEF F, step
  <2> QED BY <2>1
<1>4. ASSUME NEW f \in F, NEW g \in F, NEW r \in Nat,
             \A y \in Nat : w[y] < w[r] => f[y] = g[y]
      PROVE  step(f, r) = step(g, r)
  <2>1. CASE r = 0
    BY <2>1
  <2>2. CASE r # 0
    <3>1. r - 1 \in Nat /\ w[r - 1] < w[r]
      BY <2>2
    <3>2. f[r - 1] = g[r - 1]
      BY <1>4, <3>1
    <3> QED BY <2>2, <3>2
  <2> QED BY <2>1, <2>2
<1>5. Contracts(Nat, Growing, w, phi)
  <2>1. Growing # {} /\ w \in [Nat -> Nat] /\ phi \in [[Nat -> Growing] -> [Nat -> Growing]]
    <3>1. w \in [Nat -> Nat]
      OBVIOUS
    <3> HIDE DEF w, phi
    <3> QED BY <1>3, <3>1, StayGrowing
  <2> HIDE DEF w, phi, step
  <2>2. ASSUME NEW f \in [Nat -> Growing], NEW g \in [Nat -> Growing], NEW r \in Nat,
               \A y \in Nat : w[y] < w[r] => f[y] = g[y]
        PROVE  phi[f][r] = phi[g][r]
    BY <1>2, <1>4, <2>2
  <2> QED BY <2>1, <2>2 DEF Contracts
<1> HIDE DEF phi
<1>6. PICK f \in F : phi[f] = f
  <2> HIDE DEF w
  <2> QED BY <1>5, Fixpoint
<1>7. ASSUME NEW r \in Nat PROVE f[r] = step(f, r)
  <2> HIDE DEF step
  <2> QED BY <1>2, <1>6
<1>8. ASSUME NEW x \in Nat PROVE f[0][x] = x
  <2>1. f[0] = Stay
    BY <1>7
  <2> QED BY <2>1 DEF Stay
<1>9. ASSUME NEW r \in Nat, NEW x \in Nat PROVE f[r + 1][x] = f[r][h[x]]
  <2>1. r + 1 \in Nat /\ r + 1 # 0 /\ (r + 1) - 1 = r
    OBVIOUS
  <2>2. f[r + 1] = [y \in Nat |-> f[r][h[y]]]
    BY <1>7, <2>1
  <2> QED BY <2>2
<1>10. Powers(h, f)
  BY <1>6, <1>8, <1>9 DEF Powers
<1> QED BY <1>10

LEMMA AgainSteps ==
    ASSUME NEW h \in Growing, NEW r \in Nat, NEW x \in Nat
    PROVE  /\ Again(h, r, x) \in Nat /\ Again(h, r, x) >= x
           /\ Again(h, 0, x) = x
           /\ Again(h, r + 1, x) = Again(h, r, h[x])
           /\ h[x] \in Nat /\ h[x] >= x
<1> DEFINE f == CHOOSE f : Powers(h, f)
<1>1. Powers(h, f)
  BY PowerExists
<1>2. \A k, y : Again(h, k, y) = f[k][y]
  BY DEF Again
<1> HIDE DEF f
<1>3. h[x] \in Nat /\ h[x] >= x
  BY DEF Growing
<1>4. f[r] \in Growing
  BY <1>1 DEF Powers
<1>5. f[r][x] \in Nat /\ f[r][x] >= x
  BY <1>4 DEF Growing
<1>6. f[0][x] = x /\ f[r + 1][x] = f[r][h[x]]
  BY <1>1 DEF Powers
<1> QED BY <1>2, <1>3, <1>5, <1>6
-----------------------------------------------------------------------------
\* Where a member's own piece ends that is laid out from index x on.
Lay(c, y, q, x) == IF NeedsMemory(y) THEN Aligned(x) + Own(c, y, q) ELSE x

\* f tells, for a place and an index, the index at which the members from that place
\* on end.
Recurs(f, z) == IF Composed(At(z)) THEN f[Child(z)] ELSE Stay
Lays(f) ==
    /\ f \in [Places -> Growing]
    /\ \A z \in Places, x \in Nat :
          /\ ~Inside(z) => f[z][x] = x
          /\ Inside(z) =>
                f[z][x] = f[Rest(z)][Again(Recurs(f, z), RepeatsAt(z),
                                           Lay(z[1], At(z), AtPath(z), x))]

Laid == \E f : Lays(f)
Ends(c, p, t, i) == (CHOOSE f : Lays(f))[<<c, p, t, i>>]

\* The same for one message that a member contains.
InnerEnds(c, y, q) == IF Composed(y) THEN Ends(c, q, y.type, 1) ELSE Stay

LEMMA LayNat ==
    ASSUME NEW c \in Confs, NEW y \in MessageMember, NEW q, NEW x \in Nat
    PROVE  Lay(c, y, q, x) \in Nat /\ Lay(c, y, q, x) >= x
<1>1. Own(c, y, q) \in Nat /\ Aligned(x) \in Nat /\ Aligned(x) >= x
  BY OwnNat, AlignedUp
<1> QED BY <1>1 DEF Lay

LEMMA AcyclicLaid == ASSUME Acyclic PROVE Laid
<1>1. PICK w : Descends(w)
  BY PlaceRank
<1> DEFINE F == [Places -> Growing]
           lay(z, x) == Lay(z[1], At(z), AtPath(z), x)
           step(f, z) == IF Inside(z)
                         THEN [x \in Nat |-> f[Rest(z)][Again(Recurs(f, z), RepeatsAt(z), lay(z, x))]]
                         ELSE Stay
           phi == [f \in F |-> [z \in Places |-> step(f, z)]]
<1>2. ASSUME NEW f \in F, NEW z \in Places PROVE step(f, z) \in Growing
  <2>1. CASE ~Inside(z)
    BY <2>1, StayGrowing
  <2>2. CASE Inside(z)
    <3> DEFINE e == f[Rest(z)]
               h == Recurs(f, z)
               r == RepeatsAt(z)
    <3>1. e \in Growing /\ h \in Growing
      BY <2>2, PlaceParts, StayGrowing DEF Recurs
    <3>2. r \in Nat
      BY <2>2, AtNat
    <3> HIDE DEF e, h, r
    <3>3. ASSUME NEW x \in Nat
          PROVE  e[Again(h, r, lay(z, x))] \in Nat /\ e[Again(h, r, lay(z, x))] >= x
      <4> DEFINE a == lay(z, x)
                 b == Again(h, r, a)
      <4>1. a \in Nat /\ a >= x
        BY <2>2, PlaceParts, LayNat
      <4> HIDE DEF a
      <4>2. b \in Nat /\ b >= a
        BY <3>1, <3>2, <4>1, AgainSteps
      <4> HIDE DEF b
      <4>3. e[b] \in Nat /\ e[b] >= b
        BY <3>1, <4>2 DEF Growing
      <4>4. e[b] \in Nat /\ e[b] >= x
        BY <4>1, <4>2, <4>3
      <4> QED BY <4>4 DEF a, b
    <3> HIDE DEF lay
    <3>4. [x \in Nat |-> e[Again(h, r, lay(z, x))]] \in Growing
      BY <3>3 DEF Growing
    <3> QED BY <2>2, <3>4 DEF e, h, r
  <2> QED BY <2>1, <2>2
<1> HIDE DEF lay
<1>3. ASSUME NEW f \in F, NEW z \in Places PROVE phi[f][z] = step(f, z)
  OBVIOUS
<1>4. phi \in [F -> F]
  <2>1. ASSUME NEW f \in F PROVE [z \in Places |-> step(f, z)] \in F
    <3> HIDE DEF step
    <3> QED BY <1>2
  <2> HIDE DEF F, step
  <2> QED BY <2>1
<1>5. ASSUME NEW f \in F, NEW g \in F, NEW z \in Places,
             \A y \in Places : w[y] < w[z] => f[y] = g[y]
      PROVE  step(f, z) = step(g, z)
  <2>1. CASE ~Inside(z)
    BY <2>1
  <2>2. CASE Inside(z)
    <3>1. f[Rest(z)] = g[Rest(z)]
      BY <1>1, <1>5, <2>2, PlaceParts DEF Descends
    <3>2. Composed(At(z)) => f[Child(z)] = g[Child(z)]
      BY <1>1, <1>5, <2>2, PlaceParts DEF Descends
    <3>3. Recurs(f, z) = Recurs(g, z)
      BY <3>2 DEF Recurs
    <3> QED BY <2>2, <3>1, <3>3
  <2> QED BY <2>1, <2>2
<1> HIDE DEF step
<1>6. Contracts(Places, Growing, w, phi)
  <2> HIDE DEF phi
  <2>1. Growing # {} /\ w \in [Places -> Nat] /\ phi \in [[Places -> Growing] -> [Places -> Growing]]
    BY <1>1, <1>4, StayGrowing DEF Descends
  <2>2. ASSUME NEW f \in [Places -> Growing], NEW g \in [Places -> Growing], NEW z \in Places,
               \A y \in Places : w[y] < w[z] => f[y] = g[y]
        PROVE  phi[f][z] = phi[g][z]
    BY <1>3, <1>5, <2>2
  <2> QED BY <2>1, <2>2 DEF Contracts
<1> HIDE DEF phi
<1>7. PICK f \in F : phi[f] = f
  BY <1>6, Fixpoint
<1>8. ASSUME NEW z \in Places PROVE f[z] = step(f, z)
  BY <1>3, <1>7
<1>9. ASSUME NEW z \in Places, NEW x \in Nat
      PROVE  /\ ~Inside(z) => f[z][x] = x
             /\ Inside(z) => f[z][x] = f[Rest(z)][Again(Recurs(f, z), RepeatsAt(z), lay(z, x))]
  <2>1. ASSUME ~Inside(z) PROVE f[z][x] = x
    <3>1. f[z] = Stay
      BY <1>8, <2>1 DEF step
    <3> QED BY <3>1 DEF Stay
  <2>2. ASSUME Inside(z)
        PROVE  f[z][x] = f[Rest(z)][Again(Recurs(f, z), RepeatsAt(z), lay(z, x))]
    <3>1. f[z] = [y \in Nat |-> f[Rest(z)][Again(Recurs(f, z), RepeatsAt(z), lay(z, y))]]
      BY <1>8, <2>2 DEF step
    <3> QED BY <3>1
  <2> QED BY <2>1, <2>2
<1>10. Lays(f)
  BY <1>7, <1>9 DEF Lays, lay
<1> QED BY <1>10 DEF Laid

LEMMA EndsSum ==
    ASSUME Laid, NEW c \in Confs, NEW p \in Seq(STRING), NEW t \in DOMAIN Types, NEW i \in Nat,
           NEW x \in Nat
    PROVE  /\ Ends(c, p, t, i) \in Growing
           /\ i > Len(Types[t]) => Ends(c, p, t, i)[x] = x
           /\ i \in 1..Len(Types[t]) =>
                 LET y == Types[t][i]
                     q == Append(p, y.name)
                 IN  Ends(c, p, t, i)[x] =
                       Ends(c, p, t, i + 1)
                         [Again(InnerEnds(c, y, q), Repeats(c, y, q), Lay(c, y, q, x))]
<1> DEFINE f == CHOOSE f : Lays(f)
           z == <<c, p, t, i>>
           y == Types[t][i]
           q == Append(p, y.name)
<1>1. Lays(f)
  BY DEF Laid
<1>2. ASSUME NEW d, NEW o, NEW r, NEW k PROVE Ends(d, o, r, k) = f[<<d, o, r, k>>]
  BY DEF Ends
<1> HIDE DEF f
<1>3. z \in Places /\ Len(Types[t]) \in Nat
  BY MessageAssumption DEF Places
<1>4. /\ Inside(z) <=> i \in 1..Len(Types[t])
      /\ z[1] = c /\ At(z) = y /\ AtPath(z) = q /\ Rest(z) = <<c, p, t, i + 1>>
      /\ Child(z) = <<c, q, y.type, 1>>
  BY DEF Inside, At, AtPath, Rest, Child
<1>5. RepeatsAt(z) = Repeats(c, y, q)
  BY <1>4 DEF RepeatsAt
<1> HIDE DEF y, q
<1>6. Recurs(f, z) = InnerEnds(c, y, q)
  BY <1>2, <1>4 DEF Recurs, InnerEnds
<1>7. Ends(c, p, t, i) = f[z] /\ Ends(c, p, t, i + 1) = f[Rest(z)]
  BY <1>2, <1>4
<1> HIDE DEF z
<1>8. Ends(c, p, t, i) \in Growing
  BY <1>1, <1>3, <1>7 DEF Lays
<1>9. i > Len(Types[t]) => Ends(c, p, t, i)[x] = x
  BY <1>1, <1>3, <1>4, <1>7 DEF Lays
<1>10. i \in 1..Len(Types[t]) =>
         Ends(c, p, t, i)[x] =
            Ends(c, p, t, i + 1)[Again(InnerEnds(c, y, q), Repeats(c, y, q), Lay(c, y, q, x))]
  BY <1>1, <1>3, <1>4, <1>5, <1>6, <1>7 DEF Lays
<1> QED BY <1>8, <1>9, <1>10 DEF y, q
-----------------------------------------------------------------------------
\* Where a frame ends that is at index x, the message it is walking for not included.
After(c, f, p, x) ==
    LET y == Item(f)
        q == Append(p, y.name)
    IN  IF f.at \in {"name", "memory"} THEN Ends(c, p, f.ty, f.i)[x]
        ELSE IF f.at = "inner"
        THEN Ends(c, p, f.ty, f.i + 1)[Again(InnerEnds(c, y, q), Repeats(c, y, q) - f.k, x)]
        ELSE IF f.at = "pop" THEN Ends(c, p, f.ty, f.i + 1)[x]
        ELSE x
Ahead(c, s, j, x) == After(c, s[j], Path(s, j), x)

\* Frame j ends at e[j], and the frames below it have used u[j] bytes.
Laying(c, s, x, end, e, u) ==
    /\ e[1] = end /\ e[Len(s)] = Ahead(c, s, Len(s), x)
    /\ \A j \in 1..(Len(s) - 1) : e[j] = Ahead(c, s, j, e[j + 1])
    /\ \A j \in 1..Len(s) : e[j] <= end
    /\ u[1] = 0 /\ u[Len(s)] + s[Len(s)].used = x
    /\ \A j \in 1..(Len(s) - 1) : u[j + 1] = u[j] + s[j].used
Layout(c, s, x, end) ==
    \E e \in [1..Len(s) -> Nat], u \in [1..Len(s) -> Nat] : Laying(c, s, x, end, e, u)

LEMMA InnerEndsGrow ==
    ASSUME Laid, NEW c \in Confs, NEW y \in MessageMember, NEW q \in Seq(STRING)
    PROVE  InnerEnds(c, y, q) \in Growing
<1>1. CASE Composed(y)
  <2>1. y.type \in DOMAIN Types /\ 1 \in Nat /\ 0 \in Nat
    BY <1>1 DEF Composed
  <2>2. Ends(c, q, y.type, 1) \in Growing
    BY <2>1, EndsSum
  <2> QED BY <1>1, <2>2 DEF InnerEnds
<1>2. CASE ~Composed(y)
  BY <1>2, StayGrowing DEF InnerEnds
<1> QED BY <1>1, <1>2

LEMMA AfterNat ==
    ASSUME Laid, NEW c \in Confs, NEW f \in Frames, FrameOK(f), NEW p \in Seq(STRING),
           Placed(c, f, p), NEW x \in Nat
    PROVE  After(c, f, p, x) \in Nat /\ After(c, f, p, x) >= x
<1> DEFINE y == Item(f)
           q == Append(p, y.name)
<1>0. f.ty \in DOMAIN Types /\ f.i \in Nat /\ f.i + 1 \in Nat /\ f.k \in Nat
      /\ f.at \in {"name", "memory", "inner", "pop", "done"}
  BY DEF Frames
<1>1. Ends(c, p, f.ty, f.i) \in Growing /\ Ends(c, p, f.ty, f.i + 1) \in Growing
  BY <1>0, EndsSum
<1>g. ASSUME NEW g \in Growing, NEW a \in Nat PROVE g[a] \in Nat /\ g[a] >= a
  BY DEF Growing
<1>2. CASE f.at = "inner"
  <2>1. Within(f)
    BY <1>2 DEF FrameOK, Within
  <2>2. f.k <= Repeats(c, y, q)
    BY <1>2 DEF Placed
  <2>3. y \in MessageMember /\ y.name \in STRING
    BY <2>1, ItemType
  <2>4. After(c, f, p, x) =
           Ends(c, p, f.ty, f.i + 1)[Again(InnerEnds(c, y, q), Repeats(c, y, q) - f.k, x)]
    BY <1>2 DEF After
  <2> HIDE DEF y
  <2>5. q \in Seq(STRING)
    BY <2>3, AppendProperties
  <2> HIDE DEF q
  <2>6. Repeats(c, y, q) \in Nat
    BY <2>3, CapacityNat
  <2> DEFINE r == Repeats(c, y, q) - f.k
             h == InnerEnds(c, y, q)
             a == Again(h, r, x)
  <2>7. r \in Nat
    BY <1>0, <2>2, <2>6
  <2>8. h \in Growing
    BY <2>3, <2>5, InnerEndsGrow
  <2> HIDE DEF r, h
  <2>9. a \in Nat /\ a >= x
    BY <2>7, <2>8, AgainSteps
  <2> HIDE DEF a
  <2> DEFINE b == Ends(c, p, f.ty, f.i + 1)[a]
  <2>10. b \in Nat /\ b >= a
    BY <1>1, <1>g, <2>9
  <2>11. After(c, f, p, x) = b
    BY <2>4 DEF a, r, h
  <2> HIDE DEF b
  <2> QED BY <2>9, <2>10, <2>11
<1>3. CASE f.at # "inner"
  <2>1. After(c, f, p, x) \in {Ends(c, p, f.ty, f.i)[x], Ends(c, p, f.ty, f.i + 1)[x], x}
    BY <1>3 DEF After
  <2> DEFINE a == Ends(c, p, f.ty, f.i)[x]
             b == Ends(c, p, f.ty, f.i + 1)[x]
  <2>2. a \in Nat /\ a >= x /\ b \in Nat /\ b >= x
    BY <1>1, <1>g
  <2> HIDE DEF a, b
  <2>3. After(c, f, p, x) \in {a, b, x}
    BY <2>1 DEF a, b
  <2> QED BY <2>2, <2>3
<1> QED BY <1>2, <1>3

\* The index is below the end of the walk.
LEMMA LayoutBound ==
    ASSUME Laid, StackOK(stack), stack # << >>, NEW c \in Confs, Nested(stack, c),
           NEW x \in Nat, NEW end, Layout(c, stack, x, end)
    PROVE  end \in Nat /\ x <= end
<1> DEFINE n == Len(stack)
<1>1. PICK e \in [1..n -> Nat], u \in [1..n -> Nat] : Laying(c, stack, x, end, e, u)
  BY DEF Layout
<1>2. n \in Nat \ {0} /\ n \in 1..n /\ 1 \in 1..n /\ Top \in Frames /\ FrameOK(Top) /\ stack[n] = Top
  BY TopFrame DEF Top
<1>3. Path(stack, n) \in Seq(STRING) /\ Placed(c, Top, Path(stack, n))
  BY <1>2, NestedPath DEF Nested
<1>4. Ahead(c, stack, n, x) >= x /\ Ahead(c, stack, n, x) \in Nat
  BY <1>2, <1>3, AfterNat DEF Ahead
<1>5. e[n] <= end /\ e[n] = Ahead(c, stack, n, x) /\ end = e[1] /\ e[1] \in Nat
  BY <1>1, <1>2 DEF Laying
<1> HIDE DEF n
<1> QED BY <1>4, <1>5

\* The innermost frame goes on to index y.
LEMMA SetTopLayout ==
    ASSUME StackOK(stack), stack # << >>, NEW c, NEW x \in Nat, NEW y \in Nat, NEW end,
           Layout(c, stack, x, end), NEW f \in Frames, Same(f),
           After(c, f, Path(stack, Len(stack)), y) = After(c, Top, Path(stack, Len(stack)), x),
           f.used = Top.used + (y - x)
    PROVE  Layout(c, SetTop(f), y, end)
<1> DEFINE s == SetTop(f)
           n == Len(stack)
<1>1. PICK e \in [1..n -> Nat], u \in [1..n -> Nat] : Laying(c, stack, x, end, e, u)
  BY DEF Layout
<1>2. /\ n \in Nat \ {0} /\ Len(s) = n /\ s[n] = f /\ stack[n] = Top /\ n \in 1..n
      /\ \A j \in 1..(n - 1) : s[j] = stack[j]
      /\ Top \in Frames
  BY TopFrame, SetTopFrames DEF StackOK, Top
<1>3. ASSUME NEW j \in 1..n PROVE Path(s, j) = Path(stack, j)
  <2>1. j \in 1..(Len(stack) + 1) /\ j <= Len(stack)
    BY <1>2
  <2>2. j <= Len(stack) \/ (f.ty = Top.ty /\ f.i = Top.i)
    BY <2>1
  <2> QED BY <2>1, <2>2, SetTopPaths
<1> HIDE DEF s
<1>4. \A j \in 1..(n - 1) : j \in 1..n
  BY <1>2
<1>5. ASSUME NEW j \in 1..(n - 1), NEW z PROVE Ahead(c, s, j, z) = Ahead(c, stack, j, z)
  BY <1>2, <1>3, <1>4 DEF Ahead
<1>6. Ahead(c, s, n, y) = Ahead(c, stack, n, x)
  BY <1>2, <1>3 DEF Ahead
<1> HIDE DEF n
<1>7. /\ e[1] = end /\ e[n] = Ahead(c, stack, n, x)
      /\ \A j \in 1..(n - 1) : e[j] = Ahead(c, stack, j, e[j + 1])
      /\ \A j \in 1..n : e[j] <= end
      /\ u[1] = 0 /\ u[n] + stack[n].used = x
      /\ \A j \in 1..(n - 1) : u[j + 1] = u[j] + stack[j].used
  BY <1>1 DEF Laying, n
<1>8. u[n] + s[n].used = y
  <2>1. u[n] \in Nat /\ Top.used \in Nat /\ u[n] + Top.used = x
    BY <1>2, <1>7 DEF Frames
  <2> QED BY <1>2, <2>1
<1>9. \A j \in 1..(n - 1) : u[j + 1] = u[j] + s[j].used
  BY <1>2, <1>7
<1>10. \A j \in 1..(n - 1) : e[j] = Ahead(c, s, j, e[j + 1])
  BY <1>5, <1>7
<1>11. Laying(c, s, y, end, e, u)
  BY <1>2, <1>6, <1>7, <1>8, <1>9, <1>10 DEF Laying
<1> QED BY <1>2, <1>11 DEF Layout, s, n
-----------------------------------------------------------------------------
\* A frame is called, and the one that calls it goes on where it ends.
LEMMA PushLayout ==
    ASSUME StackOK(stack), stack # << >>, NEW c, NEW x \in Nat, NEW end,
           Layout(c, stack, x, end), NEW f \in Frames, Same(f), f.i = Top.i, f.used = Top.used,
           NEW g \in Frames, g.used = 0, NEW v \in Nat,
           v = After(c, g, Path(stack, Len(stack) + 1), x),
           After(c, f, Path(stack, Len(stack)), v) = After(c, Top, Path(stack, Len(stack)), x),
           After(c, f, Path(stack, Len(stack)), v) >= v
    PROVE  Layout(c, Append(SetTop(f), g), x, end)
<1> DEFINE t == SetTop(f)
           s == Append(t, g)
           n == Len(stack)
<1>1. PICK e \in [1..n -> Nat], u \in [1..n -> Nat] : Laying(c, stack, x, end, e, u)
  BY DEF Layout
<1>2. /\ n \in Nat \ {0} /\ t \in Seq(Frames) /\ Len(t) = n /\ t[n] = f /\ stack[n] = Top
      /\ \A j \in 1..(n - 1) : t[j] = stack[j]
      /\ Top \in Frames
  BY TopFrame, SetTopFrames DEF StackOK, Top
<1>3. ASSUME NEW j \in 1..(n + 1) PROVE Path(s, j) = Path(stack, j)
  BY PushPaths DEF Same
<1> HIDE DEF t
<1>4. Len(s) = n + 1 /\ s[n + 1] = g /\ \A j \in 1..n : s[j] = t[j]
  BY <1>2, PushFrames
<1> HIDE DEF s
<1>5. /\ n \in 1..n /\ n \in 1..(n + 1) /\ n + 1 \in 1..(n + 1) /\ 1 \in 1..n /\ 1 \in 1..(n + 1)
      /\ n + 1 \notin 1..n /\ (n + 1) - 1 = n
      /\ \A j \in 1..(n - 1) : j \in 1..n /\ j + 1 \in 1..n /\ j \in 1..(n + 1) /\ j + 1 \in 1..(n + 1)
      /\ \A j \in 1..n : j = n \/ j \in 1..(n - 1)
      /\ \A j \in 1..(n + 1) : j = n + 1 \/ j \in 1..n
      /\ \A j \in 1..n : j \in 1..(n + 1)
  BY <1>2
<1>6. ASSUME NEW j \in 1..(n - 1), NEW z
      PROVE  Ahead(c, s, j, z) = Ahead(c, stack, j, z) /\ s[j] = stack[j]
  <2>1. s[j] = stack[j] /\ Path(s, j) = Path(stack, j)
    BY <1>2, <1>3, <1>4, <1>5
  <2> QED BY <2>1 DEF Ahead
<1>7. /\ s[n] = f /\ Ahead(c, s, n + 1, x) = v
      /\ Ahead(c, s, n, v) = Ahead(c, stack, n, x) /\ Ahead(c, s, n, v) >= v
  BY <1>2, <1>3, <1>4, <1>5 DEF Ahead
<1> HIDE DEF n
<1>8. /\ e[1] = end /\ e[n] = Ahead(c, stack, n, x)
      /\ \A j \in 1..(n - 1) : e[j] = Ahead(c, stack, j, e[j + 1])
      /\ \A j \in 1..n : e[j] <= end
      /\ u[1] = 0 /\ u[n] + stack[n].used = x
      /\ \A j \in 1..(n - 1) : u[j + 1] = u[j] + stack[j].used
  BY <1>1 DEF Laying, n
<1> DEFINE d == [j \in 1..(n + 1) |-> IF j = n + 1 THEN v ELSE e[j]]
           w == [j \in 1..(n + 1) |-> IF j = n + 1 THEN x ELSE u[j]]
<1>9. d \in [1..(n + 1) -> Nat] /\ w \in [1..(n + 1) -> Nat]
  BY <1>5
<1>10. d[n + 1] = v /\ w[n + 1] = x /\ \A j \in 1..n : d[j] = e[j] /\ w[j] = u[j]
  BY <1>5
<1> HIDE DEF d, w
<1>11. d[1] = end /\ d[n + 1] = Ahead(c, s, n + 1, x) /\ w[1] = 0
  BY <1>5, <1>7, <1>8, <1>10
<1>12. ASSUME NEW j \in 1..n
       PROVE  d[j] = Ahead(c, s, j, d[j + 1]) /\ w[j + 1] = w[j] + s[j].used
  <2>1. CASE j = n
    <3>1. d[n] = Ahead(c, s, n, v)
      BY <1>5, <1>7, <1>8, <1>10
    <3>2. s[n].used = stack[n].used
      BY <1>2, <1>7
    <3>3. w[n] = u[n]
      BY <1>5, <1>10
    <3> QED BY <1>8, <1>10, <2>1, <3>1, <3>2, <3>3
  <2>2. CASE j \in 1..(n - 1)
    <3>1. d[j] = e[j] /\ d[j + 1] = e[j + 1] /\ w[j] = u[j] /\ w[j + 1] = u[j + 1]
      BY <1>5, <1>10, <2>2
    <3> QED BY <1>6, <1>8, <2>2, <3>1
  <2> QED BY <1>5, <2>1, <2>2
<1>13. ASSUME NEW j \in 1..(n + 1) PROVE d[j] <= end
  <2>1. CASE j = n + 1
    <3>1. e[n] >= v /\ e[n] <= end /\ e[n] \in Nat
      BY <1>5, <1>7, <1>8
    <3>2. end \in Nat
      BY <1>5, <1>8
    <3> QED BY <1>10, <2>1, <3>1, <3>2
  <2>2. CASE j \in 1..n
    BY <1>8, <1>10, <2>2
  <2> QED BY <1>5, <2>1, <2>2
<1>14. w[n + 1] + s[n + 1].used = x
  BY <1>4, <1>10
<1>15. Laying(c, s, x, end, d, w)
  BY <1>4, <1>5, <1>11, <1>12, <1>13, <1>14 DEF Laying
<1> QED BY <1>4, <1>9, <1>15 DEF Layout, s, t

\* A frame that is at its end returns what it has used.
LEMMA PopLayout ==
    ASSUME StackOK(stack), stack # << >>, NEW c, NEW x \in Nat, NEW end,
           Layout(c, stack, x, end), After(c, Top, Path(stack, Len(stack)), x) = x
    PROVE  Layout(c, Pop(Top.used), x, end)
<1> DEFINE s == Pop(Top.used)
           n == Len(stack)
<1>1. PICK e \in [1..n -> Nat], u \in [1..n -> Nat] : Laying(c, stack, x, end, e, u)
  BY DEF Layout
<1>2. /\ n \in Nat \ {0} /\ Top \in Frames /\ Top.used \in Nat /\ stack[n] = Top /\ n \in 1..n
      /\ \A j \in 1..n : stack[j] \in Frames
  <2>1. n \in Nat \ {0} /\ Top \in Frames /\ \A j \in 1..n : stack[j] \in Frames
    BY TopFrame, ElementOfSeq DEF StackOK
  <2>2. Top.used \in Nat
    BY <2>1 DEF Frames
  <2> QED BY <2>1, <2>2 DEF Top
<1>3. ASSUME NEW j \in 1..n PROVE Path(s, j) = Path(stack, j)
  BY <1>2, PopPaths
<1>4. e[n] = x
  BY <1>1, <1>2 DEF Laying, Ahead
<1>5. CASE n = 1
  <2>1. Len(s) = 1 /\ s[1] = [Top EXCEPT !.at = "done", !.used = Top.used]
    BY <1>2, <1>5, PopFrames DEF StackOK
  <2>2. s[1].at = "done" /\ s[1].used = Top.used
    BY <1>2, <2>1 DEF Frames
  <2> HIDE DEF s
  <2>3. Ahead(c, s, 1, x) = x
    BY <2>2 DEF Ahead, After
  <2>4. /\ e[1] = end /\ u[1] = 0 /\ u[1] + Top.used = x /\ e[1] <= end
    BY <1>1, <1>2, <1>5 DEF Laying
  <2>5. (\A j \in 1..1 : j = 1) /\ 1..(1 - 1) = {}
    OBVIOUS
  <2>6. Laying(c, s, x, end, e, u)
    BY <1>4, <1>5, <2>1, <2>2, <2>3, <2>4, <2>5 DEF Laying
  <2> QED BY <1>5, <2>1, <2>6 DEF Layout, s
<1>6. CASE n # 1
  <2> DEFINE b == n - 1
  <2>0. b \in Nat \ {0} /\ b \in 1..n /\ b < n
    BY <1>2, <1>6, Before
  <2>z. b + 1 = n /\ b - 1 = n - 2
    BY <1>2
  <2>1. /\ Len(s) = b /\ \A j \in 1..(b - 1) : s[j] = stack[j]
        /\ s[b] = [stack[b] EXCEPT !.used = @ + Top.used]
    BY <1>2, <1>6, <2>z, PopFrames DEF StackOK
  <2>2. /\ s[b].at = stack[b].at /\ s[b].ty = stack[b].ty
        /\ s[b].i = stack[b].i /\ s[b].k = stack[b].k
        /\ s[b].used = stack[b].used + Top.used /\ stack[b].used \in Nat
    <3>1. stack[b] \in Frames
      BY <1>2, <2>0
    <3> QED BY <2>1, <3>1 DEF Frames
  <2> HIDE DEF s, b
  <2>3. Ahead(c, s, b, x) = Ahead(c, stack, b, x)
    <3>1. Path(s, b) = Path(stack, b)
      BY <1>3, <2>0
    <3>2. Item(s[b]) = Item(stack[b])
      BY <2>2 DEF Item
    <3> QED BY <2>2, <3>1, <3>2 DEF Ahead, After
  <2>4. /\ b \in 1..b /\ 1 \in 1..b
        /\ \A j \in 1..(b - 1) : j \in 1..n /\ j + 1 \in 1..b /\ j \in 1..(n - 1) /\ j \in 1..b
        /\ \A j \in 1..b : j \in 1..n
        /\ b \in 1..(n - 1)
    BY <1>2, <2>0, <2>z
  <2>5. ASSUME NEW j \in 1..(b - 1), NEW z PROVE Ahead(c, s, j, z) = Ahead(c, stack, j, z)
    BY <1>3, <2>1, <2>4 DEF Ahead
  <2> HIDE DEF n
  <2>6. /\ e[1] = end
        /\ \A j \in 1..(n - 1) : e[j] = Ahead(c, stack, j, e[j + 1])
        /\ \A j \in 1..n : e[j] <= end
        /\ u[1] = 0 /\ u[n] + stack[n].used = x
        /\ \A j \in 1..(n - 1) : u[j + 1] = u[j] + stack[j].used
    BY <1>1 DEF Laying, n
  <2> DEFINE d == [j \in 1..b |-> e[j]]
             w == [j \in 1..b |-> u[j]]
  <2>7. /\ d \in [1..b -> Nat] /\ w \in [1..b -> Nat]
        /\ \A j \in 1..b : d[j] = e[j] /\ w[j] = u[j]
    BY <2>4
  <2> HIDE DEF d, w
  <2>8. d[1] = end /\ w[1] = 0 /\ \A j \in 1..b : d[j] <= end
    BY <2>4, <2>6, <2>7
  <2>9. d[b] = Ahead(c, s, b, x)
    <3>1. e[b] = Ahead(c, stack, b, e[b + 1])
      BY <2>4, <2>6
    <3> QED BY <1>4, <2>3, <2>4, <2>7, <2>z, <3>1
  <2>10. w[b] + s[b].used = x
    <3>1. u[b + 1] = u[b] + stack[b].used
      BY <2>4, <2>6
    <3>2. u[n] = u[b] + stack[b].used /\ u[b] \in Nat /\ u[n] + Top.used = x
      BY <1>2, <2>0, <2>6, <2>z, <3>1
    <3>3. w[b] = u[b]
      BY <2>4, <2>7
    <3> QED BY <1>2, <2>2, <3>2, <3>3
  <2>11. ASSUME NEW j \in 1..(b - 1)
         PROVE  d[j] = Ahead(c, s, j, d[j + 1]) /\ w[j + 1] = w[j] + s[j].used
    <3>1. d[j] = e[j] /\ d[j + 1] = e[j + 1] /\ w[j] = u[j] /\ w[j + 1] = u[j + 1]
      BY <2>4, <2>7
    <3>2. e[j] = Ahead(c, stack, j, e[j + 1]) /\ u[j + 1] = u[j] + stack[j].used
      BY <2>4, <2>6
    <3> QED BY <2>1, <2>5, <3>1, <3>2
  <2>12. Laying(c, s, x, end, d, w)
    BY <2>1, <2>8, <2>9, <2>10, <2>11 DEF Laying
  <2> QED BY <2>1, <2>7, <2>12 DEF Layout, s
<1> QED BY <1>5, <1>6

\* A walk begins with everything still to lay out.
LEMMA FirstLayout ==
    ASSUME Laid, NEW c \in Confs, NEW s, NEW root \in DOMAIN Types, Len(s) = 1,
           s[1].ty = root, s[1].at = "name", s[1].i = 1, s[1].used = 0
    PROVE  Layout(c, s, 0, Ends(c, << >>, root, 1)[0])
<1> DEFINE end == Ends(c, << >>, root, 1)[0]
<1>1. Path(s, 1) = << >> /\ << >> \in Seq(STRING) /\ 1 \in Nat /\ 0 \in Nat
  BY PathFirst
<1>2. Ends(c, << >>, root, 1) \in Growing
  BY <1>1, EndsSum
<1>3. end \in Nat
  BY <1>2 DEF Growing
<1>4. Ahead(c, s, 1, 0) = end
  BY <1>1 DEF Ahead, After
<1> HIDE DEF end
<1> DEFINE e == [j \in 1..1 |-> end]
           u == [j \in 1..1 |-> 0]
<1>5. /\ e \in [1..1 -> Nat] /\ u \in [1..1 -> Nat] /\ e[1] = end /\ u[1] = 0
      /\ \A j \in 1..1 : j = 1
      /\ 1..(1 - 1) = {} /\ end <= end
  BY <1>3
<1> HIDE DEF e, u
<1>6. Laying(c, s, 0, end, e, u)
  BY <1>4, <1>5 DEF Laying
<1> QED BY <1>5, <1>6 DEF Layout, end

\* A walk that has ended has used the index, and is where it should end.
LEMMA LastLayout ==
    ASSUME TypeInv, NestInv, stack # << >>, Top.at = "done", NEW c, NEW x, NEW end,
           Layout(c, stack, x, end)
    PROVE  Top.used = x /\ end = x
<1>1. StackOK(stack) /\ Nested(stack, call.conf) /\ Len(stack) \in Nat \ {0} /\ Top \in Frames
  BY TopFrame DEF TypeInv, NestInv
<1>2. Len(stack) = 1 /\ Top = stack[1] /\ Top.used \in Nat
  BY <1>1 DEF Nested, Top, Frames
<1>3. PICK e \in [1..1 -> Nat], u \in [1..1 -> Nat] : Laying(c, stack, x, end, e, u)
  BY <1>2 DEF Layout
<1>4. Ahead(c, stack, 1, x) = x
  BY <1>2 DEF Ahead, After
<1>5. e[1] = end /\ e[1] = x /\ u[1] = 0 /\ u[1] + Top.used = x
  BY <1>2, <1>3, <1>4 DEF Laying
<1> QED BY <1>2, <1>5
-----------------------------------------------------------------------------
\* The bytes that a message needs in a buffer, as the configuration says.
Total(c) == Ends(c.conf, << >>, c.root, 1)[0]

\* Both walks of create_static end at the same index, and the second one begins only
\* if the buffer is as long.
LayInv ==
    /\ stack # << >> /\ op \in {"static_size", "create_static"} =>
          Layout(call.conf, stack, index, Total(call))
    /\ call.api = "create_static" /\ op \in {"none", "create_static"} =>
          calculated = Total(call)
    /\ op = "create_static" => /\ calculated <= call.len
                               /\ stack = << >> => index = 0

LEMMA LaySame ==
    ASSUME LayInv, UNCHANGED callVars, UNCHANGED <<stack, index>>
    PROVE  LayInv'
<1>1. call' = call /\ op' = op /\ calculated' = calculated
  BY DEF callVars
<1> QED BY <1>1 DEF LayInv

LEMMA LayKept ==
    ASSUME LayInv, stack # << >>, stack' # << >>, UNCHANGED callVars,
           op \in {"static_size", "create_static"} =>
              Layout(call.conf, stack', index', Total(call))
    PROVE  LayInv'
<1>1. call' = call /\ op' = op /\ calculated' = calculated
  BY DEF callVars
<1> QED BY <1>1 DEF LayInv

\* Where a frame at a member ends, step by step.
LEMMA AfterSteps ==
    ASSUME Laid, NEW c \in Confs, NEW f \in Frames, FrameOK(f), Within(f),
           NEW p \in Seq(STRING), NEW x \in Nat
    PROVE  LET y == Item(f)
               q == Append(p, y.name)
               h == InnerEnds(c, y, q)
           IN  /\ Repeats(c, y, q) \in Nat /\ h \in Growing /\ Lay(c, y, q, x) \in Nat
               /\ Lay(c, y, q, x) >= x
               /\ Ends(c, p, f.ty, f.i + 1) \in Growing
               /\ Ends(c, p, f.ty, f.i)[x] =
                    Ends(c, p, f.ty, f.i + 1)[Again(h, Repeats(c, y, q), Lay(c, y, q, x))]
<1> DEFINE y == Item(f)
           q == Append(p, y.name)
<1>1. f.ty \in DOMAIN Types /\ f.i \in Nat /\ f.i + 1 \in Nat /\ Len(Types[f.ty]) \in Nat
  BY MessageAssumption, LenProperties DEF Frames, MessageAssumption
<1>2. f.i \in 1..Len(Types[f.ty])
  BY <1>1 DEF FrameOK, Within
<1>3. y \in MessageMember /\ y.name \in STRING
  BY ItemType
<1>4. Ends(c, p, f.ty, f.i)[x] =
        Ends(c, p, f.ty, f.i + 1)[Again(InnerEnds(c, y, q), Repeats(c, y, q), Lay(c, y, q, x))]
  BY <1>1, <1>2, EndsSum DEF Item
<1>5. Ends(c, p, f.ty, f.i + 1) \in Growing
  BY <1>1, EndsSum
<1> HIDE DEF y
<1>6. q \in Seq(STRING)
  BY <1>3, AppendProperties
<1> HIDE DEF q
<1>7. /\ Repeats(c, y, q) \in Nat /\ InnerEnds(c, y, q) \in Growing /\ Lay(c, y, q, x) \in Nat
      /\ Lay(c, y, q, x) >= x
  BY <1>3, <1>6, CapacityNat, InnerEndsGrow, LayNat
<1> QED BY <1>4, <1>5, <1>7 DEF y, q

LEMMA WalkLay ==
    ASSUME Laid, TypeInv, NameInv, NestInv, LayInv,
           PushName \/ Plain \/ Allocate \/ Preallocate \/ Count \/ Descend \/ Release
              \/ PopName \/ Return
    PROVE  LayInv'
<1> DEFINE c == call.conf
           n == Len(stack)
           p == Path(stack, n)
           q == Path(stack, n + 1)
           static == op \in {"static_size", "create_static"}
           here == Layout(c, stack, index, Total(call))
           there == Layout(c, stack', index', Total(call))
<1>0. /\ stack # << >> /\ UNCHANGED callVars /\ StackOK(stack) /\ call \in Calls
      /\ n \in Nat \ {0} /\ n \in 1..n /\ stack[n] = Top /\ Nested(stack, c)
      /\ Top \in Frames /\ FrameOK(Top) /\ index \in Nat /\ Top.used \in Nat
  <2>1. stack # << >> /\ UNCHANGED callVars
    BY DEF PushName, Plain, Allocate, Preallocate, Count, Descend, Release, PopName, Return,
           Walking
  <2>2. StackOK(stack) /\ call \in Calls /\ Nested(stack, c) /\ index \in Nat
    BY <2>1 DEF TypeInv, CallOK, CountOK, NestInv
  <2>3. n \in Nat \ {0} /\ Top \in Frames /\ FrameOK(Top)
    BY <2>1, <2>2, TopFrame
  <2>4. Top.used \in Nat
    BY <2>3 DEF Frames
  <2> QED BY <2>1, <2>2, <2>3, <2>4 DEF Top
<1>c. c \in Confs
  BY <1>0 DEF Calls
<1>l. static => here
  BY <1>0 DEF LayInv
<1>k. ASSUME static => there, stack' # << >> PROVE LayInv'
  BY <1>0, <1>k, LayKept
<1>1. CASE UNCHANGED <<stack, index>>
  BY <1>0, <1>1, LaySame
<1>e. \A f \in Frames : SetTop(f) # << >>
  <2>1. \A f \in Frames : Len(SetTop(f)) = n
    BY <1>0, SetTopFrames DEF StackOK
  <2> QED BY <1>0, <2>1
<1>2. ASSUME NEW f \in Frames, Same(f), stack' = SetTop(f),
             static => /\ index' \in Nat /\ f.used = Top.used + (index' - index)
                       /\ After(c, f, p, index') = After(c, Top, p, index)
      PROVE  LayInv'
  <2>1. ASSUME static PROVE there
    <3>1. /\ index' \in Nat /\ f.used = Top.used + (index' - index)
          /\ After(c, f, p, index') = After(c, Top, p, index)
      BY <1>2, <2>1
    <3> QED BY <1>0, <1>2, <1>l, <2>1, <3>1, SetTopLayout
  <2> QED BY <1>2, <1>e, <1>k, <2>1
<1>z. Top.used = Top.used + (index - index)
  BY <1>0
<1>3. CASE PushName
  <2>1. UNCHANGED index /\ Top.at = "name"
    BY <1>3 DEF PushName, Fault, Walking
  <2>2. ASSUME NEW f \in Frames, stack' = SetTop(f), Same(f), f.at = "memory",
               f.i = Top.i, f.used = Top.used
        PROVE  LayInv'
    <3>1. After(c, f, p, index) = After(c, Top, p, index)
      BY <2>1, <2>2 DEF After, Same
    <3> QED BY <1>0, <1>2, <1>z, <2>1, <2>2, <3>1
  <2> QED BY <1>1, <1>3, <2>1, <2>2, PushNameFrame
<1>w. ASSUME NEW at, Walking(at)
      PROVE  /\ m = Item(Top) /\ q = Append(p, m.name) /\ p \in Seq(STRING) /\ q \in Seq(STRING)
             /\ Repeats(c, m, q) \in Nat /\ InnerEnds(c, m, q) \in Growing /\ Top.at = at
             /\ Ends(c, p, Top.ty, Top.i + 1) \in Growing
             /\ Placed(c, Top, p)
             /\ Lay(c, m, q, index) \in Nat
             /\ Ends(c, p, Top.ty, Top.i)[index] =
                  Ends(c, p, Top.ty, Top.i + 1)
                    [Again(InnerEnds(c, m, q), Repeats(c, m, q), Lay(c, m, q, index))]
  <2>1. /\ m = Item(Top) /\ q = Append(p, m.name) /\ p \in Seq(STRING) /\ q \in Seq(STRING)
        /\ Within(Top) /\ Placed(c, Top, p)
    BY <1>w, PlaceFinds
  <2>2. Top.at = at
    BY <1>w DEF Walking
  <2> DEFINE x == index
             f == Top
  <2> HIDE DEF c, n, p, q
  <2>3. x \in Nat /\ c \in Confs /\ f \in Frames /\ FrameOK(f) /\ Within(f) /\ p \in Seq(STRING)
    BY <1>0, <1>c, <2>1
  <2> HIDE DEF x, f
  <2>4. LET y == Item(f)
            o == Append(p, y.name)
            h == InnerEnds(c, y, o)
        IN  /\ Repeats(c, y, o) \in Nat /\ h \in Growing /\ Lay(c, y, o, x) \in Nat
            /\ Lay(c, y, o, x) >= x
            /\ Ends(c, p, f.ty, f.i + 1) \in Growing
            /\ Ends(c, p, f.ty, f.i)[x] =
                 Ends(c, p, f.ty, f.i + 1)[Again(h, Repeats(c, y, o), Lay(c, y, o, x))]
    BY <2>3, AfterSteps
  <2> QED BY <2>1, <2>2, <2>4 DEF x, f
<1>4. CASE Plain \/ Allocate \/ Preallocate \/ Count
  <2>0. Walking("memory")
    BY <1>4 DEF Plain, Allocate, Preallocate, Count
  <2>1. /\ m = Item(Top) /\ q = Append(p, m.name) /\ Top.at = "memory"
        /\ Repeats(c, m, q) \in Nat /\ Lay(c, m, q, index) \in Nat
        /\ Ends(c, p, Top.ty, Top.i)[index] =
             Ends(c, p, Top.ty, Top.i + 1)
               [Again(InnerEnds(c, m, q), Repeats(c, m, q), Lay(c, m, q, index))]
    BY <1>w, <2>0
  <2>2. After(c, Top, p, index) = Ends(c, p, Top.ty, Top.i)[index]
    BY <2>1 DEF After
  <2>3. ASSUME NEW f \in Frames, Entered(f) PROVE LayInv'
    <3>1. stack' = SetTop(f) /\ Same(f) /\ f.at = "inner" /\ f.i = Top.i /\ f.k = 0
      BY <2>3 DEF Entered
    <3>2. ASSUME static
          PROVE  /\ index' \in Nat /\ f.used = Top.used + (index' - index)
                 /\ After(c, f, p, index') = After(c, Top, p, index)
      <4>1. index' = Lay(c, m, q, index) /\ f.used = Top.used + (index' - index)
        BY <2>3, <3>2 DEF Entered, Needs, Lay
      <4>2. Item(f) = m /\ f.ty = Top.ty
        BY <2>1, <3>1 DEF Item, Same
      <4>3. Repeats(c, m, q) - 0 = Repeats(c, m, q)
        BY <2>1
      <4>4. After(c, f, p, index') =
              Ends(c, p, Top.ty, Top.i + 1)
                [Again(InnerEnds(c, m, q), Repeats(c, m, q) - 0, index')]
        BY <2>1, <3>1, <4>2 DEF After
      <4> HIDE DEF c, n, p, q
      <4> QED BY <2>1, <2>2, <4>1, <4>3, <4>4
    <3> HIDE DEF static, c, p
    <3> QED BY <1>2, <3>1, <3>2
  <2>4. CASE Allocate /\ stack' = Pop(0)
    <3>1. op = "create" /\ op' = op /\ call' = call
      BY <1>0, <2>4 DEF Allocate, callVars
    <3>2. call.api = "create"
      BY <1>0, <3>1 DEF NestInv, FirstWalk
    <3> QED BY <3>1, <3>2 DEF LayInv
  <2> QED BY <1>4, <2>3, <2>4, MemoryFrame
<1>5. CASE Descend
  <2>0. Walking("inner") /\ Top.k < Times /\ UNCHANGED index
    BY <1>5 DEF Descend, Fault
  <2>1. /\ m = Item(Top) /\ q = Append(p, m.name) /\ p \in Seq(STRING) /\ q \in Seq(STRING)
        /\ Top.at = "inner" /\ Placed(c, Top, p)
        /\ Repeats(c, m, q) \in Nat /\ InnerEnds(c, m, q) \in Growing
        /\ Ends(c, p, Top.ty, Top.i + 1) \in Growing
    BY <1>w, <2>0
  <2>c. Composed(m) /\ Top.k \in Nat
    BY <1>0, <2>0, WalkFinds DEF Times
  <2>t. Top.k < Repeats(c, m, q)
    <3>1. NeedsMemory(m) => Top.n = Capacity(c, m, q)
      BY <2>1 DEF Placed
    <3> QED BY <2>0, <3>1 DEF Times, Repeats, NeedsMemory
  <2>2. After(c, Top, p, index) =
          Ends(c, p, Top.ty, Top.i + 1)
            [Again(InnerEnds(c, m, q), Repeats(c, m, q) - Top.k, index)]
    BY <2>1 DEF After
  <2>3. ASSUME NEW f \in Frames, NEW g \in Frames, stack' = Append(SetTop(f), g), Same(f),
               f.at = "inner", f.i = Top.i, f.used = Top.used, f.k = Top.k + 1,
               g.ty = m.type, g.at = "name", g.i = 1, g.used = 0
        PROVE  LayInv'
    <3> DEFINE h == InnerEnds(c, m, q)
               r == Repeats(c, m, q) - (Top.k + 1)
               v == h[index]
               E == Ends(c, p, Top.ty, Top.i + 1)
    <3>1. Item(f) = m /\ f.ty = Top.ty
      BY <2>1, <2>3 DEF Item, Same
    <3>2. After(c, f, p, v) = E[Again(h, r, v)]
      BY <2>1, <2>3, <3>1 DEF After
    <3>3. v = After(c, g, q, index)
      BY <2>3, <2>c DEF After, InnerEnds
    <3>4. After(c, Top, p, index) = E[Again(h, Repeats(c, m, q) - Top.k, index)]
      BY <2>2
    <3>5. r \in Nat /\ Repeats(c, m, q) - Top.k = r + 1
      BY <2>1, <2>c, <2>t
    <3>6. h \in Growing /\ E \in Growing
      BY <2>1
    <3> HIDE DEF c, p, q, h, r, E
    <3>7. /\ v \in Nat /\ Again(h, r + 1, index) = Again(h, r, v)
          /\ Again(h, r, v) \in Nat /\ Again(h, r, v) >= v
      <4>1. v \in Nat /\ Again(h, r + 1, index) = Again(h, r, v)
        BY <1>0, <3>5, <3>6, AgainSteps
      <4> HIDE DEF v
      <4> QED BY <3>5, <3>6, <4>1, AgainSteps
    <3> HIDE DEF v
    <3>8. After(c, f, p, v) = After(c, Top, p, index)
      BY <3>2, <3>4, <3>5, <3>7
    <3>9. After(c, f, p, v) >= v
      <4> DEFINE a == Again(h, r, v)
                 b == E[a]
      <4>1. a \in Nat /\ a >= v
        BY <3>7
      <4> HIDE DEF a
      <4>2. b \in Nat /\ b >= a
        BY <3>6, <4>1 DEF Growing
      <4>3. After(c, f, p, v) = b
        BY <3>2 DEF a
      <4> HIDE DEF b
      <4> QED BY <3>7, <4>1, <4>2, <4>3
    <3>10. ASSUME here PROVE Layout(c, Append(SetTop(f), g), index, Total(call))
      BY <1>0, <2>3, <3>3, <3>7, <3>8, <3>9, <3>10, PushLayout DEF p, q
    <3>11. static => there
      BY <1>l, <2>0, <2>3, <3>10
    <3>12. stack' # << >>
      <4>1. SetTop(f) \in Seq(Frames)
        BY <1>0, SetTopFrames DEF StackOK
      <4> QED BY <2>3, <4>1
    <3> HIDE DEF static, there
    <3> QED BY <1>k, <3>11, <3>12
  <2> QED BY <1>1, <1>5, <2>0, <2>3, DescendFrame
<1>6. CASE Release
  <2>0. Walking("inner") /\ Top.k = Times /\ UNCHANGED index
    BY <1>6 DEF Release
  <2>1. /\ m = Item(Top) /\ q = Append(p, m.name) /\ Top.at = "inner" /\ Placed(c, Top, p)
        /\ Repeats(c, m, q) \in Nat /\ InnerEnds(c, m, q) \in Growing
    BY <1>w, <2>0
  <2>2. After(c, Top, p, index) =
          Ends(c, p, Top.ty, Top.i + 1)
            [Again(InnerEnds(c, m, q), Repeats(c, m, q) - Top.k, index)]
    BY <2>1 DEF After
  <2>3. Top.k = Repeats(c, m, q)
    <3>2. NeedsMemory(m) => Top.n = Capacity(c, m, q)
      BY <2>1 DEF Placed
    <3> QED BY <2>0, <3>2 DEF Times, Repeats, NeedsMemory
  <2>4. ASSUME NEW f \in Frames, stack' = SetTop(f), Same(f), f.at = "pop", f.i = Top.i,
               f.used = Top.used
        PROVE  LayInv'
    <3>1. After(c, f, p, index) = Ends(c, p, Top.ty, Top.i + 1)[index]
      BY <2>4 DEF After, Same
    <3>2. Repeats(c, m, q) - Top.k = 0
      BY <2>1, <2>3
    <3> HIDE DEF c, n, p, q
    <3>3. Again(InnerEnds(c, m, q), 0, index) = index
      BY <1>0, <2>1, AgainSteps
    <3>4. After(c, f, p, index) = After(c, Top, p, index)
      BY <2>2, <3>1, <3>2, <3>3
    <3> QED BY <1>0, <1>2, <1>z, <2>0, <2>4, <3>4
  <2> QED BY <1>1, <1>6, <2>0, <2>4, ReleaseFrame
<1>7. CASE PopName
  <2>0. Top.at = "pop" /\ UNCHANGED index
    BY <1>7 DEF PopName, Walking
  <2>1. ASSUME NEW f \in Frames, stack' = SetTop(f), Same(f), f.at = "name",
               f.i = Top.i + 1, f.used = Top.used
        PROVE  LayInv'
    <3>1. After(c, f, p, index) = After(c, Top, p, index)
      BY <2>0, <2>1 DEF After, Same
    <3> QED BY <1>0, <1>2, <1>z, <2>0, <2>1, <3>1
  <2> QED BY <1>1, <1>7, <2>0, <2>1, PopNameFrame
<1>8. CASE Return
  <2>1. /\ stack' = Pop(Top.used) /\ Top.at = "name" /\ Top.i > Len(Types[Top.ty])
        /\ UNCHANGED index
    BY <1>8 DEF Return, members
  <2>2. After(c, Top, p, index) = index
    <3>1. Top.ty \in DOMAIN Types /\ Top.i \in Nat /\ p \in Seq(STRING)
      BY <1>0, NestedPath DEF Frames
    <3>2. After(c, Top, p, index) = Ends(c, p, Top.ty, Top.i)[index]
      BY <2>1 DEF After
    <3> HIDE DEF c, n, p, q
    <3> QED BY <1>0, <1>c, <2>1, <3>1, <3>2, EndsSum
  <2>3. static => there
    BY <1>0, <1>l, <2>1, <2>2, PopLayout
  <2>4. stack' # << >>
    <3>0. stack \in Seq(Frames) /\ Top.used \in Nat /\ stack # << >>
      BY <1>0 DEF StackOK
    <3>1. n = 1 => Len(stack') = 1
      BY <2>1, <3>0, PopFrames
    <3>2. n # 1 => Len(stack') = n - 1
      BY <2>1, <3>0, PopFrames
    <3>3. n \in Nat \ {0}
      BY <1>0
    <3> HIDE DEF n
    <3>4. Len(stack') # 0
      BY <3>1, <3>2, <3>3
    <3> QED BY <3>4
  <2> HIDE DEF static, there
  <2> QED BY <1>k, <2>3, <2>4
<1> QED BY <1>3, <1>4, <1>5, <1>6, <1>7, <1>8
-----------------------------------------------------------------------------
LEMMA CallLay ==
    ASSUME Laid, TypeInv, LayInv, Sizes \/ Create \/ CreateStatic \/ Destroy
    PROVE  LayInv'
<1>1. PICK c \in Calls : Call(c.api, c.root, c.conf, c.len)
  BY CallTypes
<1>2. /\ stack = << >> /\ Walk(FirstWalk(c.api), c.root, c.conf.rules)
      /\ call' = [api |-> c.api, root |-> c.root, conf |-> c.conf, len |-> c.len]
      /\ index' = IF FirstWalk(c.api) = "static_size" THEN 0 ELSE index
  BY <1>1 DEF Call, TypeInv, CallOK
<1>3. call'.root = c.root /\ call'.conf = c.conf /\ call'.api = c.api
  BY <1>2
<1>4. op' = FirstWalk(c.api) /\ op' \notin {"none", "create_static"}
  BY <1>2, FirstFrame, FirstWalkApi DEF Apis
<1>5. c.conf \in Confs /\ c.root \in DOMAIN Types
  BY MessageAssumption DEF Calls, MessageAssumption
<1>6. ASSUME stack' # << >>, op' = "static_size"
      PROVE  Layout(call'.conf, stack', index', Total(call'))
  <2>1. index' = 0
    BY <1>2, <1>4, <1>6
  <2>2. Layout(c.conf, stack', 0, Ends(c.conf, << >>, c.root, 1)[0])
    BY <1>2, <1>5, <1>6, FirstFrame, FirstLayout
  <2> QED BY <1>3, <2>1, <2>2 DEF Total
<1> QED BY <1>4, <1>6 DEF LayInv

LEMMA SecondWalkLay ==
    ASSUME Laid, TypeInv, NestInv, LayInv, SecondWalk
    PROVE  LayInv'
<1>1. /\ stack = << >> /\ call \in Calls /\ op = "none" /\ UNCHANGED calculated
      /\ call.api \in {"create", "create_static", "destroy"}
  BY DEF SecondWalk, TypeInv, CallOK, NestInv
<1>2. CASE call' = Idle /\ UNCHANGED <<walkVars, op, name_tree>>
  BY <1>1, <1>2 DEF LayInv, walkVars, Idle
<1>3. CASE /\ call.api = "create_static" => calculated <= call.len
           /\ Walk(call.api, call.root, call.conf.rules) /\ UNCHANGED call
           /\ call.api = "create_static" => index' = 0
  <2>1. op' = call.api
    BY <1>3, FirstFrame
  <2>2. call.conf \in Confs /\ call.root \in DOMAIN Types
    BY <1>1, MessageAssumption DEF Calls, MessageAssumption
  <2>3. CASE call.api # "create_static"
    BY <1>1, <1>3, <2>1, <2>3 DEF LayInv
  <2>4. CASE call.api = "create_static"
    <3>1. stack' # << >> => Layout(call.conf, stack', 0, Total(call))
      BY <1>1, <1>3, <2>2, FirstFrame, FirstLayout DEF Total
    <3>2. calculated = Total(call)
      BY <1>1, <2>4 DEF LayInv
    <3> QED BY <1>1, <1>3, <2>1, <2>4, <3>1, <3>2 DEF LayInv
  <2> QED BY <2>3, <2>4
<1> QED BY <1>2, <1>3 DEF SecondWalk

\* What a walk over a buffer has counted when it ends.
LEMMA WalkTotal ==
    ASSUME TypeInv, NestInv, LayInv, stack # << >>, Top.at = "done",
           op \in {"static_size", "create_static"}
    PROVE  Top.used = Total(call) /\ index = Total(call)
<1>1. Layout(call.conf, stack, index, Total(call))
  BY DEF LayInv
<1> QED BY <1>1, LastLayout

LEMMA EndWalkLay ==
    ASSUME TypeInv, NestInv, LayInv, EndWalk
    PROVE  LayInv'
<1>1. stack # << >> /\ Top.at = "done" /\ op \in {FirstWalk(call.api), call.api} /\ UNCHANGED index
  BY DEF EndWalk, NestInv, Fault
<1>2. CASE Fault("name") /\ UNCHANGED callVars
  BY <1>2, LaySame DEF Fault
<1>3. CASE stack' = << >> /\ op' = "none" /\ call' = Idle
  BY <1>3 DEF LayInv, Idle
<1>4. CASE /\ stack' = << >> /\ op' = "none" /\ UNCHANGED call /\ calculated' = Top.used
           /\ op = FirstWalk(call.api)
  <2>1. CASE call.api = "create_static"
    <3>1. op = "static_size"
      BY <1>4, <2>1 DEF FirstWalk
    <3>2. Top.used = Total(call)
      BY <1>1, <3>1, WalkTotal
    <3> QED BY <1>4, <3>2 DEF LayInv
  <2>2. CASE call.api # "create_static"
    BY <1>4, <2>2 DEF LayInv
  <2> QED BY <2>1, <2>2
<1> QED BY <1>2, <1>3, <1>4 DEF EndWalk

LEMMA LayStep ==
    Laid /\ TypeInv /\ NameInv /\ NestInv /\ LayInv /\ [Next]_vars => LayInv'
<1> SUFFICES ASSUME Laid, TypeInv, NameInv, NestInv, LayInv, [Next]_vars PROVE LayInv'
  OBVIOUS
<1>1. CASE UNCHANGED vars
  BY <1>1, LaySame DEF vars, walkVars
<1> QED BY <1>1, WalkLay, CallLay, SecondWalkLay, EndWalkLay DEF Next

LEMMA LayInvariance == ~Moves /\ Acyclic => (Spec => []LayInv)
<1> SUFFICES ASSUME ~Moves, Acyclic PROVE Spec => []LayInv
  OBVIOUS
<1>0. Laid
  BY AcyclicLaid
<1>1. Init => LayInv
  BY DEF Init, LayInv, Idle
<1>2. TypeInv /\ NameInv /\ NestInv /\ LayInv /\ [Next]_vars => LayInv'
  BY <1>0, LayStep
<1> QED BY <1>1, <1>2, TypeInvariance, NameInvariance, NestInvariance, PTL DEF Spec

\* Where reallocate does not move blocks and no type contains itself, create returns
\* true only if no allocation of any bytes failed, and false only if some allocation
\* failed: a frame that gives up returns less than the first walk has counted for it
\* unless there was nothing to count, and no later frame makes up for it.
THEOREM CreateTruthful == ~Moves /\ Acyclic => (Spec => []CreateHonest)
<1> SUFFICES ASSUME ~Moves, Acyclic PROVE Spec => []CreateHonest
  OBVIOUS
<1>1. Spec => []BalInv
  BY AcyclicMeasured, BalInvariance
<1>2. BalInv => CreateHonest
  BY DEF BalInv
<1> QED BY <1>1, <1>2, PTL

\* Under the same conditions the pieces that create_static takes from a buffer are
\* aligned, disjoint and inside it: the second walk asks get_static_memory for the same
\* sizes in the same order as the first, so that it pads alike and ends where the first
\* has ended, which was checked against the length of the buffer.
THEOREM ArenaStaysSound == ~Moves /\ Acyclic => (Spec => []ArenaSound)
<1> SUFFICES ASSUME ~Moves, Acyclic PROVE Spec => []ArenaSound
  OBVIOUS
<1>1. TypeInv /\ NestInv /\ LayInv /\ PiecesApart => ArenaSound
  <2> SUFFICES ASSUME TypeInv, NestInv, LayInv, op = "create_static" PROVE index <= call.len
    BY DEF ArenaSound
  <2>1. call # Idle /\ call \in Calls
    BY DEF NestInv, TypeInv, CallOK
  <2>2. call.conf \in Confs /\ call.len \in Nat /\ calculated <= call.len /\ calculated \in Nat
    BY <2>1 DEF Calls, LayInv, TypeInv, CountOK
  <2>3. CASE stack = << >>
    BY <2>2, <2>3 DEF LayInv
  <2>4. CASE stack # << >>
    <3>1. call.api = "create_static" /\ Nested(stack, call.conf)
      BY <2>4 DEF NestInv, FirstWalk
    <3>2. calculated = Total(call) /\ Layout(call.conf, stack, index, Total(call))
      BY <2>4, <3>1 DEF LayInv
    <3>3. StackOK(stack) /\ index \in Nat /\ Laid
      BY AcyclicLaid DEF TypeInv, CountOK
    <3>4. Total(call) \in Nat /\ index <= Total(call)
      BY <2>2, <2>4, <3>1, <3>2, <3>3, LayoutBound
    <3> QED BY <2>2, <3>2, <3>3, <3>4
  <2> QED BY <2>3, <2>4
<1> QED BY <1>1, TypeInvariance, NestInvariance, LayInvariance, PiecesStayApart, PTL

\* Under the same conditions create_static returns true if and only if the buffer is at
\* least as long as the first walk has calculated: the comparison at its end never fails.
THEOREM StaticTruthful == ~Moves /\ Acyclic => (Spec => StaticHonest)
<1> SUFFICES ASSUME ~Moves, Acyclic PROVE Spec => StaticHonest
  OBVIOUS
<1> DEFINE A == call.api = "create_static" /\ call' = Idle => (rv' = 1 <=> calculated <= call.len)
<1>1. TypeInv /\ NestInv /\ LayInv /\ [Next]_vars => [A]_vars
  <2> SUFFICES ASSUME TypeInv, NestInv, LayInv, Next, call.api = "create_static", call' = Idle
               PROVE  rv' = 1 <=> calculated <= call.len
    OBVIOUS
  <2>1. call # Idle /\ call \in Calls
    BY DEF Idle, TypeInv, CallOK
  <2>2. call.len \in Nat /\ calculated \in Nat
    BY <2>1 DEF Calls, TypeInv, CountOK
  <2>3. CASE SecondWalk
    BY <2>1, <2>2, <2>3 DEF SecondWalk
  <2>4. CASE EndWalk
    <3>1. /\ stack # << >> /\ Top.at = "done" /\ op \in {"static_size", "create_static"}
      BY <2>4 DEF EndWalk, NestInv, FirstWalk
    <3>2. op = "create_static" /\ rv' = IF Top.used = calculated /\ Top.used = index THEN 1 ELSE 0
      BY <2>1, <2>4, <3>1 DEF EndWalk, callVars, FirstWalk
    <3>3. calculated = Total(call) /\ calculated <= call.len
      BY <3>2 DEF LayInv
    <3>4. Top.used = Total(call) /\ index = Total(call)
      BY <3>1, WalkTotal
    <3> QED BY <3>2, <3>3, <3>4
  <2>5. ASSUME UNCHANGED call PROVE FALSE
    BY <2>1, <2>5
  <2>6. CASE Sizes \/ Create \/ CreateStatic \/ Destroy
    BY <2>1, <2>6 DEF Sizes, Create, CreateStatic, Destroy, Call
  <2>7. CASE PushName \/ Plain \/ Allocate \/ Preallocate \/ Count \/ Descend
                \/ Release \/ PopName \/ Return
    <3>1. UNCHANGED callVars
      BY <2>7 DEF PushName, Plain, Allocate, Preallocate, Count, Descend, Release, PopName, Return
    <3> QED BY <2>5, <3>1 DEF callVars
  <2> QED BY <2>3, <2>4, <2>6, <2>7 DEF Next
<1> QED BY <1>1, TypeInvariance, NestInvariance, LayInvariance, PTL DEF Spec, StaticHonest
=============================================================================
