-------------------------- MODULE MessageTreeProofs --------------------------
(***************************************************************************)
(* What a message that was created holds, for every set of message types   *)
(* and rules, any heap and any alignment: a tree of blocks that the walk   *)
(* of destroy finds and releases, and whose sizes add up to what           *)
(* micro_ros_utilities_get_dynamic_size says.                              *)
(***************************************************************************)
EXTENDS MessageMemoryProofs, FiniteSetTheorems
-----------------------------------------------------------------------------
\* A frame of create or create_static is at memory that may be accessed, and the field
\* of its member is assigned before the member's own items are visited.
Lawful(live, f, g) ==
    /\ g.loc # << >> /\ Head(g.loc) # Null
    /\ Head(g.loc)[1] = "heap" => Head(g.loc)[2] \in live
    /\ g.at \in {"inner", "pop"} /\ NeedsMemory(Item(g)) => Append(g.loc, g.i) \in DOMAIN f

SafeInv ==
    fault = "none" /\ op \in {"create", "create_static"} =>
        /\ \A x \in DOMAIN fields : fields[x].data # Null
        /\ \A j \in 1..Len(stack) : Lawful(Live, fields, stack[j])

LEMMA LawfulGrows ==
    ASSUME NEW a, NEW b, NEW f, NEW h, NEW g, Lawful(a, f, g), a \subseteq b,
           DOMAIN f \subseteq DOMAIN h
    PROVE  Lawful(b, h, g)
BY DEF Lawful

LEMMA LawfulSame ==
    ASSUME NEW a, NEW f, NEW g, NEW h, Lawful(a, f, g), h.loc = g.loc,
           h.at \in {"inner", "pop"} => h.at = g.at /\ h.ty = g.ty /\ h.i = g.i
    PROVE  Lawful(a, f, h)
BY DEF Lawful, Item

\* Frames that a step of a walk leaves alone, or only adds a size to.
LEMMA SetTopEach ==
    ASSUME StackOK(stack), stack # << >>, NEW f \in Frames
    PROVE  /\ Len(SetTop(f)) = Len(stack)
           /\ \A j \in 1..Len(stack) : SetTop(f)[j] = IF j = Len(stack) THEN f ELSE stack[j]
<1>1. /\ Len(SetTop(f)) = Len(stack)
      /\ SetTop(f)[Len(stack)] = f
      /\ \A j \in 1..(Len(stack) - 1) : SetTop(f)[j] = stack[j]
  BY SetTopFrames DEF StackOK
<1>2. Len(stack) \in Nat \ {0}
  BY TopFrame
<1>3. ASSUME NEW j \in 1..Len(stack), j # Len(stack) PROVE j \in 1..(Len(stack) - 1)
  BY <1>2, <1>3
<1> QED BY <1>1, <1>3

LEMMA PushEach ==
    ASSUME StackOK(stack), stack # << >>, NEW f \in Frames, NEW g \in Frames
    PROVE  /\ Len(Append(SetTop(f), g)) = Len(stack) + 1
           /\ \A j \in 1..(Len(stack) + 1) :
                 Append(SetTop(f), g)[j] = IF j = Len(stack) + 1 THEN g
                                           ELSE IF j = Len(stack) THEN f ELSE stack[j]
<1> DEFINE t == SetTop(f)
           n == Len(stack)
<1>1. /\ t \in Seq(Frames) /\ Len(t) = n
      /\ \A j \in 1..n : t[j] = IF j = n THEN f ELSE stack[j]
  BY SetTopEach, SetTopFrames DEF StackOK
<1>2. n \in Nat \ {0}
  BY TopFrame
<1> HIDE DEF t, n
<1>3. /\ Len(Append(t, g)) = n + 1 /\ Append(t, g)[n + 1] = g
      /\ \A j \in 1..n : Append(t, g)[j] = t[j]
  BY <1>1, PushFrames
<1>4. \A j \in 1..(n + 1) : j \in 1..n \/ j = n + 1
  BY <1>2
<1>5. ASSUME NEW j \in 1..(n + 1)
      PROVE  Append(t, g)[j] = IF j = n + 1 THEN g ELSE IF j = n THEN f ELSE stack[j]
  <2>1. CASE j = n + 1
    BY <1>3, <2>1
  <2>2. CASE j # n + 1
    BY <1>1, <1>3, <1>4, <2>2
  <2> QED BY <2>1, <2>2
<1> QED BY <1>3, <1>5 DEF t, n

LEMMA PopEach ==
    ASSUME StackOK(stack), stack # << >>, NEW u \in Nat
    PROVE  /\ Len(stack) = 1 =>
                 /\ Len(Pop(u)) = 1 /\ Pop(u)[1].at = "done" /\ Pop(u)[1].loc = Top.loc
                 /\ Pop(u)[1].ty = Top.ty /\ Pop(u)[1].i = Top.i /\ Pop(u)[1].k = Top.k
           /\ Len(stack) # 1 =>
                 /\ Len(Pop(u)) = Len(stack) - 1
                 /\ \A j \in 1..(Len(stack) - 1) :
                       /\ Pop(u)[j].at = stack[j].at /\ Pop(u)[j].loc = stack[j].loc
                       /\ Pop(u)[j].ty = stack[j].ty /\ Pop(u)[j].i = stack[j].i
                       /\ Pop(u)[j].k = stack[j].k
<1> DEFINE n == Len(stack)
           s == Pop(u)
<1>1. n \in Nat \ {0} /\ Top \in Frames /\ \A j \in 1..n : stack[j] \in Frames
  BY TopFrame, ElementOfSeq DEF StackOK
<1>2. CASE n = 1
  <2>1. Len(s) = 1 /\ s[1] = [Top EXCEPT !.at = "done", !.used = u]
    BY <1>2, PopFrames DEF StackOK
  <2> HIDE DEF s
  <2>2. /\ s[1].at = "done" /\ s[1].loc = Top.loc
        /\ s[1].ty = Top.ty /\ s[1].i = Top.i /\ s[1].k = Top.k
    BY <1>1, <2>1 DEF Frames
  <2> QED BY <1>2, <2>1, <2>2 DEF s
<1>3. CASE n # 1
  <2>1. /\ Len(s) = n - 1
        /\ \A j \in 1..(n - 2) : s[j] = stack[j]
        /\ s[n - 1] = [stack[n - 1] EXCEPT !.used = @ + u]
    BY <1>3, PopFrames DEF StackOK
  <2> HIDE DEF s, n
  <2>2. ASSUME NEW j \in 1..(n - 1)
        PROVE  /\ s[j].at = stack[j].at /\ s[j].loc = stack[j].loc
               /\ s[j].ty = stack[j].ty /\ s[j].i = stack[j].i /\ s[j].k = stack[j].k
    <3>1. j = n - 1 \/ j \in 1..(n - 2)
      BY <1>1
    <3>2. stack[j] \in Frames
      BY <1>1
    <3>3. CASE j = n - 1
      BY <2>1, <3>2, <3>3 DEF Frames
    <3>4. CASE j \in 1..(n - 2)
      BY <2>1, <3>4
    <3> QED BY <3>1, <3>3, <3>4
  <2> QED BY <1>3, <2>1, <2>2 DEF s, n
<1> QED BY <1>2, <1>3

\* Facts about addresses.
LEMMA AppendLoc ==
    ASSUME NEW l \in Locs, NEW i \in Nat
    PROVE  /\ Append(l, i) \in Locs /\ Append(l, i) # << >> /\ Len(Append(l, i)) = Len(l) + 1
           /\ l # << >> => Head(Append(l, i)) = Head(l)
           /\ Append(l, i)[Len(l) + 1] = i
           /\ \A q \in 1..Len(l) : Append(l, i)[q] = l[q]
<1> DEFINE S == Pointers \cup Nat
<1>0. l \in Seq(S) /\ i \in S
  BY DEF Locs
<1> HIDE DEF S
<1>1. /\ Append(l, i) \in Seq(S) /\ Len(Append(l, i)) = Len(l) + 1
      /\ Append(l, i)[Len(l) + 1] = i
      /\ \A q \in 1..Len(l) : Append(l, i)[q] = l[q]
  BY <1>0, AppendProperties
<1>2. Len(l) \in Nat /\ Len(Append(l, i)) # 0
  BY <1>0, <1>1, LenProperties
<1>3. Append(l, i) # << >>
  BY <1>1, <1>2, EmptySeq
<1>4. ASSUME l # << >> PROVE Head(Append(l, i)) = Head(l)
  <2>1. 1 \in 1..Len(l)
    BY <1>0, <1>2, <1>4, EmptySeq
  <2> QED BY <1>0, <1>1, <1>3, <1>4, <2>1
<1>5. Append(l, i) \in Locs
  BY <1>1 DEF Locs, S
<1> QED BY <1>1, <1>3, <1>4, <1>5

LEMMA SafeKept ==
    ASSUME SafeInv, UNCHANGED callVars, fault = "none",
           op \in {"create", "create_static"} =>
              /\ \A x \in DOMAIN fields' : fields'[x].data # Null
              /\ \A j \in 1..Len(stack') : Lawful(Live', fields', stack'[j])
    PROVE  SafeInv'
<1>1. op' = op
  BY DEF callVars
<1> QED BY <1>1 DEF SafeInv

\* The innermost frame goes on, and no memory is released.
LEMMA SafeSetTop ==
    ASSUME TypeInv, SafeInv, UNCHANGED callVars, fault = "none", stack # << >>,
           NEW f \in Frames, stack' = SetTop(f), Live \subseteq Live',
           DOMAIN fields \subseteq DOMAIN fields',
           op \in {"create", "create_static"} =>
              /\ \A x \in DOMAIN fields' : fields'[x].data # Null
              /\ Lawful(Live, fields, Top) => Lawful(Live', fields', f)
    PROVE  SafeInv'
<1>1. /\ StackOK(stack) /\ Len(stack) \in Nat \ {0} /\ Top = stack[Len(stack)]
      /\ Len(stack) \in 1..Len(stack)
  BY TopFrame DEF TypeInv, Top
<1>2. /\ Len(stack') = Len(stack)
      /\ \A j \in 1..Len(stack) : stack'[j] = IF j = Len(stack) THEN f ELSE stack[j]
  BY <1>1, SetTopEach
<1>3. ASSUME op \in {"create", "create_static"}, NEW j \in 1..Len(stack')
      PROVE  Lawful(Live', fields', stack'[j])
  <2>1. \A q \in 1..Len(stack) : Lawful(Live, fields, stack[q])
    BY <1>3 DEF SafeInv
  <2>2. Lawful(Live', fields', f)
    BY <1>1, <1>3, <2>1
  <2>3. Lawful(Live, fields, stack[j])
    BY <1>2, <1>3, <2>1
  <2>4. Lawful(Live', fields', stack[j])
    BY <2>3, LawfulGrows
  <2> QED BY <1>2, <1>3, <2>2, <2>4
<1> QED BY <1>3, SafeKept

LEMMA SafePop ==
    ASSUME TypeInv, SafeInv, UNCHANGED callVars, fault = "none", stack # << >>,
           NEW u \in Nat, stack' = Pop(u), UNCHANGED <<heap, fields>>
    PROVE  SafeInv'
<1>1. StackOK(stack) /\ Len(stack) \in Nat \ {0} /\ Top = stack[Len(stack)] /\ Live' = Live
  BY TopFrame DEF TypeInv, Top, Live
<1>2. ASSUME op \in {"create", "create_static"}, NEW j \in 1..Len(stack')
      PROVE  Lawful(Live', fields', stack'[j])
  <2>1. \A q \in 1..Len(stack) : Lawful(Live, fields, stack[q])
    BY <1>2 DEF SafeInv
  <2>2. CASE Len(stack) = 1
    <3>1. Len(stack') = 1 /\ stack'[1].at = "done" /\ stack'[1].loc = stack[1].loc
      BY <1>1, <2>2, PopEach
    <3>2. Lawful(Live, fields, stack'[1])
      BY <2>1, <2>2, <3>1, LawfulSame
    <3>3. j = 1
      BY <1>2, <3>1
    <3> QED BY <1>1, <3>2, <3>3
  <2>3. CASE Len(stack) # 1
    <3>1. /\ Len(stack') = Len(stack) - 1
          /\ \A h \in 1..(Len(stack) - 1) :
                /\ stack'[h].at = stack[h].at /\ stack'[h].loc = stack[h].loc
                /\ stack'[h].ty = stack[h].ty /\ stack'[h].i = stack[h].i
      BY <1>1, <2>3, PopEach
    <3>2. j \in 1..(Len(stack) - 1) /\ j \in 1..Len(stack)
      BY <1>1, <1>2, <3>1
    <3>3. Lawful(Live, fields, stack'[j])
      BY <2>1, <3>1, <3>2, LawfulSame
    <3> QED BY <1>1, <3>3
  <2> QED BY <2>2, <2>3
<1> QED BY <1>1, <1>2, SafeKept DEF SafeInv

LEMMA SafeMemory ==
    ASSUME TypeInv, NameInv, OwnInv, SafeInv, Plain \/ Allocate \/ Preallocate \/ Count
    PROVE  SafeInv'
<1>0. Walking("memory") /\ UNCHANGED callVars
  BY DEF Plain, Allocate, Preallocate, Count
<1>1. stack # << >> /\ fault = "none" /\ m \in MessageMember /\ Top \in Frames
  BY <1>0, WalkFinds
<1>2. ASSUME Allocate, stack' = Pop(0), UNCHANGED <<heap, fields>> PROVE SafeInv'
  BY <1>0, <1>1, <1>2, SafePop
<1>3. ASSUME NEW f \in Frames, Entered(f) PROVE SafeInv'
  <2>1. /\ stack' = SetTop(f) /\ f.ty = Top.ty /\ f.loc = Top.loc /\ f.at = "inner"
        /\ f.i = Top.i /\ Stored(f)
    BY <1>3 DEF Entered, Same
  <2>2. Item(f) = m /\ Field = Append(f.loc, f.i)
    BY <2>1 DEF Item, m, members, Field, Member
  <2>3. Live \subseteq Live' /\ DOMAIN fields \subseteq DOMAIN fields'
        /\ (op \in {"create", "create_static"} /\ NeedsMemory(m) => Field \in DOMAIN fields')
        /\ (op \in {"create", "create_static"} /\ (\A x \in DOMAIN fields : fields[x].data # Null)
             => \A x \in DOMAIN fields' : fields'[x].data # Null)
    <3>1. CASE ~NeedsMemory(m) \/ op \notin {"create", "create_static"}
      <4>1. UNCHANGED <<heap, fields>>
        BY <2>1, <3>1 DEF Stored
      <4> QED BY <3>1, <4>1 DEF Live
    <3>2. CASE NeedsMemory(m) /\ op = "create"
      <4>1. heap' = With(FirstFree, Needs, << >>) /\ fields' = Assigned(<<"heap", FirstFree>>, f.n)
        BY <2>1, <3>2 DEF Stored
      <4>2. Live \subseteq Live'
        BY <4>1 DEF With, Live
      <4>3. DOMAIN fields' = DOMAIN fields \cup {Field}
        BY <4>1 DEF Assigned
      <4>4. \A x \in DOMAIN fields' :
               fields'[x].data = IF x = Field THEN <<"heap", FirstFree>> ELSE fields[x].data
        BY <4>1 DEF Assigned
      <4>5. <<"heap", FirstFree>> # Null
        BY DEF Null
      <4> QED BY <4>2, <4>3, <4>4, <4>5
    <3>3. CASE NeedsMemory(m) /\ op = "create_static"
      <4>1. UNCHANGED heap /\ fields' = Assigned(<<"buffer", Aligned(index)>>, f.n)
        BY <2>1, <3>3 DEF Stored
      <4>2. Live \subseteq Live'
        BY <4>1 DEF Live
      <4>3. DOMAIN fields' = DOMAIN fields \cup {Field}
        BY <4>1 DEF Assigned
      <4>4. \A x \in DOMAIN fields' :
               fields'[x].data = IF x = Field THEN <<"buffer", Aligned(index)>> ELSE fields[x].data
        BY <4>1 DEF Assigned
      <4>5. <<"buffer", Aligned(index)>> # Null
        BY DEF Null
      <4> QED BY <4>2, <4>3, <4>4, <4>5
    <3> QED BY <3>1, <3>2, <3>3
  <2>4. ASSUME op \in {"create", "create_static"}
        PROVE  /\ \A x \in DOMAIN fields' : fields'[x].data # Null
               /\ Lawful(Live, fields, Top) => Lawful(Live', fields', f)
    <3>1. \A x \in DOMAIN fields' : fields'[x].data # Null
      BY <1>1, <2>3, <2>4 DEF SafeInv
    <3>2. Lawful(Live, fields, Top) => Lawful(Live', fields', f)
      BY <2>1, <2>2, <2>3, <2>4 DEF Lawful
    <3> QED BY <3>1, <3>2
  <2> QED BY <1>0, <1>1, <2>1, <2>3, <2>4, SafeSetTop
<1> QED BY <1>2, <1>3, MemoryFrame

LEMMA SafeDescend ==
    ASSUME TypeInv, OwnInv, SafeInv, Descend
    PROVE  SafeInv'
<1>0. Walking("inner") /\ UNCHANGED callVars /\ UNCHANGED <<heap, fields>> /\ Live' = Live
  BY DEF Descend, Fault, Live
<1>1. /\ stack # << >> /\ fault = "none" /\ m \in MessageMember /\ Top \in Frames
      /\ StackOK(stack) /\ Len(stack) \in Nat \ {0} /\ Len(stack) \in 1..Len(stack)
      /\ Top = stack[Len(stack)] /\ Top.at = "inner" /\ m = Item(Top)
      /\ Top.loc \in Locs /\ Top.i \in Nat
  BY <1>0, WalkFinds DEF TypeInv, Top, m, members, Item, Frames
<1>2. CASE fault' = "memory"
  BY <1>2 DEF SafeInv
<1>3. ASSUME NEW f \in Frames, NEW g \in Frames, stack' = Append(SetTop(f), g), Same(f),
             f.at = "inner", f.i = Top.i, g.at = "name",
             g.loc = IF ~is_sequence(m) THEN Field
                     ELSE IF op \in {"dynamic_size", "static_size"} THEN <<Null>>
                     ELSE Element(FieldAt(Field).data, Top.k)
      PROVE  SafeInv'
  <2>1. /\ Len(stack') = Len(stack) + 1
        /\ \A j \in 1..(Len(stack) + 1) :
              stack'[j] = IF j = Len(stack) + 1 THEN g ELSE IF j = Len(stack) THEN f ELSE stack[j]
    BY <1>1, <1>3, PushEach
  <2>2. ASSUME op \in {"create", "create_static"} PROVE Lawful(Live, fields, f) /\ Lawful(Live, fields, g)
    <3>1. Lawful(Live, fields, Top) /\ \A x \in DOMAIN fields : fields[x].data # Null
      BY <1>1, <2>2 DEF SafeInv
    <3>2. Lawful(Live, fields, f)
      BY <1>1, <1>3, <3>1, LawfulSame DEF Same
    <3>3. CASE ~is_sequence(m)
      <4>1. g.loc = Append(Top.loc, Top.i)
        BY <1>3, <3>3 DEF Field, Member
      <4>a. Top.loc # << >>
        BY <3>1 DEF Lawful
      <4>b. Append(Top.loc, Top.i) # << >> /\ Head(Append(Top.loc, Top.i)) = Head(Top.loc)
        BY <1>1, <4>a, AppendLoc
      <4>2. g.loc # << >> /\ Head(g.loc) = Head(Top.loc)
        BY <4>1, <4>b
      <4> QED BY <1>3, <3>1, <3>2, <4>2 DEF Lawful
    <3>4. CASE is_sequence(m)
      <4>1. Field \in DOMAIN fields
        BY <1>1, <3>1, <3>4 DEF Lawful, NeedsMemory, Field, Member
      <4>2. g.loc = <<fields[Field].data, Top.k>>
        BY <1>3, <2>2, <3>4, <4>1 DEF FieldAt, Element
      <4>3. g.loc # << >> /\ Head(g.loc) = fields[Field].data
        BY <4>2
      <4>4. fields[Field].data[1] = "heap" => fields[Field].data[2] \in Live
        BY <4>1 DEF OwnInv
      <4> QED BY <1>3, <3>1, <3>2, <4>1, <4>3, <4>4 DEF Lawful
    <3> QED BY <3>2, <3>3, <3>4
  <2>3. ASSUME op \in {"create", "create_static"}, NEW j \in 1..Len(stack')
        PROVE  Lawful(Live', fields', stack'[j])
    <3>1. j = Len(stack) + 1 \/ j = Len(stack) \/ j \in 1..Len(stack)
      BY <1>1, <2>1
    <3>2. \A q \in 1..Len(stack) : Lawful(Live, fields, stack[q])
      BY <1>1, <2>3 DEF SafeInv
    <3>3. j \in 1..(Len(stack) + 1)
      BY <2>1
    <3> QED BY <1>0, <2>1, <2>2, <2>3, <3>1, <3>2, <3>3
  <2>4. op \in {"create", "create_static"} => \A x \in DOMAIN fields' : fields'[x].data # Null
    BY <1>0, <1>1 DEF SafeInv
  <2> QED BY <1>0, <1>1, <2>3, <2>4, SafeKept
<1> QED BY <1>2, <1>3, DescendFrame

LEMMA SafeStep == ~Moves /\ TypeInv /\ NameInv /\ OwnInv /\ NestInv /\ SafeInv /\ [Next]_vars => SafeInv'
<1> SUFFICES ASSUME ~Moves, TypeInv, NameInv, OwnInv, NestInv, SafeInv, [Next]_vars PROVE SafeInv'
  OBVIOUS
<1>1. CASE UNCHANGED vars
  BY <1>1 DEF SafeInv, vars, walkVars, callVars, Live
<1>2. CASE PushName \/ PopName
  <2>1. /\ Live' = Live /\ UNCHANGED fields /\ UNCHANGED callVars /\ stack # << >>
        /\ fault = "none" /\ (op \in {"create", "create_static"} =>
                                \A x \in DOMAIN fields' : fields'[x].data # Null)
    BY <1>2, NameInPlace DEF PushName, PopName, Walking, SafeInv
  <2>2. CASE fault' # "none"
    BY <2>2 DEF SafeInv
  <2>3. ASSUME NEW f \in Frames, stack' = SetTop(f), Same(f), f.at \in {"memory", "name"}
        PROVE  SafeInv'
    <3>1. Lawful(Live, fields, Top) => Lawful(Live', fields', f)
      BY <2>1, <2>3, LawfulSame DEF Same
    <3> QED BY <2>1, <2>3, <3>1, SafeSetTop
  <2> QED BY <1>2, <2>2, <2>3, PushNameFrame, PopNameFrame
<1>3. CASE Release
  <2>1. /\ UNCHANGED callVars /\ stack # << >> /\ fault = "none" /\ Top.at = "inner"
    BY <1>3 DEF Release, Walking
  <2>2. CASE op \notin {"create", "create_static"}
    BY <2>1, <2>2 DEF SafeInv, callVars
  <2>3. CASE op \in {"create", "create_static"}
    <3>1. UNCHANGED <<heap, fields>> /\ Live' = Live
      BY <1>3, <2>3 DEF Release, Live
    <3>2. CASE fault' = "memory"
      BY <3>2 DEF SafeInv
    <3>3. ASSUME NEW f \in Frames, stack' = SetTop(f), Same(f), f.at = "pop", f.i = Top.i
          PROVE  SafeInv'
      <4>1. Lawful(Live, fields, Top) => Lawful(Live', fields', f)
        BY <2>1, <3>1, <3>3 DEF Same, Lawful, Item
      <4>2. \A x \in DOMAIN fields' : fields'[x].data # Null
        BY <2>1, <2>3, <3>1 DEF SafeInv
      <4> QED BY <2>1, <3>1, <3>3, <4>1, <4>2, SafeSetTop
    <3> QED BY <1>3, <3>2, <3>3, ReleaseFrame
  <2> QED BY <2>2, <2>3
<1>4. CASE Return
  <2>1. /\ UNCHANGED callVars /\ stack # << >> /\ fault = "none" /\ stack' = Pop(Top.used)
        /\ UNCHANGED <<heap, fields>>
    BY <1>4 DEF Return
  <2>2. Top.used \in Nat
    BY <2>1, TopFrame DEF TypeInv, Frames
  <2> QED BY <2>1, <2>2, SafePop
<1>5. CASE Sizes \/ Create \/ CreateStatic \/ Destroy
  <2>1. PICK c \in Calls : Call(c.api, c.root, c.conf, c.len)
    BY <1>5, CallTypes
  <2>2. op' \notin {"create", "create_static"}
    BY <2>1, FirstWalkApi DEF Call, Walk
  <2> QED BY <2>2 DEF SafeInv
<1>6. CASE SecondWalk
  <2>1. stack = << >> /\ call # Idle /\ op = "none"
    BY <1>6 DEF SecondWalk, NestInv
  <2>2. CASE UNCHANGED op
    BY <2>1, <2>2 DEF SafeInv
  <2>3. CASE /\ Walk(call.api, call.root, call.conf.rules)
             /\ fields' = IF call.api = "destroy" THEN fields ELSE << >>
    <3>1. CASE op' \notin {"create", "create_static"}
      BY <3>1 DEF SafeInv
    <3>2. CASE op' \in {"create", "create_static"} /\ fault' = "none"
      <4>1. op' = call.api /\ DOMAIN fields' = {}
        BY <2>3, <3>2, FirstFrame
      <4>2. Len(stack') = 1 /\ stack'[1].loc = <<Message>> /\ stack'[1].at = "name"
        BY <2>3, <3>2, <4>1, FirstFrame
      <4>3. Lawful(Live', fields', stack'[1])
        <5>1. <<Message>> # << >> /\ Head(<<Message>>) = Message
          OBVIOUS
        <5>2. Message # Null /\ Message[1] # "heap"
          BY DEF Message, Null
        <5> QED BY <4>2, <5>1, <5>2 DEF Lawful
      <4>4. \A j \in 1..Len(stack') : j = 1
        BY <4>2
      <4> QED BY <4>1, <4>3, <4>4 DEF SafeInv
    <3>3. CASE fault' # "none"
      BY <3>3 DEF SafeInv
    <3> QED BY <3>1, <3>2, <3>3
  <2> QED BY <1>6, <2>2, <2>3 DEF SecondWalk
<1>7. CASE EndWalk
  <2>1. CASE Fault("name")
    BY <2>1 DEF Fault, SafeInv
  <2>2. CASE op' = "none"
    BY <2>2 DEF SafeInv
  <2> QED BY <1>7, <2>1, <2>2 DEF EndWalk
<1> QED BY <1>1, <1>2, <1>3, <1>4, <1>5, <1>6, <1>7, SafeMemory, SafeDescend DEF Next

LEMMA SafeInvariance == ~Moves => (Spec => []SafeInv)
<1> SUFFICES ASSUME ~Moves PROVE Spec => []SafeInv
  OBVIOUS
<1>1. Init => SafeInv
  BY DEF Init, SafeInv
<1>2. TypeInv /\ NameInv /\ OwnInv /\ NestInv /\ SafeInv /\ [Next]_vars => SafeInv'
  BY SafeStep
<1> QED BY <1>1, <1>2, TypeInvariance, NameInvariance, OwnInvariance, NestInvariance, PTL DEF Spec
-----------------------------------------------------------------------------
(***************************************************************************)
(* The structures of a message.  T gives the type and the path of each     *)
(* structure that create has visited and destroy has not left; f is the    *)
(* fields, o the operation, s the stack and c the configuration.           *)
(***************************************************************************)
Located(l) == l \in Locs /\ l # << >> /\ (Len(l) = 1 => l = <<Message>>)

\* Member i of the structure at l, and its path.
Mem(T, l, i) == Types[T[l][1]][i]
Way(T, l, i) == Append(T[l][2], Mem(T, l, i).name)

\* Where the k-th structure that member y contains is, and whether there is one.
Put(f, y, l, i, k) ==
    IF is_sequence(y)
    THEN Element(IF Append(l, i) \in DOMAIN f THEN f[Append(l, i)].data ELSE Null, k)
    ELSE Append(l, i)
Has(T, l, i) == l \in DOMAIN T /\ i \in 1..Len(Types[T[l][1]])
Hangs(T, c, l, i, k) ==
    /\ Has(T, l, i) /\ k \in Nat /\ Composed(Mem(T, l, i))
    /\ k < Repeats(c, Mem(T, l, i), Way(T, l, i))
Seat(T, f, l, i, k) == Put(f, Mem(T, l, i), l, i, k)

\* Whether a frame at a structure has, in create, already visited what is at i and k,
\* or has it, in destroy, still to visit; and the same of the field i.
Open(o, g, i, k) ==
    /\ o = "create" => g.at = "done" \/ i < g.i \/ (i = g.i /\ k < g.k)
    /\ o = "destroy" => i > g.i \/ (i = g.i /\ g.at # "pop" /\ k >= g.k)
Holds(o, g, i) ==
    /\ o = "create" => g.at = "done" \/ i < g.i \/ (i = g.i /\ g.at \in {"inner", "pop"})
    /\ o = "destroy" => i > g.i \/ (i = g.i /\ g.at # "pop")
Alive(o, s, l, i, k) == \A j \in 1..Len(s) : s[j].loc = l => Open(o, s[j], i, k)
Held(o, s, l, i) == \A j \in 1..Len(s) : s[j].loc = l => Holds(o, s[j], i)
Visited(o, s, x) == o = "destroy" /\ \E j \in 1..Len(s) : s[j].loc = x

\* Structure x is the k-th of member i of structure l.
Stands(T, c, o, s, f, x, l, i, k) ==
    /\ Hangs(T, c, l, i, k) /\ (is_sequence(Mem(T, l, i)) => Append(l, i) \in DOMAIN f)
    /\ x = Seat(T, f, l, i, k) /\ T[x] = <<Mem(T, l, i).type, Way(T, l, i)>>
    /\ Alive(o, s, l, i, k) <=> ~Visited(o, s, x)

Shaped(T, root) ==
    /\ \A l \in DOMAIN T : Located(l) /\ T[l] \in (DOMAIN Types) \X Seq(STRING)
    /\ <<Message>> \in DOMAIN T => T[<<Message>>] = <<root, << >>>>
Headed(T, f) ==
    \A l \in DOMAIN T : Head(l) = Message \/ \E x \in DOMAIN f : f[x].data = Head(l)
Filled(T, o, s, f) ==
    \A x \in DOMAIN f : \E l \in DOMAIN T, i \in Nat :
        Has(T, l, i) /\ NeedsMemory(Mem(T, l, i)) /\ x = Append(l, i) /\ Held(o, s, l, i)
Backed(T, c, o, s, f) ==
    \A x \in DOMAIN T \ {<<Message>>} : \E l \in DOMAIN T, i \in Nat, k \in Nat :
        Stands(T, c, o, s, f, x, l, i, k)
Tree(T, root, c, o, s, f) ==
    Shaped(T, root) /\ Headed(T, f) /\ Filled(T, o, s, f) /\ Backed(T, c, o, s, f)

\* Nothing is missing that has a size.
Linked(T, c, o, s, f) ==
    \A l \in DOMAIN T, i \in Nat, k \in Nat :
        /\ Hangs(T, c, l, i, k) /\ Alive(o, s, l, i, k)
        /\ is_sequence(Mem(T, l, i)) \/ Bytes(c, Way(T, l, i), Mem(T, l, i).type, 1) # 0
        => Seat(T, f, l, i, k) \in DOMAIN T

\* The fields point to blocks of the heap, each to its own.
Heaped(f) ==
    /\ \A x \in DOMAIN f : f[x].data \in Pointers /\ f[x].data[1] = "heap"
    /\ \A x, y \in DOMAIN f : f[x].data = f[y].data => x = y
-----------------------------------------------------------------------------
LEMMA AppendSame ==
    ASSUME NEW l \in Locs, NEW h \in Locs, NEW i \in Nat, NEW g \in Nat, Append(l, i) = Append(h, g)
    PROVE  l = h /\ i = g
<1>1. /\ Len(Append(l, i)) = Len(l) + 1 /\ Append(l, i)[Len(l) + 1] = i
      /\ \A q \in 1..Len(l) : Append(l, i)[q] = l[q]
  BY AppendLoc
<1>2. /\ Len(Append(h, g)) = Len(h) + 1 /\ Append(h, g)[Len(h) + 1] = g
      /\ \A q \in 1..Len(h) : Append(h, g)[q] = h[q]
  BY AppendLoc
<1>3. Len(l) \in Nat /\ Len(h) \in Nat
  BY LenProperties DEF Locs
<1>4. Len(l) = Len(h)
  BY <1>1, <1>2, <1>3
<1>5. \A q \in 1..Len(l) : l[q] = h[q]
  BY <1>1, <1>2, <1>4
<1>6. l = h
  BY <1>4, <1>5, SeqEqual DEF Locs
<1> QED BY <1>1, <1>2, <1>4, <1>6

LEMMA ElementLoc ==
    ASSUME NEW d, NEW k
    PROVE  /\ Element(d, k) # << >> /\ Head(Element(d, k)) = d /\ Element(d, k) # <<Message>>
           /\ Len(Element(d, k)) = 2 /\ Element(d, k)[1] = d /\ Element(d, k)[2] = k
BY DEF Element

LEMMA OneOfTwo == \A a \in Nat : a + 1 = 2 => a = 1
OBVIOUS

LEMMA NotElement ==
    ASSUME NEW l, Located(l), NEW i \in Nat, NEW d, NEW k, Element(d, k) = Append(l, i)
    PROVE  d = Message
<1>1. /\ l \in Locs /\ Len(Append(l, i)) = Len(l) + 1
      /\ \A q \in 1..Len(l) : Append(l, i)[q] = l[q]
  BY AppendLoc DEF Located
<1>2. Len(l) \in Nat
  BY <1>1, LenProperties DEF Locs
<1>3. Len(Element(d, k)) = 2 /\ Element(d, k)[1] = d
  BY ElementLoc
<1>e. Len(Append(l, i)) = 2
  BY <1>3
<1>f. Len(l) + 1 = 2
  BY <1>1, <1>e, Zenon
<1>4. Len(l) = 1
  BY <1>2, <1>f, OneOfTwo, Zenon
<1>5. l = <<Message>> /\ Append(l, i)[1] = l[1]
  BY <1>1, <1>4 DEF Located
<1> QED BY <1>3, <1>5

LEMMA AppendLocated ==
    ASSUME NEW l, Located(l), NEW i \in Nat
    PROVE  /\ Located(Append(l, i)) /\ Append(l, i) # <<Message>> /\ Head(Append(l, i)) = Head(l)
           /\ Len(Append(l, i)) = Len(l) + 1
<1>1. /\ l \in Locs /\ l # << >> /\ Append(l, i) \in Locs /\ Append(l, i) # << >>
      /\ Len(Append(l, i)) = Len(l) + 1 /\ Head(Append(l, i)) = Head(l)
  BY AppendLoc DEF Located
<1>2. Len(l) \in Nat \ {0}
  BY <1>1, EmptySeq DEF Locs
<1>3. Len(Append(l, i)) # 1
  BY <1>1, <1>2
<1> QED BY <1>1, <1>3 DEF Located

LEMMA ElementLocated ==
    ASSUME NEW d \in Pointers, NEW k \in Nat
    PROVE  Located(Element(d, k))
<1>1. Element(d, k) \in Locs
  BY DEF Element, Locs
<1> QED BY <1>1, ElementLoc DEF Located

\* Two structures at the same place are the same one.
LEMMA PutSame ==
    ASSUME NEW f, Heaped(f), NEW l, Located(l), NEW h, Located(h), NEW i \in Nat, NEW g \in Nat,
           NEW k \in Nat, NEW n \in Nat, NEW y, NEW z,
           is_sequence(z) => Append(h, g) \in DOMAIN f,
           Put(f, y, l, i, k) = Put(f, z, h, g, n)
    PROVE  /\ l = h /\ i = g /\ (is_sequence(y) <=> is_sequence(z))
           /\ is_sequence(y) => k = n
<1>0. l \in Locs /\ h \in Locs
  BY DEF Located
<1>n. \A x \in DOMAIN f : f[x].data # Message /\ f[x].data # Null
  BY DEF Heaped, Message, Null
<1>1. CASE ~is_sequence(y) /\ ~is_sequence(z)
  <2>1. Append(l, i) = Append(h, g)
    BY <1>1 DEF Put
  <2> QED BY <1>0, <1>1, <2>1, AppendSame
<1>2. CASE is_sequence(y) /\ ~is_sequence(z)
  <2> DEFINE d == IF Append(l, i) \in DOMAIN f THEN f[Append(l, i)].data ELSE Null
  <2>1. Element(d, k) = Append(h, g)
    BY <1>2 DEF Put
  <2>2. d # Message
    BY <1>n DEF Null, Message
  <2> HIDE DEF d
  <2>3. d = Message
    BY <2>1, NotElement
  <2> QED BY <2>2, <2>3
<1>3. CASE ~is_sequence(y) /\ is_sequence(z)
  <2>1. Element(f[Append(h, g)].data, n) = Append(l, i)
    BY <1>3 DEF Put
  <2>2. f[Append(h, g)].data = Message
    BY <2>1, NotElement
  <2> QED BY <1>3, <1>n, <2>2
<1>4. CASE is_sequence(y) /\ is_sequence(z)
  <2> DEFINE d == IF Append(l, i) \in DOMAIN f THEN f[Append(l, i)].data ELSE Null
  <2>1. Element(d, k) = Element(f[Append(h, g)].data, n)
    BY <1>4 DEF Put
  <2>2. d = f[Append(h, g)].data /\ k = n
    BY <2>1, ElementLoc
  <2>3. Append(l, i) \in DOMAIN f /\ f[Append(l, i)].data = f[Append(h, g)].data
    BY <1>4, <1>n, <2>2
  <2>4. Append(l, i) = Append(h, g)
    BY <1>4, <2>3 DEF Heaped
  <2> QED BY <1>0, <1>4, <2>2, <2>4, AppendSame
<1> QED BY <1>1, <1>2, <1>3, <1>4

LEMMA PutNotRoot ==
    ASSUME NEW f, NEW y, NEW l, Located(l), NEW i \in Nat, NEW k
    PROVE  Put(f, y, l, i, k) # <<Message>>
<1>1. CASE is_sequence(y)
  BY <1>1, ElementLoc DEF Put
<1>2. CASE ~is_sequence(y)
  BY <1>2, AppendLocated DEF Put
<1> QED BY <1>1, <1>2

\* What is known of a member of a structure.
LEMMA MemFinds ==
    ASSUME NEW T, NEW root, Shaped(T, root), NEW l, NEW i, Has(T, l, i)
    PROVE  /\ Located(l) /\ l \in Locs /\ i \in Nat /\ Mem(T, l, i) \in MessageMember
           /\ T[l][1] \in DOMAIN Types /\ T[l][2] \in Seq(STRING)
           /\ Way(T, l, i) \in Seq(STRING) /\ Len(Way(T, l, i)) = Len(T[l][2]) + 1
<1>1. Located(l) /\ T[l][1] \in DOMAIN Types /\ T[l][2] \in Seq(STRING)
  BY DEF Shaped, Has
<1>2. Types[T[l][1]] \in Seq(MessageMember)
  BY <1>1, MessageAssumption DEF MessageAssumption
<1>3. i \in Nat /\ Mem(T, l, i) \in MessageMember
  BY <1>2, ElementOfSeq, LenProperties DEF Has, Mem
<1>4. Mem(T, l, i).name \in STRING
  BY <1>3 DEF MessageMember
<1>5. Way(T, l, i) \in Seq(STRING) /\ Len(Way(T, l, i)) = Len(T[l][2]) + 1
  BY <1>1, <1>4, AppendProperties DEF Way
<1> QED BY <1>1, <1>3, <1>5 DEF Located

\* Whoever computes the place of a structure finds the member it is of.
LEMMA SeatOf ==
    ASSUME NEW T, NEW root, NEW c, NEW o, NEW s, NEW f, Heaped(f), Tree(T, root, c, o, s, f),
           NEW l, Located(l), NEW i \in Nat, NEW k \in Nat, NEW y, Put(f, y, l, i, k) \in DOMAIN T
    PROVE  \E n \in Nat :
              /\ Stands(T, c, o, s, f, Put(f, y, l, i, k), l, i, n)
              /\ is_sequence(y) <=> is_sequence(Mem(T, l, i))
              /\ is_sequence(y) => n = k
<1> DEFINE x == Put(f, y, l, i, k)
<1>1. x # <<Message>>
  BY PutNotRoot
<1>2. PICK h \in DOMAIN T, g \in Nat, n \in Nat : Stands(T, c, o, s, f, x, h, g, n)
  BY <1>1 DEF Tree, Backed
<1>3. /\ is_sequence(Mem(T, h, g)) => Append(h, g) \in DOMAIN f
      /\ x = Put(f, Mem(T, h, g), h, g, n)
  BY <1>2 DEF Stands, Seat
<1>4. Located(h)
  BY DEF Tree, Shaped
<1> DEFINE z == Mem(T, h, g)
<1> HIDE DEF z
<1>5. /\ l = h /\ i = g /\ (is_sequence(y) <=> is_sequence(z))
      /\ is_sequence(y) => k = n
  BY <1>3, <1>4, PutSame DEF z
<1> QED BY <1>2, <1>5 DEF z

LEMMA SeatOfSlot ==
    ASSUME NEW T, NEW root, NEW c, NEW o, NEW s, NEW f, Heaped(f), Tree(T, root, c, o, s, f),
           NEW l, NEW i, NEW k, Hangs(T, c, l, i, k), Seat(T, f, l, i, k) \in DOMAIN T
    PROVE  Stands(T, c, o, s, f, Seat(T, f, l, i, k), l, i, k)
<1>1. Located(l) /\ i \in Nat /\ k \in Nat
  BY MemFinds DEF Tree, Hangs
<1>2. PICK n \in Nat : /\ Stands(T, c, o, s, f, Seat(T, f, l, i, k), l, i, n)
                       /\ is_sequence(Mem(T, l, i)) => n = k
  BY <1>1, SeatOf DEF Seat
<1>3. CASE is_sequence(Mem(T, l, i))
  BY <1>2, <1>3
<1>4. CASE ~is_sequence(Mem(T, l, i))
  <2>1. Repeats(c, Mem(T, l, i), Way(T, l, i)) = 1
    BY <1>4 DEF Hangs, Repeats
  <2>2. k < 1 /\ n < 1
    BY <1>2, <2>1 DEF Stands, Hangs
  <2>3. k = n
    BY <1>1, <2>2
  <2> QED BY <1>2, <2>3
<1> QED BY <1>3, <1>4

\* When no structure hangs from the field that points to d, none is in the block d.
LEMMA HeadGone ==
    ASSUME NEW T, NEW root, NEW c, NEW o, NEW s, NEW f, Tree(T, root, c, o, s, f),
           NEW l \in Locs, NEW i \in Nat, NEW d, d # Message,
           \A x \in DOMAIN f : f[x].data = d => x = Append(l, i),
           \A x \in DOMAIN T, k \in Nat : ~Stands(T, c, o, s, f, x, l, i, k)
    PROVE  \A x \in DOMAIN T : Head(x) # d
<1> SUFFICES ASSUME NEW w \in DOMAIN T, Head(w) = d PROVE FALSE
  OBVIOUS
<1> DEFINE D == {x \in DOMAIN T : Head(x) = d}
           L == {Len(x) : x \in D}
<1>1. \A x \in DOMAIN T : Located(x) /\ Len(x) \in Nat
  BY LenProperties DEF Tree, Shaped, Located, Locs
<1>2. L \subseteq Nat /\ L # {}
  BY <1>1
<1>3. PICK b \in L : \A a \in L : b <= a
  BY <1>2, LeastExists
<1>4. PICK x \in D : b = Len(x)
  OBVIOUS
<1>5. x \in DOMAIN T /\ Head(x) = d /\ x # <<Message>>
  OBVIOUS
<1>6. \A z \in DOMAIN T : Head(z) = d => Len(x) <= Len(z)
  BY <1>3, <1>4
<1> HIDE DEF D, L
<1>7. PICK h \in DOMAIN T, g \in Nat, n \in Nat : Stands(T, c, o, s, f, x, h, g, n)
  BY <1>5 DEF Tree, Backed
<1>8. /\ is_sequence(Mem(T, h, g)) => Append(h, g) \in DOMAIN f
      /\ x = Put(f, Mem(T, h, g), h, g, n)
  BY <1>7 DEF Stands, Seat
<1>9. CASE is_sequence(Mem(T, h, g))
  <2>1. x = Element(f[Append(h, g)].data, n)
    BY <1>8, <1>9 DEF Put
  <2>2. d = f[Append(h, g)].data
    BY <1>5, <2>1, ElementLoc
  <2>3. Append(h, g) = Append(l, i)
    BY <1>8, <1>9, <2>2
  <2>4. h = l /\ g = i
    BY <1>1, <2>3, AppendSame DEF Located
  <2> QED BY <1>5, <1>7, <2>4
<1>10. CASE ~is_sequence(Mem(T, h, g))
  <2>1. x = Append(h, g)
    BY <1>8, <1>10 DEF Put
  <2>2. Head(x) = Head(h) /\ Len(x) = Len(h) + 1
    BY <1>1, <2>1, AppendLocated
  <2>3. Len(x) <= Len(h)
    BY <1>5, <1>6, <2>2
  <2> QED BY <1>1, <2>2, <2>3
<1> QED BY <1>9, <1>10

\* A message without its root is empty.
LEMMA Emptied ==
    ASSUME NEW T, NEW root, NEW c, NEW o, NEW s, NEW f, Tree(T, root, c, o, s, f),
           <<Message>> \notin DOMAIN T
    PROVE  DOMAIN T = {} /\ DOMAIN f = {}
<1>1. DOMAIN T = {}
  <2> SUFFICES ASSUME NEW w \in DOMAIN T PROVE FALSE
    OBVIOUS
  <2> DEFINE L == {Len(T[x][2]) : x \in DOMAIN T}
  <2>1. \A x \in DOMAIN T : Len(T[x][2]) \in Nat
    BY LenProperties DEF Tree, Shaped
  <2>2. L \subseteq Nat /\ L # {}
    BY <2>1
  <2>3. PICK b \in L : \A a \in L : b <= a
    BY <2>2, LeastExists
  <2>4. PICK x \in DOMAIN T : b = Len(T[x][2])
    OBVIOUS
  <2>5. \A z \in DOMAIN T : Len(T[x][2]) <= Len(T[z][2])
    BY <2>3, <2>4
  <2> HIDE DEF L
  <2>6. PICK h \in DOMAIN T, g \in Nat, n \in Nat : Stands(T, c, o, s, f, x, h, g, n)
    BY DEF Tree, Backed
  <2>7. T[x][2] = Way(T, h, g) /\ Has(T, h, g)
    BY <2>6 DEF Stands, Hangs
  <2>8. Len(T[x][2]) = Len(T[h][2]) + 1
    BY <2>7, MemFinds DEF Tree
  <2> QED BY <2>1, <2>5, <2>8
<1> QED BY <1>1 DEF Tree, Filled
-----------------------------------------------------------------------------
\* What the steps of a walk make of the structures.

\* Nothing is visited or left, as far as it can be told.
Keeps(T, c, o, s, p, t, f) ==
    /\ \A l \in DOMAIN T, i \in Nat, k \in Nat :
          Hangs(T, c, l, i, k) => (Alive(o, s, l, i, k) <=> Alive(p, t, l, i, k))
    /\ \A l \in DOMAIN T, i \in Nat :
          Has(T, l, i) /\ NeedsMemory(Mem(T, l, i)) /\ Append(l, i) \in DOMAIN f /\ Held(o, s, l, i)
          => Held(p, t, l, i)
    /\ \A x \in DOMAIN T \ {<<Message>>} : Visited(o, s, x) <=> Visited(p, t, x)

LEMMA KeepTree ==
    ASSUME NEW T, NEW root, NEW c, NEW o, NEW s, NEW p, NEW t, NEW f,
           Keeps(T, c, o, s, p, t, f)
    PROVE  /\ Tree(T, root, c, o, s, f) => Tree(T, root, c, p, t, f)
           /\ Linked(T, c, o, s, f) => Linked(T, c, p, t, f)
<1>1. ASSUME Filled(T, o, s, f) PROVE Filled(T, p, t, f)
  <2> SUFFICES ASSUME NEW x \in DOMAIN f
               PROVE  \E l \in DOMAIN T, i \in Nat :
                         Has(T, l, i) /\ NeedsMemory(Mem(T, l, i)) /\ x = Append(l, i) /\ Held(p, t, l, i)
    BY DEF Filled
  <2>1. PICK l \in DOMAIN T, i \in Nat :
           Has(T, l, i) /\ NeedsMemory(Mem(T, l, i)) /\ x = Append(l, i) /\ Held(o, s, l, i)
    BY <1>1 DEF Filled
  <2>2. Held(p, t, l, i)
    BY <2>1 DEF Keeps
  <2> QED BY <2>1, <2>2
<1>2. ASSUME Backed(T, c, o, s, f) PROVE Backed(T, c, p, t, f)
  <2> SUFFICES ASSUME NEW x \in DOMAIN T \ {<<Message>>}
               PROVE  \E l \in DOMAIN T, i \in Nat, k \in Nat : Stands(T, c, p, t, f, x, l, i, k)
    BY DEF Backed
  <2>1. PICK l \in DOMAIN T, i \in Nat, k \in Nat : Stands(T, c, o, s, f, x, l, i, k)
    BY <1>2 DEF Backed
  <2>2. Alive(o, s, l, i, k) <=> Alive(p, t, l, i, k)
    BY <2>1 DEF Keeps, Stands
  <2>3. Visited(o, s, x) <=> Visited(p, t, x)
    BY DEF Keeps
  <2>4. Stands(T, c, p, t, f, x, l, i, k)
    BY <2>1, <2>2, <2>3 DEF Stands
  <2> QED BY <2>4
<1>3. ASSUME Linked(T, c, o, s, f) PROVE Linked(T, c, p, t, f)
  BY <1>3 DEF Linked, Keeps
<1> QED BY <1>1, <1>2, <1>3 DEF Tree

\* A field is assigned.
LEMMA GrowTree ==
    ASSUME NEW T, NEW root, NEW c, NEW o, NEW s, NEW p, NEW t, NEW f, NEW h,
           Keeps(T, c, o, s, p, t, f), Heaped(f), Tree(T, root, c, o, s, f),
           NEW l0 \in DOMAIN T, NEW i0 \in Nat, Has(T, l0, i0), NeedsMemory(Mem(T, l0, i0)),
           Held(p, t, l0, i0), DOMAIN h = DOMAIN f \cup {Append(l0, i0)},
           \A x \in DOMAIN f : h[x].data = f[x].data
    PROVE  /\ Tree(T, root, c, p, t, h)
           /\ Linked(T, c, o, s, f) => Linked(T, c, p, t, h)
<1>0. Tree(T, root, c, p, t, f)
  BY KeepTree
<1>1. ASSUME NEW l, NEW i, NEW k, is_sequence(Mem(T, l, i)) => Append(l, i) \in DOMAIN f
      PROVE  Seat(T, h, l, i, k) = Seat(T, f, l, i, k)
  BY <1>1 DEF Seat, Put
<1>2. Shaped(T, root)
  BY <1>0 DEF Tree
<1>3. Headed(T, h)
  <2> SUFFICES ASSUME NEW l \in DOMAIN T
               PROVE  Head(l) = Message \/ \E x \in DOMAIN h : h[x].data = Head(l)
    BY DEF Headed
  <2>1. Head(l) = Message \/ \E x \in DOMAIN f : f[x].data = Head(l)
    BY <1>0 DEF Tree, Headed
  <2> QED BY <2>1
<1>4. Filled(T, p, t, h)
  <2> SUFFICES ASSUME NEW x \in DOMAIN h
               PROVE  \E l \in DOMAIN T, i \in Nat :
                         Has(T, l, i) /\ NeedsMemory(Mem(T, l, i)) /\ x = Append(l, i) /\ Held(p, t, l, i)
    BY DEF Filled
  <2>1. CASE x \in DOMAIN f
    BY <1>0, <2>1 DEF Tree, Filled
  <2>2. CASE x = Append(l0, i0)
    BY <2>2
  <2> QED BY <2>1, <2>2
<1>5. Backed(T, c, p, t, h)
  <2> SUFFICES ASSUME NEW x \in DOMAIN T \ {<<Message>>}
               PROVE  \E l \in DOMAIN T, i \in Nat, k \in Nat : Stands(T, c, p, t, h, x, l, i, k)
    BY DEF Backed
  <2>1. PICK l \in DOMAIN T, i \in Nat, k \in Nat : Stands(T, c, p, t, f, x, l, i, k)
    BY <1>0 DEF Tree, Backed
  <2>2. Seat(T, h, l, i, k) = Seat(T, f, l, i, k)
    BY <1>1, <2>1 DEF Stands
  <2>3. Stands(T, c, p, t, h, x, l, i, k)
    BY <2>1, <2>2 DEF Stands
  <2> QED BY <2>3
<1>6. ASSUME Linked(T, c, o, s, f) PROVE Linked(T, c, p, t, h)
  <2> SUFFICES ASSUME NEW l \in DOMAIN T, NEW i \in Nat, NEW k \in Nat,
                      Hangs(T, c, l, i, k), Alive(p, t, l, i, k),
                      is_sequence(Mem(T, l, i)) \/ Bytes(c, Way(T, l, i), Mem(T, l, i).type, 1) # 0
               PROVE  Seat(T, h, l, i, k) \in DOMAIN T
    BY DEF Linked
  <2>1. Linked(T, c, p, t, f)
    BY <1>6, KeepTree
  <2>2. Seat(T, f, l, i, k) \in DOMAIN T
    BY <2>1 DEF Linked
  <2>3. Stands(T, c, p, t, f, Seat(T, f, l, i, k), l, i, k)
    BY <1>0, <2>2, SeatOfSlot
  <2> QED BY <1>1, <2>2, <2>3 DEF Stands
<1> QED BY <1>2, <1>3, <1>4, <1>5, <1>6 DEF Tree

\* What has to be known of a field that destroy releases: it points to d, or to
\* nothing, and no structure is in d.
Releasing(T, c, o, s, p, t, f, h, d, x0) ==
    /\ Keeps(T, c, o, s, p, t, h) /\ Heaped(f)
    /\ DOMAIN h = {x \in DOMAIN f : x # x0 /\ Head(x) # d}
    /\ \A x \in DOMAIN h : h[x] = f[x]
    /\ x0 \in DOMAIN f => f[x0].data = d
    /\ \A x \in DOMAIN T : Head(x) # d

\* A field is released.
LEMMA FreeTree ==
    ASSUME NEW T, NEW root, NEW c, NEW o, NEW s, NEW p, NEW t, NEW f, NEW h, NEW d, NEW x0,
           Tree(T, root, c, o, s, f), Releasing(T, c, o, s, p, t, f, h, d, x0)
    PROVE  /\ Tree(T, root, c, p, t, h)
           /\ Linked(T, c, o, s, f) => Linked(T, c, p, t, h)
           /\ \A x \in DOMAIN f : f[x].data # d => x \in DOMAIN h
<1> USE DEF Releasing
<1>0. /\ Shaped(T, root) /\ Headed(T, f) /\ Filled(T, o, s, f) /\ Backed(T, c, o, s, f)
  BY DEF Tree
<1>1. ASSUME NEW x \in DOMAIN f, f[x].data # d PROVE x \in DOMAIN h
  <2>1. PICK l \in DOMAIN T, i \in Nat : Has(T, l, i) /\ x = Append(l, i)
    BY <1>0 DEF Filled
  <2>2. Located(l)
    BY <1>0 DEF Shaped
  <2>3. Head(x) = Head(l)
    BY <2>1, <2>2, AppendLocated
  <2> QED BY <1>1, <2>3
<1>2. ASSUME NEW l, NEW i \in Nat, NEW k, is_sequence(Mem(T, l, i)) => Append(l, i) \in DOMAIN f,
             Seat(T, f, l, i, k) \in DOMAIN T
      PROVE  /\ Seat(T, h, l, i, k) = Seat(T, f, l, i, k)
             /\ is_sequence(Mem(T, l, i)) => Append(l, i) \in DOMAIN h
  <2>1. CASE is_sequence(Mem(T, l, i))
    <3>1. Seat(T, f, l, i, k) = Element(f[Append(l, i)].data, k)
      BY <1>2, <2>1 DEF Seat, Put
    <3>2. f[Append(l, i)].data # d
      BY <1>2, <3>1, ElementLoc
    <3>3. Append(l, i) \in DOMAIN h
      BY <1>1, <1>2, <2>1, <3>2
    <3> QED BY <1>2, <3>3 DEF Seat, Put
  <2>2. CASE ~is_sequence(Mem(T, l, i))
    BY <2>2 DEF Seat, Put
  <2> QED BY <2>1, <2>2
<1>3. Headed(T, h)
  <2> SUFFICES ASSUME NEW l \in DOMAIN T
               PROVE  Head(l) = Message \/ \E x \in DOMAIN h : h[x].data = Head(l)
    BY DEF Headed
  <2>1. Head(l) = Message \/ \E x \in DOMAIN f : f[x].data = Head(l)
    BY <1>0 DEF Headed
  <2>2. ASSUME NEW x \in DOMAIN f, f[x].data = Head(l) PROVE x \in DOMAIN h /\ h[x].data = Head(l)
    BY <1>1, <2>2
  <2> QED BY <2>1, <2>2
<1>4. Filled(T, p, t, h)
  <2> SUFFICES ASSUME NEW x \in DOMAIN h
               PROVE  \E l \in DOMAIN T, i \in Nat :
                         Has(T, l, i) /\ NeedsMemory(Mem(T, l, i)) /\ x = Append(l, i) /\ Held(p, t, l, i)
    BY DEF Filled
  <2>1. PICK l \in DOMAIN T, i \in Nat :
           Has(T, l, i) /\ NeedsMemory(Mem(T, l, i)) /\ x = Append(l, i) /\ Held(o, s, l, i)
    BY <1>0 DEF Filled
  <2>2. Held(p, t, l, i)
    BY <2>1 DEF Keeps
  <2> QED BY <2>1, <2>2
<1>5. Backed(T, c, p, t, h)
  <2> SUFFICES ASSUME NEW x \in DOMAIN T \ {<<Message>>}
               PROVE  \E l \in DOMAIN T, i \in Nat, k \in Nat : Stands(T, c, p, t, h, x, l, i, k)
    BY DEF Backed
  <2>1. PICK l \in DOMAIN T, i \in Nat, k \in Nat : Stands(T, c, o, s, f, x, l, i, k)
    BY <1>0 DEF Backed
  <2>2. /\ Hangs(T, c, l, i, k) /\ (is_sequence(Mem(T, l, i)) => Append(l, i) \in DOMAIN f)
        /\ x = Seat(T, f, l, i, k) /\ T[x] = <<Mem(T, l, i).type, Way(T, l, i)>>
        /\ Alive(o, s, l, i, k) <=> ~Visited(o, s, x)
    BY <2>1 DEF Stands
  <2>3. /\ Seat(T, h, l, i, k) = Seat(T, f, l, i, k)
        /\ is_sequence(Mem(T, l, i)) => Append(l, i) \in DOMAIN h
    BY <1>2, <2>2
  <2>4. Alive(o, s, l, i, k) <=> Alive(p, t, l, i, k)
    BY <2>2 DEF Keeps
  <2>5. Visited(o, s, x) <=> Visited(p, t, x)
    BY DEF Keeps
  <2>6. Stands(T, c, p, t, h, x, l, i, k)
    BY <2>2, <2>3, <2>4, <2>5 DEF Stands
  <2> QED BY <2>6
<1>6. ASSUME Linked(T, c, o, s, f) PROVE Linked(T, c, p, t, h)
  <2> SUFFICES ASSUME NEW l \in DOMAIN T, NEW i \in Nat, NEW k \in Nat,
                      Hangs(T, c, l, i, k), Alive(p, t, l, i, k),
                      is_sequence(Mem(T, l, i)) \/ Bytes(c, Way(T, l, i), Mem(T, l, i).type, 1) # 0
               PROVE  Seat(T, h, l, i, k) \in DOMAIN T
    BY DEF Linked
  <2>1. Alive(o, s, l, i, k)
    BY DEF Keeps
  <2>2. Seat(T, f, l, i, k) \in DOMAIN T
    BY <1>6, <2>1 DEF Linked
  <2>3. Stands(T, c, o, s, f, Seat(T, f, l, i, k), l, i, k)
    BY <2>2, SeatOfSlot
  <2> QED BY <1>2, <2>2, <2>3 DEF Stands
<1> QED BY <1>0, <1>1, <1>3, <1>4, <1>5, <1>6 DEF Tree
-----------------------------------------------------------------------------
\* T with structure x, and T without it.
Plus(T, x, v) == [l \in DOMAIN T \cup {x} |-> IF l = x THEN v ELSE T[l]]
Minus(T, x) == [l \in DOMAIN T \ {x} |-> T[l]]

\* What has to be known of a structure that create visits.
Entering(T, c, s, t, f, l0, i0, k0, x, v) ==
    /\ l0 \in DOMAIN T /\ i0 \in Nat /\ k0 \in Nat /\ Hangs(T, c, l0, i0, k0)
    /\ x = Seat(T, f, l0, i0, k0) /\ x \notin DOMAIN T /\ Located(x) /\ x # <<Message>>
    /\ is_sequence(Mem(T, l0, i0)) => Append(l0, i0) \in DOMAIN f
    /\ Head(x) = Message \/ \E y \in DOMAIN f : f[y].data = Head(x)
    /\ v = <<Mem(T, l0, i0).type, Way(T, l0, i0)>>
    /\ Alive("create", t, l0, i0, k0)
    /\ \A l \in DOMAIN T, i \in Nat, k \in Nat :
          Hangs(T, c, l, i, k) =>
             /\ Alive("create", s, l, i, k) => Alive("create", t, l, i, k)
             /\ Alive("create", t, l, i, k) =>
                   Alive("create", s, l, i, k) \/ (l = l0 /\ i = i0 /\ k = k0)
    /\ \A l \in DOMAIN T, i \in Nat :
          Has(T, l, i) /\ Held("create", s, l, i) => Held("create", t, l, i)
    /\ \A i \in Nat, k \in Nat : i >= 1 => ~Alive("create", t, x, i, k)

\* create visits a structure.
LEMMA PushTree ==
    ASSUME NEW T, NEW root, NEW c, NEW s, NEW t, NEW f, Tree(T, root, c, "create", s, f),
           NEW l0, NEW i0, NEW k0, NEW x, NEW v, Entering(T, c, s, t, f, l0, i0, k0, x, v)
    PROVE  /\ Tree(Plus(T, x, v), root, c, "create", t, f)
           /\ Linked(T, c, "create", s, f) => Linked(Plus(T, x, v), c, "create", t, f)
<1> USE DEF Entering
<1> DEFINE P == Plus(T, x, v)
<1>d. DOMAIN P = DOMAIN T \cup {x} /\ P[x] = v
  BY DEF Plus
<1>s. ASSUME NEW l \in DOMAIN T, NEW i, NEW k
      PROVE  /\ l \in DOMAIN P /\ P[l] = T[l]
             /\ Mem(P, l, i) = Mem(T, l, i) /\ Way(P, l, i) = Way(T, l, i)
             /\ Has(P, l, i) <=> Has(T, l, i)
             /\ Hangs(P, c, l, i, k) <=> Hangs(T, c, l, i, k)
             /\ Seat(P, f, l, i, k) = Seat(T, f, l, i, k)
  <2>1. l \in DOMAIN P /\ P[l] = T[l]
    BY DEF Plus
  <2> HIDE DEF P
  <2> QED BY <2>1 DEF Mem, Way, Has, Hangs, Seat
<1>0. /\ Shaped(T, root) /\ Headed(T, f) /\ Filled(T, "create", s, f)
      /\ Backed(T, c, "create", s, f)
  BY DEF Tree
<1> HIDE DEF P
<1>v. v \in (DOMAIN Types) \X Seq(STRING)
  <2>1. Composed(Mem(T, l0, i0)) /\ Way(T, l0, i0) \in Seq(STRING)
    BY <1>0, MemFinds DEF Hangs
  <2> QED BY <2>1 DEF Composed
<1>1. Shaped(P, root)
  <2>1. ASSUME NEW l \in DOMAIN P PROVE Located(l) /\ P[l] \in (DOMAIN Types) \X Seq(STRING)
    <3>1. CASE l = x
      BY <1>d, <1>v, <3>1
    <3>2. CASE l \in DOMAIN T
      BY <1>0, <1>s, <3>2 DEF Shaped
    <3> QED BY <1>d, <3>1, <3>2
  <2>2. <<Message>> \in DOMAIN P => P[<<Message>>] = <<root, << >>>>
    BY <1>0, <1>d, <1>s DEF Shaped
  <2> QED BY <2>1, <2>2 DEF Shaped
<1>2. Headed(P, f)
  BY <1>0, <1>d DEF Headed
<1>3. Filled(P, "create", t, f)
  <2> SUFFICES ASSUME NEW y \in DOMAIN f
               PROVE  \E l \in DOMAIN P, i \in Nat :
                         /\ Has(P, l, i) /\ NeedsMemory(Mem(P, l, i)) /\ y = Append(l, i)
                         /\ Held("create", t, l, i)
    BY DEF Filled
  <2>1. PICK l \in DOMAIN T, i \in Nat :
           /\ Has(T, l, i) /\ NeedsMemory(Mem(T, l, i)) /\ y = Append(l, i)
           /\ Held("create", s, l, i)
    BY <1>0 DEF Filled
  <2>2. Held("create", t, l, i)
    BY <2>1
  <2>3. l \in DOMAIN P /\ Has(P, l, i) /\ NeedsMemory(Mem(P, l, i))
    BY <1>s, <2>1
  <2> QED BY <2>1, <2>2, <2>3
<1>n. \A y : ~Visited("create", s, y) /\ ~Visited("create", t, y)
  BY DEF Visited
<1>4. Backed(P, c, "create", t, f)
  <2> SUFFICES ASSUME NEW y \in DOMAIN P \ {<<Message>>}
               PROVE  \E l \in DOMAIN P, i \in Nat, k \in Nat : Stands(P, c, "create", t, f, y, l, i, k)
    BY DEF Backed
  <2>1. CASE y = x
    <3>1. /\ l0 \in DOMAIN P /\ Mem(P, l0, i0) = Mem(T, l0, i0) /\ Way(P, l0, i0) = Way(T, l0, i0)
          /\ Hangs(P, c, l0, i0, k0) /\ Seat(P, f, l0, i0, k0) = Seat(T, f, l0, i0, k0)
      BY <1>s
    <3>2. Stands(P, c, "create", t, f, y, l0, i0, k0)
      BY <1>d, <1>n, <2>1, <3>1 DEF Stands
    <3> QED BY <3>1, <3>2
  <2>2. CASE y \in DOMAIN T
    <3>1. PICK l \in DOMAIN T, i \in Nat, k \in Nat : Stands(T, c, "create", s, f, y, l, i, k)
      BY <1>0, <2>2 DEF Backed
    <3>2. /\ Hangs(T, c, l, i, k) /\ (is_sequence(Mem(T, l, i)) => Append(l, i) \in DOMAIN f)
          /\ y = Seat(T, f, l, i, k) /\ T[y] = <<Mem(T, l, i).type, Way(T, l, i)>>
          /\ Alive("create", s, l, i, k)
      BY <1>n, <3>1 DEF Stands
    <3>3. Alive("create", t, l, i, k)
      BY <3>2
    <3>4. /\ l \in DOMAIN P /\ Mem(P, l, i) = Mem(T, l, i) /\ Way(P, l, i) = Way(T, l, i)
          /\ Hangs(P, c, l, i, k) /\ Seat(P, f, l, i, k) = Seat(T, f, l, i, k) /\ P[y] = T[y]
      BY <1>s, <2>2, <3>2
    <3>5. Stands(P, c, "create", t, f, y, l, i, k)
      BY <1>n, <3>2, <3>3, <3>4 DEF Stands
    <3> QED BY <3>4, <3>5
  <2> QED BY <1>d, <2>1, <2>2
<1>5. ASSUME Linked(T, c, "create", s, f) PROVE Linked(P, c, "create", t, f)
  <2> SUFFICES ASSUME NEW l \in DOMAIN P, NEW i \in Nat, NEW k \in Nat,
                      Hangs(P, c, l, i, k), Alive("create", t, l, i, k),
                      is_sequence(Mem(P, l, i)) \/ Bytes(c, Way(P, l, i), Mem(P, l, i).type, 1) # 0
               PROVE  Seat(P, f, l, i, k) \in DOMAIN P
    BY DEF Linked
  <2>0. i >= 1
    BY DEF Hangs, Has
  <2>1. l \in DOMAIN T
    BY <1>d, <2>0
  <2>2. /\ Mem(P, l, i) = Mem(T, l, i) /\ Way(P, l, i) = Way(T, l, i)
        /\ Hangs(T, c, l, i, k) /\ Seat(P, f, l, i, k) = Seat(T, f, l, i, k)
    BY <1>s, <2>1
  <2>3. CASE l = l0 /\ i = i0 /\ k = k0
    BY <1>d, <2>2, <2>3
  <2>4. CASE Alive("create", s, l, i, k)
    <3>1. Seat(T, f, l, i, k) \in DOMAIN T
      BY <1>5, <2>1, <2>2, <2>4 DEF Linked
    <3> QED BY <1>d, <2>2, <3>1
  <2> QED BY <2>1, <2>2, <2>3, <2>4
<1> QED BY <1>1, <1>2, <1>3, <1>4, <1>5 DEF Tree, P

\* What has to be known of a structure that destroy leaves.
Leaving(T, c, s, t, f, x) ==
    /\ Heaped(f) /\ Visited("destroy", s, x)
    /\ \A l \in DOMAIN T \ {x}, i \in Nat, k \in Nat :
          Hangs(T, c, l, i, k) => (Alive("destroy", s, l, i, k) <=> Alive("destroy", t, l, i, k))
    /\ \A l \in DOMAIN T \ {x}, i \in Nat : Held("destroy", s, l, i) => Held("destroy", t, l, i)
    /\ \A y \in DOMAIN T \ {x} : Visited("destroy", s, y) <=> Visited("destroy", t, y)
    /\ \A y \in DOMAIN T \ {x}, i \in Nat, k \in Nat : ~Stands(T, c, "destroy", s, f, y, x, i, k)
    /\ \A i \in Nat : Has(T, x, i) => ~Held("destroy", s, x, i)

\* destroy leaves a structure.
LEMMA DropTree ==
    ASSUME NEW T, NEW root, NEW c, NEW s, NEW t, NEW f, NEW x,
           Tree(T, root, c, "destroy", s, f), Leaving(T, c, s, t, f, x)
    PROVE  /\ Tree(Minus(T, x), root, c, "destroy", t, f)
           /\ Linked(T, c, "destroy", s, f) => Linked(Minus(T, x), c, "destroy", t, f)
<1> USE DEF Leaving
<1> DEFINE P == Minus(T, x)
<1>d. DOMAIN P = DOMAIN T \ {x}
  BY DEF Minus
<1>s. ASSUME NEW l \in DOMAIN T, l # x, NEW i, NEW k
      PROVE  /\ l \in DOMAIN P /\ P[l] = T[l]
             /\ Mem(P, l, i) = Mem(T, l, i) /\ Way(P, l, i) = Way(T, l, i)
             /\ Has(P, l, i) <=> Has(T, l, i)
             /\ Hangs(P, c, l, i, k) <=> Hangs(T, c, l, i, k)
             /\ Seat(P, f, l, i, k) = Seat(T, f, l, i, k)
  <2>1. l \in DOMAIN P /\ P[l] = T[l]
    BY <1>s DEF Minus
  <2> HIDE DEF P
  <2> QED BY <2>1 DEF Mem, Way, Has, Hangs, Seat
<1>0. /\ Shaped(T, root) /\ Headed(T, f) /\ Filled(T, "destroy", s, f)
      /\ Backed(T, c, "destroy", s, f)
  BY DEF Tree
<1> HIDE DEF P
<1>1. Shaped(P, root)
  BY <1>0, <1>d, <1>s DEF Shaped
<1>2. Headed(P, f)
  BY <1>0, <1>d DEF Headed
<1>3. Filled(P, "destroy", t, f)
  <2> SUFFICES ASSUME NEW y \in DOMAIN f
               PROVE  \E l \in DOMAIN P, i \in Nat :
                         /\ Has(P, l, i) /\ NeedsMemory(Mem(P, l, i)) /\ y = Append(l, i)
                         /\ Held("destroy", t, l, i)
    BY DEF Filled
  <2>1. PICK l \in DOMAIN T, i \in Nat :
           /\ Has(T, l, i) /\ NeedsMemory(Mem(T, l, i)) /\ y = Append(l, i)
           /\ Held("destroy", s, l, i)
    BY <1>0 DEF Filled
  <2>2. l # x
    BY <2>1
  <2>3. l \in DOMAIN P /\ Has(P, l, i) /\ NeedsMemory(Mem(P, l, i))
    BY <1>s, <2>1, <2>2
  <2>4. Held("destroy", t, l, i)
    BY <2>1, <2>2
  <2> QED BY <2>1, <2>3, <2>4
<1>4. Backed(P, c, "destroy", t, f)
  <2> SUFFICES ASSUME NEW y \in DOMAIN P \ {<<Message>>}
               PROVE  \E l \in DOMAIN P, i \in Nat, k \in Nat : Stands(P, c, "destroy", t, f, y, l, i, k)
    BY DEF Backed
  <2>0. y \in DOMAIN T \ {x}
    BY <1>d
  <2>1. PICK l \in DOMAIN T, i \in Nat, k \in Nat : Stands(T, c, "destroy", s, f, y, l, i, k)
    BY <1>0, <2>0 DEF Backed
  <2>2. l # x
    BY <2>0, <2>1
  <2>3. /\ Hangs(T, c, l, i, k) /\ (is_sequence(Mem(T, l, i)) => Append(l, i) \in DOMAIN f)
        /\ y = Seat(T, f, l, i, k) /\ T[y] = <<Mem(T, l, i).type, Way(T, l, i)>>
        /\ Alive("destroy", s, l, i, k) <=> ~Visited("destroy", s, y)
    BY <2>1 DEF Stands
  <2>4. /\ l \in DOMAIN P /\ Mem(P, l, i) = Mem(T, l, i) /\ Way(P, l, i) = Way(T, l, i)
        /\ Hangs(P, c, l, i, k) /\ Seat(P, f, l, i, k) = Seat(T, f, l, i, k) /\ P[y] = T[y]
    BY <1>s, <2>0, <2>2, <2>3
  <2>5. Alive("destroy", t, l, i, k) <=> ~Visited("destroy", t, y)
    BY <2>0, <2>2, <2>3
  <2>6. Stands(P, c, "destroy", t, f, y, l, i, k)
    BY <2>3, <2>4, <2>5 DEF Stands
  <2> QED BY <2>4, <2>6
<1>5. ASSUME Linked(T, c, "destroy", s, f) PROVE Linked(P, c, "destroy", t, f)
  <2> SUFFICES ASSUME NEW l \in DOMAIN P, NEW i \in Nat, NEW k \in Nat,
                      Hangs(P, c, l, i, k), Alive("destroy", t, l, i, k),
                      is_sequence(Mem(P, l, i)) \/ Bytes(c, Way(P, l, i), Mem(P, l, i).type, 1) # 0
               PROVE  Seat(P, f, l, i, k) \in DOMAIN P
    BY DEF Linked
  <2>1. l \in DOMAIN T /\ l # x
    BY <1>d
  <2>2. /\ Mem(P, l, i) = Mem(T, l, i) /\ Way(P, l, i) = Way(T, l, i)
        /\ Hangs(T, c, l, i, k) /\ Seat(P, f, l, i, k) = Seat(T, f, l, i, k)
    BY <1>s, <2>1
  <2>3. Alive("destroy", s, l, i, k)
    BY <2>1, <2>2
  <2>4. Seat(T, f, l, i, k) \in DOMAIN T
    BY <1>5, <2>1, <2>2, <2>3 DEF Linked
  <2>5. Stands(T, c, "destroy", s, f, Seat(T, f, l, i, k), l, i, k)
    BY <2>2, <2>4, SeatOfSlot
  <2>6. ~Visited("destroy", s, Seat(T, f, l, i, k))
    BY <2>3, <2>5 DEF Stands
  <2>7. Seat(T, f, l, i, k) # x
    BY <2>6
  <2> QED BY <1>d, <2>2, <2>4, <2>7
<1> QED BY <1>1, <1>2, <1>3, <1>4, <1>5 DEF Tree, P
-----------------------------------------------------------------------------
\* What the steps of a walk make of what is open.

LEMMA SetTopSlots ==
    ASSUME StackOK(stack), stack # << >>, NEW f \in Frames, f.loc = Top.loc, NEW o
    PROVE  /\ \A l, i, k : Alive(o, stack, l, i, k) /\ (l = Top.loc => Open(o, f, i, k))
                             => Alive(o, SetTop(f), l, i, k)
           /\ \A l, i, k : Alive(o, SetTop(f), l, i, k) /\ (l = Top.loc => Open(o, Top, i, k))
                             => Alive(o, stack, l, i, k)
           /\ \A l, i, k : Alive(o, stack, l, i, k) /\ l = Top.loc => Open(o, Top, i, k)
           /\ \A l, i, k : Alive(o, SetTop(f), l, i, k) /\ l = Top.loc => Open(o, f, i, k)
           /\ \A l, i : Held(o, stack, l, i) /\ (l = Top.loc => Holds(o, f, i))
                          => Held(o, SetTop(f), l, i)
           /\ \A l, i : Held(o, stack, l, i) /\ l = Top.loc => Holds(o, Top, i)
           /\ \A x : Visited(o, SetTop(f), x) <=> Visited(o, stack, x)
<1> DEFINE s == SetTop(f)
           n == Len(stack)
<1>1. /\ Len(s) = n /\ \A j \in 1..n : s[j] = IF j = n THEN f ELSE stack[j]
  BY SetTopEach
<1>2. n \in 1..n /\ stack[n] = Top
  BY TopFrame DEF Top
<1> HIDE DEF s, n
<1>3. \A j \in 1..n : s[j].loc = stack[j].loc
  BY <1>1, <1>2
<1>4. \A l, i, k : Alive(o, stack, l, i, k) /\ (l = Top.loc => Open(o, f, i, k))
                     => Alive(o, s, l, i, k)
  BY <1>1, <1>2 DEF Alive, n
<1>5. \A l, i, k : Alive(o, s, l, i, k) /\ (l = Top.loc => Open(o, Top, i, k))
                     => Alive(o, stack, l, i, k)
  BY <1>1, <1>2 DEF Alive, n
<1>6. \A l, i, k : Alive(o, stack, l, i, k) /\ l = Top.loc => Open(o, Top, i, k)
  BY <1>2 DEF Alive, n
<1>7. \A l, i, k : Alive(o, s, l, i, k) /\ l = Top.loc => Open(o, f, i, k)
  BY <1>1, <1>2 DEF Alive
<1>8. \A l, i : Held(o, stack, l, i) /\ (l = Top.loc => Holds(o, f, i)) => Held(o, s, l, i)
  BY <1>1, <1>2 DEF Held, n
<1>9. \A l, i : Held(o, stack, l, i) /\ l = Top.loc => Holds(o, Top, i)
  BY <1>2 DEF Held, n
<1>10. \A x : Visited(o, s, x) <=> Visited(o, stack, x)
  BY <1>1, <1>3 DEF Visited, n
<1> QED BY <1>4, <1>5, <1>6, <1>7, <1>8, <1>9, <1>10 DEF s

LEMMA SetTopKeeps ==
    ASSUME StackOK(stack), stack # << >>, NEW f \in Frames, f.loc = Top.loc, NEW o, NEW T, NEW c, NEW h,
           \A i \in Nat, k \in Nat :
              Hangs(T, c, Top.loc, i, k) => (Open(o, Top, i, k) <=> Open(o, f, i, k)),
           \A i \in Nat :
              Has(T, Top.loc, i) /\ NeedsMemory(Mem(T, Top.loc, i))
              /\ Append(Top.loc, i) \in DOMAIN h /\ Holds(o, Top, i) => Holds(o, f, i)
    PROVE  Keeps(T, c, o, stack, o, SetTop(f), h)
<1> DEFINE s == SetTop(f)
<1>1. /\ \A l, i, k : Alive(o, stack, l, i, k) /\ (l = Top.loc => Open(o, f, i, k))
                        => Alive(o, s, l, i, k)
      /\ \A l, i, k : Alive(o, s, l, i, k) /\ (l = Top.loc => Open(o, Top, i, k))
                        => Alive(o, stack, l, i, k)
      /\ \A l, i, k : Alive(o, stack, l, i, k) /\ l = Top.loc => Open(o, Top, i, k)
      /\ \A l, i, k : Alive(o, s, l, i, k) /\ l = Top.loc => Open(o, f, i, k)
      /\ \A l, i : Held(o, stack, l, i) /\ (l = Top.loc => Holds(o, f, i)) => Held(o, s, l, i)
      /\ \A l, i : Held(o, stack, l, i) /\ l = Top.loc => Holds(o, Top, i)
      /\ \A x : Visited(o, s, x) <=> Visited(o, stack, x)
  BY SetTopSlots
<1> HIDE DEF s
<1>2. ASSUME NEW l \in DOMAIN T, NEW i \in Nat, NEW k \in Nat, Hangs(T, c, l, i, k)
      PROVE  Alive(o, stack, l, i, k) <=> Alive(o, s, l, i, k)
  BY <1>1, <1>2
<1>3. ASSUME NEW l \in DOMAIN T, NEW i \in Nat, Has(T, l, i), NeedsMemory(Mem(T, l, i)),
             Append(l, i) \in DOMAIN h, Held(o, stack, l, i)
      PROVE  Held(o, s, l, i)
  BY <1>1, <1>3
<1> QED BY <1>1, <1>2, <1>3 DEF Keeps, s

LEMMA PushSlots ==
    ASSUME StackOK(stack), stack # << >>, NEW f \in Frames, f.loc = Top.loc, NEW g \in Frames,
           NEW o, NEW t, t = Append(SetTop(f), g)
    PROVE  /\ \A l, i, k : /\ Alive(o, stack, l, i, k) /\ (l = Top.loc => Open(o, f, i, k))
                           /\ l = g.loc => Open(o, g, i, k)
                           => Alive(o, t, l, i, k)
           /\ \A l, i, k : Alive(o, t, l, i, k) /\ (l = Top.loc => Open(o, Top, i, k))
                             => Alive(o, stack, l, i, k)
           /\ \A l, i, k : Alive(o, stack, l, i, k) /\ l = Top.loc => Open(o, Top, i, k)
           /\ \A l, i, k : Alive(o, t, l, i, k) => /\ l = Top.loc => Open(o, f, i, k)
                                                   /\ l = g.loc => Open(o, g, i, k)
           /\ \A l, i : /\ Held(o, stack, l, i) /\ (l = Top.loc => Holds(o, f, i))
                        /\ l = g.loc => Holds(o, g, i)
                        => Held(o, t, l, i)
           /\ \A l, i : Held(o, stack, l, i) /\ l = Top.loc => Holds(o, Top, i)
           /\ \A x : Visited(o, t, x) <=> Visited(o, stack, x) \/ (o = "destroy" /\ x = g.loc)
<1> DEFINE n == Len(stack)
<1>1. /\ Len(t) = n + 1
      /\ \A j \in 1..(n + 1) : t[j] = IF j = n + 1 THEN g ELSE IF j = n THEN f ELSE stack[j]
  BY PushEach
<1>2. n \in Nat \ {0} /\ n \in 1..n /\ stack[n] = Top
  BY TopFrame DEF Top
<1> HIDE DEF n
<1>3. /\ \A j \in 1..(n + 1) : j = n + 1 \/ j \in 1..n
      /\ \A j \in 1..n : j \in 1..(n + 1) /\ j # n + 1
      /\ n + 1 \in 1..(n + 1)
  BY <1>2
<1>4. t[n + 1] = g /\ t[n] = f /\ \A j \in 1..n : j # n => t[j] = stack[j]
  BY <1>1, <1>2, <1>3
<1>m. \A j \in 1..n : t[j].loc = stack[j].loc
  BY <1>2, <1>4
<1>5. ASSUME NEW l, NEW i, NEW k, Alive(o, stack, l, i, k), l = Top.loc => Open(o, f, i, k),
             l = g.loc => Open(o, g, i, k)
      PROVE  Alive(o, t, l, i, k)
  BY <1>1, <1>2, <1>3, <1>4, <1>5 DEF Alive, n
<1>6. ASSUME NEW l, NEW i, NEW k, Alive(o, t, l, i, k), l = Top.loc => Open(o, Top, i, k)
      PROVE  Alive(o, stack, l, i, k)
  BY <1>1, <1>2, <1>3, <1>4, <1>6 DEF Alive, n
<1>7. \A l, i, k : Alive(o, stack, l, i, k) /\ l = Top.loc => Open(o, Top, i, k)
  BY <1>2 DEF Alive, n
<1>8. \A l, i, k : Alive(o, t, l, i, k) => /\ l = Top.loc => Open(o, f, i, k)
                                           /\ l = g.loc => Open(o, g, i, k)
  BY <1>1, <1>2, <1>3, <1>4 DEF Alive
<1>9. ASSUME NEW l, NEW i, Held(o, stack, l, i), l = Top.loc => Holds(o, f, i),
             l = g.loc => Holds(o, g, i)
      PROVE  Held(o, t, l, i)
  BY <1>1, <1>2, <1>3, <1>4, <1>9 DEF Held, n
<1>10. \A l, i : Held(o, stack, l, i) /\ l = Top.loc => Holds(o, Top, i)
  BY <1>2 DEF Held, n
<1>11. ASSUME NEW x PROVE Visited(o, t, x) <=> Visited(o, stack, x) \/ (o = "destroy" /\ x = g.loc)
  BY <1>1, <1>3, <1>4, <1>m DEF Visited, n
<1> QED BY <1>5, <1>6, <1>7, <1>8, <1>9, <1>10, <1>11

LEMMA PopSlots ==
    ASSUME StackOK(stack), stack # << >>, NEW u \in Nat, NEW o, o \in {"create", "destroy"},
           Top.at # "pop", NEW t, t = Pop(u)
    PROVE  /\ \A l, i, k : Alive(o, stack, l, i, k) => Alive(o, t, l, i, k)
           /\ \A l, i, k : Alive(o, t, l, i, k) /\ (l = Top.loc => Open(o, Top, i, k))
                             => Alive(o, stack, l, i, k)
           /\ \A l, i : Held(o, stack, l, i) => Held(o, t, l, i)
           /\ \A l, i, k : Alive(o, stack, l, i, k) /\ l = Top.loc => Open(o, Top, i, k)
           /\ \A l, i : Held(o, stack, l, i) /\ l = Top.loc => Holds(o, Top, i)
           /\ \A x : Visited(o, t, x) => Visited(o, stack, x)
           /\ \A x : Visited(o, stack, x) /\ x # Top.loc => Visited(o, t, x)
<1> DEFINE n == Len(stack)
<1>2. n \in Nat \ {0} /\ n \in 1..n /\ stack[n] = Top
  BY TopFrame DEF Top
<1>a. \A l, i, k : Alive(o, stack, l, i, k) /\ l = Top.loc => Open(o, Top, i, k)
  BY <1>2 DEF Alive
<1>b. \A l, i : Held(o, stack, l, i) /\ l = Top.loc => Holds(o, Top, i)
  BY <1>2 DEF Held
<1>3. CASE n = 1
  <2>1. /\ Len(t) = 1 /\ t[1].at = "done" /\ t[1].loc = Top.loc
        /\ t[1].i = Top.i /\ t[1].k = Top.k
    BY <1>3, PopEach
  <2>2. \A i, k : Open(o, Top, i, k) => Open(o, t[1], i, k)
    BY <2>1 DEF Open
  <2>3. \A i : Holds(o, Top, i) => Holds(o, t[1], i)
    BY <2>1 DEF Holds
  <2>4. 1 \in 1..1 /\ \A j \in 1..1 : j = 1
    OBVIOUS
  <2>5. \A l, i, k : Alive(o, stack, l, i, k) => Alive(o, t, l, i, k)
    BY <1>2, <1>3, <2>1, <2>2, <2>4 DEF Alive
  <2>6. \A l, i, k : Alive(o, t, l, i, k) /\ (l = Top.loc => Open(o, Top, i, k))
                       => Alive(o, stack, l, i, k)
    BY <1>2, <1>3, <2>4 DEF Alive
  <2>7. \A l, i : Held(o, stack, l, i) => Held(o, t, l, i)
    BY <1>2, <1>3, <2>1, <2>3, <2>4 DEF Held
  <2>8. \A x : Visited(o, t, x) <=> Visited(o, stack, x)
    BY <1>2, <1>3, <2>1, <2>4 DEF Visited
  <2> QED BY <1>a, <1>b, <2>5, <2>6, <2>7, <2>8
<1>4. CASE n # 1
  <2>1. /\ Len(t) = n - 1
        /\ \A j \in 1..(n - 1) : /\ t[j].at = stack[j].at /\ t[j].loc = stack[j].loc
                                 /\ t[j].i = stack[j].i /\ t[j].k = stack[j].k
    BY <1>4, PopEach
  <2> HIDE DEF n
  <2>2. /\ \A j \in 1..(n - 1) : j \in 1..n /\ j # n
        /\ \A j \in 1..n : j = n \/ j \in 1..(n - 1)
    BY <1>2
  <2>3. \A j \in 1..(n - 1) : \A i, k : Open(o, t[j], i, k) <=> Open(o, stack[j], i, k)
    BY <2>1 DEF Open
  <2>4. \A j \in 1..(n - 1) : \A i : Holds(o, t[j], i) <=> Holds(o, stack[j], i)
    BY <2>1 DEF Holds
  <2>5. ASSUME NEW l, NEW i, NEW k, Alive(o, stack, l, i, k) PROVE Alive(o, t, l, i, k)
    BY <2>1, <2>2, <2>3, <2>5 DEF Alive, n
  <2>6. ASSUME NEW l, NEW i, NEW k, Alive(o, t, l, i, k), l = Top.loc => Open(o, Top, i, k)
        PROVE  Alive(o, stack, l, i, k)
    BY <1>2, <2>1, <2>2, <2>3, <2>6 DEF Alive, n
  <2>7. ASSUME NEW l, NEW i, Held(o, stack, l, i) PROVE Held(o, t, l, i)
    BY <2>1, <2>2, <2>4, <2>7 DEF Held, n
  <2>8. \A x : Visited(o, t, x) => Visited(o, stack, x)
    BY <2>1, <2>2 DEF Visited, n
  <2>9. \A x : Visited(o, stack, x) /\ x # Top.loc => Visited(o, t, x)
    BY <1>2, <2>1, <2>2 DEF Visited, n
  <2> QED BY <1>a, <1>b, <2>5, <2>6, <2>7, <2>8, <2>9
<1> QED BY <1>3, <1>4
-----------------------------------------------------------------------------
\* The frames are at structures of their own types and paths.
Visits(T, s) ==
    \A j \in 1..Len(s) :
        /\ Located(s[j].loc)
        /\ s[j].loc \in DOMAIN T => T[s[j].loc] = <<s[j].ty, Path(s, j)>>

LEMMA PathLen ==
    ASSUME NEW s, NEW j \in Nat \ {0}, Path(s, j) \in Seq(STRING)
    PROVE  Len(Path(s, j)) = j - 1
<1> DEFINE p == Path(s, j)
<1>1. DOMAIN p = 1..(j - 1)
  BY DEF Path
<1>2. p \in Seq(STRING) /\ j - 1 \in Nat
  OBVIOUS
<1> HIDE DEF p
<1>3. Len(p) \in Nat /\ DOMAIN p = 1..Len(p)
  BY <1>2, LenProperties
<1>4. Len(p) = j - 1
  BY <1>1, <1>2, <1>3
<1> QED BY <1>4 DEF p

\* No two frames are at the same structure.
LEMMA FramesApart ==
    ASSUME StackOK(stack), stack # << >>, NEW c, Nested(stack, c), NEW T, Visits(T, stack),
           NEW j \in 1..Len(stack), NEW h \in 1..Len(stack), stack[j].loc = stack[h].loc,
           stack[j].loc \in DOMAIN T
    PROVE  j = h
<1>1. j \in Nat \ {0} /\ h \in Nat \ {0}
  BY TopFrame
<1>2. Path(stack, j) \in Seq(STRING) /\ Path(stack, h) \in Seq(STRING)
  BY NestedPath
<1>3. Len(Path(stack, j)) = j - 1
  BY <1>1, <1>2, PathLen
<1>4. Len(Path(stack, h)) = h - 1
  BY <1>1, <1>2, PathLen
<1>5. /\ T[stack[j].loc] = <<stack[j].ty, Path(stack, j)>>
      /\ T[stack[h].loc] = <<stack[h].ty, Path(stack, h)>>
  BY DEF Visits
<1>6. Path(stack, j) = Path(stack, h)
  BY <1>5
<1> HIDE DEF Path
<1>7. j - 1 = h - 1
  BY <1>3, <1>4, <1>6
<1> QED BY <1>1, <1>7

LEMMA SetTopVisits ==
    ASSUME StackOK(stack), stack # << >>, NEW f \in Frames, Same(f), NEW T, Visits(T, stack)
    PROVE  Visits(T, SetTop(f))
<1> DEFINE s == SetTop(f)
           n == Len(stack)
<1>1. /\ Len(s) = n /\ \A j \in 1..n : s[j] = IF j = n THEN f ELSE stack[j]
  BY SetTopEach
<1>2. n \in Nat \ {0} /\ n \in 1..n /\ stack[n] = Top
  BY TopFrame DEF Top
<1>3. ASSUME NEW j \in 1..n PROVE Path(s, j) = Path(stack, j)
  <2>1. j \in 1..(Len(stack) + 1) /\ j <= Len(stack)
    BY <1>2
  <2> QED BY <2>1, SetTopPaths
<1> HIDE DEF s, n
<1>4. \A j \in 1..n : s[j].loc = stack[j].loc /\ s[j].ty = stack[j].ty
  BY <1>1, <1>2 DEF Same
<1> QED BY <1>1, <1>3, <1>4 DEF Visits, s, n

\* P has what T has of the frames of s, and of the frame g at the path q.
Agrees(P, T, s, g, q) ==
    /\ \A j \in 1..Len(s) :
          s[j].loc \in DOMAIN P => s[j].loc \in DOMAIN T /\ P[s[j].loc] = T[s[j].loc]
    /\ Located(g.loc) /\ (g.loc \in DOMAIN P => P[g.loc] = <<g.ty, q>>)

LEMMA PushVisits ==
    ASSUME StackOK(stack), stack # << >>, NEW f \in Frames, Same(f), f.i = Top.i, NEW g \in Frames,
           NEW T, Visits(T, stack), NEW t, t = Append(SetTop(f), g),
           NEW P, Agrees(P, T, stack, g, Path(stack, Len(stack) + 1))
    PROVE  Visits(P, t)
<1> USE DEF Agrees
<1> DEFINE n == Len(stack)
<1>1. /\ Len(t) = n + 1
      /\ \A j \in 1..(n + 1) : t[j] = IF j = n + 1 THEN g ELSE IF j = n THEN f ELSE stack[j]
  BY PushEach
<1>2. n \in Nat \ {0} /\ n \in 1..n /\ stack[n] = Top
  BY TopFrame DEF Top
<1>3. ASSUME NEW j \in 1..(n + 1) PROVE Path(t, j) = Path(stack, j)
  BY PushPaths DEF Same
<1> HIDE DEF n
<1>4. ASSUME NEW j \in 1..(n + 1)
      PROVE  /\ Located(t[j].loc)
             /\ t[j].loc \in DOMAIN P => P[t[j].loc] = <<t[j].ty, Path(t, j)>>
  <2>1. CASE j = n + 1
    BY <1>1, <1>3, <2>1 DEF n
  <2>2. CASE j \in 1..n
    <3>1. t[j].loc = stack[j].loc /\ t[j].ty = stack[j].ty
      BY <1>1, <1>2, <2>2 DEF Same
    <3>2. /\ Located(stack[j].loc)
          /\ stack[j].loc \in DOMAIN T => T[stack[j].loc] = <<stack[j].ty, Path(stack, j)>>
      BY <2>2 DEF Visits, n
    <3>3. Path(t, j) = Path(stack, j)
      BY <1>3
    <3>4. stack[j].loc \in DOMAIN P => stack[j].loc \in DOMAIN T /\ P[stack[j].loc] = T[stack[j].loc]
      BY <2>2 DEF n
    <3> QED BY <3>1, <3>2, <3>3, <3>4
  <2>3. j = n + 1 \/ j \in 1..n
    BY <1>2
  <2> QED BY <2>1, <2>2, <2>3
<1> QED BY <1>1, <1>4 DEF Visits

LEMMA PopVisits ==
    ASSUME StackOK(stack), stack # << >>, NEW u \in Nat, NEW T, Visits(T, stack), NEW t, t = Pop(u),
           NEW P, \A l \in DOMAIN P : l \in DOMAIN T /\ P[l] = T[l]
    PROVE  Visits(P, t)
<1> DEFINE n == Len(stack)
<1>1. n \in Nat \ {0} /\ n \in 1..n /\ stack[n] = Top
  BY TopFrame DEF Top
<1>2. \A j \in 1..n : Path(t, j) = Path(stack, j)
  BY PopPaths
<1>3. /\ Len(t) \in 1..n
      /\ \A j \in 1..Len(t) : j \in 1..n /\ t[j].loc = stack[j].loc /\ t[j].ty = stack[j].ty
  <2>1. CASE n = 1
    <3>1. Len(t) = 1 /\ t[1].loc = stack[1].loc /\ t[1].ty = stack[1].ty
      BY <1>1, <2>1, PopEach
    <3> QED BY <2>1, <3>1
  <2>2. CASE n # 1
    <3>1. /\ Len(t) = n - 1
          /\ \A j \in 1..(n - 1) : t[j].loc = stack[j].loc /\ t[j].ty = stack[j].ty
      BY <2>2, PopEach
    <3>2. n - 1 \in 1..n /\ \A j \in 1..(n - 1) : j \in 1..n
      BY <1>1, <2>2
    <3> QED BY <3>1, <3>2
  <2> QED BY <2>1, <2>2
<1> HIDE DEF n
<1> QED BY <1>2, <1>3 DEF Visits, n
-----------------------------------------------------------------------------
\* A structure without bytes: none of its members has any.
LEMMA ZeroTail ==
    ASSUME Measured, NEW c \in Confs, NEW p \in Seq(STRING), NEW t \in DOMAIN Types,
           Bytes(c, p, t, 1) = 0
    PROVE  \A i \in 1..Len(Types[t]) : Bytes(c, p, t, i) = 0
<1> DEFINE D == {i \in 1..Len(Types[t]) : Bytes(c, p, t, i) # 0}
<1> SUFFICES ASSUME D # {} PROVE FALSE
  OBVIOUS
<1>l. Types[t] \in Seq(MessageMember) /\ Len(Types[t]) \in Nat
  BY MessageAssumption, LenProperties DEF MessageAssumption
<1>1. D \subseteq Nat
  BY <1>l
<1>2. PICK b \in D : \A a \in D : b <= a
  BY <1>1, LeastExists
<1>3. b \in 1..Len(Types[t]) /\ Bytes(c, p, t, b) # 0 /\ b # 1
  OBVIOUS
<1>4. b - 1 \in Nat /\ b - 1 \in 1..Len(Types[t]) /\ (b - 1) + 1 = b /\ ~(b <= b - 1)
  BY <1>l, <1>3
<1>5. Bytes(c, p, t, b - 1) = 0
  BY <1>2, <1>4
<1> HIDE DEF D
<1> DEFINE x == Types[t][b - 1]
           q == Append(p, x.name)
<1>6. /\ Bytes(c, p, t, b - 1) =
           Own(c, x, q) + Repeats(c, x, q) * Inner(c, x, q) + Bytes(c, p, t, (b - 1) + 1)
  BY <1>4, BytesSum
<1>7. x \in MessageMember
  BY <1>l, <1>4, ElementOfSeq
<1>8. x.name \in STRING
  BY <1>7 DEF MessageMember
<1> HIDE DEF x
<1>9. q \in Seq(STRING)
  BY <1>8, AppendProperties
<1> HIDE DEF q
<1>10. Own(c, x, q) \in Nat /\ Repeats(c, x, q) \in Nat /\ Inner(c, x, q) \in Nat
  <2>1. CASE Composed(x)
    <3>1. x.type \in DOMAIN Types /\ 1 \in Nat
      BY <2>1 DEF Composed
    <3> QED BY <1>7, <1>9, <2>1, <3>1, OwnNat, CapacityNat, BytesSum DEF Inner
  <2>2. CASE ~Composed(x)
    BY <1>7, <2>2, OwnNat, CapacityNat DEF Inner
  <2> QED BY <2>1, <2>2
<1>11. Repeats(c, x, q) * Inner(c, x, q) \in Nat
  BY <1>10, ProductNat
<1>12. Bytes(c, p, t, b) \in Nat
  BY <1>3, <1>l, BytesSum
<1> QED BY <1>3, <1>4, <1>5, <1>6, <1>10, <1>11, <1>12

\* A message in a structure without bytes is embedded, and has no bytes either.
LEMMA ZeroMember ==
    ASSUME Measured, NEW c \in Confs, NEW p \in Seq(STRING), NEW t \in DOMAIN Types,
           Bytes(c, p, t, 1) = 0, NEW i \in 1..Len(Types[t]), NEW x, x = Types[t][i],
           NEW q, q = Append(p, x.name), Composed(x), NEW k \in Nat, k < Repeats(c, x, q)
    PROVE  ~is_sequence(x) /\ Bytes(c, q, x.type, 1) = 0
<1>l. Types[t] \in Seq(MessageMember) /\ Len(Types[t]) \in Nat
  BY MessageAssumption, LenProperties DEF MessageAssumption
<1>1. i \in Nat /\ i + 1 \in Nat
  BY <1>l
<1>2. Bytes(c, p, t, i) = 0
  BY ZeroTail
<1>3. x \in MessageMember
  BY <1>l, ElementOfSeq
<1>4. x.name \in STRING /\ x.type \in DOMAIN Types /\ 1 \in Nat
  BY <1>3 DEF MessageMember, Composed
<1>5. q \in Seq(STRING)
  BY <1>4, AppendProperties
<1>6. Bytes(c, q, x.type, 1) \in Nat /\ Bytes(c, p, t, i + 1) \in Nat
  BY <1>1, <1>4, <1>5, BytesSum
<1>7. Inner(c, x, q) = Bytes(c, q, x.type, 1)
  BY DEF Inner
<1>8. Bytes(c, p, t, i) = Own(c, x, q) + Repeats(c, x, q) * Inner(c, x, q) + Bytes(c, p, t, i + 1)
  BY <1>1, BytesSum
<1>9. Own(c, x, q) \in Nat /\ Repeats(c, x, q) \in Nat /\ Capacity(c, x, q) \in Nat
  BY <1>3, OwnNat, CapacityNat
<1> DEFINE R == Repeats(c, x, q)
           I == Bytes(c, q, x.type, 1)
           O == Own(c, x, q)
<1>10. R * I \in Nat
  BY <1>6, <1>9, ProductNat
<1>11. O = 0 /\ R * I = 0
  BY <1>2, <1>6, <1>7, <1>8, <1>9, <1>10
<1>12. R # 0
  BY <1>9
<1>13. I = 0
  <2> SUFFICES ASSUME I # 0 PROVE FALSE
    OBVIOUS
  <2>1. \A a \in Nat \ {0}, b \in Nat \ {0} : a * b # 0
    OBVIOUS
  <2>2. R \in Nat \ {0} /\ I \in Nat \ {0}
    BY <1>6, <1>9, <1>12
  <2> HIDE DEF R, I
  <2> QED BY <1>11, <2>1, <2>2
<1>14. ~is_sequence(x)
  <2> SUFFICES ASSUME is_sequence(x) PROVE FALSE
    OBVIOUS
  <2>1. R = Capacity(c, x, q)
    BY DEF Repeats
  <2>2. O = Capacity(c, x, q) * member_size(x)
    BY DEF Own, NeedsMemory
  <2>3. member_size(x) \in Nat \ {0}
    BY <1>4, MessageAssumption DEF member_size, MessageAssumption
  <2>4. \A a \in Nat \ {0}, b \in Nat \ {0} : a * b # 0
    OBVIOUS
  <2>5. Capacity(c, x, q) \in Nat \ {0}
    BY <1>9, <1>12, <2>1
  <2> HIDE DEF R, O
  <2> QED BY <1>11, <2>2, <2>3, <2>4, <2>5
<1> QED BY <1>13, <1>14
-----------------------------------------------------------------------------
\* The message that create is making: every frame is at one of its structures, and
\* what is missing is missing in what the frames have counted.
Making(T, a, s, f) ==
    /\ Tree(T, a.root, a.conf, "create", s, f) /\ Visits(T, s) /\ s[1].loc = <<Message>>
    /\ \A j \in 1..Len(s) : s[j].loc \in DOMAIN T
    /\ Short(a.conf, s) \/ Linked(T, a.conf, "create", s, f)

\* A message that is not being destroyed.
Kept(T, a, g, f) ==
    /\ Tree(T, a.root, a.conf, "none", << >>, f) /\ <<Message>> \in DOMAIN T
    /\ g = "made" => Linked(T, a.conf, "none", << >>, f)

\* Frame j is at a structure, or at one that needs nothing inside of one.
Firm(T, c, s, j) ==
    /\ s[j].loc \in DOMAIN T \/ Whole(c, s, j) = 0
    /\ \E h \in 1..j : s[h].loc \in DOMAIN T /\ Head(s[h].loc) = Head(s[j].loc)

\* A message that is being destroyed.
Undoing(T, a, g, s, f) ==
    /\ Tree(T, a.root, a.conf, "destroy", s, f) /\ Visits(T, s) /\ s[1].loc = <<Message>>
    /\ <<Message>> \in DOMAIN T <=> s[Len(s)].at # "done"
    /\ g = "made" =>
          /\ Linked(T, a.conf, "destroy", s, f)
          /\ \A j \in 1..Len(s) : s[j].at # "done" => Firm(T, a.conf, s, j)

\* Every block is the name's or a field's.
Owned == \A b \in Live \ {name_tree.data} : \E x \in DOMAIN fields : fields[x].data = <<"heap", b>>

TreeInv ==
    fault = "none" =>
        /\ stack = << >> => name_tree = NoString
        /\ msg \in {"raw", "static"} /\ op # "create" => Live \subseteq {name_tree.data}
        /\ op = "create" => Owned /\ \E T : Making(T, call, stack, fields)
        /\ msg \in {"made", "failed"} =>
              /\ Owned
              /\ call.api = "destroy" => call.root = made.root /\ call.conf = made.conf
              /\ op # "destroy" => \E T : Kept(T, made, msg, fields)
              /\ op = "destroy" => \E T : Undoing(T, call, msg, stack, fields)

LEMMA FirstBelow ==
    \A n \in Nat \ {0} : n # 1 => 1 \in 1..(n - 1) /\ \A j \in 1..(n - 1) : j \in 1..n
OBVIOUS

\* What is known of the message in a walk that creates or destroys.
LEMMA HeapedFields ==
    ASSUME TypeInv, OwnInv, op \in {"create", "destroy"}
    PROVE  Heaped(fields)
<1>1. \A x \in DOMAIN fields : fields[x].data \in Pointers
  BY DEF TypeInv, HeapOK
<1>2. \A x \in DOMAIN fields : fields[x].data[1] = "heap"
  BY DEF OwnInv
<1>3. \A x, y \in DOMAIN fields : fields[x].data = fields[y].data => x = y
  BY <1>2 DEF OwnInv
<1> QED BY <1>1, <1>2, <1>3 DEF Heaped

\* The innermost frame, as a structure of the message.
LEMMA TopStructure ==
    ASSUME StackOK(stack), stack # << >>, NEW c, Nested(stack, c), NEW T, Visits(T, stack),
           Top.loc \in DOMAIN T
    PROVE  /\ Located(Top.loc) /\ T[Top.loc][1] = Top.ty
           /\ T[Top.loc][2] = Path(stack, Len(stack))
           /\ \A i : Mem(T, Top.loc, i) = Types[Top.ty][i]
           /\ \A i : Has(T, Top.loc, i) <=> i \in 1..Len(Types[Top.ty])
           /\ Within(Top) =>
                 /\ Has(T, Top.loc, Top.i) /\ Mem(T, Top.loc, Top.i) = m
                 /\ Way(T, Top.loc, Top.i) = Path(stack, Len(stack) + 1)
           /\ \A j \in 1..Len(stack) : stack[j].loc = Top.loc => j = Len(stack)
<1> DEFINE n == Len(stack)
<1>1. n \in Nat \ {0} /\ n \in 1..n /\ stack[n] = Top /\ Top \in Frames /\ FrameOK(Top)
  BY TopFrame DEF Top
<1>2. Located(Top.loc) /\ T[Top.loc] = <<Top.ty, Path(stack, n)>>
  BY <1>1 DEF Visits
<1>3. T[Top.loc][1] = Top.ty /\ T[Top.loc][2] = Path(stack, n)
  BY <1>2
<1>4. \A i : Mem(T, Top.loc, i) = Types[Top.ty][i]
  BY <1>3 DEF Mem
<1>5. \A i : Has(T, Top.loc, i) <=> i \in 1..Len(Types[Top.ty])
  BY <1>3 DEF Has
<1>6. ASSUME Within(Top)
      PROVE  /\ Has(T, Top.loc, Top.i) /\ Mem(T, Top.loc, Top.i) = m
             /\ Way(T, Top.loc, Top.i) = Path(stack, n + 1)
  <2>1. Path(stack, n + 1) = Append(Path(stack, n), Item(stack[n]).name)
    BY <1>1, <1>6, NestedPath
  <2>2. Mem(T, Top.loc, Top.i) = m /\ m = Item(stack[n])
    BY <1>1, <1>4 DEF m, members, Item
  <2>3. Top.i \in 1..Len(Types[Top.ty])
    <3>1. Len(Types[Top.ty]) \in Nat
      BY TopFrame DEF members
    <3> QED BY <1>1, <1>6, <3>1 DEF FrameOK, Within
  <2> QED BY <1>3, <1>5, <2>1, <2>2, <2>3 DEF Way
<1>7. ASSUME NEW j \in 1..n, stack[j].loc = Top.loc PROVE j = n
  BY <1>1, <1>7, FramesApart
<1> QED BY <1>2, <1>3, <1>4, <1>5, <1>6, <1>7

\* A step changes the innermost frame only, and no field.
LEMMA MakingSetTop ==
    ASSUME StackOK(stack), stack # << >>, NEW a, NEW T, Making(T, a, stack, fields),
           NEW f \in Frames, Same(f), NEW t, t = SetTop(f),
           Short(a.conf, stack) => Short(a.conf, t),
           \A i \in Nat, k \in Nat :
              Hangs(T, a.conf, Top.loc, i, k) => (Open("create", Top, i, k) <=> Open("create", f, i, k)),
           \A i \in Nat : Has(T, Top.loc, i) /\ Holds("create", Top, i) => Holds("create", f, i)
    PROVE  /\ Making(T, a, t, fields) /\ Keeps(T, a.conf, "create", stack, "create", t, fields)
           /\ Visits(T, t) /\ t[1].loc = <<Message>> /\ \A j \in 1..Len(t) : t[j].loc \in DOMAIN T
<1>1. /\ Tree(T, a.root, a.conf, "create", stack, fields) /\ Visits(T, stack)
      /\ stack[1].loc = <<Message>> /\ \A j \in 1..Len(stack) : stack[j].loc \in DOMAIN T
      /\ Short(a.conf, stack) \/ Linked(T, a.conf, "create", stack, fields)
  BY DEF Making
<1>2. f.loc = Top.loc
  BY DEF Same
<1>3. Keeps(T, a.conf, "create", stack, "create", SetTop(f), fields)
  <2> DEFINE c == a.conf
             o == "create"
  <2>1. \A i \in Nat, k \in Nat :
           Hangs(T, c, Top.loc, i, k) => (Open(o, Top, i, k) <=> Open(o, f, i, k))
    OBVIOUS
  <2>2. \A i \in Nat :
           Has(T, Top.loc, i) /\ NeedsMemory(Mem(T, Top.loc, i))
           /\ Append(Top.loc, i) \in DOMAIN fields /\ Holds(o, Top, i) => Holds(o, f, i)
    OBVIOUS
  <2> HIDE DEF c, o
  <2>3. Keeps(T, c, o, stack, o, SetTop(f), fields)
    BY <1>2, <2>1, <2>2, SetTopKeeps
  <2> QED BY <2>3 DEF c, o
<1>4. Keeps(T, a.conf, "create", stack, "create", t, fields)
  BY <1>3
<1>5. Tree(T, a.root, a.conf, "create", t, fields)
  BY <1>1, <1>4, KeepTree
<1>6. Linked(T, a.conf, "create", stack, fields) => Linked(T, a.conf, "create", t, fields)
  BY <1>4, KeepTree
<1>7. Visits(T, t)
  BY <1>1, SetTopVisits
<1>8. /\ Len(t) = Len(stack) /\ Len(stack) \in Nat \ {0} /\ stack[Len(stack)] = Top
      /\ \A j \in 1..Len(stack) : t[j] = IF j = Len(stack) THEN f ELSE stack[j]
  BY SetTopEach, TopFrame DEF Top
<1>9. \A j \in 1..Len(stack) : t[j].loc = stack[j].loc
  BY <1>2, <1>8
<1>10. t[1].loc = <<Message>> /\ \A j \in 1..Len(t) : t[j].loc \in DOMAIN T
  <2>1. 1 \in 1..Len(stack)
    BY <1>8
  <2> QED BY <1>1, <1>8, <1>9, <2>1
<1>11. Short(a.conf, t) \/ Linked(T, a.conf, "create", t, fields)
  BY <1>1, <1>6
<1> QED BY <1>4, <1>5, <1>7, <1>10, <1>11 DEF Making

\* A frame of create returns, or gives up what has no bytes.
LEMMA MakingPop ==
    ASSUME StackOK(stack), stack # << >>, NEW a, NEW T, Making(T, a, stack, fields),
           Nested(stack, a.conf), Top.at # "pop", NEW u \in Nat, NEW t, t = Pop(u),
           Short(a.conf, stack) => Short(a.conf, t),
           \/ Short(a.conf, t)
           \/ \A i \in Nat, k \in Nat :
                 Hangs(T, a.conf, Top.loc, i, k) /\ ~Open("create", Top, i, k) =>
                    /\ ~is_sequence(Mem(T, Top.loc, i))
                    /\ Bytes(a.conf, Way(T, Top.loc, i), Mem(T, Top.loc, i).type, 1) = 0
    PROVE  Making(T, a, t, fields)
<1> DEFINE c == a.conf
           o == "create"
<1>1. /\ Tree(T, a.root, c, o, stack, fields) /\ Visits(T, stack)
      /\ stack[1].loc = <<Message>> /\ \A j \in 1..Len(stack) : stack[j].loc \in DOMAIN T
      /\ Short(c, stack) \/ Linked(T, c, o, stack, fields)
  BY DEF Making
<1>2. /\ \A l, i, k : Alive(o, stack, l, i, k) => Alive(o, t, l, i, k)
      /\ \A l, i, k : Alive(o, t, l, i, k) /\ (l = Top.loc => Open(o, Top, i, k))
                        => Alive(o, stack, l, i, k)
      /\ \A l, i : Held(o, stack, l, i) => Held(o, t, l, i)
  <2>1. o \in {"create", "destroy"}
    OBVIOUS
  <2> HIDE DEF o
  <2> QED BY <2>1, PopSlots
<1>v. \A x : ~Visited(o, stack, x) /\ ~Visited(o, t, x)
  BY DEF Visited
<1>3. Tree(T, a.root, c, o, t, fields)
  <2>1. Filled(T, o, t, fields)
    BY <1>1, <1>2 DEF Tree, Filled
  <2>2. Backed(T, c, o, t, fields)
    <3> SUFFICES ASSUME NEW x \in DOMAIN T \ {<<Message>>}
                 PROVE  \E l \in DOMAIN T, i \in Nat, k \in Nat : Stands(T, c, o, t, fields, x, l, i, k)
      BY DEF Backed
    <3>1. PICK l \in DOMAIN T, i \in Nat, k \in Nat : Stands(T, c, o, stack, fields, x, l, i, k)
      BY <1>1 DEF Tree, Backed
    <3>2. Alive(o, stack, l, i, k)
      BY <1>v, <3>1 DEF Stands
    <3>3. Alive(o, t, l, i, k)
      BY <1>2, <3>2
    <3>4. Stands(T, c, o, t, fields, x, l, i, k)
      BY <1>v, <3>1, <3>3 DEF Stands
    <3> QED BY <3>4
  <2> QED BY <1>1, <2>1, <2>2 DEF Tree
<1>4. Short(c, t) \/ Linked(T, c, o, t, fields)
  <2> SUFFICES ASSUME ~Short(c, t) PROVE Linked(T, c, o, t, fields)
    OBVIOUS
  <2>0. Linked(T, c, o, stack, fields)
    BY <1>1
  <2> SUFFICES ASSUME NEW l \in DOMAIN T, NEW i \in Nat, NEW k \in Nat,
                      Hangs(T, c, l, i, k), Alive(o, t, l, i, k),
                      is_sequence(Mem(T, l, i)) \/ Bytes(c, Way(T, l, i), Mem(T, l, i).type, 1) # 0
               PROVE  Seat(T, fields, l, i, k) \in DOMAIN T
    BY DEF Linked
  <2>1. l = Top.loc => Open(o, Top, i, k)
    OBVIOUS
  <2>2. Alive(o, stack, l, i, k)
    BY <1>2, <2>1
  <2> QED BY <2>0, <2>2 DEF Linked
<1>5. Visits(T, t)
  <2>1. \A l \in DOMAIN T : l \in DOMAIN T /\ T[l] = T[l]
    OBVIOUS
  <2> QED BY <1>1, <2>1, PopVisits
<1>6. t[1].loc = <<Message>> /\ \A j \in 1..Len(t) : t[j].loc \in DOMAIN T
  <2>0. Len(stack) \in Nat \ {0} /\ stack[Len(stack)] = Top
    BY TopFrame DEF Top
  <2>1. CASE Len(stack) = 1
    <3>1. Len(t) = 1 /\ t[1].loc = stack[1].loc
      BY <2>0, <2>1, PopEach
    <3> QED BY <1>1, <2>1, <3>1
  <2>2. CASE Len(stack) # 1
    <3>1. /\ Len(t) = Len(stack) - 1
          /\ \A j \in 1..(Len(stack) - 1) : t[j].loc = stack[j].loc
      BY <2>2, PopEach
    <3>2. 1 \in 1..(Len(stack) - 1) /\ \A j \in 1..(Len(stack) - 1) : j \in 1..Len(stack)
      BY <2>0, <2>2, FirstBelow
    <3> QED BY <1>1, <3>1, <3>2
  <2> QED BY <2>1, <2>2
<1> QED BY <1>3, <1>4, <1>5, <1>6 DEF Making
-----------------------------------------------------------------------------
\* The steps of create.

\* What a step of a walk finds and leaves.
LEMMA StepFinds ==
    ASSUME TypeInv, NestInv,
           PushName \/ Plain \/ Allocate \/ Preallocate \/ Count \/ Descend \/ Release
              \/ PopName \/ Return
    PROVE  /\ stack # << >> /\ fault = "none" /\ UNCHANGED callVars /\ name_tree' = name_tree
           /\ StackOK(stack) /\ StackOK(stack') /\ call \in Calls /\ call.conf \in Confs
           /\ Nested(stack, call.conf) /\ Len(stack) \in Nat \ {0} /\ stack[Len(stack)] = Top
           /\ Top \in Frames /\ FrameOK(Top) /\ Top.i \in Nat \ {0} /\ Top.k \in Nat
           /\ Path(stack, Len(stack)) \in Seq(STRING)
<1>1. stack # << >> /\ UNCHANGED callVars /\ fault = "none"
  BY DEF PushName, Plain, Allocate, Preallocate, Count, Descend, Release, PopName, Return,
         Walking
<1>2. StackOK(stack) /\ call \in Calls /\ Nested(stack, call.conf)
  BY <1>1 DEF TypeInv, CallOK, NestInv
<1>3. StackOK(stack')
  <2>1. TypeInv'
    <3>1. Next
      BY DEF Next
    <3> QED BY <3>1, NextType
  <2> QED BY <2>1 DEF TypeInv
<1>4. Len(stack) \in Nat \ {0} /\ stack[Len(stack)] = Top /\ Top \in Frames /\ FrameOK(Top)
  BY <1>1, <1>2, TopFrame DEF Top
<1>5. Top.i \in Nat \ {0} /\ Top.k \in Nat
  BY <1>4 DEF Frames, FrameOK
<1>6. name_tree' = name_tree /\ call.conf \in Confs
  BY <1>1, <1>2 DEF callVars, Calls
<1>7. Path(stack, Len(stack)) \in Seq(STRING)
  <2>1. Len(stack) \in 1..Len(stack)
    BY <1>4
  <2> QED BY <1>1, <1>2, <2>1, NestedPath
<1> QED BY <1>1, <1>2, <1>3, <1>4, <1>5, <1>6, <1>7

LEMMA OwnedSame ==
    ASSUME Owned, Live' = Live, UNCHANGED fields, UNCHANGED name_tree
    PROVE  Owned'
BY DEF Owned

\* The new innermost frame is a frame of the next stack.
LEMMA TopNext ==
    ASSUME StackOK(stack), StackOK(stack'), stack # << >>, NEW f \in Frames, stack' = SetTop(f)
    PROVE  FrameOK(f)
<1>1. Len(stack') = Len(stack) /\ stack'[Len(stack)] = f /\ Len(stack) \in 1..Len(stack)
  BY SetTopEach, TopFrame
<1> QED BY <1>1 DEF StackOK

LEMMA MakeName ==
    ASSUME Measured, ~Moves, TypeInv, NameInv, OwnInv, NestInv, BalInv, Owned, op = "create",
           fault' = "none", PushName \/ PopName, NEW T, Making(T, call, stack, fields)
    PROVE  Owned' /\ Making(T, call, stack', fields')
<1>0. /\ stack # << >> /\ fault = "none" /\ UNCHANGED callVars /\ name_tree' = name_tree
      /\ StackOK(stack) /\ StackOK(stack') /\ call.conf \in Confs
      /\ Nested(stack, call.conf) /\ Len(stack) \in Nat \ {0} /\ stack[Len(stack)] = Top
      /\ Top \in Frames /\ FrameOK(Top) /\ Top.i \in Nat \ {0} /\ Top.k \in Nat
  BY StepFinds
<1>1. Live' = Live /\ UNCHANGED fields
  BY NameInPlace
<1>2. Owned'
  BY <1>0, <1>1, OwnedSame
<1>3. Short(call.conf, stack) => Short(call.conf, stack')
  BY WalkBal DEF StaysShort
<1>4. Visits(T, stack) /\ Top.loc \in DOMAIN T
  BY <1>0 DEF Making
<1>5. CASE PushName
  <2>1. PICK f \in Frames : stack' = SetTop(f) /\ Same(f) /\ f.at = "memory" /\ f.i = Top.i
    BY <1>5, PushNameFrame
  <2>2. Top.at = "name" /\ Top.k = 0 /\ f.k = 0
    <3>1. Top.at = "name"
      BY <1>5 DEF PushName, Walking
    <3>2. FrameOK(f)
      BY <1>0, <2>1, TopNext
    <3> QED BY <1>0, <2>1, <3>1, <3>2 DEF FrameOK
  <2>3. \A i \in Nat, k \in Nat : Open("create", Top, i, k) <=> Open("create", f, i, k)
    BY <2>1, <2>2 DEF Open
  <2>4. \A i \in Nat : Holds("create", Top, i) => Holds("create", f, i)
    BY <2>1, <2>2 DEF Holds
  <2>5. Making(T, call, stack', fields)
    BY <1>0, <1>3, <2>1, <2>3, <2>4, MakingSetTop
  <2> QED BY <1>1, <1>2, <2>5
<1>6. CASE PopName
  <2>1. PICK f \in Frames : stack' = SetTop(f) /\ Same(f) /\ f.at = "name" /\ f.i = Top.i + 1
    BY <1>6, PopNameFrame
  <2>2. Walking("pop") /\ Top.at = "pop"
    BY <1>6 DEF PopName, Walking
  <2>3. f.k = 0
    <3>2. FrameOK(f)
      BY <1>0, <2>1, TopNext
    <3> QED BY <2>1, <3>2 DEF FrameOK
  <2>4. /\ m = Item(Top) /\ Within(Top) /\ Placed(call.conf, Top, Path(stack, Len(stack)))
        /\ Path(stack, Len(stack) + 1) = Append(Path(stack, Len(stack)), m.name)
    BY <2>2, PlaceFinds
  <2>5. Top.k = Repeats(call.conf, m, Path(stack, Len(stack) + 1))
    BY <2>2, <2>4 DEF Placed
  <2>6. /\ Mem(T, Top.loc, Top.i) = m /\ Way(T, Top.loc, Top.i) = Path(stack, Len(stack) + 1)
    BY <1>0, <1>4, <2>4, TopStructure
  <2>7. ASSUME NEW i \in Nat, NEW k \in Nat, Hangs(T, call.conf, Top.loc, i, k)
        PROVE  Open("create", Top, i, k) <=> Open("create", f, i, k)
    <3>1. i = Top.i => k < Top.k
      BY <2>5, <2>6, <2>7 DEF Hangs
    <3>2. Open("create", f, i, k) <=> i < Top.i + 1
      BY <2>1, <2>3 DEF Open
    <3>3. Open("create", Top, i, k) <=> i < Top.i \/ (i = Top.i /\ k < Top.k)
      BY <2>2 DEF Open
    <3> QED BY <1>0, <3>1, <3>2, <3>3
  <2>8. ASSUME NEW i \in Nat, Holds("create", Top, i) PROVE Holds("create", f, i)
    <3>1. i < Top.i \/ i = Top.i
      BY <2>2, <2>8 DEF Holds
    <3>2. i < f.i
      BY <1>0, <2>1, <3>1
    <3> QED BY <3>2 DEF Holds
  <2>9. Making(T, call, stack', fields)
    BY <1>0, <1>3, <2>1, <2>7, <2>8, MakingSetTop
  <2> QED BY <1>1, <1>2, <2>9
<1> QED BY <1>5, <1>6

LEMMA MakeRelease ==
    ASSUME Measured, TypeInv, NameInv, OwnInv, NestInv, BalInv, Owned, op = "create",
           fault' = "none", Release, NEW T, Making(T, call, stack, fields)
    PROVE  Owned' /\ Making(T, call, stack', fields')
<1>0. /\ stack # << >> /\ fault = "none" /\ UNCHANGED callVars /\ name_tree' = name_tree
      /\ StackOK(stack) /\ StackOK(stack') /\ Top \in Frames
  BY StepFinds
<1>1. Live' = Live /\ UNCHANGED fields /\ Top.at = "inner"
  BY DEF Release, Live, Walking
<1>2. Owned'
  BY <1>0, <1>1, OwnedSame
<1>3. Short(call.conf, stack) => Short(call.conf, stack')
  BY WalkBal DEF StaysShort
<1>4. PICK f \in Frames : /\ stack' = SetTop(f) /\ Same(f) /\ f.at = "pop" /\ f.i = Top.i
                          /\ f.k = Top.k
  BY ReleaseFrame
<1>5. \A i \in Nat, k \in Nat : Open("create", Top, i, k) <=> Open("create", f, i, k)
  BY <1>1, <1>4 DEF Open
<1>6. \A i \in Nat : Holds("create", Top, i) => Holds("create", f, i)
  BY <1>1, <1>4 DEF Holds
<1>7. Making(T, call, stack', fields)
  BY <1>0, <1>3, <1>4, <1>5, <1>6, MakingSetTop
<1> QED BY <1>1, <1>2, <1>7

LEMMA MakeReturn ==
    ASSUME Measured, TypeInv, NameInv, OwnInv, NestInv, BalInv, Owned, op = "create",
           Return, NEW T, Making(T, call, stack, fields)
    PROVE  Owned' /\ Making(T, call, stack', fields')
<1>0. /\ stack # << >> /\ fault = "none" /\ UNCHANGED callVars /\ name_tree' = name_tree
      /\ StackOK(stack) /\ StackOK(stack') /\ Top \in Frames /\ Nested(stack, call.conf)
      /\ Len(stack) \in Nat \ {0} /\ stack[Len(stack)] = Top /\ Top.i \in Nat \ {0}
  BY StepFinds
<1>1. /\ UNCHANGED <<heap, fields>> /\ Top.at = "name" /\ stack' = Pop(Top.used)
      /\ Top.i > Len(Types[Top.ty]) /\ Live' = Live
  BY DEF Return, members, Live
<1>2. Owned'
  BY <1>0, <1>1, OwnedSame
<1>3. Short(call.conf, stack) => Short(call.conf, stack')
  BY WalkBal DEF StaysShort
<1>4. Visits(T, stack) /\ Top.loc \in DOMAIN T
  BY <1>0 DEF Making
<1>5. \A i : Has(T, Top.loc, i) <=> i \in 1..Len(Types[Top.ty])
  BY <1>0, <1>4, TopStructure
<1>6. Len(Types[Top.ty]) \in Nat
  BY <1>0, TopFrame DEF members
<1>7. ASSUME NEW i \in Nat, NEW k \in Nat, Hangs(T, call.conf, Top.loc, i, k)
      PROVE  Open("create", Top, i, k)
  <2>1. i \in 1..Len(Types[Top.ty])
    BY <1>5, <1>7 DEF Hangs
  <2>2. i < Top.i
    BY <1>0, <1>1, <1>6, <2>1
  <2> QED BY <2>2 DEF Open
<1>8. Top.used \in Nat
  BY <1>0 DEF Frames
<1>9. Making(T, call, stack', fields)
  BY <1>0, <1>1, <1>3, <1>7, <1>8, MakingPop
<1> QED BY <1>1, <1>2, <1>9
-----------------------------------------------------------------------------
\* The field being assigned is a new one.
LEMMA FieldIsNew ==
    ASSUME StackOK(stack), stack # << >>, NEW a, NEW T, Making(T, a, stack, fields),
           Top.at \in {"name", "memory"}, Top.i \in Nat
    PROVE  Field \notin DOMAIN fields
<1> SUFFICES ASSUME Field \in DOMAIN fields PROVE FALSE
  OBVIOUS
<1>0. Len(stack) \in 1..Len(stack) /\ stack[Len(stack)] = Top
  BY TopFrame DEF Top
<1>1. Visits(T, stack) /\ Tree(T, a.root, a.conf, "create", stack, fields)
  BY DEF Making
<1>2. PICK l \in DOMAIN T, i \in Nat : Field = Append(l, i) /\ Held("create", stack, l, i)
  BY <1>1 DEF Tree, Filled
<1>3. Located(Top.loc) /\ Located(l)
  BY <1>0, <1>1 DEF Visits, Tree, Shaped
<1>4. l = Top.loc /\ i = Top.i
  <2>1. Append(Top.loc, Top.i) = Append(l, i)
    BY <1>2 DEF Field, Member
  <2> QED BY <1>3, <2>1, AppendSame DEF Located
<1>5. Holds("create", Top, i)
  BY <1>0, <1>2, <1>4 DEF Held
<1> QED BY <1>4, <1>5 DEF Holds

LEMMA MakeMemory ==
    ASSUME Measured, TypeInv, NameInv, OwnInv, NestInv, BalInv, Owned, op = "create",
           Plain \/ Allocate \/ Preallocate \/ Count, NEW T, Making(T, call, stack, fields)
    PROVE  Owned' /\ Making(T, call, stack', fields')
<1> DEFINE c == call.conf
           n == Len(stack)
<1>0. /\ stack # << >> /\ fault = "none" /\ UNCHANGED callVars /\ name_tree' = name_tree
      /\ StackOK(stack) /\ StackOK(stack') /\ Top \in Frames /\ Nested(stack, c) /\ c \in Confs
      /\ n \in Nat \ {0} /\ stack[n] = Top /\ Top.i \in Nat \ {0} /\ FrameOK(Top)
      /\ Path(stack, n) \in Seq(STRING)
  BY StepFinds
<1>1. Walking("memory") /\ Top.at = "memory" /\ Top.k = 0
  BY <1>0 DEF Plain, Allocate, Preallocate, Count, Walking, FrameOK
<1>2. /\ m = Item(Top) /\ Within(Top) /\ m \in MessageMember
      /\ Path(stack, n + 1) = Append(Path(stack, n), m.name)
  BY <1>1, PlaceFinds, WalkFinds
<1>3. Short(c, stack) => Short(c, stack')
  BY WalkBal DEF StaysShort
<1>4. Visits(T, stack) /\ Top.loc \in DOMAIN T /\ Tree(T, call.root, c, "create", stack, fields)
  BY <1>0 DEF Making
<1>5. /\ Has(T, Top.loc, Top.i) /\ Mem(T, Top.loc, Top.i) = m
      /\ \A i : Has(T, Top.loc, i) <=> i \in 1..Len(Types[Top.ty])
      /\ \A i : Mem(T, Top.loc, i) = Types[Top.ty][i]
      /\ T[Top.loc][2] = Path(stack, n)
      /\ \A j \in 1..n : stack[j].loc = Top.loc => j = n
  BY <1>0, <1>2, <1>4, TopStructure
<1>6. ASSUME NEW f \in Frames, Entered(f) PROVE Owned' /\ Making(T, call, stack', fields')
  <2>1. /\ stack' = SetTop(f) /\ Same(f) /\ f.at = "inner" /\ f.i = Top.i /\ f.k = 0 /\ Stored(f)
    BY <1>6 DEF Entered
  <2>2. \A i \in Nat, k \in Nat : Open("create", Top, i, k) <=> Open("create", f, i, k)
    BY <1>1, <2>1 DEF Open
  <2>3. \A i \in Nat : Holds("create", Top, i) => Holds("create", f, i)
    BY <1>1, <2>1 DEF Holds
  <2>4. /\ Making(T, call, stack', fields) /\ Keeps(T, c, "create", stack, "create", stack', fields)
        /\ Visits(T, stack') /\ stack'[1].loc = <<Message>>
        /\ \A j \in 1..Len(stack') : stack'[j].loc \in DOMAIN T
    BY <1>0, <1>3, <2>1, <2>2, <2>3, MakingSetTop
  <2>5. CASE ~NeedsMemory(m)
    <3>1. UNCHANGED <<heap, fields>> /\ Live' = Live
      BY <2>1, <2>5 DEF Stored, Live
    <3>2. Owned'
      BY <1>0, <3>1, OwnedSame
    <3> QED BY <2>4, <3>1, <3>2
  <2>6. CASE NeedsMemory(m)
    <3>1. /\ heap' = With(FirstFree, Needs, << >>)
          /\ fields' = Assigned(<<"heap", FirstFree>>, f.n)
      BY <2>1, <2>6 DEF Stored
    <3>2. /\ DOMAIN fields' = DOMAIN fields \cup {Field}
          /\ fields'[Field].data = <<"heap", FirstFree>>
          /\ Live' = Live \cup {FirstFree}
      BY <3>1 DEF Assigned, With, Live
    <3>3. Field \notin DOMAIN fields
      BY <1>0, <1>1, FieldIsNew
    <3>4. \A x \in DOMAIN fields : fields'[x] = fields[x]
      BY <3>1, <3>3 DEF Assigned
    <3>5. Owned'
      <4> SUFFICES ASSUME NEW b \in Live' \ {name_tree.data}
                   PROVE  \E x \in DOMAIN fields' : fields'[x].data = <<"heap", b>>
        BY <1>0 DEF Owned
      <4>1. CASE b = FirstFree
        BY <3>2, <4>1
      <4>2. CASE b # FirstFree
        <5>1. PICK x \in DOMAIN fields : fields[x].data = <<"heap", b>>
          BY <3>2, <4>2 DEF Owned
        <5>2. x \in DOMAIN fields' /\ fields'[x].data = <<"heap", b>>
          BY <3>2, <3>4, <5>1
        <5> QED BY <5>2
      <4> QED BY <4>1, <4>2
    <3>6. Held("create", stack', Top.loc, Top.i)
      <4>1. /\ Len(stack') = n
            /\ \A j \in 1..n : stack'[j] = IF j = n THEN f ELSE stack[j]
        BY <1>0, <2>1, SetTopEach
      <4>2. Holds("create", f, Top.i)
        BY <2>1 DEF Holds
      <4>3. \A j \in 1..n : stack'[j].loc = Top.loc => stack'[j] = f
        BY <1>5, <4>1
      <4> QED BY <4>1, <4>2, <4>3 DEF Held
    <3>7. Field = Append(Top.loc, Top.i)
      BY DEF Field, Member
    <3>8. Heaped(fields)
      BY HeapedFields
    <3>9. /\ Top.loc \in DOMAIN T /\ Top.i \in Nat /\ Has(T, Top.loc, Top.i)
          /\ NeedsMemory(Mem(T, Top.loc, Top.i))
          /\ DOMAIN fields' = DOMAIN fields \cup {Append(Top.loc, Top.i)}
          /\ \A x \in DOMAIN fields : fields'[x].data = fields[x].data
      BY <1>0, <1>4, <1>5, <2>6, <3>2, <3>4, <3>7
    <3>10. /\ Tree(T, call.root, c, "create", stack', fields')
           /\ Linked(T, c, "create", stack, fields) => Linked(T, c, "create", stack', fields')
      BY <1>4, <2>4, <3>6, <3>8, <3>9, GrowTree
    <3>11. Short(c, stack) \/ Linked(T, c, "create", stack, fields)
      BY DEF Making
    <3>12. Making(T, call, stack', fields')
      BY <1>3, <2>4, <3>10, <3>11 DEF Making
    <3> QED BY <3>5, <3>12
  <2> QED BY <2>5, <2>6
<1>7. ASSUME stack' = Pop(0), UNCHANGED <<heap, fields>>
      PROVE  Owned' /\ Making(T, call, stack', fields')
  <2>1. Live' = Live
    BY <1>7 DEF Live
  <2>2. Owned'
    BY <1>0, <1>7, <2>1, OwnedSame
  <2>3. \/ Short(c, stack')
        \/ \A i \in Nat, k \in Nat :
              Hangs(T, c, Top.loc, i, k) /\ ~Open("create", Top, i, k) =>
                 /\ ~is_sequence(Mem(T, Top.loc, i))
                 /\ Bytes(c, Way(T, Top.loc, i), Mem(T, Top.loc, i).type, 1) = 0
    <3>1. n \in 1..n
      BY <1>0
    <3>2. Sum(c, stack, n) \in Nat /\ Whole(c, stack, n) \in Nat
      BY <1>0, <3>1, SumNat
    <3>3. CASE Whole(c, stack, n) # 0
      <4>1. AtMost(c, stack)
        BY <1>0 DEF BalInv
      <4>2. 0 <= Sum(c, stack, n) /\ 0 < Whole(c, stack, n) /\ 0 \in Nat
        BY <3>2, <3>3
      <4>3. Short(c, stack) \/ 0 < Whole(c, stack, n) => Short(c, Pop(0))
        BY <1>0, <4>1, <4>2, PopBalance
      <4> QED BY <1>7, <4>2, <4>3
    <3>4. CASE Whole(c, stack, n) = 0
      <4>1. Bytes(c, Path(stack, n), Top.ty, 1) = 0 /\ Top.ty \in DOMAIN Types
        BY <1>0, <3>4 DEF Whole, Frames
      <4>2. ASSUME NEW i \in Nat, NEW k \in Nat, Hangs(T, c, Top.loc, i, k)
            PROVE  /\ ~is_sequence(Mem(T, Top.loc, i))
                   /\ Bytes(c, Way(T, Top.loc, i), Mem(T, Top.loc, i).type, 1) = 0
        <5> DEFINE x == Mem(T, Top.loc, i)
                   q == Way(T, Top.loc, i)
        <5>1. /\ i \in 1..Len(Types[Top.ty]) /\ x = Types[Top.ty][i]
              /\ q = Append(Path(stack, n), x.name) /\ Composed(x) /\ k < Repeats(c, x, q)
          BY <1>5, <4>2 DEF Hangs, Way
        <5> HIDE DEF x, q, c, n
        <5>2. ~is_sequence(x) /\ Bytes(c, q, x.type, 1) = 0
          BY <1>0, <4>1, <5>1, ZeroMember
        <5> QED BY <5>2 DEF x, q
      <4> QED BY <4>2
    <3> QED BY <3>3, <3>4
  <2>4. Top.at # "pop" /\ 0 \in Nat
    BY <1>1
  <2>5. Making(T, call, stack', fields)
    BY <1>0, <1>3, <1>7, <2>3, <2>4, MakingPop
  <2> QED BY <1>7, <2>2, <2>5
<1> QED BY <1>6, <1>7, MemoryFrame
-----------------------------------------------------------------------------
\* What a recursive call finds, in create as in destroy.
LEMMA DescendFinds ==
    ASSUME TypeInv, NestInv, Descend, op \in {"create", "destroy"}, fault' = "none"
    PROVE  /\ Top.at = "inner" /\ Walking("inner") /\ Within(Top) /\ m \in MessageMember
           /\ Composed(m)
           /\ Top.k < Repeats(call.conf, m, Path(stack, Len(stack) + 1))
           /\ UNCHANGED <<heap, fields>> /\ Live' = Live
           /\ \E f \in Frames, g \in Frames :
                 /\ stack' = Append(SetTop(f), g) /\ Same(f) /\ f.at = "inner" /\ f.i = Top.i
                 /\ f.k = Top.k + 1 /\ g.ty = m.type /\ g.at = "name" /\ g.i = 1 /\ g.k = 0
                 /\ g.loc = Put(fields, m, Top.loc, Top.i, Top.k)
<1>0. Walking("inner") /\ Top.at = "inner" /\ Top.k < Times
  BY DEF Descend, Walking
<1>1. /\ m = Item(Top) /\ Within(Top) /\ Placed(call.conf, Top, Path(stack, Len(stack)))
      /\ Path(stack, Len(stack) + 1) = Append(Path(stack, Len(stack)), m.name)
      /\ m \in MessageMember /\ Top.k \in Nat
  BY <1>0, PlaceFinds, WalkFinds
<1>2. Composed(m)
  BY <1>0, <1>1 DEF Times
<1>3. Top.k < Repeats(call.conf, m, Path(stack, Len(stack) + 1))
  <2>1. NeedsMemory(m) => Top.n = Capacity(call.conf, m, Path(stack, Len(stack) + 1))
    BY <1>0, <1>1 DEF Placed
  <2> QED BY <1>0, <1>2, <2>1 DEF Times, Repeats, NeedsMemory
<1>4. UNCHANGED <<heap, fields>> /\ Live' = Live
  BY DEF Descend, Live, Fault
<1>5. PICK f \in Frames, g \in Frames :
         /\ stack' = Append(SetTop(f), g) /\ Same(f) /\ f.at = "inner" /\ f.i = Top.i
         /\ f.k = Top.k + 1 /\ g.ty = m.type /\ g.at = "name" /\ g.i = 1
         /\ g.loc = IF ~is_sequence(m) THEN Field
                    ELSE IF op \in {"dynamic_size", "static_size"} THEN <<Null>>
                    ELSE Element(FieldAt(Field).data, Top.k)
  BY DescendFrame
<1>6. g.loc = Put(fields, m, Top.loc, Top.i, Top.k)
  BY <1>5 DEF Put, Field, Member, FieldAt, Cleared
<1>7. g.k = 0
  <2>1. /\ Len(stack') = Len(stack) + 1 /\ stack'[Len(stack) + 1] = g
        /\ Len(stack) + 1 \in 1..(Len(stack) + 1)
    <3>1. StackOK(stack) /\ stack # << >> /\ Len(stack) \in Nat
      BY <1>0, WalkFinds DEF TypeInv
    <3>2. Len(stack) + 1 \in 1..(Len(stack) + 1)
      BY <3>1
    <3> QED BY <1>5, <3>1, <3>2, PushEach
  <2>2. StackOK(stack')
    BY DescendType DEF TypeInv
  <2>3. FrameOK(g)
    BY <2>1, <2>2 DEF StackOK
  <2> QED BY <1>5, <2>3 DEF FrameOK
<1> QED BY <1>0, <1>1, <1>2, <1>3, <1>4, <1>5, <1>6, <1>7

\* A structure is at an address.
LEMMA PutLocated ==
    ASSUME HeapOK, NEW y, NEW l, Located(l), NEW i \in Nat, NEW k \in Nat
    PROVE  Located(Put(fields, y, l, i, k))
<1>1. CASE is_sequence(y)
  <2>1. Put(fields, y, l, i, k) = Element(FieldAt(Append(l, i)).data, k)
    BY <1>1 DEF Put, FieldAt, Cleared
  <2> QED BY <2>1, FieldPointer, ElementLocated
<1>2. CASE ~is_sequence(y)
  BY <1>2, AppendLocated DEF Put
<1> QED BY <1>1, <1>2

LEMMA MakeDescend ==
    ASSUME Measured, TypeInv, NameInv, OwnInv, NestInv, SafeInv, BalInv, Owned, op = "create",
           fault' = "none", Descend, NEW T, Making(T, call, stack, fields)
    PROVE  Owned' /\ \E P : Making(P, call, stack', fields')
<1> DEFINE c == call.conf
           n == Len(stack)
           x == Put(fields, m, Top.loc, Top.i, Top.k)
           v == <<m.type, Path(stack, n + 1)>>
           P == Plus(T, x, v)
<1>0. /\ stack # << >> /\ fault = "none" /\ UNCHANGED callVars /\ name_tree' = name_tree
      /\ StackOK(stack) /\ StackOK(stack') /\ Top \in Frames /\ Nested(stack, c)
      /\ n \in Nat \ {0} /\ stack[n] = Top /\ Top.i \in Nat \ {0} /\ Top.k \in Nat
  BY StepFinds
<1>1. /\ Top.at = "inner" /\ Within(Top) /\ m \in MessageMember /\ Composed(m)
      /\ Top.k < Repeats(c, m, Path(stack, n + 1)) /\ UNCHANGED <<heap, fields>> /\ Live' = Live
  BY DescendFinds
<1>2. PICK f \in Frames, g \in Frames :
         /\ stack' = Append(SetTop(f), g) /\ Same(f) /\ f.at = "inner" /\ f.i = Top.i
         /\ f.k = Top.k + 1 /\ g.ty = m.type /\ g.at = "name" /\ g.i = 1 /\ g.k = 0
         /\ g.loc = x
  BY DescendFinds
<1>3. Owned'
  BY <1>0, <1>1, OwnedSame
<1>4. Short(c, stack) => Short(c, stack')
  BY WalkBal DEF StaysShort
<1>5. /\ Visits(T, stack) /\ Top.loc \in DOMAIN T /\ Tree(T, call.root, c, "create", stack, fields)
      /\ \A j \in 1..n : stack[j].loc \in DOMAIN T
      /\ stack[1].loc = <<Message>>
      /\ Short(c, stack) \/ Linked(T, c, "create", stack, fields)
  BY <1>0 DEF Making
<1>6. /\ Has(T, Top.loc, Top.i) /\ Mem(T, Top.loc, Top.i) = m /\ Located(Top.loc)
      /\ Way(T, Top.loc, Top.i) = Path(stack, n + 1)
      /\ \A j \in 1..n : stack[j].loc = Top.loc => j = n
  BY <1>0, <1>1, <1>5, TopStructure
<1>7. Hangs(T, c, Top.loc, Top.i, Top.k)
  BY <1>0, <1>1, <1>6 DEF Hangs
<1>8. x = Seat(T, fields, Top.loc, Top.i, Top.k) /\ v = <<Mem(T, Top.loc, Top.i).type, Way(T, Top.loc, Top.i)>>
  BY <1>6 DEF Seat
<1>h. Heaped(fields)
  BY HeapedFields
<1>9. x \notin DOMAIN T
  <2> SUFFICES ASSUME x \in DOMAIN T PROVE FALSE
    OBVIOUS
  <2>1. Stands(T, c, "create", stack, fields, Seat(T, fields, Top.loc, Top.i, Top.k), Top.loc, Top.i, Top.k)
    BY <1>5, <1>7, <1>8, <1>h, SeatOfSlot
  <2>2. Alive("create", stack, Top.loc, Top.i, Top.k)
    BY <2>1 DEF Stands, Visited
  <2>3. n \in 1..Len(stack)
    BY <1>0
  <2>4. Open("create", Top, Top.i, Top.k)
    BY <1>0, <2>2, <2>3 DEF Alive
  <2> QED BY <1>0, <1>1, <2>4 DEF Open
<1>10. Located(x) /\ x # <<Message>>
  BY <1>0, <1>6, PutLocated, PutNotRoot DEF TypeInv
<1>11. is_sequence(m) => Append(Top.loc, Top.i) \in DOMAIN fields
  <2>1. Lawful(Live, fields, Top)
    BY <1>0 DEF SafeInv
  <2>2. m = Item(Top)
    BY DEF m, members, Item
  <2> QED BY <1>1, <2>1, <2>2 DEF Lawful, NeedsMemory
<1>12. Head(x) = Message \/ \E y \in DOMAIN fields : fields[y].data = Head(x)
  <2>1. CASE is_sequence(m)
    <3>1. x = Element(fields[Append(Top.loc, Top.i)].data, Top.k)
      BY <1>11, <2>1 DEF Put
    <3> QED BY <1>11, <2>1, <3>1, ElementLoc
  <2>2. CASE ~is_sequence(m)
    <3>1. Head(x) = Head(Top.loc)
      BY <1>0, <1>6, <2>2, AppendLocated DEF Put
    <3> QED BY <1>5, <3>1 DEF Tree, Headed
  <2> QED BY <2>1, <2>2
<1> HIDE DEF x
<1>13. f.loc = Top.loc
  BY <1>2 DEF Same
<1> DEFINE t == stack'
           o == "create"
<1>14. /\ \A l, i, k : /\ Alive(o, stack, l, i, k) /\ (l = Top.loc => Open(o, f, i, k))
                       /\ l = g.loc => Open(o, g, i, k)
                       => Alive(o, t, l, i, k)
       /\ \A l, i, k : Alive(o, t, l, i, k) /\ (l = Top.loc => Open(o, Top, i, k))
                         => Alive(o, stack, l, i, k)
       /\ \A l, i, k : Alive(o, stack, l, i, k) /\ l = Top.loc => Open(o, Top, i, k)
       /\ \A l, i, k : Alive(o, t, l, i, k) => /\ l = Top.loc => Open(o, f, i, k)
                                               /\ l = g.loc => Open(o, g, i, k)
       /\ \A l, i : /\ Held(o, stack, l, i) /\ (l = Top.loc => Holds(o, f, i))
                    /\ l = g.loc => Holds(o, g, i)
                    => Held(o, t, l, i)
       /\ \A l, i : Held(o, stack, l, i) /\ l = Top.loc => Holds(o, Top, i)
  BY <1>0, <1>2, <1>13, PushSlots
<1>15. \A i \in Nat, k \in Nat :
          /\ Open(o, f, i, k) <=> i < Top.i \/ (i = Top.i /\ k < Top.k + 1)
          /\ Open(o, Top, i, k) <=> i < Top.i \/ (i = Top.i /\ k < Top.k)
  BY <1>1, <1>2 DEF Open
<1>16. \A i \in Nat : Holds(o, Top, i) <=> Holds(o, f, i)
  BY <1>1, <1>2 DEF Holds
<1>17. Alive(o, t, Top.loc, Top.i, Top.k)
  <2>1. /\ Len(t) = n + 1
        /\ \A j \in 1..(n + 1) : t[j] = IF j = n + 1 THEN g ELSE IF j = n THEN f ELSE stack[j]
    BY <1>0, <1>2, PushEach
  <2>2. Open(o, f, Top.i, Top.k)
    BY <1>0, <1>15
  <2>3. \A j \in 1..(n + 1) : j = n + 1 \/ j \in 1..n
    BY <1>0
  <2>4. g.loc # Top.loc
    BY <1>2, <1>5, <1>9
  <2>5. ASSUME NEW j \in 1..(n + 1), t[j].loc = Top.loc PROVE t[j] = f
    BY <1>6, <2>1, <2>3, <2>4, <2>5
  <2> HIDE DEF t, o
  <2> QED BY <2>1, <2>2, <2>5 DEF Alive
<1>18. ASSUME NEW l \in DOMAIN T, NEW i \in Nat, NEW k \in Nat
       PROVE  /\ Alive(o, stack, l, i, k) => Alive(o, t, l, i, k)
              /\ Alive(o, t, l, i, k) =>
                    Alive(o, stack, l, i, k) \/ (l = Top.loc /\ i = Top.i /\ k = Top.k)
  <2>0. l # g.loc
    BY <1>2, <1>9
  <2>1. Open(o, Top, i, k) => Open(o, f, i, k)
    BY <1>0, <1>15
  <2>2. Open(o, f, i, k) => Open(o, Top, i, k) \/ (i = Top.i /\ k = Top.k)
    BY <1>0, <1>15
  <2> HIDE DEF t, o
  <2> QED BY <1>14, <2>0, <2>1, <2>2
<1>19. ASSUME NEW l \in DOMAIN T, NEW i \in Nat, Held(o, stack, l, i) PROVE Held(o, t, l, i)
  <2>0. l # g.loc
    BY <1>2, <1>9
  <2> HIDE DEF t, o
  <2> QED BY <1>14, <1>16, <1>19, <2>0
<1>20. ASSUME NEW i \in Nat, NEW k \in Nat, i >= 1 PROVE ~Alive(o, t, x, i, k)
  <2>1. ~Open(o, g, i, k)
    BY <1>2, <1>20 DEF Open
  <2> HIDE DEF t, o
  <2> QED BY <1>2, <1>14, <2>1
<1> HIDE DEF v
<1>21. /\ Tree(P, call.root, c, "create", t, fields)
       /\ Linked(T, c, "create", stack, fields) => Linked(P, c, "create", t, fields)
  <2>0. /\ Top.i \in Nat /\ Top.k \in Nat /\ Top.loc \in DOMAIN T
        /\ is_sequence(Mem(T, Top.loc, Top.i)) => Append(Top.loc, Top.i) \in DOMAIN fields
    BY <1>0, <1>5, <1>6, <1>11
  <2> HIDE DEF t, c
  <2>1. \A l \in DOMAIN T, i \in Nat, k \in Nat :
           Hangs(T, c, l, i, k) =>
              /\ Alive("create", stack, l, i, k) => Alive("create", t, l, i, k)
              /\ Alive("create", t, l, i, k) =>
                    Alive("create", stack, l, i, k) \/ (l = Top.loc /\ i = Top.i /\ k = Top.k)
    BY <1>18
  <2>2. \A l \in DOMAIN T, i \in Nat :
           Has(T, l, i) /\ Held("create", stack, l, i) => Held("create", t, l, i)
    BY <1>19
  <2>3. \A i \in Nat, k \in Nat : i >= 1 => ~Alive("create", t, x, i, k)
    BY <1>20
  <2>4. Alive("create", t, Top.loc, Top.i, Top.k)
    BY <1>17
  <2> HIDE DEF P, o
  <2>5. Entering(T, c, stack, t, fields, Top.loc, Top.i, Top.k, x, v)
    BY <1>7, <1>8, <1>9, <1>10, <1>12, <2>0, <2>1, <2>2, <2>3, <2>4 DEF Entering
  <2>6. /\ Tree(Plus(T, x, v), call.root, c, "create", t, fields)
        /\ Linked(T, c, "create", stack, fields) => Linked(Plus(T, x, v), c, "create", t, fields)
    BY <1>5, <2>5, PushTree
  <2> QED BY <2>6 DEF P
<1>22. DOMAIN P = DOMAIN T \cup {x} /\ P[x] = v /\ \A l \in DOMAIN T : l # x => P[l] = T[l]
  BY DEF Plus
<1> HIDE DEF P
<1>23. Visits(P, t)
  <2>1. Agrees(P, T, stack, g, Path(stack, Len(stack) + 1))
    <3>1. \A j \in 1..Len(stack) :
             stack[j].loc \in DOMAIN P => stack[j].loc \in DOMAIN T /\ P[stack[j].loc] = T[stack[j].loc]
      BY <1>5, <1>9, <1>22
    <3>2. g.loc \in DOMAIN P => P[g.loc] = <<g.ty, Path(stack, Len(stack) + 1)>>
      BY <1>2, <1>22 DEF v
    <3> QED BY <1>2, <1>10, <3>1, <3>2 DEF Agrees
  <2> QED BY <1>0, <1>2, <1>5, <2>1, PushVisits
<1>24. t[1].loc = <<Message>> /\ \A j \in 1..Len(t) : t[j].loc \in DOMAIN P
  <2>1. /\ Len(t) = n + 1
        /\ \A j \in 1..(n + 1) : t[j] = IF j = n + 1 THEN g ELSE IF j = n THEN f ELSE stack[j]
    BY <1>0, <1>2, PushEach
  <2>2. 1 \in 1..n /\ 1 # n + 1 /\ 1 \in 1..(n + 1) /\ \A j \in 1..(n + 1) : j = n + 1 \/ j \in 1..n
    BY <1>0
  <2>3. \A j \in 1..n : t[j].loc = stack[j].loc
    <3>1. \A j \in 1..n : j \in 1..(n + 1) /\ j # n + 1
      BY <1>0
    <3> QED BY <1>0, <1>13, <2>1, <3>1
  <2>4. t[n + 1].loc = x
    <3>1. n + 1 \in 1..(n + 1)
      BY <1>0
    <3> QED BY <1>2, <2>1, <3>1
  <2> HIDE DEF t, n
  <2> QED BY <1>5, <1>22, <2>1, <2>2, <2>3, <2>4
<1>25. Making(P, call, stack', fields)
  BY <1>4, <1>5, <1>21, <1>23, <1>24 DEF Making
<1> QED BY <1>1, <1>3, <1>25
-----------------------------------------------------------------------------
\* The steps of destroy.

LEMMA FirmSame ==
    ASSUME NEW T, NEW P, NEW c, NEW s, NEW t, NEW j \in Nat \ {0}, Firm(T, c, s, j),
           \A h \in 1..j : /\ t[h].loc = s[h].loc
                           /\ s[h].loc \in DOMAIN T => s[h].loc \in DOMAIN P,
           t[j].ty = s[j].ty, Path(t, j) = Path(s, j)
    PROVE  Firm(P, c, t, j)
<1>1. j \in 1..j /\ Whole(c, t, j) = Whole(c, s, j)
  BY DEF Whole
<1>2. t[j].loc \in DOMAIN P \/ Whole(c, t, j) = 0
  BY <1>1 DEF Firm
<1>3. PICK h \in 1..j : s[h].loc \in DOMAIN T /\ Head(s[h].loc) = Head(s[j].loc)
  BY DEF Firm
<1>4. t[h].loc \in DOMAIN P /\ Head(t[h].loc) = Head(t[j].loc)
  BY <1>1, <1>3
<1> QED BY <1>2, <1>4 DEF Firm

\* A step changes the innermost frame only.
LEMMA UndoingSetTop ==
    ASSUME StackOK(stack), stack # << >>, NEW a, NEW g, NEW T, Undoing(T, a, g, stack, fields),
           NEW f \in Frames, Same(f), Top.at # "done", f.at # "done", NEW t, t = SetTop(f), NEW h,
           Tree(T, a.root, a.conf, "destroy", t, h),
           Linked(T, a.conf, "destroy", stack, fields) => Linked(T, a.conf, "destroy", t, h)
    PROVE  Undoing(T, a, g, t, h)
<1> DEFINE n == Len(stack)
<1>0. /\ n \in Nat \ {0} /\ stack[n] = Top /\ 1 \in 1..n /\ n \in 1..n
  BY TopFrame DEF Top
<1>1. /\ Visits(T, stack) /\ stack[1].loc = <<Message>>
      /\ <<Message>> \in DOMAIN T
      /\ g = "made" =>
            /\ Linked(T, a.conf, "destroy", stack, fields)
            /\ \A j \in 1..n : stack[j].at # "done" => Firm(T, a.conf, stack, j)
  BY <1>0 DEF Undoing
<1>2. /\ Len(t) = n /\ \A j \in 1..n : t[j] = IF j = n THEN f ELSE stack[j]
  BY SetTopEach
<1>3. Visits(T, t)
  BY <1>1, SetTopVisits
<1>4. \A j \in 1..n : t[j].loc = stack[j].loc /\ t[j].ty = stack[j].ty
  BY <1>0, <1>2 DEF Same
<1>5. t[1].loc = <<Message>> /\ t[Len(t)].at # "done"
  BY <1>0, <1>1, <1>2, <1>4
<1>6. ASSUME g = "made", NEW j \in 1..n, t[j].at # "done" PROVE Firm(T, a.conf, t, j)
  <2>1. stack[j].at # "done"
    BY <1>0, <1>2, <1>6
  <2>2. Firm(T, a.conf, stack, j)
    BY <1>1, <1>6, <2>1
  <2>3. j \in Nat \ {0} /\ j \in 1..(n + 1) /\ j <= n /\ \A q \in 1..j : q \in 1..n
    BY <1>0
  <2>4. Path(t, j) = Path(stack, j)
    BY <2>3, SetTopPaths
  <2>5. /\ \A q \in 1..j : /\ t[q].loc = stack[q].loc
                           /\ stack[q].loc \in DOMAIN T => stack[q].loc \in DOMAIN T
        /\ t[j].ty = stack[j].ty
    BY <1>4, <2>3
  <2> HIDE DEF n
  <2> QED BY <2>2, <2>3, <2>4, <2>5, FirmSame
<1> QED BY <1>1, <1>2, <1>3, <1>5, <1>6 DEF Undoing

LEMMA UndoingSame ==
    ASSUME StackOK(stack), stack # << >>, NEW a, NEW g, NEW T, Undoing(T, a, g, stack, fields),
           NEW f \in Frames, Same(f), Top.at # "done", f.at # "done", NEW t, t = SetTop(f),
           \A i \in Nat, k \in Nat :
              Hangs(T, a.conf, Top.loc, i, k) => (Open("destroy", Top, i, k) <=> Open("destroy", f, i, k)),
           \A i \in Nat :
              Has(T, Top.loc, i) /\ NeedsMemory(Mem(T, Top.loc, i))
              /\ Append(Top.loc, i) \in DOMAIN fields /\ Holds("destroy", Top, i) => Holds("destroy", f, i)
    PROVE  Undoing(T, a, g, t, fields)
<1>2. f.loc = Top.loc
  BY DEF Same
<1>3. Keeps(T, a.conf, "destroy", stack, "destroy", SetTop(f), fields)
  <2> DEFINE c == a.conf
             o == "destroy"
  <2>1. \A i \in Nat, k \in Nat :
           Hangs(T, c, Top.loc, i, k) => (Open(o, Top, i, k) <=> Open(o, f, i, k))
    OBVIOUS
  <2>2. \A i \in Nat :
           Has(T, Top.loc, i) /\ NeedsMemory(Mem(T, Top.loc, i))
           /\ Append(Top.loc, i) \in DOMAIN fields /\ Holds(o, Top, i) => Holds(o, f, i)
    OBVIOUS
  <2> HIDE DEF c, o
  <2>3. Keeps(T, c, o, stack, o, SetTop(f), fields)
    BY <1>2, <2>1, <2>2, SetTopKeeps
  <2> QED BY <2>3 DEF c, o
<1>4. Keeps(T, a.conf, "destroy", stack, "destroy", t, fields)
  BY <1>3
<1>5. Tree(T, a.root, a.conf, "destroy", t, fields)
  <2>1. Tree(T, a.root, a.conf, "destroy", stack, fields)
    BY DEF Undoing
  <2> QED BY <1>4, <2>1, KeepTree
<1>6. Linked(T, a.conf, "destroy", stack, fields) => Linked(T, a.conf, "destroy", t, fields)
  BY <1>4, KeepTree
<1> QED BY <1>5, <1>6, UndoingSetTop

LEMMA UndoName ==
    ASSUME ~Moves, TypeInv, NameInv, OwnInv, NestInv, Owned, op = "destroy",
           fault' = "none", PushName \/ PopName, NEW T, Undoing(T, call, msg, stack, fields)
    PROVE  Owned' /\ Undoing(T, call, msg, stack', fields')
<1>0. /\ stack # << >> /\ fault = "none" /\ UNCHANGED callVars /\ name_tree' = name_tree
      /\ StackOK(stack) /\ StackOK(stack') /\ call.conf \in Confs
      /\ Nested(stack, call.conf) /\ Len(stack) \in Nat \ {0} /\ stack[Len(stack)] = Top
      /\ Top \in Frames /\ FrameOK(Top) /\ Top.i \in Nat \ {0} /\ Top.k \in Nat
  BY StepFinds
<1>1. Live' = Live /\ UNCHANGED fields
  BY NameInPlace
<1>2. Owned'
  BY <1>0, <1>1, OwnedSame
<1>5. CASE PushName
  <2>1. PICK f \in Frames : stack' = SetTop(f) /\ Same(f) /\ f.at = "memory" /\ f.i = Top.i
    BY <1>5, PushNameFrame
  <2>2. Top.at = "name" /\ Top.k = 0 /\ f.k = 0
    <3>1. Top.at = "name"
      BY <1>5 DEF PushName, Walking
    <3>2. FrameOK(f)
      BY <1>0, <2>1, TopNext
    <3> QED BY <1>0, <2>1, <3>1, <3>2 DEF FrameOK
  <2>3. \A i \in Nat, k \in Nat : Open("destroy", Top, i, k) <=> Open("destroy", f, i, k)
    BY <2>1, <2>2 DEF Open
  <2>4. \A i \in Nat : Holds("destroy", Top, i) => Holds("destroy", f, i)
    BY <2>1, <2>2 DEF Holds
  <2>5. Undoing(T, call, msg, stack', fields)
    BY <1>0, <2>1, <2>2, <2>3, <2>4, UndoingSame
  <2> QED BY <1>1, <1>2, <2>5
<1>6. CASE PopName
  <2>1. PICK f \in Frames : stack' = SetTop(f) /\ Same(f) /\ f.at = "name" /\ f.i = Top.i + 1
    BY <1>6, PopNameFrame
  <2>2. Top.at = "pop"
    BY <1>6 DEF PopName, Walking
  <2>3. f.k = 0
    <3>2. FrameOK(f)
      BY <1>0, <2>1, TopNext
    <3> QED BY <2>1, <3>2 DEF FrameOK
  <2>7. ASSUME NEW i \in Nat, NEW k \in Nat
        PROVE  Open("destroy", Top, i, k) <=> Open("destroy", f, i, k)
    <3>2. Open("destroy", f, i, k) <=> i > Top.i + 1 \/ (i = Top.i + 1 /\ k >= 0)
      BY <2>1, <2>3 DEF Open
    <3>3. Open("destroy", Top, i, k) <=> i > Top.i
      BY <2>2 DEF Open
    <3> QED BY <1>0, <3>2, <3>3
  <2>8. ASSUME NEW i \in Nat, Holds("destroy", Top, i) PROVE Holds("destroy", f, i)
    <3>1. i > Top.i
      BY <2>2, <2>8 DEF Holds
    <3>2. i > f.i \/ i = f.i
      BY <1>0, <2>1, <3>1
    <3> QED BY <2>1, <3>2 DEF Holds
  <2>9. Undoing(T, call, msg, stack', fields)
    BY <1>0, <2>1, <2>2, <2>7, <2>8, UndoingSame
  <2> QED BY <1>1, <1>2, <2>9
<1> QED BY <1>5, <1>6

LEMMA UndoMemory ==
    ASSUME TypeInv, NameInv, OwnInv, NestInv, Owned, op = "destroy",
           Plain \/ Allocate \/ Preallocate \/ Count, NEW T, Undoing(T, call, msg, stack, fields)
    PROVE  Owned' /\ Undoing(T, call, msg, stack', fields')
<1>0. /\ stack # << >> /\ fault = "none" /\ UNCHANGED callVars /\ name_tree' = name_tree
      /\ StackOK(stack) /\ StackOK(stack') /\ Top \in Frames /\ FrameOK(Top)
  BY StepFinds
<1>1. Top.at = "memory" /\ Top.k = 0 /\ ~Allocate
  BY <1>0 DEF Plain, Allocate, Preallocate, Count, Walking, FrameOK
<1>2. PICK f \in Frames : Entered(f)
  BY <1>1, MemoryFrame
<1>3. /\ stack' = SetTop(f) /\ Same(f) /\ f.at = "inner" /\ f.i = Top.i /\ f.k = 0
      /\ UNCHANGED <<heap, fields>>
  BY <1>2 DEF Entered, Stored
<1>4. Live' = Live
  BY <1>3 DEF Live
<1>5. Owned'
  BY <1>0, <1>3, <1>4, OwnedSame
<1>6. \A i \in Nat, k \in Nat : Open("destroy", Top, i, k) <=> Open("destroy", f, i, k)
  BY <1>1, <1>3 DEF Open
<1>7. \A i \in Nat : Holds("destroy", Top, i) => Holds("destroy", f, i)
  BY <1>1, <1>3 DEF Holds
<1>8. Undoing(T, call, msg, stack', fields)
  BY <1>0, <1>1, <1>3, <1>6, <1>7, UndoingSame
<1> QED BY <1>3, <1>5, <1>8
-----------------------------------------------------------------------------
\* A structure in the one that the innermost frame is at has no frame.
LEMMA NotOnStack ==
    ASSUME StackOK(stack), stack # << >>, NEW c, Nested(stack, c), NEW T, Visits(T, stack),
           NEW root, Shaped(T, root), NEW y \in DOMAIN T, NEW i, Has(T, Top.loc, i),
           T[y][2] = Way(T, Top.loc, i)
    PROVE  \A j \in 1..Len(stack) : stack[j].loc # y
<1> SUFFICES ASSUME NEW j \in 1..Len(stack), stack[j].loc = y PROVE FALSE
  OBVIOUS
<1> DEFINE n == Len(stack)
<1>0. n \in Nat \ {0} /\ n \in 1..n /\ stack[n] = Top /\ j \in Nat \ {0} /\ j <= n
  BY TopFrame DEF Top
<1>1. Top.loc \in DOMAIN T
  BY DEF Has
<1>2. T[Top.loc][2] = Path(stack, n)
  BY <1>1, TopStructure
<1>3. Len(Way(T, Top.loc, i)) = Len(T[Top.loc][2]) + 1
  BY MemFinds
<1>4. Path(stack, n) \in Seq(STRING) /\ Path(stack, j) \in Seq(STRING)
  BY <1>0, NestedPath
<1>5. Len(Path(stack, n)) = n - 1
  BY <1>0, <1>4, PathLen
<1>6. Len(Path(stack, j)) = j - 1
  BY <1>0, <1>4, PathLen
<1>7. T[y][2] = Path(stack, j)
  BY DEF Visits
<1>8. Len(T[y][2]) = n - 1 + 1
  BY <1>2, <1>3, <1>5
<1> HIDE DEF n, Path, Way
<1>9. j - 1 = n - 1 + 1
  BY <1>6, <1>7, <1>8
<1> QED BY <1>0, <1>9

\* What destroy has left of a member stands nowhere.
LEMMA LeftBehind ==
    ASSUME StackOK(stack), stack # << >>, NEW c, Nested(stack, c), NEW T, Visits(T, stack),
           NEW root, Tree(T, root, c, "destroy", stack, fields), NEW i, NEW k,
           ~Open("destroy", Top, i, k), NEW x \in DOMAIN T
    PROVE  ~Stands(T, c, "destroy", stack, fields, x, Top.loc, i, k)
<1> SUFFICES ASSUME Stands(T, c, "destroy", stack, fields, x, Top.loc, i, k) PROVE FALSE
  OBVIOUS
<1>0. Len(stack) \in 1..Len(stack) /\ stack[Len(stack)] = Top
  BY TopFrame DEF Top
<1>1. ~Alive("destroy", stack, Top.loc, i, k)
  BY <1>0 DEF Alive
<1>2. /\ Has(T, Top.loc, i) /\ T[x] = <<Mem(T, Top.loc, i).type, Way(T, Top.loc, i)>>
      /\ Alive("destroy", stack, Top.loc, i, k) <=> ~Visited("destroy", stack, x)
  BY DEF Stands, Hangs
<1>3. PICK j \in 1..Len(stack) : stack[j].loc = x
  BY <1>1, <1>2 DEF Visited
<1>4. Shaped(T, root) /\ T[x][2] = Way(T, Top.loc, i)
  BY <1>2 DEF Tree
<1>5. \A h \in 1..Len(stack) : stack[h].loc # x
  BY <1>2, <1>4, NotOnStack
<1> QED BY <1>3, <1>5

LEMMA UndoRelease ==
    ASSUME TypeInv, NameInv, OwnInv, NestInv, Owned, op = "destroy", fault' = "none",
           Release, NEW T, Undoing(T, call, msg, stack, fields)
    PROVE  Owned' /\ Undoing(T, call, msg, stack', fields')
<1> DEFINE c == call.conf
           n == Len(stack)
<1>0. /\ stack # << >> /\ fault = "none" /\ UNCHANGED callVars /\ name_tree' = name_tree
      /\ StackOK(stack) /\ StackOK(stack') /\ Top \in Frames /\ Nested(stack, c)
      /\ n \in Nat \ {0} /\ stack[n] = Top /\ Top.i \in Nat \ {0} /\ Top.k \in Nat
  BY StepFinds
<1>1. Walking("inner") /\ Top.at = "inner" /\ Top.k = Times
  BY DEF Release, Walking
<1>2. PICK f \in Frames : /\ stack' = SetTop(f) /\ Same(f) /\ f.at = "pop" /\ f.i = Top.i
                          /\ f.k = Top.k
  BY ReleaseFrame
<1>3. /\ m = Item(Top) /\ Within(Top) /\ Placed(c, Top, Path(stack, n))
      /\ Path(stack, n + 1) = Append(Path(stack, n), m.name)
  BY <1>1, PlaceFinds
<1>4. Top.k = Repeats(c, m, Path(stack, n + 1))
  <2>1. NeedsMemory(m) => Top.n = Capacity(c, m, Path(stack, n + 1))
    BY <1>1, <1>3 DEF Placed
  <2> QED BY <1>1, <2>1 DEF Times, Repeats, NeedsMemory
<1>5. Visits(T, stack) /\ Tree(T, call.root, c, "destroy", stack, fields)
  BY DEF Undoing
<1>6. ASSUME Top.loc \in DOMAIN T
      PROVE  /\ Mem(T, Top.loc, Top.i) = m /\ Way(T, Top.loc, Top.i) = Path(stack, n + 1)
  BY <1>0, <1>3, <1>5, <1>6, TopStructure
<1>7. ASSUME NEW i \in Nat, NEW k \in Nat, Hangs(T, c, Top.loc, i, k)
      PROVE  /\ Open("destroy", Top, i, k) <=> Open("destroy", f, i, k)
             /\ i = Top.i => ~Open("destroy", Top, i, k)
  <2>1. i = Top.i => k < Top.k
    <3>1. Top.loc \in DOMAIN T
      BY <1>7 DEF Hangs, Has
    <3> QED BY <1>4, <1>6, <1>7, <3>1 DEF Hangs
  <2>2. Open("destroy", f, i, k) <=> i > Top.i
    BY <1>2 DEF Open
  <2>3. Open("destroy", Top, i, k) <=> i > Top.i \/ (i = Top.i /\ k >= Top.k)
    BY <1>1 DEF Open
  <2> QED BY <1>0, <2>1, <2>2, <2>3
<1>8. ASSUME NEW i \in Nat, Holds("destroy", Top, i), i # Top.i PROVE Holds("destroy", f, i)
  BY <1>1, <1>2, <1>8 DEF Holds
<1>9. CASE ~NeedsMemory(m)
  <2>1. UNCHANGED <<heap, fields>> /\ Live' = Live
    BY <1>9 DEF Release, Live
  <2>2. Owned'
    BY <1>0, <2>1, OwnedSame
  <2>3. \A i \in Nat :
           Has(T, Top.loc, i) /\ NeedsMemory(Mem(T, Top.loc, i))
           /\ Append(Top.loc, i) \in DOMAIN fields /\ Holds("destroy", Top, i) => Holds("destroy", f, i)
    BY <1>6, <1>8, <1>9 DEF Has
  <2>4. Undoing(T, call, msg, stack', fields)
    BY <1>0, <1>1, <1>2, <1>7, <2>3, UndoingSame
  <2> QED BY <2>1, <2>2, <2>4
<1>10. CASE NeedsMemory(m)
  <2> DEFINE d == FieldAt(Field).data
  <2>1. /\ heap' = Without(d[2])
        /\ fields' = [l \in {x \in DOMAIN fields : x # Field /\ Head(x) # d} |-> fields[l]]
    BY <1>0, <1>10 DEF Release
  <2>2. /\ DOMAIN fields' = {x \in DOMAIN fields : x # Field /\ Head(x) # d}
        /\ \A x \in DOMAIN fields' : fields'[x] = fields[x]
        /\ Live' = Live \ {d[2]}
    BY <2>1 DEF Without, Live
  <2>3. /\ Field \in DOMAIN fields => fields[Field].data = d
        /\ Field \notin DOMAIN fields => d = Null
    BY DEF FieldAt, Cleared
  <2>f. Field = Append(Top.loc, Top.i)
    BY DEF Field, Member
  <2> HIDE DEF d
  <2>4. Heaped(fields)
    BY HeapedFields
  <2>5. \A x \in DOMAIN T : Head(x) # d
    <3>1. CASE Field \notin DOMAIN fields
      <4>1. Message # Null /\ \A x \in DOMAIN fields : fields[x].data # Null
        BY <2>4 DEF Heaped, Message, Null
      <4>2. \A l \in DOMAIN T : Head(l) = Message \/ \E x \in DOMAIN fields : fields[x].data = Head(l)
        BY <1>5 DEF Tree, Headed
      <4> QED BY <2>3, <3>1, <4>1, <4>2
    <3>2. CASE Field \in DOMAIN fields
      <4>1. d # Message
        BY <2>3, <2>4, <3>2 DEF Heaped, Message
      <4>2. \A x \in DOMAIN fields : fields[x].data = d => x = Append(Top.loc, Top.i)
        BY <2>3, <2>4, <2>f, <3>2 DEF Heaped
      <4>3. ASSUME NEW x \in DOMAIN T, NEW k \in Nat
            PROVE  ~Stands(T, c, "destroy", stack, fields, x, Top.loc, Top.i, k)
        <5>1. CASE ~Hangs(T, c, Top.loc, Top.i, k)
          BY <5>1 DEF Stands
        <5>2. CASE Hangs(T, c, Top.loc, Top.i, k)
          <6>1. ~Open("destroy", Top, Top.i, k)
            BY <1>0, <1>7, <5>2
          <6> QED BY <1>0, <1>5, <6>1, LeftBehind
        <5> QED BY <5>1, <5>2
      <4>4. Top.loc \in Locs /\ Top.i \in Nat
        BY <1>0 DEF Frames
      <4> HIDE DEF c
      <4> QED BY <1>5, <4>1, <4>2, <4>3, <4>4, HeadGone
    <3> QED BY <3>1, <3>2
  <2>6. Keeps(T, c, "destroy", stack, "destroy", stack', fields')
    <3> DEFINE o == "destroy"
    <3>1. \A i \in Nat, k \in Nat :
             Hangs(T, c, Top.loc, i, k) => (Open(o, Top, i, k) <=> Open(o, f, i, k))
      BY <1>7
    <3>2. \A i \in Nat :
             Has(T, Top.loc, i) /\ NeedsMemory(Mem(T, Top.loc, i))
             /\ Append(Top.loc, i) \in DOMAIN fields' /\ Holds(o, Top, i) => Holds(o, f, i)
      BY <1>8, <2>2, <2>f
    <3>3. f.loc = Top.loc
      BY <1>2 DEF Same
    <3> HIDE DEF c, o
    <3>4. Keeps(T, c, o, stack, o, SetTop(f), fields')
      BY <1>0, <3>1, <3>2, <3>3, SetTopKeeps
    <3> QED BY <1>2, <3>4 DEF o
  <2>7. /\ Tree(T, call.root, c, "destroy", stack', fields')
        /\ Linked(T, c, "destroy", stack, fields) => Linked(T, c, "destroy", stack', fields')
        /\ \A x \in DOMAIN fields : fields[x].data # d => x \in DOMAIN fields'
    <3> HIDE DEF c
    <3>1. Releasing(T, c, "destroy", stack, "destroy", stack', fields, fields', d, Field)
      BY <2>2, <2>3, <2>4, <2>5, <2>6 DEF Releasing
    <3> QED BY <1>5, <3>1, FreeTree
  <2>8. Owned'
    <3> SUFFICES ASSUME NEW b \in Live' \ {name_tree.data}
                 PROVE  \E x \in DOMAIN fields' : fields'[x].data = <<"heap", b>>
      BY <1>0 DEF Owned
    <3>1. b # d[2] /\ b \in Live \ {name_tree.data}
      BY <2>2
    <3>2. PICK x \in DOMAIN fields : fields[x].data = <<"heap", b>>
      BY <3>1 DEF Owned
    <3>3. fields[x].data # d
      BY <3>1, <3>2
    <3>4. x \in DOMAIN fields' /\ fields'[x].data = <<"heap", b>>
      BY <2>2, <2>7, <3>2, <3>3
    <3> QED BY <3>4
  <2>9. Undoing(T, call, msg, stack', fields')
    BY <1>0, <1>1, <1>2, <2>7, UndoingSetTop
  <2> QED BY <2>8, <2>9
<1> QED BY <1>9, <1>10
-----------------------------------------------------------------------------
LEMMA BelowLast ==
    \A n \in Nat \ {0} : n # 1 =>
        /\ 1 \in 1..(n - 1) /\ n - 1 \in 1..(n - 1)
        /\ \A j \in 1..(n - 1) : j \in 1..n /\ j # n /\ \A h \in 1..j : h \in 1..(n - 1)
OBVIOUS

LEMMA UndoReturn ==
    ASSUME TypeInv, NameInv, OwnInv, NestInv, Owned, op = "destroy", Return, NEW T,
           Undoing(T, call, msg, stack, fields)
    PROVE  Owned' /\ \E P : Undoing(P, call, msg, stack', fields')
<1> DEFINE c == call.conf
           n == Len(stack)
           P == Minus(T, Top.loc)
           t == stack'
<1>0. /\ stack # << >> /\ fault = "none" /\ UNCHANGED callVars /\ name_tree' = name_tree
      /\ StackOK(stack) /\ StackOK(stack') /\ Top \in Frames /\ Nested(stack, c)
      /\ n \in Nat \ {0} /\ stack[n] = Top /\ Top.i \in Nat \ {0} /\ Top.k \in Nat
  BY StepFinds
<1>1. /\ UNCHANGED <<heap, fields>> /\ Top.at = "name" /\ t = Pop(Top.used)
      /\ Top.i > Len(Types[Top.ty]) /\ Live' = Live
  BY DEF Return, members, Live
<1>2. Owned'
  BY <1>0, <1>1, OwnedSame
<1>3. Top.used \in Nat /\ Len(Types[Top.ty]) \in Nat /\ n \in 1..n /\ 1 \in 1..n
  BY <1>0, TopFrame DEF Frames, members
<1>4. /\ Tree(T, call.root, c, "destroy", stack, fields) /\ Visits(T, stack)
      /\ stack[1].loc = <<Message>> /\ <<Message>> \in DOMAIN T
      /\ msg = "made" =>
            /\ Linked(T, c, "destroy", stack, fields)
            /\ \A j \in 1..n : stack[j].at # "done" => Firm(T, c, stack, j)
  BY <1>0, <1>1 DEF Undoing
<1>5. ASSUME NEW i \in Nat, Has(T, Top.loc, i) PROVE i < Top.i
  <2>1. Top.loc \in DOMAIN T
    BY <1>5 DEF Has
  <2>2. i \in 1..Len(Types[Top.ty])
    BY <1>0, <1>4, <1>5, <2>1, TopStructure
  <2> QED BY <1>0, <1>1, <1>3, <2>2
<1>6. ASSUME NEW i \in Nat, NEW k \in Nat, Has(T, Top.loc, i)
      PROVE  ~Open("destroy", Top, i, k) /\ ~Holds("destroy", Top, i)
  BY <1>0, <1>5, <1>6 DEF Open, Holds
<1>7. /\ \A l, i, k : Alive("destroy", stack, l, i, k) => Alive("destroy", t, l, i, k)
      /\ \A l, i, k : Alive("destroy", t, l, i, k) /\ (l = Top.loc => Open("destroy", Top, i, k))
                        => Alive("destroy", stack, l, i, k)
      /\ \A l, i : Held("destroy", stack, l, i) => Held("destroy", t, l, i)
      /\ \A l, i : Held("destroy", stack, l, i) /\ l = Top.loc => Holds("destroy", Top, i)
      /\ \A x : Visited("destroy", t, x) => Visited("destroy", stack, x)
      /\ \A x : Visited("destroy", stack, x) /\ x # Top.loc => Visited("destroy", t, x)
  <2> DEFINE o == "destroy"
  <2>1. o \in {"create", "destroy"} /\ Top.at # "pop"
    BY <1>1
  <2> HIDE DEF o, t
  <2>2. /\ \A l, i, k : Alive(o, stack, l, i, k) => Alive(o, t, l, i, k)
        /\ \A l, i, k : Alive(o, t, l, i, k) /\ (l = Top.loc => Open(o, Top, i, k))
                          => Alive(o, stack, l, i, k)
        /\ \A l, i : Held(o, stack, l, i) => Held(o, t, l, i)
        /\ \A l, i, k : Alive(o, stack, l, i, k) /\ l = Top.loc => Open(o, Top, i, k)
        /\ \A l, i : Held(o, stack, l, i) /\ l = Top.loc => Holds(o, Top, i)
        /\ \A x : Visited(o, t, x) => Visited(o, stack, x)
        /\ \A x : Visited(o, stack, x) /\ x # Top.loc => Visited(o, t, x)
    BY <1>0, <1>1, <1>3, <2>1, PopSlots
  <2> QED BY <2>2 DEF o
<1>8. Leaving(T, c, stack, t, fields, Top.loc)
  <2>1. Heaped(fields)
    BY HeapedFields
  <2>2. Visited("destroy", stack, Top.loc)
    BY <1>0, <1>3 DEF Visited
  <2>3. ASSUME NEW y \in DOMAIN T, NEW i \in Nat, NEW k \in Nat
        PROVE  ~Stands(T, c, "destroy", stack, fields, y, Top.loc, i, k)
    <3>1. CASE ~Has(T, Top.loc, i)
      BY <3>1 DEF Stands, Hangs
    <3>2. CASE Has(T, Top.loc, i)
      <4>1. ~Open("destroy", Top, i, k)
        BY <1>6, <3>2
      <4> QED BY <1>0, <1>4, <4>1, LeftBehind
    <3> QED BY <3>1, <3>2
  <2>4. \A i \in Nat : Has(T, Top.loc, i) => ~Held("destroy", stack, Top.loc, i)
    <3>1. 0 \in Nat
      OBVIOUS
    <3> QED BY <1>6, <1>7, <3>1
  <2> HIDE DEF t, c
  <2>5. \A l \in DOMAIN T \ {Top.loc}, i \in Nat, k \in Nat :
           Hangs(T, c, l, i, k) => (Alive("destroy", stack, l, i, k) <=> Alive("destroy", t, l, i, k))
    BY <1>7
  <2>6. \A l \in DOMAIN T \ {Top.loc}, i \in Nat :
           Held("destroy", stack, l, i) => Held("destroy", t, l, i)
    BY <1>7
  <2>7. \A y \in DOMAIN T \ {Top.loc} : Visited("destroy", stack, y) <=> Visited("destroy", t, y)
    BY <1>7
  <2> QED BY <2>1, <2>2, <2>3, <2>4, <2>5, <2>6, <2>7 DEF Leaving
<1>9. /\ Tree(P, call.root, c, "destroy", t, fields)
      /\ Linked(T, c, "destroy", stack, fields) => Linked(P, c, "destroy", t, fields)
  <2> HIDE DEF t, c
  <2> QED BY <1>4, <1>8, DropTree
<1>10. DOMAIN P = DOMAIN T \ {Top.loc} /\ \A l \in DOMAIN P : l \in DOMAIN T /\ P[l] = T[l]
  BY DEF Minus
<1> HIDE DEF P
<1>11. Visits(P, t)
  BY <1>0, <1>1, <1>3, <1>4, <1>10, PopVisits
<1>12. CASE n = 1
  <2>1. Len(t) = 1 /\ t[1].at = "done" /\ t[1].loc = stack[1].loc
    BY <1>0, <1>1, <1>3, <1>12, PopEach
  <2>2. <<Message>> \notin DOMAIN P
    BY <1>0, <1>4, <1>10, <1>12
  <2>3. \A j \in 1..Len(t) : t[j].at = "done"
    BY <2>1
  <2>4. Undoing(P, call, msg, t, fields)
    BY <1>4, <1>9, <1>11, <2>1, <2>2, <2>3 DEF Undoing
  <2> QED BY <1>1, <1>2, <2>4
<1>13. CASE n # 1
  <2>1. /\ Len(t) = n - 1
        /\ \A j \in 1..(n - 1) : t[j].loc = stack[j].loc /\ t[j].ty = stack[j].ty /\ t[j].at = stack[j].at
    BY <1>0, <1>1, <1>3, <1>13, PopEach
  <2>2. /\ 1 \in 1..(n - 1) /\ n - 1 \in 1..(n - 1)
        /\ \A j \in 1..(n - 1) : j \in 1..n /\ j # n /\ \A h \in 1..j : h \in 1..(n - 1)
    BY <1>0, <1>13, BelowLast
  <2>3. \A j \in 1..(n - 1) : stack[j].at # "done"
    BY <1>0 DEF Nested, Under
  <2>4. ASSUME NEW j \in 1..(n - 1), stack[j].loc \in DOMAIN T PROVE stack[j].loc # Top.loc
    BY <1>0, <1>3, <1>4, <2>2, <2>4, FramesApart
  <2>5. <<Message>> \in DOMAIN P
    BY <1>4, <1>10, <2>2, <2>4
  <2>6. t[1].loc = <<Message>> /\ t[Len(t)].at # "done"
    BY <1>4, <2>1, <2>2, <2>3
  <2>7. ASSUME msg = "made", NEW j \in 1..(n - 1) PROVE Firm(P, c, t, j)
    <3>1. j \in 1..n /\ j \in Nat \ {0}
      BY <2>2
    <3>2. Firm(T, c, stack, j)
      BY <1>4, <2>3, <2>7, <3>1
    <3>3. Path(t, j) = Path(stack, j)
      BY <1>0, <1>1, <1>3, <3>1, PopPaths
    <3>4. \A h \in 1..j : /\ t[h].loc = stack[h].loc
                          /\ stack[h].loc \in DOMAIN T => stack[h].loc \in DOMAIN P
      BY <1>10, <2>1, <2>2, <2>4
    <3>5. t[j].ty = stack[j].ty
      BY <2>1
    <3> HIDE DEF t, c, n
    <3> QED BY <3>1, <3>2, <3>3, <3>4, <3>5, FirmSame
  <2>8. Undoing(P, call, msg, t, fields)
    BY <1>4, <1>9, <1>11, <2>1, <2>5, <2>6, <2>7 DEF Undoing
  <2> QED BY <1>1, <1>2, <2>8
<1> QED BY <1>12, <1>13
-----------------------------------------------------------------------------
\* What destroy visits is at its place, or has no bytes and is embedded.
LEMMA UndoFirm ==
    ASSUME Measured, NEW c \in Confs, StackOK(stack), stack # << >>, Nested(stack, c),
           NEW T, NEW root, Visits(T, stack), Within(Top), Composed(m), Top.at = "inner",
           Top.k < Repeats(c, m, Path(stack, Len(stack) + 1)),
           Linked(T, c, "destroy", stack, fields), Firm(T, c, stack, Len(stack)),
           NEW x, x = Put(fields, m, Top.loc, Top.i, Top.k)
    PROVE  \/ x \in DOMAIN T
           \/ /\ Bytes(c, Path(stack, Len(stack) + 1), m.type, 1) = 0
              /\ Head(x) = Head(Top.loc)
<1> DEFINE n == Len(stack)
<1>0. /\ Top \in Frames /\ n \in Nat \ {0} /\ stack[n] = Top /\ Top.i \in Nat \ {0} /\ Top.k \in Nat
      /\ n \in 1..n /\ Top.ty \in DOMAIN Types
  BY TopFrame DEF Frames, FrameOK, Top
<1>1. Located(Top.loc)
  BY <1>0 DEF Visits
<1>2. ASSUME ~is_sequence(m) PROVE Head(x) = Head(Top.loc)
  BY <1>0, <1>1, <1>2, AppendLocated DEF Put
<1>3. CASE Top.loc \in DOMAIN T
  <2>1. /\ Has(T, Top.loc, Top.i) /\ Mem(T, Top.loc, Top.i) = m
        /\ Way(T, Top.loc, Top.i) = Path(stack, n + 1)
        /\ \A j \in 1..n : stack[j].loc = Top.loc => j = n
    BY <1>3, TopStructure
  <2>2. Hangs(T, c, Top.loc, Top.i, Top.k)
    BY <1>0, <2>1 DEF Hangs
  <2>3. Open("destroy", Top, Top.i, Top.k)
    BY <1>0 DEF Open
  <2>4. Alive("destroy", stack, Top.loc, Top.i, Top.k)
    BY <1>0, <2>1, <2>3 DEF Alive
  <2>5. x = Seat(T, fields, Top.loc, Top.i, Top.k)
    BY <2>1 DEF Seat
  <2>6. CASE is_sequence(m) \/ Bytes(c, Path(stack, n + 1), m.type, 1) # 0
    <3>1. Seat(T, fields, Top.loc, Top.i, Top.k) \in DOMAIN T
      BY <1>0, <1>3, <2>1, <2>2, <2>4, <2>6 DEF Linked
    <3> QED BY <2>5, <3>1
  <2> QED BY <1>2, <2>6
<1>4. CASE Top.loc \notin DOMAIN T
  <2>1. Bytes(c, Path(stack, n), Top.ty, 1) = 0
    BY <1>0, <1>4 DEF Firm, Whole
  <2>2. Path(stack, n) \in Seq(STRING) /\ Path(stack, n + 1) = Append(Path(stack, n), m.name)
    <3>1. m = Item(stack[n])
      BY <1>0 DEF m, members, Item
    <3> QED BY <1>0, <3>1, NestedPath
  <2>3. Top.i \in 1..Len(Types[Top.ty]) /\ m = Types[Top.ty][Top.i]
    BY <1>0, TopFrame DEF Within, m, members
  <2> DEFINE p == Path(stack, n)
             q == Path(stack, n + 1)
  <2>4. /\ p \in Seq(STRING) /\ q = Append(p, m.name) /\ Bytes(c, p, Top.ty, 1) = 0
        /\ Top.k < Repeats(c, m, q)
    BY <2>1, <2>2
  <2> HIDE DEF p, q, n
  <2>5. ~is_sequence(m) /\ Bytes(c, q, m.type, 1) = 0
    BY <1>0, <2>3, <2>4, ZeroMember
  <2> QED BY <1>2, <2>5 DEF q, n
<1> QED BY <1>3, <1>4

LEMMA UndoDescend ==
    ASSUME Measured, TypeInv, NameInv, OwnInv, NestInv, Owned, op = "destroy",
           fault' = "none", Descend, NEW T, Undoing(T, call, msg, stack, fields)
    PROVE  Owned' /\ Undoing(T, call, msg, stack', fields')
<1> DEFINE c == call.conf
           n == Len(stack)
           x == Put(fields, m, Top.loc, Top.i, Top.k)
           t == stack'
<1>0. /\ stack # << >> /\ fault = "none" /\ UNCHANGED callVars /\ name_tree' = name_tree
      /\ StackOK(stack) /\ StackOK(stack') /\ Top \in Frames /\ Nested(stack, c) /\ c \in Confs
      /\ n \in Nat \ {0} /\ stack[n] = Top /\ Top.i \in Nat \ {0} /\ Top.k \in Nat
  BY StepFinds
<1>1. /\ Top.at = "inner" /\ Within(Top) /\ m \in MessageMember /\ Composed(m)
      /\ Top.k < Repeats(c, m, Path(stack, n + 1)) /\ UNCHANGED <<heap, fields>> /\ Live' = Live
  BY DescendFinds
<1>2. PICK f \in Frames, g \in Frames :
         /\ stack' = Append(SetTop(f), g) /\ Same(f) /\ f.at = "inner" /\ f.i = Top.i
         /\ f.k = Top.k + 1 /\ g.ty = m.type /\ g.at = "name" /\ g.i = 1 /\ g.k = 0
         /\ g.loc = x
  BY DescendFinds
<1>3. Owned'
  BY <1>0, <1>1, OwnedSame
<1>4. /\ Tree(T, call.root, c, "destroy", stack, fields) /\ Visits(T, stack)
      /\ stack[1].loc = <<Message>> /\ <<Message>> \in DOMAIN T
      /\ msg = "made" =>
            /\ Linked(T, c, "destroy", stack, fields)
            /\ \A j \in 1..n : stack[j].at # "done" => Firm(T, c, stack, j)
  BY <1>0, <1>1 DEF Undoing
<1>5. /\ Shaped(T, call.root) /\ Headed(T, fields) /\ Filled(T, "destroy", stack, fields)
      /\ Backed(T, c, "destroy", stack, fields)
  BY <1>4 DEF Tree
<1>6. ASSUME Top.loc \in DOMAIN T
      PROVE  /\ Mem(T, Top.loc, Top.i) = m /\ Way(T, Top.loc, Top.i) = Path(stack, n + 1)
  BY <1>0, <1>1, <1>4, <1>6, TopStructure
<1>7. Located(Top.loc) /\ n \in 1..n
  <2>1. n \in 1..n
    BY <1>0
  <2> QED BY <1>0, <1>4, <2>1 DEF Visits
<1>h. Heaped(fields)
  BY HeapedFields
<1>8. Located(x)
  BY <1>0, <1>7, PutLocated DEF TypeInv
<1>9. ASSUME x \in DOMAIN T
      PROVE  /\ Stands(T, c, "destroy", stack, fields, x, Top.loc, Top.i, Top.k)
             /\ T[x] = <<m.type, Path(stack, n + 1)>> /\ Top.loc \in DOMAIN T
  <2>1. PICK q \in Nat :
           /\ Stands(T, c, "destroy", stack, fields, x, Top.loc, Top.i, q)
           /\ is_sequence(m) <=> is_sequence(Mem(T, Top.loc, Top.i))
           /\ is_sequence(m) => q = Top.k
    BY <1>0, <1>4, <1>7, <1>9, <1>h, SeatOf
  <2>2. /\ Top.loc \in DOMAIN T /\ q < Repeats(c, Mem(T, Top.loc, Top.i), Way(T, Top.loc, Top.i))
        /\ T[x] = <<Mem(T, Top.loc, Top.i).type, Way(T, Top.loc, Top.i)>>
    BY <2>1 DEF Stands, Hangs, Has
  <2>3. Mem(T, Top.loc, Top.i) = m /\ Way(T, Top.loc, Top.i) = Path(stack, n + 1)
    BY <1>6, <2>2
  <2>4. q = Top.k
    <3>1. CASE is_sequence(m)
      BY <2>1, <3>1
    <3>2. CASE ~is_sequence(m)
      <4>1. Repeats(c, m, Path(stack, n + 1)) = 1
        BY <1>1, <3>2 DEF Repeats
      <4>2. q < 1 /\ Top.k < 1
        BY <1>1, <2>2, <2>3, <4>1
      <4> HIDE DEF c, n
      <4> QED BY <1>0, <4>2
    <3> QED BY <3>1, <3>2
  <2> QED BY <2>1, <2>2, <2>3, <2>4
<1>10. ASSUME Top.loc \in DOMAIN T PROVE Seat(T, fields, Top.loc, Top.i, Top.k) = x
  BY <1>6, <1>10 DEF Seat
<1> HIDE DEF x
<1>13. f.loc = Top.loc
  BY <1>2 DEF Same
<1> DEFINE o == "destroy"
<1>14. /\ \A l, i, k : /\ Alive(o, stack, l, i, k) /\ (l = Top.loc => Open(o, f, i, k))
                       /\ l = g.loc => Open(o, g, i, k)
                       => Alive(o, t, l, i, k)
       /\ \A l, i, k : Alive(o, t, l, i, k) /\ (l = Top.loc => Open(o, Top, i, k))
                         => Alive(o, stack, l, i, k)
       /\ \A l, i, k : Alive(o, stack, l, i, k) /\ l = Top.loc => Open(o, Top, i, k)
       /\ \A l, i, k : Alive(o, t, l, i, k) => /\ l = Top.loc => Open(o, f, i, k)
                                               /\ l = g.loc => Open(o, g, i, k)
       /\ \A l, i : /\ Held(o, stack, l, i) /\ (l = Top.loc => Holds(o, f, i))
                    /\ l = g.loc => Holds(o, g, i)
                    => Held(o, t, l, i)
       /\ \A l, i : Held(o, stack, l, i) /\ l = Top.loc => Holds(o, Top, i)
       /\ \A y : Visited(o, t, y) <=> Visited(o, stack, y) \/ (o = "destroy" /\ y = g.loc)
  <2>1. t = Append(SetTop(f), g)
    BY <1>2
  <2> HIDE DEF o, t
  <2> QED BY <1>0, <1>13, <2>1, PushSlots
<1>15. \A i \in Nat, k \in Nat :
          /\ Open(o, f, i, k) <=> i > Top.i \/ (i = Top.i /\ k >= Top.k + 1)
          /\ Open(o, Top, i, k) <=> i > Top.i \/ (i = Top.i /\ k >= Top.k)
          /\ i >= 1 => Open(o, g, i, k) /\ Holds(o, g, i)
  BY <1>1, <1>2 DEF Open, Holds
<1>16. \A i \in Nat : Holds(o, Top, i) <=> Holds(o, f, i)
  BY <1>1, <1>2 DEF Holds
<1>17. /\ ~Open(o, f, Top.i, Top.k)
       /\ \A i \in Nat, k \in Nat : /\ Open(o, f, i, k) => Open(o, Top, i, k)
                                    /\ Open(o, Top, i, k) => Open(o, f, i, k) \/ (i = Top.i /\ k = Top.k)
  BY <1>0, <1>15
<1>18. ASSUME NEW l \in DOMAIN T, NEW i \in Nat, NEW k \in Nat, Hangs(T, c, l, i, k)
       PROVE  /\ Alive(o, t, l, i, k) => Alive(o, stack, l, i, k)
              /\ Alive(o, stack, l, i, k) =>
                    Alive(o, t, l, i, k) \/ (l = Top.loc /\ i = Top.i /\ k = Top.k)
  <2>1. i >= 1
    BY <1>18 DEF Hangs, Has
  <2>2. Open(o, g, i, k)
    BY <1>15, <2>1
  <2> HIDE DEF t, o
  <2> QED BY <1>14, <1>17, <2>2
<1>19. Filled(T, o, t, fields)
  <2> SUFFICES ASSUME NEW y \in DOMAIN fields
               PROVE  \E l \in DOMAIN T, i \in Nat :
                         Has(T, l, i) /\ NeedsMemory(Mem(T, l, i)) /\ y = Append(l, i) /\ Held(o, t, l, i)
    BY DEF Filled
  <2>1. PICK l \in DOMAIN T, i \in Nat :
           Has(T, l, i) /\ NeedsMemory(Mem(T, l, i)) /\ y = Append(l, i) /\ Held(o, stack, l, i)
    BY <1>5 DEF Filled
  <2>2. i >= 1 /\ 0 \in Nat
    BY <2>1 DEF Has
  <2>3. Holds(o, g, i)
    BY <1>15, <2>2
  <2>4. Held(o, t, l, i)
    <3> HIDE DEF t, o
    <3> QED BY <1>14, <1>16, <2>1, <2>3
  <2> QED BY <2>1, <2>4
<1>20. Backed(T, c, o, t, fields)
  <2> SUFFICES ASSUME NEW y \in DOMAIN T \ {<<Message>>}
               PROVE  \E l \in DOMAIN T, i \in Nat, k \in Nat : Stands(T, c, o, t, fields, y, l, i, k)
    BY DEF Backed
  <2>1. CASE y = x
    <3>1. /\ Stands(T, c, o, stack, fields, x, Top.loc, Top.i, Top.k) /\ Top.loc \in DOMAIN T
      BY <1>9, <2>1
    <3>2. ~Alive(o, t, Top.loc, Top.i, Top.k) /\ Visited(o, t, x)
      <4>1. o = "destroy"
        OBVIOUS
      <4> HIDE DEF t, o
      <4> QED BY <1>2, <1>14, <1>17, <4>1
    <3>3. Stands(T, c, o, t, fields, x, Top.loc, Top.i, Top.k)
      <4> HIDE DEF t, o, c
      <4> QED BY <3>1, <3>2 DEF Stands
    <3> QED BY <1>0, <2>1, <3>1, <3>3
  <2>2. CASE y # x
    <3>1. PICK l \in DOMAIN T, i \in Nat, k \in Nat : Stands(T, c, o, stack, fields, y, l, i, k)
      BY <1>5 DEF Backed
    <3>2. Hangs(T, c, l, i, k) /\ y = Seat(T, fields, l, i, k)
      BY <3>1 DEF Stands
    <3>3. ~(l = Top.loc /\ i = Top.i /\ k = Top.k)
      BY <1>10, <2>2, <3>2
    <3>4. Alive(o, t, l, i, k) <=> Alive(o, stack, l, i, k)
      BY <1>18, <3>2, <3>3
    <3>5. Visited(o, t, y) <=> Visited(o, stack, y)
      <4> HIDE DEF t, o
      <4> QED BY <1>2, <1>14, <2>2
    <3>6. Stands(T, c, o, t, fields, y, l, i, k)
      <4> HIDE DEF t, o, c
      <4> QED BY <3>1, <3>4, <3>5 DEF Stands
    <3> QED BY <3>6
  <2> QED BY <2>1, <2>2
<1>21. Tree(T, call.root, c, "destroy", t, fields)
  BY <1>5, <1>19, <1>20 DEF Tree
<1>22. ASSUME msg = "made" PROVE Linked(T, c, "destroy", t, fields)
  <2>1. Linked(T, c, "destroy", stack, fields)
    BY <1>4, <1>22
  <2> QED BY <1>18, <2>1 DEF Linked
<1>23. Visits(T, t)
  <2>1. Agrees(T, T, stack, g, Path(stack, Len(stack) + 1))
    BY <1>2, <1>8, <1>9 DEF Agrees
  <2> QED BY <1>0, <1>2, <1>4, <2>1, PushVisits
<1>24. /\ Len(t) = n + 1
       /\ \A j \in 1..(n + 1) : t[j] = IF j = n + 1 THEN g ELSE IF j = n THEN f ELSE stack[j]
  BY <1>0, <1>2, PushEach
<1>25. /\ \A j \in 1..(n + 1) : j = n + 1 \/ j \in 1..n
       /\ \A j \in 1..n : j \in 1..(n + 1) /\ j # n + 1 /\ \A h \in 1..j : h \in 1..n
       /\ 1 \in 1..n /\ n + 1 \in 1..(n + 1)
  BY <1>0
<1>26. /\ \A j \in 1..n : t[j].loc = stack[j].loc /\ t[j].ty = stack[j].ty
       /\ t[n + 1] = g
  <2> HIDE DEF t, n
  <2> QED BY <1>0, <1>2, <1>24, <1>25 DEF Same, n
<1>27. t[1].loc = <<Message>> /\ t[Len(t)].at # "done"
  <2> HIDE DEF t, n
  <2> QED BY <1>2, <1>4, <1>24, <1>25, <1>26
<1>28. ASSUME msg = "made", NEW j \in 1..(n + 1) PROVE Firm(T, c, t, j)
  <2>1. ASSUME NEW h \in 1..n PROVE Firm(T, c, stack, h)
    <3>1. stack[h].at # "done"
      <4>1. h = n \/ h \in 1..(n - 1)
        BY <1>0
      <4> QED BY <1>0, <1>1, <4>1 DEF Nested, Under
    <3> QED BY <1>4, <1>28, <3>1
  <2>2. Path(t, j) = Path(stack, j)
    BY <1>0, <1>2, PushPaths DEF Same
  <2>3. CASE j \in 1..n
    <3>1. j \in Nat \ {0} /\ Firm(T, c, stack, j)
      BY <2>1, <2>3
    <3>2. \A h \in 1..j : /\ t[h].loc = stack[h].loc
                          /\ stack[h].loc \in DOMAIN T => stack[h].loc \in DOMAIN T
      BY <1>25, <1>26, <2>3
    <3>3. t[j].ty = stack[j].ty
      BY <1>26, <2>3
    <3> HIDE DEF t, c, n
    <3> QED BY <2>2, <3>1, <3>2, <3>3, FirmSame
  <2>4. CASE j = n + 1
    <3>1. Firm(T, c, stack, n)
      BY <1>7, <2>1
    <3>2. Linked(T, c, "destroy", stack, fields)
      BY <1>4, <1>28
    <3>3. \/ x \in DOMAIN T
          \/ /\ Bytes(c, Path(stack, n + 1), m.type, 1) = 0
             /\ Head(x) = Head(Top.loc)
      BY <1>0, <1>1, <1>4, <3>1, <3>2, UndoFirm DEF x
    <3>4. Whole(c, t, j) = Bytes(c, Path(stack, n + 1), m.type, 1) /\ t[j].loc = x
      BY <1>2, <1>26, <2>2, <2>4 DEF Whole
    <3>5. PICK h \in 1..n : stack[h].loc \in DOMAIN T /\ Head(stack[h].loc) = Head(Top.loc)
      BY <1>0, <3>1 DEF Firm
    <3>6. t[h].loc \in DOMAIN T /\ Head(t[h].loc) = Head(Top.loc) /\ h \in 1..j /\ j \in 1..j
      BY <1>25, <1>26, <2>4, <3>5
    <3> HIDE DEF t, n, c
    <3> QED BY <3>3, <3>4, <3>6 DEF Firm
  <2> QED BY <1>25, <2>3, <2>4
<1>29. Undoing(T, call, msg, t, fields)
  BY <1>4, <1>21, <1>22, <1>23, <1>24, <1>27, <1>28 DEF Undoing
<1> QED BY <1>1, <1>3, <1>29
-----------------------------------------------------------------------------
\* A walk that neither creates nor destroys leaves a message alone.
LEMMA OtherWalk ==
    ASSUME ~Moves, op \notin {"create", "destroy"},
           PushName \/ Plain \/ Allocate \/ Preallocate \/ Count \/ Descend \/ Release
              \/ PopName \/ Return
    PROVE  Live' = Live /\ (op = "create_static" \/ UNCHANGED fields)
<1>1. CASE PushName \/ PopName
  BY <1>1, NameInPlace
<1>2. CASE Plain \/ Count \/ Return
  BY <1>2 DEF Plain, Count, Return, Live
<1>3. CASE Allocate
  BY <1>3 DEF Allocate
<1>4. CASE Preallocate
  BY <1>4 DEF Preallocate, Live
<1>5. CASE Descend
  BY <1>5 DEF Descend, Fault, Live
<1>6. CASE Release
  BY <1>6 DEF Release, Live
<1> QED BY <1>1, <1>2, <1>3, <1>4, <1>5, <1>6

LEMMA WalkTree ==
    ASSUME Measured, ~Moves, TypeInv, NameInv, OwnInv, NestInv, SafeInv, BalInv, TreeInv,
           PushName \/ Plain \/ Allocate \/ Preallocate \/ Count \/ Descend \/ Release
              \/ PopName \/ Return
    PROVE  TreeInv'
<1> SUFFICES ASSUME fault' = "none" PROVE TreeInv'
  BY DEF TreeInv
<1>0. /\ stack # << >> /\ fault = "none" /\ UNCHANGED callVars /\ call \in Calls
  BY StepFinds
<1>1. op' = op /\ call' = call /\ msg' = msg /\ made' = made /\ name_tree' = name_tree
  BY <1>0 DEF callVars
<1>2. stack' # << >>
  <2>1. NestInv'
    BY NestStep DEF Next
  <2>2. op # "none" /\ call # Idle
    BY <1>0, FirstWalkApi DEF NestInv, Calls, Apis, Idle
  <2> QED BY <1>1, <2>1, <2>2 DEF NestInv
<1>3. CASE op = "create"
  <2>1. PICK T : Making(T, call, stack, fields)
    BY <1>0, <1>3 DEF TreeInv
  <2>2. Owned
    BY <1>0, <1>3 DEF TreeInv
  <2>3. Owned' /\ \E P : Making(P, call, stack', fields')
    <3>1. CASE PushName \/ PopName
      BY <1>3, <2>1, <2>2, <3>1, MakeName
    <3>2. CASE Plain \/ Allocate \/ Preallocate \/ Count
      BY <1>3, <2>1, <2>2, <3>2, MakeMemory
    <3>3. CASE Descend
      BY <1>3, <2>1, <2>2, <3>3, MakeDescend
    <3>4. CASE Release
      BY <1>3, <2>1, <2>2, <3>4, MakeRelease
    <3>5. CASE Return
      BY <1>3, <2>1, <2>2, <3>5, MakeReturn
    <3> QED BY <3>1, <3>2, <3>3, <3>4, <3>5
  <2>4. msg \in {"raw", "static"}
    BY <1>3 DEF OwnInv
  <2> QED BY <1>1, <1>2, <1>3, <2>3, <2>4 DEF TreeInv
<1>4. CASE op = "destroy"
  <2>0. msg \in {"made", "failed"}
    BY <1>4 DEF OwnInv
  <2>1. PICK T : Undoing(T, call, msg, stack, fields)
    BY <1>0, <1>4, <2>0 DEF TreeInv
  <2>2. Owned /\ (call.api = "destroy" => call.root = made.root /\ call.conf = made.conf)
    BY <1>0, <2>0 DEF TreeInv
  <2>3. Owned' /\ \E P : Undoing(P, call, msg, stack', fields')
    <3>1. CASE PushName \/ PopName
      BY <1>4, <2>1, <2>2, <3>1, UndoName
    <3>2. CASE Plain \/ Allocate \/ Preallocate \/ Count
      BY <1>4, <2>1, <2>2, <3>2, UndoMemory
    <3>3. CASE Descend
      BY <1>4, <2>1, <2>2, <3>3, UndoDescend
    <3>4. CASE Release
      BY <1>4, <2>1, <2>2, <3>4, UndoRelease
    <3>5. CASE Return
      BY <1>4, <2>1, <2>2, <3>5, UndoReturn
    <3> QED BY <3>1, <3>2, <3>3, <3>4, <3>5
  <2> QED BY <1>1, <1>2, <1>4, <2>0, <2>2, <2>3 DEF TreeInv
<1>5. CASE op \notin {"create", "destroy"}
  <2>1. Live' = Live /\ (op = "create_static" \/ UNCHANGED fields)
    BY <1>5, OtherWalk
  <2>2. CASE msg \in {"raw", "static"}
    <3>1. Live \subseteq {name_tree.data}
      BY <1>0, <1>5, <2>2 DEF TreeInv
    <3> QED BY <1>1, <1>2, <1>5, <2>1, <2>2, <3>1 DEF TreeInv
  <2>3. CASE msg \in {"made", "failed"}
    <3>1. UNCHANGED fields
      BY <2>1, <2>3 DEF OwnInv
    <3>2. /\ Owned /\ (call.api = "destroy" => call.root = made.root /\ call.conf = made.conf)
          /\ \E T : Kept(T, made, msg, fields)
      BY <1>0, <1>5, <2>3 DEF TreeInv
    <3>3. Owned'
      BY <1>1, <2>1, <3>1, <3>2, OwnedSame
    <3> QED BY <1>1, <1>2, <1>5, <2>3, <3>1, <3>2, <3>3 DEF TreeInv
  <2> QED BY <2>2, <2>3 DEF TypeInv, CallOK
<1> QED BY <1>3, <1>4, <1>5
-----------------------------------------------------------------------------
\* What the library functions make of the message.

\* Between two walks there is no name.
LEMMA BetweenWalks ==
    ASSUME TypeInv, NestInv, TreeInv, fault = "none", stack = << >>
    PROVE  /\ op = "none" /\ name_tree = NoString /\ 0 \notin Live
           /\ msg \in {"raw", "static"} => Live = {}
<1>1. op = "none"
  BY DEF NestInv
<1>2. name_tree = NoString
  BY DEF TreeInv
<1>3. 0 \notin Live
  BY DEF TypeInv, HeapOK
<1>4. ASSUME msg \in {"raw", "static"} PROVE Live = {}
  <2>1. Live \subseteq {name_tree.data}
    BY <1>1, <1>4 DEF TreeInv
  <2> QED BY <1>2, <1>3, <2>1 DEF NoString
<1> QED BY <1>1, <1>2, <1>3, <1>4

\* A walk begins: the only new block is the name's.
LEMMA WalkLive ==
    ASSUME TypeInv, fault' = "none", NEW o, NEW root, NEW rules, Walk(o, root, rules)
    PROVE  Live' \ {name_tree'.data} \subseteq Live /\ stack' # << >>
<1>1. \/ UNCHANGED heap
      \/ /\ Free # {} /\ heap' = With(FirstFree, 1, << >>)
         /\ name_tree' = [data |-> FirstFree, size |-> 0, capacity |-> 1]
  BY DEF Walk
<1>2. CASE UNCHANGED heap
  <2>1. Live' = Live
    BY <1>2 DEF Live
  <2> QED BY <2>1, FirstFrame
<1>3. CASE /\ Free # {} /\ heap' = With(FirstFree, 1, << >>)
           /\ name_tree' = [data |-> FirstFree, size |-> 0, capacity |-> 1]
  <2>1. Live' = Live \cup {FirstFree} /\ name_tree'.data = FirstFree
    BY <1>3 DEF With, Live
  <2> QED BY <2>1, FirstFrame
<1> QED BY <1>1, <1>2, <1>3

\* No block but the name's is taken, and no field is assigned.
LEMMA OwnedShrinks ==
    ASSUME Owned, Live' \ {name_tree'.data} \subseteq Live \ {name_tree.data}, UNCHANGED fields
    PROVE  Owned'
BY DEF Owned

LEMMA CallTree ==
    ASSUME TypeInv, OwnInv, NestInv, TreeInv, Sizes \/ Create \/ CreateStatic \/ Destroy
    PROVE  TreeInv'
<1> SUFFICES ASSUME fault' = "none" PROVE TreeInv'
  BY DEF TreeInv
<1>1. PICK c \in Calls : call = Idle /\ Call(c.api, c.root, c.conf, c.len)
  BY CallTypes
<1>2. /\ Walk(FirstWalk(c.api), c.root, c.conf.rules) /\ UNCHANGED <<fields, msg, made>>
      /\ fault = "none"
  BY <1>1 DEF Call
<1>3. /\ op = "none" /\ name_tree = NoString /\ 0 \notin Live
      /\ msg \in {"raw", "static"} => Live = {}
  BY <1>1, <1>2, BetweenWalks DEF TypeInv, CallOK
<1>4. /\ Live' \ {name_tree'.data} \subseteq Live /\ stack' # << >>
      /\ op' \notin {"create", "destroy"}
  BY <1>2, WalkLive, FirstFrame, FirstWalkApi
<1>5. call'.api = "destroy" => call'.root = made.root /\ call'.conf = made.conf
  <2>1. CASE Destroy
    BY <2>1 DEF Destroy, Call
  <2>2. CASE Sizes \/ Create \/ CreateStatic
    BY <2>2 DEF Sizes, Create, CreateStatic, Call
  <2> QED BY <2>1, <2>2
<1>6. CASE msg \in {"raw", "static"}
  <2>1. Live' \subseteq {name_tree'.data}
    BY <1>3, <1>4, <1>6
  <2> QED BY <1>2, <1>4, <1>6, <2>1 DEF TreeInv
<1>7. CASE msg \in {"made", "failed"}
  <2>1. Owned /\ \E T : Kept(T, made, msg, fields)
    BY <1>2, <1>3, <1>7 DEF TreeInv
  <2>2. Live' \ {name_tree'.data} \subseteq Live \ {name_tree.data}
    BY <1>3, <1>4 DEF NoString
  <2>3. Owned'
    BY <1>2, <2>1, <2>2, OwnedShrinks
  <2> QED BY <1>2, <1>4, <1>5, <1>7, <2>1, <2>3 DEF TreeInv
<1> QED BY <1>6, <1>7 DEF TypeInv, CallOK

\* create begins with a message that has nothing.
LEMMA MakingStart ==
    ASSUME NEW a \in Calls, NEW s, Len(s) = 1, s[1].ty = a.root, s[1].loc = <<Message>>,
           s[1].at = "name", s[1].i = 1, s[1].k = 0
    PROVE  \E T : Making(T, a, s, << >>)
<1> DEFINE T == [l \in {<<Message>>} |-> <<a.root, << >>>>]
           c == a.conf
           f == << >>
<1>0. DOMAIN T = {<<Message>>} /\ T[<<Message>>] = <<a.root, << >>>> /\ DOMAIN f = {}
  OBVIOUS
<1> HIDE DEF T, f
<1>1. Located(<<Message>>) /\ Head(<<Message>>) = Message
  <2>1. Message \in Pointers
    BY DEF Message, Pointers
  <2> QED BY <2>1 DEF Located, Locs
<1>2. Shaped(T, a.root)
  <2>1. a.root \in DOMAIN Types
    BY MessageAssumption DEF Calls, MessageAssumption
  <2>2. << >> \in Seq(STRING)
    OBVIOUS
  <2>3. <<a.root, << >>>> \in (DOMAIN Types) \X Seq(STRING)
    BY <2>1, <2>2
  <2>4. \A l \in DOMAIN T : Located(l) /\ T[l] \in (DOMAIN Types) \X Seq(STRING)
    BY <1>0, <1>1, <2>3, Zenon
  <2> QED BY <1>0, <2>4 DEF Shaped
<1>3. Headed(T, f)
  BY <1>0, <1>1 DEF Headed
<1>4. Filled(T, "create", s, f) /\ Backed(T, c, "create", s, f)
  BY <1>0 DEF Filled, Backed
<1>5. 1 \in 1..Len(s) /\ \A j \in 1..Len(s) : j = 1
  OBVIOUS
<1>6. Visits(T, s)
  <2>1. Path(s, 1) = << >>
    BY PathFirst
  <2> QED BY <1>0, <1>1, <1>5, <2>1 DEF Visits
<1>7. Linked(T, c, "create", s, f)
  <2> SUFFICES ASSUME NEW l \in DOMAIN T, NEW i \in Nat, NEW k \in Nat,
                      Hangs(T, c, l, i, k), Alive("create", s, l, i, k)
               PROVE  FALSE
    BY DEF Linked
  <2>1. Open("create", s[1], i, k)
    BY <1>0, <1>5 DEF Alive
  <2>2. i >= 1
    BY DEF Hangs, Has
  <2> QED BY <2>1, <2>2 DEF Open
<1>8. Making(T, a, s, f)
  BY <1>0, <1>2, <1>3, <1>4, <1>5, <1>6, <1>7 DEF Making, Tree
<1> QED BY <1>8 DEF f

\* destroy begins with the message that create has left.
LEMMA UndoingStart ==
    ASSUME NEW a, NEW b, b.root = a.root, b.conf = a.conf, NEW g, NEW f, NEW T, Kept(T, b, g, f),
           NEW s, Len(s) = 1, s[1].ty = a.root, s[1].loc = <<Message>>,
           s[1].at = "name", s[1].i = 1, s[1].k = 0
    PROVE  Undoing(T, a, g, s, f)
<1> DEFINE c == a.conf
<1>0. /\ Tree(T, a.root, c, "none", << >>, f) /\ <<Message>> \in DOMAIN T
      /\ g = "made" => Linked(T, c, "none", << >>, f)
  BY DEF Kept
<1>1. 1 \in 1..Len(s) /\ (\A j \in 1..Len(s) : j = 1) /\ 1..Len(<< >>) = {}
  OBVIOUS
<1>2. Keeps(T, c, "none", << >>, "destroy", s, f)
  <2>1. ASSUME NEW l \in DOMAIN T, NEW i \in Nat, NEW k \in Nat, i >= 1
        PROVE  Alive("destroy", s, l, i, k) /\ Held("destroy", s, l, i)
    <3>1. Open("destroy", s[1], i, k) /\ Holds("destroy", s[1], i)
      BY <2>1 DEF Open, Holds
    <3> QED BY <1>1, <3>1 DEF Alive, Held
  <2>2. \A l, i, k : Alive("none", << >>, l, i, k)
    BY <1>1 DEF Alive
  <2>3. \A x \in DOMAIN T \ {<<Message>>} : Visited("none", << >>, x) <=> Visited("destroy", s, x)
    BY <1>1 DEF Visited
  <2>4. ASSUME NEW l \in DOMAIN T, NEW i \in Nat, NEW k \in Nat, Hangs(T, c, l, i, k)
        PROVE  Alive("none", << >>, l, i, k) <=> Alive("destroy", s, l, i, k)
    <3>1. i >= 1
      BY <2>4 DEF Hangs, Has
    <3> QED BY <2>1, <2>2, <3>1
  <2>5. ASSUME NEW l \in DOMAIN T, NEW i \in Nat, Has(T, l, i)
        PROVE  Held("destroy", s, l, i)
    <3>1. i >= 1 /\ 0 \in Nat
      BY <2>5 DEF Has
    <3> QED BY <2>1, <3>1
  <2> HIDE DEF c
  <2> QED BY <2>3, <2>4, <2>5 DEF Keeps
<1>3. Tree(T, a.root, c, "destroy", s, f)
  BY <1>0, <1>2, KeepTree
<1>4. g = "made" => Linked(T, c, "destroy", s, f)
  BY <1>0, <1>2, KeepTree
<1>5. Visits(T, s)
  <2>1. Path(s, 1) = << >>
    BY PathFirst
  <2>2. Located(<<Message>>) /\ T[<<Message>>] = <<a.root, << >>>>
    BY <1>0 DEF Tree, Shaped
  <2> QED BY <1>1, <2>1, <2>2 DEF Visits
<1>6. Firm(T, c, s, 1)
  BY <1>0, <1>1 DEF Firm
<1> QED BY <1>0, <1>1, <1>3, <1>4, <1>5, <1>6 DEF Undoing

LEMMA SecondWalkTree ==
    ASSUME TypeInv, OwnInv, NestInv, TreeInv, SecondWalk
    PROVE  TreeInv'
<1> SUFFICES ASSUME fault' = "none" PROVE TreeInv'
  BY DEF TreeInv
<1>0. /\ fault = "none" /\ stack = << >> /\ UNCHANGED <<msg, made>> /\ call # Idle
      /\ call \in Calls
  BY DEF SecondWalk, TypeInv, CallOK
<1>1. /\ op = "none" /\ name_tree = NoString /\ 0 \notin Live
      /\ msg \in {"raw", "static"} => Live = {}
  BY <1>0, BetweenWalks
<1>2. call.api \in {"create", "create_static", "destroy"}
  BY <1>0 DEF NestInv
<1>3. /\ call.api \in {"create", "create_static"} => msg \in {"raw", "static"}
      /\ call.api = "destroy" => msg \in {"made", "failed"}
  BY DEF OwnInv
<1>4. CASE call.api = "create_static" /\ call' = Idle /\ UNCHANGED <<walkVars, op, name_tree>>
  <2>1. Live' = {} /\ op' = "none" /\ name_tree' = NoString /\ msg' \in {"raw", "static"}
    BY <1>0, <1>1, <1>3, <1>4 DEF walkVars, Live
  <2> QED BY <2>1 DEF TreeInv
<1>5. CASE /\ Walk(call.api, call.root, call.conf.rules) /\ UNCHANGED call
           /\ fields' = IF call.api = "destroy" THEN fields ELSE << >>
  <2>1. /\ Live' \ {name_tree'.data} \subseteq Live /\ stack' # << >> /\ op' = call.api
        /\ Len(stack') = 1 /\ stack'[1].ty = call.root /\ stack'[1].at = "name"
        /\ stack'[1].i = 1 /\ stack'[1].loc = <<Message>>
    BY <1>2, <1>5, WalkLive, FirstFrame
  <2>2. stack'[1].k = 0
    <3>1. StackOK(stack') /\ 1 \in 1..Len(stack')
      BY <2>1, SecondWalkType DEF TypeInv
    <3>2. FrameOK(stack'[1])
      BY <3>1 DEF StackOK
    <3> QED BY <2>1, <3>2 DEF FrameOK
  <2>3. CASE call.api = "create_static"
    <3>1. Live' \subseteq {name_tree'.data}
      BY <1>1, <1>3, <2>1, <2>3
    <3> QED BY <1>0, <1>3, <2>1, <2>3, <3>1 DEF TreeInv
  <2>4. CASE call.api = "create"
    <3>1. Live' \ {name_tree'.data} = {} /\ fields' = << >>
      BY <1>1, <1>3, <1>5, <2>1, <2>4
    <3>2. Owned'
      BY <3>1 DEF Owned
    <3>3. \E T : Making(T, call, stack', << >>)
      BY <1>0, <2>1, <2>2, MakingStart
    <3> QED BY <1>0, <1>3, <1>5, <2>1, <2>4, <3>1, <3>2, <3>3 DEF TreeInv
  <2>5. CASE call.api = "destroy"
    <3>1. /\ Owned /\ call.root = made.root /\ call.conf = made.conf
          /\ \E T : Kept(T, made, msg, fields)
      BY <1>0, <1>1, <1>3, <2>5 DEF TreeInv
    <3>2. PICK T : Kept(T, made, msg, fields)
      BY <3>1
    <3>3. Undoing(T, call, msg, stack', fields)
      BY <2>1, <2>2, <3>1, <3>2, UndoingStart
    <3>4. Live' \ {name_tree'.data} \subseteq Live \ {name_tree.data} /\ UNCHANGED fields
      BY <1>1, <1>5, <2>1, <2>5 DEF NoString
    <3>5. Owned'
      BY <3>1, <3>4, OwnedShrinks
    <3> QED BY <1>0, <1>3, <1>5, <2>1, <2>5, <3>1, <3>3, <3>4, <3>5 DEF TreeInv
  <2> QED BY <1>2, <2>3, <2>4, <2>5
<1> QED BY <1>4, <1>5 DEF SecondWalk
-----------------------------------------------------------------------------
\* What create has made when its walk has ended.
LEMMA KeptStart ==
    ASSUME NEW a, NEW s, Len(s) = 1, s[1].at = "done", NEW f, NEW T, Making(T, a, s, f), NEW g,
           g = "made" => ~Short(a.conf, s)
    PROVE  Kept(T, a, g, f)
<1> DEFINE c == a.conf
<1>0. /\ Tree(T, a.root, c, "create", s, f) /\ s[1].loc = <<Message>>
      /\ \A j \in 1..Len(s) : s[j].loc \in DOMAIN T
      /\ Short(c, s) \/ Linked(T, c, "create", s, f)
  BY DEF Making
<1>1. 1 \in 1..Len(s) /\ (\A j \in 1..Len(s) : j = 1) /\ 1..Len(<< >>) = {}
  OBVIOUS
<1>2. Keeps(T, c, "create", s, "none", << >>, f)
  <2>1. \A i, k : Open("create", s[1], i, k)
    BY DEF Open
  <2>2. \A l, i, k : Alive("create", s, l, i, k) /\ Alive("none", << >>, l, i, k)
    BY <1>1, <2>1 DEF Alive
  <2>3. \A l, i : Held("none", << >>, l, i)
    BY <1>1 DEF Held
  <2>4. \A x : ~Visited("create", s, x) /\ ~Visited("none", << >>, x)
    BY DEF Visited
  <2> HIDE DEF c
  <2> QED BY <2>2, <2>3, <2>4 DEF Keeps
<1>3. Tree(T, a.root, c, "none", << >>, f)
  BY <1>0, <1>2, KeepTree
<1>4. g = "made" => Linked(T, c, "none", << >>, f)
  BY <1>0, <1>2, KeepTree
<1> QED BY <1>0, <1>1, <1>3, <1>4 DEF Kept

LEMMA EndWalkTree ==
    ASSUME Measured, TypeInv, OwnInv, NestInv, BalInv, TreeInv, EndWalk
    PROVE  TreeInv'
<1> SUFFICES ASSUME fault' = "none" PROVE TreeInv'
  BY DEF TreeInv
<1>0. /\ fault = "none" /\ stack # << >> /\ Top.at = "done" /\ heap' = Without(name_tree.data)
      /\ name_tree' = NoString /\ stack' = << >> /\ op' = "none"
  BY DEF EndWalk, Fault
<1>1. /\ StackOK(stack) /\ call \in Calls /\ Nested(stack, call.conf)
      /\ op \in {FirstWalk(call.api), call.api}
  BY <1>0 DEF TypeInv, CallOK, NestInv
<1>2. Len(stack) = 1 /\ stack[1] = Top /\ 1 \in 1..Len(stack)
  BY <1>0, <1>1 DEF Nested, Top
<1>3. Live' = Live \ {name_tree.data}
  BY <1>0 DEF Without, Live
<1>4. UNCHANGED fields /\ Owned => Owned'
  BY <1>3, OwnedShrinks
<1>i. Idle.api = "none"
  BY DEF Idle
<1>5. CASE op = FirstWalk(call.api) /\ UNCHANGED <<msg, made, fields>> /\ call' \in {Idle, call}
  <2>1. op \notin {"create", "destroy"}
    BY <1>5, FirstWalkApi
  <2>2. CASE msg \in {"raw", "static"}
    <3>1. Live \subseteq {name_tree.data}
      BY <1>0, <2>1, <2>2 DEF TreeInv
    <3>2. Live' = {}
      BY <1>3, <3>1
    <3> QED BY <1>0, <1>5, <2>2, <3>2 DEF TreeInv
  <2>3. CASE msg \in {"made", "failed"}
    <3>1. /\ Owned /\ (call.api = "destroy" => call.root = made.root /\ call.conf = made.conf)
          /\ \E T : Kept(T, made, msg, fields)
      BY <1>0, <2>1, <2>3 DEF TreeInv
    <3>2. call'.api = "destroy" => call'.root = made.root /\ call'.conf = made.conf
      BY <1>5, <1>i, <3>1
    <3> QED BY <1>0, <1>4, <1>5, <2>3, <3>1, <3>2 DEF TreeInv
  <2> QED BY <2>2, <2>3 DEF TypeInv, CallOK
<1>6. CASE /\ op = "create" /\ call' = Idle /\ made' = call /\ UNCHANGED fields
           /\ rv' = IF Top.used = calculated THEN 1 ELSE 0
           /\ msg' = IF rv' = 1 THEN "made" ELSE "failed"
  <2>1. PICK T : Making(T, call, stack, fields)
    BY <1>0, <1>6 DEF TreeInv
  <2>2. Owned
    BY <1>0, <1>6 DEF TreeInv
  <2>3. call.api = "create"
    BY <1>1, <1>6, FirstWalkApi
  <2>4. msg' = "made" => ~Short(call.conf, stack)
    <3>1. calculated = Bytes(call.conf, << >>, call.root, 1)
      BY <1>6, <2>3 DEF BalInv
    <3>2. Short(call.conf, stack) => Top.used # Bytes(call.conf, << >>, call.root, 1)
      BY <1>0, <1>6, LastBalance
    <3>3. msg' = "made" => Top.used = calculated
      BY <1>6
    <3> QED BY <3>1, <3>2, <3>3
  <2>5. Kept(T, call, msg', fields)
    BY <1>0, <1>2, <2>1, <2>4, KeptStart
  <2>6. Owned'
    BY <1>4, <1>6, <2>2
  <2>7. msg' \in {"made", "failed"}
    BY <1>6
  <2>8. Kept(T, made', msg', fields')
    BY <1>6, <2>5
  <2> QED BY <1>0, <1>6, <1>i, <2>6, <2>7, <2>8 DEF TreeInv
<1>7. CASE op = "create_static" /\ msg' \in {"static", "raw"}
  <2>1. Live \subseteq {name_tree.data}
    BY <1>0, <1>7 DEF OwnInv, TreeInv
  <2>2. Live' = {}
    BY <1>3, <2>1
  <2> QED BY <1>0, <1>7, <2>2 DEF TreeInv
<1>8. CASE op = "destroy" /\ msg' = "raw"
  <2>1. msg \in {"made", "failed"}
    BY <1>8 DEF OwnInv
  <2>2. PICK T : Undoing(T, call, msg, stack, fields)
    BY <1>0, <1>8, <2>1 DEF TreeInv
  <2>3. Tree(T, call.root, call.conf, "destroy", stack, fields) /\ <<Message>> \notin DOMAIN T
    BY <1>0, <1>2, <2>2 DEF Undoing
  <2>4. DOMAIN fields = {}
    BY <2>3, Emptied
  <2>5. Live \subseteq {name_tree.data}
    BY <1>0, <2>1, <2>4 DEF TreeInv, Owned
  <2>6. Live' = {}
    BY <1>3, <2>5
  <2> QED BY <1>0, <1>8, <2>6 DEF TreeInv
<1>9. \/ op = FirstWalk(call.api) /\ UNCHANGED <<msg, made, fields>> /\ call' \in {Idle, call}
      \/ /\ op = "create" /\ call' = Idle /\ made' = call /\ UNCHANGED fields
         /\ rv' = IF Top.used = calculated THEN 1 ELSE 0
         /\ msg' = IF rv' = 1 THEN "made" ELSE "failed"
      \/ op = "create_static" /\ msg' \in {"static", "raw"}
      \/ op = "destroy" /\ msg' = "raw"
  BY <1>0 DEF EndWalk, Fault
<1> QED BY <1>5, <1>6, <1>7, <1>8, <1>9

LEMMA TreeStep ==
    ASSUME Measured, ~Moves, TypeInv, NameInv, OwnInv, NestInv, SafeInv, BalInv, TreeInv,
           [Next]_vars
    PROVE  TreeInv'
<1>1. CASE UNCHANGED vars
  BY <1>1 DEF vars, walkVars, callVars, TreeInv, Owned, Live
<1> QED BY <1>1, CallTree, EndWalkTree, SecondWalkTree, WalkTree DEF Next

LEMMA TreeInvariance == ~Moves /\ Measured => (Spec => []TreeInv)
<1> SUFFICES ASSUME ~Moves, Measured PROVE Spec => []TreeInv
  OBVIOUS
<1>1. Init => TreeInv
  BY DEF Init, TreeInv, Live, NoString
<1>2. TypeInv /\ NameInv /\ OwnInv /\ NestInv /\ SafeInv /\ BalInv /\ TreeInv /\ [Next]_vars
      => TreeInv'
  BY TreeStep
<1> QED BY <1>1, <1>2, TypeInvariance, NameInvariance, OwnInvariance, NestInvariance,
           SafeInvariance, BalInvariance, PTL DEF Spec
-----------------------------------------------------------------------------
\* When destroy, or create, accesses a structure, it is there.
LEMMA SafeAccess ==
    ASSUME ~Moves, TypeInv, OwnInv, NestInv, SafeInv, TreeInv, [Next]_vars, fault' = "memory",
           fault = "none", msg # "failed"
    PROVE  FALSE
<1>1. Descend \/ Release
  <2>1. fault' # fault
    OBVIOUS
  <2> QED BY <2>1 DEF Next, Sizes, Create, CreateStatic, Destroy, Call, Walk, EndWalk, SecondWalk,
             PushName, Plain, Allocate, Preallocate, Count, PopName, Return, Fault, vars, walkVars
<1>0. /\ stack # << >> /\ StackOK(stack) /\ Top \in Frames /\ Nested(stack, call.conf)
      /\ Len(stack) \in Nat \ {0} /\ stack[Len(stack)] = Top /\ call \in Calls
  BY <1>1, StepFinds
<1>2. \/ /\ ~Valid(Top.loc) /\ op \notin {"dynamic_size", "static_size"}
      \/ /\ op = "destroy" /\ ~(Valid(<<FieldAt(Field).data>>) \/ FieldAt(Field).data = Null)
  BY <1>1 DEF Descend, Release, Fault
<1>3. op \in {"create", "create_static", "destroy"} /\ Top.at = "inner"
  <2>1. op \in {"dynamic_size", "static_size", "create", "create_static", "destroy"}
    BY <1>0 DEF NestInv, FirstWalk, Calls, Apis
  <2> QED BY <1>1, <1>2, <2>1 DEF Descend, Release, Walking
<1>n. Len(stack) \in 1..Len(stack)
  BY <1>0
<1>4. CASE op \in {"create", "create_static"}
  <2>1. Lawful(Live, fields, Top)
    BY <1>0, <1>4, <1>n DEF SafeInv
  <2>2. Valid(Top.loc)
    BY <2>1 DEF Lawful, Valid
  <2> QED BY <1>2, <1>4, <2>2
<1>5. CASE op = "destroy"
  <2>1. msg = "made"
    BY <1>5 DEF OwnInv
  <2>2. PICK T : Undoing(T, call, msg, stack, fields)
    BY <1>5, <2>1 DEF TreeInv
  <2>h. /\ \A x \in DOMAIN fields : fields[x].data[1] = "heap" /\ fields[x].data[2] \in Live
        /\ Null[1] # "heap" /\ Message[1] # "heap" /\ Message # Null
    BY <2>1 DEF OwnInv, Null, Message
  <2>3. Firm(T, call.conf, stack, Len(stack))
    BY <1>0, <1>3, <1>n, <2>1, <2>2 DEF Undoing
  <2>4. PICK h \in 1..Len(stack) : /\ stack[h].loc \in DOMAIN T
                                   /\ Head(stack[h].loc) = Head(Top.loc)
    BY <1>0, <2>3 DEF Firm
  <2>5. Head(Top.loc) = Message \/ \E x \in DOMAIN fields : fields[x].data = Head(Top.loc)
    BY <2>2, <2>4 DEF Undoing, Tree, Headed
  <2>6. Valid(Top.loc)
    BY <2>5, <2>h DEF Valid
  <2>7. Valid(<<FieldAt(Field).data>>) \/ FieldAt(Field).data = Null
    <3>1. CASE Field \in DOMAIN fields
      <4>1. FieldAt(Field).data = fields[Field].data
        BY <3>1 DEF FieldAt
      <4>2. Head(<<FieldAt(Field).data>>) = fields[Field].data
        BY <4>1
      <4>3. fields[Field].data # Null
        BY <2>h, <3>1
      <4> QED BY <2>h, <3>1, <4>2, <4>3 DEF Valid
    <3>2. CASE Field \notin DOMAIN fields
      BY <3>2 DEF FieldAt, Cleared
    <3> QED BY <3>1, <3>2
  <2> QED BY <1>2, <2>6, <2>7
<1> QED BY <1>3, <1>4, <1>5

\* Where reallocate does not move and no type contains itself, a message that was made
\* is destroyed without touching memory it does not have: only a creation that failed
\* leaves one for which destroy follows a null pointer.
THEOREM MadeStaysSafe == ~Moves /\ Acyclic => (Spec => []MadeIsSafe)
<1> SUFFICES ASSUME ~Moves, Acyclic PROVE Spec => []MadeIsSafe
  OBVIOUS
<1>m. Measured
  BY AcyclicMeasured
<1>1. Init => MadeIsSafe
  BY DEF Init, MadeIsSafe
<1>2. TypeInv /\ OwnInv /\ NestInv /\ SafeInv /\ TreeInv /\ MadeIsSafe /\ [Next]_vars => MadeIsSafe'
  <2> SUFFICES ASSUME TypeInv, OwnInv, NestInv, SafeInv, TreeInv, MadeIsSafe, [Next]_vars,
                      fault' = "memory"
               PROVE  msg' = "failed"
    BY DEF MadeIsSafe
  <2>1. CASE fault = "none"
    <3>1. msg = "failed"
      BY <2>1, SafeAccess
    <3>2. UNCHANGED msg
      <4>1. fault' # fault
        BY <2>1
      <4> QED BY <4>1 DEF Next, Sizes, Create, CreateStatic, Destroy, Call, EndWalk, SecondWalk,
                 PushName, Plain, Allocate, Preallocate, Count, Descend, Release, PopName, Return,
                 Fault, vars, walkVars, callVars
    <3> QED BY <3>1, <3>2
  <2>2. CASE fault # "none"
    <3>1. UNCHANGED vars
      BY <2>2 DEF Next, Sizes, Create, CreateStatic, Destroy, Call, EndWalk, SecondWalk, PushName,
                  Plain, Allocate, Preallocate, Count, Descend, Release, PopName, Return, Walking
    <3> QED BY <3>1 DEF vars, walkVars, callVars, MadeIsSafe
  <2> QED BY <2>1, <2>2
<1> QED BY <1>1, <1>2, <1>m, TypeInvariance, OwnInvariance, NestInvariance, SafeInvariance,
           TreeInvariance, PTL DEF Spec

\* Under the same conditions destroy releases every block that a create has taken,
\* whether the create has succeeded or given up somewhere, and no library function
\* leaves the block of a name behind: between two calls a message that is not made, and
\* not left by a failed create, has no block.
THEOREM DestroyReleasesAll == ~Moves /\ Acyclic => (Spec => []DestroyReleases)
<1> SUFFICES ASSUME ~Moves, Acyclic PROVE Spec => []DestroyReleases
  OBVIOUS
<1>m. Measured
  BY AcyclicMeasured
<1>1. TypeInv /\ NestInv /\ TreeInv => DestroyReleases
  <2> SUFFICES ASSUME TypeInv, NestInv, TreeInv, call = Idle, fault = "none",
                      msg \in {"raw", "static"}
               PROVE  Live = {}
    BY DEF DestroyReleases
  <2>1. stack = << >>
    BY DEF TypeInv, CallOK
  <2> QED BY <2>1, BetweenWalks
<1> QED BY <1>1, <1>m, TypeInvariance, NestInvariance, TreeInvariance, PTL
-----------------------------------------------------------------------------
\* What a set of blocks weighs: the library's sum, taken in any order.

\* The bytes of the blocks in S of a heap h.
Weight(h, S) == MapThenSumSet(LAMBDA b : h[b].size, S)

Chosen(s) == CHOOSE x \in s : TRUE
Weighs(h, S, g) ==
    g = [s \in SUBSET S |-> IF s = {} THEN 0 ELSE h[Chosen(s)].size + g[s \ {Chosen(s)}]]

\* Blocks of known size.
Weighable(h, S) == IsFiniteSet(S) /\ \A b \in S : h[b].size \in Nat

LEMMA WeightOf ==
    ASSUME NEW h, NEW S
    PROVE  Weight(h, S) = (CHOOSE g : Weighs(h, S, g))[S]
BY DEF Weight, MapThenSumSet, MapThenFoldSet, Weighs, Chosen

LEMMA Smaller ==
    ASSUME NEW S, IsFiniteSet(S), NEW s \in SUBSET S, NEW b \in s
    PROVE  /\ s \ {b} \in SUBSET S /\ Cardinality(s) \in Nat /\ Cardinality(s \ {b}) \in Nat
           /\ Cardinality(s \ {b}) < Cardinality(s)
<1>1. IsFiniteSet(s) /\ IsFiniteSet(s \ {b})
  BY FS_Subset, FS_RemoveElement
<1>2. Cardinality(s) \in Nat /\ Cardinality(s \ {b}) \in Nat
  BY <1>1, FS_CardinalityType
<1>3. Cardinality(s \ {b}) = Cardinality(s) - 1
  BY <1>1, FS_RemoveElement
<1> QED BY <1>2, <1>3

LEMMA ChosenIn == ASSUME NEW s, s # {} PROVE Chosen(s) \in s
BY DEF Chosen

LEMMA WeighsExists ==
    ASSUME NEW h, NEW S, Weighable(h, S)
    PROVE  \E g \in [SUBSET S -> Nat] : Weighs(h, S, g)
<1> DEFINE D == SUBSET S
           rank == [s \in D |-> Cardinality(s)]
           phi == [g \in [D -> Nat] |->
                     [s \in D |-> IF s = {} THEN 0 ELSE h[Chosen(s)].size + g[s \ {Chosen(s)}]]]
<1>0. IsFiniteSet(S) /\ \A b \in S : h[b].size \in Nat
  BY DEF Weighable
<1>1. rank \in [D -> Nat]
  <2>1. ASSUME NEW s \in D PROVE Cardinality(s) \in Nat
    BY <1>0, FS_Subset, FS_CardinalityType
  <2> QED BY <2>1
<1>2. ASSUME NEW s \in D, s # {}
      PROVE  /\ Chosen(s) \in s /\ h[Chosen(s)].size \in Nat
             /\ s \ {Chosen(s)} \in D /\ rank[s \ {Chosen(s)}] < rank[s]
  <2>1. Chosen(s) \in s
    BY <1>2, ChosenIn
  <2>2. Chosen(s) \in S
    BY <2>1
  <2>3. s \ {Chosen(s)} \in D /\ Cardinality(s \ {Chosen(s)}) < Cardinality(s)
    BY <1>0, <2>1, Smaller
  <2> QED BY <1>0, <2>1, <2>2, <2>3
<1>3. ASSUME NEW g \in [D -> Nat]
      PROVE  [s \in D |-> IF s = {} THEN 0 ELSE h[Chosen(s)].size + g[s \ {Chosen(s)}]] \in [D -> Nat]
  <2>1. ASSUME NEW s \in D, s # {} PROVE h[Chosen(s)].size + g[s \ {Chosen(s)}] \in Nat
    <3>1. h[Chosen(s)].size \in Nat /\ s \ {Chosen(s)} \in D
      BY <1>2, <2>1
    <3>2. g[s \ {Chosen(s)}] \in Nat
      BY <3>1
    <3> QED BY <3>1, <3>2
  <2> QED BY <2>1
<1>4. phi \in [[D -> Nat] -> [D -> Nat]]
  BY <1>3
<1>5. ASSUME NEW f \in [D -> Nat], NEW g \in [D -> Nat], NEW s \in D,
             \A y \in D : rank[y] < rank[s] => f[y] = g[y]
      PROVE  phi[f][s] = phi[g][s]
  <2>1. CASE s = {}
    BY <2>1
  <2>2. CASE s # {}
    <3>1. f[s \ {Chosen(s)}] = g[s \ {Chosen(s)}]
      BY <1>2, <1>5, <2>2
    <3> QED BY <2>2, <3>1
  <2> QED BY <2>1, <2>2
<1>6. Contracts(D, Nat, rank, phi)
  <2> HIDE DEF D, rank, phi
  <2> QED BY <1>1, <1>4, <1>5 DEF Contracts
<1>7. PICK g \in [D -> Nat] : phi[g] = g
  <2> HIDE DEF D, rank, phi
  <2> QED BY <1>6, Fixpoint
<1> QED BY <1>7 DEF Weighs

\* The sum does not depend on the set it is taken in.
LEMMA WeighsAgree ==
    ASSUME NEW h, NEW S, NEW g, Weighable(h, S), Weighs(h, S, g),
           NEW k, NEW T, NEW f, S \subseteq T, Weighs(k, T, f),
           \A b \in S : k[b].size = h[b].size
    PROVE  \A s \in SUBSET S : g[s] = f[s]
<1> DEFINE D == SUBSET S
           rank == [s \in D |-> Cardinality(s)]
<1>0. IsFiniteSet(S)
  BY DEF Weighable
<1>1. rank \in [D -> Nat]
  <2>1. ASSUME NEW s \in D PROVE Cardinality(s) \in Nat
    BY <1>0, FS_Subset, FS_CardinalityType
  <2> QED BY <2>1
<1>2. ASSUME NEW s \in D, \A y \in D : rank[y] < rank[s] => g[y] = f[y]
      PROVE  g[s] = f[s]
  <2>0. s \in SUBSET S /\ s \in SUBSET T
    OBVIOUS
  <2>1. /\ g[s] = IF s = {} THEN 0 ELSE h[Chosen(s)].size + g[s \ {Chosen(s)}]
        /\ f[s] = IF s = {} THEN 0 ELSE k[Chosen(s)].size + f[s \ {Chosen(s)}]
    BY <2>0 DEF Weighs
  <2>2. CASE s # {}
    <3>1. Chosen(s) \in s /\ Chosen(s) \in S
      BY <2>2, ChosenIn
    <3>2. s \ {Chosen(s)} \in D /\ Cardinality(s \ {Chosen(s)}) < Cardinality(s)
      BY <1>0, <3>1, Smaller
    <3>3. g[s \ {Chosen(s)}] = f[s \ {Chosen(s)}]
      BY <1>2, <3>2
    <3> QED BY <2>1, <2>2, <3>1, <3>3
  <2> QED BY <2>1, <2>2
<1> HIDE DEF D, rank
<1>3. \A s \in D : g[s] = f[s]
  BY <1>1, <1>2, Agree
<1> QED BY <1>3 DEF D

\* Any element may be taken out first.
LEMMA WeighsRemove ==
    ASSUME NEW h, NEW S, Weighable(h, S), NEW g \in [SUBSET S -> Nat], Weighs(h, S, g),
           NEW s \in SUBSET S, NEW b \in s
    PROVE  g[s] = h[b].size + g[s \ {b}]
<1> DEFINE Off(t) == \E x \in t : g[t] # h[x].size + g[t \ {x}]
           B == {Cardinality(t) : t \in {u \in SUBSET S : Off(u)}}
<1>0. IsFiniteSet(S) /\ \A x \in S : h[x].size \in Nat
  BY DEF Weighable
<1>1. SUFFICES ASSUME Off(s) PROVE FALSE
  OBVIOUS
<1>2. B \subseteq Nat /\ B # {}
  <2>1. \A t \in SUBSET S : Cardinality(t) \in Nat
    BY <1>0, FS_Subset, FS_CardinalityType
  <2> HIDE DEF Off
  <2> QED BY <1>1, <2>1
<1>3. PICK c \in B : \A d \in B : c <= d
  BY <1>2, LeastExists
<1>4. PICK t \in SUBSET S : Off(t) /\ c = Cardinality(t)
  OBVIOUS
<1>5. ASSUME NEW u \in SUBSET S, Cardinality(u) < Cardinality(t), Cardinality(u) \in Nat,
             Cardinality(t) \in Nat
      PROVE  ~Off(u)
  <2>1. Off(u) => Cardinality(u) \in B
    OBVIOUS
  <2> HIDE DEF Off, B
  <2> QED BY <1>3, <1>4, <1>5, <2>1
<1>6. PICK x \in t : g[t] # h[x].size + g[t \ {x}]
  BY <1>4
<1> DEFINE y == Chosen(t)
<1>7. y \in t
  BY <1>6, ChosenIn
<1>8. g[t] = h[y].size + g[t \ {y}]
  BY <1>6 DEF Weighs
<1> HIDE DEF y
<1>9. x # y
  BY <1>6, <1>8
<1>10. /\ t \ {x} \in SUBSET S /\ Cardinality(t \ {x}) < Cardinality(t)
       /\ Cardinality(t \ {x}) \in Nat /\ Cardinality(t) \in Nat
       /\ t \ {y} \in SUBSET S /\ Cardinality(t \ {y}) < Cardinality(t)
       /\ Cardinality(t \ {y}) \in Nat
  BY <1>0, <1>4, <1>6, <1>7, Smaller
<1>11. ~Off(t \ {x}) /\ ~Off(t \ {y})
  <2> HIDE DEF Off, B
  <2> QED BY <1>5, <1>10
<1> DEFINE r == (t \ {x}) \ {y}
<1>12. g[t \ {x}] = h[y].size + g[r]
  BY <1>7, <1>9, <1>11
<1>13. g[t \ {y}] = h[x].size + g[r]
  <2>1. r = (t \ {y}) \ {x}
    OBVIOUS
  <2>2. x \in t \ {y}
    BY <1>9
  <2>3. g[t \ {y}] = h[x].size + g[(t \ {y}) \ {x}]
    BY <1>11, <2>2
  <2> QED BY <2>1, <2>3
<1>14. h[x].size \in Nat /\ h[y].size \in Nat
  BY <1>0, <1>4, <1>7
<1>15. g[r] \in Nat
  BY <1>4
<1> HIDE DEF r
<1> QED BY <1>6, <1>8, <1>12, <1>13, <1>14, <1>15

\* The library's sum over a finite set is a number.
LEMMA WeightIs ==
    ASSUME NEW h, NEW S, Weighable(h, S)
    PROVE  \E g \in [SUBSET S -> Nat] : Weighs(h, S, g) /\ Weight(h, S) = g[S]
<1> DEFINE f == CHOOSE g : Weighs(h, S, g)
<1>1. PICK g \in [SUBSET S -> Nat] : Weighs(h, S, g)
  BY WeighsExists
<1>2. Weighs(h, S, f)
  BY <1>1
<1>3. Weight(h, S) = f[S]
  BY WeightOf
<1> HIDE DEF f
<1>4. \A s \in SUBSET S : g[s] = f[s]
  BY <1>1, <1>2, WeighsAgree
<1>5. S \in SUBSET S
  OBVIOUS
<1> QED BY <1>1, <1>3, <1>4, <1>5

LEMMA WeightNat ==
    ASSUME NEW h, NEW S, Weighable(h, S)
    PROVE  Weight(h, S) \in Nat
<1>1. PICK g \in [SUBSET S -> Nat] : Weight(h, S) = g[S]
  BY WeightIs
<1>2. S \in SUBSET S
  OBVIOUS
<1> QED BY <1>1, <1>2

LEMMA WeightNone ==
    ASSUME NEW h
    PROVE  Weight(h, {}) = 0
<1>1. Weighable(h, {})
  BY FS_EmptySet DEF Weighable
<1>2. PICK g \in [SUBSET {} -> Nat] : Weighs(h, {}, g) /\ Weight(h, {}) = g[{}]
  BY <1>1, WeightIs
<1>3. {} \in SUBSET {}
  OBVIOUS
<1> QED BY <1>2, <1>3 DEF Weighs

\* Two heaps with the same blocks weigh the same.
LEMMA WeightSame ==
    ASSUME NEW h, NEW k, NEW S, Weighable(h, S), \A b \in S : k[b].size = h[b].size
    PROVE  Weight(k, S) = Weight(h, S)
<1>0. Weighable(k, S)
  BY DEF Weighable
<1>1. PICK g \in [SUBSET S -> Nat] : Weighs(h, S, g) /\ Weight(h, S) = g[S]
  BY WeightIs
<1>2. PICK f \in [SUBSET S -> Nat] : Weighs(k, S, f) /\ Weight(k, S) = f[S]
  BY <1>0, WeightIs
<1>3. S \in SUBSET S /\ S \subseteq S
  OBVIOUS
<1>4. \A s \in SUBSET S : g[s] = f[s]
  BY <1>1, <1>2, <1>3, WeighsAgree
<1> QED BY <1>1, <1>2, <1>3, <1>4

LEMMA WeightAdds ==
    ASSUME NEW h, NEW S, Weighable(h, S), NEW b \in S
    PROVE  Weight(h, S) = h[b].size + Weight(h, S \ {b})
<1> DEFINE R == S \ {b}
<1>0. Weighable(h, R) /\ S \in SUBSET S /\ R \in SUBSET R /\ R \subseteq S
  BY FS_RemoveElement DEF Weighable
<1>1. PICK g \in [SUBSET S -> Nat] : Weighs(h, S, g) /\ Weight(h, S) = g[S]
  BY WeightIs
<1> HIDE DEF R
<1>2. PICK f \in [SUBSET R -> Nat] : Weighs(h, R, f) /\ Weight(h, R) = f[R]
  BY <1>0, WeightIs
<1>3. \A s \in SUBSET R : f[s] = g[s]
  BY <1>0, <1>1, <1>2, WeighsAgree
<1>4. g[S] = h[b].size + g[S \ {b}]
  <2>1. g \in [SUBSET S -> Nat] /\ Weighs(h, S, g) /\ Weighable(h, S) /\ b \in S
    BY <1>1
  <2> HIDE <1>0, <1>1
  <2> QED BY ONLY <1>0, <2>1, WeighsRemove
<1> QED BY <1>0, <1>1, <1>2, <1>3, <1>4 DEF R
-----------------------------------------------------------------------------
\* The bytes that create has taken are the bytes that its frames have counted.

\* What the message holds: every block but the name's.
Contents == Weight(heap, Live \ {name_tree.data})

\* The frames have counted w bytes between them.
AddsUp(s, w) ==
    \E e \in [1..Len(s) -> Nat] :
        /\ e[1] = s[1].used /\ e[Len(s)] = w
        /\ \A j \in 1..(Len(s) - 1) : e[j + 1] = e[j] + s[j + 1].used

LEMMA FrameUses ==
    ASSUME StackOK(stack)
    PROVE  \A j \in 1..Len(stack) : stack[j] \in Frames /\ stack[j].used \in Nat
<1> SUFFICES ASSUME NEW j \in 1..Len(stack) PROVE stack[j] \in Frames /\ stack[j].used \in Nat
  OBVIOUS
<1>1. stack[j] \in Frames
  BY ElementOfSeq DEF StackOK
<1> QED BY <1>1 DEF Frames

LEMMA MoreUsed == \A a, b, u \in Nat : (a + b) + u = a + (b + u)
OBVIOUS

LEMMA AddsSetTop ==
    ASSUME StackOK(stack), stack # << >>, NEW f \in Frames, NEW w \in Nat, NEW u \in Nat,
           f.used = Top.used + u, AddsUp(stack, w)
    PROVE  AddsUp(SetTop(f), w + u)
<1> DEFINE s == SetTop(f)
           n == Len(stack)
<1>1. /\ n \in Nat \ {0} /\ Len(s) = n /\ s[n] = f /\ stack[n] = Top
      /\ \A j \in 1..(n - 1) : s[j] = stack[j]
  BY TopFrame, SetTopFrames DEF StackOK, Top
<1>2. \A j \in 1..n : stack[j].used \in Nat
  BY FrameUses
<1>3. PICK e \in [1..n -> Nat] :
        /\ e[1] = stack[1].used /\ e[n] = w
        /\ \A j \in 1..(n - 1) : e[j + 1] = e[j] + stack[j + 1].used
  BY DEF AddsUp
<1> DEFINE d == [j \in 1..n |-> IF j = n THEN w + u ELSE e[j]]
<1> HIDE DEF s, n
<1>4. d \in [1..n -> Nat] /\ d[n] = w + u
  BY <1>1
<1>5. d[1] = s[1].used
  <2>1. CASE n = 1
    BY <1>1, <1>3, <2>1
  <2>2. CASE n # 1
    <3>1. 1 \in 1..(n - 1) /\ 1 \in 1..n
      BY <1>1, <2>2
    <3> QED BY <1>1, <1>3, <2>2, <3>1
  <2> QED BY <2>1, <2>2
<1>6. ASSUME NEW j \in 1..(n - 1) PROVE d[j + 1] = d[j] + s[j + 1].used
  <2>0. j \in 1..n /\ j + 1 \in 1..n /\ j # n
    BY <1>1
  <2>1. e[j + 1] = e[j] + stack[j + 1].used /\ e[j] \in Nat /\ stack[j + 1].used \in Nat
    BY <1>2, <1>3, <2>0
  <2>2. d[j] = e[j]
    BY <2>0
  <2>3. CASE j + 1 = n
    <3>1. d[j + 1] = w + u /\ s[j + 1].used = stack[j + 1].used + u /\ e[j + 1] = w
      BY <1>1, <1>3, <1>4, <2>3
    <3> HIDE DEF d
    <3>2. (e[j] + stack[j + 1].used) + u = e[j] + (stack[j + 1].used + u)
      BY <2>1, MoreUsed
    <3> QED BY <2>1, <2>2, <3>1, <3>2
  <2>4. CASE j + 1 # n
    <3>1. j + 1 \in 1..(n - 1)
      BY <1>1, <2>4
    <3>2. s[j + 1] = stack[j + 1] /\ d[j + 1] = e[j + 1]
      BY <1>1, <2>0, <2>4, <3>1
    <3> QED BY <2>1, <2>2, <3>2
  <2> QED BY <2>3, <2>4
<1> HIDE DEF d
<1>7. AddsUp(s, w + u)
  BY <1>1, <1>4, <1>5, <1>6 DEF AddsUp
<1> QED BY <1>7 DEF s

LEMMA AddsAppend ==
    ASSUME NEW t \in Seq(Frames), t # << >>, NEW g \in Frames, g.used = 0, NEW w \in Nat,
           AddsUp(t, w)
    PROVE  AddsUp(Append(t, g), w)
<1> DEFINE s == Append(t, g)
           n == Len(t)
<1>1. n \in Nat \ {0} /\ Len(s) = n + 1 /\ s[n + 1] = g /\ \A j \in 1..n : s[j] = t[j]
  BY EmptySeq, PushFrames
<1>3. PICK e \in [1..n -> Nat] :
        /\ e[1] = t[1].used /\ e[n] = w
        /\ \A j \in 1..(n - 1) : e[j + 1] = e[j] + t[j + 1].used
  BY DEF AddsUp
<1> DEFINE d == [j \in 1..(n + 1) |-> IF j = n + 1 THEN w ELSE e[j]]
<1> HIDE DEF s, n
<1>4. d \in [1..(n + 1) -> Nat] /\ d[n + 1] = w
  BY <1>1
<1>5. d[1] = s[1].used
  <2>1. 1 \in 1..n /\ 1 \in 1..(n + 1) /\ 1 # n + 1
    BY <1>1
  <2> QED BY <1>1, <1>3, <2>1
<1>6. ASSUME NEW j \in 1..n PROVE d[j + 1] = d[j] + s[j + 1].used
  <2>0. j \in 1..(n + 1) /\ j + 1 \in 1..(n + 1) /\ j # n + 1
    BY <1>1
  <2>2. d[j] = e[j] /\ e[j] \in Nat
    BY <2>0
  <2>3. CASE j = n
    <3>1. d[j + 1] = w /\ s[j + 1].used = 0 /\ e[j] = w
      BY <1>1, <1>3, <1>4, <2>3
    <3> QED BY <2>2, <3>1
  <2>4. CASE j # n
    <3>1. j \in 1..(n - 1) /\ j + 1 \in 1..n /\ j + 1 # n + 1
      BY <1>1, <2>4
    <3>2. s[j + 1] = t[j + 1] /\ d[j + 1] = e[j + 1]
      BY <1>1, <2>0, <3>1
    <3> QED BY <1>3, <2>2, <3>1, <3>2
  <2> QED BY <2>3, <2>4
<1>7. Len(s) - 1 = n /\ Len(s) = n + 1
  BY <1>1
<1> HIDE DEF d
<1>8. /\ d \in [1..Len(s) -> Nat] /\ d[1] = s[1].used /\ d[Len(s)] = w
      /\ \A j \in 1..(Len(s) - 1) : d[j + 1] = d[j] + s[j + 1].used
  BY <1>4, <1>5, <1>6, <1>7
<1>9. AddsUp(s, w)
  BY <1>8 DEF AddsUp
<1> QED BY <1>9 DEF s

LEMMA AddsPop ==
    ASSUME StackOK(stack), stack # << >>, NEW w \in Nat, AddsUp(stack, w)
    PROVE  AddsUp(Pop(Top.used), w)
<1> DEFINE u == Top.used
           s == Pop(u)
           n == Len(stack)
<1>1. /\ n \in Nat \ {0} /\ n \in 1..n /\ stack[n] = Top /\ Top \in Frames
      /\ u \in Nat /\ \A j \in 1..n : stack[j] \in Frames /\ stack[j].used \in Nat
  <2>1. n \in Nat \ {0} /\ stack[n] = Top /\ \A j \in 1..n : stack[j] \in Frames /\ stack[j].used \in Nat
    BY TopFrame, FrameUses DEF Top
  <2> HIDE DEF n
  <2>2. n \in 1..n
    BY <2>1
  <2> QED BY <2>1, <2>2
<1>3. PICK e \in [1..n -> Nat] :
        /\ e[1] = stack[1].used /\ e[n] = w
        /\ \A j \in 1..(n - 1) : e[j + 1] = e[j] + stack[j + 1].used
  BY DEF AddsUp
<1>4. CASE n = 1
  <2>1. Len(s) = 1 /\ s[1] = [Top EXCEPT !.at = "done", !.used = u]
    BY <1>1, <1>4, PopFrames DEF StackOK
  <2>2. s[1].used = u
    BY <1>1, <2>1 DEF Frames
  <2> HIDE DEF s
  <2>3. 1..(Len(s) - 1) = {} /\ e \in [1..Len(s) -> Nat]
    BY <1>4, <2>1
  <2>4. AddsUp(s, w)
    BY <1>1, <1>3, <1>4, <2>1, <2>2, <2>3 DEF AddsUp
  <2> QED BY <2>4 DEF s
<1>5. CASE n # 1
  <2> DEFINE b == n - 1
             d == [j \in 1..b |-> IF j = b THEN w ELSE e[j]]
  <2>0. b \in Nat \ {0} /\ b \in 1..n /\ b + 1 = n /\ n - 2 = b - 1 /\ b \in 1..b
    <3>1. b \in Nat \ {0} /\ b \in 1..n
      BY <1>1, <1>5, Before
    <3>2. b + 1 = n /\ n - 2 = b - 1
      BY <1>1
    <3> HIDE DEF b
    <3> QED BY <3>1, <3>2
  <2>1. /\ Len(s) = b /\ \A j \in 1..(b - 1) : s[j] = stack[j]
        /\ s[b] = [stack[b] EXCEPT !.used = @ + u]
    BY <1>1, <1>5, <2>0, PopFrames DEF StackOK
  <2>2. s[b].used = stack[b].used + u
    BY <1>1, <2>0, <2>1 DEF Frames
  <2> HIDE DEF s, b, n
  <2>3. w = e[b] + u
    <3>1. b \in 1..(n - 1)
      BY <2>0
    <3> QED BY <1>1, <1>3, <2>0, <3>1
  <2>4. d \in [1..b -> Nat] /\ d[b] = w
    <3>1. \A j \in 1..b : j \in 1..n
      BY <1>1, <2>0
    <3> QED BY <2>0, <3>1
  <2>5. d[1] = s[1].used
    <3>1. CASE b = 1
      BY <1>1, <1>3, <2>0, <2>2, <2>3, <2>4, <3>1
    <3>2. CASE b # 1
      <4>1. 1 \in 1..(b - 1) /\ 1 \in 1..b
        BY <2>0, <3>2
      <4> QED BY <1>3, <2>1, <3>2, <4>1
    <3> QED BY <3>1, <3>2
  <2>6. ASSUME NEW j \in 1..(b - 1) PROVE d[j + 1] = d[j] + s[j + 1].used
    <3>0. j \in 1..b /\ j + 1 \in 1..b /\ j # b /\ j \in 1..(n - 1) /\ j \in 1..n /\ j + 1 \in 1..n
      BY <1>1, <2>0
    <3>1. e[j + 1] = e[j] + stack[j + 1].used /\ e[j] \in Nat /\ stack[j + 1].used \in Nat
      BY <1>1, <1>3, <3>0
    <3>2. d[j] = e[j]
      BY <3>0
    <3>3. CASE j + 1 = b
      <4>1. d[j + 1] = e[j + 1] + u /\ s[j + 1].used = stack[j + 1].used + u
        BY <2>2, <2>3, <2>4, <3>3
      <4> QED BY <1>1, <3>1, <3>2, <4>1
    <3>4. CASE j + 1 # b
      <4>1. j + 1 \in 1..(b - 1)
        BY <2>0, <3>4
      <4>2. s[j + 1] = stack[j + 1] /\ d[j + 1] = e[j + 1]
        BY <2>1, <3>0, <3>4, <4>1
      <4> QED BY <3>1, <3>2, <4>2
    <3> QED BY <3>3, <3>4
  <2> HIDE DEF d
  <2>7. AddsUp(s, w)
    BY <2>1, <2>4, <2>5, <2>6 DEF AddsUp
  <2> QED BY <2>7 DEF s
<1> QED BY <1>4, <1>5
-----------------------------------------------------------------------------
LEMMA BlocksWeighable ==
    ASSUME NEW h, NEW S, S \subseteq 1..NBlocks, \A b \in S : h[b].size \in Nat
    PROVE  Weighable(h, S)
<1>1. IsFiniteSet(1..NBlocks)
  BY MessageAssumption, FS_Interval DEF MessageAssumption
<1>2. IsFiniteSet(S)
  BY <1>1, FS_Subset
<1> QED BY <1>2 DEF Weighable

LEMMA ContentsWeighable ==
    ASSUME TypeInv
    PROVE  Weighable(heap, Live \ {name_tree.data}) /\ Contents \in Nat
<1>1. Live \subseteq 1..NBlocks /\ \A b \in Live : heap[b].size \in Nat
  BY DEF TypeInv, HeapOK
<1>2. Weighable(heap, Live \ {name_tree.data})
  BY <1>1, BlocksWeighable
<1> QED BY <1>2, WeightNat DEF Contents

LEMMA ContentsSame ==
    ASSUME TypeInv, Live' \ {name_tree'.data} = Live \ {name_tree.data},
           \A b \in Live \ {name_tree.data} : heap'[b].size = heap[b].size
    PROVE  Contents' = Contents
<1>1. Weighable(heap, Live \ {name_tree.data})
  BY ContentsWeighable
<1>2. Weight(heap', Live \ {name_tree.data}) = Weight(heap, Live \ {name_tree.data})
  BY <1>1, WeightSame
<1> QED BY <1>2 DEF Contents

\* In create the blocks are what the frames have counted, or something is missing; the
\* blocks of a message that was made are the size that was predicted.
WeightInv ==
    /\ op = "create" /\ stack # << >> =>
          Short(call.conf, stack) \/ AddsUp(stack, Contents)
    /\ msg = "made" /\ call.api # "destroy" => Contents = calculated
    /\ call = Idle => name_tree = NoString

LEMMA WeightSteady ==
    ASSUME WeightInv, UNCHANGED callVars, UNCHANGED stack, Contents' = Contents
    PROVE  WeightInv'
<1>1. /\ op' = op /\ call' = call /\ msg' = msg /\ calculated' = calculated
      /\ name_tree' = name_tree
  BY DEF callVars
<1> QED BY <1>1 DEF WeightInv

\* Only the name's block is written.
LEMMA NameOnly ==
    ASSUME ~Moves, TypeInv, NameInv, NestInv, PushName \/ PopName
    PROVE  Contents' = Contents
<1>0. stack # << >> /\ name_tree' = name_tree
  BY StepFinds
<1>1. Live' = Live
  BY NameInPlace
<1>2. ASSUME NEW x \in Live \ {name_tree.data} PROVE heap'[x].size = heap[x].size
  <2>1. Named => Top.name.data = name_tree.data
    BY <1>0, NameFinds
  <2>2. CASE PushName
    <3>1. \A b \in Grown(Top.name.data) : b = Top.name.data
      BY DEF Grown
    <3>2. \/ UNCHANGED heap
          \/ /\ Named
             /\ \E b \in Grown(Top.name.data) \cup {Top.name.data} :
                   \A y \in Live \ {Top.name.data} : y # b => heap'[y] = heap[y]
      BY <2>2 DEF PushName, Fault
    <3>3. CASE UNCHANGED heap
      BY <3>3
    <3>4. ASSUME Named,
                 NEW b \in Grown(Top.name.data) \cup {Top.name.data},
                 \A y \in Live \ {Top.name.data} : y # b => heap'[y] = heap[y]
          PROVE  heap'[x].size = heap[x].size
      <4>1. b = name_tree.data /\ Top.name.data = name_tree.data
        BY <2>1, <3>1, <3>4
      <4>2. heap'[x] = heap[x]
        BY <3>4, <4>1
      <4> QED BY <4>2
    <3> QED BY <3>2, <3>3, <3>4
  <2>3. CASE PopName
    <3>1. \/ UNCHANGED heap
          \/ Named /\ \E t : heap' = [heap EXCEPT ![Top.name.data].text = t]
      BY <2>3 DEF PopName
    <3>2. ASSUME Named, NEW t, heap' = [heap EXCEPT ![Top.name.data].text = t]
          PROVE  heap'[x].size = heap[x].size
      <4>1. x # Top.name.data /\ x \in DOMAIN heap
        BY <2>1, <3>2 DEF Live
      <4>2. heap'[x] = heap[x]
        BY <3>2, <4>1
      <4> QED BY <4>2
    <3> QED BY <3>1, <3>2
  <2> QED BY <2>2, <2>3
<1>3. Live' \ {name_tree'.data} = Live \ {name_tree.data}
  BY <1>0, <1>1
<1> QED BY <1>2, <1>3, ContentsSame

LEMMA HeapStays ==
    ASSUME TypeInv, UNCHANGED heap, UNCHANGED name_tree
    PROVE  Contents' = Contents
<1>1. Live' = Live
  BY DEF Live
<1>2. Live' \ {name_tree'.data} = Live \ {name_tree.data}
  BY <1>1
<1>3. \A b \in Live \ {name_tree.data} : heap'[b].size = heap[b].size
  OBVIOUS
<1> QED BY <1>2, <1>3, ContentsSame

\* A block is taken for the message.
LEMMA BlockTaken ==
    ASSUME TypeInv, OwnInv, Free # {}, NEW w \in Nat, heap' = With(FirstFree, w, << >>),
           UNCHANGED name_tree
    PROVE  Contents' = Contents + w
<1> DEFINE b == FirstFree
           S == Live \ {name_tree.data}
           P == Live' \ {name_tree.data}
<1>1. /\ Live' = Live \cup {b} /\ b \in 1..NBlocks /\ b \notin Live /\ b \in Nat
      /\ Live' \subseteq 1..NBlocks /\ \A x \in Live' : heap'[x].size \in Nat
  BY WithOK DEF TypeInv
<1>2. b # name_tree.data
  <2>1. name_tree.data \in Live \/ name_tree.data = 0
    BY DEF OwnInv
  <2>2. b # 0
    BY <1>1
  <2> QED BY <1>1, <2>1, <2>2
<1>3. heap'[b].size = w /\ \A x \in S : heap'[x].size = heap[x].size
  <2>1. heap'[b] = [size |-> w, text |-> << >>] /\ \A x \in S : heap'[x] = heap[x]
    BY <1>1 DEF With
  <2> QED BY <2>1
<1>4. Weighable(heap', P) /\ Weighable(heap, S) /\ Weight(heap, S) \in Nat
  <2>1. Weighable(heap', P)
    BY <1>1, BlocksWeighable
  <2>2. Weighable(heap, S) /\ Contents \in Nat
    BY ContentsWeighable
  <2> QED BY <2>1, <2>2 DEF Contents
<1>5. b \in P /\ P \ {b} = S
  BY <1>1, <1>2
<1>6. Contents' = Weight(heap', P) /\ Contents = Weight(heap, S)
  BY DEF Contents
<1> HIDE DEF b, S, P
<1>7. Weight(heap', P) = heap'[b].size + Weight(heap', P \ {b})
  BY <1>4, <1>5, WeightAdds
<1>8. Weight(heap', S) = Weight(heap, S)
  BY <1>3, <1>4, WeightSame
<1>9. Contents' = w + Contents /\ Contents \in Nat
  BY <1>3, <1>4, <1>5, <1>6, <1>7, <1>8
<1> QED BY <1>9

\* A walk begins: what the message holds is not touched.
LEMMA WalkBegins ==
    ASSUME TypeInv, NEW o, NEW root, NEW rules, Walk(o, root, rules), name_tree = NoString
    PROVE  Contents' = Contents
<1>0. 0 \notin Live /\ HeapOK
  BY DEF TypeInv, HeapOK
<1>1. CASE UNCHANGED heap /\ name_tree' \in {NoString, name_tree}
  BY <1>1, HeapStays
<1>2. CASE /\ Free # {} /\ heap' = With(FirstFree, 1, << >>)
           /\ name_tree' = [data |-> FirstFree, size |-> 0, capacity |-> 1]
  <2>1. Live' = Live \cup {FirstFree} /\ FirstFree \notin Live
    BY <1>0, <1>2, WithOK
  <2>2. name_tree.data = 0 /\ name_tree'.data = FirstFree
    BY <1>2 DEF NoString
  <2>3. Live' \ {name_tree'.data} = Live \ {name_tree.data}
    BY <1>0, <2>1, <2>2
  <2>4. ASSUME NEW x \in Live \ {name_tree.data} PROVE heap'[x].size = heap[x].size
    <3>1. heap'[x] = heap[x]
      BY <1>2, <2>1 DEF With
    <3> QED BY <3>1
  <2> QED BY <2>3, <2>4, ContentsSame
<1> QED BY <1>1, <1>2 DEF Walk
-----------------------------------------------------------------------------
LEMMA NothingAdded == \A a \in Nat : a + 0 = a
OBVIOUS

\* In create, each step of the walk keeps the count.
LEMMA CreateWeight ==
    ASSUME Measured, ~Moves, TypeInv, NameInv, OwnInv, NestInv, BalInv, op = "create",
           AddsUp(stack, Contents), ~Short(call.conf, stack'),
           PushName \/ Plain \/ Allocate \/ Preallocate \/ Count \/ Descend \/ Release
              \/ PopName \/ Return
    PROVE  AddsUp(stack', Contents')
<1> DEFINE c == call.conf
           n == Len(stack)
<1>0. /\ stack # << >> /\ StackOK(stack) /\ name_tree' = name_tree /\ Top \in Frames
      /\ call \in Calls /\ c \in Confs /\ Nested(stack, c) /\ n \in Nat \ {0} /\ stack[n] = Top
  BY StepFinds
<1>1. Contents \in Nat /\ Top.used \in Nat
  BY <1>0, ContentsWeighable DEF Frames
<1>2. ASSUME NEW f \in Frames, f.used = Top.used, stack' = SetTop(f), Contents' = Contents
      PROVE  AddsUp(stack', Contents')
  <2>1. f.used = Top.used + 0 /\ Contents + 0 = Contents /\ 0 \in Nat
    BY <1>1, <1>2, NothingAdded
  <2>2. AddsUp(SetTop(f), Contents + 0)
    BY <1>0, <1>1, <2>1, AddsSetTop
  <2> QED BY <1>2, <2>1, <2>2
<1>3. CASE PushName \/ PopName
  <2>1. Contents' = Contents
    BY <1>3, NameOnly
  <2>2. \/ UNCHANGED stack
        \/ \E f \in Frames : stack' = SetTop(f) /\ f.used = Top.used
    BY <1>3, PushNameFrame, PopNameFrame
  <2> QED BY <1>2, <2>1, <2>2
<1>4. CASE Release
  <2>1. UNCHANGED heap
    BY <1>4 DEF Release
  <2>2. Contents' = Contents
    BY <1>0, <2>1, HeapStays
  <2>3. \/ UNCHANGED stack
        \/ \E f \in Frames : stack' = SetTop(f) /\ f.used = Top.used
    BY <1>4, ReleaseFrame
  <2> QED BY <1>2, <2>2, <2>3
<1>5. CASE Return
  <2>1. UNCHANGED heap /\ stack' = Pop(Top.used)
    BY <1>5 DEF Return
  <2>2. Contents' = Contents
    BY <1>0, <2>1, HeapStays
  <2>3. AddsUp(Pop(Top.used), Contents)
    BY <1>0, <1>1, AddsPop
  <2> QED BY <2>1, <2>2, <2>3
<1>6. CASE Descend
  <2>1. UNCHANGED heap
    BY <1>6 DEF Descend, Fault
  <2>2. Contents' = Contents
    BY <1>0, <2>1, HeapStays
  <2>3. ASSUME NEW f \in Frames, NEW g \in Frames, stack' = Append(SetTop(f), g),
               f.used = Top.used, g.used = 0
        PROVE  AddsUp(stack', Contents')
    <3>1. f.used = Top.used + 0 /\ Contents + 0 = Contents /\ 0 \in Nat
      BY <1>1, <2>3, NothingAdded
    <3>2. AddsUp(SetTop(f), Contents)
      <4>1. AddsUp(SetTop(f), Contents + 0)
        BY <1>0, <1>1, <3>1, AddsSetTop
      <4> QED BY <3>1, <4>1
    <3>3. SetTop(f) \in Seq(Frames) /\ Len(SetTop(f)) = n
      BY <1>0, SetTopFrames DEF StackOK
    <3>4. SetTop(f) # << >>
      BY <1>0, <3>3
    <3> DEFINE t == SetTop(f)
    <3> HIDE DEF t
    <3>5. t \in Seq(Frames) /\ t # << >> /\ AddsUp(t, Contents)
      BY <3>2, <3>3, <3>4 DEF t
    <3>6. AddsUp(Append(t, g), Contents)
      BY <1>1, <2>3, <3>5, AddsAppend
    <3> QED BY <2>2, <2>3, <3>6 DEF t
  <2>4. \/ UNCHANGED stack
        \/ \E f \in Frames, g \in Frames :
              stack' = Append(SetTop(f), g) /\ f.used = Top.used /\ g.used = 0
    BY <1>6, DescendFrame
  <2> QED BY <2>2, <2>3, <2>4
<1>7. CASE Plain \/ Allocate \/ Preallocate \/ Count
  <2>1. ASSUME NEW f \in Frames, Entered(f) PROVE AddsUp(stack', Contents')
    <3>1. stack' = SetTop(f) /\ f.used = Top.used + Needs /\ Stored(f)
      BY <2>1 DEF Entered
    <3>w. Walking("memory")
      BY <1>7 DEF Plain, Allocate, Preallocate, Count
    <3>2. Needs \in Nat
      <4>1. m \in MessageMember
        BY <3>w, WalkFinds
      <4> QED BY <1>0, <4>1, OwnNat DEF Needs
    <3>3. CASE NeedsMemory(m)
      <4>1. Free # {} /\ heap' = With(FirstFree, Needs, << >>)
        BY <3>1, <3>3 DEF Stored
      <4> DEFINE w == Needs
      <4> HIDE DEF w
      <4>2. w \in Nat /\ heap' = With(FirstFree, w, << >>) /\ f.used = Top.used + w
        BY <3>1, <3>2, <4>1 DEF w
      <4>3. Contents' = Contents + w
        BY <1>0, <4>1, <4>2, BlockTaken
      <4>4. AddsUp(SetTop(f), Contents + w)
        BY <1>0, <1>1, <4>2, AddsSetTop
      <4> QED BY <3>1, <4>3, <4>4
    <3>4. CASE ~NeedsMemory(m)
      <4>1. UNCHANGED heap /\ Needs = 0
        BY <3>1, <3>4 DEF Stored, Needs, Own
      <4>2. Contents' = Contents
        BY <1>0, <4>1, HeapStays
      <4>3. f.used = Top.used
        BY <1>1, <3>1, <4>1, NothingAdded
      <4> QED BY <1>2, <3>1, <4>2, <4>3
    <3> QED BY <3>3, <3>4
  <2>2. ASSUME Allocate, stack' = Pop(0), UNCHANGED heap PROVE AddsUp(stack', Contents')
    <3>1. AtMost(c, stack)
      BY <1>0 DEF BalInv
    <3>2. n \in 1..n
      BY <1>0
    <3>3. /\ Sum(c, stack, n) \in Nat /\ Whole(c, stack, n) \in Nat
          /\ Left(c, stack[n], Path(stack, n)) \in Nat
          /\ Sum(c, stack, n) <= Whole(c, stack, n)
      BY <1>0, <3>1, <3>2, SumNat DEF AtMost
    <3>4. 0 \in Nat /\ 0 <= Sum(c, stack, n)
      BY <3>3
    <3>5. 0 < Whole(c, stack, n) => Short(c, Pop(0))
      BY <1>0, <3>1, <3>4, PopBalance
    <3>6. Whole(c, stack, n) = 0
      BY <2>2, <3>3, <3>5
    <3>7. Sum(c, stack, n) = Top.used + Left(c, stack[n], Path(stack, n)) + 0
      <4>1. ~(n < n)
        BY <1>0
      <4> QED BY <1>0, <4>1 DEF Sum
    <3> HIDE DEF c, n
    <3>8. Top.used = 0
      BY <1>1, <3>3, <3>6, <3>7
    <3>9. AddsUp(Pop(Top.used), Contents)
      BY <1>0, <1>1, AddsPop
    <3>10. Contents' = Contents
      BY <1>0, <2>2, HeapStays
    <3> QED BY <2>2, <3>8, <3>9, <3>10
  <2> QED BY <1>7, <2>1, <2>2, MemoryFrame
<1> QED BY <1>3, <1>4, <1>5, <1>6, <1>7

LEMMA WalkWeight ==
    ASSUME Measured, ~Moves, TypeInv, NameInv, OwnInv, NestInv, BalInv, WeightInv,
           PushName \/ Plain \/ Allocate \/ Preallocate \/ Count \/ Descend \/ Release
              \/ PopName \/ Return
    PROVE  WeightInv'
<1>0. stack # << >> /\ UNCHANGED callVars /\ name_tree' = name_tree /\ call \in Calls
  BY StepFinds
<1>1. /\ op' = op /\ call' = call /\ msg' = msg /\ calculated' = calculated
      /\ call \in Calls /\ call # Idle
  BY <1>0 DEF callVars, Calls, Apis, Idle
<1>2. CASE op = "create"
  <2>1. msg \in {"raw", "static"}
    BY <1>2 DEF OwnInv
  <2>2. Short(call.conf, stack') \/ AddsUp(stack', Contents')
    <3>1. CASE Short(call.conf, stack)
      BY <1>2, <3>1, WalkBal DEF StaysShort
    <3>2. CASE AddsUp(stack, Contents)
      BY <1>2, <3>2, CreateWeight
    <3> QED BY <1>0, <1>2, <3>1, <3>2 DEF WeightInv
  <2> QED BY <1>1, <2>1, <2>2 DEF WeightInv
<1>3. CASE op # "create"
  <2>1. SUFFICES ASSUME msg = "made", call.api # "destroy" PROVE Contents' = Contents
    BY <1>1, <1>3 DEF WeightInv
  <2>2. op # "destroy"
    BY <1>0, <2>1, FirstWalkApi DEF NestInv
  <2>3. CASE PushName \/ PopName
    BY <2>3, NameOnly
  <2>4. CASE ~(PushName \/ PopName)
    <3>1. UNCHANGED heap
      BY <1>3, <2>2, <2>4 DEF Plain, Allocate, Preallocate, Count, Descend, Release, Return, Fault
    <3> QED BY <1>0, <3>1, HeapStays
  <2> QED BY <2>3, <2>4
<1> QED BY <1>2, <1>3
-----------------------------------------------------------------------------
LEMMA CallWeight ==
    ASSUME TypeInv, OwnInv, NestInv, TreeInv, WeightInv, Sizes \/ Create \/ CreateStatic \/ Destroy
    PROVE  WeightInv'
<1>1. PICK c \in Calls : call = Idle /\ Call(c.api, c.root, c.conf, c.len)
  BY CallTypes
<1>2. /\ Walk(FirstWalk(c.api), c.root, c.conf.rules) /\ UNCHANGED <<calculated, msg>>
      /\ fault = "none" /\ stack = << >>
  BY <1>1 DEF Call, TypeInv, CallOK
<1>3. name_tree = NoString
  BY <1>2, BetweenWalks
<1>4. Contents' = Contents
  BY <1>2, <1>3, WalkBegins
<1>5. op' # "create"
  BY <1>2, FirstFrame, FirstWalkApi
<1>6. call.api # "destroy" /\ call' # Idle
  BY <1>1 DEF Idle, Call, Calls, Apis
<1> QED BY <1>2, <1>4, <1>5, <1>6 DEF WeightInv

LEMMA SecondWalkWeight ==
    ASSUME TypeInv, OwnInv, NestInv, TreeInv, WeightInv, SecondWalk
    PROVE  WeightInv'
<1>0. /\ fault = "none" /\ stack = << >> /\ UNCHANGED <<msg, calculated>> /\ call # Idle
      /\ call \in Calls
  BY DEF SecondWalk, TypeInv, CallOK
<1>1. /\ op = "none" /\ name_tree = NoString /\ 0 \notin Live
      /\ msg \in {"raw", "static"} => Live = {}
  BY <1>0, BetweenWalks
<1>2. call.api \in {"create", "create_static", "destroy"}
  BY <1>0 DEF NestInv
<1>3. call.api \in {"create", "create_static"} => msg \in {"raw", "static"}
  BY DEF OwnInv
<1>4. CASE call.api = "create_static" /\ call' = Idle /\ UNCHANGED <<walkVars, op, name_tree>>
  BY <1>0, <1>1, <1>3, <1>4 DEF WeightInv
<1>5. CASE Walk(call.api, call.root, call.conf.rules) /\ UNCHANGED call
  <2>1. op' = call.api
    BY <1>5, FirstFrame
  <2>2. Contents' = Contents
    BY <1>1, <1>5, WalkBegins
  <2>3. CASE call.api # "create"
    <3>1. call'.api # "destroy" => msg' # "made"
      BY <1>0, <1>2, <1>3, <1>5, <2>3
    <3> QED BY <1>0, <1>5, <2>1, <2>3, <3>1 DEF WeightInv
  <2>4. CASE call.api = "create"
    <3>1. Contents = 0
      <4>1. Live \ {name_tree.data} = {}
        BY <1>1, <1>3, <2>4
      <4> QED BY <4>1, WeightNone DEF Contents
    <3>2. ASSUME stack' # << >> PROVE AddsUp(stack', 0)
      <4>1. Len(stack') = 1 /\ stack'[1].used = 0
        BY <1>0, <1>5, <3>2, FirstFrame
      <4> DEFINE e == [j \in 1..1 |-> 0]
      <4>2. e \in [1..1 -> Nat] /\ e[1] = 0 /\ 1..(1 - 1) = {}
        OBVIOUS
      <4> HIDE DEF e
      <4> QED BY <4>1, <4>2 DEF AddsUp
    <3> QED BY <1>0, <1>3, <1>5, <2>2, <2>4, <3>1, <3>2 DEF WeightInv
  <2> QED BY <2>3, <2>4
<1> QED BY <1>4, <1>5 DEF SecondWalk

LEMMA EndWalkWeight ==
    ASSUME Measured, TypeInv, OwnInv, NestInv, BalInv, WeightInv, EndWalk
    PROVE  WeightInv'
<1>0. stack # << >> /\ Top.at = "done"
  BY DEF EndWalk
<1>1. CASE Fault("name") /\ UNCHANGED callVars
  <2>1. UNCHANGED <<heap, stack, name_tree>>
    BY <1>1 DEF Fault, callVars
  <2>2. Contents' = Contents
    BY <2>1, HeapStays
  <2> QED BY <1>1, <2>1, <2>2, WeightSteady
<1>2. CASE /\ heap' = Without(name_tree.data) /\ name_tree' = NoString /\ stack' = << >>
           /\ op' = "none"
  <2>1. /\ StackOK(stack) /\ call \in Calls /\ Nested(stack, call.conf)
        /\ op \in {FirstWalk(call.api), call.api} /\ Len(stack) = 1 /\ stack[1] = Top
    BY <1>0 DEF TypeInv, CallOK, NestInv, Nested, Top
  <2>2. Live' = Live \ {name_tree.data} /\ 0 \notin Live /\ name_tree'.data = 0
    BY <1>2 DEF Without, Live, TypeInv, HeapOK, NoString
  <2>3. Live' \ {name_tree'.data} = Live \ {name_tree.data}
    BY <2>2
  <2>4. ASSUME NEW x \in Live \ {name_tree.data} PROVE heap'[x].size = heap[x].size
    <3>1. heap'[x] = heap[x]
      BY <1>2 DEF Without
    <3> QED BY <3>1
  <2>5. Contents' = Contents
    BY <2>3, <2>4, ContentsSame
  <2>i. Idle.api = "none"
    BY DEF Idle
  <2>6. CASE op = FirstWalk(call.api) /\ op = call.api /\ UNCHANGED <<calculated, msg>>
    <3>1. call.api # "destroy"
      BY <2>6, FirstWalkApi
    <3> QED BY <1>2, <2>5, <2>6, <3>1 DEF WeightInv
  <2>7. CASE op = FirstWalk(call.api) /\ op # call.api /\ UNCHANGED <<call, msg>>
    <3>1. call.api \in {"create", "create_static", "destroy"}
      BY <2>1, <2>7 DEF FirstWalk, Calls, Apis
    <3>2. call.api # "destroy" => msg # "made"
      BY <3>1 DEF OwnInv
    <3> QED BY <1>2, <2>7, <3>2 DEF WeightInv
  <2>8. CASE /\ op = "create" /\ call' = Idle /\ UNCHANGED calculated
             /\ rv' = (IF Top.used = calculated THEN 1 ELSE 0)
             /\ msg' = (IF rv' = 1 THEN "made" ELSE "failed")
    <3>1. CASE Top.used = calculated
      <4>1. call.api = "create"
        BY <2>1, <2>8, FirstWalkApi
      <4>2. calculated = Bytes(call.conf, << >>, call.root, 1)
        BY <2>8, <4>1 DEF BalInv
      <4>3. ~Short(call.conf, stack)
        BY <1>0, <2>8, <3>1, <4>2, LastBalance
      <4>4. AddsUp(stack, Contents)
        BY <1>0, <2>8, <4>3 DEF WeightInv
      <4>5. Contents = Top.used
        BY <2>1, <4>4 DEF AddsUp
      <4> QED BY <1>2, <2>5, <2>8, <3>1, <4>5 DEF WeightInv
    <3>2. CASE Top.used # calculated
      <4>1. msg' = "failed"
        BY <2>8, <3>2
      <4> QED BY <1>2, <4>1 DEF WeightInv
    <3> QED BY <3>1, <3>2
  <2>9. CASE msg' \in {"static", "raw"}
    BY <1>2, <2>9 DEF WeightInv
  <2>10. \/ op = FirstWalk(call.api) /\ op = call.api /\ UNCHANGED <<calculated, msg>>
         \/ op = FirstWalk(call.api) /\ op # call.api /\ UNCHANGED <<call, msg>>
         \/ /\ op = "create" /\ call' = Idle /\ UNCHANGED calculated
            /\ rv' = (IF Top.used = calculated THEN 1 ELSE 0)
            /\ msg' = (IF rv' = 1 THEN "made" ELSE "failed")
         \/ msg' \in {"static", "raw"}
    <3>1. UNCHANGED callVars => FALSE
      BY <1>2, <2>1, FirstWalkApi DEF callVars, Calls, Apis
    <3> QED BY <3>1 DEF EndWalk
  <2> QED BY <2>6, <2>7, <2>8, <2>9, <2>10
<1> QED BY <1>1, <1>2 DEF EndWalk

LEMMA WeightStep ==
    ASSUME Measured, ~Moves, TypeInv, NameInv, OwnInv, NestInv, BalInv, TreeInv, WeightInv,
           [Next]_vars
    PROVE  WeightInv'
<1>1. CASE UNCHANGED vars
  <2>1. UNCHANGED callVars /\ UNCHANGED <<heap, stack, name_tree>>
    BY <1>1 DEF vars, walkVars, callVars
  <2> QED BY <2>1, HeapStays, WeightSteady
<1> QED BY <1>1, CallWeight, EndWalkWeight, SecondWalkWeight, WalkWeight DEF Next

LEMMA WeightInvariance == ~Moves /\ Measured => (Spec => []WeightInv)
<1> SUFFICES ASSUME ~Moves, Measured PROVE Spec => []WeightInv
  OBVIOUS
<1>1. Init => WeightInv
  BY DEF Init, WeightInv
<1>2. /\ TypeInv /\ NameInv /\ OwnInv /\ NestInv /\ BalInv /\ TreeInv /\ WeightInv
      /\ [Next]_vars
      => WeightInv'
  BY WeightStep
<1> QED BY <1>1, <1>2, TypeInvariance, NameInvariance, OwnInvariance, NestInvariance,
           BalInvariance, TreeInvariance, PTL DEF Spec

\* Where reallocate does not move and no type contains itself, get_dynamic_size predicts
\* exactly the bytes that a successful create holds.
THEOREM SizeStaysPredicted == ~Moves /\ Acyclic => (Spec => []SizePredicted)
<1> SUFFICES ASSUME ~Moves, Acyclic PROVE Spec => []SizePredicted
  OBVIOUS
<1>m. Measured
  BY AcyclicMeasured
<1>1. TypeInv /\ WeightInv => SizePredicted
  <2> SUFFICES ASSUME TypeInv, WeightInv, msg = "made", call = Idle
               PROVE  Weight(heap, Live) = calculated
    BY DEF SizePredicted, Weight, MapThenSumSet, MapThenFoldSet
  <2>1. call.api # "destroy"
    BY DEF Idle
  <2>2. Contents = calculated
    BY <2>1 DEF WeightInv
  <2>3. Live \ {name_tree.data} = Live
    BY DEF WeightInv, TypeInv, HeapOK, NoString
  <2> QED BY <2>2, <2>3 DEF Contents
<1> QED BY <1>1, <1>m, TypeInvariance, WeightInvariance, PTL
=============================================================================
