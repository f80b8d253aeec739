---------------------------- MODULE MessageMemory ----------------------------
(***************************************************************************)
(* The memory of a message (src/src/type_utilities.c).                     *)
(*                                                                         *)
(* handle_message_memory walks a message type and allocates, counts or     *)
(* releases what its strings and sequences need.  Its recursion is a stack *)
(* of frames here, so that each step that can fail is a step of its own.   *)
(* Bytes of message contents are left out: what is kept is which block a   *)
(* field points to, how large it is, and the dotted name of the member     *)
(* being visited, in the heap block where the code builds it.              *)
(***************************************************************************)
EXTENDS Integers, Sequences, FiniteSetsExt

CONSTANTS
    Types,        \* message types: a sequence of members for each type's name
    SizeOf,       \* size_of_ of each type
    Roots,        \* types the program makes messages of
    Programs,     \* sets of the library functions that a program calls
    Confs,        \* configurations the program passes
    Default,      \* micro_ros_utilities_memory_conf_default
    NameLen,      \* length of a member's name
    Alignment,    \* ALIGNMENT
    BufferLens,   \* lengths of the buffers the program provides
    NBlocks,      \* bound: blocks the heap can hold at once
    Moves         \* TRUE when reallocate may move a block

\* rosidl_typesupport_introspection_c__MessageMember, as far as it is used here.
MessageMember == [name : STRING, type : STRING, array : STRING, size : Nat]

\* micro_ros_utilities_memory_conf_t, and the default that has no rules.  A rule is
\* the path that it names, whether or not it is written with a dot behind it.
Capacities ==
    [max_string_capacity : Nat, max_ros2_type_sequence_capacity : Nat,
     max_basic_type_sequence_capacity : Nat]
MemoryConf ==
    [max_string_capacity : Nat, max_ros2_type_sequence_capacity : Nat,
     max_basic_type_sequence_capacity : Nat, rules : Seq([rule : Seq(STRING), size : Nat])]

ASSUME MessageAssumption ==
    /\ Types \in [DOMAIN Types -> Seq(MessageMember)]
    /\ Confs \subseteq MemoryConf /\ Default \in Capacities
    /\ Roots \subseteq DOMAIN Types /\ SizeOf \in [DOMAIN Types -> Nat \ {0}]
    /\ NameLen \in Nat \ {0} /\ Alignment \in Nat \ {0} /\ BufferLens \subseteq Nat
    /\ Programs \subseteq SUBSET {"dynamic_size", "static_size", "create", "create_static"}
    /\ NBlocks \in Nat /\ Moves \in BOOLEAN

VARIABLES
    heap,         \* the live blocks: size, and the text a name block holds
    fields,       \* the string and sequence fields that have been assigned
    stack,        \* frames of handle_message_memory, the innermost last
    op,           \* operation of the walk
    call,         \* the library function being called, and its arguments
    name_tree,    \* that function's variable name_tree
    calculated,   \* calculated_size
    rv,           \* what the last library function returned
    index,        \* operation_buffer_index
    arena,        \* history: the pieces get_static_memory handed out
    msg,          \* "raw", "made", "failed" or "static": the caller's message
    program,      \* the library functions the program calls, besides destroy
    made,         \* history: the type and configuration it was made with
    oom,          \* history: "no", "empty" or "lost": what failed to be allocated
    fault         \* "none", or the access that has stopped the program

walkVars == <<heap, fields, stack, index, arena, oom, fault>>
callVars == <<op, call, name_tree, calculated, rv, msg, made,
              program>>
vars == <<walkVars, callVars>>

Live == DOMAIN heap

\* A string of string_utilities.c.
NoString == [data |-> 0, size |-> 0, capacity |-> 0]

Idle == [api |-> "none", root |-> "none", conf |-> "none", len |-> 0]

Init ==
    /\ heap = << >> /\ fields = << >> /\ stack = << >> /\ op = "none"
    /\ call = Idle /\ name_tree = NoString /\ calculated = 0 /\ rv = 0
    /\ index = 0 /\ arena = {} /\ msg = "raw" /\ made = Idle /\ oom = "no"
    /\ fault = "none" /\ program \in Programs
-----------------------------------------------------------------------------
(***************************************************************************)
(* Addresses.  A structure is at an element of a block, or embedded in     *)
(* another structure: <<base, k, i, j>> is member j of member i of element *)
(* k of what base points to.                                               *)
(***************************************************************************)
Null == <<"null", 0>>
Message == <<"message", 0>>
Element(data, k) == <<data, k>>
Member(loc, i) == Append(loc, i)

\* What a field holds that has not been assigned since its memory was cleared.
Cleared == [data |-> Null, capacity |-> 0]
FieldAt(loc) == IF loc \in DOMAIN fields THEN fields[loc] ELSE Cleared

\* Whether a structure is in memory that may be accessed.
Valid(loc) == Head(loc) # Null /\ (Head(loc)[1] = "heap" => Head(loc)[2] \in Live)

Fault(why) == fault' = why /\ UNCHANGED <<heap, fields, stack, index, arena, oom>>
-----------------------------------------------------------------------------
(***************************************************************************)
(* The allocator.  Which free block it returns makes no difference.        *)
(***************************************************************************)
Free == (1..NBlocks) \ Live
FirstFree == CHOOSE b \in Free : \A c \in Free : b <= c

\* The heap with block b as given, and without block b.
With(b, size, text) ==
    [x \in Live \cup {b} |-> IF x = b THEN [size |-> size, text |-> text] ELSE heap[x]]
Without(b) == [x \in Live \ {b} |-> heap[x]]

\* The blocks that reallocate(b, ...) may return, b being live.
Grown(b) == {b} \cup (IF Moves /\ Free # {} THEN {FirstFree} ELSE {})
-----------------------------------------------------------------------------
(***************************************************************************)
(* Types and configurations.                                               *)
(***************************************************************************)
Composed(m) == m.type \in DOMAIN Types
is_sequence(m) == m.array = "sequence"
NeedsMemory(m) == m.type = "string" \/ is_sequence(m)

member_size(m) == IF Composed(m) THEN SizeOf[m.type] ELSE m.size

\* get_configuration
get_configuration(conf) ==
    [c \in DOMAIN conf |-> IF c # "rules" /\ conf[c] = 0 THEN Default[c] ELSE conf[c]]

conf == get_configuration(call.conf)
Named == Len(conf.rules) > 0

\* sequence_size of a member whose name tree reads text: the first rule for that
\* name, or the configured maximum.  The two memcmp match a rule that is the name
\* tree with its last dot, or without it.
sequence_size(m, text) ==
    LET hits == {r \in 1..Len(conf.rules) : conf.rules[r].rule = text}
    IN  IF hits # {}
        THEN conf.rules[CHOOSE r \in hits : \A s \in hits : r <= s].size
        ELSE IF Composed(m) THEN conf.max_ros2_type_sequence_capacity
        ELSE IF m.type = "string" THEN conf.max_string_capacity
        ELSE conf.max_basic_type_sequence_capacity
-----------------------------------------------------------------------------
(***************************************************************************)
(* One frame of handle_message_memory.                                     *)
(***************************************************************************)
Frame(ty, loc, name) ==
    [ty |-> ty, loc |-> loc, name |-> name, at |-> "name", i |-> 1, n |-> 0,
     k |-> 0, used |-> 0]

Top == stack[Len(stack)]
members == Types[Top.ty]
m == members[Top.i]
Walking(at) ==
    fault = "none" /\ stack # << >> /\ Top.at = at /\ Top.i <= Len(members)
SetTop(f) == [stack EXCEPT ![Len(stack)] = f]

\* Fault: the name tree is shared with the frame below.
PopShared(u) ==
    IF Len(stack) = 1
    THEN <<[Top EXCEPT !.at = "done", !.used = u]>>
    ELSE [SubSeq(stack, 1, Len(stack) - 1) EXCEPT
            ![Len(stack) - 1].used = @ + u, ![Len(stack) - 1].name = Top.name]

\* The frame returns u: the caller's frame, if there is one, adds it up.
Pop(u) ==
    IF Len(stack) = 1
    THEN <<[Top EXCEPT !.at = "done", !.used = u]>>
    ELSE [SubSeq(stack, 1, Len(stack) - 1) EXCEPT ![Len(stack) - 1].used = @ + u]

\* Two appends, of the member's name and of the dot: the block grows at most once.
Appended(s) ==
    LET size == s.size + NameLen
    IN  IF size > s.capacity THEN size + 1
        ELSE IF size + 1 > s.capacity THEN size + 2
        ELSE s.capacity

\* How many dotted names the first bytes of a text are.
Depth(size) == size \div (NameLen + 1)

\* name_tree = append(append(name_tree, m.name_), ".")
PushName ==
    /\ Walking("name") /\ UNCHANGED callVars
    /\ LET s == Top.name
           cap == Appended(s)
           size == s.size + NameLen + 1
           text == Append(SubSeq(heap[s.data].text, 1, Depth(s.size)), m.name)
       IN  \/ /\ ~Named
              /\ stack' = SetTop([Top EXCEPT !.at = "memory"])
              /\ UNCHANGED <<heap, fields, index, arena, oom, fault>>
           \/ Named /\ s.data \notin Live /\ Fault("name")
           \/ Named /\ s.data \in Live /\ cap # s.capacity /\ Fault("null")
           \/ /\ Named /\ s.data \in Live
              /\ \E b \in (IF cap # s.capacity THEN Grown(s.data) ELSE {s.data}) :
                    /\ heap' = [x \in (Live \ {s.data}) \cup {b} |->
                                  IF x = b THEN [size |-> IF cap # s.capacity THEN cap
                                                          ELSE heap[b].size,
                                                 text |-> text]
                                  ELSE heap[x]]
                    /\ stack' = SetTop([Top EXCEPT !.at = "memory",
                         !.name = [data |-> b, size |-> size, capacity |-> cap]])
              /\ UNCHANGED <<fields, index, arena, oom, fault>>

\* The member needs no memory of its own.
Plain ==
    /\ Walking("memory") /\ ~NeedsMemory(m)
    /\ stack' = SetTop([Top EXCEPT !.at = "inner"])
    /\ UNCHANGED <<heap, fields, index, arena, oom, fault, callVars>>

Text == IF Named THEN heap[Top.name.data].text ELSE << >>
Field == Member(Top.loc, Top.i)
Sized(n, used) == SetTop([Top EXCEPT !.at = "inner", !.n = n, !.used = @ + used])
Assigned(data, n) ==
    [l \in DOMAIN fields \cup {Field} |->
       IF l = Field THEN [data |-> data, capacity |-> n]
       ELSE fields[l]]

\* Fault: a failed allocation is counted and the walk goes on.
AllocateCounted ==
    /\ Walking("memory") /\ NeedsMemory(m) /\ op = "create"
    /\ LET n == sequence_size(m, Text)
       IN  \/ /\ Free # {}
              /\ heap' = With(FirstFree, n * member_size(m), << >>)
              /\ fields' = Assigned(<<"heap", FirstFree>>, n)
              /\ UNCHANGED oom
           \/ oom' = "lost" /\ n > 0 /\ UNCHANGED <<heap, fields>>
    /\ LET n == sequence_size(m, Text) IN stack' = Sized(n, n * member_size(m))
    /\ UNCHANGED <<index, arena, fault, callVars>>

\* Fault: as many bytes as the sequence has items.
AllocateItems ==
    /\ Walking("memory") /\ NeedsMemory(m) /\ op = "create" /\ Free # {}
    /\ LET n == sequence_size(m, Text)
       IN  /\ heap' = With(FirstFree, n, << >>)
           /\ fields' = Assigned(<<"heap", FirstFree>>, n)
           /\ stack' = Sized(n, n * member_size(m))
    /\ UNCHANGED <<index, arena, oom, fault, callVars>>

\* CREATE_OPERATION.  When allocate returns NULL the frame returns 0 at once,
\* and the frame that called it goes on.
Allocate ==
    /\ Walking("memory") /\ NeedsMemory(m) /\ op = "create"
    /\ LET n == sequence_size(m, Text)
       IN  \/ /\ Free # {}
              /\ heap' = With(FirstFree, n * member_size(m), << >>)
              /\ fields' = Assigned(<<"heap", FirstFree>>, n)
              /\ stack' = Sized(n, n * member_size(m))
              /\ UNCHANGED oom
           \/ /\ stack' = Pop(0) /\ UNCHANGED <<heap, fields>>
              /\ oom' = IF oom = "lost" \/ n * member_size(m) > 0 THEN "lost" ELSE "empty"
    /\ UNCHANGED <<index, arena, fault, callVars>>

\* Fault: pieces are put one directly behind the other.
AlignedNot(n) == n

\* get_static_memory: the piece starts at the next multiple of ALIGNMENT.
Aligned(n) == ((n + Alignment - 1) \div Alignment) * Alignment

\* Fault: the padding is not counted.
PreallocateUnpadded ==
    /\ Walking("memory") /\ NeedsMemory(m) /\ op \in {"create_static", "static_size"}
    /\ LET n == sequence_size(m, Text)
       IN  /\ index' = Aligned(index) + n * member_size(m)
           /\ stack' = Sized(n, n * member_size(m))
    /\ UNCHANGED <<heap, fields, arena, oom, fault, callVars>>

\* CREATE_PREALLOCATED_OPERATION and CALCULATE_SIZE_PREALLOCATED_OPERATION.  The
\* buffer is not NULL: create_static clears it before this walk, so the return
\* for NULL is reached only if the size is zero and there is nothing to hand out.
Preallocate ==
    /\ Walking("memory") /\ NeedsMemory(m) /\ op \in {"create_static", "static_size"}
    /\ LET n == sequence_size(m, Text)
           start == Aligned(index)
       IN  /\ index' = start + n * member_size(m)
           /\ stack' = Sized(n, index' - index)
           /\ IF op = "create_static"
              THEN /\ arena' = arena \cup {[start |-> start, len |-> n * member_size(m)]}
                   /\ fields' = Assigned(<<"buffer", start>>, n)
              ELSE UNCHANGED <<arena, fields>>
    /\ UNCHANGED <<heap, oom, fault, callVars>>

\* CALCULATE_SIZE_OPERATION and DESTROY_OPERATION only add up.
Count ==
    /\ Walking("memory") /\ NeedsMemory(m) /\ op \in {"dynamic_size", "destroy"}
    /\ LET n == sequence_size(m, Text) IN stack' = Sized(n, n * member_size(m))
    /\ UNCHANGED <<heap, fields, index, arena, oom, fault, callVars>>

Times == IF ~Composed(m) THEN 0 ELSE IF is_sequence(m) THEN Top.n ELSE 1

\* Fault: one recursive call too many.
DescendOnceMore ==
    /\ Walking("inner") /\ Composed(m) /\ Top.k <= Times
    /\ stack' = Append(SetTop([Top EXCEPT !.k = @ + 1]), Frame(m.type, Field, Top.name))
    /\ UNCHANGED <<heap, fields, index, arena, oom, fault, callVars>>

\* The recursive calls: for every item of a sequence of messages, and for a
\* message (or the first of an array of messages) embedded in this one.
Descend ==
    /\ Walking("inner") /\ Top.k < Times
    /\ LET sizing == op \in {"dynamic_size", "static_size"}
           loc == IF ~is_sequence(m) THEN Field
                  ELSE IF sizing THEN <<Null>>
                  ELSE Element(FieldAt(Field).data, Top.k)
       IN  \/ is_sequence(m) /\ ~sizing /\ ~Valid(Top.loc) /\ Fault("memory")
           \/ /\ is_sequence(m) /\ ~sizing => Valid(Top.loc)
              /\ stack' = Append(SetTop([Top EXCEPT !.k = @ + 1]),
                                 Frame(m.type, loc, Top.name))
              /\ UNCHANGED <<heap, fields, index, arena, oom, fault>>
    /\ UNCHANGED callVars

\* Fault: the member is cleared and its block kept.
ReleaseClears ==
    /\ Walking("inner") /\ Top.k = Times
    /\ fields' = [l \in DOMAIN fields \ {Field} |-> fields[l]]
    /\ stack' = SetTop([Top EXCEPT !.at = "pop"])
    /\ UNCHANGED <<heap, fault, index, arena, oom, callVars>>

\* After the recursive calls DESTROY_OPERATION releases the member's own block.
Release ==
    /\ Walking("inner") /\ Top.k = Times
    /\ LET data == FieldAt(Field).data
           next == SetTop([Top EXCEPT !.at = "pop"])
       IN  \/ /\ ~(op = "destroy" /\ NeedsMemory(m))
              /\ stack' = next /\ UNCHANGED <<heap, fields, fault>>
           \/ /\ op = "destroy" /\ NeedsMemory(m) /\ Valid(Top.loc)
              /\ Valid(<<data>>) \/ data = Null
              /\ heap' = Without(data[2])
              /\ fields' = [l \in {x \in DOMAIN fields : x # Field /\ Head(x) # data} |->
                              fields[l]]
              /\ stack' = next /\ UNCHANGED fault
           \/ /\ op = "destroy" /\ NeedsMemory(m)
              /\ ~Valid(Top.loc) \/ ~(Valid(<<data>>) \/ data = Null)
              /\ fault' = "memory" /\ UNCHANGED <<heap, fields, stack>>
    /\ UNCHANGED <<index, arena, oom, callVars>>

\* name_tree = remove_tail_chars(name_tree, strlen(m.name_) + 1)
PopName ==
    /\ Walking("pop") /\ UNCHANGED callVars
    /\ LET s == Top.name
           size == s.size - (NameLen + 1)
           next == [Top EXCEPT !.at = "name", !.i = @ + 1, !.n = 0, !.k = 0]
       IN  \/ ~Named /\ stack' = SetTop(next) /\ UNCHANGED <<heap, fault>>
           \/ /\ Named /\ s.data \in Live
              /\ heap' = [heap EXCEPT ![s.data].text = SubSeq(@, 1, Depth(size))]
              /\ stack' = SetTop([next EXCEPT !.name.size = size])
              /\ UNCHANGED fault
           \/ Named /\ s.data \notin Live /\ fault' = "name" /\ UNCHANGED <<heap, stack>>
    /\ UNCHANGED <<fields, index, arena, oom>>

\* The loop over the members is over.
Return ==
    /\ fault = "none" /\ stack # << >> /\ Top.at = "name" /\ Top.i > Len(members)
    /\ stack' = Pop(Top.used)
    /\ UNCHANGED <<heap, fields, index, arena, oom, fault, callVars>>
-----------------------------------------------------------------------------
(***************************************************************************)
(* The library functions.  Each walks the type once, or twice: the first   *)
(* walk of create, create_static and destroy computes the size.            *)
(***************************************************************************)
FirstWalk(api) ==
    IF api \in {"static_size", "create_static"} THEN "static_size" ELSE "dynamic_size"

\* name_tree = init("") if there are rules, and the call of handle_message_memory.
Walk(o, root, rules) ==
    LET loc == IF o \in {"dynamic_size", "static_size"} THEN <<Null>> ELSE <<Message>>
        name(b) == [data |-> b, size |-> 0, capacity |-> 1]
    IN  /\ op' = o
        /\ \/ /\ rules = << >> /\ UNCHANGED <<heap, fault>> /\ name_tree' = NoString
              /\ stack' = <<Frame(root, loc, NoString)>>
           \/ /\ rules # << >> /\ Free # {} /\ UNCHANGED fault
              /\ heap' = With(FirstFree, 1, << >>) /\ name_tree' = name(FirstFree)
              /\ stack' = <<Frame(root, loc, name(FirstFree))>>
           \/ /\ rules # << >> /\ fault' = "null" /\ UNCHANGED <<heap, name_tree, stack>>

\* A library function is called.
Call(api, root, c, len) ==
    /\ fault = "none" /\ call = Idle
    /\ call' = [api |-> api, root |-> root, conf |-> c, len |-> len]
    /\ Walk(FirstWalk(api), root, c.rules)
    /\ index' = IF FirstWalk(api) = "static_size" THEN 0 ELSE index
    /\ rv' = 0
    /\ UNCHANGED <<fields, arena, oom, calculated, msg, made, program>>

\* micro_ros_utilities_get_dynamic_size and micro_ros_utilities_get_static_size
Sizes == \E r \in Roots, c \in Confs, api \in program \cap {"dynamic_size", "static_size"} :
            Call(api, r, c, 0)

\* micro_ros_utilities_create_message_memory
Create == /\ msg \in {"raw", "static"} /\ "create" \in program
          /\ \E r \in Roots, c \in Confs : Call("create", r, c, 0)

\* micro_ros_utilities_create_static_message_memory
CreateStatic == /\ msg \in {"raw", "static"} /\ "create_static" \in program
                /\ \E r \in Roots, c \in Confs, l \in BufferLens :
                      Call("create_static", r, c, l)

\* micro_ros_utilities_destroy_message_memory, of what was created and as it was.
Destroy == msg \in {"made", "failed"} /\ Call("destroy", made.root, made.conf, 0)

\* A walk has ended: the name tree is destroyed.
EndWalk ==
    /\ fault = "none" /\ stack # << >> /\ Top.at = "done"
    /\ \/ Named /\ name_tree.data \notin Live /\ Fault("name") /\ UNCHANGED callVars
       \/ /\ Named => name_tree.data \in Live
          /\ heap' = Without(name_tree.data) /\ name_tree' = NoString
          /\ stack' = << >> /\ op' = "none"
          /\ UNCHANGED <<index, arena, oom, fault, program>>
          /\ \/ /\ op = FirstWalk(call.api) /\ op = call.api
                /\ rv' = Top.used /\ call' = Idle
                /\ UNCHANGED <<calculated, msg, made, fields>>
             \/ /\ op = FirstWalk(call.api) /\ op # call.api
                /\ calculated' = Top.used
                /\ UNCHANGED <<rv, call, msg, made, fields>>
             \/ /\ op = "create" /\ call' = Idle /\ made' = call
                /\ rv' = IF Top.used = calculated THEN 1 ELSE 0
                /\ msg' = IF rv' = 1 THEN "made" ELSE "failed"
                /\ UNCHANGED <<calculated, fields>>
             \/ /\ op = "create_static" /\ call' = Idle /\ made' = call
                /\ rv' = IF Top.used = calculated /\ Top.used = index THEN 1 ELSE 0
                /\ msg' = IF rv' = 1 THEN "static" ELSE "raw"
                /\ UNCHANGED <<calculated, fields>>
             \/ /\ op = "destroy" /\ call' = Idle /\ made' = Idle /\ msg' = "raw"
                /\ rv' = IF Top.used = calculated THEN 1 ELSE 0
                /\ fields' = << >> /\ UNCHANGED calculated

\* Fault: destroy clears the message before it walks it.
SecondWalkClears ==
    /\ fault = "none" /\ call # Idle /\ stack = << >>
    /\ Walk(call.api, call.root, call.conf.rules) /\ fields' = << >>
    /\ UNCHANGED <<oom, index, arena, call, rv, calculated, msg, made, program>>

\* The second walk.  The message, and the buffer, are cleared first.
SecondWalk ==
    /\ fault = "none" /\ call # Idle /\ stack = << >>
    /\ \/ /\ call.api = "create_static" /\ calculated > call.len
          /\ rv' = 0 /\ call' = Idle /\ UNCHANGED <<walkVars, op, name_tree>>
       \/ /\ call.api = "create_static" => calculated <= call.len
          /\ Walk(call.api, call.root, call.conf.rules)
          /\ fields' = IF call.api = "destroy" THEN fields ELSE << >>
          /\ oom' = IF call.api = "destroy" THEN oom ELSE "no"
          /\ IF call.api = "create_static" THEN index' = 0 /\ arena' = {}
             ELSE UNCHANGED <<index, arena>>
          /\ UNCHANGED <<call, rv>>
    /\ UNCHANGED <<calculated, msg, made, program>>

Next ==
    \/ Sizes \/ Create \/ CreateStatic \/ Destroy \/ EndWalk \/ SecondWalk
    \/ PushName \/ Plain \/ Allocate \/ Preallocate \/ Count \/ Descend
    \/ Release \/ PopName \/ Return

Spec == Init /\ [][Next]_vars
-----------------------------------------------------------------------------
\* Values are of their types: a frame is at a member of its type, or behind the
\* last, and the buffer index never runs below zero.
TypeOK ==
    /\ Live \subseteq 1..NBlocks
    /\ \A b \in Live : heap[b].size \in Nat
    /\ \A l \in DOMAIN fields : fields[l].capacity \in Nat
    /\ \A j \in 1..Len(stack) :
          /\ stack[j].i \in 1..(Len(Types[stack[j].ty]) + 1)
          /\ stack[j].used \in Nat /\ stack[j].k \in 0..(stack[j].n + 1)
    /\ calculated \in Nat /\ rv \in Nat /\ index \in Nat
    /\ msg \in {"raw", "made", "failed", "static"} /\ oom \in {"no", "empty", "lost"}
    /\ fault \in {"none", "null", "name", "memory"}

\* create returns true only if no allocation of any bytes failed, and false only if
\* some allocation failed: the sizes that the two walks add up tell, although the
\* second one stops at every level where an allocation fails.  (Whether the code
\* asks for as many bytes as a member needs is another matter: for each item of a
\* sequence of strings it asks for one.)
CreateHonest ==
    /\ msg = "made" => oom # "lost"
    /\ msg = "failed" => oom # "no"

\* get_dynamic_size predicts exactly the bytes that a successful create holds.
SizePredicted ==
    msg = "made" /\ call = Idle =>
        MapThenSumSet(LAMBDA b : heap[b].size, Live) = calculated

\* destroy releases everything a create, successful or not, has allocated, and
\* no function leaves the block of a name behind.
DestroyReleases ==
    call = Idle /\ fault = "none" /\ msg \in {"raw", "static"} => Live = {}

\* A message that was made is destroyed without touching memory it does not have:
\* only one whose creation failed can make destroy follow a null pointer.
MadeIsSafe == fault = "memory" => msg = "failed"

\* When the rules are consulted the name tree is the path of the member being
\* visited, whatever subtrees were walked, or given up, before it.  This holds where
\* reallocate does not move blocks: see NamesLive for where it does.
NameIsPath ==
    stack # << >> /\ Top.at = "memory" /\ Named =>
        Text = [j \in 1..Len(stack) |-> Types[stack[j].ty][stack[j].i].name]

\* The pieces of the buffer are aligned and disjoint.
PiecesApart ==
    \A a \in arena :
        /\ a.start % Alignment = 0
        /\ \A b \in arena : \/ a = b
                            \/ a.start + a.len <= b.start
                            \/ b.start + b.len <= a.start

\* The pieces are aligned and disjoint, and none ends behind the end of the buffer.
ArenaSound ==
    /\ op = "create_static" => index <= call.len
    /\ PiecesApart

\* create_static succeeds if and only if the buffer is as large as
\* get_static_size says.
StaticHonest ==
    [][call.api = "create_static" /\ call' = Idle =>
         (rv' = 1 <=> calculated <= call.len)]_vars

\* Every name block that is read, grown or released is live.  It is, unless
\* reallocate moves a block under the copies that the callers have of the name.
NamesLive == fault # "name"

\* destroy releases whatever a create that failed has left.
DestroyNeverFaults == fault # "memory"
=============================================================================
