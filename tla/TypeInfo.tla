------------------------------- MODULE TypeInfo -------------------------------
(***************************************************************************)
(* micro_ros_utilities_type_info (src/src/type_utilities.c), which lists   *)
(* the members of a message type and of the types inside it.               *)
(*                                                                         *)
(* print_type_info calls itself for a member of a message type; the calls  *)
(* are a stack of frames here.  Each has a copy of the string that indents *)
(* its lines, made when it was called, while all copies point into one     *)
(* heap block.  The text being put together is passed by reference: it is  *)
(* its lines here, and its block is left out.  A line is its indentation   *)
(* and what it describes.  An allocation that fails, and an access to a    *)
(* block that was given up, stop the program.  The terminator that append  *)
(* may write one byte past the block (WithinCapacity of StringUtilities)   *)
(* is taken to stay there.                                                 *)
(***************************************************************************)
EXTENDS Integers, Sequences

CONSTANT Types    \* message types: for each name, its members, with name and type

VARIABLES
    status,          \* "idle", "listing", "returned" or what stopped the program
    root,            \* the type that is listed
    moves,           \* whether reallocate may move the blocks that it grows
    tabs,            \* characters before the terminator, of each live block
    indent_buffer,   \* the string of type_info
    frames,          \* calls of print_type_info, the innermost last
    out              \* the lines of the text

vars == <<status, root, moves, tabs, indent_buffer, frames, out>>

Live == DOMAIN tabs
Composed(m) == m.type \in DOMAIN Types
NoString == [data |-> 0, size |-> 0, capacity |-> 0]

Init ==
    /\ status = "idle" /\ root \in DOMAIN Types /\ moves \in BOOLEAN
    /\ tabs = << >> /\ indent_buffer = NoString /\ frames = << >> /\ out = << >>

Top == frames[Len(frames)]
Returned == SubSeq(frames, 1, Len(frames) - 1)
Members == Types[Top.type]
Stop(why) == status' = why /\ UNCHANGED <<root, moves, tabs, indent_buffer, frames, out>>

\* The call of print_type_info for a type; i counts the members that are done, and
\* is -1 before the call has begun.
Call(t, indent) == [type |-> t, indent |-> indent, i |-> -1]
-----------------------------------------------------------------------------
\* The two strings are initialised with "".
micro_ros_utilities_type_info(t) ==
    /\ status = "idle" /\ root' = t
    /\ \/ /\ status' = "listing" /\ tabs' = <<0>>
          /\ indent_buffer' = [data |-> 1, size |-> 0, capacity |-> 1]
          /\ frames' = <<Call(t, indent_buffer')>> /\ out' = << >>
       \/ status' = "null" /\ UNCHANGED <<tabs, indent_buffer, frames, out>>
    /\ UNCHANGED moves

\* Fault: append makes room for the terminator too.
Grows_terminated(s) == s.size + 2 > s.capacity

\* Whether append grows the block of s for one character.
Grows(s) == s.size + 1 > s.capacity

\* The blocks with a tab written after the characters of s, whose block is now b.
\* Blocks are numbered in the order in which the allocator hands them out.
Tabbed(s, b) ==
    LET n == IF tabs[s.data] < s.size THEN tabs[s.data] ELSE s.size + 1
    IN  [x \in (IF b = s.data THEN Live ELSE (Live \ {s.data}) \cup {b}) |->
            IF x = b THEN n ELSE tabs[x]]

\* Where the block of s may be after append.
MayHold(s) == {s.data} \cup (IF Grows(s) /\ moves THEN {s.data + 1} ELSE {})

Beginning == status = "listing" /\ frames # << >> /\ Top.i = -1

\* print_type_info begins: its indent_buffer gets a tab, and the outermost call
\* prints the heading.
Enter ==
    /\ Beginning /\ Top.indent.data \in Live
    /\ LET s == Top.indent
           room == IF Grows(s) THEN s.size + 2 ELSE s.capacity
       IN  \E b \in MayHold(s) :
              /\ tabs' = Tabbed(s, b)
              /\ frames' = Append(Returned,
                    [Top EXCEPT !.i = 0,
                                !.indent = [data |-> b, size |-> s.size + 1, capacity |-> room]])
              /\ out' = IF Len(frames) = 1
                        THEN <<[tabs |-> tabs'[b], what |-> Top.type]>> ELSE out
    /\ UNCHANGED <<status, root, moves, indent_buffer>>

\* The block is not there any more, or cannot be grown; nor perhaps that of the text.
EnterStops ==
    /\ Beginning
    /\ \/ Top.indent.data \notin Live /\ Stop("stale")
       \/ (Grows(Top.indent) \/ Len(frames) = 1) /\ Stop("null")

\* A turn of the loop: the member's line is appended to the text, and the members
\* of its type are listed if it has any.  (A line is longer than what append has
\* left over, so it always grows the text, and may fail to.)
PrintMember ==
    /\ status = "listing" /\ frames # << >> /\ Top.i \in 0..(Len(Members) - 1)
    /\ LET m == Members[Top.i + 1]
           counted == Append(Returned, [Top EXCEPT !.i = @ + 1])
       IN  IF Top.indent.data \in Live
           THEN \/ /\ out' = Append(out, [tabs |-> tabs[Top.indent.data], what |-> m.name])
                   /\ frames' = IF Composed(m)
                                THEN Append(counted, Call(m.type, Top.indent))
                                ELSE counted
                   /\ UNCHANGED <<status, root, moves, tabs, indent_buffer>>
                \/ Stop("null")
           ELSE Stop("stale")

\* Truncated(s, n): the blocks after remove_tail_chars(s, n).
Truncated(s, n) ==
    [tabs EXCEPT ![s.data] = IF @ < s.size - n THEN @ ELSE s.size - n]

AtEnd == status = "listing" /\ frames # << >> /\ Top.i = Len(Members)

\* Fault: the tab is left to the caller's lines.
Return_tabbed ==
    /\ AtEnd /\ frames' = Returned
    /\ UNCHANGED <<status, root, moves, tabs, indent_buffer, out>>

\* Fault: two characters are removed.
Return_two ==
    /\ AtEnd
    /\ IF Top.indent.data \in Live
       THEN /\ tabs' = Truncated(Top.indent, 2) /\ frames' = Returned
            /\ UNCHANGED <<status, root, moves, indent_buffer, out>>
       ELSE Stop("stale")

\* print_type_info removes the tab and returns.
Return ==
    /\ AtEnd
    /\ IF Top.indent.data \in Live
       THEN /\ tabs' = Truncated(Top.indent, 1) /\ frames' = Returned
            /\ UNCHANGED <<status, root, moves, indent_buffer, out>>
       ELSE Stop("stale")

\* micro_ros_utilities_type_info destroys indent_buffer and returns the text.
TypeInfoReturns ==
    /\ status = "listing" /\ frames = << >>
    /\ IF indent_buffer.data \in Live
       THEN /\ tabs' = [x \in Live \ {indent_buffer.data} |-> tabs[x]]
            /\ status' = "returned" /\ indent_buffer' = NoString
            /\ UNCHANGED <<root, moves, frames, out>>
       ELSE Stop("stale")

\* The program destroys the text.
Release ==
    /\ status = "returned" /\ status' = "idle" /\ out' = << >>
    /\ UNCHANGED <<root, moves, tabs, indent_buffer, frames>>

Next ==
    \/ \E t \in DOMAIN Types : micro_ros_utilities_type_info(t)
    \/ Enter \/ EnterStops \/ PrintMember \/ Return \/ TypeInfoReturns \/ Release

Spec == Init /\ [][Next]_vars
-----------------------------------------------------------------------------
\* The strings of the calls are within their blocks' numbers and never shrink
\* below nothing.
TypeOK ==
    /\ status \in {"idle", "listing", "returned", "null", "stale"}
    /\ root \in DOMAIN Types /\ moves \in BOOLEAN
    /\ \A b \in Live : tabs[b] \in Nat
    /\ \A k \in 1..Len(frames) :
          /\ frames[k].type \in DOMAIN Types
          /\ frames[k].i \in -1..Len(Types[frames[k].type])
          /\ frames[k].indent.size \in (k - 1)..k

\* Whether a type has members of a message type.
Nested(t) == \E i \in 1..Len(Types[t]) : Composed(Types[t][i])

\* The lines at a place <<t, i, depth>>: of the members of type t from the i-th on;
\* those of the members of a member's type follow its own, one deeper.
Places == (DOMAIN Types) \X (Nat \ {0}) \X Nat
Lines[p \in Places] ==
    LET t == p[1]
        m == Types[t][p[2]]
    IN  IF p[2] > Len(Types[t]) THEN << >>
        ELSE <<[tabs |-> p[3], what |-> m.name]>>
             \o (IF Composed(m) THEN Lines[<<m.type, 1, p[3] + 1>>] ELSE << >>)
             \o Lines[<<t, p[2] + 1, p[3]>>]

\* What type_info returns lists every member once, in order, and each one as deep
\* as its type is nested, though all the calls indent with the same block; and
\* nothing is left of the indentation.
ListingIsTree ==
    status = "returned" =>
        out = <<[tabs |-> 1, what |-> root]>> \o Lines[<<root, 1, 1>>] /\ Live = {}

\* Listing a type without members of message types is safe wherever reallocate
\* puts the blocks it grows, and listing any type is where it grows them in place.
\* (Otherwise a call that returns leaves its caller with the address of a block
\* that was given up.)
StaleOnlyNested == status = "stale" => moves /\ Nested(root)
=============================================================================
