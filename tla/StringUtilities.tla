--------------------------- MODULE StringUtilities ---------------------------
(***************************************************************************)
(* The string utilities (src/src/string_utilities.c), used the way their   *)
(* interface asks for: the caller keeps one rosidl_runtime_c__String and   *)
(* replaces it by what each call returns.  Characters are abstracted to    *)
(* lengths; what matters is how far into which heap block each call        *)
(* writes.  A write through NULL after a failed allocation stops the       *)
(* program.                                                                *)
(***************************************************************************)
EXTENDS Integers, FiniteSets

CONSTANTS Blocks,    \* heap blocks the allocator can hand out
          NULL,      \* the null pointer
          MaxLen     \* bound: length of a string

ASSUME StringAssumption == NULL \notin Blocks /\ MaxLen \in Nat

VARIABLES heap,    \* size of each live block
          str,     \* the caller's string: data, size, capacity
          past,    \* history: bytes the last call wrote past the end of its block
          pc       \* "none", "live" or "fault"

vars == <<heap, str, past, pc>>

Live == DOMAIN heap
NoString == [data |-> NULL, size |-> 0, capacity |-> 0]

\* The string's record and the heap are within their ranges.
TypeOK ==
    /\ Live \subseteq Blocks /\ heap \in [Live -> 1..(MaxLen + 1)]
    /\ str \in [data : Blocks \cup {NULL}, size : 0..MaxLen, capacity : 0..(MaxLen + 1)]
    /\ past \in Nat /\ pc \in {"none", "live", "fault"}

Init == heap = [b \in {} |-> 0] /\ str = NoString /\ past = 0 /\ pc = "none"

-----------------------------------------------------------------------------
\* The allocator.

\* allocator.allocate(n) returned block b.
Allocated(b, n) == [x \in Live \cup {b} |-> IF x = b THEN n ELSE heap[x]]

\* allocator.reallocate(p, n) returned block b: p itself, or another for which p
\* was given up.
Reallocated(p, b, n) ==
    [x \in (Live \ {p}) \cup {b} |-> IF x = b THEN n ELSE heap[x]]

\* Bytes of a write of n bytes at offset o that lie past the end of block b of h.
Past(h, b, o, n) == IF o + n > h[b] THEN o + n - h[b] ELSE 0

Fault == pc' = "fault" /\ UNCHANGED <<heap, str, past>>
-----------------------------------------------------------------------------
\* micro_ros_string_utilities_init(data), with n = strlen(data).
init(n) ==
    /\ pc = "none"
    /\ \/ \E b \in Blocks \ Live :
             /\ heap' = Allocated(b, n + 1)
             /\ str' = [data |-> b, size |-> n, capacity |-> n + 1]
             /\ past' = Past(heap', b, 0, n + 1)
             /\ pc' = "live"
       \/ Fault

\* What set and append share: grow the block to n + 1 bytes when asked to, then
\* write w + 1 bytes at offset o, up to a string of n characters.
Write(grow, o, w, n) ==
    IF grow
    THEN \/ \E b \in (Blocks \ Live) \cup {str.data} :
              /\ heap' = Reallocated(str.data, b, n + 1)
              /\ str' = [data |-> b, size |-> n, capacity |-> n + 1]
              /\ past' = Past(heap', b, o, w + 1)
              /\ UNCHANGED pc
         \/ Fault
    ELSE /\ str' = [str EXCEPT !.size = n]
         /\ past' = Past(heap, str.data, o, w + 1)
         /\ UNCHANGED <<heap, pc>>

\* micro_ros_string_utilities_set
set(n) == pc = "live" /\ Write(n > str.capacity, 0, n, n)

\* Fault: the old contents are left out of the test.
appendForgetsSize(n) ==
    /\ pc = "live" /\ str.size + n <= MaxLen
    /\ Write(n > str.capacity, str.size, n, str.size + n)

\* Fault: a new block is allocated and the old one never released.
appendAllocates(n) ==
    /\ pc = "live" /\ str.size + n <= MaxLen
    /\ IF str.size + n > str.capacity
       THEN \E b \in Blocks \ Live :
              /\ heap' = Allocated(b, str.size + n + 1)
              /\ str' = [data |-> b, size |-> str.size + n,
                         capacity |-> str.size + n + 1]
              /\ past' = 0 /\ UNCHANGED pc
       ELSE Write(FALSE, str.size, n, str.size + n)

\* micro_ros_string_utilities_append; str.size + n <= MaxLen is the bound.
append(n) ==
    /\ pc = "live" /\ str.size + n <= MaxLen
    /\ Write(str.size + n > str.capacity, str.size, n, str.size + n)

\* micro_ros_string_utilities_remove_tail_chars.  The function does not look at n:
\* n <= str.size is what its callers keep to, who remove what they have appended.
remove_tail_chars(n) ==
    /\ pc = "live" /\ n <= str.size
    /\ str' = [str EXCEPT !.size = str.size - n]
    /\ past' = Past(heap, str.data, str.size - n, 1)
    /\ UNCHANGED <<heap, pc>>

\* micro_ros_string_utilities_destroy
destroy ==
    /\ pc = "live"
    /\ heap' = [b \in Live \ {str.data} |-> heap[b]]
    /\ str' = NoString /\ past' = 0 /\ pc' = "none"

Next ==
    \/ \E n \in 0..MaxLen :
          init(n) \/ set(n) \/ append(n) \/ remove_tail_chars(n)
    \/ destroy

Spec == Init /\ [][Next]_vars
-----------------------------------------------------------------------------
\* The string's block is live and as large as capacity says, and the string is
\* the only owner of memory: growing it neither leaks nor shares a block.
OwnsItsBlock ==
    /\ pc = "live" => Live = {str.data} /\ heap[str.data] = str.capacity
    /\ pc = "none" => Live = {}

\* A string never outgrows its capacity, so that no sequence of calls writes
\* more than the terminator past the end of the block.  This is of callers that
\* never remove more characters than the string has, as those of
\* type_utilities.c: size would run below zero otherwise.
AtMostTerminatorPast == str.size <= str.capacity /\ past <= 1

\* Every byte written, the terminator included, lies in the block.
WithinCapacity == past = 0
=============================================================================
