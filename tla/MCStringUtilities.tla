-------------------------- MODULE MCStringUtilities --------------------------
(***************************************************************************)
(* The string utilities under TLC, and the type listing, which is their    *)
(* user inside the library.  A behaviour is about one of the two; the      *)
(* other stays in its initial state.                                       *)
(***************************************************************************)
EXTENDS StringUtilities, Sequences

CONSTANT Types    \* message types: for each name, its members

ASSUME ListedAssumption ==
    Types \in [DOMAIN Types -> Seq([name : STRING, type : STRING])]

VARIABLES user,     \* "program" or "type_info"
          status, root, moves, tabs, indent_buffer, frames, out

Info == INSTANCE TypeInfo

infoVars == <<status, root, moves, tabs, indent_buffer, frames, out>>

UsedInit ==
    /\ Init /\ Info!Init /\ user \in {"program", "type_info"}
    /\ user = "program" => root = (CHOOSE t \in DOMAIN Types : TRUE) /\ moves

UsedNext ==
    /\ \/ user = "program" /\ Next /\ UNCHANGED infoVars
       \/ user = "type_info" /\ Info!Next /\ UNCHANGED vars
    /\ UNCHANGED user

UsedSpec == UsedInit /\ [][UsedNext]_<<vars, infoVars, user>>

\* The type invariants of the strings and of the listing.
UsedTypeOK == TypeOK /\ Info!TypeOK

\* print_type_info lists every member once, in order and at its depth, and
\* micro_ros_utilities_type_info leaves nothing of its indent_buffer on the heap.
ListingIsTree == Info!ListingIsTree

\* print_type_info uses a block that was given up only when reallocate has moved
\* it, and only for a type that has members of message types.
StaleOnlyNested == Info!StaleOnlyNested
-----------------------------------------------------------------------------
CONSTANTS b1, b2
MCBlocks == {b1, b2}

Of(n, t) == [name |-> n, type |-> t]

\* Types without members, without members of message types, and with such members
\* at the end, in between, and three levels deep.
MCTypes ==
    [Empty  |-> << >>,
     Point  |-> <<Of("x", "double"), Of("y", "double")>>,
     Pose   |-> <<Of("position", "Point"), Of("heading", "Point"), Of("id", "string")>>,
     Path   |-> <<Of("seq", "uint32"), Of("poses", "Pose"), Of("bounds", "Point"),
                  Of("none", "Empty")>>,
     Plan   |-> <<Of("path", "Path"), Of("length", "double")>>]
=============================================================================
