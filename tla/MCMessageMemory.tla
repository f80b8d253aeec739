--------------------------- MODULE MCMessageMemory ---------------------------
(***************************************************************************)
(* Message types and configurations for TLC: every kind of member, alone,  *)
(* embedded and in sequences, two levels deep, with and without rules.     *)
(***************************************************************************)
EXTENDS MessageMemory

Basic(n, a)     == [name |-> n, type |-> "basic", array |-> a, size |-> 2]
String(n, a)    == [name |-> n, type |-> "string", array |-> a, size |-> 1]
Composite(n, t, a) == [name |-> n, type |-> t, array |-> a, size |-> 0]

MCTypes ==
    [Leaf   |-> <<String("s", "one"), Basic("v", "fixed")>>,
     Mixed  |-> <<Basic("b", "sequence"), Composite("e", "Leaf", "one"),
                  Composite("q", "Leaf", "sequence"), String("z", "sequence")>>,
     Nested |-> <<Composite("q", "Rows", "sequence"), String("z", "one")>>,
     Rows   |-> <<Composite("r", "Leaf", "sequence")>>]

MCSizeOf == [Leaf |-> 16, Mixed |-> 52, Nested |-> 24, Rows |-> 12]

\* Programs that use the heap, and programs that provide buffers.
MCProgramsDynamic == {{"dynamic_size", "create"}}
MCPrograms == MCProgramsDynamic \cup {{"static_size", "create_static"}}

MCDefault ==
    [max_string_capacity |-> 3, max_ros2_type_sequence_capacity |-> 2,
     max_basic_type_sequence_capacity |-> 2]

Conf(s, r, b, rules) ==
    [max_string_capacity |-> s, max_ros2_type_sequence_capacity |-> r,
     max_basic_type_sequence_capacity |-> b, rules |-> rules]

Rule(path, n) == [rule |-> path, size |-> n]

\* Without rules, and with rules that hit at the top, inside an embedded message,
\* inside a sequence, and with size zero.
MCConfs ==
    {Conf(0, 0, 0, << >>),
     Conf(1, 1, 0, <<Rule(<<"q">>, 2), Rule(<<"q", "s">>, 0), Rule(<<"q">>, 0)>>),
     Conf(0, 1, 1, <<Rule(<<"e", "s">>, 5), Rule(<<"z">>, 2), Rule(<<"q", "r", "s">>, 4)>>)}
=============================================================================
