----------------------------- MODULE Applications -----------------------------
(***************************************************************************)
(* The life of the example applications (src/examples): shell commands     *)
(* that register the transport, create a session with the agent, a node    *)
(* and its entities, and start a thread that spins an executor for ever.   *)
(* microros_deinitialization does its work in the shell and destroys what  *)
(* it has created.                                                         *)
(*                                                                         *)
(* One shell thread runs the commands one after the other; a user may give *)
(* any of them at any time, again too.  Each creation may fail, and does   *)
(* while the agent is away or a pool of the client is used up.  What the   *)
(* files do not declare static (node, support, ...) is one variable for    *)
(* all of them when several are linked together, as gcc 5.4 does with      *)
(* tentative definitions.                                                  *)
(***************************************************************************)
EXTENDS Integers, Sequences, FiniteSets

CONSTANTS
    Builds,         \* the sets of examples that a firmware is configured with
    MaxSessions,    \* RMW_UXRCE_MAX_SESSIONS
    MaxNodes,       \* RMW_UXRCE_MAX_NODES
    Publications    \* messages that microros_deinitialization publishes

VARIABLES
    build,       \* the examples in this firmware
    app, pc,     \* the command that the shell runs, and its next step
    valid,       \* valid[l]: whether the object at location l is initialised
    sessions,    \* sessions and nodes in use
    nodes,
    spinning,    \* examples whose thread has been started
    again,       \* history: examples of these whose command was given again
    agent,       \* whether the agent can be reached
    address,     \* what locator.address points to: the line buffer of the shell,
                 \* holding this command's argument or other text, or a literal
    dialled,     \* the address the transport was last opened with
    found        \* history: sessions and nodes in use when the command was given

shellVars == <<app, pc, found>>
vars == <<build, shellVars, valid, sessions, nodes, spinning, again, agent,
          address, dialled>>
-----------------------------------------------------------------------------
(***************************************************************************)
(* The examples: what each command creates, in order.  Must marks a result *)
(* that is checked, where the command gives up; after Try it goes on.      *)
(* "handles" stands for the calls of rclc_executor_add_...                 *)
(***************************************************************************)
Must(o) == [object |-> o, checked |-> TRUE]
Try(o)  == [object |-> o, checked |-> FALSE]

\* Fault: a failed session or node is only reported.
pub_int32_unchecked == <<Try("support"), Try("node"), Try("publisher"), Try("timer"),
                         Try("executor"), Try("handles")>>

pub_int32 == <<Must("support"), Must("node"), Try("publisher"), Try("timer"),
               Try("executor"), Try("handles")>>
sub_int32 == <<Must("support"), Must("node"), Try("subscriber"), Try("executor"),
               Try("handles")>>
sub_twist == <<Must("support"), Must("node"), Try("subscriber"), Try("executor"),
               Try("handles")>>
kobuki_control == <<Must("support"), Must("node"), Try("subscriber"),
                    Try("executor"), Try("handles")>>
add_ints_service == <<Must("support"), Must("node"), Must("service"),
                      Try("executor"), Try("handles")>>
pub_sub == <<Must("support"), Must("node"), Must("publisher"), Must("subscriber"),
             Must("timer"), Must("executor"), Must("handles")>>

\* Fault: the pong subscription's result is not checked.
ping_pong_unchecked ==
    <<Must("support"), Must("node"), Must("ping_publisher"), Must("pong_publisher"),
      Must("ping_subscriber"), Try("pong_subscriber"), Must("timer"),
      Must("executor"), Must("handles")>>

ping_pong ==
    <<Must("support"), Must("node"), Must("ping_publisher"), Must("pong_publisher"),
      Must("ping_subscriber"), Must("pong_subscriber"), Must("timer"),
      Must("executor"), Must("handles")>>

\* create_entities
create_entities == <<Must("support"), Must("node"), Try("publisher")>>

Creations(a) ==
    CASE a = "pub_int32" -> pub_int32
      [] a = "sub_int32" -> sub_int32
      [] a = "sub_twist" -> sub_twist
      [] a = "kobuki_control" -> kobuki_control
      [] a = "add_ints_service" -> add_ints_service
      [] a = "pub_sub" -> pub_sub
      [] a = "ping_pong" -> ping_pong
      [] a = "deinitialization" -> create_entities

\* destroy_entities
destroy_entities == <<"publisher", "node", "support">>

Apps == {"pub_int32", "sub_int32", "sub_twist", "kobuki_control",
         "add_ints_service", "pub_sub", "ping_pong", "deinitialization"}

\* The examples whose variables are static.
Static == {"pub_int32", "pub_sub", "ping_pong"}

\* Where an example has an object: in its own file, or in common.
Location(a, o) == <<IF a \in Static THEN a ELSE "common", o>>

\* The object that must be initialised before.
Needs(o) ==
    CASE o = "support" -> "none"
      [] o \in {"node", "timer", "executor"} -> "support"
      [] o = "handles" -> "executor"
      [] OTHER -> "node"

Objects == {"support", "node", "publisher", "ping_publisher", "pong_publisher",
            "subscriber", "ping_subscriber", "pong_subscriber", "service",
            "timer", "executor", "handles"}
Locations == (Static \cup {"common"}) \X Objects

Has(a, o) == o # "none" => valid[Location(a, o)]

Init ==
    /\ build \in Builds
    /\ app = "none" /\ pc = <<"idle", 0>> /\ found = <<0, 0>>
    /\ valid = [l \in Locations |-> FALSE] /\ sessions = 0 /\ nodes = 0
    /\ spinning = {} /\ again = {} /\ agent \in BOOLEAN
    /\ address = "none" /\ dialled = "none"
-----------------------------------------------------------------------------
\* The command line is typed into the shell's buffer: what argv pointed to before
\* is overwritten.
Give(a) ==
    /\ app = "none" /\ app' = a /\ pc' = <<"register", 0>>
    /\ found' = <<sessions, nodes>>
    /\ address' = IF address = "argv" THEN "overwritten" ELSE address
    /\ again' = again \cup ({a} \cap spinning)
    /\ UNCHANGED <<build, valid, sessions, nodes, spinning, agent, dialled>>

\* Where the command goes from its registration.
Registered == IF app = "deinitialization" THEN <<"ping", 0>> ELSE <<"create", 1>>

\* Fault: without an argument the registration is left as it is.
set_microros_udp_transports_kept(argc) ==
    /\ pc[1] = "register" /\ pc' = Registered
    /\ address' = IF argc = 2 THEN "argv" ELSE IF address = "none" THEN "literal" ELSE address
    /\ UNCHANGED <<build, app, found, valid, sessions, nodes, spinning, again,
                   agent, dialled>>

\* set_microros_udp_transports(argv[1], 9999), or with a literal when the command
\* was given without an argument.
set_microros_udp_transports(argc) ==
    /\ pc[1] = "register" /\ pc' = Registered
    /\ address' = IF argc = 2 THEN "argv" ELSE "literal"
    /\ UNCHANGED <<build, app, found, valid, sessions, nodes, spinning, again,
                   agent, dialled>>

\* Fault: the condition of the loop is inverted.
Ping_inverted(ok) ==
    /\ pc[1] = "ping" /\ (ok => agent)
    /\ pc' = IF ok THEN pc ELSE <<"create", 1>>
    /\ dialled' = IF sessions > 0 THEN dialled ELSE address
    /\ UNCHANGED <<build, app, found, valid, sessions, nodes, spinning, again,
                   agent, address>>

\* while (RMW_RET_OK != rmw_uros_ping_agent(50, 2)): opens the transport unless
\* there is a session.
Ping(ok) ==
    /\ pc[1] = "ping" /\ (ok => agent)
    /\ pc' = IF ok THEN <<"create", 1>> ELSE pc
    /\ dialled' = IF sessions > 0 THEN dialled ELSE address
    /\ UNCHANGED <<build, app, found, valid, sessions, nodes, spinning, again,
                   agent, address>>

\* What follows step i of the creations, and what follows giving up there.
After(i) ==
    IF i < Len(Creations(app)) THEN <<"create", i + 1>>
    ELSE IF app = "deinitialization" THEN <<"publish", 1>>
    ELSE <<"thread", 0>>
GivenUp == IF app = "deinitialization" THEN <<"publish", 1>> ELSE <<"idle", 0>>

Returns(p) == pc' = p /\ app' = IF p[1] = "idle" THEN "none" ELSE app

\* Timers and executors are made on the board; everything else needs the agent.
Local == {"timer", "executor", "handles"}

\* A creation succeeds.
Create(i) ==
    LET o == Creations(app)[i].object
    IN  /\ pc = <<"create", i>> /\ (agent \/ o \in Local) /\ Has(app, Needs(o))
        /\ o = "support" => sessions < MaxSessions
        /\ o = "node" => nodes < MaxNodes
        /\ valid' = [valid EXCEPT ![Location(app, o)] = TRUE]
        /\ sessions' = IF o = "support" THEN sessions + 1 ELSE sessions
        /\ nodes' = IF o = "node" THEN nodes + 1 ELSE nodes
        /\ dialled' = IF o = "support" THEN address ELSE dialled
        /\ Returns(After(i))
        /\ UNCHANGED <<build, found, spinning, again, agent, address>>

\* A creation fails.  The object is as it was, or has been cleared.
CreateFails(i) ==
    LET step == Creations(app)[i]
    IN  /\ pc = <<"create", i>>
        /\ \E v \in {FALSE, Has(app, step.object)} :
              valid' = [valid EXCEPT ![Location(app, step.object)] = v]
        /\ dialled' = IF step.object = "support" /\ sessions < MaxSessions
                      THEN address ELSE dialled
        /\ Returns(IF step.checked THEN GivenUp ELSE After(i))
        /\ UNCHANGED <<build, found, sessions, nodes, spinning, again, agent, address>>

\* rt_thread_create, which may fail, and rt_thread_startup.
StartThread ==
    /\ pc[1] = "thread" /\ Returns(<<"idle", 0>>)
    /\ spinning' \in {spinning, spinning \cup {app}}
    /\ UNCHANGED <<build, found, valid, sessions, nodes, again, agent, address, dialled>>

\* rcl_publish and the pause after it; it fails without a publisher.
Publish ==
    /\ pc[1] = "publish"
    /\ pc' = IF pc[2] < Publications THEN <<"publish", pc[2] + 1>> ELSE <<"destroy", 1>>
    /\ UNCHANGED <<build, app, found, valid, sessions, nodes, spinning, again,
                   agent, address, dialled>>

\* Fault: nothing is destroyed when the publisher is missing.
Fini_published ==
    /\ pc[1] = "destroy"
    /\ LET o == destroy_entities[pc[2]]
       IN  /\ valid' = [valid EXCEPT ![Location(app, o)] = FALSE]
           /\ sessions' = IF o = "support" /\ Has(app, o) THEN sessions - 1 ELSE sessions
           /\ nodes' = IF o = "node" /\ Has(app, o) THEN nodes - 1 ELSE nodes
    /\ Returns(IF pc[2] < Len(destroy_entities) /\ Has(app, "publisher")
               THEN <<"destroy", pc[2] + 1>> ELSE <<"idle", 0>>)
    /\ UNCHANGED <<build, found, spinning, again, agent, address, dialled>>

\* Fault: a node that was not created is given back.
Fini_always ==
    /\ pc[1] = "destroy"
    /\ LET o == destroy_entities[pc[2]]
       IN  /\ valid' = [valid EXCEPT ![Location(app, o)] = FALSE]
           /\ sessions' = IF o = "support" /\ Has(app, o) THEN sessions - 1 ELSE sessions
           /\ nodes' = IF o = "node" THEN nodes - 1 ELSE nodes
    /\ Returns(IF pc[2] < Len(destroy_entities) THEN <<"destroy", pc[2] + 1>>
               ELSE <<"idle", 0>>)
    /\ UNCHANGED <<build, found, spinning, again, agent, address, dialled>>

\* rcl_publisher_fini, rcl_node_fini and rclc_support_fini; each fails when its
\* object is not valid, and the next one is called all the same.  That the
\* session or node of a valid object goes back to its pool, also while the agent
\* is away, is assumed of rmw.
Fini ==
    /\ pc[1] = "destroy"
    /\ LET o == destroy_entities[pc[2]]
       IN  /\ valid' = [valid EXCEPT ![Location(app, o)] = FALSE]
           /\ sessions' = IF o = "support" /\ Has(app, o) THEN sessions - 1 ELSE sessions
           /\ nodes' = IF o = "node" /\ Has(app, o) THEN nodes - 1 ELSE nodes
    /\ Returns(IF pc[2] < Len(destroy_entities) THEN <<"destroy", pc[2] + 1>>
               ELSE <<"idle", 0>>)
    /\ UNCHANGED <<build, found, spinning, again, agent, address, dialled>>

AgentChanges ==
    /\ agent' = ~agent
    /\ UNCHANGED <<build, shellVars, valid, sessions, nodes, spinning, again,
                   address, dialled>>

Creating == pc[1] = "create" /\ (Create(pc[2]) \/ CreateFails(pc[2]))
Registering == \E argc \in {1, 2} : set_microros_udp_transports(argc)

Next ==
    \/ (\E a \in build : Give(a)) \/ Registering
    \/ Ping(TRUE) \/ Ping(FALSE) \/ Creating \/ StartThread \/ Publish \/ Fini
    \/ AgentChanges

\* The shell's thread is scheduled, and an agent that can be reached answers in
\* the end.
Fairness ==
    /\ WF_vars(Registering) /\ WF_vars(Creating) /\ WF_vars(StartThread)
    /\ WF_vars(Publish) /\ WF_vars(Fini) /\ WF_vars(Ping(TRUE))

Spec == Init /\ [][Next]_vars /\ Fairness
-----------------------------------------------------------------------------
\* Pools are never overdrawn or given back twice, and a step of the shell belongs
\* to a command.
TypeOK ==
    /\ build \subseteq Apps /\ app \in build \cup {"none"}
    /\ (app = "none" <=> pc[1] = "idle")
    /\ valid \in [Locations -> BOOLEAN] /\ agent \in BOOLEAN
    /\ sessions \in 0..MaxSessions /\ nodes \in 0..MaxNodes
    /\ again \subseteq spinning /\ spinning \subseteq build \ {"deinitialization"}
    /\ {address, dialled} \subseteq {"none", "literal", "argv", "overwritten"}

\* Whether two examples of the firmware share variables.
Shares == \E a, b \in build \ Static : a # b

\* The transport is never opened with the argument of an earlier command: locator
\* keeps a pointer into the shell's line, which outlives its text.
AddressLive == dialled # "overwritten"

\* The two examples that check every creation (RCCHECK) spin an executor whose objects are all
\* there, and none of the other commands can take one away: they are turned back
\* at the session, and have variables of their own.  (Giving the same command
\* again may clear its support under the running thread.)
RunningIsComplete ==
    \A a \in (spinning \cap {"pub_sub", "ping_pong"}) \ again :
        \A i \in 1..Len(Creations(a)) : Has(a, Creations(a)[i].object)

\* Two examples never run at once, as the client has one session, unless the
\* firmware has examples that share variables.
OneRuns == ~Shares => Cardinality(spinning) <= 1

\* microros_deinitialization leaves the sessions and the nodes as it found them,
\* whichever of its creations failed.
DeinitializationGivesBack ==
    [][~Shares /\ app = "deinitialization" /\ app' = "none" =>
         <<sessions', nodes'>> = found]_vars

\* microros_deinitialization ends if the agent can be reached from some time on.
DeinitializationEnds ==
    <>[]agent => (app = "deinitialization" ~> app = "none")
=============================================================================
