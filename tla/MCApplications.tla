---------------------------- MODULE MCApplications ----------------------------
(***************************************************************************)
(* The example applications under TLC.  A behaviour is one of: the life of *)
(* the commands, ping pong between devices, or the control of the robot.   *)
(* The parts that a behaviour is not about stay in their initial state,    *)
(* where none of their actions that fairness is assumed of is enabled.     *)
(***************************************************************************)
EXTENDS PingPong

CONSTANTS Builds, MaxSessions, MaxNodes, Publications, MaxTwists

VARIABLES
    example,                                              \* what a behaviour is about
    build, app, pc, valid, sessions, nodes, spinning,     \* the commands
    again, agent, address, dialled, found,
    threads, asked, taken, shared, todo, robot            \* the robot

Apps   == INSTANCE Applications
Kobuki == INSTANCE KobukiControl

appsVars == <<build, app, pc, valid, sessions, nodes, spinning, again, agent, address,
              dialled, found>>
kobukiVars == <<threads, asked, taken, shared, todo, robot>>

RunInit ==
    /\ example \in {"commands", "ping_pong", "kobuki_control"}
    /\ Init /\ Apps!Init /\ Kobuki!Init
    /\ example # "ping_pong" =>
          [rand |-> rand, used |-> overwritten] = CHOOSE w \in Worlds : TRUE
    /\ example # "commands" => build = (CHOOSE b \in Builds : TRUE) /\ agent

RunNext ==
    /\ \/ example = "commands" /\ Apps!Next /\ UNCHANGED <<vars, kobukiVars>>
       \/ example = "ping_pong" /\ Next /\ UNCHANGED <<appsVars, kobukiVars>>
       \/ example = "kobuki_control" /\ Kobuki!Next /\ UNCHANGED <<vars, appsVars>>
    /\ UNCHANGED example

RunSpec ==
    /\ RunInit /\ [][RunNext]_<<example, vars, appsVars, kobukiVars>>
    /\ Apps!Fairness /\ Kobuki!Fairness
-----------------------------------------------------------------------------
\* The type invariants of ping pong, of the commands (whose pools are never
\* overdrawn or given back twice) and of the robot control.
RunTypeOK == TypeOK /\ Apps!TypeOK /\ Kobuki!TypeOK

\* The transport is never opened with the argument of an earlier command
\* (micro_ros_rtt.h keeps the pointer that the command was given).
AddressLive == Apps!AddressLive

\* An example that checks what it creates (RCCHECK) spins an executor whose objects
\* are all initialised, whatever other commands are given meanwhile.
RunningIsComplete == Apps!RunningIsComplete

\* Commands of examples with variables of their own never run two threads.
OneRuns == Apps!OneRuns

\* microros_deinitialization leaves the client's pools as it found them.
DeinitializationGivesBack == Apps!DeinitializationGivesBack

\* microros_deinitialization ends once the agent can be reached for good.
DeinitializationEnds == Apps!DeinitializationEnds

\* A speed that kobuki_set_speed is called with is torn between two commands that
\* follow one another, at most.
TornByOne == Kobuki!TornByOne

\* The robot is told the last command in full.
Settles == Kobuki!Settles
-----------------------------------------------------------------------------
CONSTANTS d1, d2

MCDevices == {d1, d2}

Draws(i, s) == [id |-> i, seq |-> s]
World(one, two, shell) ==
    [rand |-> [d \in MCDevices |-> IF d = d1 THEN one ELSE two], used |-> shell]

\* Devices that draw different numbers; those of two boards whose rand() was not
\* seeded; and a device that only answers, where the shell is used.
Apart  == World(Draws(1, <<1, 2>>), Draws(2, <<1, 2>>), {})
Alike  == World(Draws(1, <<1, 2>>), Draws(1, <<1, 2>>), {})
Junked == World(Draws(1, <<1, 2>>), Draws(2, << >>), {d2})

MCWorlds == {Apart, Alike, Junked}
OneWorld == {Apart}

\* Firmwares that have between them every example: with examples that have their variables to
\* themselves, and with examples that share them.
MCBuilds ==
    {{"ping_pong", "pub_sub", "deinitialization"}, {"pub_int32", "sub_int32", "ping_pong"},
     {"kobuki_control", "pub_sub"}, {"deinitialization", "sub_int32"},
     {"sub_twist", "add_ints_service"}}
OneBuild == {{"ping_pong"}}
=============================================================================
