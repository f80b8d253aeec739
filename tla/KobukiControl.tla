---------------------------- MODULE KobukiControl ----------------------------
(***************************************************************************)
(* The robot control example (src/examples/micro_ros_kobuki_control.c).    *)
(*                                                                         *)
(* Two threads share linear_x and angular_z without a lock.  mr_kobuki     *)
(* spins the executor, whose callback stores them; kobuki hands them to    *)
(* the robot every 100 ms.  A double is two machine words on the           *)
(* processors the package is built for, and as nothing orders or joins the *)
(* four stores, the compiler and the processor may do them in any order.   *)
(* kobuki has the higher priority (10 against 15) and one processor runs   *)
(* both, so it can come between two stores, while its own loads are not    *)
(* interrupted by the callback.                                            *)
(*                                                                         *)
(* Commands are numbered in the order in which the callback gets them, and *)
(* a word is represented by the number of the command it was taken from;   *)
(* 0 stands for the initial value.                                         *)
(***************************************************************************)
EXTENDS Integers

CONSTANT MaxTwists    \* bound: Twist messages handled

VARIABLES
    threads,   \* threads that have been created
    asked,     \* threads that rt_thread_create has been called for
    taken,     \* Twist messages the callback was called with
    shared,    \* the words of linear_x and angular_z
    todo,      \* words that the running callback has still to store
    robot      \* the words that kobuki_set_speed was last called with

vars == <<threads, asked, taken, shared, todo, robot>>

Threads == {"mr_kobuki", "kobuki"}
Words   == {"linear_x low", "linear_x high", "angular_z low", "angular_z high"}

Of(n) == [w \in Words |-> n]

Init ==
    /\ threads = {} /\ asked = {} /\ taken = 0
    /\ shared = Of(0) /\ todo = {} /\ robot = Of(0)
-----------------------------------------------------------------------------
\* The end of microros_kobuki_control: mr_kobuki is created first, and kobuki
\* whether that succeeded or not.
Create(t) ==
    /\ t \notin asked /\ (t = "kobuki" => "mr_kobuki" \in asked)
    /\ asked' = asked \cup {t}
    /\ threads' \in {threads, threads \cup {t}}
    /\ UNCHANGED <<taken, shared, todo, robot>>

\* Fault: the executor calls back while the last callback is still storing.
kobuki_callback_reentered ==
    /\ "mr_kobuki" \in threads /\ taken < MaxTwists
    /\ taken' = taken + 1 /\ todo' = Words
    /\ UNCHANGED <<threads, asked, shared, robot>>

\* rclc_executor_spin_some has a new message and calls kobuki_callback.
kobuki_callback ==
    /\ "mr_kobuki" \in threads /\ todo = {} /\ taken < MaxTwists
    /\ taken' = taken + 1 /\ todo' = Words
    /\ UNCHANGED <<threads, asked, shared, robot>>

\* The callback stores a word.
Store(w) ==
    /\ w \in todo
    /\ shared' = [shared EXCEPT ![w] = taken] /\ todo' = todo \ {w}
    /\ UNCHANGED <<threads, asked, taken, robot>>

\* Fault: the speed is handed over only when it differs in linear_x.
kobuki_entry_on_change ==
    /\ "kobuki" \in threads
    /\ shared["linear_x low"] # robot["linear_x low"]
    /\ robot' = shared
    /\ UNCHANGED <<threads, asked, taken, shared, todo>>

\* A turn of kobuki_entry's loop.
kobuki_entry ==
    /\ "kobuki" \in threads
    /\ robot' = shared
    /\ UNCHANGED <<threads, asked, taken, shared, todo>>

Next ==
    \/ \E t \in Threads : Create(t)
    \/ kobuki_callback \/ (\E w \in Words : Store(w)) \/ kobuki_entry

\* kobuki sleeps between two turns, which leaves the processor to the callback,
\* and having the higher priority it is always scheduled again.
Fairness == WF_vars(\E w \in Words : Store(w)) /\ WF_vars(kobuki_entry)

Spec == Init /\ [][Next]_vars /\ Fairness
-----------------------------------------------------------------------------
\* Words come from commands that were taken.
TypeOK ==
    /\ asked \subseteq Threads /\ threads \subseteq asked /\ todo \subseteq Words
    /\ taken \in 0..MaxTwists
    /\ shared \in [Words -> 0..taken] /\ robot \in [Words -> 0..taken]

\* What the robot is told is torn between two commands at most, and these follow
\* one another: no word of kobuki_set_speed's arguments is older than the command
\* before the one that another word is from, however rarely the thread runs.
TornByOne == \A v, w \in Words : robot[v] - robot[w] <= 1

\* A speed that was torn, or is out of date, is replaced: the robot is told each
\* command in full unless the callback has been called with a newer one.
Settles ==
    \A n \in 1..MaxTwists :
        taken = n /\ "kobuki" \in threads ~> taken > n \/ robot = Of(n)
=============================================================================
