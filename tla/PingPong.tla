------------------------------- MODULE PingPong -------------------------------
(***************************************************************************)
(* The ping pong example (src/examples/micro_ros_ping_pong.c) on several   *)
(* devices.  Each device pings every two seconds, answers the pings that   *)
(* it takes for somebody else's, and counts the answers to its last ping.  *)
(*                                                                         *)
(* A frame_id is the pair of seq_no and device_id that is printed into it. *)
(* Both subscriptions are best effort: what a device publishes reaches     *)
(* every device, itself included, late or never, and in the order in which *)
(* it was published.  The callbacks of a device are called one at a time   *)
(* by its executor, in any order over several turns of its thread's loop.  *)
(*                                                                         *)
(* The texts of the three messages are in arrays of the shell command that *)
(* starts the example (lines 143 to 154).  It returns when the thread has  *)
(* been created, so whatever the shell does later may overwrite them: on   *)
(* a device where the shell is used, a text is what was written into it,   *)
(* or junk, each time it is read.                                          *)
(***************************************************************************)
EXTENDS Integers, Sequences, FiniteSets

CONSTANTS
    Devices,
    Worlds,    \* what differs between two behaviours: rand, what rand() returns on
               \* each device (its device_id and its successive seq_no), and used,
               \* the devices where the shell is used after the start
    Junk       \* a text that is no frame_id

ASSUME PingPongAssumption ==
    /\ IsFiniteSet(Devices) /\ Junk \notin Nat \X Nat
    /\ \A w \in Worlds :
          /\ w.used \subseteq Devices
          /\ \A d \in Devices : w.rand[d].id \in Nat /\ w.rand[d].seq \in Seq(Nat)

VARIABLES
    rand,         \* what rand() returns
    pings,        \* pings[d]: the pings that d has published, in order
    pongs,        \* pongs[d]: its pongs, each with the device that sent the ping
    ping_read,    \* ping_read[d][e]: how many of e's pings d has got or missed
    pong_read,    \* the same for pongs
    outcoming,    \* text of outcoming_ping.frame_id
    pong_count,
    overwritten   \* devices where the shell is used

vars == <<rand, pings, pongs, ping_read, pong_read, outcoming, pong_count,
          overwritten>>

Unread == [d \in Devices |-> [e \in Devices |-> 0]]

\* Before the first ping the text of outcoming_ping is what was on the stack.
Init ==
    /\ \E w \in Worlds : rand = w.rand /\ overwritten = w.used
    /\ pings = [d \in Devices |-> << >>] /\ pongs = [d \in Devices |-> << >>]
    /\ ping_read = Unread /\ pong_read = Unread
    /\ outcoming = [d \in Devices |-> Junk]
    /\ pong_count = [d \in Devices |-> 0]
-----------------------------------------------------------------------------
\* What d may find where it has written text t.
Read(d, t) == IF d \in overwritten THEN {t, Junk} ELSE {t}

\* rt_sprintf(outcoming_ping.frame_id.data, "%d_%d", seq_no, device_id)
FrameId(d, n) == <<rand[d].seq[n], rand[d].id>>

\* Fault: the answers to earlier pings stay counted.
ping_timer_callback_keeps(d) ==
    /\ Len(pings[d]) < Len(rand[d].seq)
    /\ outcoming' = [outcoming EXCEPT ![d] = FrameId(d, Len(pings[d]) + 1)]
    /\ \E t \in Read(d, outcoming'[d]) : pings' = [pings EXCEPT ![d] = Append(@, t)]
    /\ UNCHANGED <<rand, pongs, ping_read, pong_read, pong_count, overwritten>>

ping_timer_callback(d) ==
    /\ Len(pings[d]) < Len(rand[d].seq)
    /\ outcoming' = [outcoming EXCEPT ![d] = FrameId(d, Len(pings[d]) + 1)]
    /\ pong_count' = [pong_count EXCEPT ![d] = 0]
    /\ \E t \in Read(d, outcoming'[d]) : pings' = [pings EXCEPT ![d] = Append(@, t)]
    /\ UNCHANGED <<rand, pongs, ping_read, pong_read, overwritten>>

\* The executor takes one of the messages that d has not read, n of sender e: those
\* before it were lost on the way.
Taken(read, d, e, sent, n) == n \in (read[d][e] + 1)..Len(sent[e])

\* incoming_ping is taken and ping_subscription_callback called with it: any text
\* but that of the last ping is sent back.
ping_subscription_callback(d, e, n) ==
    /\ Taken(ping_read, d, e, pings, n) /\ ping_read' = [ping_read EXCEPT ![d][e] = n]
    /\ \E mine \in Read(d, outcoming[d]), seen, sent \in Read(d, pings[e][n]) :
          pongs' = IF mine = seen THEN pongs
                   ELSE [pongs EXCEPT ![d] = Append(@, [from |-> e, text |-> sent])]
    /\ UNCHANGED <<rand, pings, pong_read, outcoming, pong_count, overwritten>>

\* incoming_pong is taken and pong_subscription_callback called with it.
pong_subscription_callback(d, e, n) ==
    /\ Taken(pong_read, d, e, pongs, n) /\ pong_read' = [pong_read EXCEPT ![d][e] = n]
    /\ \E mine \in Read(d, outcoming[d]), seen \in Read(d, pongs[e][n].text) :
          pong_count' = IF mine = seen THEN [pong_count EXCEPT ![d] = @ + 1]
                        ELSE pong_count
    /\ UNCHANGED <<rand, pings, pongs, ping_read, outcoming, overwritten>>

Next ==
    \E d \in Devices :
        \/ ping_timer_callback(d)
        \/ \E e \in Devices : \E n \in 1..Len(pings[e]) : ping_subscription_callback(d, e, n)
        \/ \E e \in Devices : \E n \in 1..Len(pongs[e]) : pong_subscription_callback(d, e, n)

Spec == Init /\ [][Next]_vars
-----------------------------------------------------------------------------
Answered(d, e, t) == \E k \in 1..Len(pongs[d]) : pongs[d][k] = [from |-> e, text |-> t]

\* A device has read no more than was sent, and a pong echoes a ping of the
\* device it was taken from, or junk.
TypeOK ==
    /\ overwritten \subseteq Devices
    /\ \A d \in Devices :
          /\ Len(pings[d]) <= Len(rand[d].seq) /\ pong_count[d] \in Nat
          /\ outcoming[d] = Junk \/ outcoming[d] = FrameId(d, Len(pings[d]))
          /\ \A e \in Devices : /\ ping_read[d][e] \in 0..Len(pings[e])
                               /\ pong_read[d][e] \in 0..Len(pongs[e])
          /\ \A k \in 1..Len(pongs[d]) :
                \/ pongs[d][k].text = Junk
                \/ \E n \in 1..Len(pings[pongs[d][k].from]) :
                      pongs[d][k].text = pings[pongs[d][k].from][n]

\* No two pings have the same frame_id, whoever sent them.
Distinct ==
    \A d, e \in Devices : \A m \in 1..Len(rand[d].seq), n \in 1..Len(rand[e].seq) :
        FrameId(d, m) = FrameId(e, n) => d = e /\ m = n

\* pong_count counts each answer of another device to the last ping at most once,
\* and nothing else: not the answers to earlier pings that arrive late, not the
\* pongs meant for others, and not the device's own.  This is so when the draws of
\* rand() tell the pings apart, on every device whose texts were left alone, even
\* if those of others were not.
PongsWereSent ==
    Distinct => \A d \in Devices \ overwritten :
        pings[d] # << >> =>
            pong_count[d] <=
                Cardinality({e \in Devices \ {d} : Answered(e, d, outcoming[d])})

\* A device does not answer its own pings.
NoSelfPong == \A d \in Devices : \A k \in 1..Len(pongs[d]) : pongs[d][k].from # d
=============================================================================
