--------------------------- MODULE ExamplesProofs ---------------------------
(***************************************************************************)
(* What pong_count counts, for any number of devices and pings, and        *)
(* whatever is lost or late on the way.  The life of the commands, for     *)
(* every set of firmwares, any number of sessions and nodes in the         *)
(* client's pools and any sequence of commands.  The control of the robot. *)
(* And what follows for the examples side by side, as MCApplications       *)
(* composes them.                                                          *)
(***************************************************************************)
EXTENDS MCApplications, FiniteSetTheorems, TLAPS
-----------------------------------------------------------------------------
\* What a text may be.
Texts == (Nat \X Nat) \cup {Junk}
Pongs == [from : Devices, text : Texts]

\* What rand() returns is a number.
DrawsOK == \A d \in Devices : rand[d].id \in Nat /\ rand[d].seq \in Seq(Nat)

\* The types, and that nothing is read that was not sent.
CountsOK ==
    /\ DrawsOK /\ overwritten \subseteq Devices
    /\ pings \in [Devices -> Seq(Texts)] /\ pongs \in [Devices -> Seq(Pongs)]
    /\ ping_read \in [Devices -> [Devices -> Nat]]
    /\ pong_read \in [Devices -> [Devices -> Nat]]
    /\ outcoming \in [Devices -> Texts] /\ pong_count \in [Devices -> Nat]
    /\ \A d \in Devices : Len(pings[d]) <= Len(rand[d].seq)
    /\ \A d, e \in Devices : /\ ping_read[d][e] <= Len(pings[e])
                             /\ pong_read[d][e] <= Len(pongs[e])

\* Ping n of a device has its frame_id of number n, unless its text was overwritten;
\* outcoming_ping keeps the one of the last ping.
PingInv ==
    \A d \in Devices :
        /\ outcoming[d] = IF Len(pings[d]) = 0 THEN Junk ELSE FrameId(d, Len(pings[d]))
        /\ \A n \in 1..Len(pings[d]) :
              \/ pings[d][n] = FrameId(d, n)
              \/ d \in overwritten /\ pings[d][n] = Junk

\* A pong that is not junk echoes a ping that its sender has read.
Echoes(d, p) == \E n \in 1..ping_read[d][p.from] : p.text = pings[p.from][n]
EchoInv ==
    \A d \in Devices : \A k \in 1..Len(pongs[d]) :
        pongs[d][k].text = Junk \/ Echoes(d, pongs[d][k])
-----------------------------------------------------------------------------
\* A text that was written is a frame_id, and not junk.
LEMMA FrameIdType ==
    ASSUME DrawsOK, NEW d \in Devices, NEW n \in 1..Len(rand[d].seq)
    PROVE  FrameId(d, n) \in Nat \X Nat /\ FrameId(d, n) \in Texts /\ FrameId(d, n) # Junk
<1>1. rand[d].seq[n] \in Nat /\ rand[d].id \in Nat
  BY DEF DrawsOK
<1> QED BY <1>1, PingPongAssumption DEF FrameId, Texts

\* A device sends no more pings than it draws numbers.
LEMMA SentDrawn ==
    ASSUME CountsOK, NEW d \in Devices
    PROVE  /\ Len(pings[d]) \in Nat /\ Len(rand[d].seq) \in Nat
           /\ Len(pings[d]) <= Len(rand[d].seq)
<1>1. /\ pings[d] \in Seq(Texts) /\ rand[d].seq \in Seq(Nat)
      /\ Len(pings[d]) <= Len(rand[d].seq)
  BY DEF CountsOK, DrawsOK
<1> QED BY <1>1

\* A device reads no more than was sent.
LEMMA ReadSent ==
    ASSUME CountsOK, NEW d \in Devices, NEW e \in Devices
    PROVE  /\ Len(pings[e]) \in Nat /\ Len(pongs[e]) \in Nat
           /\ ping_read[d][e] \in Nat /\ ping_read[d][e] <= Len(pings[e])
           /\ pong_read[d][e] \in Nat /\ pong_read[d][e] <= Len(pongs[e])
<1>1. pings[e] \in Seq(Texts) /\ pongs[e] \in Seq(Pongs)
  BY DEF CountsOK
<1>2. ping_read[d] \in [Devices -> Nat] /\ pong_read[d] \in [Devices -> Nat]
  BY DEF CountsOK
<1> QED BY <1>1, <1>2 DEF CountsOK

\* What is read is what was written, or junk where the shell is used.
LEMMA ReadType ==
    ASSUME NEW d, NEW t \in Texts, NEW u \in Read(d, t)
    PROVE  u \in Texts /\ (u = t \/ (u = Junk /\ d \in overwritten))
BY DEF Read, Texts

\* A sequence after Append.
LEMMA AppendAt ==
    ASSUME NEW S, NEW s \in Seq(S), NEW x \in S
    PROVE  /\ Append(s, x) \in Seq(S) /\ Len(s) \in Nat /\ Len(Append(s, x)) = Len(s) + 1
           /\ Append(s, x)[Len(s) + 1] = x
           /\ \A n \in 1..Len(s) : Append(s, x)[n] = s[n]
OBVIOUS

\* The three callbacks, as they change the variables.
Pinged(d, t) ==
    /\ Len(pings[d]) < Len(rand[d].seq) /\ t \in Read(d, FrameId(d, Len(pings[d]) + 1))
    /\ outcoming' = [outcoming EXCEPT ![d] = FrameId(d, Len(pings[d]) + 1)]
    /\ pong_count' = [pong_count EXCEPT ![d] = 0]
    /\ pings' = [pings EXCEPT ![d] = Append(pings[d], t)]
    /\ UNCHANGED <<rand, pongs, ping_read, pong_read, overwritten>>

\* The timer callback.
LEMMA PingedStep ==
    ASSUME CountsOK, NEW d \in Devices, ping_timer_callback(d)
    PROVE  \E t : Pinged(d, t)
<1>1. outcoming'[d] = FrameId(d, Len(pings[d]) + 1)
  BY DEF ping_timer_callback, CountsOK
<1> QED BY <1>1 DEF ping_timer_callback, Pinged

\* The text of the new ping is its frame_id, or was overwritten.
LEMMA PingedText ==
    ASSUME CountsOK, NEW d \in Devices, NEW t, Pinged(d, t)
    PROVE  /\ Len(pings[d]) + 1 \in 1..Len(rand[d].seq) /\ t \in Texts
           /\ FrameId(d, Len(pings[d]) + 1) \in Texts
           /\ \/ t = FrameId(d, Len(pings[d]) + 1)
              \/ t = Junk /\ d \in overwritten
<1>1. Len(pings[d]) + 1 \in 1..Len(rand[d].seq)
  BY DEF Pinged, CountsOK, DrawsOK
<1> QED BY <1>1, FrameIdType, ReadType DEF Pinged, CountsOK

\* d takes ping n of e, and answers with pong p or not at all.
Answers(d, e, n, p) ==
    /\ n \in (ping_read[d][e] + 1)..Len(pings[e])
    /\ ping_read' = [ping_read EXCEPT ![d][e] = n]
    /\ \/ pongs' = pongs
       \/ /\ pongs' = [pongs EXCEPT ![d] = Append(pongs[d], p)]
          /\ p \in Pongs /\ p.from = e /\ p.text \in Read(d, pings[e][n])
          /\ d \notin overwritten => p.text = pings[e][n] /\ p.text # outcoming[d]
    /\ UNCHANGED <<rand, pings, pong_read, outcoming, pong_count, overwritten>>

\* The callback of the ping subscription.
LEMMA AnswersStep ==
    ASSUME CountsOK, NEW d \in Devices, NEW e \in Devices, NEW n \in 1..Len(pings[e]),
           ping_subscription_callback(d, e, n)
    PROVE  \E p : Answers(d, e, n, p)
<1>1. PICK mine \in Read(d, outcoming[d]), seen \in Read(d, pings[e][n]),
           sent \in Read(d, pings[e][n]) :
        pongs' = IF mine = seen THEN pongs
                 ELSE [pongs EXCEPT ![d] = Append(@, [from |-> e, text |-> sent])]
  BY DEF ping_subscription_callback
<1>2. pings[e][n] \in Texts
  BY DEF CountsOK
<1>3. sent \in Texts
  BY <1>2, ReadType
<1> DEFINE p == [from |-> e, text |-> sent]
<1>4. p \in Pongs /\ p.from = e /\ p.text = sent
  BY <1>3 DEF Pongs
<1>5. d \notin overwritten => mine = outcoming[d] /\ seen = pings[e][n] /\ sent = pings[e][n]
  BY <1>1 DEF Read
<1>6. /\ n \in (ping_read[d][e] + 1)..Len(pings[e])
      /\ ping_read' = [ping_read EXCEPT ![d][e] = n]
      /\ UNCHANGED <<rand, pings, pong_read, outcoming, pong_count, overwritten>>
  BY DEF ping_subscription_callback, Taken
<1>7. CASE mine = seen
  BY <1>1, <1>6, <1>7 DEF Answers
<1>8. CASE mine # seen
  <2>1. pongs' = [pongs EXCEPT ![d] = Append(pongs[d], p)]
    BY <1>1, <1>8
  <2>2. d \notin overwritten => p.text = pings[e][n] /\ p.text # outcoming[d]
    BY <1>4, <1>5, <1>8
  <2> HIDE DEF p
  <2> QED BY <1>1, <1>4, <1>6, <2>1, <2>2 DEF Answers
<1> QED BY <1>7, <1>8

\* d takes pong n of e, and counts it or not.
Counts(d, e, n) ==
    /\ n \in (pong_read[d][e] + 1)..Len(pongs[e])
    /\ pong_read' = [pong_read EXCEPT ![d][e] = n]
    /\ \/ pong_count' = pong_count
       \/ /\ pong_count' = [pong_count EXCEPT ![d] = pong_count[d] + 1]
          /\ d \notin overwritten => outcoming[d] = pongs[e][n].text
    /\ UNCHANGED <<rand, pings, pongs, ping_read, outcoming, overwritten>>

\* The callback of the pong subscription.
LEMMA CountsStep ==
    ASSUME CountsOK, NEW d \in Devices, NEW e \in Devices, NEW n \in 1..Len(pongs[e]),
           pong_subscription_callback(d, e, n)
    PROVE  Counts(d, e, n)
BY DEF pong_subscription_callback, Taken, Read, Counts, CountsOK

\* Every step is one of these.
LEMMA StepCases ==
    ASSUME CountsOK, [Next]_vars
    PROVE  \/ \E d \in Devices : \E t : Pinged(d, t)
           \/ \E d, e \in Devices : \E n \in 1..Len(pings[e]) : \E p : Answers(d, e, n, p)
           \/ \E d, e \in Devices : \E n \in 1..Len(pongs[e]) : Counts(d, e, n)
           \/ UNCHANGED vars
BY PingedStep, AnswersStep, CountsStep DEF Next
-----------------------------------------------------------------------------
\* The types, and what was read, after a step.
LEMMA CountsOKStep == CountsOK /\ [Next]_vars => CountsOK'
<1> SUFFICES ASSUME CountsOK, [Next]_vars PROVE CountsOK'
  OBVIOUS
<1>t. /\ DrawsOK /\ overwritten \subseteq Devices
      /\ pings \in [Devices -> Seq(Texts)] /\ pongs \in [Devices -> Seq(Pongs)]
      /\ ping_read \in [Devices -> [Devices -> Nat]]
      /\ pong_read \in [Devices -> [Devices -> Nat]]
      /\ outcoming \in [Devices -> Texts] /\ pong_count \in [Devices -> Nat]
  BY DEF CountsOK
<1>l. ASSUME NEW d \in Devices
      PROVE  /\ Len(pings[d]) \in Nat /\ Len(pongs[d]) \in Nat /\ Len(rand[d].seq) \in Nat
             /\ Len(pings[d]) <= Len(rand[d].seq)
  BY DEF CountsOK, DrawsOK
<1>r. ASSUME NEW d \in Devices, NEW e \in Devices
      PROVE  /\ ping_read[d][e] \in Nat /\ ping_read[d][e] <= Len(pings[e])
             /\ pong_read[d][e] \in Nat /\ pong_read[d][e] <= Len(pongs[e])
  BY ReadSent
<1>1. ASSUME NEW d \in Devices, NEW t, Pinged(d, t) PROVE CountsOK'
  <2>0. UNCHANGED <<rand, pongs, ping_read, pong_read, overwritten>>
    BY <1>1 DEF Pinged
  <2>1. Len(pings[d]) + 1 \in 1..Len(rand[d].seq)
    BY <1>1, PingedText
  <2>2. t \in Texts /\ FrameId(d, Len(pings[d]) + 1) \in Texts
    BY <1>1, PingedText
  <2>3. pings[d] \in Seq(Texts)
    BY <1>t
  <2>4. /\ Append(pings[d], t) \in Seq(Texts)
        /\ Len(Append(pings[d], t)) = Len(pings[d]) + 1
    BY <2>2, <2>3, AppendAt
  <2>5. /\ pings' \in [Devices -> Seq(Texts)] /\ outcoming' \in [Devices -> Texts]
        /\ pong_count' \in [Devices -> Nat]
    BY <1>1, <1>t, <2>2, <2>4 DEF Pinged
  <2>6. pings'[d] = Append(pings[d], t) /\ \A e \in Devices \ {d} : pings'[e] = pings[e]
    BY <1>1, <1>t DEF Pinged
  <2>7. \A e \in Devices : Len(pings'[e]) <= Len(rand[e].seq)
    BY <1>l, <2>1, <2>4, <2>6
  <2>8. ASSUME NEW b \in Devices, NEW e \in Devices PROVE ping_read[b][e] <= Len(pings'[e])
    <3>1. CASE e = d
      BY <1>l, <1>r, <2>4, <2>6, <3>1
    <3>2. CASE e # d
      BY <1>r, <2>6, <3>2
    <3> QED BY <3>1, <3>2
  <2> QED BY <1>r, <1>t, <2>0, <2>5, <2>7, <2>8 DEF CountsOK, DrawsOK
<1>2. ASSUME NEW d \in Devices, NEW e \in Devices, NEW n \in 1..Len(pings[e]), NEW p,
             Answers(d, e, n, p)
      PROVE  CountsOK'
  <2>1. UNCHANGED <<rand, pings, pong_read, outcoming, pong_count, overwritten>>
    BY <1>2 DEF Answers
  <2>2. /\ ping_read' \in [Devices -> [Devices -> Nat]]
        /\ \A b, f \in Devices : ping_read'[b][f] <= Len(pings[f])
    <3>1. /\ ping_read' = [ping_read EXCEPT ![d][e] = n] /\ n \in Nat /\ n <= Len(pings[e])
      BY <1>2, <1>l DEF Answers
    <3> QED BY <1>r, <1>t, <3>1
  <2>3. /\ pongs' \in [Devices -> Seq(Pongs)]
        /\ \A b \in Devices : Len(pongs'[b]) \in Nat /\ Len(pongs'[b]) >= Len(pongs[b])
    <3>1. CASE pongs' = pongs
      BY <1>l, <1>t, <3>1
    <3>2. CASE p \in Pongs /\ pongs' = [pongs EXCEPT ![d] = Append(pongs[d], p)]
      <4>0. pongs[d] \in Seq(Pongs)
        BY <1>t
      <4>1. Append(pongs[d], p) \in Seq(Pongs) /\ Len(Append(pongs[d], p)) = Len(pongs[d]) + 1
        BY <3>2, <4>0, AppendAt
      <4>2. /\ pongs' \in [Devices -> Seq(Pongs)] /\ pongs'[d] = Append(pongs[d], p)
            /\ \A b \in Devices \ {d} : pongs'[b] = pongs[b]
        BY <1>t, <3>2, <4>1
      <4>3. ASSUME NEW b \in Devices
            PROVE  Len(pongs'[b]) \in Nat /\ Len(pongs'[b]) >= Len(pongs[b])
        <5>1. CASE b = d
          BY <1>l, <4>1, <4>2, <5>1
        <5>2. CASE b # d
          BY <1>l, <4>2, <5>2
        <5> QED BY <5>1, <5>2
      <4> QED BY <4>2, <4>3
    <3> QED BY <1>2, <3>1, <3>2 DEF Answers
  <2>4. ASSUME NEW b \in Devices, NEW f \in Devices PROVE pong_read[b][f] <= Len(pongs'[f])
    <3>1. Len(pongs'[f]) \in Nat /\ Len(pongs'[f]) >= Len(pongs[f]) /\ Len(pongs[f]) \in Nat
      BY <1>l, <2>3
    <3> QED BY <1>r, <3>1
  <2> QED BY <1>l, <1>t, <2>1, <2>2, <2>3, <2>4 DEF CountsOK, DrawsOK
<1>3. ASSUME NEW d \in Devices, NEW e \in Devices, NEW n \in 1..Len(pongs[e]), Counts(d, e, n)
      PROVE  CountsOK'
  <2>1. UNCHANGED <<rand, pings, pongs, ping_read, outcoming, overwritten>>
    BY <1>3 DEF Counts
  <2>2. /\ pong_read' \in [Devices -> [Devices -> Nat]]
        /\ \A b, f \in Devices : pong_read'[b][f] <= Len(pongs[f])
    <3>1. /\ pong_read' = [pong_read EXCEPT ![d][e] = n] /\ n \in Nat /\ n <= Len(pongs[e])
      BY <1>3, <1>l DEF Counts
    <3> QED BY <1>r, <1>t, <3>1
  <2>3. pong_count' \in [Devices -> Nat]
    <3>1. pong_count' = pong_count \/ pong_count' = [pong_count EXCEPT ![d] = pong_count[d] + 1]
      BY <1>3 DEF Counts
    <3>2. pong_count[d] + 1 \in Nat
      BY <1>t
    <3> QED BY <1>t, <3>1, <3>2
  <2> QED BY <1>l, <1>r, <1>t, <2>1, <2>2, <2>3 DEF CountsOK, DrawsOK
<1>4. CASE UNCHANGED vars
  BY <1>4 DEF vars, DrawsOK, CountsOK
<1> QED BY <1>1, <1>2, <1>3, <1>4, StepCases

\* What is in a sequence of a function of sequences after an Append to one of them.
LEMMA AppendedAt ==
    ASSUME NEW S, NEW D, NEW f \in [D -> Seq(S)], NEW d \in D, NEW x \in S,
           NEW g, g = [f EXCEPT ![d] = Append(f[d], x)]
    PROVE  /\ g \in [D -> Seq(S)] /\ Len(g[d]) = Len(f[d]) + 1
           /\ \A b \in D :
                 /\ Len(f[b]) \in Nat /\ Len(g[b]) \in Nat /\ Len(f[b]) <= Len(g[b])
                 /\ b # d => g[b] = f[b]
                 /\ \A k \in 1..Len(f[b]) : k \in 1..Len(g[b]) /\ g[b][k] = f[b][k]
                 /\ \A k \in 1..Len(g[b]) :
                       \/ k \in 1..Len(f[b]) /\ g[b][k] = f[b][k]
                       \/ b = d /\ k = Len(f[d]) + 1 /\ g[b][k] = x
<1>1. f[d] \in Seq(S)
  OBVIOUS
<1>2. /\ Append(f[d], x) \in Seq(S) /\ Len(f[d]) \in Nat
      /\ Len(Append(f[d], x)) = Len(f[d]) + 1
      /\ Append(f[d], x)[Len(f[d]) + 1] = x
      /\ \A n \in 1..Len(f[d]) : Append(f[d], x)[n] = f[d][n]
  BY <1>1, AppendAt
<1>3. /\ g \in [D -> Seq(S)] /\ g[d] = Append(f[d], x) /\ \A b \in D \ {d} : g[b] = f[b]
  BY <1>2
<1>4. ASSUME NEW b \in D
      PROVE  /\ Len(f[b]) \in Nat /\ Len(g[b]) \in Nat /\ Len(f[b]) <= Len(g[b])
             /\ b # d => g[b] = f[b]
             /\ \A k \in 1..Len(f[b]) : k \in 1..Len(g[b]) /\ g[b][k] = f[b][k]
             /\ \A k \in 1..Len(g[b]) :
                   \/ k \in 1..Len(f[b]) /\ g[b][k] = f[b][k]
                   \/ b = d /\ k = Len(f[d]) + 1 /\ g[b][k] = x
  <2>1. CASE b = d
    BY <1>2, <1>3, <2>1
  <2>2. CASE b # d
    <3>1. g[b] = f[b] /\ Len(f[b]) \in Nat
      BY <1>3, <2>2
    <3> QED BY <2>2, <3>1
  <2> QED BY <2>1, <2>2
<1> QED BY <1>2, <1>3, <1>4

\* The texts of the pings after a step.
LEMMA PingStep == CountsOK /\ PingInv /\ [Next]_vars => PingInv'
<1> SUFFICES ASSUME CountsOK, PingInv, [Next]_vars PROVE PingInv'
  OBVIOUS
<1>1. ASSUME NEW d \in Devices, NEW t, Pinged(d, t) PROVE PingInv'
  <2>1. /\ UNCHANGED <<rand, overwritten>> /\ pings \in [Devices -> Seq(Texts)]
        /\ pings' = [pings EXCEPT ![d] = Append(pings[d], t)]
        /\ outcoming \in [Devices -> Texts]
        /\ outcoming' = [outcoming EXCEPT ![d] = FrameId(d, Len(pings[d]) + 1)]
    BY <1>1 DEF Pinged, CountsOK
  <2>2. /\ t \in Texts
        /\ \/ t = FrameId(d, Len(pings[d]) + 1)
           \/ t = Junk /\ d \in overwritten
    BY <1>1, PingedText
  <2>3. \A b \in Devices : \A n : FrameId(b, n)' = FrameId(b, n)
    BY <2>1 DEF FrameId
  <2>4. ASSUME NEW b \in Devices
        PROVE  /\ outcoming'[b] = IF Len(pings'[b]) = 0 THEN Junk ELSE FrameId(b, Len(pings'[b]))
               /\ \A n \in 1..Len(pings'[b]) :
                     \/ pings'[b][n] = FrameId(b, n)
                     \/ b \in overwritten /\ pings'[b][n] = Junk
    <3>1. /\ outcoming[b] = IF Len(pings[b]) = 0 THEN Junk ELSE FrameId(b, Len(pings[b]))
          /\ \A n \in 1..Len(pings[b]) :
                \/ pings[b][n] = FrameId(b, n)
                \/ b \in overwritten /\ pings[b][n] = Junk
      BY DEF PingInv
    <3>2. CASE b = d
      <4>1. /\ Len(pings[d]) \in Nat /\ Len(pings'[d]) = Len(pings[d]) + 1
            /\ \A k \in 1..Len(pings'[d]) :
                  \/ k \in 1..Len(pings[d]) /\ pings'[d][k] = pings[d][k]
                  \/ k = Len(pings[d]) + 1 /\ pings'[d][k] = t
        BY <2>1, <2>2, AppendedAt
      <4>2. outcoming'[d] = FrameId(d, Len(pings[d]) + 1)
        BY <2>1
      <4> QED BY <2>2, <3>1, <3>2, <4>1, <4>2
    <3>3. CASE b # d
      <4>1. pings'[b] = pings[b] /\ outcoming'[b] = outcoming[b]
        BY <2>1, <3>3
      <4> QED BY <3>1, <4>1
    <3> QED BY <3>2, <3>3
  <2> QED BY <2>1, <2>3, <2>4 DEF PingInv, FrameId
<1>2. CASE UNCHANGED <<rand, pings, outcoming, overwritten>>
  BY <1>2 DEF PingInv, FrameId
<1> QED BY <1>1, <1>2, StepCases DEF Answers, Counts, vars

\* What the pongs echo after a step.
LEMMA EchoStep == CountsOK /\ EchoInv /\ [Next]_vars => EchoInv'
<1> DEFINE Echoed(b, q) ==
      q.text = Junk \/ \E n \in 1..ping_read'[b][q.from] : q.text = pings'[q.from][n]
<1> SUFFICES ASSUME CountsOK, EchoInv, [Next]_vars,
                    NEW b \in Devices, NEW k \in 1..Len(pongs'[b])
             PROVE  Echoed(b, pongs'[b][k])
  BY DEF EchoInv, Echoes
<1>t. /\ pings \in [Devices -> Seq(Texts)] /\ pongs \in [Devices -> Seq(Pongs)]
      /\ ping_read \in [Devices -> [Devices -> Nat]]
      /\ \A d, e \in Devices : ping_read[d][e] <= Len(pings[e])
  BY DEF CountsOK
\* what was echoed before still is
<1>k. ASSUME NEW p \in Pongs, p.text = Junk \/ Echoes(b, p),
             \A f \in Devices : ping_read'[b][f] \in Nat /\ ping_read[b][f] <= ping_read'[b][f],
             \A f \in Devices : \A n \in 1..Len(pings[f]) : pings'[f][n] = pings[f][n]
      PROVE  Echoed(b, p)
  <2>1. p.from \in Devices
    BY DEF Pongs
  <2> SUFFICES ASSUME p.text # Junk
               PROVE  \E n \in 1..ping_read'[b][p.from] : p.text = pings'[p.from][n]
    OBVIOUS
  <2>2. PICK n \in 1..ping_read[b][p.from] : p.text = pings[p.from][n]
    BY <1>k DEF Echoes
  <2>3. /\ ping_read[b][p.from] \in Nat /\ ping_read[b][p.from] <= Len(pings[p.from])
        /\ Len(pings[p.from]) \in Nat
        /\ ping_read'[b][p.from] \in Nat /\ ping_read[b][p.from] <= ping_read'[b][p.from]
    BY <1>k, <2>1, ReadSent
  <2>4. n \in 1..ping_read'[b][p.from] /\ n \in 1..Len(pings[p.from])
    BY <2>3
  <2> QED BY <1>k, <2>1, <2>2, <2>4
<1>p. ASSUME NEW j \in 1..Len(pongs[b])
      PROVE  pongs[b][j] \in Pongs /\ (pongs[b][j].text = Junk \/ Echoes(b, pongs[b][j]))
  BY <1>t DEF EchoInv
<1>1. ASSUME NEW d \in Devices, NEW t, Pinged(d, t)
      PROVE  Echoed(b, pongs'[b][k])
  <2>1. /\ UNCHANGED <<pongs, ping_read>>
        /\ pings' = [pings EXCEPT ![d] = Append(pings[d], t)] /\ t \in Texts
    BY <1>1, PingedText DEF Pinged
  <2>2. \A f \in Devices : \A n \in 1..Len(pings[f]) : pings'[f][n] = pings[f][n]
    BY <1>t, <2>1, AppendedAt
  <2>3. pongs'[b][k] \in Pongs /\ (pongs'[b][k].text = Junk \/ Echoes(b, pongs'[b][k]))
    BY <1>p, <2>1
  <2>4. \A f \in Devices : ping_read'[b][f] \in Nat /\ ping_read[b][f] <= ping_read'[b][f]
    BY <1>t, <2>1
  <2> HIDE DEF Echoed
  <2> QED BY <1>k, <2>2, <2>3, <2>4
<1>2. ASSUME NEW d \in Devices, NEW e \in Devices, NEW n \in 1..Len(pings[e]), NEW p,
             Answers(d, e, n, p)
      PROVE  Echoed(b, pongs'[b][k])
  <2>1. /\ pings' = pings /\ ping_read' = [ping_read EXCEPT ![d][e] = n]
        /\ n \in Nat /\ n > ping_read[d][e]
    BY <1>2, ReadSent DEF Answers
  <2>2. \A f \in Devices : ping_read'[b][f] \in Nat /\ ping_read[b][f] <= ping_read'[b][f]
    <3> TAKE f \in Devices
    <3>1. CASE b = d /\ f = e
      BY <1>t, <2>1, <3>1
    <3>2. CASE ~(b = d /\ f = e)
      <4>1. ping_read'[b][f] = ping_read[b][f]
        BY <1>t, <2>1, <3>2
      <4>2. ping_read[b][f] \in Nat
        BY <1>t
      <4> QED BY <4>1, <4>2
    <3> QED BY <3>1, <3>2
  <2>3. CASE k \in 1..Len(pongs[b]) /\ pongs'[b][k] = pongs[b][k]
    <3> HIDE DEF Echoed
    <3> QED BY <1>k, <1>p, <2>1, <2>2, <2>3
  <2>4. CASE b = d /\ pongs'[b][k] = p /\ p.from = e /\ p.text \in Read(d, pings[e][n])
    <3>1. ping_read'[b][e] = n /\ n \in 1..n
      BY <1>t, <2>1, <2>4
    <3>2. p.text = pings[e][n] \/ p.text = Junk
      BY <2>4 DEF Read
    <3> QED BY <2>1, <2>4, <3>1, <3>2 DEF Echoes
  <2>5. CASE pongs' = pongs
    BY <2>3, <2>5
  <2>6. CASE /\ pongs' = [pongs EXCEPT ![d] = Append(pongs[d], p)]
             /\ p \in Pongs /\ p.from = e /\ p.text \in Read(d, pings[e][n])
    <3>1. \/ k \in 1..Len(pongs[b]) /\ pongs'[b][k] = pongs[b][k]
          \/ b = d /\ pongs'[b][k] = p
      <4>1. pongs \in [Devices -> Seq(Pongs)]
        BY <1>t
      <4> QED BY <2>6, <4>1, AppendedAt
    <3> QED BY <2>3, <2>4, <2>6, <3>1
  <2> QED BY <1>2, <2>5, <2>6 DEF Answers
<1>3. CASE UNCHANGED <<pings, pongs, ping_read>>
  BY <1>3, <1>p DEF Echoes
<1> QED BY <1>1, <1>2, <1>3, StepCases DEF Counts, vars
-----------------------------------------------------------------------------
\* Where the draws of rand() tell the pings apart.

\* A device answers a ping once at most.
OnceInv ==
    \A e \in Devices : \A j, k \in 1..Len(pongs[e]) :
        pongs[e][j].text = pongs[e][k].text /\ pongs[e][k].text # Junk => j = k

\* A device does not answer its last ping, while its texts are left alone.
OwnInv ==
    \A d \in Devices \ overwritten : Len(pings[d]) > 0 =>
        \A k \in 1..Len(pongs[d]) : pongs[d][k].text # outcoming[d]

\* The devices whose answer to the last ping d has taken.
Counted(d) ==
    {e \in Devices \ {d} : \E k \in 1..pong_read[d][e] : pongs[e][k].text = outcoming[d]}

\* Each of them is counted once.
CountInv ==
    \A d \in Devices \ overwritten :
        Len(pings[d]) > 0 => pong_count[d] <= Cardinality(Counted(d))

\* A pong with the frame_id of ping n of device d is the answer of a device that
\* has read this ping.
LEMMA Source ==
    ASSUME CountsOK, PingInv, EchoInv, Distinct,
           NEW d \in Devices, NEW n \in 1..Len(rand[d].seq),
           NEW e \in Devices, NEW k \in 1..Len(pongs[e]), pongs[e][k].text = FrameId(d, n)
    PROVE  pongs[e][k].from = d /\ n <= ping_read[e][d]
<1> DEFINE p == pongs[e][k]
           f == p.from
<1>0. p \in Pongs
  BY DEF CountsOK
<1>1. f \in Devices
  BY <1>0 DEF Pongs
<1>2. FrameId(d, n) # Junk
  BY FrameIdType DEF CountsOK
<1>3. PICK i \in 1..ping_read[e][f] : p.text = pings[f][i]
  BY <1>2 DEF EchoInv, Echoes
<1>4. /\ ping_read[e][f] \in Nat /\ ping_read[e][f] <= Len(pings[f])
      /\ Len(pings[f]) \in Nat /\ Len(pings[f]) <= Len(rand[f].seq) /\ Len(rand[f].seq) \in Nat
  <2> HIDE DEF f
  <2> QED BY <1>1, ReadSent, SentDrawn
<1>5. i \in 1..Len(pings[f]) /\ i \in 1..Len(rand[f].seq) /\ i <= ping_read[e][f]
  BY <1>3, <1>4
<1>6. pings[f][i] = FrameId(f, i)
  BY <1>1, <1>2, <1>3, <1>5 DEF PingInv
<1>7. f = d /\ i = n
  BY <1>1, <1>3, <1>5, <1>6 DEF Distinct
<1> QED BY <1>5, <1>7

\* Pings are read in order, so that a second answer would need another frame_id.
LEMMA OnceStep ==
    ASSUME CountsOK, PingInv, EchoInv, Distinct, OnceInv, [Next]_vars PROVE OnceInv'
<1>t. pongs \in [Devices -> Seq(Pongs)] /\ pings \in [Devices -> Seq(Texts)]
  BY DEF CountsOK
<1>1. ASSUME NEW d \in Devices, NEW e \in Devices, NEW n \in 1..Len(pings[e]), NEW p,
             Answers(d, e, n, p)
      PROVE  OnceInv'
  <2>1. CASE pongs' = pongs
    BY <2>1 DEF OnceInv
  <2>2. CASE /\ pongs' = [pongs EXCEPT ![d] = Append(pongs[d], p)]
             /\ p \in Pongs /\ p.from = e /\ p.text \in Read(d, pings[e][n])
    \* it has not answered this ping before
    <3>1. ASSUME NEW k \in 1..Len(pongs[d]), pongs[d][k].text = p.text, p.text # Junk
          PROVE  FALSE
      <4>1. pings[e][n] = FrameId(e, n) /\ p.text = FrameId(e, n)
        BY <2>2, <3>1 DEF Read, PingInv
      <4>2. n \in 1..Len(rand[e].seq)
        BY <1>t, SentDrawn
      <4>3. n <= ping_read[d][e]
        BY <3>1, <4>1, <4>2, Source
      <4>4. n >= ping_read[d][e] + 1 /\ ping_read[d][e] \in Nat
        BY <1>1 DEF Answers, CountsOK
      <4> QED BY <4>3, <4>4
    <3>2. \A b \in Devices : \A k \in 1..Len(pongs'[b]) :
             \/ k \in 1..Len(pongs[b]) /\ pongs'[b][k] = pongs[b][k]
             \/ b = d /\ k = Len(pongs[d]) + 1 /\ pongs'[b][k] = p
      BY <1>t, <2>2, AppendedAt
    <3>3. ASSUME NEW b \in Devices, NEW i \in 1..Len(pongs'[b]), NEW k \in 1..Len(pongs'[b]),
                 pongs'[b][i].text = pongs'[b][k].text, pongs'[b][k].text # Junk
          PROVE  i = k
      <4>1. CASE i \in 1..Len(pongs[b]) /\ pongs'[b][i] = pongs[b][i]
        <5>1. CASE k \in 1..Len(pongs[b]) /\ pongs'[b][k] = pongs[b][k]
          BY <3>3, <4>1, <5>1 DEF OnceInv
        <5> QED BY <3>1, <3>2, <3>3, <4>1, <5>1
      <4>2. CASE b = d /\ i = Len(pongs[d]) + 1 /\ pongs'[b][i] = p
        BY <3>1, <3>2, <3>3, <4>2
      <4> QED BY <3>2, <4>1, <4>2
    <3> QED BY <3>3 DEF OnceInv
  <2> QED BY <1>1, <2>1, <2>2 DEF Answers
<1>2. CASE UNCHANGED pongs
  BY <1>2 DEF OnceInv
<1> QED BY <1>1, <1>2, StepCases DEF Pinged, Counts, vars

\* The frame_id of a new ping is in no pong yet, and its sender compares with it.
LEMMA OwnStep ==
    ASSUME CountsOK, PingInv, EchoInv, Distinct, OwnInv, [Next]_vars PROVE OwnInv'
<1>t. /\ pongs \in [Devices -> Seq(Pongs)] /\ pings \in [Devices -> Seq(Texts)]
      /\ outcoming \in [Devices -> Texts]
  BY DEF CountsOK
<1>1. ASSUME NEW d \in Devices, NEW t, Pinged(d, t) PROVE OwnInv'
  <2>1. /\ UNCHANGED <<pongs, overwritten>> /\ outcoming'[d] = FrameId(d, Len(pings[d]) + 1)
        /\ \A b \in Devices \ {d} : pings'[b] = pings[b] /\ outcoming'[b] = outcoming[b]
    BY <1>1, <1>t DEF Pinged
  <2>2. ASSUME NEW k \in 1..Len(pongs[d]), pongs[d][k].text = FrameId(d, Len(pings[d]) + 1)
        PROVE  FALSE
    <3>1. Len(pings[d]) + 1 <= ping_read[d][d]
      BY <1>1, <2>2, PingedText, Source
    <3>2. ping_read[d][d] <= Len(pings[d]) /\ Len(pings[d]) \in Nat /\ ping_read[d][d] \in Nat
      BY DEF CountsOK
    <3> QED BY <3>1, <3>2
  <2> QED BY <2>1, <2>2 DEF OwnInv
<1>2. ASSUME NEW d \in Devices, NEW e \in Devices, NEW n \in 1..Len(pings[e]), NEW p,
             Answers(d, e, n, p)
      PROVE  OwnInv'
  <2>1. UNCHANGED <<pings, outcoming, overwritten>>
    BY <1>2 DEF Answers
  <2>2. CASE pongs' = pongs
    BY <2>1, <2>2 DEF OwnInv
  <2>3. CASE /\ pongs' = [pongs EXCEPT ![d] = Append(pongs[d], p)] /\ p \in Pongs
             /\ d \notin overwritten => p.text # outcoming[d]
    <3>1. \A b \in Devices : \A k \in 1..Len(pongs'[b]) :
             \/ k \in 1..Len(pongs[b]) /\ pongs'[b][k] = pongs[b][k]
             \/ b = d /\ k = Len(pongs[d]) + 1 /\ pongs'[b][k] = p
      BY <1>t, <2>3, AppendedAt
    <3> QED BY <2>1, <2>3, <3>1 DEF OwnInv
  <2> QED BY <1>2, <2>2, <2>3 DEF Answers
<1>3. CASE UNCHANGED <<pings, pongs, outcoming, overwritten>>
  BY <1>3 DEF OwnInv
<1> QED BY <1>1, <1>2, <1>3, StepCases DEF Counts, vars

\* A device is counted once, in a finite set.
LEMMA CountedFinite ==
    ASSUME NEW d \in Devices, NEW S \in SUBSET Devices
    PROVE  IsFiniteSet(S) /\ Cardinality(S) \in Nat
BY FS_Subset, FS_CardinalityType, PingPongAssumption

\* A pong that is counted is the first of its sender with this frame_id.
LEMMA CountStep ==
    ASSUME CountsOK, PingInv, EchoInv, Distinct, OnceInv, OwnInv, CountInv, [Next]_vars
    PROVE  CountInv'
<1> DEFINE CountedNext(d) ==
      {e \in Devices \ {d} : \E k \in 1..pong_read'[d][e] : pongs'[e][k].text = outcoming'[d]}
<1> SUFFICES ASSUME NEW b \in Devices \ overwritten', Len(pings'[b]) > 0
             PROVE  pong_count'[b] <= Cardinality(CountedNext(b))
  BY DEF CountInv, Counted
<1>t. /\ pongs \in [Devices -> Seq(Pongs)] /\ pings \in [Devices -> Seq(Texts)]
      /\ outcoming \in [Devices -> Texts] /\ pong_count \in [Devices -> Nat]
      /\ pong_read \in [Devices -> [Devices -> Nat]]
      /\ \A d, e \in Devices : pong_read[d][e] \in Nat /\ pong_read[d][e] <= Len(pongs[e])
      /\ \A e \in Devices : Len(pongs[e]) \in Nat /\ Len(pings[e]) \in Nat
  BY DEF CountsOK
<1>f. /\ IsFiniteSet(Counted(b)) /\ Cardinality(Counted(b)) \in Nat
      /\ IsFiniteSet(CountedNext(b)) /\ Cardinality(CountedNext(b)) \in Nat
  <2>1. Counted(b) \in SUBSET Devices /\ CountedNext(b) \in SUBSET Devices
    BY DEF Counted
  <2> HIDE DEF CountedNext
  <2> QED BY <2>1, CountedFinite
\* as many are counted as before, and the devices counted are still there
<1>k. ASSUME pong_count'[b] = pong_count[b], b \notin overwritten, Len(pings[b]) > 0,
             Counted(b) \subseteq CountedNext(b)
      PROVE  pong_count'[b] <= Cardinality(CountedNext(b))
  <2>1. pong_count[b] <= Cardinality(Counted(b)) /\ pong_count[b] \in Nat
    BY <1>k, <1>t DEF CountInv
  <2> HIDE DEF CountedNext
  <2>2. Cardinality(Counted(b)) <= Cardinality(CountedNext(b))
    BY <1>k, <1>f, FS_Subset
  <2> QED BY <1>f, <1>k, <2>1, <2>2
<1>1. ASSUME NEW d \in Devices, NEW t, Pinged(d, t)
      PROVE  pong_count'[b] <= Cardinality(CountedNext(b))
  <2>1. UNCHANGED <<pongs, pong_read, overwritten>>
    BY <1>1 DEF Pinged
  <2>2. CASE b = d
    <3>1. pong_count'[b] = 0
      BY <1>1, <1>t, <2>2 DEF Pinged
    <3> HIDE DEF CountedNext
    <3> QED BY <1>f, <3>1
  <2>3. CASE b # d
    <3>1. UNCHANGED <<pings[b], outcoming[b], pong_count[b]>>
      BY <1>1, <1>t, <2>3 DEF Pinged
    <3>2. Counted(b) \subseteq CountedNext(b)
      BY <2>1, <3>1 DEF Counted
    <3> HIDE DEF CountedNext
    <3> QED BY <1>k, <2>1, <3>1, <3>2
  <2> QED BY <2>2, <2>3
<1>2. ASSUME NEW d \in Devices, NEW e \in Devices, NEW n \in 1..Len(pings[e]), NEW p,
             Answers(d, e, n, p)
      PROVE  pong_count'[b] <= Cardinality(CountedNext(b))
  <2>1. UNCHANGED <<pings, pong_read, outcoming, pong_count, overwritten>>
    BY <1>2 DEF Answers
  <2>2. \A f \in Devices : \A k \in 1..Len(pongs[f]) : pongs'[f][k] = pongs[f][k]
    <3>1. CASE pongs' = pongs
      BY <3>1
    <3>2. CASE pongs' = [pongs EXCEPT ![d] = Append(pongs[d], p)] /\ p \in Pongs
      <4>1. pongs \in [Devices -> Seq(Pongs)]
        BY <1>t
      <4> QED BY <3>2, <4>1, AppendedAt
    <3> QED BY <1>2, <3>1, <3>2 DEF Answers
  <2>3. ASSUME NEW f \in Counted(b) PROVE f \in CountedNext(b)
    <3>1. PICK k \in 1..pong_read[b][f] : pongs[f][k].text = outcoming[b]
      BY DEF Counted
    <3>2. f \in Devices \ {b} /\ k \in 1..Len(pongs[f])
      <4>1. f \in Devices \ {b}
        BY DEF Counted
      <4> QED BY <4>1, ReadSent
    <3>3. pongs'[f][k] = pongs[f][k]
      BY <2>2, <3>2
    <3> QED BY <2>1, <3>1, <3>2, <3>3
  <2> HIDE DEF CountedNext
  <2> QED BY <1>k, <2>1, <2>3
<1>3. ASSUME NEW d \in Devices, NEW e \in Devices, NEW n \in 1..Len(pongs[e]), Counts(d, e, n)
      PROVE  pong_count'[b] <= Cardinality(CountedNext(b))
  <2>1. UNCHANGED <<pings, pongs, outcoming, overwritten>>
    BY <1>3 DEF Counts
  <2>2. /\ n >= pong_read[d][e] + 1 /\ pong_read[d][e] \in Nat /\ n \in Nat
        /\ pong_read'[d][e] = n
        /\ \A c, f \in Devices : ~(c = d /\ f = e) => pong_read'[c][f] = pong_read[c][f]
    BY <1>3, <1>t DEF Counts
  <2>3. Counted(b) \subseteq CountedNext(b)
    <3> SUFFICES ASSUME NEW f \in Counted(b) PROVE f \in CountedNext(b)
      BY DEF CountedNext
    <3>1. PICK k \in 1..pong_read[b][f] : pongs[f][k].text = outcoming[b]
      BY DEF Counted
    <3>2. f \in Devices \ {b}
      BY DEF Counted
    <3>3. k \in 1..pong_read'[b][f]
      <4>1. CASE b = d /\ f = e
        BY <2>2, <4>1
      <4>2. CASE ~(b = d /\ f = e)
        BY <2>2, <3>2, <4>2
      <4> QED BY <4>1, <4>2
    <3> QED BY <2>1, <3>1, <3>2, <3>3
  <2>4. CASE pong_count'[b] = pong_count[b]
    <3> HIDE DEF CountedNext
    <3> QED BY <1>k, <2>1, <2>3, <2>4
  <2>5. CASE /\ pong_count' = [pong_count EXCEPT ![d] = pong_count[d] + 1] /\ b = d
             /\ d \notin overwritten => outcoming[d] = pongs[e][n].text
    <3>1. outcoming[b] = pongs[e][n].text /\ pong_count'[b] = pong_count[b] + 1
      BY <1>t, <2>1, <2>5
    \* not its own pong
    <3>2. e # b
      BY <2>1, <3>1 DEF OwnInv
    \* and the first of that device
    <3>3. e \notin Counted(b)
      <4> SUFFICES ASSUME e \in Counted(b) PROVE FALSE
        OBVIOUS
      <4>1. PICK k \in 1..pong_read[b][e] : pongs[e][k].text = outcoming[b]
        BY DEF Counted
      <4>2. outcoming[b] # Junk
        <5>0. b \in Devices /\ Len(pings[b]) > 0
          BY <2>1
        <5>1. Len(pings[b]) \in 1..Len(rand[b].seq)
          BY <5>0, SentDrawn
        <5>2. outcoming[b] = FrameId(b, Len(pings[b]))
          BY <1>t, <2>1 DEF PingInv
        <5> QED BY <5>1, <5>2, FrameIdType DEF CountsOK
      <4>3. k \in 1..Len(pongs[e]) /\ k < n
        BY <1>t, <2>2, <2>5
      <4>4. k = n
        BY <3>1, <4>1, <4>2, <4>3 DEF OnceInv
      <4> QED BY <4>3, <4>4
    <3>4. e \in CountedNext(b)
      BY <2>1, <2>2, <2>5, <3>1, <3>2
    <3>5. pong_count[b] <= Cardinality(Counted(b)) /\ pong_count[b] \in Nat
      BY <1>t, <2>1 DEF CountInv
    <3> HIDE DEF CountedNext
    <3>6. Cardinality(Counted(b) \cup {e}) = Cardinality(Counted(b)) + 1
      BY <1>f, <3>3, FS_AddElement
    <3>7. Counted(b) \cup {e} \subseteq CountedNext(b)
      BY <2>3, <3>4
    <3>8. Cardinality(Counted(b) \cup {e}) <= Cardinality(CountedNext(b))
      BY <1>f, <3>7, FS_Subset
    <3> QED BY <1>f, <3>1, <3>5, <3>6, <3>8
  <2>6. \/ pong_count'[b] = pong_count[b]
        \/ /\ pong_count' = [pong_count EXCEPT ![d] = pong_count[d] + 1] /\ b = d
           /\ d \notin overwritten => outcoming[d] = pongs[e][n].text
    BY <1>3, <1>t DEF Counts
  <2> QED BY <2>4, <2>5, <2>6
<1>4. CASE UNCHANGED vars
  <2>1. UNCHANGED <<pings, pongs, pong_read, outcoming, pong_count, overwritten>>
    BY <1>4 DEF vars
  <2>2. Counted(b) \subseteq CountedNext(b)
    BY <2>1 DEF Counted
  <2> HIDE DEF CountedNext
  <2> QED BY <1>k, <2>1, <2>2
<1> HIDE DEF CountedNext
<1> QED BY <1>1, <1>2, <1>3, <1>4, StepCases
-----------------------------------------------------------------------------
\* The inductive invariant.
IInv ==
    /\ CountsOK /\ PingInv /\ EchoInv
    /\ Distinct => OnceInv /\ OwnInv /\ CountInv

\* The invariant holds before the first ping.
LEMMA InitIInv == Init => IInv
<1> SUFFICES ASSUME Init PROVE IInv
  OBVIOUS
<1>1. PICK w \in Worlds : rand = w.rand /\ overwritten = w.used
  BY DEF Init
<1>2. DrawsOK /\ overwritten \subseteq Devices
  BY <1>1, PingPongAssumption DEF DrawsOK
<1>3. /\ pings = [d \in Devices |-> << >>] /\ pongs = [d \in Devices |-> << >>]
      /\ ping_read = Unread /\ pong_read = Unread
      /\ outcoming = [d \in Devices |-> Junk] /\ pong_count = [d \in Devices |-> 0]
  BY DEF Init
<1>4. << >> \in Seq(Texts) /\ << >> \in Seq(Pongs) /\ Len(<< >>) = 0 /\ Junk \in Texts
  BY DEF Texts
<1>5. \A d \in Devices : pings[d] = << >> /\ pongs[d] = << >>
  BY <1>3
<1>6. CountsOK
  <2>1. \A d \in Devices : Len(rand[d].seq) \in Nat
    BY <1>2 DEF DrawsOK
  <2>2. /\ pings \in [Devices -> Seq(Texts)] /\ pongs \in [Devices -> Seq(Pongs)]
        /\ outcoming \in [Devices -> Texts] /\ pong_count \in [Devices -> Nat]
    BY <1>3, <1>4
  <2>3. Unread \in [Devices -> [Devices -> Nat]] /\ \A d, e \in Devices : Unread[d][e] = 0
    BY DEF Unread
  <2> QED BY <1>2, <1>3, <1>4, <1>5, <2>1, <2>2, <2>3 DEF CountsOK
<1>7. PingInv /\ EchoInv
  BY <1>3, <1>4, <1>5 DEF PingInv, EchoInv
<1>8. OnceInv /\ OwnInv /\ CountInv
  BY <1>4, <1>5 DEF OnceInv, OwnInv, CountInv
<1> QED BY <1>6, <1>7, <1>8 DEF IInv

\* Every step preserves the invariant.
LEMMA NextIInv == IInv /\ [Next]_vars => IInv'
<1> SUFFICES ASSUME IInv, [Next]_vars PROVE IInv'
  OBVIOUS
<1>1. CountsOK' /\ PingInv' /\ EchoInv'
  BY CountsOKStep, PingStep, EchoStep DEF IInv
<1>2. rand' = rand
  BY StepCases DEF IInv, Pinged, Answers, Counts, vars
<1>3. Distinct' => Distinct
  BY <1>2 DEF Distinct, FrameId
<1>4. Distinct => OnceInv' /\ OwnInv' /\ CountInv'
  BY OnceStep, OwnStep, CountStep DEF IInv
<1> QED BY <1>1, <1>3, <1>4 DEF IInv

\* The invariant holds of every behaviour.
LEMMA Invariance == Spec => []IInv
BY InitIInv, NextIInv, PTL DEF Spec

\* pong_count is at most the number of other devices that have answered the last
\* ping, however many devices there are, whatever is lost or late, and whatever
\* becomes of the texts of the others.
THEOREM CountedPongsWereSent == Spec => []PongsWereSent
<1>1. IInv => PongsWereSent
  <2> SUFFICES ASSUME IInv, Distinct, NEW d \in Devices \ overwritten, pings[d] # << >>
               PROVE  pong_count[d] <=
                        Cardinality({e \in Devices \ {d} : Answered(e, d, outcoming[d])})
    BY DEF PongsWereSent
  <2> DEFINE A == {e \in Devices \ {d} : Answered(e, d, outcoming[d])}
  <2>1. CountsOK /\ PingInv /\ EchoInv /\ CountInv
    BY DEF IInv
  <2>2. Len(pings[d]) \in Nat /\ Len(pings[d]) > 0 /\ pong_count[d] \in Nat
    BY <2>1 DEF CountsOK
  <2>3. pong_count[d] <= Cardinality(Counted(d))
    BY <2>1, <2>2 DEF CountInv
  <2>4. ASSUME NEW e \in Counted(d) PROVE e \in A
    <3>1. PICK k \in 1..pong_read[d][e] : pongs[e][k].text = outcoming[d]
      BY DEF Counted
    <3>2. e \in Devices \ {d}
      BY DEF Counted
    <3>4. k \in 1..Len(pongs[e])
      BY <2>1, <3>2, ReadSent
    <3>5. pongs[e][k] \in Pongs
      BY <2>1, <3>2, <3>4 DEF CountsOK
    <3>6. Len(pings[d]) \in 1..Len(rand[d].seq)
      BY <2>1, <2>2, SentDrawn
    <3>7. outcoming[d] = FrameId(d, Len(pings[d]))
      BY <2>1, <2>2 DEF PingInv
    <3>8. pongs[e][k].from = d
      BY <2>1, <3>1, <3>2, <3>4, <3>6, <3>7, Source
    <3>9. pongs[e][k] = [from |-> d, text |-> outcoming[d]]
      BY <3>1, <3>5, <3>8 DEF Pongs
    <3> QED BY <3>2, <3>4, <3>9 DEF Answered
  <2>5. A \in SUBSET Devices /\ Counted(d) \in SUBSET Devices
    BY DEF Counted
  <2> HIDE DEF A
  <2>6. /\ IsFiniteSet(A) /\ Cardinality(A) \in Nat /\ Cardinality(Counted(d)) \in Nat
    BY <2>5, CountedFinite
  <2>7. Cardinality(Counted(d)) <= Cardinality(A)
    BY <2>4, <2>6, FS_Subset
  <2>8. pong_count[d] <= Cardinality(A)
    BY <2>2, <2>3, <2>6, <2>7
  <2> QED BY <2>8 DEF A
<1> QED BY <1>1, Invariance, PTL

\* No message is read that was not sent, and every pong echoes a ping of the device
\* that it was taken from, or junk.
THEOREM TypeCorrect == Spec => []TypeOK
<1>1. IInv => TypeOK
  <2> SUFFICES ASSUME IInv PROVE TypeOK
    OBVIOUS
  <2>1. CountsOK /\ PingInv /\ EchoInv
    BY DEF IInv
  <2>2. ASSUME NEW d \in Devices
        PROVE  /\ Len(pings[d]) <= Len(rand[d].seq) /\ pong_count[d] \in Nat
               /\ outcoming[d] = Junk \/ outcoming[d] = FrameId(d, Len(pings[d]))
    BY <2>1 DEF CountsOK, PingInv
  <2>3. ASSUME NEW d \in Devices, NEW e \in Devices
        PROVE  ping_read[d][e] \in 0..Len(pings[e]) /\ pong_read[d][e] \in 0..Len(pongs[e])
    BY <2>1, ReadSent
  <2>4. ASSUME NEW d \in Devices, NEW k \in 1..Len(pongs[d]), pongs[d][k].text # Junk
        PROVE  \E n \in 1..Len(pings[pongs[d][k].from]) :
                  pongs[d][k].text = pings[pongs[d][k].from][n]
    <3> DEFINE f == pongs[d][k].from
    <3>1. pongs[d][k] \in Pongs
      BY <2>1 DEF CountsOK
    <3>2. f \in Devices
      BY <3>1 DEF Pongs
    <3>3. PICK n \in 1..ping_read[d][f] : pongs[d][k].text = pings[f][n]
      BY <2>1, <2>4 DEF EchoInv, Echoes
    <3>4. ping_read[d][f] \in 0..Len(pings[f]) /\ Len(pings[f]) \in Nat
      <4> HIDE DEF f
      <4> QED BY <2>1, <2>3, <3>2 DEF CountsOK
    <3>5. n \in 1..Len(pings[f])
      BY <3>4
    <3> QED BY <3>3, <3>5
  <2>5. overwritten \subseteq Devices
    BY <2>1 DEF CountsOK
  <2> QED BY <2>2, <2>3, <2>4, <2>5 DEF TypeOK
<1> QED BY <1>1, Invariance, PTL
-----------------------------------------------------------------------------
\* How far a speed that the robot is told can be torn.

\* The threads, and the counters without their bound.
KobukiCounts ==
    /\ asked \subseteq Kobuki!Threads /\ threads \subseteq asked
    /\ todo \subseteq Kobuki!Words /\ taken \in Nat
    /\ shared \in [Kobuki!Words -> Nat] /\ robot \in [Kobuki!Words -> Nat]

\* The callback of command n stores n over n - 1 in every word: between two stores
\* the words still to be stored are one command old, and the others are current.
StoreInv == \A w \in Kobuki!Words : shared[w] = IF w \in todo THEN taken - 1 ELSE taken

\* What the robot was told is one command behind at most in some of its words, and
\* is never ahead of the callback.
RobotInv == TornByOne /\ \A w \in Kobuki!Words : robot[w] <= taken

KobukiInv == KobukiCounts /\ StoreInv /\ RobotInv

LEMMA KobukiInitInv == Kobuki!Init => KobukiInv
BY DEF Kobuki!Init, KobukiInv, KobukiCounts, StoreInv, RobotInv, TornByOne,
       Kobuki!TornByOne, Kobuki!Of

LEMMA KobukiNextInv == KobukiInv /\ [Kobuki!Next]_kobukiVars => KobukiInv'
<1> SUFFICES ASSUME KobukiInv, [Kobuki!Next]_kobukiVars PROVE KobukiInv'
  OBVIOUS
<1> USE DEF KobukiInv, KobukiCounts
<1>1. ASSUME NEW t \in Kobuki!Threads, Kobuki!Create(t) PROVE KobukiInv'
  BY <1>1 DEF Kobuki!Create, StoreInv, RobotInv, TornByOne, Kobuki!TornByOne
<1>2. CASE Kobuki!kobuki_callback
  <2>1. KobukiCounts' /\ todo = {} /\ taken' = taken + 1 /\ todo' = Kobuki!Words
    BY <1>2 DEF Kobuki!kobuki_callback
  <2>2. StoreInv'
    BY <1>2, <2>1 DEF StoreInv, Kobuki!kobuki_callback
  <2>3. RobotInv'
    BY <1>2, <2>1 DEF RobotInv, TornByOne, Kobuki!TornByOne, Kobuki!kobuki_callback
  <2> QED BY <2>1, <2>2, <2>3
<1>3. ASSUME NEW w \in Kobuki!Words, Kobuki!Store(w) PROVE KobukiInv'
  <2>1. KobukiCounts'
    BY <1>3 DEF Kobuki!Store
  <2>2. StoreInv'
    BY <1>3 DEF StoreInv, Kobuki!Store
  <2>3. RobotInv'
    BY <1>3 DEF RobotInv, TornByOne, Kobuki!TornByOne, Kobuki!Store
  <2> QED BY <2>1, <2>2, <2>3
<1>4. CASE Kobuki!kobuki_entry
  <2>1. KobukiCounts' /\ robot' = shared /\ UNCHANGED <<taken, shared, todo>>
    BY <1>4 DEF Kobuki!kobuki_entry
  <2>2. StoreInv'
    BY <2>1 DEF StoreInv
  \* every word that was read is from this command or from the last one
  <2>3. \A w \in Kobuki!Words : shared[w] \in {taken - 1, taken}
    BY DEF StoreInv
  <2>4. RobotInv'
    BY <2>1, <2>3 DEF RobotInv, TornByOne, Kobuki!TornByOne
  <2> QED BY <2>1, <2>2, <2>4
<1>5. CASE UNCHANGED kobukiVars
  BY <1>5 DEF kobukiVars, StoreInv, RobotInv, TornByOne, Kobuki!TornByOne
<1> QED BY <1>1, <1>2, <1>3, <1>4, <1>5 DEF Kobuki!Next

\* The robot's part of a step of the composition.
LEMMA KobukiPart ==
    [RunNext]_<<example, vars, appsVars, kobukiVars>> => [Kobuki!Next]_kobukiVars
BY DEF RunNext

LEMMA KobukiInvariance == RunSpec => []KobukiInv
<1>1. RunInit => KobukiInv
  BY KobukiInitInv DEF RunInit
<1> QED BY <1>1, KobukiNextInv, KobukiPart, PTL DEF RunSpec

\* Without a lock, a speed that kobuki_set_speed is called with mixes two commands
\* that follow one another at most, wherever the robot's thread interrupts the
\* callback and however many commands there are.
THEOREM TearsByOneCommand == RunSpec => []TornByOne
<1>1. KobukiInv => TornByOne
  BY DEF KobukiInv, RobotInv
<1> QED BY <1>1, KobukiInvariance, PTL

\* Words only ever come from commands that were taken, and no more commands are
\* taken than there are.
LEMMA KobukiTypeCorrect == MaxTwists \in Nat => (RunSpec => []Kobuki!TypeOK)
<1> SUFFICES ASSUME MaxTwists \in Nat PROVE RunSpec => []Kobuki!TypeOK
  OBVIOUS
<1> DEFINE Bounded == taken <= MaxTwists
<1>1. RunInit => Bounded
  BY DEF RunInit, Kobuki!Init
<1>2. KobukiInv /\ Bounded /\ [Kobuki!Next]_kobukiVars => Bounded'
  BY DEF KobukiInv, KobukiCounts, Kobuki!Next, Kobuki!Create, Kobuki!kobuki_callback,
         Kobuki!Store, Kobuki!kobuki_entry, kobukiVars
<1>3. KobukiInv /\ Bounded => Kobuki!TypeOK
  <2> SUFFICES ASSUME KobukiInv, Bounded PROVE Kobuki!TypeOK
    OBVIOUS
  <2>1. \A w \in Kobuki!Words : shared[w] \in 0..taken
    BY DEF KobukiInv, KobukiCounts, StoreInv
  <2>2. \A w \in Kobuki!Words : robot[w] \in 0..taken
    BY DEF KobukiInv, KobukiCounts, RobotInv
  <2> QED BY <2>1, <2>2 DEF Kobuki!TypeOK, KobukiInv, KobukiCounts
<1> HIDE DEF Bounded
<1> QED BY <1>1, <1>2, <1>3, KobukiInvariance, KobukiPart, PTL DEF RunSpec
-----------------------------------------------------------------------------
\* The constants are those of a firmware: it has some of the examples, and pools of
\* some size.
Configured ==
    /\ \A b \in Builds : b \subseteq Apps!Apps
    /\ MaxSessions \in Nat /\ MaxNodes \in Nat

\* The specification of the commands without its fairness, which no safety property needs.
CommandsSpec == Apps!Init /\ [][Apps!Next]_Apps!vars
-----------------------------------------------------------------------------
USE DEF Apps!Must, Apps!Try

\* What microros_deinitialization creates.
LEMMA CreationsDeinitialization ==
    /\ Apps!Creations("deinitialization") = Apps!create_entities
    /\ Len(Apps!create_entities) = 3
    /\ Apps!create_entities[1].object = "support" /\ Apps!create_entities[1].checked
    /\ Apps!create_entities[2].object = "node" /\ Apps!create_entities[2].checked
    /\ Apps!create_entities[3].object = "publisher"
BY DEF Apps!Creations, Apps!create_entities

\* Every example begins with its session, the only one it creates, and gives up
\* without it.
LEMMA CreationsFirst ==
    ASSUME NEW a \in Apps!Apps
    PROVE  LET c == Apps!Creations(a)
           IN  /\ Len(c) \in Nat /\ Len(c) >= 3
               /\ c[1].object = "support" /\ c[1].checked
               /\ \A i \in 1..Len(c) : /\ c[i].object \in Apps!Objects
                                       /\ c[i].object = "support" <=> i = 1
<1> USE DEF Apps!Objects
<1>1. CASE a = "pub_int32"
  BY <1>1 DEF Apps!Creations, Apps!pub_int32
<1>2. CASE a = "sub_int32"
  BY <1>2 DEF Apps!Creations, Apps!sub_int32
<1>3. CASE a = "sub_twist"
  BY <1>3 DEF Apps!Creations, Apps!sub_twist
<1>4. CASE a = "kobuki_control"
  BY <1>4 DEF Apps!Creations, Apps!kobuki_control
<1>5. CASE a = "add_ints_service"
  BY <1>5 DEF Apps!Creations, Apps!add_ints_service
<1>6. CASE a = "pub_sub"
  BY <1>6 DEF Apps!Creations, Apps!pub_sub
<1>7. CASE a = "ping_pong"
  BY <1>7 DEF Apps!Creations, Apps!ping_pong
<1>8. CASE a = "deinitialization"
  BY <1>8 DEF Apps!Creations, Apps!create_entities
<1> QED BY <1>1, <1>2, <1>3, <1>4, <1>5, <1>6, <1>7, <1>8 DEF Apps!Apps

\* Two examples check every creation.
LEMMA CreationsChecked ==
    ASSUME NEW a \in {"pub_sub", "ping_pong"}
    PROVE  \A i \in 1..Len(Apps!Creations(a)) : Apps!Creations(a)[i].checked
<1>1. CASE a = "pub_sub"
  BY <1>1 DEF Apps!Creations, Apps!pub_sub
<1>2. CASE a = "ping_pong"
  BY <1>2 DEF Apps!Creations, Apps!ping_pong
<1> QED BY <1>1, <1>2
-----------------------------------------------------------------------------
\* The inductive invariant, in parts.

Steps == {"idle", "register", "ping", "create", "thread", "publish", "destroy"}

\* Which step of which command the shell can be at.
ControlInv ==
    /\ build \in Builds /\ app \in build \cup {"none"} /\ pc \in Steps \X Nat
    /\ app = "none" <=> pc[1] = "idle"
    /\ pc[1] = "create" => pc[2] \in 1..Len(Apps!Creations(app))
    /\ pc[1] \in {"ping", "publish", "destroy"} => app = "deinitialization"
    /\ pc[1] = "thread" => app # "deinitialization"
    /\ pc[1] = "destroy" => pc[2] \in 1..3

\* Only a session and a node that were created are given back.
PoolInv ==
    /\ valid \in [Apps!Locations -> BOOLEAN]
    /\ sessions \in 0..MaxSessions /\ nodes \in 0..MaxNodes
    /\ valid[<<"common", "support">>] => sessions >= 1
    /\ valid[<<"common", "node">>] => nodes >= 1

\* Once the transport is registered its address is this command's.
AddressInv ==
    /\ {address, dialled} \subseteq {"none", "literal", "argv", "overwritten"}
    /\ address = "overwritten" => pc[1] = "register"
    /\ Apps!AddressLive

\* A thread that runs is of a command that has ended, or was given again.
ThreadInv ==
    /\ agent \in BOOLEAN
    /\ again \subseteq spinning /\ spinning \subseteq build \ {"deinitialization"}
    /\ app \in spinning => app \in again

\* The parts of pc.
LEMMA ControlType ==
    ASSUME Configured, ControlInv
    PROVE  /\ build \subseteq Apps!Apps /\ (app # "none" => app \in Apps!Apps)
           /\ pc = <<pc[1], pc[2]>> /\ pc[1] \in Steps /\ pc[2] \in Nat
BY DEF Configured, ControlInv

\* No step leads the shell astray.
LEMMA ControlStep == Configured /\ ControlInv /\ [Apps!Next]_Apps!vars => ControlInv'
<1> SUFFICES ASSUME Configured, ControlInv, [Apps!Next]_Apps!vars PROVE ControlInv'
  OBVIOUS
<1>t. /\ build \subseteq Apps!Apps /\ (app # "none" => app \in Apps!Apps)
      /\ "none" \notin Apps!Apps
      /\ pc = <<pc[1], pc[2]>> /\ pc[1] \in Steps /\ pc[2] \in Nat
  BY ControlType DEF Apps!Apps
<1>c. ASSUME NEW a \in Apps!Apps
      PROVE  Len(Apps!Creations(a)) \in Nat /\ Len(Apps!Creations(a)) >= 3
  BY CreationsFirst
<1> USE DEF ControlInv, Steps
<1>1. ASSUME NEW a \in build, Apps!Give(a) PROVE ControlInv'
  BY <1>1, <1>t DEF Apps!Give
<1>2. CASE Apps!Registering
  BY <1>2, <1>t, <1>c DEF Apps!Registering, Apps!set_microros_udp_transports, Apps!Registered
<1>3. CASE Apps!Ping(TRUE) \/ Apps!Ping(FALSE)
  BY <1>3, <1>t, <1>c DEF Apps!Ping
<1>4. CASE Apps!Creating
  <2>1. /\ pc[1] = "create" /\ app \in Apps!Apps
        /\ pc[2] \in 1..Len(Apps!Creations(app)) /\ build' = build
    BY <1>4, <1>t DEF Apps!Creating, Apps!Create, Apps!CreateFails
  <2>2. \/ Apps!Returns(Apps!After(pc[2])) \/ Apps!Returns(Apps!GivenUp)
    BY <1>4 DEF Apps!Creating, Apps!Create, Apps!CreateFails
  <2>3. CASE Apps!Returns(Apps!After(pc[2]))
    BY <1>t, <1>c, <2>1, <2>3 DEF Apps!Returns, Apps!After
  <2>4. CASE Apps!Returns(Apps!GivenUp)
    BY <1>t, <2>1, <2>4 DEF Apps!Returns, Apps!GivenUp
  <2> QED BY <2>2, <2>3, <2>4
<1>5. CASE Apps!StartThread
  BY <1>5, <1>t DEF Apps!StartThread, Apps!Returns
<1>6. CASE Apps!Publish
  BY <1>6, <1>t DEF Apps!Publish
<1>7. CASE Apps!Fini
  BY <1>7, <1>t DEF Apps!Fini, Apps!Returns, Apps!destroy_entities
<1>8. CASE Apps!AgentChanges \/ UNCHANGED Apps!vars
  BY <1>8 DEF Apps!AgentChanges, Apps!vars, Apps!shellVars
<1> QED BY <1>1, <1>2, <1>3, <1>4, <1>5, <1>6, <1>7, <1>8 DEF Apps!Next

\* Registering comes before anything that opens the transport.
LEMMA AddressStep == AddressInv /\ ControlInv /\ [Apps!Next]_Apps!vars => AddressInv'
<1> SUFFICES ASSUME AddressInv, ControlInv, [Apps!Next]_Apps!vars PROVE AddressInv'
  OBVIOUS
<1> USE DEF AddressInv, Apps!AddressLive
<1>1. ASSUME NEW a \in build, Apps!Give(a) PROVE AddressInv'
  BY <1>1 DEF Apps!Give
<1>2. CASE Apps!Registering
  BY <1>2 DEF Apps!Registering, Apps!set_microros_udp_transports
<1>3. CASE Apps!Ping(TRUE) \/ Apps!Ping(FALSE)
  BY <1>3 DEF Apps!Ping
<1>4. CASE Apps!Creating
  <2>1. pc[1] = "create" /\ address' = address /\ dialled' \in {address, dialled}
    BY <1>4 DEF Apps!Creating, Apps!Create, Apps!CreateFails
  <2> QED BY <2>1
<1>5. CASE Apps!StartThread
  BY <1>5 DEF Apps!StartThread
<1>6. CASE Apps!Publish
  BY <1>6 DEF Apps!Publish
<1>7. CASE Apps!Fini
  BY <1>7 DEF Apps!Fini
<1>8. CASE Apps!AgentChanges \/ UNCHANGED Apps!vars
  BY <1>8 DEF Apps!AgentChanges, Apps!vars, Apps!shellVars
<1> QED BY <1>1, <1>2, <1>3, <1>4, <1>5, <1>6, <1>7, <1>8 DEF Apps!Next

\* A thread is started by the last step of its command.
LEMMA ThreadStep == ThreadInv /\ ControlInv /\ Configured /\ [Apps!Next]_Apps!vars => ThreadInv'
<1> SUFFICES ASSUME ThreadInv, ControlInv, Configured, [Apps!Next]_Apps!vars PROVE ThreadInv'
  OBVIOUS
<1>t. "none" \notin build
  BY ControlType DEF Apps!Apps
<1> USE DEF ThreadInv
<1>1. ASSUME NEW a \in build, Apps!Give(a) PROVE ThreadInv'
  BY <1>1 DEF Apps!Give
<1>2. CASE Apps!Registering
  BY <1>2 DEF Apps!Registering, Apps!set_microros_udp_transports
<1>3. CASE Apps!Ping(TRUE) \/ Apps!Ping(FALSE)
  BY <1>3 DEF Apps!Ping
<1>4. CASE Apps!Creating
  <2>1. app' \in {app, "none"} /\ UNCHANGED <<build, spinning, again, agent>>
    BY <1>4 DEF Apps!Creating, Apps!Create, Apps!CreateFails, Apps!Returns
  <2> QED BY <1>t, <2>1
<1>5. CASE Apps!StartThread
  <2>1. /\ app \in build \ {"deinitialization"} /\ app' = "none"
        /\ spinning' \in {spinning, spinning \cup {app}} /\ UNCHANGED <<build, again, agent>>
    BY <1>5 DEF Apps!StartThread, Apps!Returns, ControlInv
  <2> QED BY <1>t, <2>1
<1>6. CASE Apps!Publish
  BY <1>6 DEF Apps!Publish
<1>7. CASE Apps!Fini
  <2>1. app' \in {app, "none"} /\ UNCHANGED <<build, spinning, again, agent>>
    BY <1>7 DEF Apps!Fini, Apps!Returns
  <2> QED BY <1>t, <2>1
<1>8. CASE Apps!AgentChanges \/ UNCHANGED Apps!vars
  BY <1>8 DEF Apps!AgentChanges, Apps!vars, Apps!shellVars
<1> QED BY <1>1, <1>2, <1>3, <1>4, <1>5, <1>6, <1>7, <1>8 DEF Apps!Next

\* An object is somewhere.
LEMMA LocationType ==
    ASSUME NEW a, NEW o \in Apps!Objects
    PROVE  /\ Apps!Location(a, o) \in Apps!Locations /\ Apps!Location(a, o)[2] = o
           /\ Apps!Has(a, o) <=> valid[Apps!Location(a, o)]
BY DEF Apps!Location, Apps!Locations, Apps!Static, Apps!Has, Apps!Objects

\* The objects of microros_deinitialization are in common.
LEMMA CommonLocation ==
    ASSUME NEW o \in Apps!Objects
    PROVE  /\ Apps!Location("deinitialization", o) = <<"common", o>>
           /\ <<"common", o>> \in Apps!Locations
BY DEF Apps!Location, Apps!Locations, Apps!Static

\* What the shell's next creation is about.
LEMMA CreatingObject ==
    ASSUME Configured, ControlInv, pc[1] = "create"
    PROVE  LET c == Apps!Creations(app)
               o == c[pc[2]].object
           IN  /\ app \in Apps!Apps /\ pc[2] \in 1..Len(c) /\ o \in Apps!Objects
               /\ o = "support" <=> pc[2] = 1
BY ControlType, CreationsFirst DEF ControlInv

\* A creation that fails leaves the object as it was, or cleared.
LEMMA FailedObject ==
    ASSUME Configured, ControlInv, valid \in [Apps!Locations -> BOOLEAN], pc[1] = "create",
           Apps!CreateFails(pc[2])
    PROVE  \/ valid' = valid
           \/ valid' = [valid EXCEPT ![Apps!Location(app, Apps!Creations(app)[pc[2]].object)] = FALSE]
<1> DEFINE o == Apps!Creations(app)[pc[2]].object
           l == Apps!Location(app, o)
<1>1. o \in Apps!Objects /\ l \in Apps!Locations
  BY CreatingObject, LocationType
<1>2. \/ valid' = [valid EXCEPT ![l] = FALSE]
      \/ valid' = [valid EXCEPT ![l] = Apps!Has(app, o)]
  BY DEF Apps!CreateFails
<1>3. Apps!Has(app, o) = valid[l]
  <2>1. valid[l] \in BOOLEAN /\ o # "none"
    BY <1>1 DEF Apps!Objects
  <2>2. CASE valid[l] = TRUE
    BY <2>1, <2>2 DEF Apps!Has
  <2>3. CASE valid[l] = FALSE
    BY <2>1, <2>3 DEF Apps!Has
  <2> QED BY <2>1, <2>2, <2>3
<1> HIDE DEF o, l
<1>4. [valid EXCEPT ![l] = valid[l]] = valid
  BY <1>1
<1> QED BY <1>2, <1>3, <1>4 DEF o, l

\* What is taken from a pool is bounded by its size, what is given back was taken.
LEMMA PoolStep == Configured /\ ControlInv /\ PoolInv /\ [Apps!Next]_Apps!vars => PoolInv'
<1> SUFFICES ASSUME Configured, ControlInv, PoolInv, [Apps!Next]_Apps!vars PROVE PoolInv'
  OBVIOUS
<1> USE DEF PoolInv, Configured
<1>n. /\ "support" \in Apps!Objects /\ "node" \in Apps!Objects
  BY DEF Apps!Objects
<1>1. ASSUME NEW a \in build, Apps!Give(a) PROVE PoolInv'
  BY <1>1 DEF Apps!Give
<1>2. CASE Apps!Registering
  BY <1>2 DEF Apps!Registering, Apps!set_microros_udp_transports
<1>3. CASE Apps!Ping(TRUE) \/ Apps!Ping(FALSE)
  BY <1>3 DEF Apps!Ping
<1>4. CASE Apps!Creating
  <2> DEFINE o == Apps!Creations(app)[pc[2]].object
             l == Apps!Location(app, o)
  <2>1. o \in Apps!Objects /\ l \in Apps!Locations /\ l[2] = o
    BY <1>4, CreatingObject, LocationType DEF Apps!Creating
  <2>2. CASE Apps!Create(pc[2])
    <3>1. /\ valid' = [valid EXCEPT ![l] = TRUE]
          /\ sessions' = (IF o = "support" THEN sessions + 1 ELSE sessions)
          /\ nodes' = (IF o = "node" THEN nodes + 1 ELSE nodes)
          /\ o = "support" => sessions < MaxSessions
          /\ o = "node" => nodes < MaxNodes
      BY <2>2 DEF Apps!Create
    <3> HIDE DEF o, l
    <3> QED BY <2>1, <3>1
  <2>3. CASE Apps!CreateFails(pc[2])
    <3>1. valid' = valid \/ valid' = [valid EXCEPT ![l] = FALSE]
      BY <1>4, <2>3, FailedObject DEF Apps!Creating
    <3>2. UNCHANGED <<sessions, nodes>>
      BY <2>3 DEF Apps!CreateFails
    <3> HIDE DEF o, l
    <3>3. CASE valid' = valid
      BY <3>2, <3>3
    <3>4. CASE valid' = [valid EXCEPT ![l] = FALSE]
      <4>1. /\ valid' \in [Apps!Locations -> BOOLEAN]
            /\ \A m \in Apps!Locations : valid'[m] => valid[m]
        BY <2>1, <3>4
      <4> QED BY <1>n, <3>2, <4>1, CommonLocation
    <3> QED BY <3>1, <3>3, <3>4
  <2> QED BY <1>4, <2>2, <2>3 DEF Apps!Creating
<1>5. CASE Apps!StartThread
  BY <1>5 DEF Apps!StartThread
<1>6. CASE Apps!Publish
  BY <1>6 DEF Apps!Publish
<1>7. CASE Apps!Fini
  <2> DEFINE o == Apps!destroy_entities[pc[2]]
             l == <<"common", o>>
  <2>1. o \in {"publisher", "node", "support"} /\ o \in Apps!Objects /\ app = "deinitialization"
    BY <1>7 DEF Apps!Fini, ControlInv, Apps!destroy_entities, Apps!Objects
  <2>2. Apps!Location(app, o) = l /\ l \in Apps!Locations /\ (Apps!Has(app, o) <=> valid[l])
    BY <2>1, CommonLocation, LocationType
  <2>3. /\ valid' = [valid EXCEPT ![l] = FALSE]
        /\ sessions' = (IF o = "support" /\ valid[l] THEN sessions - 1 ELSE sessions)
        /\ nodes' = (IF o = "node" /\ valid[l] THEN nodes - 1 ELSE nodes)
    BY <1>7, <2>2 DEF Apps!Fini
  <2> HIDE DEF o
  <2> QED BY <2>1, <2>2, <2>3, <1>n
<1>8. CASE Apps!AgentChanges \/ UNCHANGED Apps!vars
  BY <1>8 DEF Apps!AgentChanges, Apps!vars, Apps!shellVars
<1> QED BY <1>1, <1>2, <1>3, <1>4, <1>5, <1>6, <1>7, <1>8 DEF Apps!Next

CommandsInv == ControlInv /\ PoolInv /\ AddressInv /\ ThreadInv

\* The invariant holds before any command is given.
LEMMA CommandsInitInv == Configured /\ Apps!Init => CommandsInv
<1> SUFFICES ASSUME Configured, Apps!Init PROVE CommandsInv
  OBVIOUS
<1>0. <<"common", "support">> \in Apps!Locations /\ <<"common", "node">> \in Apps!Locations
  BY DEF Apps!Locations, Apps!Objects
<1>1. ControlInv
  BY DEF Apps!Init, ControlInv, Configured, Steps, Apps!Apps
<1>2. PoolInv
  BY <1>0 DEF Apps!Init, PoolInv, Configured
<1>3. AddressInv
  BY DEF Apps!Init, AddressInv, Apps!AddressLive
<1>4. ThreadInv
  BY DEF Apps!Init, ThreadInv
<1> QED BY <1>1, <1>2, <1>3, <1>4 DEF CommandsInv

\* Every step preserves the invariant.
LEMMA CommandsNextInv == Configured /\ CommandsInv /\ [Apps!Next]_Apps!vars => CommandsInv'
BY ControlStep, PoolStep, AddressStep, ThreadStep DEF CommandsInv

\* The invariant holds of every behaviour.
LEMMA CommandsInvariance == Configured => (CommandsSpec => []CommandsInv)
<1> SUFFICES ASSUME Configured PROVE CommandsSpec => []CommandsInv
  OBVIOUS
<1>1. Apps!Init => CommandsInv
  BY CommandsInitInv
<1>2. CommandsInv /\ [Apps!Next]_Apps!vars => CommandsInv'
  BY CommandsNextInv
<1> QED BY <1>1, <1>2, PTL DEF CommandsSpec

\* The pools of sessions and nodes are never overdrawn and nothing is given back
\* twice, whatever commands are given, also those that share their variables.
LEMMA CommandsTypeCorrect == Configured => (CommandsSpec => []Apps!TypeOK)
<1> SUFFICES ASSUME Configured PROVE CommandsSpec => []Apps!TypeOK
  OBVIOUS
<1>1. CommandsInv => Apps!TypeOK
  BY DEF CommandsInv, Apps!TypeOK, ControlInv, PoolInv, AddressInv, ThreadInv, Configured
<1> QED BY <1>1, CommandsInvariance, PTL

\* The transport is only ever opened with the address of the running command:
\* each one registers its own before anything can be sent.
LEMMA CommandsAddress == Configured => (CommandsSpec => []Apps!AddressLive)
<1> SUFFICES ASSUME Configured PROVE CommandsSpec => []Apps!AddressLive
  OBVIOUS
<1>1. CommandsInv => Apps!AddressLive
  BY DEF CommandsInv, AddressInv
<1> QED BY <1>1, CommandsInvariance, PTL
-----------------------------------------------------------------------------
\* The examples that check what they create.

Checking == {"pub_sub", "ping_pong"}

\* The first k objects of example a are there.
Made(a, k) == \A j \in 1..k : valid[Apps!Location(a, Apps!Creations(a)[j].object)]

CompleteInv ==
    /\ app \in Checking /\ pc[1] = "create" => Made(app, pc[2] - 1)
    /\ app \in Checking /\ pc[1] = "thread" => Made(app, Len(Apps!Creations(app)))
    /\ \A a \in (spinning \cap Checking) \ again : Made(a, Len(Apps!Creations(a)))

\* The objects of an example that checks are its own.
LEMMA OwnLocation ==
    ASSUME NEW a \in Checking, NEW b \in Apps!Apps, a # b, NEW o, NEW p
    PROVE  Apps!Location(a, o) # Apps!Location(b, p)
BY DEF Checking, Apps!Location, Apps!Static, Apps!Apps

\* A step of another example leaves the objects made where they are.
LEMMA MadeKept ==
    ASSUME NEW a \in Checking, NEW k \in 0..Len(Apps!Creations(a)), Made(a, k),
           NEW b \in Apps!Apps, a # b, NEW o, NEW v, valid \in [Apps!Locations -> BOOLEAN],
           valid' = [valid EXCEPT ![Apps!Location(b, o)] = v]
    PROVE  Made(a, k)'
<1>1. ASSUME NEW j \in 1..k PROVE valid'[Apps!Location(a, Apps!Creations(a)[j].object)]
  <2>1. a \in Apps!Apps /\ j \in 1..Len(Apps!Creations(a))
    BY CreationsFirst DEF Checking, Apps!Apps
  <2>2. Apps!Location(a, Apps!Creations(a)[j].object) \in Apps!Locations
    BY <2>1, CreationsFirst, LocationType
  <2> QED BY <2>2, OwnLocation DEF Made
<1> QED BY <1>1 DEF Made

\* What a checking example has made stays until its command is given again.
LEMMA CompleteStep ==
    Configured /\ CommandsInv /\ CompleteInv /\ [Apps!Next]_Apps!vars => CompleteInv'
<1> SUFFICES ASSUME Configured, CommandsInv, CompleteInv, [Apps!Next]_Apps!vars
             PROVE  CompleteInv'
  OBVIOUS
<1>t. /\ ControlInv /\ valid \in [Apps!Locations -> BOOLEAN] /\ "none" \notin Checking
      /\ "deinitialization" \notin Checking
      /\ Checking \subseteq Apps!Apps
      /\ app \in spinning => app \in again
  BY DEF CommandsInv, PoolInv, ThreadInv, Checking, Apps!Apps
<1>l. ASSUME NEW a \in Checking PROVE Len(Apps!Creations(a)) \in Nat
  BY <1>t, CreationsFirst
<1>s. ASSUME UNCHANGED valid, NEW a, NEW k, Made(a, k) PROVE Made(a, k)'
  BY <1>s DEF Made
<1>1. ASSUME NEW a \in build, Apps!Give(a) PROVE CompleteInv'
  BY <1>1, <1>s DEF Apps!Give, CompleteInv
<1>2. CASE Apps!Registering
  <2>1. /\ UNCHANGED <<valid, app, spinning, again>>
        /\ (pc' = <<"ping", 0>> \/ pc' = <<"create", 1>>)
    BY <1>2 DEF Apps!Registering, Apps!set_microros_udp_transports, Apps!Registered
  <2>2. Made(app, 0)'
    BY DEF Made
  <2> QED BY <2>1, <2>2, <1>s DEF CompleteInv
<1>3. CASE Apps!Ping(TRUE) \/ Apps!Ping(FALSE)
  <2>1. app \notin Checking /\ UNCHANGED <<valid, app, spinning, again>>
    BY <1>3, <1>t DEF Apps!Ping, ControlInv
  <2> QED BY <2>1, <1>s DEF CompleteInv
<1>4. CASE Apps!Creating
  <2> DEFINE c == Apps!Creations(app)
             o == c[pc[2]].object
             l == Apps!Location(app, o)
  <2>0. pc[1] = "create"
    BY <1>4 DEF Apps!Creating
  <2>1. /\ app \in Apps!Apps /\ pc[2] \in 1..Len(c) /\ o \in Apps!Objects /\ l \in Apps!Locations
        /\ Len(c) \in Nat
    BY <1>t, <2>0, CreatingObject, LocationType, CreationsFirst
  <2>2. UNCHANGED <<spinning, again>>
    BY <1>4 DEF Apps!Creating, Apps!Create, Apps!CreateFails
  <2>3. \E v : valid' = [valid EXCEPT ![l] = v]
    BY <1>4 DEF Apps!Creating, Apps!Create, Apps!CreateFails
  \* a running example is another one
  <2>4. ASSUME NEW a \in (spinning \cap Checking) \ again PROVE Made(a, Len(Apps!Creations(a)))'
    <3>1. /\ a # app /\ Made(a, Len(Apps!Creations(a)))
          /\ Len(Apps!Creations(a)) \in 0..Len(Apps!Creations(a))
      BY <1>t, <1>l DEF CompleteInv
    <3> HIDE DEF o
    <3> QED BY <1>t, <2>1, <2>3, <3>1, MadeKept
  <2>5. CASE app \notin Checking
    <3>1. app' \in {app, "none"}
      BY <1>4 DEF Apps!Creating, Apps!Create, Apps!CreateFails, Apps!Returns
    <3> QED BY <1>t, <2>2, <2>4, <2>5, <3>1 DEF CompleteInv
  <2>6. CASE app \in Checking /\ Apps!Create(pc[2])
    <3>1. valid' = [valid EXCEPT ![l] = TRUE] /\ Apps!Returns(Apps!After(pc[2]))
      BY <2>6 DEF Apps!Create
    <3>2. Made(app, pc[2] - 1)
      BY <2>0, <2>6 DEF CompleteInv
    <3>3. ASSUME NEW j \in 1..pc[2] PROVE valid'[Apps!Location(app, c[j].object)]
      <4>1. Apps!Location(app, c[j].object) \in Apps!Locations
        BY <2>1, CreationsFirst, LocationType
      <4>2. CASE j = pc[2]
        BY <1>t, <2>1, <3>1, <4>2
      <4>3. CASE j # pc[2]
        <5>1. valid[Apps!Location(app, c[j].object)]
          BY <2>1, <3>2, <4>3 DEF Made
        <5> QED BY <1>t, <2>1, <3>1, <4>1, <5>1
      <4> QED BY <4>2, <4>3
    <3>4. CASE pc[2] < Len(c)
      <4>1. pc' = <<"create", pc[2] + 1>> /\ app' = app
        BY <3>1, <3>4 DEF Apps!Returns, Apps!After
      <4>2. Made(app, pc[2] - 1)'
        BY <2>1, <3>3, <4>1 DEF Made
      <4> QED BY <2>2, <2>4, <4>1, <4>2 DEF CompleteInv
    <3>5. CASE ~(pc[2] < Len(c))
      <4>1. pc[2] = Len(c) /\ pc' = <<"thread", 0>> /\ app' = app
        BY <1>t, <2>1, <2>6, <3>1, <3>5 DEF Apps!Returns, Apps!After
      <4>2. Made(app, Len(Apps!Creations(app)))'
        BY <3>3, <4>1 DEF Made
      <4> QED BY <2>2, <2>4, <4>1, <4>2 DEF CompleteInv
    <3> QED BY <3>4, <3>5
  <2>7. CASE app \in Checking /\ Apps!CreateFails(pc[2])
    <3>1. c[pc[2]].checked
      BY <2>1, <2>7, CreationsChecked DEF Checking
    <3>2. pc' = <<"idle", 0>> /\ app' = "none"
      BY <1>t, <2>7, <3>1 DEF Apps!CreateFails, Apps!Returns, Apps!GivenUp
    <3> QED BY <2>2, <2>4, <3>2 DEF CompleteInv
  <2> QED BY <1>4, <2>5, <2>6, <2>7 DEF Apps!Creating
<1>5. CASE Apps!StartThread
  <2>1. /\ pc[1] = "thread" /\ app' = "none" /\ spinning' \subseteq spinning \cup {app}
        /\ UNCHANGED <<valid, again>>
    BY <1>5 DEF Apps!StartThread, Apps!Returns
  <2> QED BY <1>s, <1>t, <2>1 DEF CompleteInv
<1>6. CASE Apps!Publish
  <2>1. app \notin Checking /\ UNCHANGED <<valid, app, spinning, again>>
    BY <1>6, <1>t DEF Apps!Publish, ControlInv
  <2> QED BY <2>1, <1>s DEF CompleteInv
<1>7. CASE Apps!Fini
  <2>1. app = "deinitialization" /\ app' \in {app, "none"} /\ UNCHANGED <<spinning, again>>
    BY <1>7, <1>t DEF Apps!Fini, ControlInv, Apps!Returns
  <2>2. valid' = [valid EXCEPT ![Apps!Location(app, Apps!destroy_entities[pc[2]])] = FALSE]
    BY <1>7 DEF Apps!Fini
  <2>3. ASSUME NEW a \in (spinning \cap Checking) \ again PROVE Made(a, Len(Apps!Creations(a)))'
    <3>1. /\ a # app /\ Made(a, Len(Apps!Creations(a)))
          /\ Len(Apps!Creations(a)) \in 0..Len(Apps!Creations(a))
      BY <1>t, <1>l, <2>1 DEF CompleteInv
    <3>2. app \in Apps!Apps
      BY <2>1 DEF Apps!Apps
    <3> QED BY <1>t, <2>2, <3>1, <3>2, MadeKept
  <2> QED BY <1>t, <2>1, <2>3 DEF CompleteInv
<1>8. CASE Apps!AgentChanges \/ UNCHANGED Apps!vars
  BY <1>8, <1>s DEF Apps!AgentChanges, Apps!vars, Apps!shellVars, CompleteInv
<1> QED BY <1>1, <1>2, <1>3, <1>4, <1>5, <1>6, <1>7, <1>8 DEF Apps!Next

\* An example that checks what it creates spins an executor whose objects are all
\* initialised, whatever other commands are given while it runs.
LEMMA CommandsComplete == Configured => (CommandsSpec => []Apps!RunningIsComplete)
<1> SUFFICES ASSUME Configured PROVE CommandsSpec => []Apps!RunningIsComplete
  OBVIOUS
<1>1. Apps!Init => CompleteInv
  BY DEF Apps!Init, CompleteInv, Checking
<1>2. CommandsInv /\ CompleteInv /\ [Apps!Next]_Apps!vars => CompleteInv'
  BY CompleteStep
<1>3. CompleteInv => Apps!RunningIsComplete
  BY DEF CompleteInv, Apps!RunningIsComplete, Checking, Made, Apps!Has
<1> QED BY <1>1, <1>2, <1>3, CommandsInvariance, PTL DEF CommandsSpec
-----------------------------------------------------------------------------
\* microros_deinitialization, where no other example uses its variables.

Common(o) == valid[<<"common", o>>]
Count(b) == IF b THEN 1 ELSE 0

\* Its session and node are there between their creation and their end, and are
\* the ones by which the pools differ from what it has found.
DeinitInv ==
    ~Apps!Shares /\ "deinitialization" \in build =>
        IF app = "deinitialization"
        THEN /\ found \in Nat \X Nat
             /\ sessions = found[1] + Count(Common("support"))
             /\ nodes = found[2] + Count(Common("node"))
             /\ pc[1] \in {"register", "ping"} \/ pc = <<"create", 1>> =>
                   ~Common("support") /\ ~Common("node")
             /\ pc = <<"create", 2>> => ~Common("node")
             /\ pc = <<"destroy", 3>> => ~Common("node")
        ELSE ~Common("support") /\ ~Common("node")

\* Any other example of such a firmware has its variables to itself.
LEMMA OthersStatic ==
    ASSUME ~Apps!Shares, "deinitialization" \in build, NEW a \in build, a # "deinitialization"
    PROVE  a \in Apps!Static
BY DEF Apps!Shares, Apps!Static

\* Static variables are not the common ones.
LEMMA StaticLocation ==
    ASSUME NEW a \in Apps!Static, NEW o, NEW p PROVE Apps!Location(a, o) # <<"common", p>>
BY DEF Apps!Static, Apps!Location

\* The pools differ from what was found by the objects of this example, which are
\* cleared only while they are not there or as they are given back.
LEMMA DeinitStep ==
    Configured /\ CommandsInv /\ DeinitInv /\ [Apps!Next]_Apps!vars => DeinitInv'
<1> SUFFICES ASSUME Configured, CommandsInv, DeinitInv, [Apps!Next]_Apps!vars,
                    (~Apps!Shares)', ("deinitialization" \in build)'
             PROVE  DeinitInv'
  BY DEF DeinitInv
<1>b. build' = build
  BY DEF Apps!Next, Apps!Give, Apps!Registering, Apps!set_microros_udp_transports, Apps!Ping,
         Apps!Creating, Apps!Create,
         Apps!CreateFails, Apps!StartThread, Apps!Publish, Apps!Fini, Apps!AgentChanges, Apps!vars
<1>c. ~Apps!Shares /\ "deinitialization" \in build
  BY <1>b DEF Apps!Shares
<1>t. /\ ControlInv /\ valid \in [Apps!Locations -> BOOLEAN]
      /\ sessions \in Nat /\ nodes \in Nat
      /\ <<"common", "support">> \in Apps!Locations /\ <<"common", "node">> \in Apps!Locations
      /\ pc = <<pc[1], pc[2]>> /\ pc[2] \in Nat
  BY ControlType DEF CommandsInv, PoolInv, Configured, Apps!Locations, Apps!Objects
<1>o. ASSUME app # "deinitialization", app' # "deinitialization",
             Common("support")' = Common("support"), Common("node")' = Common("node")
      PROVE  DeinitInv'
  BY <1>c, <1>o DEF DeinitInv
<1> USE DEF Common, Count
<1>1. ASSUME NEW a \in build, Apps!Give(a) PROVE DeinitInv'
  <2>1. /\ app # "deinitialization" /\ app' = a /\ pc' = <<"register", 0>>
        /\ found' = <<sessions, nodes>> /\ UNCHANGED <<valid, sessions, nodes>>
    BY <1>1 DEF Apps!Give
  <2> QED BY <1>c, <1>t, <2>1 DEF DeinitInv
<1>2. CASE Apps!Registering
  <2>1. /\ UNCHANGED <<app, found, valid, sessions, nodes>> /\ pc[1] = "register"
        /\ (pc' = <<"ping", 0>> \/ pc' = <<"create", 1>>)
    BY <1>2 DEF Apps!Registering, Apps!set_microros_udp_transports, Apps!Registered
  <2> QED BY <1>c, <1>t, <2>1 DEF DeinitInv
<1>3. CASE Apps!Ping(TRUE) \/ Apps!Ping(FALSE)
  <2>1. /\ UNCHANGED <<app, found, valid, sessions, nodes>> /\ pc[1] = "ping"
        /\ (pc' = pc \/ pc' = <<"create", 1>>)
    BY <1>3 DEF Apps!Ping
  <2> QED BY <1>c, <1>t, <2>1 DEF DeinitInv
<1>4. CASE Apps!Creating
  <2> DEFINE c == Apps!Creations(app)
             i == pc[2]
             o == c[i].object
             l == Apps!Location(app, o)
  <2>0. pc[1] = "create" /\ found' = found
    BY <1>4 DEF Apps!Creating, Apps!Create, Apps!CreateFails
  <2>1. app \in Apps!Apps /\ i \in 1..Len(c) /\ o \in Apps!Objects /\ l \in Apps!Locations
    BY <1>t, <2>0, CreatingObject, LocationType
  <2>2. CASE app # "deinitialization"
    <3>1. l # <<"common", "support">> /\ l # <<"common", "node">> /\ app' # "deinitialization"
      <4>1. app \in build
        BY <1>t, <2>0 DEF ControlInv
      <4>2. app \in Apps!Static
        BY <1>c, <2>2, <4>1, OthersStatic
      <4>3. app' \in {app, "none"}
        BY <1>4 DEF Apps!Creating, Apps!Create, Apps!CreateFails, Apps!Returns
      <4> QED BY <2>2, <4>2, <4>3, StaticLocation
    <3>2. \E v : valid' = [valid EXCEPT ![l] = v]
      BY <1>4 DEF Apps!Creating, Apps!Create, Apps!CreateFails
    <3>3. Common("support")' = Common("support") /\ Common("node")' = Common("node")
      BY <1>t, <3>1, <3>2
    <3> QED BY <1>o, <2>2, <3>1, <3>3
  <2>3. CASE app = "deinitialization"
    <3>1. /\ i \in 1..3 /\ (i = 1 => o = "support") /\ (i = 2 => o = "node")
          /\ (i = 3 => o = "publisher") /\ (i \in {1, 2} => c[i].checked)
      BY <2>1, <2>3, CreationsDeinitialization
    <3>2. l = <<"common", o>>
      BY <2>1, <2>3, CommonLocation
    <3>3. CASE Apps!Create(i)
      <4>1. /\ valid' = [valid EXCEPT ![l] = TRUE]
            /\ sessions' = (IF o = "support" THEN sessions + 1 ELSE sessions)
            /\ nodes' = (IF o = "node" THEN nodes + 1 ELSE nodes)
            /\ app' = app
            /\ pc' = IF i < 3 THEN <<"create", i + 1>> ELSE <<"publish", 1>>
        BY <2>3, <3>3, CreationsDeinitialization DEF Apps!Create, Apps!Returns, Apps!After
      <4> HIDE DEF o, l, c
      <4>2. CASE i = 1
        BY <1>c, <1>t, <2>0, <2>1, <2>3, <3>1, <3>2, <4>1, <4>2 DEF DeinitInv
      <4>3. CASE i = 2
        BY <1>c, <1>t, <2>0, <2>1, <2>3, <3>1, <3>2, <4>1, <4>3 DEF DeinitInv
      <4>4. CASE i = 3
        BY <1>c, <1>t, <2>0, <2>1, <2>3, <3>1, <3>2, <4>1, <4>4 DEF DeinitInv
      <4> QED BY <3>1, <4>2, <4>3, <4>4
    <3>4. CASE Apps!CreateFails(i)
      <4>1. valid' = valid \/ valid' = [valid EXCEPT ![l] = FALSE]
        BY <1>t, <2>0, <3>4, FailedObject
      <4>2. UNCHANGED <<sessions, nodes>> /\ app' = app /\ pc' = <<"publish", 1>>
        <5>0. Len(c) = 3
          BY <2>3, CreationsDeinitialization
        <5>1. Apps!GivenUp = <<"publish", 1>> /\ (i = 3 => Apps!After(i) = <<"publish", 1>>)
          <6>1. Apps!GivenUp = <<"publish", 1>>
            BY <2>3 DEF Apps!GivenUp
          <6>2. ASSUME i = 3 PROVE Apps!After(i) = <<"publish", 1>>
            <7>1. ~(i < Len(c))
              BY <5>0, <6>2
            <7> QED BY <2>3, <7>1 DEF Apps!After
          <6> QED BY <6>1, <6>2
        <5>2. /\ Apps!Returns(IF c[i].checked THEN Apps!GivenUp ELSE Apps!After(i))
              /\ UNCHANGED <<sessions, nodes>>
          BY <3>4 DEF Apps!CreateFails
        <5>3. Apps!Returns(<<"publish", 1>>)
          BY <3>1, <5>1, <5>2
        <5> QED BY <5>2, <5>3 DEF Apps!Returns
      \* the object that failed was not there
      <4>3. Common("support")' = Common("support") /\ Common("node")' = Common("node")
        <5> HIDE DEF o, l, c
        <5>1. CASE i = 1
          BY <1>c, <1>t, <2>0, <2>1, <2>3, <3>1, <3>2, <4>1, <5>1 DEF DeinitInv
        <5>2. CASE i = 2
          BY <1>c, <1>t, <2>0, <2>1, <2>3, <3>1, <3>2, <4>1, <5>2 DEF DeinitInv
        <5>3. CASE i = 3
          BY <1>t, <2>1, <3>1, <3>2, <4>1, <5>3
        <5> QED BY <3>1, <5>1, <5>2, <5>3
      <4> QED BY <1>c, <2>0, <2>3, <4>2, <4>3 DEF DeinitInv
    <3> QED BY <1>4, <3>3, <3>4 DEF Apps!Creating
  <2> QED BY <2>2, <2>3
<1>5. CASE Apps!StartThread
  <2>1. app # "deinitialization" /\ app' = "none" /\ valid' = valid
    BY <1>5, <1>t DEF Apps!StartThread, Apps!Returns, ControlInv
  <2> QED BY <1>o, <2>1
<1>6. CASE Apps!Publish
  <2>1. /\ UNCHANGED <<app, found, valid, sessions, nodes>>
        /\ (pc'[1] = "publish" \/ pc' = <<"destroy", 1>>)
    BY <1>6 DEF Apps!Publish
  <2> QED BY <1>c, <1>t, <2>1 DEF DeinitInv
<1>7. CASE Apps!Fini
  <2> DEFINE o == Apps!destroy_entities[pc[2]]
             l == <<"common", o>>
  <2>1. /\ app = "deinitialization" /\ pc[1] = "destroy" /\ pc[2] \in 1..3 /\ found' = found
        /\ (pc[2] = 1 => o = "publisher") /\ (pc[2] = 2 => o = "node")
        /\ (pc[2] = 3 => o = "support") /\ o \in Apps!Objects
    BY <1>7, <1>t DEF Apps!Fini, ControlInv, Apps!destroy_entities, Apps!Objects
  <2>2. Apps!Location(app, o) = l /\ l \in Apps!Locations /\ (Apps!Has(app, o) <=> valid[l])
    BY <2>1, CommonLocation, LocationType
  <2>3. /\ valid' = [valid EXCEPT ![l] = FALSE]
        /\ sessions' = (IF o = "support" /\ valid[l] THEN sessions - 1 ELSE sessions)
        /\ nodes' = (IF o = "node" /\ valid[l] THEN nodes - 1 ELSE nodes)
    BY <1>7, <2>2 DEF Apps!Fini
  <2>4. IF pc[2] < 3 THEN pc' = <<"destroy", pc[2] + 1>> /\ app' = app ELSE app' = "none"
    BY <1>7, <2>1 DEF Apps!Fini, Apps!Returns, Apps!destroy_entities
  <2> HIDE DEF o
  <2>5. CASE pc[2] = 1
    BY <1>c, <1>t, <2>1, <2>2, <2>3, <2>4, <2>5 DEF DeinitInv
  <2>6. CASE pc[2] = 2
    BY <1>c, <1>t, <2>1, <2>2, <2>3, <2>4, <2>6 DEF DeinitInv
  <2>7. CASE pc[2] = 3
    BY <1>c, <1>t, <2>1, <2>2, <2>3, <2>4, <2>7 DEF DeinitInv
  <2> QED BY <2>1, <2>5, <2>6, <2>7
<1>8. CASE Apps!AgentChanges \/ UNCHANGED Apps!vars
  BY <1>8, <1>c DEF Apps!AgentChanges, Apps!vars, Apps!shellVars, DeinitInv
<1> QED BY <1>1, <1>2, <1>3, <1>4, <1>5, <1>6, <1>7, <1>8 DEF Apps!Next

\* microros_deinitialization leaves the pools as it has found them, whichever of
\* its creations failed, if no other example of the firmware uses its variables.
LEMMA CommandsReturnAll == Configured => (CommandsSpec => Apps!DeinitializationGivesBack)
<1> SUFFICES ASSUME Configured PROVE CommandsSpec => Apps!DeinitializationGivesBack
  OBVIOUS
<1> DEFINE GivesBack ==
      ~Apps!Shares /\ app = "deinitialization" /\ app' = "none" => <<sessions', nodes'>> = found
<1>1. Apps!Init => DeinitInv
  <2>1. <<"common", "support">> \in Apps!Locations /\ <<"common", "node">> \in Apps!Locations
    BY DEF Apps!Locations, Apps!Objects
  <2> QED BY <2>1 DEF Apps!Init, DeinitInv, Common
<1>2. CommandsInv /\ DeinitInv /\ [Apps!Next]_Apps!vars => DeinitInv'
  BY DeinitStep
<1>3. CommandsInv /\ DeinitInv /\ [Apps!Next]_Apps!vars => GivesBack
  <2> SUFFICES ASSUME CommandsInv, DeinitInv, [Apps!Next]_Apps!vars,
                      ~Apps!Shares, app = "deinitialization", app' = "none"
               PROVE  <<sessions', nodes'>> = found
    OBVIOUS
  <2>t. /\ ControlInv /\ "deinitialization" \in build
        /\ sessions \in Nat /\ nodes \in Nat
    BY DEF CommandsInv, ControlInv, PoolInv, Configured
  <2>1. Apps!Fini
    <3>1. ~Apps!Creating
      <4> SUFFICES ASSUME Apps!Creating PROVE FALSE
        OBVIOUS
      <4>1. /\ pc[1] = "create" /\ pc[2] \in 1..3
            /\ (pc[2] \in {1, 2} => Apps!Creations(app)[pc[2]].checked)
        BY <2>t, CreationsDeinitialization DEF Apps!Creating, ControlInv
      <4>2. Apps!Returns(Apps!After(pc[2])) \/ Apps!Returns(Apps!GivenUp)
        BY DEF Apps!Creating, Apps!Create, Apps!CreateFails
      <4>3. Apps!After(pc[2])[1] # "idle" /\ Apps!GivenUp[1] # "idle"
        BY <4>1 DEF Apps!After, Apps!GivenUp
      <4> QED BY <4>2, <4>3 DEF Apps!Returns
    <3>2. ~Apps!StartThread
      BY <2>t DEF Apps!StartThread, ControlInv
    <3> QED BY <3>1, <3>2 DEF Apps!Next, Apps!Give, Apps!Registering,
                              Apps!set_microros_udp_transports, Apps!Ping,
               Apps!Publish, Apps!AgentChanges, Apps!vars, Apps!shellVars
  <2>2. pc[1] = "destroy" /\ pc[2] = 3
    BY <2>1, <2>t DEF Apps!Fini, Apps!Returns, Apps!destroy_entities, ControlInv
  <2>3. pc = <<"destroy", 3>>
    BY <2>2, <2>t DEF ControlInv
  <2>4. /\ ~Common("node") /\ found \in Nat \X Nat
        /\ sessions = found[1] + Count(Common("support")) /\ nodes = found[2]
    BY <2>3, <2>t DEF DeinitInv, Count
  <2>5. sessions' = sessions - Count(Common("support")) /\ nodes' = nodes
    <3>1. Apps!Has(app, "support") <=> Common("support")
      BY CommonLocation, LocationType DEF Apps!Objects, Common
    <3>2. Apps!destroy_entities[pc[2]] = "support"
      BY <2>2 DEF Apps!destroy_entities
    <3> QED BY <2>1, <2>t, <3>1, <3>2 DEF Apps!Fini, Count
  <2> QED BY <2>t, <2>4, <2>5 DEF Count
<1> HIDE DEF GivesBack
<1>4. CommandsInv /\ DeinitInv /\ [Apps!Next]_Apps!vars => [GivesBack]_Apps!vars
  BY <1>3
<1>5. CommandsSpec => [][GivesBack]_Apps!vars
  BY <1>1, <1>2, <1>4, CommandsInvariance, PTL DEF CommandsSpec
<1> QED BY <1>5 DEF Apps!DeinitializationGivesBack, GivesBack
-----------------------------------------------------------------------------
\* Sessions, where no two examples share variables: each thread that runs, the
\* command that is about to start one and microros_deinitialization have one each.

Pending ==
    /\ app \notin {"none", "deinitialization"}
    /\ pc[1] = "thread" \/ (pc[1] = "create" /\ pc[2] > 1)

DeinitHolds == "deinitialization" \in build /\ Common("support")

HeldInv ==
    ~Apps!Shares =>
        /\ IsFiniteSet(spinning)
        /\ Cardinality(spinning) + Count(Pending) + Count(DeinitHolds) <= sessions

\* A session is taken before its thread starts, and given back by Fini only.
LEMMA HeldStep == Configured /\ CommandsInv /\ HeldInv /\ [Apps!Next]_Apps!vars => HeldInv'
<1> SUFFICES ASSUME Configured, CommandsInv, HeldInv, [Apps!Next]_Apps!vars, (~Apps!Shares)'
             PROVE  HeldInv'
  BY DEF HeldInv
<1>b. build' = build
  BY DEF Apps!Next, Apps!Give, Apps!Registering, Apps!set_microros_udp_transports, Apps!Ping,
         Apps!Creating, Apps!Create,
         Apps!CreateFails, Apps!StartThread, Apps!Publish, Apps!Fini, Apps!AgentChanges, Apps!vars
<1>c. /\ ~Apps!Shares /\ IsFiniteSet(spinning) /\ Cardinality(spinning) \in Nat
      /\ Cardinality(spinning) + Count(Pending) + Count(DeinitHolds) <= sessions
  <2>1. ~Apps!Shares
    BY <1>b DEF Apps!Shares
  <2> QED BY <2>1, FS_CardinalityType DEF HeldInv
<1>t. /\ ControlInv /\ valid \in [Apps!Locations -> BOOLEAN] /\ sessions \in Nat
      /\ <<"common", "support">> \in Apps!Locations /\ "support" \in Apps!Objects
      /\ pc = <<pc[1], pc[2]>> /\ pc[2] \in Nat
  BY ControlType DEF CommandsInv, PoolInv, Configured, Apps!Locations, Apps!Objects
\* a step that neither starts a thread nor takes or gives back a session
<1>q. ASSUME UNCHANGED <<sessions, spinning>>, Pending' => Pending, DeinitHolds' => DeinitHolds
      PROVE  HeldInv'
  BY <1>q, <1>c, <1>t DEF HeldInv, Count
<1>1. ASSUME NEW a \in build, Apps!Give(a) PROVE HeldInv'
  <2>1. pc' = <<"register", 0>> /\ UNCHANGED <<valid, sessions, spinning, build>>
    BY <1>1 DEF Apps!Give
  <2> QED BY <1>q, <2>1 DEF Pending, DeinitHolds, Common
<1>2. CASE Apps!Registering
  <2>1. /\ pc' = <<"ping", 0>> \/ pc' = <<"create", 1>>
        /\ UNCHANGED <<valid, sessions, spinning, build>>
    BY <1>2 DEF Apps!Registering, Apps!set_microros_udp_transports, Apps!Registered
  <2> QED BY <1>q, <2>1 DEF Pending, DeinitHolds, Common
<1>3. CASE Apps!Ping(TRUE) \/ Apps!Ping(FALSE)
  <2>1. /\ (pc' = pc \/ pc' = <<"create", 1>>) /\ app' = app
        /\ UNCHANGED <<valid, sessions, spinning, build>>
    BY <1>3 DEF Apps!Ping
  <2> QED BY <1>q, <2>1 DEF Pending, DeinitHolds, Common
<1>4. CASE Apps!Creating
  <2> DEFINE c == Apps!Creations(app)
             i == pc[2]
             o == c[i].object
             l == Apps!Location(app, o)
  <2>0. pc[1] = "create" /\ UNCHANGED <<spinning, build>> /\ app' \in {app, "none"}
    BY <1>4 DEF Apps!Creating, Apps!Create, Apps!CreateFails, Apps!Returns
  <2>1. /\ app \in Apps!Apps /\ app \in build /\ app # "none" /\ i \in 1..Len(c)
        /\ o \in Apps!Objects /\ l \in Apps!Locations
        /\ (o = "support" <=> i = 1) /\ (i = 1 => c[i].checked)
    BY <1>t, <2>0, CreatingObject, LocationType, CreationsFirst DEF ControlInv
  \* of the firmware's examples only microros_deinitialization has its objects there
  <2>2. "deinitialization" \in build /\ app # "deinitialization" =>
            l # <<"common", "support">>
    BY <1>c, <2>1, OthersStatic, StaticLocation
  <2>3. CASE Apps!Create(i)
    <3>1. /\ valid' = [valid EXCEPT ![l] = TRUE] /\ Apps!Returns(Apps!After(i))
          /\ sessions' = (IF o = "support" THEN sessions + 1 ELSE sessions)
      BY <2>3 DEF Apps!Create
    <3>2. CASE app = "deinitialization"
      <4>1. l = <<"common", o>> /\ ~Pending /\ ~Pending'
        BY <2>0, <2>1, <3>2, CommonLocation DEF Pending
      <4> HIDE DEF o, l, c
      <4>2. CASE o = "support"
        BY <1>c, <1>t, <2>0, <3>1, <4>1, <4>2 DEF HeldInv, Count
      <4>3. CASE o # "support"
        <5>1. DeinitHolds' => DeinitHolds
          BY <1>t, <2>0, <3>1, <4>1, <4>3 DEF DeinitHolds, Common
        <5> QED BY <1>q, <2>0, <3>1, <4>1, <4>3, <5>1
      <4> QED BY <4>2, <4>3
    <3>3. CASE app # "deinitialization"
      <4> HIDE DEF o, l, c
      <4>1. DeinitHolds' => DeinitHolds
        BY <1>t, <2>0, <2>1, <2>2, <3>1, <3>3 DEF DeinitHolds, Common
      <4>2. CASE i = 1
        BY <1>c, <1>t, <2>0, <2>1, <3>1, <4>1, <4>2 DEF HeldInv, Count, Pending
      <4>3. CASE i # 1
        <5>1. Pending
          BY <1>t, <2>0, <2>1, <3>3, <4>3 DEF Pending
        <5> QED BY <1>q, <2>0, <2>1, <3>1, <4>1, <4>3, <5>1
      <4> QED BY <4>2, <4>3
    <3> QED BY <3>2, <3>3
  <2>4. CASE Apps!CreateFails(i)
    <3>1. /\ sessions' = sessions
          /\ Apps!Returns(IF c[i].checked THEN Apps!GivenUp ELSE Apps!After(i))
      BY <2>4 DEF Apps!CreateFails
    <3>2. valid' = valid \/ valid' = [valid EXCEPT ![l] = FALSE]
      BY <1>t, <2>0, <2>4, FailedObject
    <3>3. Pending' => Pending
      <4>1. CASE i = 1
        BY <2>1, <3>1, <4>1 DEF Apps!Returns, Apps!GivenUp, Pending
      <4>2. CASE i # 1
        BY <1>t, <2>0, <2>1, <4>2 DEF Pending
      <4> QED BY <4>1, <4>2
    <3> HIDE DEF o, l, c
    <3>4. DeinitHolds' => DeinitHolds
      BY <1>t, <2>0, <2>1, <3>2 DEF DeinitHolds, Common
    <3> QED BY <1>q, <2>0, <3>1, <3>3, <3>4
  <2> QED BY <1>4, <2>3, <2>4 DEF Apps!Creating
<1>5. CASE Apps!StartThread
  <2>1. /\ pc[1] = "thread" /\ app' = "none" /\ spinning' \in {spinning, spinning \cup {app}}
        /\ UNCHANGED <<valid, sessions, build>>
    BY <1>5 DEF Apps!StartThread, Apps!Returns
  <2>2. Pending /\ ~Pending'
    BY <1>t, <2>1 DEF Pending, ControlInv
  <2>3. DeinitHolds' <=> DeinitHolds
    BY <2>1 DEF DeinitHolds, Common
  <2>4. /\ IsFiniteSet(spinning') /\ Cardinality(spinning') \in Nat
        /\ Cardinality(spinning') <= Cardinality(spinning) + 1
    <3>1. CASE spinning' = spinning
      BY <1>c, <3>1
    <3>2. CASE spinning' = spinning \cup {app}
      BY <1>c, <3>2, FS_AddElement
    <3> QED BY <2>1, <3>1, <3>2
  <2> QED BY <1>c, <1>t, <2>1, <2>2, <2>3, <2>4 DEF HeldInv, Count
<1>6. CASE Apps!Publish
  <2>1. pc'[1] \in {"publish", "destroy"} /\ UNCHANGED <<valid, sessions, spinning, build>>
    BY <1>6 DEF Apps!Publish
  <2> QED BY <1>q, <2>1 DEF Pending, DeinitHolds, Common
<1>7. CASE Apps!Fini
  <2> DEFINE o == Apps!destroy_entities[pc[2]]
             l == <<"common", o>>
  <2>1. /\ app = "deinitialization" /\ o \in Apps!Objects /\ app' \in {app, "none"}
        /\ UNCHANGED <<spinning, build>> /\ app \in build
    BY <1>7, <1>t DEF Apps!Fini, ControlInv, Apps!destroy_entities, Apps!Objects, Apps!Returns
  <2>2. Apps!Location(app, o) = l /\ l \in Apps!Locations /\ (Apps!Has(app, o) <=> valid[l])
    BY <2>1, CommonLocation, LocationType
  <2>3. /\ valid' = [valid EXCEPT ![l] = FALSE]
        /\ sessions' = (IF o = "support" /\ valid[l] THEN sessions - 1 ELSE sessions)
    BY <1>7, <2>2 DEF Apps!Fini
  <2>4. ~Pending'
    BY <2>1 DEF Pending
  <2> HIDE DEF o
  <2>5. CASE o = "support" /\ valid[l]
    <3>1. DeinitHolds /\ ~DeinitHolds'
      BY <1>t, <2>1, <2>2, <2>3, <2>5 DEF DeinitHolds, Common
    <3> QED BY <1>c, <1>t, <2>1, <2>3, <2>4, <2>5, <3>1 DEF HeldInv, Count
  <2>6. CASE ~(o = "support" /\ valid[l])
    <3>1. DeinitHolds' => DeinitHolds
      BY <1>t, <2>1, <2>2, <2>3 DEF DeinitHolds, Common
    <3> QED BY <1>q, <2>1, <2>3, <2>4, <2>6, <3>1
  <2> QED BY <2>5, <2>6
<1>8. CASE Apps!AgentChanges \/ UNCHANGED Apps!vars
  BY <1>8, <1>q DEF Apps!AgentChanges, Apps!vars, Apps!shellVars, Pending, DeinitHolds, Common
<1> QED BY <1>1, <1>2, <1>3, <1>4, <1>5, <1>6, <1>7, <1>8 DEF Apps!Next

\* Every thread has a session, in every behaviour.
LEMMA HeldInvariance == Configured => (CommandsSpec => []HeldInv)
<1> SUFFICES ASSUME Configured PROVE CommandsSpec => []HeldInv
  OBVIOUS
<1>1. Apps!Init => HeldInv
  <2>1. <<"common", "support">> \in Apps!Locations
    BY DEF Apps!Locations, Apps!Objects
  <2> QED BY <2>1, FS_EmptySet DEF Apps!Init, HeldInv, Count, Pending, DeinitHolds, Common
<1>2. CommandsInv /\ HeldInv /\ [Apps!Next]_Apps!vars => HeldInv'
  BY HeldStep
<1> QED BY <1>1, <1>2, CommandsInvariance, PTL DEF CommandsSpec

\* Where no two examples share variables there are never more threads than the
\* client has sessions.
THEOREM ThreadsHaveSessions ==
    Configured => (CommandsSpec => [](~Apps!Shares => Cardinality(spinning) <= MaxSessions))
<1> SUFFICES ASSUME Configured
             PROVE  CommandsSpec => [](~Apps!Shares => Cardinality(spinning) <= MaxSessions)
  OBVIOUS
<1>1. CommandsInv /\ HeldInv => (~Apps!Shares => Cardinality(spinning) <= MaxSessions)
  BY FS_CardinalityType DEF CommandsInv, HeldInv, PoolInv, Configured, Count
<1> QED BY <1>1, CommandsInvariance, HeldInvariance, PTL

\* The client of this package has one session, so one example runs at most.
LEMMA CommandsOneRuns == Configured /\ MaxSessions = 1 => (CommandsSpec => []Apps!OneRuns)
<1> SUFFICES ASSUME Configured, MaxSessions = 1 PROVE CommandsSpec => []Apps!OneRuns
  OBVIOUS
<1>1. (~Apps!Shares => Cardinality(spinning) <= MaxSessions) => Apps!OneRuns
  <2>1. Apps!Cardinality(spinning) = Cardinality(spinning)
    BY DEF Apps!Cardinality, Cardinality
  <2> QED BY <2>1 DEF Apps!OneRuns
<1> QED BY <1>1, ThreadsHaveSessions, PTL
-----------------------------------------------------------------------------
\* The examples side by side.  A behaviour of the composition is one of the commands.
LEMMA CommandsPart == RunSpec => CommandsSpec
<1>1. RunInit => Apps!Init
  BY DEF RunInit
<1>2. [RunNext]_<<example, vars, appsVars, kobukiVars>> => [Apps!Next]_(Apps!vars)
  BY DEF RunNext, Apps!vars, Apps!shellVars, appsVars
<1> QED BY <1>1, <1>2, PTL DEF RunSpec, CommandsSpec

\* Whatever commands are given, and however their creations fail, no transport is
\* opened with an argument that has been overwritten: every command registers its
\* address before it opens one.
THEOREM AddressIsLive == Configured => (RunSpec => []AddressLive)
BY CommandsPart, CommandsAddress, PTL DEF AddressLive

\* A thread whose command checks its creations has every object that it uses.
THEOREM RunsComplete == Configured => (RunSpec => []RunningIsComplete)
BY CommandsPart, CommandsComplete, PTL DEF RunningIsComplete

\* With the one session that the library is built with, two examples that do not
\* share their variables never run at once.
THEOREM OnlyOneRuns == Configured /\ MaxSessions = 1 => (RunSpec => []OneRuns)
BY CommandsPart, CommandsOneRuns, PTL DEF OneRuns

\* microros_deinitialization gives back every session and node that it took,
\* whichever of its creations failed.
THEOREM DeinitializationReturnsAll == Configured => (RunSpec => DeinitializationGivesBack)
BY CommandsPart, CommandsReturnAll, PTL DEF DeinitializationGivesBack

\* Ping pong, the commands and the robot control keep their types side by side.
THEOREM RunTypeCorrect ==
    Configured /\ MaxTwists \in Nat => (RunSpec => []RunTypeOK)
<1>1. RunSpec => Spec
  <2>1. RunInit => Init
    BY DEF RunInit
  <2>2. [RunNext]_<<example, vars, appsVars, kobukiVars>> => [Next]_vars
    BY DEF RunNext
  <2> QED BY <2>1, <2>2, PTL DEF RunSpec, Spec
<1>2. TypeOK /\ Apps!TypeOK /\ Kobuki!TypeOK => RunTypeOK
  BY DEF RunTypeOK
<1> QED BY <1>1, <1>2, TypeCorrect, CommandsPart, CommandsTypeCorrect, KobukiTypeCorrect, PTL
=============================================================================
