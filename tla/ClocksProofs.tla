---------------------------- MODULE ClocksProofs ----------------------------
(***************************************************************************)
(* Proofs about the two clocks, for every word size and reading pattern:   *)
(* the clock of the UDP transport is monotone at any tick rate, and both   *)
(* are accurate at the tick rates that divide 1000.                        *)
(***************************************************************************)
EXTENDS MCClocks, TLAPS

USE DEF ConversionAssumption, ClockBounds, calls

\* A million is a positive number.
LEMMA MegaType == Mega \in Nat \ {0}
BY ConversionAssumption DEF Mega

\* The measure fits its word.
LEMMA MicrosType == ASSUME NEW n \in Nat PROVE Micros(n) \in 0..Word-1
<1>1. rt_tick_get(n) \in Nat
  BY ConversionAssumption DEF rt_tick_get
<1> DEFINE x == (rt_tick_get(n) * Kilo) % Word
           y == (x \div TicksPerSecond) * Kilo
<1>2. x \in Nat
  BY <1>1, ConversionAssumption
<1>3. y \in Nat
  BY <1>2, ConversionAssumption
<1> HIDE DEF x, y
<1>4. y % Word \in 0..Word-1
  BY <1>3, ConversionAssumption
<1> QED BY <1>4 DEF Micros, x, y

\* A timespec loses nothing of a number of microseconds.
LEMMA NanosOfTimespec == ASSUME NEW us \in Nat PROVE Nanos(Timespec(us)) = us * Kilo
<1> DEFINE q == us \div Mega
           s == us % Mega
<1>1. q \in Nat /\ s \in Nat /\ us = Mega * q + s
  BY MegaType
<1>2. Nanos(Timespec(us)) = q * (Mega * Kilo) + s * Kilo
  BY DEF Nanos, Timespec
<1> HIDE DEF q, s
<1>3. q * (Mega * Kilo) + s * Kilo = (Mega * q + s) * Kilo
  BY <1>1, MegaType, ConversionAssumption
<1> QED BY <1>1, <1>2, <1>3

\* Times are natural numbers.
LEMMA TimeType ==
    ASSUME NEW us \in Nat, NEW w \in Nat
    PROVE  us + w * (Word - 1) \in Nat /\ TimeOf(us, w) \in Nat
<1>1. w * (Word - 1) \in Nat
  BY ConversionAssumption
<1> QED BY <1>1, ConversionAssumption DEF TimeOf
-----------------------------------------------------------------------------
\* Every step keeps the types.
LEMMA TypeStep == TypeOK /\ [Next]_vars => TypeOK'
<1> SUFFICES ASSUME TypeOK, [Next]_vars PROVE TypeOK'
  OBVIOUS
<1> USE DEF TypeOK
<1>1. CASE Tick
  BY <1>1 DEF Tick
<1>2. ASSUME NEW t \in Threads, Measure(t) PROVE TypeOK'
  BY <1>2, MicrosType DEF Measure
<1>3. ASSUME NEW t \in Threads, Count(t) PROVE TypeOK'
  BY <1>3 DEF Count
<1>4. ASSUME NEW t \in Threads, Store(t) PROVE TypeOK'
  <2>1. m[t] + r[t] * (Word - 1) \in Nat
    <3>1. m[t] \in Nat /\ r[t] \in Nat
      BY ConversionAssumption
    <3> QED BY <3>1, TimeType
  <2> QED BY <1>4, <2>1 DEF Store
<1>5. ASSUME NEW t \in Threads, Finish(t) PROVE TypeOK'
  <2>1. Nanos(Timespec(real_us[t])) \in Nat
    BY NanosOfTimespec, ConversionAssumption
  <2> QED BY <1>5, <2>1 DEF Finish, Later
<1>6. CASE UNCHANGED vars
  BY <1>6 DEF vars
<1> QED BY <1>1, <1>2, <1>3, <1>4, <1>5, <1>6 DEF Next, clock_gettime

\* The clock's state keeps its types: a measure always fits last_measure.
THEOREM TypeCorrect == Spec => []TypeOK
<1>1. Init => TypeOK
  BY ConversionAssumption DEF Init, TypeOK
<1> QED BY <1>1, TypeStep, PTL DEF Spec
-----------------------------------------------------------------------------
\* Whatever number of wraps the clock has missed, a new measure stands for a
\* time that is not before the last one's.
LEMMA NextTimeIsLater ==
    ASSUME NEW new \in 0..Word-1, NEW last \in 0..Word-1, NEW w \in Nat
    PROVE  TimeOf(last, w) <= TimeOf(new, w + (IF new < last THEN 1 ELSE 0))
<1> DEFINE z == w * (Word - 1)
<1>1. z \in Nat /\ (w + 1) * (Word - 1) = z + (Word - 1)
  BY ConversionAssumption
<1>2. CASE new < last
  <2>1. last + z <= new + (z + (Word - 1))
    BY <1>1, ConversionAssumption
  <2>2. (last + z) * Kilo <= (new + (z + (Word - 1))) * Kilo
    <3> DEFINE a == last + z
               c == new + (z + (Word - 1))
    <3>1. a \in Int /\ c \in Int /\ a <= c
      BY <1>1, <2>1, ConversionAssumption
    <3> HIDE DEF a, c
    <3>2. a * Kilo <= c * Kilo
      BY <3>1, ConversionAssumption
    <3> QED BY <3>2 DEF a, c
  <2> QED BY <1>1, <1>2, <2>2 DEF TimeOf
<1>3. CASE ~(new < last)
  <2>1. (last + z) * Kilo <= (new + z) * Kilo
    <3> DEFINE a == last + z
               c == new + z
    <3>1. a \in Int /\ c \in Int /\ a <= c
      BY <1>1, <1>3, ConversionAssumption
    <3> HIDE DEF a, c
    <3>2. a * Kilo <= c * Kilo
      BY <3>1, ConversionAssumption
    <3> QED BY <3>2 DEF a, c
  <2>2. w + 0 = w
    OBVIOUS
  <2> QED BY <1>3, <2>1, <2>2 DEF TimeOf
<1> QED BY <1>2, <1>3

\* The next time stays behind what was reported.
LEMMA MonotoneStep ==
    ASSUME NEW one, Threads = {one}, TypeOK, MonotoneInv, [Next]_vars
    PROVE  MonotoneInv'
<1> USE DEF TypeOK, MonotoneInv
<1>1. CASE Tick
  BY <1>1 DEF Tick
<1>2. ASSUME NEW t \in Threads, Measure(t) PROVE MonotoneInv'
  BY <1>2 DEF Measure
<1>3. ASSUME NEW t \in Threads, Count(t) PROVE MonotoneInv'
  <2>1. r'[t] = rollover + (IF m[t] < last_measure THEN 1 ELSE 0) /\ m' = m
    BY <1>3 DEF Count
  <2>2. TimeOf(last_measure, rollover) <= TimeOf(m[t], r'[t])
    BY <2>1, NextTimeIsLater
  <2>3. /\ TimeOf(last_measure, rollover) \in Nat
        /\ TimeOf(m[t], r'[t]) \in Nat
    <3>1. r'[t] \in Nat /\ m[t] \in Nat /\ last_measure \in Nat
      BY <2>1, ConversionAssumption
    <3> QED BY <3>1, TimeType
  <2>4. reported <= TimeOf(last_measure, rollover)
    BY <1>3 DEF Count
  <2>5. reported <= TimeOf(m[t], r'[t])
    BY <2>2, <2>3, <2>4
  <2> QED BY <1>3, <2>1, <2>5 DEF Count
<1>4. ASSUME NEW t \in Threads, Store(t) PROVE MonotoneInv'
  BY <1>4 DEF Store
<1>5. ASSUME NEW t \in Threads, Finish(t) PROVE MonotoneInv'
  <2>1. real_us[t] = m[t] + r[t] * (Word - 1) /\ rollover = r[t]
    BY <1>5 DEF Finish
  <2>2. Nanos(Timespec(real_us[t])) = TimeOf(m[t], r[t])
    BY <2>1, NanosOfTimespec DEF TimeOf
  <2>3. TimeOf(m[t], r[t]) \in Nat /\ reported <= TimeOf(m[t], r[t])
    BY <1>5, TimeType, ConversionAssumption DEF Finish
  <2>4. reported' = TimeOf(m[t], r[t])
    BY <1>5, <2>2, <2>3 DEF Finish, Later
  <2>5. last_measure' = m[t] /\ rollover' = r[t] /\ pc'[t] = "idle" /\ floor' = floor
    BY <1>5, <2>1 DEF Finish
  <2>6. floor[t] <= reported'
    BY <2>3, <2>4
  <2> QED BY <2>3, <2>4, <2>5, <2>6
<1>6. CASE UNCHANGED vars
  BY <1>6 DEF vars
<1> QED BY <1>1, <1>2, <1>3, <1>4, <1>5, <1>6 DEF Next, clock_gettime

\* With one calling thread the UDP clock never goes back, for any tick rate,
\* however seldom it is read and however often its counters wrap in between.
THEOREM MonotoneForOneThread ==
    ASSUME NEW one, Threads = {one} PROVE Spec => []Monotone
<1>1. Init => MonotoneInv
  BY ConversionAssumption, TimeType DEF Init, MonotoneInv
<1>2. TypeOK /\ MonotoneInv => Monotone
  <2> SUFFICES ASSUME TypeOK, MonotoneInv, NEW t \in Threads, pc[t] = "finish"
               PROVE  Nanos(Timespec(real_us[t])) >= floor[t]
    BY DEF Monotone
  <2>1. Nanos(Timespec(real_us[t])) = TimeOf(m[t], r[t])
    BY NanosOfTimespec DEF TimeOf, TypeOK, MonotoneInv
  <2>2. floor[t] <= reported /\ reported <= TimeOf(m[t], r[t])
    BY DEF MonotoneInv
  <2>3. TimeOf(m[t], r[t]) \in Nat
    BY TimeType, ConversionAssumption DEF TypeOK
  <2> QED BY <2>1, <2>2, <2>3 DEF TypeOK
<1>3. TypeOK /\ MonotoneInv /\ [Next]_vars => MonotoneInv'
  BY MonotoneStep
<1> QED BY <1>1, <1>2, <1>3, TypeCorrect, PTL DEF Spec
-----------------------------------------------------------------------------
(***************************************************************************)
(* Division.                                                               *)
(***************************************************************************)
\* What quotient and remainder are.
LEMMA DivMod ==
    ASSUME NEW a \in Int, NEW b \in Nat \ {0}
    PROVE  a \div b \in Int /\ a % b \in 0..b-1 /\ a = b * (a \div b) + (a % b)
OBVIOUS

\* Multiplication keeps the order.
LEMMA MulMono ==
    ASSUME NEW a \in Nat, NEW x \in Int, NEW y \in Int, x <= y
    PROVE  a * x \in Int /\ a * y \in Int /\ a * x <= a * y
OBVIOUS

\* The only quotient and remainder.
LEMMA DivUnique ==
    ASSUME NEW a \in Int, NEW b \in Nat \ {0}, NEW q \in Int, NEW s \in 0..b-1, a = b * q + s
    PROVE  a \div b = q /\ a % b = s
<1> DEFINE p == a \div b
           u == a % b
<1>1. p \in Int /\ u \in 0..b-1 /\ b * p + u = b * q + s
  BY DivMod
<1> HIDE DEF p, u
<1>2. b * p \in Int /\ b * q \in Int /\ b * (q + 1) = b * q + b /\ b * (p + 1) = b * p + b
  BY <1>1
<1>3. ~(p <= q - 1)
  <2> SUFFICES ASSUME p + 1 <= q PROVE FALSE
    BY <1>1
  <2>1. b * (p + 1) <= b * q
    BY <1>1, MulMono
  <2> QED BY <1>1, <1>2, <2>1
<1>4. ~(q <= p - 1)
  <2> SUFFICES ASSUME q + 1 <= p PROVE FALSE
    BY <1>1
  <2>1. b * (q + 1) <= b * p
    BY <1>1, MulMono
  <2> QED BY <1>1, <1>2, <2>1
<1>5. p = q
  BY <1>1, <1>3, <1>4
<1>6. u = s
  BY <1>1, <1>2, <1>5
<1> QED BY <1>5, <1>6 DEF p, u

\* A multiple of the divisor changes nothing of the remainder.
LEMMA ModShift ==
    ASSUME NEW b \in Nat \ {0}, NEW k \in Int, NEW y \in Int
    PROVE  (b * k + y) % b = y % b
<1> DEFINE q == y \div b
           s == y % b
<1>1. q \in Int /\ s \in 0..b-1 /\ y = b * q + s
  BY DivMod
<1> HIDE DEF q, s
<1>2. b * k + y = b * (k + q) + s /\ b * k + y \in Int
  BY <1>1
<1>3. (b * k + y) % b = s
  BY <1>1, <1>2, DivUnique
<1> QED BY <1>3 DEF s

\* One comparison of remainders tells whether a quotient has grown, if less than
\* the divisor was added.
LEMMA Wrapped ==
    ASSUME NEW b \in Nat \ {0}, NEW x \in Nat, NEW y \in Nat, x <= y, y - x < b
    PROVE  y \div b = (x \div b) + (IF y % b < x % b THEN 1 ELSE 0)
<1> DEFINE q == x \div b
           s == x % b
           d == s + (y - x)
<1>1. q \in Int /\ s \in 0..b-1 /\ x = b * q + s
  BY DivMod
<1> HIDE DEF q, s
<1>2. d \in Nat /\ y = b * q + d /\ b * (q + 1) = b * q + b /\ b * q \in Int
  BY <1>1
<1>3. CASE d < b
  <2>1. d \in 0..b-1
    BY <1>2, <1>3
  <2>2. y \div b = q /\ y % b = d
    BY <1>1, <1>2, <2>1, DivUnique
  <2> QED BY <1>1, <2>2 DEF q, s
<1>4. CASE d >= b
  <2>1. d - b \in 0..b-1 /\ y = b * (q + 1) + (d - b) /\ q + 1 \in Int
    BY <1>1, <1>2, <1>4
  <2>2. y \div b = q + 1 /\ y % b = d - b
    BY <2>1, DivUnique
  <2>3. d - b < s
    BY <1>1
  <2> QED BY <2>2, <2>3 DEF q, s
<1> QED BY <1>2, <1>3, <1>4
-----------------------------------------------------------------------------
(***************************************************************************)
(* Accuracy, at tick rates that divide 1000, such as RT-Thread's usual 100 *)
(* and 1000.                                                               *)
(***************************************************************************)
\* RT_TICK_PER_SECOND divides 1000.
WholeTicks == Kilo % TicksPerSecond = 0

\* Milliseconds and microseconds in a tick.
MillisPerTick == Kilo \div TicksPerSecond
MicrosPerTick == Kilo * MillisPerTick

\* The product of the tick count and 1000, as it fits its word.
Product(n) == (rt_tick_get(n) * Kilo) % Word

\* What the division by RT_TICK_PER_SECOND drops, and the time without it.
Dropped(n) == (Product(n) % TicksPerSecond) * MillisPerTick
Shown(n) == TrueMicros(n) - Dropped(n)

\* A tick is a whole number of milliseconds.
LEMMA TickType ==
    ASSUME WholeTicks
    PROVE  /\ MillisPerTick \in Nat \ {0} /\ Kilo = TicksPerSecond * MillisPerTick
           /\ MicrosPerTick \in Nat /\ MicrosPerTick >= Kilo
<1> DEFINE c == MillisPerTick
<1>1. c \in Int /\ Kilo = TicksPerSecond * c + 0
  BY ConversionAssumption, DivMod DEF WholeTicks, MillisPerTick
<1> HIDE DEF c
<1>2. c >= 1
  <2> SUFFICES ASSUME c <= 0 PROVE FALSE
    BY <1>1
  <2>1. TicksPerSecond * c <= TicksPerSecond * 0
    BY <1>1, ConversionAssumption, MulMono
  <2> QED BY <1>1, <2>1, ConversionAssumption
<1>3. Kilo * 1 <= Kilo * c /\ Kilo * c \in Int
  BY <1>1, <1>2, ConversionAssumption, MulMono
<1>4. Kilo = TicksPerSecond * c /\ c \in Nat \ {0} /\ Kilo * c >= Kilo /\ Kilo * c \in Nat
  BY <1>1, <1>2, <1>3, ConversionAssumption
<1> QED BY <1>4 DEF c, MicrosPerTick

\* The time is a whole number of ticks.
LEMMA TrueMicrosWhole ==
    ASSUME WholeTicks, NEW n \in Nat
    PROVE  TrueMicros(n) = n * MicrosPerTick /\ n * MicrosPerTick \in Nat
<1> DEFINE c == MillisPerTick
           T == TicksPerSecond
<1>1. c \in Nat /\ T \in Nat \ {0} /\ Kilo \in Nat /\ Kilo = T * c
  BY TickType, ConversionAssumption
<1> HIDE DEF c, T
<1>2. Kilo * c \in Nat /\ n * (Kilo * c) \in Nat
  BY <1>1
<1>3. n * (Kilo * Kilo) = T * (n * (Kilo * c)) + 0
  <2>1. Kilo * Kilo = T * (Kilo * c)
    BY <1>1
  <2> DEFINE z == Kilo * c
  <2> HIDE DEF z
  <2>2. n * (T * z) = T * (n * z) + 0
    BY <1>1, <1>2 DEF z
  <2> QED BY <2>1, <2>2 DEF z
<1>4. n * (Kilo * Kilo) \in Int /\ 0 \in 0..T-1
  BY <1>1
<1>5. (n * (Kilo * Kilo)) \div T = n * (Kilo * c)
  BY <1>1, <1>2, <1>3, <1>4, DivUnique
<1> QED BY <1>2, <1>5 DEF c, T, TrueMicros, Mega, MicrosPerTick

\* The clock's measure is the time that has passed, to the millisecond and modulo
\* Word: the word in between loses nothing else.
LEMMA ShownMicros ==
    ASSUME WholeTicks, NEW n \in Nat
    PROVE  /\ Dropped(n) \in 0..Kilo-1 /\ Shown(n) \in Nat
           /\ TrueMicros(n) = Shown(n) + Dropped(n)
           /\ Micros(n) = Shown(n) % Word
<1> DEFINE c == MillisPerTick
           T == TicksPerSecond
           K == Kilo
           W == Word
           a == n \div W
           t == n % W
           b == (t * K) \div W
           x == (t * K) % W
           g == x \div T
           h == x % T
<1>0. K \in Nat \ {0} /\ W \in Nat \ {0} /\ T \in Nat \ {0} /\ c \in Nat \ {0} /\ K = T * c
  BY TickType, ConversionAssumption
<1>1. a \in Int /\ t \in 0..W-1 /\ n = W * a + t
  BY <1>0, DivMod
<1>2. t * K \in Int
  BY <1>0, <1>1
<1>3. b \in Int /\ x \in 0..W-1 /\ t * K = W * b + x
  BY <1>0, <1>2, DivMod
<1>4. g \in Int /\ h \in 0..T-1 /\ x = T * g + h
  <2>1. x \in Int
    BY <1>0, <1>3
  <2> HIDE DEF x, T
  <2> QED BY <1>0, <2>1, DivMod
<1>5. /\ Micros(n) = (g * K) % W /\ Product(n) = x /\ Dropped(n) = h * c
  BY DEF Micros, Product, Dropped, rt_tick_get
<1>6. TrueMicros(n) = n * (K * c) /\ n * (K * c) \in Nat
  BY TrueMicrosWhole DEF MicrosPerTick
<1>7. /\ Shown(n) = n * (K * c) - h * c
  BY <1>5, <1>6 DEF Shown
<1> HIDE DEF c, T, K, W, a, t, b, x, g, h
<1>8. n * K = W * (a * K + b) + (T * g + h)
  <2>1. n * K = W * (a * K) + t * K
    BY <1>0, <1>1
  <2>2. W * (a * K + b) = W * (a * K) + W * b
    BY <1>0, <1>1, <1>3
  <2>3. W * (a * K) \in Int /\ W * b \in Int /\ t * K \in Int
    BY <1>0, <1>1, <1>2, <1>3
  <2> QED BY <1>3, <1>4, <2>1, <2>2, <2>3
<1>9. n * (K * c) - h * c = W * (c * (a * K + b)) + g * K
  <2> DEFINE k == a * K + b
  <2>0. k \in Int /\ n * K = W * k + (T * g + h)
    BY <1>0, <1>1, <1>3, <1>8
  <2> HIDE DEF k
  <2>1. n * (K * c) = (n * K) * c
    BY <1>0
  <2>2. (W * k + (T * g + h)) * c = (W * k) * c + ((T * g) * c + h * c)
    BY <1>0, <1>4, <2>0
  <2>3. (W * k) * c = W * (c * k) /\ (T * g) * c = g * K
    BY <1>0, <1>4, <2>0
  <2>4. (W * k) * c \in Int /\ (T * g) * c \in Int /\ h * c \in Int
    BY <1>0, <1>4, <2>0
  <2>5. n * (K * c) = W * (c * k) + (g * K + h * c)
    BY <2>0, <2>1, <2>2, <2>3
  <2>6. W * (c * k) \in Int /\ g * K \in Int
    BY <2>3, <2>4
  <2> QED BY <2>4, <2>5, <2>6 DEF k
<1>10. h * c \in 0..K-1
  <2>1. c * h \in Int /\ c * h <= c * (T - 1) /\ c * 0 <= c * h
    BY <1>0, <1>4, MulMono
  <2>2. c * (T - 1) = K - c /\ c * 0 = 0 /\ c * h = h * c
    BY <1>0, <1>4
  <2> QED BY <1>0, <2>1, <2>2
<1>11. (W * (c * (a * K + b)) + g * K) % W = (g * K) % W
  <2>1. c * (a * K + b) \in Int /\ g * K \in Int
    BY <1>0, <1>1, <1>3, <1>4
  <2> QED BY <1>0, <2>1, ModShift
<1>12. W * (c * (a * K + b)) + g * K \in Nat
  <2>1. 0 <= a /\ 0 <= b /\ 0 <= g
    <3>1. 0 <= a
      <4> SUFFICES ASSUME a <= -1 PROVE FALSE
        BY <1>1
      <4>1. W * a <= W * (-1)
        BY <1>0, <1>1, MulMono
      <4> QED BY <1>0, <1>1, <4>1
    <3>2. 0 <= b
      <4> SUFFICES ASSUME b <= -1 PROVE FALSE
        BY <1>3
      <4>1. W * b <= W * (-1)
        BY <1>0, <1>3, MulMono
      <4>2. t * K >= 0
        BY <1>0, <1>1
      <4> QED BY <1>0, <1>3, <4>1, <4>2
    <3>3. 0 <= g
      <4> SUFFICES ASSUME g <= -1 PROVE FALSE
        BY <1>4
      <4>1. T * g <= T * (-1)
        BY <1>0, <1>4, MulMono
      <4> QED BY <1>0, <1>3, <1>4, <4>1
    <3> QED BY <3>1, <3>2, <3>3
  <2>2. a * K \in Nat /\ g * K \in Nat
    BY <1>0, <1>1, <1>4, <2>1
  <2>3. a * K + b \in Nat
    BY <1>3, <2>1, <2>2
  <2>4. c * (a * K + b) \in Nat
    BY <1>0, <2>3
  <2>5. W * (c * (a * K + b)) \in Nat
    BY <1>0, <2>4
  <2> QED BY <2>2, <2>5
<1>13. Shown(n) = W * (c * (a * K + b)) + g * K
  BY <1>7, <1>9
<1>14. Shown(n) \in Nat /\ Micros(n) = Shown(n) % W
  BY <1>5, <1>11, <1>12, <1>13
<1>15. TrueMicros(n) = Shown(n) + h * c
  BY <1>6, <1>7, <1>10
<1>16. Dropped(n) = h * c
  BY <1>5
<1> QED BY <1>10, <1>14, <1>15, <1>16 DEF K, W

\* The clock is read before it can have wrapped twice.
ReadOften == MaxGap * MicrosPerTick + Kilo <= Word

\* Between two reads less than Word microseconds are shown to pass, and none is
\* taken back.
LEMMA ShownOrder ==
    ASSUME WholeTicks, ReadOften, NEW n \in Nat, NEW k \in Nat, n <= k, k - n <= MaxGap
    PROVE  Shown(n) <= Shown(k) /\ Shown(k) - Shown(n) < Word
<1> DEFINE M == MicrosPerTick
           d == k - n
<1>1. M \in Nat /\ M >= Kilo /\ MaxGap \in Nat /\ d \in Nat /\ d <= MaxGap
  BY TickType, ClockBounds
<1>2. /\ Shown(n) \in Nat /\ Dropped(n) \in 0..Kilo-1 /\ n * M = Shown(n) + Dropped(n)
      /\ Shown(k) \in Nat /\ Dropped(k) \in 0..Kilo-1 /\ k * M = Shown(k) + Dropped(k)
  BY ShownMicros, TrueMicrosWhole
<1>3. MaxGap * M + Kilo <= Word
  BY DEF ReadOften
<1>4. k * M - n * M = M * d /\ k * M \in Nat /\ n * M \in Nat
  <2> HIDE DEF M
  <2> QED BY <1>1
<1>5. M * d <= MaxGap * M /\ M * d \in Nat
  <2> HIDE DEF M, d
  <2>1. M * d <= M * MaxGap /\ M * d \in Nat /\ M * MaxGap = MaxGap * M
    BY <1>1, MulMono
  <2> QED BY <2>1
<1>6. MaxGap * M \in Nat
  <2> HIDE DEF M
  <2> QED BY <1>1
<1>7. CASE d = 0
  <2>1. k = n
    BY <1>7
  <2> QED BY <1>2, <2>1, ConversionAssumption
<1>8. CASE d >= 1
  <2>1. M * d >= M
    <3> HIDE DEF M, d
    <3>1. M * 1 <= M * d
      BY <1>1, <1>8, MulMono
    <3> QED BY <1>1, <3>1
  <2> HIDE DEF M, d
  <2> QED BY <1>1, <1>2, <1>3, <1>4, <1>5, <1>6, <2>1, ConversionAssumption
<1> QED BY <1>1, <1>7, <1>8

\* What one thread's call knows: rollover and last_measure are the quotient and the
\* remainder of the time that the last call has shown.
AccurateInv ==
    /\ sampled <= now /\ now - sampled <= MaxGap
    /\ last_measure = Shown(sampled) % Word
    /\ \A t \in Threads :
          /\ pc[t] # "finish" => rollover = Shown(sampled) \div Word
          /\ pc[t] # "idle" => /\ sampled <= at[t] /\ at[t] <= now
                               /\ m[t] = Shown(at[t]) % Word
          /\ pc[t] \in {"store", "finish"} => r[t] = Shown(at[t]) \div Word
          /\ pc[t] = "finish" => /\ rollover = r[t]
                                 /\ real_us[t] = m[t] + r[t] * (Word - 1)

\* Every wrap between two reads is counted, and once.
LEMMA AccurateStep ==
    ASSUME NEW one, Threads = {one}, WholeTicks, ReadOften, TypeOK, AccurateInv, [Next]_vars
    PROVE  AccurateInv'
<1>t. /\ now \in Nat /\ sampled \in Nat /\ MaxGap \in Nat /\ at \in [Threads -> Nat]
      /\ pc \in [Threads -> {"idle", "count", "store", "finish"}]
      /\ m \in [Threads -> 0..Word-1] /\ r \in [Threads -> Nat]
      /\ real_us \in [Threads -> Nat]
  BY ClockBounds DEF TypeOK
<1> USE DEF AccurateInv
<1>1. CASE Tick
  BY <1>1, <1>t DEF Tick
<1>2. ASSUME NEW t \in Threads, Measure(t) PROVE AccurateInv'
  <2>1. Micros(now) = Shown(now) % Word
    BY <1>t, ShownMicros
  <2> QED BY <1>2, <1>t, <2>1 DEF Measure
<1>3. ASSUME NEW t \in Threads, Count(t) PROVE AccurateInv'
  <2> DEFINE x == Shown(sampled)
             y == Shown(at[t])
  <2>1. /\ at[t] \in Nat /\ sampled <= at[t] /\ at[t] <= now /\ m[t] = y % Word
        /\ rollover = x \div Word /\ last_measure = x % Word
    BY <1>3, <1>t DEF Count
  <2>2. at[t] - sampled <= MaxGap
    BY <1>t, <2>1
  <2>3. x \in Nat /\ y \in Nat /\ x <= y /\ y - x < Word
    BY <1>t, <2>1, <2>2, ShownMicros, ShownOrder
  <2> HIDE DEF x, y
  <2>4. y \div Word = (x \div Word) + (IF y % Word < x % Word THEN 1 ELSE 0)
    BY <2>3, ConversionAssumption, Wrapped
  <2>5. r' = [r EXCEPT ![t] = y \div Word] /\ pc' = [pc EXCEPT ![t] = "store"]
        /\ UNCHANGED <<now, rollover, last_measure, m, real_us, at, sampled>>
    BY <1>3, <2>1, <2>4 DEF Count
  <2> QED BY <1>3, <1>t, <2>1, <2>5 DEF y, x, Count
<1>4. ASSUME NEW t \in Threads, Store(t) PROVE AccurateInv'
  BY <1>4, <1>t DEF Store
<1>5. ASSUME NEW t \in Threads, Finish(t) PROVE AccurateInv'
  <2>1. /\ sampled' = at[t] /\ last_measure' = m[t] /\ pc' = [pc EXCEPT ![t] = "idle"]
        /\ UNCHANGED <<now, rollover, m, r, real_us, at>>
    BY <1>5, <1>t DEF Finish, Later
  <2>2. /\ sampled <= at[t] /\ at[t] <= now /\ m[t] = Shown(at[t]) % Word
        /\ rollover = Shown(at[t]) \div Word
    BY <1>5, <1>t DEF Finish
  <2> QED BY <1>t, <2>1, <2>2
<1>6. CASE UNCHANGED vars
  BY <1>6, <1>t DEF vars
<1> QED BY <1>1, <1>2, <1>3, <1>4, <1>5, <1>6 DEF Next, clock_gettime

\* At a tick rate that divides 1000 the UDP clock, read by one thread and at least
\* once while its microseconds wrap, is never ahead of the time, and behind it by a
\* millisecond and one microsecond for each wrap at most.
THEOREM AccurateForOneThread ==
    ASSUME NEW one, Threads = {one}, WholeTicks, ReadOften PROVE Spec => []Accurate
<1>1. Init => AccurateInv
  <2> SUFFICES ASSUME Init PROVE AccurateInv
    OBVIOUS
  <2>1. Shown(0) = 0
    <3>1. 0 * MicrosPerTick = 0
      BY TickType
    <3>2. Shown(0) \in Nat /\ Dropped(0) \in 0..Kilo-1 /\ 0 = Shown(0) + Dropped(0)
      BY <3>1, ShownMicros, TrueMicrosWhole
    <3> QED BY <3>2, ConversionAssumption
  <2>2. 0 = Word * 0 + 0 /\ 0 \in 0..Word-1
    BY ConversionAssumption
  <2>3. 0 \div Word = 0 /\ 0 % Word = 0
    BY <2>2, ConversionAssumption, DivUnique
  <2> QED BY <2>1, <2>3, ClockBounds DEF Init, AccurateInv
<1>2. TypeOK /\ AccurateInv /\ [Next]_vars => AccurateInv'
  BY AccurateStep
<1>3. TypeOK /\ AccurateInv => Accurate
  <2> SUFFICES ASSUME TypeOK, AccurateInv, NEW t \in Threads, pc[t] = "finish"
               PROVE  /\ real_us[t] <= TrueMicros(at[t])
                      /\ TrueMicros(at[t]) - real_us[t] < r[t] + Kilo
    BY DEF Accurate
  <2> DEFINE e == Shown(at[t])
             q == e \div Word
             s == e % Word
  <2>1. real_us[t] = s + q * (Word - 1) /\ r[t] = q /\ r[t] \in Nat
    BY DEF AccurateInv, TypeOK
  <2>2. at[t] \in Nat
    BY DEF TypeOK
  <2>3. /\ e \in Nat /\ Dropped(at[t]) \in 0..Kilo-1
        /\ TrueMicros(at[t]) = e + Dropped(at[t])
    BY <2>2, ShownMicros
  <2>4. q \in Int /\ s \in 0..Word-1 /\ e = Word * q + s
    <3> HIDE DEF e
    <3> QED BY <2>3, ConversionAssumption, DivMod
  <2> HIDE DEF e, q, s
  <2>5. q * (Word - 1) = Word * q - q /\ Word * q \in Int
    BY <2>4, ConversionAssumption
  <2>6. real_us[t] = e - q
    BY <2>1, <2>3, <2>4, <2>5
  <2> QED BY <2>1, <2>3, <2>4, <2>6, ConversionAssumption
<1> QED BY <1>1, <1>2, <1>3, TypeCorrect, PTL DEF Spec
-----------------------------------------------------------------------------
(***************************************************************************)
(* The plain clock.                                                        *)
(***************************************************************************)
\* A quotient of a natural number, and a remainder, do not exceed it.
LEMMA DivNat ==
    ASSUME NEW a \in Nat, NEW b \in Nat \ {0}
    PROVE  a \div b \in Nat /\ a % b \in Nat /\ a % b <= a /\ b * (a \div b) <= a
<1> DEFINE q == a \div b
           s == a % b
<1>1. q \in Int /\ s \in 0..b-1 /\ a = b * q + s
  BY DivMod
<1> HIDE DEF q, s
<1>2. q >= 0
  <2> SUFFICES ASSUME q <= -1 PROVE FALSE
    BY <1>1
  <2>1. b * q <= b * (-1)
    BY <1>1, MulMono
  <2> QED BY <1>1, <2>1
<1>3. b * q >= 0 /\ b * q \in Int
  <2>1. b * 0 <= b * q /\ b * q \in Int
    BY <1>1, <1>2, MulMono
  <2> QED BY <2>1
<1>4. q \in Nat /\ s \in Nat /\ s <= a /\ b * q <= a
  BY <1>1, <1>2, <1>3
<1> QED BY <1>4 DEF q, s

\* A timespec is normalised.
LEMMA TimespecType ==
    ASSUME NEW us \in Nat
    PROVE  Timespec(us) \in [tv_sec : Nat, tv_nsec : 0..(Mega * Kilo - 1)]
<1> DEFINE s == us % Mega
<1>1. s \in 0..Mega-1 /\ us \div Mega \in Nat
  <2>1. s \in 0..Mega-1
    BY MegaType, DivMod
  <2>2. us \div Mega \in Nat
    BY MegaType, DivNat
  <2> QED BY <2>1, <2>2
<1>2. s * Kilo \in 0..(Mega * Kilo - 1)
  <2> HIDE DEF s
  <2>1. /\ Kilo * s \in Int /\ Kilo * s <= Kilo * (Mega - 1) /\ Kilo * 0 <= Kilo * s
    BY <1>1, MegaType, ConversionAssumption, MulMono
  <2>2. Kilo * (Mega - 1) = Mega * Kilo - Kilo /\ Kilo * 0 = 0 /\ Kilo * s = s * Kilo
    BY <1>1, MegaType, ConversionAssumption
  <2>3. Mega * Kilo \in Int
    BY MegaType, ConversionAssumption
  <2> QED BY <2>1, <2>2, <2>3, ConversionAssumption
<1> QED BY <1>1, <1>2 DEF Timespec

\* Until the first wrap the measure is the time that has passed, to the millisecond.
LEMMA MicrosUntilWrap ==
    ASSUME NEW n \in Nat, n * Mega < Word * TicksPerSecond, n * Kilo < Word
    PROVE  Micros(n) <= TrueMicros(n) /\ TrueMicros(n) - Micros(n) < Kilo
<1> DEFINE T == TicksPerSecond
           x == n * Kilo
           g == x \div T
           h == x % T
           u == n * Mega
           v == u \div T
           w == u % T
<1>0. T \in Nat \ {0} /\ Kilo \in Nat \ {0} /\ Word \in Nat \ {0} /\ Mega \in Nat
  BY ConversionAssumption, MegaType
<1>1. x \in Nat /\ u \in Nat /\ u = x * Kilo
  BY <1>0 DEF Mega
<1>2. rt_tick_get(n) = n
  <2>1. n * 1 <= n * Kilo
    BY <1>0, MulMono
  <2>2. n \in 0..Word-1 /\ n = Word * 0 + n
    BY <1>0, <1>1, <2>1
  <2> QED BY <1>0, <2>2, DivUnique DEF rt_tick_get
<1>3. x % Word = x
  <2>1. x \in 0..Word-1 /\ x = Word * 0 + x
    BY <1>0, <1>1
  <2> HIDE DEF x
  <2> QED BY <1>0, <1>1, <2>1, DivUnique
<1>4. g \in Nat /\ h \in 0..T-1 /\ x = T * g + h
  <2> HIDE DEF x, T
  <2>0. x \in Nat /\ x \in Int /\ T \in Nat \ {0}
    BY <1>0, <1>1
  <2>1. g \in Nat
    BY <2>0, DivNat
  <2>2. h \in 0..T-1 /\ x = T * g + h
    BY <2>0, DivMod
  <2> QED BY <2>1, <2>2
<1>5. v \in Nat /\ w \in 0..T-1 /\ u = T * v + w /\ TrueMicros(n) = v
  <2>1. TrueMicros(n) = v
    BY DEF TrueMicros
  <2> HIDE DEF u, T
  <2>0. u \in Nat /\ u \in Int /\ T \in Nat \ {0}
    BY <1>0, <1>1
  <2>2. v \in Nat
    BY <2>0, DivNat
  <2>3. w \in 0..T-1 /\ u = T * v + w
    BY <2>0, DivMod
  <2> QED BY <2>1, <2>2, <2>3
<1>6. Micros(n) = (g * Kilo) % Word
  BY <1>2, <1>3 DEF Micros
<1>7. u < Word * T
  OBVIOUS
<1> HIDE DEF T, x, g, h, u, v, w
\* u is between g * Kilo and (g + 1) * Kilo, in units of T
<1>8. /\ u = T * (g * Kilo) + h * Kilo /\ h * Kilo \in Nat /\ g * Kilo \in Nat
      /\ h * Kilo < T * Kilo /\ T * Kilo \in Nat
  <2>1. (T * g + h) * Kilo = T * (g * Kilo) + h * Kilo /\ h * Kilo \in Nat /\ g * Kilo \in Nat
    BY <1>0, <1>4
  <2>2. Kilo * h <= Kilo * (T - 1) /\ Kilo * (T - 1) = T * Kilo - Kilo /\ Kilo * h = h * Kilo
    BY <1>0, <1>4, MulMono
  <2>3. T * Kilo \in Nat
    BY <1>0
  <2> QED BY <1>0, <1>1, <1>4, <2>1, <2>2, <2>3
<1> DEFINE y == g * Kilo
<1>9. y \in Nat /\ u = T * y + h * Kilo /\ T * y \in Nat
  BY <1>0, <1>8
<1> HIDE DEF y
<1>10. y < Word
  <2> SUFFICES ASSUME Word <= y PROVE FALSE
    BY <1>0, <1>9
  <2>1. T * Word <= T * y /\ T * Word = Word * T
    BY <1>0, <1>9, MulMono
  <2>2. Word * T \in Nat
    BY <1>0
  <2> QED BY <1>1, <1>7, <1>8, <1>9, <2>1, <2>2
<1>11. y % Word = y
  <2>1. y \in 0..Word-1 /\ y = Word * 0 + y
    BY <1>0, <1>9, <1>10
  <2> QED BY <1>0, <1>9, <2>1, DivUnique
<1>12. y <= v
  <2> SUFFICES ASSUME v + 1 <= y PROVE FALSE
    BY <1>5, <1>9
  <2>1. T * (v + 1) <= T * y /\ T * (v + 1) = T * v + T /\ T * v \in Nat
    BY <1>0, <1>5, <1>9, MulMono
  <2> QED BY <1>0, <1>5, <1>8, <1>9, <2>1
<1>13. v < y + Kilo
  <2> SUFFICES ASSUME y + Kilo <= v PROVE FALSE
    BY <1>0, <1>5, <1>9
  <2>1. T * (y + Kilo) <= T * v /\ T * (y + Kilo) = T * y + T * Kilo /\ T * v \in Nat
    BY <1>0, <1>5, <1>9, MulMono
  <2> QED BY <1>0, <1>5, <1>8, <1>9, <2>1
<1>14. Micros(n) = y /\ TrueMicros(n) = v
  BY <1>5, <1>6, <1>11 DEF y
<1> QED BY <1>0, <1>5, <1>9, <1>12, <1>13, <1>14

\* And at any time modulo Word, at the tick rates that divide 1000.
LEMMA MicrosModuloWord ==
    ASSUME WholeTicks, NEW n \in Nat
    PROVE  (TrueMicros(n) - Micros(n)) % Word < Kilo
<1> DEFINE e == Shown(n)
           d == Dropped(n)
           q == e \div Word
<1>1. /\ e \in Nat /\ d \in 0..Kilo-1 /\ TrueMicros(n) = e + d /\ Micros(n) = e % Word
  BY ShownMicros
<1>2. q \in Int /\ e % Word \in Nat /\ e = Word * q + (e % Word)
  <2> HIDE DEF e
  <2> QED BY <1>1, ConversionAssumption, DivMod
<1> HIDE DEF e, d, q
<1>3. TrueMicros(n) - Micros(n) = Word * q + d
  <2>1. Word * q \in Int /\ d \in Int
    BY <1>1, <1>2, ConversionAssumption
  <2> QED BY <1>1, <1>2, <2>1
<1>4. (Word * q + d) % Word = d % Word
  <2>1. Word \in Nat \ {0} /\ q \in Int /\ d \in Int
    BY <1>1, <1>2, ConversionAssumption
  <2> QED BY <2>1, ModShift
<1>5. d % Word <= d /\ d % Word \in Nat /\ d \in Nat /\ d < Kilo
  BY <1>1, ConversionAssumption, DivNat
<1> QED BY <1>3, <1>4, <1>5, ConversionAssumption

\* The last call has returned the measure of its time.
PlainInv ==
    build = "plain" =>
        /\ now \in 0..MaxTicks /\ plain_at \in 0..MaxTicks
        /\ tp = Timespec(Micros(plain_at)) /\ plain_reported \in Nat

\* The conversions of both clocks are the same.
LEMMA SameConversion ==
    /\ \A us : Plain!Timespec(us) = Timespec(us)
    /\ \A t : Plain!Nanos(t) = Nanos(t)
    /\ \A n : Plain!Micros(n) = Micros(n) /\ Plain!TrueMicros(n) = TrueMicros(n)
    /\ Plain!Mega = Mega
BY DEF Plain!Timespec, Timespec, Plain!Nanos, Nanos, Plain!Micros, Micros,
       Plain!rt_tick_get, rt_tick_get, Plain!TrueMicros, TrueMicros, Plain!Mega, Mega

\* Before the first call.
LEMMA PlainInit == BuiltInit => PlainInv
<1> SUFFICES ASSUME BuiltInit PROVE PlainInv
  OBVIOUS
<1>1. now = 0 /\ tp = Timespec(0) /\ plain_at = 0 /\ plain_reported = 0
  BY SameConversion DEF BuiltInit, Plain!Init
<1>2. Micros(0) = 0
  <2>1. ASSUME NEW b \in Nat \ {0} PROVE 0 \div b = 0 /\ 0 % b = 0
    <3>1. 0 = b * 0 + 0 /\ 0 \in 0..b-1
      OBVIOUS
    <3> QED BY <3>1, DivUnique
  <2>2. 0 % Word = 0 /\ 0 \div TicksPerSecond = 0 /\ 0 * Kilo = 0
    BY <2>1, ConversionAssumption
  <2> QED BY <2>2 DEF Micros, rt_tick_get
<1> QED BY <1>1, <1>2, ClockBounds DEF PlainInv

\* Every call returns its measure.
LEMMA PlainStep ==
    PlainInv /\ [BuiltNext]_<<vars, plainVars, build>> => PlainInv'
<1> SUFFICES ASSUME PlainInv, [BuiltNext]_<<vars, plainVars, build>>, build' = "plain"
             PROVE  PlainInv'
  BY DEF PlainInv
<1>0. build = "plain" /\ MaxTicks \in Nat
  BY ClockBounds DEF BuiltNext
<1> USE DEF PlainInv
<1>1. CASE Plain!Tick
  BY <1>0, <1>1, ClockBounds DEF Plain!Tick
<1>2. CASE Plain!clock_gettime
  <2>1. /\ tp' = Timespec(Micros(now)) /\ plain_at' = now /\ now' = now
        /\ plain_reported' = IF Nanos(tp) > plain_reported THEN Nanos(tp) ELSE plain_reported
    BY <1>2, SameConversion DEF Plain!clock_gettime
  <2>2. Micros(plain_at) \in Nat
    BY <1>0, MicrosType, ConversionAssumption
  <2>3. Nanos(tp) \in Nat
    BY <1>0, <2>2, NanosOfTimespec, ConversionAssumption
  <2> QED BY <1>0, <2>1, <2>3
<1>3. CASE UNCHANGED <<vars, plainVars, build>>
  BY <1>0, <1>3 DEF vars, plainVars
<1> QED BY <1>0, <1>1, <1>2, <1>3 DEF BuiltNext, Plain!Next

\* At a tick rate that divides 1000 the plain clock returns a normalised timespec,
\* which is the time that has passed, to the millisecond, until the multiplication
\* wraps, and that time modulo Word afterwards.
THEOREM PlainIsAccurate == ASSUME WholeTicks PROVE BuiltSpec => []PlainAccurate
<1>1. PlainInv => PlainAccurate
  <2> SUFFICES ASSUME PlainInv, build = "plain"
               PROVE  Plain!TypeOK /\ Plain!AccurateUntilWrap /\ Plain!AccurateModuloWord
    BY DEF PlainAccurate
  <2> DEFINE us == Micros(plain_at)
             tr == TrueMicros(plain_at)
  <2>1. /\ now \in 0..MaxTicks /\ plain_at \in 0..MaxTicks /\ plain_at \in Nat
        /\ tp = Timespec(us) /\ plain_reported \in Nat
    BY ClockBounds DEF PlainInv
  <2>2. us \in Nat
    BY <2>1, MicrosType, ConversionAssumption
  <2>3. Nanos(tp) = us * Kilo
    <3> HIDE DEF us
    <3> QED BY <2>1, <2>2, NanosOfTimespec
  <2>4. tr \in Nat
    <3>1. TrueMicros(plain_at) = plain_at * MicrosPerTick /\ plain_at * MicrosPerTick \in Nat
      BY <2>1, TrueMicrosWhole
    <3> QED BY <3>1
  <2>5. Plain!TypeOK
    <3>1. tp \in [tv_sec : Nat, tv_nsec : 0..(Mega * Kilo - 1)]
      <4> HIDE DEF us
      <4> QED BY <2>1, <2>2, TimespecType
    <3> QED BY <2>1, <3>1, SameConversion DEF Plain!TypeOK
  <2>6. Plain!AccurateUntilWrap
    <3> SUFFICES ASSUME plain_at * Mega < Word * TicksPerSecond, plain_at * Kilo < Word
                 PROVE  us * Kilo <= tr * Kilo /\ tr * Kilo - us * Kilo < Mega
      BY <2>3, SameConversion DEF Plain!AccurateUntilWrap
    <3>1. us <= tr /\ tr - us <= Kilo - 1
      <4>1. us <= tr /\ tr - us < Kilo
        BY <2>1, MicrosUntilWrap
      <4> HIDE DEF us, tr
      <4> QED BY <2>2, <2>4, <4>1, ConversionAssumption
    <3> HIDE DEF us, tr
    <3>2. Kilo * us <= Kilo * tr /\ Kilo * (tr - us) <= Kilo * (Kilo - 1)
      BY <2>2, <2>4, <3>1, ConversionAssumption, MulMono
    <3>3. /\ Kilo * us = us * Kilo /\ Kilo * tr = tr * Kilo
          /\ Kilo * (tr - us) = tr * Kilo - us * Kilo
          /\ Kilo * (Kilo - 1) = Mega - Kilo /\ Kilo * us \in Int /\ Kilo * tr \in Int
      BY <2>2, <2>4, ConversionAssumption DEF Mega
    <3> QED BY <3>2, <3>3, MegaType, ConversionAssumption
  <2>7. Plain!AccurateModuloWord
    <3>1. (us * Kilo) \div Kilo = us
      <4> HIDE DEF us
      <4>1. us * Kilo = Kilo * us + 0 /\ us * Kilo \in Int /\ 0 \in 0..Kilo-1
        BY <2>2, ConversionAssumption
      <4> QED BY <2>2, <4>1, ConversionAssumption, DivUnique
    <3>2. (tr - us) % Word < Kilo
      BY <2>1, MicrosModuloWord
    <3> QED BY <2>3, <3>1, <3>2, SameConversion DEF Plain!AccurateModuloWord
  <2> QED BY <2>5, <2>6, <2>7
<1> QED BY <1>1, PlainInit, PlainStep, PTL DEF BuiltSpec
=============================================================================
