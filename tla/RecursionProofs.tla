--------------------------- MODULE RecursionProofs ---------------------------
(***************************************************************************)
(* Recursive definitions over message types.  A type is a sequence of      *)
(* members, and a recursion over it goes on to the next member and into    *)
(* the type of a member.  What such a recursion defines exists if no type  *)
(* contains itself: handle_message_memory and print_type_info end.         *)
(***************************************************************************)
EXTENDS Integers, NaturalsInduction, WellFoundedInduction, TLAPS

LEMMA LeastExists ==
    ASSUME NEW S, S \subseteq Nat, S # {}
    PROVE  \E b \in S : \A c \in S : b <= c
<1>1. \E b \in S : \A c \in S : ~(<<c, b>> \in OpToRel(<, Nat))
  BY WFMin, NatLessThanWellFounded
<1>2. ASSUME NEW b \in S, NEW c \in S, ~(<<c, b>> \in OpToRel(<, Nat)) PROVE b <= c
  BY <1>2 DEF OpToRel
<1> QED BY <1>1, <1>2
-----------------------------------------------------------------------------
\* Up to rank n the function f is as phi says.
Good(S, rank, phi, n, f) == \A x \in S : rank[x] < n => phi[f][x] = f[x]

\* A value that phi gives depends only on values of lower rank.
Contracts(S, V, rank, phi) ==
    /\ V # {} /\ rank \in [S -> Nat] /\ phi \in [[S -> V] -> [S -> V]]
    /\ \A f, g \in [S -> V] : \A x \in S :
          (\A y \in S : rank[y] < rank[x] => f[y] = g[y]) => phi[f][x] = phi[g][x]

\* Two functions agree if they agree wherever they agree on all lower ranks.
LEMMA Agree ==
    ASSUME NEW S, NEW rank \in [S -> Nat], NEW f, NEW g,
           \A x \in S : (\A y \in S : rank[y] < rank[x] => f[y] = g[y]) => f[x] = g[x]
    PROVE  \A x \in S : f[x] = g[x]
<1> DEFINE B == {x \in S : f[x] # g[x]}
           R == {rank[x] : x \in B}
<1> SUFFICES ASSUME NEW z \in B PROVE FALSE
  OBVIOUS
<1>1. R \subseteq Nat /\ R # {}
  <2>1. rank[z] \in R
    OBVIOUS
  <2>2. R \subseteq Nat
    OBVIOUS
  <2> HIDE DEF R
  <2> QED BY <2>1, <2>2
<1>2. PICK r \in R : \A s \in R : r <= s
  BY <1>1, LeastExists
<1>3. PICK x \in B : rank[x] = r
  OBVIOUS
<1>4. x \in S /\ f[x] # g[x]
  OBVIOUS
<1>5. ASSUME NEW y \in S, rank[y] < rank[x] PROVE f[y] = g[y]
  <2>1. rank[y] \in Nat /\ rank[x] \in Nat
    BY <1>4
  <2>2. y \in B => rank[y] \in R
    OBVIOUS
  <2>3. rank[y] \in R => rank[x] <= rank[y]
    BY <1>2, <1>3
  <2>4. ~(rank[x] <= rank[y])
    BY <1>5, <2>1
  <2>5. y \notin B
    BY <2>2, <2>3, <2>4
  <2> QED BY <2>5
<1> QED BY <1>4, <1>5

LEMMA GoodAgree ==
    ASSUME NEW S, NEW V, NEW rank, NEW phi,
           Contracts(S, V, rank, phi),
           NEW n \in Nat, NEW f \in [S -> V], NEW g \in [S -> V],
           Good(S, rank, phi, n, f), Good(S, rank, phi, n, g),
           NEW z \in S, rank[z] < n
    PROVE  f[z] = g[z]
<1> DEFINE L == {x \in S : rank[x] < n}
           low == [x \in L |-> rank[x]]
<1>1. rank \in [S -> Nat]
  BY DEF Contracts
<1>2. low \in [L -> Nat]
  BY <1>1
<1>3. ASSUME NEW x \in L, \A y \in L : low[y] < low[x] => f[y] = g[y]
      PROVE  f[x] = g[x]
  <2>1. ASSUME NEW y \in S, rank[y] < rank[x] PROVE f[y] = g[y]
    <3>1. rank[y] \in Nat /\ rank[x] \in Nat /\ rank[x] < n
      BY <1>1
    <3>2. rank[y] < n
      BY <2>1, <3>1
    <3> QED BY <1>3, <2>1, <3>2
  <2>2. phi[f][x] = phi[g][x]
    BY <2>1 DEF Contracts
  <2> QED BY <2>2 DEF Good
<1>4. z \in L
  OBVIOUS
<1> HIDE DEF L, low
<1>5. \A x \in L : f[x] = g[x]
  BY <1>2, <1>3, Agree
<1> QED BY <1>4, <1>5

LEMMA GoodExists ==
    ASSUME NEW S, NEW V, NEW rank, NEW phi,
           Contracts(S, V, rank, phi),
           NEW n \in Nat
    PROVE  \E f \in [S -> V] : Good(S, rank, phi, n, f)
<1>a. V # {} /\ rank \in [S -> Nat] /\ phi \in [[S -> V] -> [S -> V]]
  BY DEF Contracts
<1> USE <1>a
<1> DEFINE B == {k \in Nat : ~ \E f \in [S -> V] : Good(S, rank, phi, k, f)}
<1> SUFFICES ASSUME B # {} PROVE FALSE
  OBVIOUS
<1>1. PICK k \in B : \A j \in B : k <= j
  BY LeastExists
<1>2. k # 0
  <2>1. PICK v \in V : TRUE
    OBVIOUS
  <2>2. [x \in S |-> v] \in [S -> V]
    OBVIOUS
  <2>3. \A x \in S : ~(rank[x] < 0)
    OBVIOUS
  <2>4. Good(S, rank, phi, 0, [x \in S |-> v])
    BY <2>3 DEF Good
  <2> QED BY <2>2, <2>4
<1>3. k - 1 \in Nat /\ k - 1 \notin B
  BY <1>1, <1>2
<1>4. PICK f \in [S -> V] : Good(S, rank, phi, k - 1, f)
  BY <1>3
<1> DEFINE g == phi[f]
<1>5. g \in [S -> V]
  OBVIOUS
<1>6. ASSUME NEW x \in S, rank[x] < k PROVE phi[g][x] = g[x]
  <2>1. ASSUME NEW y \in S, rank[y] < rank[x] PROVE g[y] = f[y]
    <3>1. rank[y] < k - 1
      <4>1. rank[y] \in Nat /\ rank[x] \in Nat /\ k \in Nat
        OBVIOUS
      <4> QED BY <1>6, <2>1, <4>1
    <3> QED BY <1>4, <3>1 DEF Good
  <2> QED BY <1>5, <2>1 DEF Contracts
<1>7. Good(S, rank, phi, k, g)
  BY <1>6 DEF Good
<1> QED BY <1>5, <1>7

\* A function whose value depends only on values of lower rank exists.
LEMMA Fixpoint ==
    ASSUME NEW S, NEW V, NEW rank, NEW phi,
           Contracts(S, V, rank, phi)
    PROVE  \E f \in [S -> V] : phi[f] = f
<1>a. V # {} /\ rank \in [S -> Nat] /\ phi \in [[S -> V] -> [S -> V]]
  BY DEF Contracts
<1> USE <1>a
<1> DEFINE G(n) == CHOOSE f \in [S -> V] : Good(S, rank, phi, n, f)
           h == [x \in S |-> G(rank[x] + 1)[x]]
<1>1. ASSUME NEW n \in Nat PROVE G(n) \in [S -> V] /\ Good(S, rank, phi, n, G(n))
  BY GoodExists
<1> HIDE DEF G
<1>2. h \in [S -> V]
  <2>1. ASSUME NEW x \in S PROVE G(rank[x] + 1)[x] \in V
    <3>1. rank[x] + 1 \in Nat
      OBVIOUS
    <3>2. G(rank[x] + 1) \in [S -> V]
      BY <1>1, <3>1
    <3> QED BY <3>2
  <2> QED BY <2>1
<1>3. ASSUME NEW x \in S PROVE phi[h][x] = h[x]
  <2> DEFINE f == G(rank[x] + 1)
  <2>0. rank[x] \in Nat /\ rank[x] + 1 \in Nat /\ rank[x] < rank[x] + 1
    OBVIOUS
  <2>1. f \in [S -> V] /\ Good(S, rank, phi, rank[x] + 1, f)
    BY <1>1, <2>0
  <2>2. ASSUME NEW y \in S, rank[y] < rank[x] PROVE h[y] = f[y]
    <3> DEFINE k == rank[y] + 1
    <3>1. k \in Nat /\ rank[y] < k /\ \A r \in Nat : r < k => r < rank[x] + 1
      BY <2>0, <2>2
    <3>2. G(k) \in [S -> V] /\ Good(S, rank, phi, k, G(k))
      BY <1>1, <3>1
    <3>3. Good(S, rank, phi, k, f)
      BY <2>1, <3>1 DEF Good
    <3>4. h[y] = G(k)[y]
      OBVIOUS
    <3> DEFINE e == G(k)
    <3> HIDE DEF k, f, h, e
    <3>6. /\ k \in Nat /\ e \in [S -> V] /\ f \in [S -> V]
          /\ Good(S, rank, phi, k, e) /\ Good(S, rank, phi, k, f)
      BY <2>1, <3>1, <3>2, <3>3 DEF e
    <3>7. Contracts(S, V, rank, phi) /\ y \in S /\ rank[y] < k
      BY <3>1
    <3>8. e[y] = f[y]
      BY <3>6, <3>7, GoodAgree
    <3>5. G(k)[y] = f[y]
      BY <3>8 DEF e
    <3> QED BY <3>4, <3>5
  <2>3. phi[h][x] = phi[f][x]
    BY <1>2, <2>1, <2>2 DEF Contracts
  <2>4. phi[f][x] = f[x]
    BY <2>0, <2>1 DEF Good
  <2> QED BY <2>3, <2>4
<1>4. phi[h] \in [S -> V]
  BY <1>2
<1> HIDE DEF h
<1>5. phi[h] = h
  BY <1>2, <1>3, <1>4
<1> QED BY <1>2, <1>5
-----------------------------------------------------------------------------
LEMMA ProductNat ==
    ASSUME NEW a \in Nat, NEW b \in Nat
    PROVE  a * b \in Nat
OBVIOUS

LEMMA Products ==
    ASSUME NEW K \in Nat, NEW r \in Nat, NEW s \in Nat, s < r
    PROVE  /\ (K + 2) * s \in Nat /\ (K + 2) * r \in Nat
           /\ (K + 2) * s + (K + 2) <= (K + 2) * r
<1> DEFINE d == r - s - 1
<1>1. d \in Nat /\ r = s + 1 + d
  OBVIOUS
<1> HIDE DEF d
<1>2. K * s \in Nat /\ K * d \in Nat
  BY <1>1, ProductNat
<1>3. (K + 2) * s = K * s + 2 * s
  OBVIOUS
<1>4. (K + 2) * r = K * s + 2 * s + K + 2 + K * d + 2 * d
  BY <1>1
<1> QED BY <1>1, <1>2, <1>3, <1>4

\* A measure of the places in the types of D, with at most K members each: behind a
\* member it is lower, and so it is in a type of lower rank.
Falls(D, rank, K, w) ==
    /\ w \in [D \X Nat -> Nat]
    /\ \A t \in D, i \in 1..K :
          /\ w[<<t, i + 1>>] < w[<<t, i>>]
          /\ \A s \in D : rank[s] < rank[t] => w[<<s, 1>>] < w[<<t, i>>]

LEMMA MemberRank ==
    ASSUME NEW D, NEW rank \in [D -> Nat], NEW K \in Nat
    PROVE  \E w : Falls(D, rank, K, w)
<1> DEFINE back(i) == IF i <= K THEN K + 1 - i ELSE 0
           w == [z \in D \X Nat |-> (K + 2) * rank[z[1]] + back(z[2])]
<1>1. \A i \in Nat : back(i) \in Nat /\ back(i) < K + 2
  OBVIOUS
<1>2. \A i \in 1..K : back(i + 1) < back(i)
  OBVIOUS
<1>3. \A r \in Nat : (K + 2) * r \in Nat
  BY ProductNat
<1> HIDE DEF back
<1>4. ASSUME NEW t \in D, NEW i \in Nat
      PROVE  /\ rank[t] \in Nat /\ (K + 2) * rank[t] \in Nat /\ back(i) \in Nat
             /\ w[<<t, i>>] = (K + 2) * rank[t] + back(i)
  <2>1. rank[t] \in Nat /\ <<t, i>> \in D \X Nat
    OBVIOUS
  <2> QED BY <1>1, <1>3, <2>1
<1>5. w \in [D \X Nat -> Nat]
  <2>1. ASSUME NEW z \in D \X Nat PROVE (K + 2) * rank[z[1]] + back(z[2]) \in Nat
    <3> DEFINE a == (K + 2) * rank[z[1]]
               b == back(z[2])
    <3>1. a \in Nat /\ b \in Nat
      BY <1>4
    <3> HIDE DEF a, b
    <3>2. a + b \in Nat
      BY <3>1
    <3> QED BY <3>2 DEF a, b
  <2> QED BY <2>1
<1> HIDE DEF w
<1>6. ASSUME NEW t \in D, NEW i \in 1..K PROVE w[<<t, i + 1>>] < w[<<t, i>>]
  <2> DEFINE a == (K + 2) * rank[t]
  <2>1. i \in Nat /\ i + 1 \in Nat
    OBVIOUS
  <2>2. /\ a \in Nat /\ w[<<t, i>>] = a + back(i) /\ w[<<t, i + 1>>] = a + back(i + 1)
        /\ back(i) \in Nat /\ back(i + 1) \in Nat
    BY <1>4, <2>1
  <2> HIDE DEF a
  <2> QED BY <1>2, <2>2
<1>7. ASSUME NEW t \in D, NEW i \in 1..K, NEW s \in D, rank[s] < rank[t]
      PROVE  w[<<s, 1>>] < w[<<t, i>>]
  <2> DEFINE a == (K + 2) * rank[s]
             b == (K + 2) * rank[t]
  <2>1. i \in Nat /\ 1 \in Nat
    OBVIOUS
  <2>2. /\ w[<<s, 1>>] = a + back(1) /\ w[<<t, i>>] = b + back(i)
        /\ back(i) \in Nat /\ back(1) \in Nat /\ back(1) < K + 2
    BY <1>1, <1>4, <2>1
  <2>3. a \in Nat /\ b \in Nat /\ a + (K + 2) <= b
    <3>1. rank[s] \in Nat /\ rank[t] \in Nat
      OBVIOUS
    <3> QED BY <1>7, <3>1, Products
  <2> HIDE DEF a, b
  <2> QED BY <2>2, <2>3
<1>8. Falls(D, rank, K, w)
  BY <1>5, <1>6, <1>7 DEF Falls
<1> QED BY <1>8
==============================================================================
