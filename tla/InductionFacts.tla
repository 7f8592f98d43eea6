--------------------------- MODULE InductionFacts ---------------------------
(***************************************************************************)
(* Induction for the other proofs, over sets instead of predicates: the    *)
(* provers can instantiate a set, and every property used is the set of    *)
(* the values that have it.  Also what a loop that counts up to a limit    *)
(* computes, written as a recursive function, what the folds of the        *)
(* specifications sum up, and what Cardinality counts.                     *)
(***************************************************************************)
EXTENDS Integers, Sequences, FiniteSets, WellFoundedInduction, TLAPS

\* A set of natural numbers that is not empty has a least member: the base of
\* every argument about a loop of the code that counts.
LEMMA LeastNatural ==
  ASSUME NEW S \in SUBSET Nat, S # {}
  PROVE  \E m \in S : \A n \in S : m <= n
<1> DEFINE R == OpToRel(<, Nat)
<1>1. IsWellFoundedOn(R, Nat)
  BY NatLessThanWellFounded, Zenon
<1>2. \A m, n \in Nat : m < n => <<m, n>> \in R
  BY Zenon DEF OpToRel
<1> HIDE DEF R
<1>3. PICK m \in S : \A n \in S : ~(<<n, m>> \in R)
  BY <1>1, WFMin, Zenon
<1>4. ASSUME NEW n \in S PROVE m <= n
  <2>1. ~(n < m)
    BY <1>2, <1>3, Zenon
  <2> QED BY <2>1
<1> QED
  BY <1>4, Zenon

\* What holds of 0 and of the successor of every number it holds of, holds of
\* every number of turns a loop of the code may take.
LEMMA NatSetInduction ==
  ASSUME NEW S, 0 \in S, \A n \in Nat : n \in S => n + 1 \in S
  PROVE  Nat \subseteq S
<1> DEFINE B == Nat \ S
<1>1. SUFFICES ASSUME B # {} PROVE FALSE
  BY Zenon
<1>2. PICK m \in B : \A n \in B : m <= n
  BY <1>1, LeastNatural, Zenon
<1>3. m # 0 /\ m - 1 \in Nat /\ m - 1 \notin B
  BY <1>2
<1> QED
  BY <1>2, <1>3

\* n places hold every member of T.
Covered(n, T) == \E f : \A x \in T : \E i \in 1..n : f[i] = x

\* The sets the code counts are finite when so many places hold their members.
LEMMA FiniteIsCovered ==
  ASSUME NEW S, IsFiniteSet(S)
  PROVE  \E n \in Nat : Covered(n, S)
<1>1. PICK seq \in Seq(S) : \A s \in S : \E n \in 1..Len(seq) : seq[n] = s
  BY Zenon DEF IsFiniteSet
<1>2. Len(seq) \in Nat /\ Covered(Len(seq), S)
  BY <1>1 DEF Covered
<1> QED
  BY <1>2, Zenon

\* No place, no member; and one place less when one of the members leaves.
LEMMA CoverShrinks ==
  ASSUME NEW T, NEW n \in Nat
  PROVE  /\ Covered(0, T) => T = {}
         /\ Covered(n, T) => Covered(n + 1, T)
         /\ \A x \in T : Covered(n + 1, T) => Covered(n, T \ {x})
<1>1. Covered(0, T) => T = {}
  BY DEF Covered
<1>2. Covered(n, T) => Covered(n + 1, T)
  BY DEF Covered
<1>3. ASSUME NEW x \in T, Covered(n + 1, T) PROVE Covered(n, T \ {x})
  <2>1. PICK f : \A y \in T : \E i \in 1..(n + 1) : f[i] = y
    BY <1>3, Zenon DEF Covered
  <2>2. PICK k \in 1..(n + 1) : f[k] = x
    BY <2>1, Zenon
  <2> DEFINE g == [i \in 1..n |-> IF i = k THEN f[n + 1] ELSE f[i]]
  <2>3. ASSUME NEW y \in T \ {x} PROVE \E i \in 1..n : g[i] = y
    <3>1. PICK i \in 1..(n + 1) : f[i] = y
      BY <2>1, Zenon
    <3>2. i # k
      BY <2>2, <3>1, Zenon
    <3>3. CASE i = n + 1
      BY <3>1, <3>2, <3>3
    <3>4. CASE i # n + 1
      BY <3>1, <3>2, <3>4
    <3> QED BY <3>3, <3>4, Zenon
  <2> HIDE DEF g
  <2> QED
    BY <2>3, Zenon DEF Covered
<1> QED
  BY <1>1, <1>2, <1>3, Zenon

\* What holds of the empty set and survives the addition of a member holds of
\* every finite set: the threads, vnodes or handles the code counts.
LEMMA FiniteSetInduction ==
  ASSUME NEW S, IsFiniteSet(S), NEW C, {} \in C,
         \A T \in SUBSET S : T \in C => \A x \in S \ T : T \cup {x} \in C
  PROVE  S \in C
<1>1. PICK seq \in Seq(S) : \A s \in S : \E n \in 1..Len(seq) : seq[n] = s
  BY Zenon DEF IsFiniteSet
<1> DEFINE P(n) == {seq[i] : i \in 1..n}
           J == {n \in Nat : n <= Len(seq) => P(n) \in C}
<1>2. 0 \in J
  <2>1. P(0) = {}
    OBVIOUS
  <2> HIDE DEF P
  <2> QED BY <2>1, Zenon
<1>3. ASSUME NEW n \in Nat, n \in J PROVE n + 1 \in J
  <2> SUFFICES ASSUME n + 1 <= Len(seq) PROVE P(n + 1) \in C
    OBVIOUS
  <2>0. n <= Len(seq)
    OBVIOUS
  <2>1. P(n) \in C
    BY <1>3, <2>0, Zenon
  <2>2. P(n) \in SUBSET S /\ seq[n + 1] \in S
    OBVIOUS
  <2>3. P(n + 1) = P(n) \cup {seq[n + 1]}
    OBVIOUS
  <2> HIDE DEF P
  <2>4. CASE seq[n + 1] \in P(n)
    BY <2>1, <2>3, <2>4, Zenon
  <2>5. CASE seq[n + 1] \notin P(n)
    BY <2>1, <2>2, <2>3, <2>5, Zenon
  <2> QED BY <2>4, <2>5, Zenon
<1>4. Len(seq) \in J
  <2> HIDE DEF J
  <2> QED BY <1>2, <1>3, NatSetInduction
<1>5. P(Len(seq)) = S
  BY <1>1
<1>6. Len(seq) \in Nat /\ Len(seq) <= Len(seq)
  OBVIOUS
<1>7. P(Len(seq)) \in C
  BY <1>4, <1>6, Zenon
<1> QED
  BY <1>5, <1>7, Zenon

\* A set stays finite when a member joins, and so is every part of it: the threads
\* in a state, the slots that hold a vnode.
LEMMA FiniteParts ==
  /\ IsFiniteSet({})
  /\ \A T, x : IsFiniteSet(T) => IsFiniteSet(T \cup {x})
  /\ \A S, T : IsFiniteSet(S) /\ T \subseteq S => IsFiniteSet(T)
<1>1. IsFiniteSet({})
  <2>1. <<>> \in Seq({})
    OBVIOUS
  <2> QED BY <2>1, Zenon DEF IsFiniteSet
<1>2. ASSUME NEW T, NEW x, IsFiniteSet(T) PROVE IsFiniteSet(T \cup {x})
  <2>1. PICK seq \in Seq(T) : \A s \in T : \E n \in 1..Len(seq) : seq[n] = s
    BY <1>2, Zenon DEF IsFiniteSet
  <2> DEFINE r == Append(seq, x)
  <2>2. r \in Seq(T \cup {x}) /\ Len(r) = Len(seq) + 1 /\ r[Len(seq) + 1] = x
    OBVIOUS
  <2>3. \A i \in 1..Len(seq) : r[i] = seq[i]
    OBVIOUS
  <2> HIDE DEF r
  <2>4. ASSUME NEW s \in T PROVE \E n \in 1..Len(r) : r[n] = s
    <3>1. PICK n \in 1..Len(seq) : seq[n] = s
      BY <2>1, Zenon
    <3>2. n \in 1..Len(r) /\ r[n] = s
      BY <2>2, <2>3, <3>1
    <3> QED BY <3>2, Zenon
  <2>5. Len(seq) + 1 \in 1..Len(r)
    BY <2>2
  <2>6. \A s \in T \cup {x} : \E n \in 1..Len(r) : r[n] = s
    BY <2>2, <2>4, <2>5, Zenon
  <2> QED BY <2>2, <2>6, Zenon DEF IsFiniteSet
<1>3. ASSUME NEW S, NEW T, IsFiniteSet(S), T \subseteq S PROVE IsFiniteSet(T)
  <2> DEFINE C == {U \in SUBSET S : IsFiniteSet(U \cap T)}
  <2>1. {} \in C
    <3>1. {} \cap T = {}
      BY Zenon
    <3> QED BY <1>1, <3>1, Zenon
  <2>2. ASSUME NEW U \in SUBSET S, U \in C, NEW x \in S \ U PROVE U \cup {x} \in C
    <3>1. CASE x \in T
      <4>1. (U \cup {x}) \cap T = (U \cap T) \cup {x}
        BY <3>1, Zenon
      <4> QED BY <1>2, <2>2, <4>1
    <3>2. CASE x \notin T
      <4>1. (U \cup {x}) \cap T = U \cap T
        BY <3>2, Zenon
      <4> QED BY <2>2, <4>1, Zenon
    <3> QED BY <3>1, <3>2, Zenon
  <2>3. S \in C
    <3> HIDE DEF C
    <3> QED BY <1>3, <2>1, <2>2, FiniteSetInduction, Zenon
  <2>4. S \cap T = T
    BY <1>3, Zenon
  <2> QED BY <2>3, <2>4, Zenon
<1> QED
  BY <1>1, <1>2, <1>3, Zenon

\* f is the loop "while (n < lim) n = g(n)" as a function of its first n.
LoopOf(lim, g, f) == f = [n \in Nat |-> IF n < lim THEN f[g[n]] ELSE n]

\* Below lim, g increases the numbers in D and leads to numbers in D.
Climbs(lim, g, D) == D \subseteq Nat /\ \A n \in D : n < lim => g[n] \in D /\ g[n] > n

\* The loop "while (n < lim) n = g(n)", with a g that never decreases n (q_grow,
\* array_preallocate), defines a function of its first n.
LEMMA LoopDefined ==
  ASSUME NEW lim \in Nat, NEW g \in [Nat -> Nat], \A n \in Nat : n < lim => g[n] >= n
  PROVE  \E f : f = [n \in Nat |-> IF n < lim THEN f[g[n]] ELSE n]
<1> DEFINE D(j) == {n \in Nat : n + j >= lim}
           J == {j \in Nat : \E f : f = [n \in D(j) |-> IF n < lim THEN f[g[n]] ELSE n]}
<1>1. 0 \in J
  <2> DEFINE f == [n \in D(0) |-> n]
  <2>1. f = [n \in D(0) |-> IF n < lim THEN f[g[n]] ELSE n]
    OBVIOUS
  <2> QED
    BY <2>1, Zenon
<1>2. ASSUME NEW j \in Nat, j \in J PROVE j + 1 \in J
  <2>1. PICK f : f = [n \in D(j) |-> IF n < lim THEN f[g[n]] ELSE n]
    BY <1>2, Zenon
  <2> DEFINE h == [n \in D(j + 1) |-> IF n \in D(j) THEN f[n]
                                      ELSE IF g[n] \in D(j) THEN f[g[n]] ELSE n]
  <2>2. ASSUME NEW n \in D(j + 1) PROVE h[n] = IF n < lim THEN h[g[n]] ELSE n
    <3>1. CASE n \in D(j)
      <4>1. h[n] = IF n < lim THEN f[g[n]] ELSE n
        BY <2>1, <3>1, Zenon
      <4>2. n < lim => g[n] \in D(j) /\ g[n] \in D(j + 1)
        BY <3>1
      <4> QED
        BY <4>1, <4>2, Zenon
    <3>2. CASE n \notin D(j) /\ g[n] = n
      BY <3>2, Zenon
    <3>3. CASE n \notin D(j) /\ g[n] # n
      <4>1. n < lim /\ g[n] \in D(j) /\ g[n] \in D(j + 1)
        BY <3>3
      <4>2. h[n] = f[g[n]] /\ h[g[n]] = f[g[n]]
        BY <3>3, <4>1, Zenon
      <4> QED
        BY <4>1, <4>2, Zenon
    <3> QED
      BY <3>1, <3>2, <3>3, Zenon
  <2>3. h = [n \in D(j + 1) |-> IF n < lim THEN h[g[n]] ELSE n]
    BY <2>2, Zenon
  <2>4. j + 1 \in Nat
    OBVIOUS
  <2> HIDE DEF h, D
  <2>5. \E f1 : f1 = [n \in D(j + 1) |-> IF n < lim THEN f1[g[n]] ELSE n]
    BY <2>3, Zenon
  <2> QED
    BY <2>4, <2>5, Zenon
<1>3. lim \in J
  <2> HIDE DEF J
  <2> QED BY <1>1, <1>2, NatSetInduction, Zenon
<1>4. D(lim) = Nat
  OBVIOUS
<1> QED
  BY <1>3, <1>4, Zenon

\* Where g increases n, as doubling does but for 0, the loop of q_grow or
\* array_preallocate ends with at least lim, and with no less than it began with.
LEMMA LoopReaches ==
  ASSUME NEW lim \in Nat, NEW g \in [Nat -> Nat], NEW D, Climbs(lim, g, D),
         NEW f, LoopOf(lim, g, f)
  PROVE  \A n \in D : f[n] \in D /\ f[n] >= lim /\ f[n] >= n
<1> DEFINE Q == {n \in D : f[n] \in D /\ f[n] >= lim /\ f[n] >= n}
           J == {j \in Nat : \A n \in D : n + j >= lim => n \in Q}
<1>0. \A n \in Nat : f[n] = IF n < lim THEN f[g[n]] ELSE n
  BY Zenon DEF LoopOf
<1>a. D \subseteq Nat /\ \A n \in D : n < lim => g[n] \in D /\ g[n] > n
  BY Zenon DEF Climbs
<1> USE <1>a
<1>1. 0 \in J
  BY <1>0
<1>2. ASSUME NEW j \in Nat, j \in J PROVE j + 1 \in J
  <2>1. ASSUME NEW n \in D, n + (j + 1) >= lim PROVE n \in Q
    <3>1. CASE n < lim
      <4>1. g[n] \in D /\ g[n] > n /\ g[n] + j >= lim
        BY <2>1, <3>1
      <4>2. g[n] \in Q
        BY <1>2, <4>1, Zenon
      <4>3. n \in Nat /\ g[n] \in Nat /\ f[n] = f[g[n]]
        BY <1>0, <3>1, <4>1, Zenon
      <4>4. f[n] \in D /\ f[n] \in Nat /\ f[n] >= lim /\ f[n] >= g[n]
        BY <4>2, <4>3, Zenon
      <4> HIDE <1>a
      <4>5. f[n] >= n
        BY <4>1, <4>3, <4>4
      <4> QED
        BY <4>4, <4>5, Zenon
    <3>2. CASE ~(n < lim)
      BY <1>0, <3>2
    <3> QED
      BY <3>1, <3>2, Zenon
  <2> HIDE DEF Q
  <2> QED
    BY <2>1
<1>3. lim \in J
  <2> HIDE DEF J
  <2> QED BY <1>1, <1>2, NatSetInduction, Zenon
<1> QED
  BY <1>3

\* f holds the states of a loop that begins with b and takes N steps by g.
StepsBy(N, S, b, g, f) ==
  f \in [0..N -> S] /\ f[0] = b /\ \A n \in 1..N : f[n] = g[n][f[n - 1]]

\* f and h begin alike, and take the same steps.
Alike(N, f, h) ==
  f[0] = h[0] /\ \A n \in 1..N : f[n - 1] = h[n - 1] => f[n] = h[n]

\* A loop that goes through N elements, its state after the n-th being g[n] of its
\* state before (con_io's over the characters of a write).
LEMMA StepsDefined ==
  ASSUME NEW N \in Nat, NEW S, NEW b \in S, NEW g \in [Nat -> [S -> S]]
  PROVE  \E f : StepsBy(N, S, b, g, f)
<1> DEFINE J == {j \in Nat : \E f \in [0..j -> S] :
                               f[0] = b /\ \A n \in 1..j : f[n] = g[n][f[n - 1]]}
<1>1. 0 \in J
  <2> DEFINE f == [n \in 0..0 |-> b]
  <2>1. f \in [0..0 -> S] /\ f[0] = b /\ \A n \in 1..0 : f[n] = g[n][f[n - 1]]
    OBVIOUS
  <2> HIDE DEF f
  <2> QED
    BY <2>1, Zenon
<1>2. ASSUME NEW j \in Nat, j \in J PROVE j + 1 \in J
  <2>1. PICK f \in [0..j -> S] : f[0] = b /\ \A n \in 1..j : f[n] = g[n][f[n - 1]]
    BY <1>2, Zenon
  <2> DEFINE h == [n \in 0..(j + 1) |-> IF n = j + 1 THEN g[n][f[j]] ELSE f[n]]
  <2>2. h \in [0..(j + 1) -> S] /\ h[0] = b
    BY <2>1
  <2>3. ASSUME NEW n \in 1..(j + 1) PROVE h[n] = g[n][h[n - 1]]
    BY <2>1
  <2> HIDE DEF h
  <2> QED
    BY <2>2, <2>3
<1>3. N \in J
  <2> HIDE DEF J
  <2> QED BY <1>1, <1>2, NatSetInduction, Zenon
<1> QED
  BY <1>3, Zenon DEF StepsBy

\* Two such loops that begin alike and take the same steps have the same states.
LEMMA StepsAgree ==
  ASSUME NEW N \in Nat, NEW f, NEW h, Alike(N, f, h)
  PROVE  \A n \in 0..N : f[n] = h[n]
<1> DEFINE J == {j \in Nat : j <= N => f[j] = h[j]}
<1>1. 0 \in J
  BY Zenon DEF Alike
<1>2. ASSUME NEW j \in Nat, j \in J PROVE j + 1 \in J
  <2>1. CASE j + 1 <= N
    <3>1. j + 1 \in 1..N /\ (j + 1) - 1 = j /\ f[j] = h[j]
      BY <1>2, <2>1
    <3> QED
      BY <3>1 DEF Alike
  <2> QED
    BY <2>1
<1>3. Nat \subseteq J
  <2> HIDE DEF J
  <2> QED BY <1>1, <1>2, NatSetInduction, Zenon
<1> QED
  BY <1>3
----------------------------------------------------------------------------
(* Sums over finite sets, as the folds of the specifications compute them. *)

Pick(T) == CHOOSE x \in T : TRUE

\* it computes the sum of w over every subset of S, taking the members in the
\* order in which they are picked.
IsSum(S, w, it) ==
  it = [T \in SUBSET S |-> IF T = {} THEN 0 ELSE it[T \ {Pick(T)}] + w[Pick(T)]]

\* What is picked from a set is one of its members.
LEMMA PickMember ==
  ASSUME NEW T, T # {}
  PROVE  Pick(T) \in T
  BY Zenon DEF Pick

\* What holds of a set whenever it holds of the set without the member that is
\* picked first, holds of every finite set.
LEMMA PickInduction ==
  ASSUME NEW S, IsFiniteSet(S), NEW C, {} \in C,
         \A T \in SUBSET S : T # {} /\ T \ {Pick(T)} \in C => T \in C
  PROVE  SUBSET S \subseteq C
<1> DEFINE J == {n \in Nat : \A T \in SUBSET S : Covered(n, T) => T \in C}
<1>1. 0 \in J
  BY CoverShrinks, Zenon
<1>2. ASSUME NEW n \in Nat, n \in J PROVE n + 1 \in J
  <2>1. ASSUME NEW T \in SUBSET S, Covered(n + 1, T), T # {} PROVE T \in C
    <3>1. Covered(n, T \ {Pick(T)})
      BY <2>1, CoverShrinks, PickMember, Zenon
    <3>2. T \ {Pick(T)} \in C
      BY <1>2, <3>1, Zenon
    <3> QED BY <2>1, <3>2, Zenon
  <2>2. \A T \in SUBSET S : Covered(n + 1, T) => T \in C
    BY <2>1, Zenon
  <2>3. n + 1 \in Nat
    OBVIOUS
  <2> QED BY <2>2, <2>3, Zenon
<1>3. Nat \subseteq J
  <2> HIDE DEF J
  <2> QED BY <1>1, <1>2, NatSetInduction, Zenon
<1>4. PICK n \in Nat : Covered(n, S)
  BY FiniteIsCovered, Zenon
<1>5. \A T \in SUBSET S : Covered(n, T)
  BY <1>4, Zenon DEF Covered
<1> QED
  BY <1>3, <1>5, Zenon

\* Every sum over a finite set is defined.
LEMMA SumDefined ==
  ASSUME NEW S, IsFiniteSet(S), NEW w
  PROVE  \E it : IsSum(S, w, it)
<1> DEFINE D(j) == {T \in SUBSET S : Covered(j, T)}
           E(it, T) == IF T = {} THEN 0 ELSE it[T \ {Pick(T)}] + w[Pick(T)]
           J == {j \in Nat : \E it : it = [T \in D(j) |-> E(it, T)]}
<1>0. \A j \in Nat : D(j) \subseteq D(j + 1)
  BY CoverShrinks, Zenon
<1>a. ASSUME NEW j \in Nat, NEW T \in D(j + 1), T # {}
      PROVE  T \ {Pick(T)} \in D(j)
  BY <1>a, PickMember, CoverShrinks, Zenon
<1>b. \A j \in Nat : {} \in D(j)
  BY Zenon DEF Covered
<1>1. 0 \in J
  <2>1. ASSUME NEW T \in D(0) PROVE T = {}
    BY CoverShrinks, Zenon
  <2> DEFINE f == [T \in D(0) |-> 0]
  <2>2. f = [T \in D(0) |-> E(f, T)]
    BY <2>1, Zenon
  <2> HIDE DEF f
  <2>3. \E it : it = [T \in D(0) |-> E(it, T)]
    BY <2>2, Zenon
  <2> QED
    BY <2>3, Zenon
<1>2. ASSUME NEW j \in Nat, j \in J PROVE j + 1 \in J
  <2>1. PICK f : f = [T \in D(j) |-> E(f, T)]
    BY <1>2, Zenon
  <2> DEFINE h == [T \in D(j + 1) |-> IF T \in D(j) THEN f[T] ELSE E(f, T)]
  <2>2. ASSUME NEW T \in D(j + 1) PROVE h[T] = E(h, T)
    <3> HIDE DEF D
    <3>1. CASE T = {}
      BY <1>b, <2>1, <3>1, Zenon
    <3>2. CASE T # {}
      <4> DEFINE U == T \ {Pick(T)}
      <4>1. U \in D(j) /\ U \in D(j + 1)
        BY <1>0, <1>a, <3>2, Zenon
      <4>2. h[U] = f[U]
        BY <4>1, Zenon
      <4>3. h[T] = f[U] + w[Pick(T)]
        <5>1. CASE T \in D(j)
          BY <2>1, <3>2, <5>1, Zenon
        <5>2. CASE T \notin D(j)
          BY <3>2, <5>2, Zenon
        <5> QED BY <5>1, <5>2, Zenon
      <4>4. E(h, T) = h[U] + w[Pick(T)]
        BY <3>2, Zenon
      <4> HIDE DEF h, U, E
      <4> QED BY <4>2, <4>3, <4>4, Zenon
    <3> QED BY <3>1, <3>2, Zenon
  <2>3. h = [T \in D(j + 1) |-> h[T]]
    BY Zenon
  <2>4. h = [T \in D(j + 1) |-> E(h, T)]
    <3> HIDE DEF h, D, E
    <3> QED BY <2>2, <2>3, Zenon
  <2> HIDE DEF h, D, E
  <2>5. \E it : it = [T \in D(j + 1) |-> E(it, T)]
    BY <2>4, Zenon
  <2>6. j + 1 \in Nat
    OBVIOUS
  <2> QED
    BY <2>5, <2>6, Zenon
<1>3. Nat \subseteq J
  <2> HIDE DEF J
  <2> QED BY <1>1, <1>2, NatSetInduction, Zenon
<1>4. PICK n \in Nat : Covered(n, S)
  BY FiniteIsCovered, Zenon
<1>5. D(n) = SUBSET S
  BY <1>4, Zenon DEF Covered
<1>6. PICK it : it = [T \in D(n) |-> E(it, T)]
  BY <1>3, <1>4, Zenon
<1>7. IsSum(S, w, it)
  BY <1>5, <1>6, Zenon DEF IsSum
<1> QED
  BY <1>7, Zenon

SumOver(S, w) == (CHOOSE it : IsSum(S, w, it))[S]

\* The sum of w over S, subset by subset.
Sums(S, w, it) ==
  /\ it[S] = SumOver(S, w) /\ it[{}] = 0
  /\ \A T \in SUBSET S : it[T] \in Nat
  /\ \A T \in SUBSET S : T # {} => it[T] = it[T \ {Pick(T)}] + w[Pick(T)]

\* A sum of natural numbers is computed by natural numbers.
LEMMA SumUnfolds ==
  ASSUME NEW S, IsFiniteSet(S), NEW w, \A x \in S : w[x] \in Nat
  PROVE  \E it : Sums(S, w, it)
<1> DEFINE it == CHOOSE it : IsSum(S, w, it)
<1>1. IsSum(S, w, it)
  BY SumDefined, Zenon
<1>2. it[S] = SumOver(S, w)
  BY Zenon DEF SumOver
<1> HIDE DEF it
<1>3. it = [T \in SUBSET S |-> IF T = {} THEN 0 ELSE it[T \ {Pick(T)}] + w[Pick(T)]]
  BY <1>1, Zenon DEF IsSum
<1>4. it[{}] = 0
  BY <1>3, Zenon
<1>5. \A T \in SUBSET S : T # {} => it[T] = it[T \ {Pick(T)}] + w[Pick(T)]
  BY <1>3, Zenon
<1> DEFINE C == {T \in SUBSET S : it[T] \in Nat}
<1>6. {} \in C
  BY <1>4
<1>7. ASSUME NEW T \in SUBSET S, T # {}, T \ {Pick(T)} \in C PROVE T \in C
  <2> DEFINE p == Pick(T)
             a == it[T \ {p}]
  <2>1. p \in S /\ w[p] \in Nat /\ a \in Nat /\ it[T] = a + w[p]
    BY <1>5, <1>7, PickMember, Zenon
  <2> HIDE DEF a, p
  <2>2. it[T] \in Nat
    BY <2>1
  <2> QED
    BY <2>2, Zenon
<1>8. SUBSET S \subseteq C
  <2> HIDE DEF C
  <2> QED BY <1>6, <1>7, PickInduction, Zenon
<1>9. Sums(S, w, it)
  BY <1>2, <1>4, <1>5, <1>8, Zenon DEF Sums
<1> QED
  BY <1>9, Zenon

\* A fold that adds w computes the sum.
LEMMA FoldIsSum ==
  ASSUME NEW S, IsFiniteSet(S), NEW w, \A x \in S : w[x] \in Nat,
         NEW f, IsSum(S, w, f)
  PROVE  f[S] = SumOver(S, w)
<1>1. PICK it : Sums(S, w, it)
  BY SumUnfolds, Zenon
<1>2. f = [T \in SUBSET S |-> IF T = {} THEN 0 ELSE f[T \ {Pick(T)}] + w[Pick(T)]]
  BY Zenon DEF IsSum
<1>3. f[{}] = 0 /\ \A T \in SUBSET S : T # {} => f[T] = f[T \ {Pick(T)}] + w[Pick(T)]
  BY <1>2, Zenon
<1> DEFINE C == {T \in SUBSET S : f[T] = it[T]}
<1>4. {} \in C
  BY <1>1, <1>3, Zenon DEF Sums
<1>5. ASSUME NEW T \in SUBSET S, T # {}, T \ {Pick(T)} \in C PROVE T \in C
  BY <1>1, <1>3, <1>5, Zenon DEF Sums
<1>6. SUBSET S \subseteq C
  <2> HIDE DEF C
  <2> QED BY <1>4, <1>5, PickInduction, Zenon
<1>7. S \in C
  BY <1>6, Zenon
<1> QED
  BY <1>1, <1>7, Zenon DEF Sums

\* A sum of natural numbers is one, and no less than any of them.
LEMMA SumAtLeast ==
  ASSUME NEW S, IsFiniteSet(S), NEW w, \A x \in S : w[x] \in Nat, NEW t \in S
  PROVE  SumOver(S, w) \in Nat /\ w[t] <= SumOver(S, w)
<1>1. PICK it : Sums(S, w, it)
  BY SumUnfolds, Zenon
<1> DEFINE C == {T \in SUBSET S : t \in T => w[t] <= it[T]}
<1>2. {} \in C
  BY Zenon
<1>3. ASSUME NEW T \in SUBSET S, T # {}, T \ {Pick(T)} \in C PROVE T \in C
  <2> DEFINE p == Pick(T)
             a == it[T \ {p}]
  <2>1. p \in S /\ w[p] \in Nat /\ w[t] \in Nat /\ it[T] = a + w[p] /\ a \in Nat
    BY <1>1, <1>3, PickMember, Zenon DEF Sums
  <2>2. p # t /\ t \in T => w[t] <= a
    BY <1>3, Zenon
  <2> HIDE DEF a, p
  <2>3. t \in T => w[t] <= it[T]
    BY <2>1, <2>2
  <2> QED
    BY <2>3, Zenon
<1>4. SUBSET S \subseteq C
  <2> HIDE DEF C
  <2> QED BY <1>2, <1>3, PickInduction, Zenon
<1>5. S \in C /\ S \in SUBSET S
  BY <1>4, Zenon
<1> QED
  BY <1>1, <1>5, Zenon DEF Sums

\* A sum when one of the numbers changes, or none.
LEMMA SumChanges ==
  ASSUME NEW S, IsFiniteSet(S), NEW w, \A x \in S : w[x] \in Nat,
         NEW u, \A x \in S : u[x] \in Nat,
         NEW t \in S, \A x \in S \ {t} : u[x] = w[x]
  PROVE  SumOver(S, u) = SumOver(S, w) + u[t] - w[t]
<1>1. PICK it : Sums(S, w, it)
  BY SumUnfolds, Zenon
<1>2. PICK jt : Sums(S, u, jt)
  BY SumUnfolds, Zenon
<1> DEFINE C == {T \in SUBSET S : jt[T] = IF t \in T THEN it[T] + u[t] - w[t] ELSE it[T]}
<1>3. {} \in C
  BY <1>1, <1>2, Zenon DEF Sums
<1>4. ASSUME NEW T \in SUBSET S, T # {}, T \ {Pick(T)} \in C PROVE T \in C
  <2> DEFINE p == Pick(T)
             a == it[T \ {p}]
             b == jt[T \ {p}]
  <2>1. p \in T /\ p \in S /\ it[T] = a + w[p] /\ jt[T] = b + u[p]
    BY <1>1, <1>2, <1>4, PickMember, Zenon DEF Sums
  <2>2. /\ w[p] \in Nat /\ u[p] \in Nat /\ w[t] \in Nat /\ u[t] \in Nat /\ (p # t => u[p] = w[p])
        /\ a \in Nat /\ b \in Nat
    BY <1>1, <1>2, <2>1, Zenon DEF Sums
  <2>3. b = IF t \in T /\ p # t THEN a + u[t] - w[t] ELSE a
    BY <1>4, Zenon
  <2> HIDE DEF a, b, p
  <2>4. CASE p = t
    BY <2>1, <2>2, <2>3, <2>4
  <2>5. CASE p # t
    BY <2>1, <2>2, <2>3, <2>5
  <2> QED
    BY <2>4, <2>5, Zenon
<1>5. SUBSET S \subseteq C
  <2> HIDE DEF C
  <2> QED BY <1>3, <1>4, PickInduction, Zenon
<1>6. S \in C /\ S \in SUBSET S
  BY <1>5, Zenon
<1> QED
  BY <1>1, <1>2, <1>6, Zenon DEF Sums

\* The sum of zeros.
LEMMA SumOfZeros ==
  ASSUME NEW S, IsFiniteSet(S), NEW w, \A x \in S : w[x] = 0
  PROVE  SumOver(S, w) = 0
<1>1. PICK it : Sums(S, w, it)
  BY SumUnfolds
<1> DEFINE C == {T \in SUBSET S : it[T] = 0}
<1>2. {} \in C
  BY <1>1, Zenon DEF Sums
<1>3. ASSUME NEW T \in SUBSET S, T # {}, T \ {Pick(T)} \in C PROVE T \in C
  <2>1. w[Pick(T)] = 0
    BY <1>3, PickMember, Zenon
  <2> QED
    BY <1>1, <1>3, <2>1 DEF Sums
<1>4. SUBSET S \subseteq C
  <2> HIDE DEF C
  <2> QED BY <1>2, <1>3, PickInduction, Zenon
<1>5. S \in C
  BY <1>4, Zenon
<1> QED
  BY <1>1, <1>5, Zenon DEF Sums

\* The sum of a set is that of the set without any one of its members, and that
\* member's number.
LEMMA SumWithout ==
  ASSUME NEW S, IsFiniteSet(S), NEW w, \A x \in S : w[x] \in Nat,
         NEW it, Sums(S, w, it)
  PROVE  \A T \in SUBSET S : \A x \in T : it[T] = it[T \ {x}] + w[x]
<1> DEFINE J == {n \in Nat : \A T \in SUBSET S : Covered(n, T) =>
                                \A x \in T : it[T] = it[T \ {x}] + w[x]}
<1>1. 0 \in J
  BY CoverShrinks, Zenon
<1>2. ASSUME NEW n \in Nat, n \in J PROVE n + 1 \in J
  <2>1. ASSUME NEW T \in SUBSET S, Covered(n + 1, T), NEW x \in T
        PROVE  it[T] = it[T \ {x}] + w[x]
    <3> DEFINE p == Pick(T)
               U == (T \ {p}) \ {x}
    <3>1. p \in T /\ it[T] = it[T \ {p}] + w[p]
      BY PickMember, Zenon DEF Sums
    <3>2. CASE p = x
      BY <3>1, <3>2, Zenon
    <3>3. CASE p # x
      <4>1. Covered(n, T \ {p}) /\ Covered(n, T \ {x})
        BY <2>1, <3>1, CoverShrinks, Zenon
      <4>2. it[T \ {p}] = it[U] + w[x]
        BY <1>2, <3>3, <4>1, Zenon
      <4>3. it[T \ {x}] = it[(T \ {x}) \ {p}] + w[p]
        BY <1>2, <3>1, <3>3, <4>1, Zenon
      <4>4. (T \ {x}) \ {p} = U
        BY Zenon
      <4>5. U \in SUBSET S /\ it[U] \in Nat /\ w[x] \in Nat /\ w[p] \in Nat
        BY <3>1, Zenon DEF Sums
      <4> DEFINE a == it[T]
                 b == it[T \ {p}]
                 c == it[T \ {x}]
                 d == it[U]
      <4>6. a = b + w[p] /\ b = d + w[x] /\ c = d + w[p]
        BY <3>1, <4>2, <4>3, <4>4, Zenon
      <4>7. d \in Nat
        BY <4>5, Zenon
      <4> HIDE DEF a, b, c, d, p
      <4>8. a = c + w[x]
        BY <4>5, <4>6, <4>7
      <4> QED BY <4>8, Zenon DEF a, c
    <3> QED BY <3>2, <3>3, Zenon
  <2> QED BY <2>1
<1>3. Nat \subseteq J
  <2> HIDE DEF J
  <2> QED BY <1>1, <1>2, NatSetInduction, Zenon
<1>4. PICK n \in Nat : Covered(n, S)
  BY FiniteIsCovered, Zenon
<1>5. \A T \in SUBSET S : Covered(n, T)
  BY <1>4, Zenon DEF Covered
<1> QED
  BY <1>3, <1>5, Zenon

\* What Cardinality picks from a set is what the folds pick.
LEMMA PickIsPick ==
  ASSUME NEW T
  PROVE  (CHOOSE x : x \in T) = Pick(T)
<1>1. \A x : (x \in T) <=> (x \in T /\ TRUE)
  BY Zenon
<1> QED
  BY <1>1, Zenon DEF Pick

\* The recursion of Cardinality over the subsets of S.
CountsUp(S, f) == f = [T \in SUBSET S |->
                  IF T = {} THEN 0 ELSE 1 + f[T \ {CHOOSE x : x \in T}]]

\* Cardinality is that recursion's value.
LEMMA CardinalityCounts ==
  ASSUME NEW S
  PROVE  Cardinality(S) = (CHOOSE f : CountsUp(S, f))[S]
  BY Zenon DEF Cardinality, CountsUp


\* Over every part of a finite set Cardinality adds up ones.
LEMMA CardinalityIsSum ==
  ASSUME NEW S, IsFiniteSet(S), NEW T \in SUBSET S,
         NEW it, Sums(S, [x \in S |-> 1], it)
  PROVE  Cardinality(T) = it[T]
<1> DEFINE w == [x \in S |-> 1]
           g == [U \in SUBSET T |-> it[U]]
           CS == CHOOSE f : CountsUp(T, f)
<1>1. ASSUME NEW U \in SUBSET T
      PROVE  it[U] = IF U = {} THEN 0 ELSE 1 + it[U \ {Pick(U)}]
  <2>1. it[{}] = 0 /\ \A V \in SUBSET S : it[V] \in Nat
    BY Zenon DEF Sums
  <2>2. CASE U # {}
    <3> DEFINE V == U \ {Pick(U)}
    <3>1. Pick(U) \in S /\ V \in SUBSET S /\ it[U] = it[V] + w[Pick(U)]
      BY <2>2, PickMember, Zenon DEF Sums
    <3>2. w[Pick(U)] = 1 /\ it[V] \in Nat
      BY <2>1, <3>1, Zenon
    <3>3. it[U] = 1 + it[V]
      <4> HIDE DEF V, w
      <4> QED BY <3>1, <3>2
    <3> QED BY <2>2, <3>3, Zenon
  <2> QED BY <2>1, <2>2, Zenon
<1> HIDE DEF w
<1>2. CountsUp(T, g)
  <2>1. ASSUME NEW U \in SUBSET T
        PROVE  g[U] = IF U = {} THEN 0 ELSE 1 + g[U \ {CHOOSE x : x \in U}]
    <3>1. (CHOOSE x : x \in U) = Pick(U)
      BY PickIsPick, Zenon
    <3>2. U \ {Pick(U)} \in SUBSET T
      BY Zenon
    <3> QED BY <1>1, <3>1, <3>2, Zenon
  <2> QED BY <2>1, Zenon DEF CountsUp
<1>3. CountsUp(T, CS)
  <2> HIDE DEF g
  <2> QED BY <1>2, Zenon
<1>4. Cardinality(T) = CS[T]
  BY CardinalityCounts, Zenon
<1> HIDE DEF CS
<1>5. ASSUME NEW U \in SUBSET T
      PROVE  CS[U] = IF U = {} THEN 0 ELSE 1 + CS[U \ {Pick(U)}]
  <2>1. (CHOOSE x : x \in U) = Pick(U)
    BY PickIsPick, Zenon
  <2>2. CS = [V \in SUBSET T |-> IF V = {} THEN 0 ELSE 1 + CS[V \ {CHOOSE x : x \in V}]]
    BY <1>3, Zenon DEF CountsUp
  <2>3. CS[U] = IF U = {} THEN 0 ELSE 1 + CS[U \ {CHOOSE x : x \in U}]
    BY <2>2, Zenon
  <2> QED BY <2>1, <2>3, Zenon
<1> DEFINE C == {U \in SUBSET T : CS[U] = it[U]}
<1>6. {} \in C
  <2>1. {} \in SUBSET T
    BY Zenon
  <2> QED BY <1>1, <1>5, <2>1, Zenon
<1>7. ASSUME NEW U \in SUBSET T, U # {}, U \ {Pick(U)} \in C PROVE U \in C
  BY <1>1, <1>5, <1>7, Zenon
<1>8. IsFiniteSet(T)
  BY FiniteParts, Zenon
<1>9. SUBSET T \subseteq C
  <2> HIDE DEF C
  <2> QED BY <1>6, <1>7, <1>8, PickInduction, Zenon
<1> QED
  BY <1>4, <1>9, Zenon

\* The empty set counts nothing.
LEMMA CardinalityOfNone == Cardinality({}) = 0
<1>1. IsFiniteSet({}) /\ {} \in SUBSET {}
  BY FiniteParts, Zenon
<1>2. PICK it : Sums({}, [x \in {} |-> 1], it)
  BY <1>1, SumUnfolds, Zenon
<1>3. Cardinality({}) = it[{}]
  BY <1>1, <1>2, CardinalityIsSum, Zenon
<1> QED
  BY <1>2, <1>3, Zenon DEF Sums

\* Cardinality is a natural number, and one more when a member joins.
LEMMA CardinalityGrows ==
  ASSUME NEW S, IsFiniteSet(S), NEW x
  PROVE  /\ Cardinality(S) \in Nat
         /\ x \notin S => Cardinality(S \cup {x}) = Cardinality(S) + 1
<1> DEFINE T == S \cup {x}
           w == [y \in T |-> 1]
<1>1. IsFiniteSet(T) /\ S \in SUBSET T /\ T \in SUBSET T /\ x \in T
  BY FiniteParts, Zenon
<1>2. \A y \in T : w[y] \in Nat
  BY Zenon
<1>3. PICK it : Sums(T, w, it)
  <2> HIDE DEF T, w
  <2> QED BY <1>1, <1>2, SumUnfolds, Zenon
<1>4. Cardinality(S) = it[S] /\ Cardinality(T) = it[T]
  <2> HIDE DEF T
  <2> QED BY <1>1, <1>3, CardinalityIsSum, Zenon
<1>5. it[S] \in Nat
  BY <1>1, <1>3, Zenon DEF Sums
<1>6. it[T] = it[T \ {x}] + w[x]
  <2> HIDE DEF T, w
  <2> QED BY <1>1, <1>2, <1>3, SumWithout
<1>7. x \notin S => T \ {x} = S
  BY Zenon
<1>8. w[x] = 1
  BY Zenon
<1> HIDE DEF T, w
<1>9. x \notin S => Cardinality(T) = Cardinality(S) + 1
  BY <1>4, <1>6, <1>7, <1>8, Zenon
<1> QED
  BY <1>4, <1>5, <1>9, Zenon DEF T

\* And one less when a member leaves.
LEMMA CardinalityShrinks ==
  ASSUME NEW S, IsFiniteSet(S), NEW x \in S
  PROVE  Cardinality(S \ {x}) \in Nat /\ Cardinality(S) = Cardinality(S \ {x}) + 1
<1>1. (S \ {x}) \cup {x} = S /\ x \notin S \ {x} /\ S \ {x} \subseteq S
  BY Zenon
<1>2. IsFiniteSet(S \ {x})
  BY <1>1, FiniteParts, Zenon
<1> QED
  BY <1>1, <1>2, CardinalityGrows, Zenon

\* One member is one.
LEMMA CardinalityOfOne ==
  ASSUME NEW x
  PROVE  Cardinality({x}) = 1
<1>1. {} \cup {x} = {x} /\ x \notin {}
  BY Zenon
<1>2. Cardinality({} \cup {x}) = Cardinality({}) + 1
  BY <1>1, FiniteParts, CardinalityGrows, Zenon
<1> QED
  BY <1>1, <1>2, CardinalityOfNone

\* From a to b there are b - a + 1 numbers, as many as a loop from a to b turns.
LEMMA CardinalityOfInterval ==
  ASSUME NEW a \in Int, NEW n \in Nat
  PROVE  IsFiniteSet(a..(a + n - 1)) /\ Cardinality(a..(a + n - 1)) = n
<1> DEFINE I(k) == a..(a + k - 1)
           J == {k \in Nat : IsFiniteSet(I(k)) /\ Cardinality(I(k)) = k}
<1>1. 0 \in J
  <2>1. I(0) = {}
    OBVIOUS
  <2> HIDE DEF I
  <2> QED BY <2>1, FiniteParts, CardinalityOfNone, Zenon
<1>2. ASSUME NEW k \in Nat, k \in J PROVE k + 1 \in J
  <2>1. I(k + 1) = I(k) \cup {a + k} /\ a + k \notin I(k) /\ k + 1 \in Nat
    OBVIOUS
  <2>2. IsFiniteSet(I(k)) /\ Cardinality(I(k)) = k
    BY <1>2, Zenon
  <2> HIDE DEF I
  <2>3. IsFiniteSet(I(k + 1))
    BY <2>1, <2>2, FiniteParts, Zenon
  <2>4. Cardinality(I(k + 1)) = k + 1
    BY <2>1, <2>2, CardinalityGrows, Zenon
  <2> QED BY <2>1, <2>3, <2>4, Zenon
<1>3. n \in J
  <2> HIDE DEF J
  <2> QED BY <1>1, <1>2, NatSetInduction, Zenon
<1> QED
  BY <1>3, Zenon
============================================================================
