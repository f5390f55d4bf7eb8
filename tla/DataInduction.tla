---------------------------- MODULE DataInduction ----------------------------
(***************************************************************************)
(* Induction and recursion over numbers, stated with sets and functions    *)
(* instead of operators: what the proofs about operators that walk a       *)
(* sequence, a tree or a bitmap rest on.  A statement about every number   *)
(* up to n is a set of numbers; a recursive definition is a function.      *)
(* Before them, the division the index computations need.                  *)
(***************************************************************************)
EXTENDS Integers, Sequences, WellFoundedInduction, TLAPS

(* A number is its quotient and its rest. *)
LEMMA Division ==
  ASSUME NEW n \in Nat \ {0}, NEW v \in Nat
  PROVE  v = n * (v \div n) + (v % n) /\ v % n \in 0 .. (n - 1) /\ v \div n \in Nat
<1>1. v % n \in 0 .. (n - 1) /\ v = n * (v \div n) + (v % n) /\ v \div n \in Int
  OBVIOUS
<1>2. ASSUME v \div n <= -1 PROVE FALSE
  <2>1. n * (v \div n) <= - n
    BY <1>1, <1>2
  <2> QED
    BY <1>1, <2>1
<1> QED
  BY <1>1, <1>2

(* A set of numbers that is not empty has a smallest member. *)
LEMMA Smallest ==
  ASSUME NEW S, S \subseteq Nat, S # {}
  PROVE  \E x \in S : \A y \in S : x <= y
<1>1. PICK x \in S : \A y \in S : ~ (<<y, x>> \in OpToRel(<, Nat))
  BY WFMin, NatLessThanWellFounded
<1>2. \A y \in S : ~ (y < x)
  BY <1>1 DEF OpToRel
<1> QED
  BY <1>2

(* A set with 0 that has the successor of each of its members up to n has  *)
(* every number up to n.                                                   *)
LEMMA Induction ==
  ASSUME NEW n \in Nat, NEW S, 0 \in S,
         \A m \in 0 .. (n - 1) : m \in S => m + 1 \in S
  PROVE  0 .. n \subseteq S
<1> DEFINE Missing == (0 .. n) \ S
<1>1. SUFFICES ASSUME Missing # {} PROVE FALSE
  OBVIOUS
<1>0. Missing \subseteq Nat
  OBVIOUS
<1>2. PICK x \in Missing : \A y \in Missing : x <= y
  <2> HIDE DEF Missing
  <2> QED
    BY <1>0, <1>1, Smallest
<1>3. x # 0 /\ x - 1 \in 0 .. (n - 1) /\ x - 1 \notin Missing
  BY <1>2
<1>4. x - 1 \in S /\ (x - 1) + 1 = x
  BY <1>3
<1> QED
  BY <1>2, <1>3, <1>4

(* A set that has each number up to n whose predecessors, all of them, it  *)
(* has, has every number up to n.                                          *)
LEMMA StrongInduction ==
  ASSUME NEW n \in Nat, NEW S,
         \A m \in 1 .. n : (1 .. (m - 1)) \subseteq S => m \in S
  PROVE  1 .. n \subseteq S
<1> DEFINE Missing == (1 .. n) \ S
<1>1. SUFFICES ASSUME Missing # {} PROVE FALSE
  OBVIOUS
<1>0. Missing \subseteq Nat
  OBVIOUS
<1>2. PICK x \in Missing : \A y \in Missing : x <= y
  <2> HIDE DEF Missing
  <2> QED
    BY <1>0, <1>1, Smallest
<1>3. (1 .. (x - 1)) \subseteq S
  BY <1>2
<1> QED
  BY <1>2, <1>3

(* f is what n rounds of "step", the i-th of them step[i], make of v.       *)
Iterates(f, n, V, v, step) ==
  /\ f \in [0 .. n -> V]
  /\ f[0] = v
  /\ \A i \in 1 .. n : f[i] = step[i][f[i - 1]]

(* Iterating a step from a first value is a function. *)
LEMMA Iteration ==
  ASSUME NEW n \in Nat, NEW V, NEW v \in V, NEW step \in [1 .. n -> [V -> V]]
  PROVE  \E f : Iterates(f, n, V, v, step)
<1> DEFINE Fits(m, f) == f = [i \in 0 .. m |-> IF i = 0 THEN v ELSE step[i][f[i - 1]]]
           S == {m \in 0 .. n : \E f \in [0 .. m -> V] : Fits(m, f)}
<1>1. 0 \in S
  <2> DEFINE f == [i \in 0 .. 0 |-> v]
  <2>1. f \in [0 .. 0 -> V]
    OBVIOUS
  <2>2. Fits(0, f)
    <3>1. \A i \in 0 .. 0 : i = 0
      OBVIOUS
    <3> QED
      BY <3>1
  <2> HIDE DEF f, Fits
  <2>3. 0 \in 0 .. n
    OBVIOUS
  <2> QED
    BY <2>1, <2>2, <2>3
<1>2. ASSUME NEW m \in 0 .. (n - 1), m \in S
      PROVE  m + 1 \in S
  <2>1. PICK f \in [0 .. m -> V] : Fits(m, f)
    BY <1>2
  <2> DEFINE g == [i \in 0 .. (m + 1) |-> IF i <= m THEN f[i] ELSE step[m + 1][f[m]]]
  <2>2. g \in [0 .. (m + 1) -> V]
    BY <2>1
  <2>3. \A i \in 0 .. (m + 1) : g[i] = IF i = 0 THEN v ELSE step[i][g[i - 1]]
    <3>1. \A i \in 0 .. m : f[i] = IF i = 0 THEN v ELSE step[i][f[i - 1]]
      BY <2>1
    <3>2. \A i \in 0 .. m : g[i] = f[i]
      OBVIOUS
    <3>3. g[m + 1] = step[m + 1][f[m]] /\ m + 1 # 0 /\ (m + 1) - 1 = m /\ m \in 0 .. m
      OBVIOUS
    <3> HIDE DEF g
    <3>4. ASSUME NEW i \in 0 .. m
          PROVE  g[i] = IF i = 0 THEN v ELSE step[i][g[i - 1]]
      <4>1. i = 0 \/ i - 1 \in 0 .. m
        OBVIOUS
      <4> QED
        BY <3>1, <3>2, <4>1
    <3>5. g[m + 1] = IF m + 1 = 0 THEN v ELSE step[m + 1][g[(m + 1) - 1]]
      BY <3>2, <3>3
    <3>6. \A i \in 0 .. (m + 1) : i \in 0 .. m \/ i = m + 1
      OBVIOUS
    <3> QED
      BY <3>4, <3>5, <3>6
  <2>4. Fits(m + 1, g)
    <3> HIDE DEF g
    <3> QED
      BY <2>2, <2>3
  <2> HIDE DEF g, Fits
  <2>5. m + 1 \in 0 .. n
    OBVIOUS
  <2> QED
    BY <2>2, <2>4, <2>5
<1>3. \A m \in 0 .. (n - 1) : m \in S => m + 1 \in S
  BY <1>2
<1>4. 0 .. n \subseteq S
  <2> HIDE DEF S
  <2> QED
    BY <1>1, <1>3, Induction
<1>5. n \in S
  BY <1>4
<1>6. PICK f \in [0 .. n -> V] : Fits(n, f)
  BY <1>5
<1>7. f[0] = v /\ \A i \in 1 .. n : f[i] = step[i][f[i - 1]]
  BY <1>6
<1> QED
  BY <1>6, <1>7 DEF Iterates

(* Numbers are marked one after the other: a number is marked if it is in  *)
(* A, or if it is in B and its predecessor p of smaller number is marked.  *)
LEMMA Marking ==
  ASSUME NEW n \in Nat, NEW A, NEW B, NEW p
  PROVE  \E R \in SUBSET (1 .. n) : \A c \in 1 .. n :
           c \in R <=> c \in A \/ (p[c] \in 1 .. (c - 1) /\ p[c] \in R /\ c \in B)
<1> DEFINE Fits(m, R) == \A c \in 1 .. m :
             c \in R <=> c \in A \/ (p[c] \in 1 .. (c - 1) /\ p[c] \in R /\ c \in B)
           S == {m \in 0 .. n : \E R \in SUBSET (1 .. m) : Fits(m, R)}
<1>1. 0 \in S
  <2>1. Fits(0, {}) /\ {} \in SUBSET (1 .. 0) /\ 0 \in 0 .. n
    OBVIOUS
  <2> HIDE DEF Fits
  <2> QED
    BY <2>1
<1>2. ASSUME NEW m \in 0 .. (n - 1), m \in S
      PROVE  m + 1 \in S
  <2>1. PICK R \in SUBSET (1 .. m) : Fits(m, R)
    BY <1>2
  <2> DEFINE c == m + 1
             T == IF c \in A \/ (p[c] \in 1 .. (c - 1) /\ p[c] \in R /\ c \in B)
                    THEN R \cup {c} ELSE R
  <2>2. T \in SUBSET (1 .. (m + 1)) /\ \A d \in 1 .. m : d \in T <=> d \in R
    BY <2>1
  <2>3. Fits(m + 1, T)
    <3>1. \A d \in 1 .. m : d \in T <=> d \in A \/ (p[d] \in 1 .. (d - 1) /\ p[d] \in T /\ d \in B)
      BY <2>1, <2>2
    <3>2. c \in T <=> c \in A \/ (p[c] \in 1 .. (c - 1) /\ p[c] \in T /\ c \in B)
      BY <2>1
    <3> HIDE DEF T
    <3> QED
      BY <3>1, <3>2
  <2> HIDE DEF T
  <2> QED
    BY <2>2, <2>3
<1>3. \A m \in 0 .. (n - 1) : m \in S => m + 1 \in S
  BY <1>2
<1>4. 0 .. n \subseteq S
  <2> HIDE DEF S
  <2> QED
    BY <1>1, <1>3, Induction
<1>5. n \in S
  BY <1>4
<1> QED
  BY <1>5
=============================================================================
