--------------------------- MODULE SyscallsProofs ---------------------------
(***************************************************************************)
(* Proofs about the RAM file system and the shell's file commands, for     *)
(* every set of names, every size of a directory and every number of       *)
(* nodes; and about descriptors and the contents of files, for every       *)
(* number of descriptors, every set of paths and every buffer a caller     *)
(* writes, with the commands of the shell between any two calls.           *)
(***************************************************************************)
EXTENDS Syscalls, DataInduction, SequenceTheorems

-----------------------------------------------------------------------------
(* What the recursive definitions of RamFS compute *)

Linked(t, c) ==
  t[c].parent \in 1 .. (c - 1) /\ Contains(t[t[c].parent].children, c)

(* The tree is the root and every node that hangs from a node of the tree. *)
LEMMA TreeUnfolds ==
  ASSUME NEW n \in Nat, NEW t, Nodes(t) = 1 .. n
  PROVE  /\ Tree(t) \subseteq 1 .. n
         /\ \A c \in 1 .. n :
              c \in Tree(t) <=> c = Root \/ (Linked(t, c) /\ t[c].parent \in Tree(t))
<1> DEFINE p == [c \in 1 .. n |-> t[c].parent]
           B == {c \in 1 .. n : Contains(t[t[c].parent].children, c)}
<1>1. PICK R \in SUBSET (1 .. n) : \A c \in 1 .. n :
             c \in R <=> c \in {Root} \/ (p[c] \in 1 .. (c - 1) /\ p[c] \in R /\ c \in B)
  <2> HIDE DEF p, B
  <2> QED
    BY Marking
<1> DEFINE Unfolds(f) ==
             f = [c \in Nodes(t) |->
                    \/ c = Root
                    \/ /\ t[c].parent \in 1 .. (c - 1)
                       /\ f[t[c].parent]
                       /\ Contains(t[t[c].parent].children, c)]
           f0 == [c \in 1 .. n |-> c \in R]
<1>2. ASSUME NEW c \in 1 .. n
      PROVE  f0[c] = (\/ c = Root
                      \/ /\ t[c].parent \in 1 .. (c - 1)
                         /\ f0[t[c].parent]
                         /\ Contains(t[t[c].parent].children, c))
  <2>1. c \in R <=> c = Root \/ (t[c].parent \in 1 .. (c - 1) /\ t[c].parent \in R
                                 /\ Contains(t[t[c].parent].children, c))
    BY <1>1
  <2>2. f0[c] <=> c \in R
    OBVIOUS
  <2>3. ASSUME t[c].parent \in 1 .. (c - 1)
        PROVE  f0[t[c].parent] <=> t[c].parent \in R
    <3>1. t[c].parent \in 1 .. n
      BY <2>3
    <3> QED
      BY <3>1
  <2>4. f0[c] \in BOOLEAN
    OBVIOUS
  <2> HIDE DEF f0
  <2> QED
    BY <2>1, <2>2, <2>3, <2>4
<1>3. Unfolds(f0)
  BY <1>2
<1>4. Unfolds(InTree(t))
  <2>1. InTree(t) = CHOOSE f : Unfolds(f)
    BY DEF InTree
  <2> HIDE DEF Unfolds
  <2> QED
    BY <1>3, <2>1
<1>5. \A c \in 1 .. n :
        InTree(t)[c] <=> c = Root \/ (/\ t[c].parent \in 1 .. (c - 1)
                                      /\ InTree(t)[t[c].parent]
                                      /\ Contains(t[t[c].parent].children, c))
  BY <1>4
<1>6. \A c : c \in Tree(t) <=> c \in 1 .. n /\ InTree(t)[c]
  BY DEF Tree
<1> QED
  BY <1>5, <1>6 DEF Linked

(* The nodes fs_remove_child is called for when child is removed.          *)
Gone(t, child) == {c \in Nodes(t) : Hit(t, child)[c]}

Caught(t, c) ==
  t[c].parent \in 1 .. (c - 1) /\ Recursed(t[t[c].parent].children, c)

(* They are the child and every node the loop over the children of one of  *)
(* them comes to.                                                          *)
LEMMA GoneUnfolds ==
  ASSUME NEW n \in Nat, NEW t, Nodes(t) = 1 .. n, NEW child
  PROVE  /\ Gone(t, child) \subseteq 1 .. n
         /\ \A c \in 1 .. n :
              c \in Gone(t, child) <=>
                c = child \/ (Caught(t, c) /\ t[c].parent \in Gone(t, child))
<1> DEFINE p == [c \in 1 .. n |-> t[c].parent]
           B == {c \in 1 .. n : Recursed(t[t[c].parent].children, c)}
<1>1. PICK R \in SUBSET (1 .. n) : \A c \in 1 .. n :
             c \in R <=> c \in {child} \/ (p[c] \in 1 .. (c - 1) /\ p[c] \in R /\ c \in B)
  <2> HIDE DEF p, B
  <2> QED
    BY Marking
<1> DEFINE Unfolds(f) ==
             f = [c \in Nodes(t) |->
                    \/ c = child
                    \/ /\ t[c].parent \in 1 .. (c - 1)
                       /\ f[t[c].parent]
                       /\ Recursed(t[t[c].parent].children, c)]
           f0 == [c \in 1 .. n |-> c \in R]
<1>2. ASSUME NEW c \in 1 .. n
      PROVE  f0[c] = (\/ c = child
                      \/ /\ t[c].parent \in 1 .. (c - 1)
                         /\ f0[t[c].parent]
                         /\ Recursed(t[t[c].parent].children, c))
  <2>1. c \in R <=> c = child \/ (t[c].parent \in 1 .. (c - 1) /\ t[c].parent \in R
                                  /\ Recursed(t[t[c].parent].children, c))
    BY <1>1
  <2>2. f0[c] <=> c \in R
    OBVIOUS
  <2>3. ASSUME t[c].parent \in 1 .. (c - 1)
        PROVE  f0[t[c].parent] <=> t[c].parent \in R
    <3>1. t[c].parent \in 1 .. n
      BY <2>3
    <3> QED
      BY <3>1
  <2>4. f0[c] \in BOOLEAN
    OBVIOUS
  <2> HIDE DEF f0
  <2> QED
    BY <2>1, <2>2, <2>3, <2>4
<1>3. Unfolds(f0)
  BY <1>2
<1>4. Unfolds(Hit(t, child))
  <2>1. Hit(t, child) = CHOOSE f : Unfolds(f)
    BY DEF Hit
  <2> HIDE DEF Unfolds
  <2> QED
    BY <1>3, <2>1
<1>5. \A c \in 1 .. n :
        Hit(t, child)[c] <=> c = child \/ (/\ t[c].parent \in 1 .. (c - 1)
                                           /\ Hit(t, child)[t[c].parent]
                                           /\ Recursed(t[t[c].parent].children, c))
  BY <1>4
<1>6. \A c : c \in Gone(t, child) <=> c \in 1 .. n /\ Hit(t, child)[c]
  BY DEF Gone
<1> QED
  BY <1>5, <1>6 DEF Caught

(* What the loop that shifts the array has after its i-th entry.           *)
Shifting(s, gone, V, k) ==
  /\ k \in [0 .. Len(s) -> Seq(V)]
  /\ k[0] = << >>
  /\ \A i \in 1 .. Len(s) :
       k[i] = IF s[i] \in gone THEN k[i - 1] ELSE Append(k[i - 1], s[i])
  /\ Remaining(s, gone) = k[Len(s)]

LEMMA RemainingUnfolds ==
  ASSUME NEW V, NEW s \in Seq(V), NEW gone
  PROVE  \E k : Shifting(s, gone, V, k)
<1> DEFINE n == Len(s)
           step == [i \in 1 .. n |-> [x \in Seq(V) |->
                      IF s[i] \in gone THEN x ELSE Append(x, s[i])]]
           Kept(f) == f = [i \in 0 .. n |->
                             IF i = 0 THEN << >>
                             ELSE IF s[i] \in gone THEN f[i - 1]
                             ELSE Append(f[i - 1], s[i])]
<1>0. n \in Nat /\ << >> \in Seq(V)
  OBVIOUS
<1>1. step \in [1 .. n -> [Seq(V) -> Seq(V)]]
  OBVIOUS
<1>2. PICK f0 : Iterates(f0, n, Seq(V), << >>, step)
  <2> HIDE DEF step, n
  <2> QED
    BY <1>0, <1>1, Iteration
<1>3. ASSUME NEW i \in 1 .. n
      PROVE  step[i][f0[i - 1]] = IF s[i] \in gone THEN f0[i - 1] ELSE Append(f0[i - 1], s[i])
  <2>1. i - 1 \in 0 .. n
    BY <1>0
  <2>2. f0[i - 1] \in Seq(V)
    BY <1>2, <2>1 DEF Iterates
  <2> QED
    BY <2>2
<1>4. Kept(f0)
  <2> HIDE DEF step
  <2>1. \A i \in 0 .. n : i # 0 => i \in 1 .. n
    OBVIOUS
  <2>2. \A i \in 0 .. n : f0[i] = IF i = 0 THEN << >>
                                  ELSE IF s[i] \in gone THEN f0[i - 1]
                                  ELSE Append(f0[i - 1], s[i])
    BY <1>2, <1>3, <2>1 DEF Iterates
  <2> QED
    BY <1>2, <2>2 DEF Iterates
<1> DEFINE k == CHOOSE f : Kept(f)
<1>5. Kept(k)
  <2> HIDE DEF Kept
  <2> QED
    BY <1>4
<1>6. Remaining(s, gone) = k[n]
  BY DEF Remaining
<1> HIDE DEF k
<1>7. k[0] = << >> /\ \A i \in 1 .. n :
        k[i] = IF s[i] \in gone THEN k[i - 1] ELSE Append(k[i - 1], s[i])
  <2>1. 0 \in 0 .. n /\ \A i \in 1 .. n : i \in 0 .. n /\ i # 0
    BY <1>0
  <2> HIDE DEF n
  <2> QED
    BY <1>5, <2>1
<1> DEFINE S == {i \in 0 .. n : k[i] \in Seq(V)}
<1>8. 0 \in S
  <2>1. 0 \in 0 .. n
    BY <1>0
  <2>2. k[0] \in Seq(V)
    BY <1>0, <1>7, Zenon
  <2> QED
    BY <2>1, <2>2
<1>9. ASSUME NEW m \in 0 .. (n - 1), m \in S
      PROVE  m + 1 \in S
  <2>0. m + 1 \in 1 .. n /\ (m + 1) - 1 = m
    BY <1>0
  <2>1. k[m + 1] = IF s[m + 1] \in gone THEN k[m] ELSE Append(k[m], s[m + 1])
    BY <1>7, <2>0
  <2>2. s[m + 1] \in V /\ k[m] \in Seq(V)
    BY <1>9, <2>0
  <2>3. k[m + 1] \in Seq(V)
    BY <2>1, <2>2
  <2> QED
    BY <2>0, <2>3
<1>10. 0 .. n \subseteq S
  <2>1. \A m \in 0 .. (n - 1) : m \in S => m + 1 \in S
    BY <1>9
  <2> HIDE DEF S
  <2> QED
    BY <1>0, <1>8, <2>1, Induction
<1>11. k \in [0 .. n -> Seq(V)]
  BY <1>5, <1>10
<1> QED
  BY <1>6, <1>7, <1>11 DEF Shifting

(* A sequence with one more element. *)
LEMMA Appended ==
  ASSUME NEW V, NEW q \in Seq(V), NEW x \in V
  PROVE  /\ Append(q, x) \in Seq(V)
         /\ Len(Append(q, x)) = Len(q) + 1
         /\ ToSet(Append(q, x)) = ToSet(q) \cup {x}
         /\ IsInjective(q) /\ x \notin ToSet(q) => IsInjective(Append(q, x))
<1> DEFINE n == Len(q)
           a == Append(q, x)
<1>1. /\ n \in Nat /\ a \in Seq(V) /\ Len(a) = n + 1
      /\ DOMAIN q = 1 .. n /\ DOMAIN a = 1 .. (n + 1) /\ a[n + 1] = x
      /\ \A j \in 1 .. n : a[j] = q[j]
  OBVIOUS
<1> HIDE DEF n, a
<1>2. \A j : j \in 1 .. (n + 1) <=> j \in 1 .. n \/ j = n + 1
  BY <1>1
<1>3. ToSet(a) = ToSet(q) \cup {x}
  <2>1. ASSUME NEW y \in ToSet(a)
        PROVE  y \in ToSet(q) \cup {x}
    <3>1. PICK j \in 1 .. (n + 1) : y = a[j]
      BY <1>1, <2>1 DEF ToSet
    <3> QED
      BY <1>1, <1>2, <3>1 DEF ToSet
  <2>2. ASSUME NEW y \in ToSet(q)
        PROVE  y \in ToSet(a)
    <3>1. PICK j \in 1 .. n : y = q[j]
      BY <1>1, <2>2 DEF ToSet
    <3>2. j \in DOMAIN a /\ y = a[j]
      BY <1>1, <1>2, <3>1
    <3> QED
      BY <3>2 DEF ToSet
  <2>3. x \in ToSet(a)
    <3>1. n + 1 \in DOMAIN a
      BY <1>1
    <3> QED
      BY <1>1, <3>1 DEF ToSet
  <2> QED
    BY <2>1, <2>2, <2>3
<1>4. ASSUME IsInjective(q), x \notin ToSet(q)
      PROVE  IsInjective(a)
  <2>1. \A j \in 1 .. n : q[j] # x
    BY <1>1, <1>4 DEF ToSet
  <2>2. \A i, j \in 1 .. n : q[i] = q[j] => i = j
    BY <1>1, <1>4 DEF IsInjective
  <2>3. ASSUME NEW i \in 1 .. (n + 1), NEW j \in 1 .. (n + 1), a[i] = a[j]
        PROVE  i = j
    BY <1>1, <1>2, <2>1, <2>2, <2>3
  <2> QED
    BY <1>1, <2>3 DEF IsInjective
<1> QED
  BY <1>1, <1>3, <1>4 DEF n, a

Upto(s, i) == {s[j] : j \in 1 .. i}

(* The array keeps its kind, grows no longer, loses exactly the removed    *)
(* children, and has no child twice if it had none before.                 *)
LEMMA RemainingKeeps ==
  ASSUME NEW V, NEW s \in Seq(V), NEW gone
  PROVE  /\ Remaining(s, gone) \in Seq(V)
         /\ Len(Remaining(s, gone)) <= Len(s)
         /\ ToSet(Remaining(s, gone)) = ToSet(s) \ gone
         /\ IsInjective(s) => IsInjective(Remaining(s, gone))
<1> DEFINE n == Len(s)
<1>0. n \in Nat
  OBVIOUS
<1>1. PICK k : Shifting(s, gone, V, k)
  BY RemainingUnfolds
<1> DEFINE Good(i) == /\ Len(k[i]) <= i
                      /\ ToSet(k[i]) = Upto(s, i) \ gone
                      /\ IsInjective(s) => IsInjective(k[i])
           S == {i \in 0 .. n : Good(i)}
<1>2. 0 \in S
  <2>1. k[0] = << >> /\ Len(k[0]) = 0 /\ DOMAIN k[0] = {}
    BY <1>1 DEF Shifting
  <2>2. ToSet(k[0]) = {} /\ Upto(s, 0) = {} /\ IsInjective(k[0])
    BY <2>1 DEF ToSet, Upto, IsInjective
  <2> QED
    BY <1>0, <2>1, <2>2
<1>3. ASSUME NEW m \in 0 .. (n - 1), m \in S
      PROVE  m + 1 \in S
  <2>0. m + 1 \in 1 .. n /\ m + 1 \in 0 .. n /\ m \in 0 .. n /\ (m + 1) - 1 = m
    BY <1>0
  <2>1. k[m + 1] = IF s[m + 1] \in gone THEN k[m] ELSE Append(k[m], s[m + 1])
    BY <1>1, <2>0 DEF Shifting
  <2>2. k[m] \in Seq(V) /\ s[m + 1] \in V
    BY <1>1, <2>0 DEF Shifting
  <2>3. Good(m)
    BY <1>3
  <2>4. Upto(s, m + 1) = Upto(s, m) \cup {s[m + 1]}
    <3>1. \A j : j \in 1 .. (m + 1) <=> j \in 1 .. m \/ j = m + 1
      BY <2>0
    <3> QED
      BY <3>1 DEF Upto
  <2>5. CASE s[m + 1] \in gone
    <3>1. k[m + 1] = k[m]
      BY <2>1, <2>5
    <3> QED
      BY <2>0, <2>2, <2>3, <2>4, <2>5, <3>1
  <2>6. CASE s[m + 1] \notin gone
    <3>1. k[m + 1] = Append(k[m], s[m + 1])
      BY <2>1, <2>6
    <3>2. Len(k[m + 1]) = Len(k[m]) + 1 /\ Len(k[m]) \in Nat
      BY <2>2, <3>1
    <3>3. /\ ToSet(k[m + 1]) = ToSet(k[m]) \cup {s[m + 1]}
          /\ IsInjective(k[m]) /\ s[m + 1] \notin ToSet(k[m]) => IsInjective(k[m + 1])
      BY <2>2, <3>1, Appended
    <3>4. ASSUME IsInjective(s)
          PROVE  IsInjective(k[m + 1])
      <4>1. s[m + 1] \notin Upto(s, m)
        <5>1. \A j \in 1 .. m : j \in DOMAIN s /\ m + 1 \in DOMAIN s /\ j # m + 1
          BY <2>0
        <5> QED
          BY <3>4, <5>1 DEF IsInjective, Upto
      <4>2. IsInjective(k[m]) /\ s[m + 1] \notin ToSet(k[m])
        BY <2>3, <3>4, <4>1
      <4> QED
        BY <3>3, <4>2
    <3> QED
      BY <2>0, <2>3, <2>4, <2>6, <3>2, <3>3, <3>4
  <2> QED
    BY <2>5, <2>6
<1>4. 0 .. n \subseteq S
  <2>1. \A m \in 0 .. (n - 1) : m \in S => m + 1 \in S
    BY <1>3
  <2> HIDE DEF S
  <2> QED
    BY <1>0, <1>2, <2>1, Induction
<1>5. Good(n) /\ k[n] \in Seq(V) /\ Remaining(s, gone) = k[n]
  BY <1>0, <1>1, <1>4 DEF Shifting
<1>6. Upto(s, n) = ToSet(s)
  BY DEF Upto, ToSet
<1> QED
  BY <1>5, <1>6

(* An array none of whose children is removed is what it was. *)
LEMMA RemainingOfOthers ==
  ASSUME NEW V, NEW s \in Seq(V), NEW gone, ToSet(s) \cap gone = {}
  PROVE  Remaining(s, gone) = s
<1> DEFINE n == Len(s)
<1>0. n \in Nat
  OBVIOUS
<1>1. PICK k : Shifting(s, gone, V, k)
  BY RemainingUnfolds
<1> DEFINE S == {i \in 0 .. n : Len(k[i]) = i /\ \A j \in 1 .. i : k[i][j] = s[j]}
<1>2. 0 \in S
  BY <1>0, <1>1 DEF Shifting
<1>3. ASSUME NEW m \in 0 .. (n - 1), m \in S
      PROVE  m + 1 \in S
  <2>0. m + 1 \in 1 .. n /\ m + 1 \in 0 .. n /\ m \in 0 .. n /\ (m + 1) - 1 = m
    BY <1>0
  <2>1. s[m + 1] \notin gone
    BY <2>0 DEF ToSet
  <2>2. k[m + 1] = Append(k[m], s[m + 1])
    BY <1>1, <2>0, <2>1 DEF Shifting
  <2>3. k[m] \in Seq(V) /\ s[m + 1] \in V
    BY <1>1, <2>0 DEF Shifting
  <2>4. Len(k[m]) = m /\ \A j \in 1 .. m : k[m][j] = s[j]
    BY <1>3
  <2>5. Len(k[m + 1]) = m + 1 /\ \A j \in 1 .. (m + 1) : k[m + 1][j] = s[j]
    BY <2>0, <2>2, <2>3, <2>4
  <2> QED
    BY <2>0, <2>5
<1>4. 0 .. n \subseteq S
  <2>1. \A m \in 0 .. (n - 1) : m \in S => m + 1 \in S
    BY <1>3
  <2> HIDE DEF S
  <2> QED
    BY <1>0, <1>2, <2>1, Induction
<1>5. k[n] \in Seq(V) /\ Len(k[n]) = n /\ \A j \in 1 .. n : k[n][j] = s[j]
  BY <1>0, <1>1, <1>4 DEF Shifting
<1>6. Remaining(s, gone) = k[n]
  BY <1>1 DEF Shifting
<1> QED
  BY <1>5, <1>6

(* An array one of whose children is removed: the others move up. *)
LEMMA RemainingShifts ==
  ASSUME NEW V, NEW s \in Seq(V), NEW gone, IsInjective(s),
         NEW slot \in DOMAIN s, ToSet(s) \cap gone = {s[slot]}
  PROVE  Remaining(s, gone) \in Seq(V) /\ Remaining(s, gone) = Shifted(s, slot)
<1> DEFINE n == Len(s)
<1>0. n \in Nat /\ slot \in 1 .. n /\ DOMAIN s = 1 .. n
  OBVIOUS
<1>1. PICK k : Shifting(s, gone, V, k)
  BY RemainingUnfolds
<1>12. k \in [0 .. n -> Seq(V)]
  BY <1>1 DEF Shifting
<1> DEFINE S == {i \in 0 .. n : /\ Len(k[i]) = IF i < slot THEN i ELSE i - 1
                                /\ \A j \in 1 .. Len(k[i]) :
                                     k[i][j] = IF j < slot THEN s[j] ELSE s[j + 1]}
<1>2. 0 \in S
  BY <1>0, <1>1 DEF Shifting
<1>3. ASSUME NEW m \in 0 .. (n - 1), m \in S
      PROVE  m + 1 \in S
  <2>0. m + 1 \in 1 .. n /\ m + 1 \in 0 .. n /\ m \in 0 .. n /\ (m + 1) - 1 = m
    BY <1>0
  <2>1. s[m + 1] \in gone <=> m + 1 = slot
    BY <1>0, <2>0 DEF ToSet, IsInjective
  <2>2. k[m + 1] = IF m + 1 = slot THEN k[m] ELSE Append(k[m], s[m + 1])
    BY <1>1, <2>0, <2>1 DEF Shifting
  <2>3. k[m] \in Seq(V) /\ s[m + 1] \in V
    BY <1>0, <1>12, <2>0
  <2>4. /\ Len(k[m]) = IF m < slot THEN m ELSE m - 1
        /\ \A j \in 1 .. Len(k[m]) : k[m][j] = IF j < slot THEN s[j] ELSE s[j + 1]
    BY <1>3
  <2>5. CASE m + 1 = slot
    BY <1>0, <2>0, <2>2, <2>4, <2>5
  <2>6. CASE m + 1 # slot
    <3>1. /\ k[m + 1] = Append(k[m], s[m + 1])
          /\ Len(k[m + 1]) = Len(k[m]) + 1
          /\ k[m + 1][Len(k[m]) + 1] = s[m + 1]
          /\ \A j \in 1 .. Len(k[m]) : k[m + 1][j] = k[m][j]
      BY <2>2, <2>3, <2>6
    <3>2. Len(k[m + 1]) = IF m + 1 < slot THEN m + 1 ELSE m
      BY <1>0, <2>0, <2>4, <2>6, <3>1
    <3>3. ASSUME NEW j \in 1 .. Len(k[m + 1])
          PROVE  k[m + 1][j] = IF j < slot THEN s[j] ELSE s[j + 1]
      <4>1. CASE j \in 1 .. Len(k[m])
        BY <2>4, <3>1, <4>1
      <4>2. CASE j = Len(k[m]) + 1
        BY <1>0, <2>0, <2>4, <2>6, <3>1, <4>2
      <4> QED
        BY <2>3, <3>1, <4>1, <4>2
    <3> QED
      BY <2>0, <3>2, <3>3
  <2> QED
    BY <2>5, <2>6
<1>4. 0 .. n \subseteq S
  <2>1. \A m \in 0 .. (n - 1) : m \in S => m + 1 \in S
    BY <1>3
  <2> HIDE DEF S
  <2> QED
    BY <1>0, <1>2, <2>1, Induction
<1> DEFINE r == Remaining(s, gone)
<1>5. /\ r \in Seq(V) /\ Len(r) = n - 1
      /\ \A j \in 1 .. (n - 1) : r[j] = IF j < slot THEN s[j] ELSE s[j + 1]
  <2>1. n \in S
    <3> HIDE DEF S
    <3> QED
      BY <1>0, <1>4
  <2>2. r = k[n] /\ k[n] \in Seq(V)
    BY <1>0, <1>1, <1>12 DEF Shifting
  <2> HIDE DEF r
  <2>3. /\ Len(k[n]) = n - 1
        /\ \A j \in 1 .. Len(k[n]) : k[n][j] = IF j < slot THEN s[j] ELSE s[j + 1]
    <3>1. Len(k[n]) = IF n < slot THEN n ELSE n - 1
      BY <2>1
    <3>2. \A j \in 1 .. Len(k[n]) : k[n][j] = IF j < slot THEN s[j] ELSE s[j + 1]
      BY <2>1
    <3>3. ~ (n < slot)
      BY <1>0
    <3> QED
      BY <3>1, <3>2, <3>3
  <2> QED
    BY <2>2, <2>3
<1>6. DOMAIN r = 1 .. (n - 1)
  BY <1>5, LenProperties
<1> HIDE DEF r, n
<1>7. r = [j \in 1 .. (n - 1) |-> IF j < slot THEN s[j] ELSE s[j + 1]]
  <2>1. r = [j \in DOMAIN r |-> r[j]]
    BY <1>5
  <2> QED
    BY <1>5, <1>6, <2>1
<1> QED
  BY <1>5, <1>7 DEF r, n, Shifted

(* That is the array without its slot. *)
LEMMA RemainingOfParent ==
  ASSUME NEW V, NEW s \in Seq(V), NEW gone, IsInjective(s),
         NEW slot \in DOMAIN s, ToSet(s) \cap gone = {s[slot]}
  PROVE  Remaining(s, gone) = RemoveAt(s, slot)
<1> DEFINE n == Len(s)
<1>0. n \in Nat /\ slot \in 1 .. n /\ DOMAIN s = 1 .. n
  OBVIOUS
<1> DEFINE r == Remaining(s, gone)
<1>5. /\ r \in Seq(V) /\ Len(r) = n - 1
      /\ \A j \in 1 .. (n - 1) : r[j] = IF j < slot THEN s[j] ELSE s[j + 1]
  <2>1. r \in Seq(V) /\ r = Shifted(s, slot)
    BY RemainingShifts
  <2>2. Len(r) \in Nat /\ DOMAIN r = 1 .. Len(r)
    BY <2>1, LenProperties
  <2> HIDE DEF r, n
  <2>3. r = [j \in 1 .. (n - 1) |-> IF j < slot THEN s[j] ELSE s[j + 1]]
    BY <2>1 DEF Shifted, n
  <2>4. 1 .. Len(r) = 1 .. (n - 1)
    BY <2>2, <2>3
  <2>5. Len(r) = n - 1
    BY <1>0, <2>2, <2>4
  <2> QED
    BY <2>1, <2>3, <2>5
<1> DEFINE u == SubSeq(s, 1, slot - 1)
           v == SubSeq(s, slot + 1, n)
           w == u \o v
<1>6. u \in Seq(V) /\ Len(u) = slot - 1 /\ \A j \in 1 .. (slot - 1) : u[j] = s[j]
  <2>1. \A j \in 1 .. (slot - 1) : s[j] \in V
    BY <1>0
  <2>2. /\ u \in Seq(V)
        /\ Len(u) = IF 1 <= slot - 1 THEN (slot - 1) - 1 + 1 ELSE 0
        /\ \A j \in 1 .. (slot - 1) - 1 + 1 : u[j] = s[1 + j - 1]
    BY <1>0, <2>1, SubSeqProperties
  <2> HIDE DEF u
  <2> QED
    BY <1>0, <2>2
<1>7. v \in Seq(V) /\ Len(v) = n - slot /\ \A j \in 1 .. (n - slot) : v[j] = s[slot + j]
  <2>1. \A j \in (slot + 1) .. n : s[j] \in V
    BY <1>0
  <2>2. /\ v \in Seq(V)
        /\ Len(v) = IF slot + 1 <= n THEN n - (slot + 1) + 1 ELSE 0
        /\ \A j \in 1 .. n - (slot + 1) + 1 : v[j] = s[(slot + 1) + j - 1]
    <3>1. slot + 1 \in Int /\ n \in Int
      BY <1>0
    <3> HIDE DEF n
    <3> QED
      BY <2>1, <3>1, SubSeqProperties
  <2> HIDE DEF v, n
  <2>3. Len(v) = n - slot
    BY <1>0, <2>2
  <2>4. ASSUME NEW j \in 1 .. (n - slot)
        PROVE  v[j] = s[slot + j]
    <3>1. j \in 1 .. n - (slot + 1) + 1 /\ (slot + 1) + j - 1 = slot + j
      BY <1>0
    <3> QED
      BY <2>2, <3>1
  <2> QED
    BY <2>2, <2>3, <2>4
<1> HIDE DEF u, v
<1>8. /\ w \in Seq(V) /\ Len(w) = n - 1
      /\ \A j \in 1 .. (n - 1) : w[j] = IF j < slot THEN u[j] ELSE v[j - (slot - 1)]
  <2>1. /\ w \in Seq(V) /\ Len(w) = Len(u) + Len(v)
        /\ \A j \in 1 .. Len(u) + Len(v) : w[j] = IF j <= Len(u) THEN u[j] ELSE v[j - Len(u)]
    BY <1>6, <1>7, ConcatProperties
  <2> HIDE DEF w
  <2> QED
    BY <1>0, <1>6, <1>7, <2>1
<1>9. \A j \in 1 .. (n - 1) : w[j] = IF j < slot THEN s[j] ELSE s[j + 1]
  <2> HIDE DEF w
  <2>1. ASSUME NEW j \in 1 .. (n - 1), j < slot
        PROVE  w[j] = s[j]
    BY <1>0, <1>6, <1>8, <2>1
  <2>2. ASSUME NEW j \in 1 .. (n - 1), ~ (j < slot)
        PROVE  w[j] = s[j + 1]
    <3>1. j - (slot - 1) \in 1 .. (n - slot) /\ slot + (j - (slot - 1)) = j + 1
      BY <1>0, <2>2
    <3> QED
      BY <1>7, <1>8, <2>2, <3>1
  <2> QED
    BY <2>1, <2>2
<1>10. RemoveAt(s, slot) = w
  BY DEF RemoveAt, u, v
<1> HIDE DEF r, w
<1>11. r = w
  <2>1. Len(r) = Len(w) /\ \A j \in 1 .. Len(r) : r[j] = w[j]
    BY <1>5, <1>8, <1>9
  <2> QED
    BY <1>5, <1>8, <2>1, SeqEqual
<1> QED
  BY <1>10, <1>11 DEF r

-----------------------------------------------------------------------------
(* Tables of nodes *)

Node == [name : Names, isDir : BOOLEAN, parent : 0 .. MaxNodes,
         children : Seq(1 .. MaxNodes), table : BOOLEAN,
         data : Seq(Bytes), size : Nat]

(* A directory lists nodes made after it that name it as their parent.     *)
Entry(t, d) ==
  /\ t[d].parent < d
  /\ Len(t[d].children) <= MAX_CHILDREN
  /\ ~ t[d].isDir => t[d].children = << >>
  /\ IsInjective(t[d].children)
  /\ \A c \in ToSet(t[d].children) : c \in 1 .. Len(t) /\ t[c].parent = d /\ d < c

Sound(t) ==
  /\ t \in Seq(Node) /\ Len(t) <= MaxNodes
  /\ \A d \in 1 .. Len(t) : Entry(t, d)

LEMMA SoundTypes ==
  ASSUME NEW t, Sound(t)
  PROVE  /\ Len(t) \in Nat /\ Len(t) <= MaxNodes /\ Nodes(t) = 1 .. Len(t) /\ DOMAIN t = 1 .. Len(t)
         /\ \A d \in 1 .. Len(t) :
              /\ t[d] \in Node /\ Entry(t, d) /\ t[d].parent \in Nat
              /\ t[d].children \in Seq(1 .. MaxNodes)
<1>1. t \in Seq(Node) /\ Len(t) <= MaxNodes /\ \A d \in 1 .. Len(t) : Entry(t, d)
  BY DEF Sound
<1>2. Len(t) \in Nat /\ DOMAIN t = 1 .. Len(t) /\ \A d \in 1 .. Len(t) : t[d] \in Node
  BY <1>1
<1>3. \A x \in Node : x.parent \in Nat /\ x.children \in Seq(1 .. MaxNodes)
  BY DEF Node
<1> QED
  BY <1>1, <1>2, <1>3 DEF Nodes

(* What hangs from a directory's array hangs from the directory.           *)
LEMMA ChildIsLinked ==
  ASSUME NEW t, Sound(t), NEW c \in 1 .. Len(t)
  PROVE  /\ Linked(t, c) <=> \E d \in 1 .. Len(t) : c \in ToSet(t[d].children)
         /\ \A d \in 1 .. Len(t) : c \in ToSet(t[d].children) => Linked(t, c) /\ t[c].parent = d
<1>1. \A d \in 1 .. Len(t) : c \in ToSet(t[d].children) <=> Contains(t[d].children, c)
  <2>1. ASSUME NEW d \in 1 .. Len(t)
        PROVE  DOMAIN t[d].children = 1 .. Len(t[d].children)
    BY SoundTypes
  <2> QED
    BY <2>1 DEF ToSet, Contains
<1>2. ASSUME NEW d \in 1 .. Len(t), c \in ToSet(t[d].children)
      PROVE  Linked(t, c) /\ t[c].parent = d
  <2>1. t[c].parent = d /\ d < c
    BY <1>2 DEF Sound, Entry
  <2> QED
    BY <1>1, <1>2, <2>1 DEF Linked
<1>3. ASSUME Linked(t, c)
      PROVE  \E d \in 1 .. Len(t) : c \in ToSet(t[d].children)
  <2>1. t[c].parent \in 1 .. Len(t) /\ Contains(t[t[c].parent].children, c)
    BY <1>3, SoundTypes DEF Linked
  <2> QED
    BY <1>1, <2>1
<1> QED
  BY <1>2, <1>3

(* A node stays in the tree as long as its chain of directories is there:  *)
(* if the links of the nodes outside X are kept from u to t, the tree of u *)
(* outside X is in the tree of t.                                          *)
LEMMA Branches ==
  ASSUME NEW m \in Nat, NEW n \in Nat, NEW t, NEW u, Nodes(t) = 1 .. n, Nodes(u) = 1 .. m,
         NEW X,
         1 \in 1 .. m => 1 \in 1 .. n,
         \A c \in (1 .. m) \ X : Linked(u, c) =>
           /\ c \in 1 .. n /\ Linked(t, c)
           /\ t[c].parent = u[c].parent
           /\ u[c].parent \notin X
  PROVE  Tree(u) \ X \subseteq Tree(t)
<1> DEFINE S == {c \in 1 .. m : c \in Tree(u) \ X => c \in Tree(t)}
<1>1. ASSUME NEW c \in 1 .. m, 1 .. (c - 1) \subseteq S
      PROVE  c \in S
  <2>1. SUFFICES ASSUME c \in Tree(u), c \notin X
                 PROVE  c \in Tree(t)
    OBVIOUS
  <2>2. CASE c = Root
    BY <2>2, TreeUnfolds DEF Root
  <2>3. CASE Linked(u, c) /\ u[c].parent \in Tree(u)
    <3>1. c \in 1 .. n /\ Linked(t, c) /\ t[c].parent = u[c].parent /\ u[c].parent \notin X
      BY <2>1, <2>3
    <3>2. u[c].parent \in 1 .. (c - 1)
      BY <2>3 DEF Linked
    <3>3. u[c].parent \in Tree(t)
      BY <1>1, <2>3, <3>1, <3>2
    <3> QED
      BY <3>1, <3>3, TreeUnfolds
  <2> QED
    BY <2>1, <2>2, <2>3, TreeUnfolds
<1>2. 1 .. m \subseteq S
  <2>1. \A c \in 1 .. m : 1 .. (c - 1) \subseteq S => c \in S
    BY <1>1
  <2> HIDE DEF S
  <2> QED
    BY <2>1, StrongInduction
<1>3. Tree(u) \subseteq 1 .. m
  BY TreeUnfolds
<1> QED
  BY <1>2, <1>3

(* u is t with a node that hangs from nothing yet.                         *)
Fresh(t, u) ==
  /\ u \in Seq(Node) /\ Len(u) = Len(t) + 1 /\ Len(u) <= MaxNodes
  /\ \A d \in 1 .. Len(t) : u[d] = t[d]
  /\ u[Len(u)].parent = NULL /\ u[Len(u)].children = << >>

LEMMA FreshIsOutside ==
  ASSUME NEW t, NEW u, Sound(t), Fresh(t, u), Len(t) # 0
  PROVE  Sound(u) /\ Tree(u) = Tree(t) /\ Tree(t) \subseteq 1 .. Len(t)
<1> DEFINE n == Len(t)
           m == n + 1
<1>0. n \in Nat /\ n # 0 /\ Len(u) = m /\ Nodes(t) = 1 .. n /\ Nodes(u) = 1 .. m
  BY SoundTypes DEF Fresh, Nodes
<1>1. /\ \A d \in 1 .. n : u[d] = t[d] /\ Entry(t, d)
      /\ u[m].parent = NULL /\ u[m].children = << >>
  BY <1>0 DEF Fresh, Sound
<1>2. ASSUME NEW d \in 1 .. n
      PROVE  Entry(u, d)
  <2>1. \A c \in ToSet(u[d].children) : c \in 1 .. n /\ u[c].parent = d /\ d < c
    BY <1>0, <1>1 DEF Entry
  <2> QED
    BY <1>0, <1>1, <2>1 DEF Entry
<1>3. Entry(u, m)
  <2>1. DOMAIN u[m].children = {} /\ Len(u[m].children) = 0
    BY <1>1
  <2>2. ToSet(u[m].children) = {} /\ IsInjective(u[m].children)
    BY <2>1 DEF ToSet, IsInjective
  <2> QED
    BY <1>0, <1>1, <2>1, <2>2, RamFSAssumption DEF Entry, NULL
<1>4. Sound(u)
  BY <1>0, <1>2, <1>3 DEF Sound, Fresh
<1>5. ASSUME NEW c \in 1 .. n
      PROVE  (Linked(u, c) <=> Linked(t, c)) /\ u[c].parent = t[c].parent
  <2>1. u[c] = t[c] /\ \A d \in 1 .. (c - 1) : u[d] = t[d]
    BY <1>0, <1>1
  <2> QED
    BY <2>1 DEF Linked
<1>6. ~ Linked(u, m)
  BY <1>1 DEF Linked, NULL
<1>7. Tree(u) \ {} \subseteq Tree(t)
  <2>1. \A c \in (1 .. m) \ {} : Linked(u, c) =>
          c \in 1 .. n /\ Linked(t, c) /\ t[c].parent = u[c].parent /\ u[c].parent \notin {}
    BY <1>0, <1>5, <1>6
  <2>2. m \in Nat /\ (1 \in 1 .. m => 1 \in 1 .. n)
    BY <1>0
  <2> HIDE DEF n, m
  <2> QED
    BY <1>0, <2>1, <2>2, Branches
<1>8. Tree(t) \ {} \subseteq Tree(u)
  <2>1. \A c \in (1 .. n) \ {} : Linked(t, c) =>
          c \in 1 .. m /\ Linked(u, c) /\ u[c].parent = t[c].parent /\ t[c].parent \notin {}
    BY <1>0, <1>5
  <2>2. m \in Nat /\ (1 \in 1 .. n => 1 \in 1 .. m)
    BY <1>0
  <2> HIDE DEF n, m
  <2> QED
    BY <1>0, <2>1, <2>2, Branches
<1> QED
  BY <1>0, <1>4, <1>7, <1>8, TreeUnfolds

(* The node that hangs from nothing is put behind the children of d.       *)
LEMMA LinkedIsInside ==
  ASSUME NEW t, NEW c, NEW d, Sound(t), c \in 1 .. Len(t), d \in 1 .. Len(t),
         t[d].isDir, ~ Full(t, d), d < c,
         t[c].parent = NULL, t[c].children = << >>, d \in Tree(t)
  PROVE  /\ Sound(Link(t, d, c))
         /\ c \notin Tree(t)
         /\ Tree(Link(t, d, c)) = Tree(t) \cup {c}
<1> DEFINE u == Link(t, d, c)
           n == Len(t)
<1>0. /\ n \in Nat /\ n <= MaxNodes /\ DOMAIN t = 1 .. n /\ c \in 1 .. n /\ d \in 1 .. n
      /\ \A e \in 1 .. n : t[e] \in Node
      /\ t[d].children \in Seq(1 .. MaxNodes) /\ c \in 1 .. MaxNodes
      /\ MaxNodes \in Nat
  <2>1. n \in Nat /\ n <= MaxNodes /\ DOMAIN t = 1 .. n /\ \A e \in 1 .. n : t[e] \in Node
    BY SoundTypes
  <2>2. t[d].children \in Seq(1 .. MaxNodes)
    BY SoundTypes
  <2>3. MaxNodes \in Nat
    BY ShellAssumption
  <2> QED
    BY <2>1, <2>2, <2>3
<1>1. /\ u \in Seq(Node) /\ Len(u) = n
      /\ u[d] = [t[d] EXCEPT !.children = Append(@, c)]
      /\ u[c] = [t[c] EXCEPT !.parent = d]
      /\ \A e \in 1 .. n : e # d /\ e # c => u[e] = t[e]
  <2>1. Append(t[d].children, c) \in Seq(1 .. MaxNodes)
    BY <1>0
  <2> DEFINE v == [t EXCEPT ![d].children = Append(@, c)]
  <2>2. u = [e \in 1 .. n |-> IF e = c THEN [t[c] EXCEPT !.parent = d]
                             ELSE IF e = d THEN [t[d] EXCEPT !.children = Append(@, c)]
                             ELSE t[e]]
    <3>1. d # c
      BY <1>0
    <3>2. /\ v = [e \in 1 .. n |-> IF e = d THEN [t[d] EXCEPT !.children = Append(@, c)]
                                   ELSE t[e]]
      BY <1>0
    <3> HIDE DEF v
    <3>3. u = [v EXCEPT ![c].parent = d]
      BY DEF v, Link
    <3>4. u = [e \in 1 .. n |-> IF e = c THEN [v[c] EXCEPT !.parent = d] ELSE v[e]]
      BY <1>0, <3>2, <3>3
    <3>5. v[c] = t[c]
      BY <1>0, <3>1, <3>2
    <3> QED
      BY <1>0, <3>1, <3>2, <3>4, <3>5
  <2>3. [t[c] EXCEPT !.parent = d] \in Node
    <3>1. d \in 0 .. MaxNodes
      BY <1>0
    <3>2. \A x \in Node : [x EXCEPT !.parent = d] \in Node
      BY <3>1 DEF Node
    <3> QED
      BY <1>0, <3>2
  <2>4. [t[d] EXCEPT !.children = Append(@, c)] \in Node
    <3>1. \A x \in Node, q \in Seq(1 .. MaxNodes) : [x EXCEPT !.children = q] \in Node
      BY DEF Node
    <3> QED
      BY <1>0, <2>1, <3>1
  <2> HIDE DEF u
  <2>5. u \in [1 .. n -> Node]
    BY <1>0, <2>2, <2>3, <2>4
  <2>6. u \in Seq(Node) /\ Len(u) = n
    BY <1>0, <2>5
  <2>7. d # c
    BY <1>0
  <2> QED
    BY <1>0, <2>2, <2>6, <2>7
<1> HIDE DEF u
<1>2. /\ \A e \in 1 .. n : e # d => u[e].children = t[e].children
      /\ \A e \in 1 .. n : e # c => u[e].parent = t[e].parent
      /\ \A e \in 1 .. n : u[e].isDir = t[e].isDir
      /\ u[d].children = Append(t[d].children, c)
      /\ u[c].parent = d
  <2>1. \A e \in 1 .. n : DOMAIN t[e] = {"name", "isDir", "parent", "children", "table", "data", "size"}
    BY <1>0 DEF Node
  <2>2. /\ \A x \in Node : [x EXCEPT !.parent = d].children = x.children
        /\ \A x \in Node : [x EXCEPT !.parent = d].isDir = x.isDir
        /\ \A x \in Node : [x EXCEPT !.parent = d].parent = d
    BY DEF Node
  <2> DEFINE q == Append(t[d].children, c)
  <2>3. /\ \A x \in Node : [x EXCEPT !.children = q].children = q
        /\ \A x \in Node : [x EXCEPT !.children = q].isDir = x.isDir
        /\ \A x \in Node : [x EXCEPT !.children = q].parent = x.parent
    BY DEF Node
  <2>4. c # d /\ u[d] = [t[d] EXCEPT !.children = q]
    BY <1>0, <1>1
  <2>5. u[d].children = q /\ u[d].isDir = t[d].isDir /\ u[d].parent = t[d].parent
    BY <1>0, <2>3, <2>4
  <2>6. u[c].children = t[c].children /\ u[c].isDir = t[c].isDir /\ u[c].parent = d
    BY <1>0, <1>1, <2>2
  <2> QED
    BY <1>0, <1>1, <2>4, <2>5, <2>6
<1>3. \A e \in 1 .. n : c \notin ToSet(t[e].children)
  <2>1. \A e \in 1 .. n : c \in ToSet(t[e].children) => t[c].parent = e
    BY DEF Sound, Entry
  <2> QED
    BY <2>1 DEF NULL
<1>4. /\ ToSet(u[d].children) = ToSet(t[d].children) \cup {c}
      /\ IsInjective(u[d].children)
      /\ Len(u[d].children) = Len(t[d].children) + 1
  <2>1. IsInjective(t[d].children)
    BY DEF Sound, Entry
  <2> QED
    BY <1>0, <1>2, <1>3, <2>1, Appended
<1>5. ASSUME NEW e \in 1 .. n
      PROVE  Entry(u, e)
  <2>1. Entry(t, e)
    BY SoundTypes
  <2>2. CASE e = d
    <3>1. Len(t[d].children) < MAX_CHILDREN /\ Len(t[d].children) \in Nat
      BY <1>0, RamFSAssumption DEF Full
    <3>2. d # c /\ u[d].parent = t[d].parent /\ u[d].isDir
      BY <1>0, <1>2
    <3>3. ASSUME NEW x \in ToSet(u[d].children)
          PROVE  x \in 1 .. n /\ u[x].parent = d /\ d < x
      <4>1. CASE x = c
        BY <1>0, <1>2, <4>1
      <4>2. CASE x \in ToSet(t[d].children)
        BY <1>2, <1>3, <2>1, <2>2, <4>2 DEF Entry
      <4> QED
        BY <1>4, <4>1, <4>2
    <3>4. Len(u[d].children) <= MAX_CHILDREN
      BY <1>4, <3>1, RamFSAssumption
    <3>5. u[d].parent < d
      BY <2>1, <2>2, <3>2 DEF Entry
    <3> QED
      BY <1>1, <1>4, <2>2, <3>2, <3>3, <3>4, <3>5 DEF Entry
  <2>3. CASE e # d
    <3>1. u[e].children = t[e].children /\ u[e].isDir = t[e].isDir
      BY <1>2, <2>3
    <3>2. u[e].parent < e
      BY <1>0, <1>2, <2>1 DEF Entry
    <3>3. \A x \in ToSet(u[e].children) : x \in 1 .. n /\ u[x].parent = e /\ e < x
      BY <1>2, <1>3, <2>1, <3>1 DEF Entry
    <3> QED
      BY <1>1, <2>1, <3>1, <3>2, <3>3 DEF Entry
  <2> QED
    BY <2>2, <2>3
<1>6. Sound(u)
  BY <1>0, <1>1, <1>5 DEF Sound
<1>7. Nodes(t) = 1 .. n /\ Nodes(u) = 1 .. n
  BY <1>0, <1>1 DEF Nodes
<1>8. c \notin Tree(t)
  <2>1. ~ Linked(t, c)
    BY DEF Linked, NULL
  <2>2. c # Root
    BY <1>0 DEF Root
  <2> QED
    BY <1>0, <1>7, <2>1, <2>2, TreeUnfolds
<1>9. ASSUME NEW e \in (1 .. n) \ {c}
      PROVE  /\ Linked(t, e) <=> Linked(u, e)
             /\ u[e].parent = t[e].parent
  <2>1. \A x \in 1 .. n : e \in ToSet(u[x].children) <=> e \in ToSet(t[x].children)
    BY <1>2, <1>4
  <2>2. Linked(t, e) <=> \E x \in 1 .. n : e \in ToSet(t[x].children)
    BY ChildIsLinked
  <2>3. Linked(u, e) <=> \E x \in 1 .. n : e \in ToSet(u[x].children)
    BY <1>1, <1>6, ChildIsLinked
  <2> QED
    BY <1>2, <2>1, <2>2, <2>3
<1>10. ASSUME NEW e \in (1 .. n) \ {c}, Linked(u, e)
       PROVE  u[e].parent # c
  <2>1. PICK x \in 1 .. n : e \in ToSet(u[x].children)
    BY <1>1, <1>6, <1>10, ChildIsLinked
  <2>2. u[e].parent = x
    BY <1>1, <1>5, <2>1 DEF Entry
  <2>3. t[c].children = << >> /\ DOMAIN t[c].children = {} /\ c # d
    BY <1>0
  <2>4. u[c].children = t[c].children
    BY <1>0, <1>2, <2>3
  <2>5. ToSet(u[c].children) = {}
    BY <2>3, <2>4 DEF ToSet
  <2> QED
    BY <2>1, <2>2, <2>5
<1> DEFINE X == {c}
<1>11. Tree(u) \ X \subseteq Tree(t)
  <2>1. \A e \in (1 .. n) \ X : Linked(u, e) =>
          e \in 1 .. n /\ Linked(t, e) /\ t[e].parent = u[e].parent /\ u[e].parent \notin X
    BY <1>9, <1>10
  <2> HIDE DEF n, X
  <2>2. n \in Nat
    BY <1>0
  <2> QED
    BY <1>7, <2>1, <2>2, Branches
<1>12. Tree(t) \ X \subseteq Tree(u)
  <2>1. \A e \in (1 .. n) \ X : Linked(t, e) =>
          e \in 1 .. n /\ Linked(u, e) /\ u[e].parent = t[e].parent /\ t[e].parent \notin X
    BY <1>9, <1>10
  <2> HIDE DEF n, X
  <2>2. n \in Nat
    BY <1>0
  <2> QED
    BY <1>7, <2>1, <2>2, Branches
<1>13. c \in Tree(u)
  <2>1. d \in Tree(u)
    BY <1>0, <1>12
  <2>2. Linked(u, c) /\ u[c].parent = d
    <3>1. c \in ToSet(u[d].children) /\ c \in 1 .. Len(u) /\ d \in 1 .. Len(u)
      BY <1>0, <1>1, <1>4
    <3> HIDE DEF n
    <3> QED
      BY <1>6, <3>1, ChildIsLinked
  <2> QED
    BY <1>0, <1>7, <2>1, <2>2, TreeUnfolds
<1> QED
  BY <1>6, <1>8, <1>11, <1>12, <1>13 DEF u

(* Who is gone was made after the child, or is it.                         *)
LEMMA GoneIsLater ==
  ASSUME NEW n \in Nat, NEW t, Nodes(t) = 1 .. n, NEW child \in Nat
  PROVE  \A c \in Gone(t, child) : c >= child
<1> DEFINE S == {c \in 1 .. n : c \in Gone(t, child) => c >= child}
<1>1. ASSUME NEW c \in 1 .. n, 1 .. (c - 1) \subseteq S
      PROVE  c \in S
  <2>1. SUFFICES ASSUME c \in Gone(t, child), c # child
                 PROVE  c >= child
    OBVIOUS
  <2>2. Caught(t, c) /\ t[c].parent \in Gone(t, child)
    BY <2>1, GoneUnfolds
  <2>3. t[c].parent \in 1 .. (c - 1)
    BY <2>2 DEF Caught
  <2>4. t[c].parent >= child
    BY <1>1, <2>2, <2>3
  <2> QED
    BY <2>3, <2>4
<1>2. 1 .. n \subseteq S
  <2>1. \A c \in 1 .. n : 1 .. (c - 1) \subseteq S => c \in S
    BY <1>1
  <2> HIDE DEF S
  <2> QED
    BY <2>1, StrongInduction
<1>3. Gone(t, child) \subseteq 1 .. n
  BY GoneUnfolds
<1> QED
  BY <1>2, <1>3

(* What is left in the children arrays when the set "gone" is taken out.   *)
Without(t, gone) == [e \in Nodes(t) |-> [t[e] EXCEPT !.children = Remaining(@, gone)]]

LEMMA WithoutIsSound ==
  ASSUME NEW t, Sound(t), NEW gone
  PROVE  /\ Sound(Without(t, gone))
         /\ Len(Without(t, gone)) = Len(t)
         /\ \A e \in 1 .. Len(t) :
              /\ Without(t, gone)[e].children = Remaining(t[e].children, gone)
              /\ ToSet(Without(t, gone)[e].children) = ToSet(t[e].children) \ gone
              /\ Without(t, gone)[e].parent = t[e].parent
              /\ Without(t, gone)[e].isDir = t[e].isDir
              /\ Without(t, gone)[e].name = t[e].name
              /\ Without(t, gone)[e].size = t[e].size
              /\ Without(t, gone)[e].data = t[e].data
<1> DEFINE u == Without(t, gone)
           n == Len(t)
<1>0. /\ n \in Nat /\ n <= MaxNodes /\ Nodes(t) = 1 .. n
      /\ \A e \in 1 .. n : t[e] \in Node /\ t[e].children \in Seq(1 .. MaxNodes) /\ Entry(t, e)
  BY SoundTypes
<1>1. \A e \in 1 .. n :
        /\ Remaining(t[e].children, gone) \in Seq(1 .. MaxNodes)
        /\ Len(Remaining(t[e].children, gone)) <= Len(t[e].children)
        /\ ToSet(Remaining(t[e].children, gone)) = ToSet(t[e].children) \ gone
        /\ IsInjective(t[e].children) => IsInjective(Remaining(t[e].children, gone))
  BY <1>0, RemainingKeeps
<1>3. u = [e \in 1 .. n |-> [t[e] EXCEPT !.children = Remaining(t[e].children, gone)]]
  BY <1>0 DEF Without
<1> HIDE DEF u
<1>4. \A e \in 1 .. n : u[e] = [t[e] EXCEPT !.children = Remaining(t[e].children, gone)]
  BY <1>3
<1>5. \A e \in 1 .. n :
        /\ u[e] \in Node
        /\ u[e].children = Remaining(t[e].children, gone)
        /\ u[e].parent = t[e].parent /\ u[e].isDir = t[e].isDir
        /\ u[e].name = t[e].name /\ u[e].size = t[e].size /\ u[e].data = t[e].data
  <2>1. ASSUME NEW e \in 1 .. n
        PROVE  /\ u[e] \in Node
               /\ u[e].children = Remaining(t[e].children, gone)
               /\ u[e].parent = t[e].parent /\ u[e].isDir = t[e].isDir
               /\ u[e].name = t[e].name /\ u[e].size = t[e].size /\ u[e].data = t[e].data
    <3> DEFINE x == t[e]
               y == u[e]
               q == Remaining(t[e].children, gone)
    <3>1. x \in Node /\ q \in Seq(1 .. MaxNodes) /\ y = [x EXCEPT !.children = q]
      BY <1>0, <1>1, <1>4
    <3> HIDE DEF x, y, q
    <3>2. /\ y \in Node /\ y.children = q
          /\ y.parent = x.parent /\ y.isDir = x.isDir
          /\ y.name = x.name /\ y.size = x.size /\ y.data = x.data
      BY <3>1 DEF Node
    <3> QED
      BY <3>2 DEF x, y, q
  <2> QED
    BY <2>1
<1>6. u \in Seq(Node) /\ Len(u) = n
  <2>1. u \in [1 .. n -> Node]
    BY <1>3, <1>5
  <2> QED
    BY <1>0, <2>1
<1>7. ASSUME NEW e \in 1 .. n
      PROVE  Entry(u, e)
  <2>1. Entry(t, e) /\ t[e].children \in Seq(1 .. MaxNodes)
    BY <1>0
  <2>2. \A c \in ToSet(u[e].children) : c \in 1 .. n /\ u[c].parent = e /\ e < c
    BY <1>1, <1>5, <2>1 DEF Entry
  <2>3. Len(u[e].children) <= MAX_CHILDREN
    <3>1. Len(t[e].children) \in Nat /\ Len(u[e].children) \in Nat /\ Len(t[e].children) <= MAX_CHILDREN
      BY <1>1, <1>5, <2>1 DEF Entry
    <3> QED
      BY <1>1, <1>5, <3>1, RamFSAssumption
  <2>4. ~ u[e].isDir => u[e].children = << >>
    <3>1. SUFFICES ASSUME ~ u[e].isDir PROVE u[e].children = << >>
      OBVIOUS
    <3>2. t[e].children = << >>
      BY <1>5, <2>1, <3>1 DEF Entry
    <3>3. Len(t[e].children) = 0
      BY <3>2
    <3>4. u[e].children \in Seq(1 .. MaxNodes) /\ Len(u[e].children) <= 0
      BY <1>1, <1>5, <3>3
    <3> QED
      BY <3>4
  <2> QED
    BY <1>1, <1>5, <1>6, <2>1, <2>2, <2>3, <2>4 DEF Entry
<1>8. Sound(u)
  BY <1>0, <1>6, <1>7 DEF Sound
<1> QED
  BY <1>1, <1>4, <1>5, <1>6, <1>8 DEF u

Below(t, gone) == UNION {ToSet(t[x].children) : x \in gone}

(* fs_remove_child takes the entry in one slot of a directory of the tree  *)
(* out of it.  The arrays of the nodes that are left in the tree lose that *)
(* slot only, and what leaves the tree is the child with all below it.     *)
Pruned(t, d, slot, u) ==
  /\ u = Without(t, Gone(t, t[d].children[slot]))
  /\ Tree(u) \subseteq Tree(t)
  /\ \A e \in Tree(t) : e <= d => e \in Tree(u)
  /\ \A e \in Tree(u) :
       u[e].children = IF e = d THEN RemoveAt(t[d].children, slot) ELSE t[e].children
  /\ Tree(t) \ Tree(u) = {t[d].children[slot]} \cup Below(t, Tree(t) \ Tree(u))

LEMMA RemovalIsSubtree ==
  ASSUME NEW t, Sound(t), NEW d \in Tree(t), t[d].isDir, NEW slot \in DOMAIN t[d].children
  PROVE  Pruned(t, d, slot, RemoveChild(t, d, t[d].children[slot]))
<1> DEFINE child == t[d].children[slot]
           u == RemoveChild(t, d, child)
           left == Tree(t) \ Tree(u)
           G == Gone(t, child)
           n == Len(t)
<1>0. /\ n \in Nat /\ Nodes(t) = 1 .. n
      /\ \A e \in 1 .. n : t[e] \in Node /\ t[e].children \in Seq(1 .. MaxNodes) /\ Entry(t, e)
      /\ d \in 1 .. n /\ Tree(t) \subseteq 1 .. n
  BY SoundTypes, TreeUnfolds
<1>1. /\ child \in ToSet(t[d].children) /\ child \in 1 .. n
      /\ t[child].parent = d /\ d < child /\ Linked(t, child)
      /\ Contains(t[d].children, child)
  <2>1. child \in ToSet(t[d].children)
    BY DEF ToSet, child
  <2>2. child \in 1 .. n /\ t[child].parent = d /\ d < child
    BY <1>0, <2>1 DEF Entry
  <2>3. Linked(t, child)
    BY <1>0, <2>1, <2>2, ChildIsLinked
  <2> QED
    BY <2>1, <2>2, <2>3 DEF Linked
<1>2. u = Without(t, G)
  <2>1. IsDir(t, d)
    BY <1>0 DEF IsDir, NULL
  <2> QED
    BY <1>1, <2>1 DEF RemoveChild, Gone, Without
<1> HIDE DEF u, child, left
<1>3. /\ Sound(u) /\ Len(u) = n /\ Nodes(u) = 1 .. n
      /\ \A e \in 1 .. n :
           /\ u[e].children = Remaining(t[e].children, G)
           /\ ToSet(u[e].children) = ToSet(t[e].children) \ G
           /\ u[e].parent = t[e].parent
  <2>1. Sound(Without(t, G)) /\ Len(Without(t, G)) = n
    BY WithoutIsSound
  <2>2. \A e \in 1 .. n :
           /\ Without(t, G)[e].children = Remaining(t[e].children, G)
           /\ ToSet(Without(t, G)[e].children) = ToSet(t[e].children) \ G
           /\ Without(t, G)[e].parent = t[e].parent
    <3> HIDE DEF G
    <3> QED
      BY WithoutIsSound
  <2>3. Nodes(u) = 1 .. n
    BY <1>2, <2>1, SoundTypes
  <2> QED
    BY <1>2, <2>1, <2>2, <2>3
<1>4. /\ G \subseteq 1 .. n
      /\ \A c \in 1 .. n : c \in G <=> c = child \/ (Caught(t, c) /\ t[c].parent \in G)
      /\ \A c \in G : c >= child
  <2> HIDE DEF n
  <2>1. child \in Nat
    BY <1>0, <1>1
  <2>2. \A c \in G : c >= child
    BY <1>0, <2>1, GoneIsLater
  <2> QED
    BY <1>0, <2>2, GoneUnfolds
<1> HIDE DEF G, n
<1>5. \A c \in 1 .. n : Linked(u, c) <=> Linked(t, c) /\ c \notin G
  <2>1. ASSUME NEW c \in 1 .. n
        PROVE  /\ Linked(u, c) <=> \E x \in 1 .. n : c \in ToSet(u[x].children)
               /\ Linked(t, c) <=> \E x \in 1 .. n : c \in ToSet(t[x].children)
    BY <1>3, ChildIsLinked DEF n
  <2> QED
    BY <1>3, <2>1
<1>6. Tree(u) \subseteq Tree(t)
  <2> DEFINE X == {}
  <2>1. \A c \in (1 .. n) \ X : Linked(u, c) =>
          c \in 1 .. n /\ Linked(t, c) /\ t[c].parent = u[c].parent /\ u[c].parent \notin X
    BY <1>3, <1>5
  <2>2. Tree(u) \ X \subseteq Tree(t)
    <3> HIDE DEF X
    <3> QED
      BY <1>0, <1>3, <2>1, Branches
  <2> QED
    BY <2>2
<1>7. ASSUME NEW e \in Tree(t), e <= d
      PROVE  e \in Tree(u)
  <2> DEFINE X == {c \in 1 .. n : c > d}
  <2>1. \A c \in (1 .. n) \ X : Linked(t, c) =>
          c \in 1 .. n /\ Linked(u, c) /\ u[c].parent = t[c].parent /\ t[c].parent \notin X
    <3>1. \A c \in (1 .. n) \ X : c \notin G
      BY <1>0, <1>1, <1>4
    <3>2. ASSUME NEW c \in (1 .. n) \ X, Linked(t, c)
          PROVE  t[c].parent \notin X
      <4>1. t[c].parent \in 1 .. (c - 1)
        BY <3>2 DEF Linked
      <4> QED
        BY <1>0, <4>1
    <3> HIDE DEF X
    <3> QED
      BY <1>3, <1>5, <3>1, <3>2
  <2>2. Tree(t) \ X \subseteq Tree(u)
    <3> HIDE DEF X
    <3> QED
      BY <1>0, <1>3, <2>1, Branches
  <2>3. e \notin X
    BY <1>0, <1>7
  <2> QED
    BY <2>2, <2>3
<1>8. /\ \A c \in 1 .. n : c \in Tree(t) <=> c = Root \/ (Linked(t, c) /\ t[c].parent \in Tree(t))
      /\ \A c \in 1 .. n : c \in Tree(u) <=> c = Root \/ (Linked(u, c) /\ u[c].parent \in Tree(u))
  BY <1>0, <1>3, TreeUnfolds
<1>9. G \cap Tree(u) = {}
  <2>1. SUFFICES ASSUME NEW c \in G, c \in Tree(u) PROVE FALSE
    OBVIOUS
  <2>2. c # Root /\ c \in 1 .. n
    BY <1>0, <1>1, <1>4, <2>1 DEF Root
  <2> QED
    BY <1>5, <1>8, <2>1, <2>2
<1>10. ASSUME NEW e \in 1 .. n, e \notin G, e # d
       PROVE  ToSet(t[e].children) \cap G = {}
  <2>1. SUFFICES ASSUME NEW c \in ToSet(t[e].children), c \in G PROVE FALSE
    OBVIOUS
  <2>2. c \in 1 .. n /\ t[c].parent = e
    BY <1>0, <2>1 DEF Entry, n
  <2>3. c = child
    BY <1>4, <1>10, <2>1, <2>2
  <2> QED
    BY <1>1, <1>10, <2>2, <2>3
<1>11. d \notin G /\ ToSet(t[d].children) \cap G = {child}
  <2>1. d \notin G
    BY <1>0, <1>1, <1>4
  <2>2. ASSUME NEW c \in ToSet(t[d].children), c \in G
        PROVE  c = child
    <3>1. c \in 1 .. n /\ t[c].parent = d
      BY <1>0, <2>2 DEF Entry, n
    <3> QED
      BY <1>4, <2>1, <2>2, <3>1
  <2>3. child \in G
    BY <1>1, <1>4
  <2> QED
    BY <1>1, <2>1, <2>2, <2>3
<1>12. ASSUME NEW e \in Tree(u)
       PROVE  u[e].children = IF e = d THEN RemoveAt(t[d].children, slot) ELSE t[e].children
  <2>1. e \in 1 .. n /\ e \notin G
    BY <1>0, <1>6, <1>9
  <2>2. CASE e = d
    <3>1. IsInjective(t[d].children)
      BY <1>0 DEF Entry
    <3>2. ToSet(t[d].children) \cap G = {t[d].children[slot]}
      BY <1>11 DEF child
    <3>3. Remaining(t[d].children, G) = RemoveAt(t[d].children, slot)
      BY <1>0, <3>1, <3>2, RemainingOfParent
    <3> QED
      BY <1>3, <2>1, <2>2, <3>3
  <2>3. CASE e # d
    <3>1. Remaining(t[e].children, G) = t[e].children
      BY <1>0, <1>10, <2>1, <2>3, RemainingOfOthers
    <3> QED
      BY <1>3, <2>1, <2>3, <3>1
  <2> QED
    BY <2>2, <2>3
<1>13. left \subseteq {child} \cup Below(t, left)
  <2>1. SUFFICES ASSUME NEW c \in left, c # child
                 PROVE  c \in Below(t, left)
    OBVIOUS
  <2>2. c \in 1 .. n /\ c \in Tree(t) /\ c \notin Tree(u)
    BY <1>0, <2>1 DEF left
  <2>3. Linked(t, c) /\ t[c].parent \in Tree(t)
    BY <1>8, <2>2
  <2> DEFINE p == t[c].parent
  <2>4. p \in 1 .. n /\ c \in ToSet(t[p].children)
    <3>1. PICK x \in 1 .. Len(t) : c \in ToSet(t[x].children)
      BY <2>2, <2>3, ChildIsLinked DEF n
    <3>2. p = x
      BY <2>2, <3>1, ChildIsLinked DEF n
    <3> QED
      BY <3>1, <3>2 DEF n
  <2>5. p \notin Tree(u)
    <3>1. SUFFICES ASSUME p \in Tree(u) PROVE FALSE
      OBVIOUS
    <3>2. c \in G
      BY <1>3, <1>5, <1>8, <2>2, <2>3, <3>1
    <3>3. p \in G
      BY <1>4, <2>1, <2>2, <3>2
    <3> QED
      BY <1>9, <3>1, <3>3
  <2>6. p \in left
    BY <2>3, <2>5 DEF left
  <2> HIDE DEF p
  <2> QED
    BY <2>4, <2>6 DEF Below
<1>14. {child} \cup Below(t, left) \subseteq left
  <2>1. child \in left
    <3>1. child \in Tree(t)
      BY <1>1, <1>8
    <3>2. child \in G
      BY <1>1, <1>4
    <3> QED
      BY <1>9, <3>1, <3>2 DEF left
  <2>2. ASSUME NEW x \in left, NEW c \in ToSet(t[x].children)
        PROVE  c \in left
    <3>1. x \in 1 .. n /\ x \in Tree(t) /\ x \notin Tree(u)
      BY <1>0, <2>2 DEF left
    <3>2. c \in 1 .. n /\ t[c].parent = x /\ x < c
      BY <1>0, <2>2, <3>1 DEF Entry, n
    <3>3. Linked(t, c)
      BY <2>2, <3>1, <3>2, ChildIsLinked DEF n
    <3>4. c \in Tree(t)
      BY <1>8, <3>1, <3>2, <3>3
    <3>5. c # Root
      BY <3>1, <3>2 DEF Root
    <3>6. c \notin Tree(u)
      BY <1>3, <1>8, <3>1, <3>2, <3>5
    <3> QED
      BY <3>4, <3>6 DEF left
  <2> QED
    BY <2>1, <2>2 DEF Below
<1> QED
  BY <1>2, <1>6, <1>7, <1>12, <1>13, <1>14 DEF Pruned, G, u, child, left

-----------------------------------------------------------------------------
(* What the commands do to the tree and the current directory *)

Standing(t, d) == Sound(t) /\ d \in Tree(t) /\ t[d].isDir

LEMMA StandingTypes ==
  ASSUME NEW t, NEW d, Standing(t, d)
  PROVE  /\ Len(t) \in Nat /\ Len(t) # 0 /\ d \in 1 .. Len(t) /\ Nodes(t) = 1 .. Len(t)
         /\ Tree(t) \subseteq 1 .. Len(t) /\ Root \in Tree(t)
         /\ IsDir(t, d)
         /\ t[d].children \in Seq(1 .. MaxNodes)
         /\ DOMAIN t[d].children = 1 .. Len(t[d].children) /\ Len(t[d].children) \in Nat
<1>1. /\ Len(t) \in Nat /\ Nodes(t) = 1 .. Len(t) /\ Tree(t) \subseteq 1 .. Len(t)
      /\ d \in 1 .. Len(t)
  BY SoundTypes, TreeUnfolds DEF Standing
<1>2. t[d].children \in Seq(1 .. MaxNodes)
  BY <1>1, SoundTypes DEF Standing
<1>3. Root \in Tree(t)
  BY <1>1, TreeUnfolds DEF Root
<1> QED
  BY <1>1, <1>2, <1>3 DEF Standing, IsDir, NULL

(* What fs_find_child returns is in a slot of the directory, and it returns *)
(* something if a slot has the name.                                        *)
LEMMA FoundInSlot ==
  ASSUME NEW t, NEW d, Standing(t, d), NEW name
  PROVE  /\ \/ FindChild(t, d, name) = NULL
            \/ \E slot \in DOMAIN t[d].children : FindChild(t, d, name) = t[d].children[slot]
         /\ (\E i \in DOMAIN t[d].children : t[t[d].children[i]].name = name)
               => FindChild(t, d, name) # NULL
<1> DEFINE c == FindChild(t, d, name)
           kids == t[d].children
           match == {i \in DOMAIN kids : t[kids[i]].name = name}
           least == CHOOSE i \in match : \A j \in match : i <= j
<1>0. /\ IsDir(t, d) /\ DOMAIN kids = 1 .. Len(kids) /\ Len(kids) \in Nat
      /\ \A i \in DOMAIN kids : kids[i] \in 1 .. MaxNodes
  <2>1. /\ IsDir(t, d) /\ DOMAIN kids = 1 .. Len(kids) /\ Len(kids) \in Nat
        /\ kids \in Seq(1 .. MaxNodes)
    BY StandingTypes
  <2> HIDE DEF kids
  <2> QED
    BY <2>1, ElementOfSeq
<1>1. match = {} => c = NULL
  BY <1>0 DEF FindChild
<1>2. ASSUME match # {}
      PROVE  c = kids[least] /\ least \in match
  <2>1. c = kids[least]
    BY <1>0, <1>2 DEF FindChild
  <2>2. match \subseteq Nat
    BY <1>0
  <2>3. \E i \in match : \A j \in match : i <= j
    <3> HIDE DEF match
    <3> QED
      BY <1>2, <2>2, Smallest
  <2> QED
    BY <2>1, <2>3
<1>3. ASSUME match # {}
      PROVE  c # NULL /\ \E slot \in DOMAIN kids : c = kids[slot]
  <2>1. c = kids[least] /\ least \in DOMAIN kids /\ t[kids[least]].name = name
    BY <1>2, <1>3
  <2> HIDE DEF c, kids, least
  <2> QED
    BY <1>0, <2>1 DEF NULL
<1> HIDE DEF c, kids
<1> QED
  BY <1>1, <1>3 DEF c, kids

(* A node just made, c, is put into the current directory, or dropped when *)
(* the directory is full.                                                  *)
Gains(t, d, m, c, u) ==
  /\ Standing(u, d) /\ Len(u) = c /\ c \notin Tree(t)
  /\ \A e \in 1 .. Len(t) :
       /\ u[e].name = t[e].name /\ u[e].isDir = t[e].isDir
       /\ u[e].size = t[e].size /\ u[e].data = t[e].data
       /\ e # d => u[e].children = t[e].children
  /\ u[c].name = m[c].name /\ u[c].isDir = m[c].isDir
  /\ u[c].size = m[c].size /\ u[c].data = m[c].data
  /\ u[c].children = << >>
  /\ Full(t, d) => Tree(u) = Tree(t) /\ u[d].children = t[d].children
  /\ ~ Full(t, d) => /\ Tree(u) = Tree(t) \cup {c}
                     /\ u[d].children = Append(t[d].children, c)

LEMMA Adding ==
  ASSUME NEW t, NEW d, NEW m, Standing(t, d), Fresh(t, m)
  PROVE  Gains(t, d, m, Len(t) + 1, AddChild(m, d, Len(t) + 1))
<1> DEFINE n == Len(t)
           c == n + 1
           u == AddChild(m, d, c)
<1>0. /\ n \in Nat /\ n # 0 /\ d \in 1 .. n /\ Tree(t) \subseteq 1 .. n /\ d \in Tree(t)
      /\ t[d].isDir /\ Sound(t)
  BY StandingTypes DEF Standing
<1>1. Sound(m) /\ Tree(m) = Tree(t)
  BY <1>0, FreshIsOutside
<1>2. /\ Len(m) = c /\ \A e \in 1 .. n : m[e] = t[e]
      /\ m[c].parent = NULL /\ m[c].children = << >>
      /\ DOMAIN m = 1 .. c
  BY <1>0, <1>1, SoundTypes DEF Fresh
<1>3. m[d] = t[d] /\ (Full(m, d) <=> Full(t, d)) /\ IsDir(m, d) /\ c \in 1 .. c /\ d \in 1 .. c /\ d < c
  BY <1>0, <1>2 DEF Full, IsDir, NULL
<1>4. c \notin Tree(t)
  BY <1>0
<1>5. CASE Full(t, d)
  <2>1. u = m
    BY <1>3, <1>5 DEF AddChild
  <2> HIDE DEF u
  <2>2. Standing(u, d) /\ Len(u) = c
    BY <1>0, <1>1, <1>2, <1>3, <2>1 DEF Standing
  <2> HIDE DEF n, c
  <2> QED
    BY <1>0, <1>1, <1>2, <1>3, <1>4, <1>5, <2>1, <2>2 DEF Gains, u, n, c
<1>6. CASE ~ Full(t, d)
  <2>1. u = Link(m, d, c)
    BY <1>3, <1>6 DEF AddChild
  <2>2. Sound(u) /\ Tree(u) = Tree(t) \cup {c}
    <3> HIDE DEF n, c
    <3>1. m[d].isDir /\ ~ Full(m, d) /\ d \in Tree(m)
      BY <1>0, <1>1, <1>3, <1>6
    <3> QED
      BY <1>1, <1>2, <1>3, <2>1, <3>1, LinkedIsInside
  <2> DEFINE v == [m EXCEPT ![d].children = Append(@, c)]
  <2>3. /\ v[d] = [t[d] EXCEPT !.children = Append(@, c)]
        /\ \A e \in 1 .. c : e # d => v[e] = m[e]
        /\ DOMAIN v = 1 .. c
    BY <1>2, <1>3
  <2>4. u = [v EXCEPT ![c].parent = d]
    BY <2>1 DEF Link
  <2> HIDE DEF u, v
  <2>5. /\ u[c] = [m[c] EXCEPT !.parent = d]
        /\ u[d] = [t[d] EXCEPT !.children = Append(@, c)]
        /\ \A e \in 1 .. n : e # d => u[e] = t[e]
        /\ DOMAIN u = 1 .. c
    <3>1. c # d /\ \A e \in 1 .. n : e # c /\ e \in 1 .. c
      BY <1>0
    <3> HIDE DEF n, c
    <3> QED
      BY <1>2, <1>3, <2>3, <2>4, <3>1
  <2>6. /\ u[c].name = m[c].name /\ u[c].isDir = m[c].isDir
        /\ u[c].size = m[c].size /\ u[c].data = m[c].data
        /\ u[c].children = << >>
    <3>1. m[c] \in Node
      BY <1>1, <1>2, <1>3, SoundTypes
    <3> QED
      BY <1>2, <2>5, <3>1 DEF Node
  <2>7. /\ u[d].name = t[d].name /\ u[d].isDir = t[d].isDir
        /\ u[d].size = t[d].size /\ u[d].data = t[d].data
        /\ u[d].children = Append(t[d].children, c)
    <3>1. t[d] \in Node
      BY <1>0, SoundTypes
    <3> QED
      BY <2>5, <3>1 DEF Node
  <2>8. Len(u) = c
    BY <1>0, <2>2, <2>5, SoundTypes
  <2>9. Standing(u, d)
    BY <1>0, <2>2, <2>7 DEF Standing
  <2> HIDE DEF n, c
  <2>10. \A e \in 1 .. n :
                  /\ u[e].name = t[e].name /\ u[e].isDir = t[e].isDir
                  /\ u[e].size = t[e].size /\ u[e].data = t[e].data
                  /\ e # d => u[e].children = t[e].children
    BY <2>5, <2>7
  <2> QED
    BY <1>4, <1>6, <2>2, <2>6, <2>7, <2>8, <2>9, <2>10 DEF Gains, u, n, c
<1> QED
  BY <1>5, <1>6

(* cd leads to a directory of the tree. *)
LEMMA UpStands ==
  ASSUME NEW t, NEW d, Standing(t, d)
  PROVE  /\ Standing(t, Up(t, d))
         /\ Up(t, d) = d \/ (Up(t, d) \in Tree(t) /\ d \in ToSet(t[Up(t, d)].children))
<1>0. Len(t) \in Nat /\ d \in 1 .. Len(t) /\ Sound(t) /\ d \in Tree(t) /\ Nodes(t) = 1 .. Len(t)
  BY StandingTypes DEF Standing
<1>1. CASE t[d].parent = NULL
  BY <1>1 DEF Up
<1>2. CASE t[d].parent # NULL
  <2>1. t[d].parent \in Nat /\ t[d].parent < d
    BY <1>0, SoundTypes DEF Entry
  <2>2. d # Root
    BY <1>2, <2>1 DEF Root, NULL
  <2>3. Linked(t, d) /\ t[d].parent \in Tree(t)
    BY <1>0, <2>2, TreeUnfolds
  <2>4. PICK x \in 1 .. Len(t) : d \in ToSet(t[x].children)
    BY <1>0, <2>3, ChildIsLinked
  <2>5. t[d].parent = x
    BY <1>0, <2>4, ChildIsLinked
  <2>6. t[x].children # << >>
    BY <2>4 DEF ToSet
  <2>7. t[x].isDir
    BY <1>0, <2>6, SoundTypes DEF Entry
  <2> QED
    BY <1>0, <1>2, <2>3, <2>4, <2>5, <2>7 DEF Up, Standing
<1> QED
  BY <1>1, <1>2

LEMMA TargetStands ==
  ASSUME NEW t, NEW d, Standing(t, d), NEW name, Enterable(t, FindChild(t, d, name))
  PROVE  /\ Standing(t, FindChild(t, d, name))
         /\ FindChild(t, d, name) \in ToSet(t[d].children)
<1> DEFINE c == FindChild(t, d, name)
<1>0. d \in 1 .. Len(t) /\ Sound(t) /\ d \in Tree(t) /\ Len(t) \in Nat /\ Nodes(t) = 1 .. Len(t)
  BY StandingTypes DEF Standing
<1>1. c # NULL /\ t[c].isDir
  BY DEF Enterable, IsDir
<1>2. c \in ToSet(t[d].children)
  <2>1. PICK slot \in DOMAIN t[d].children : c = t[d].children[slot]
    BY <1>1, FoundInSlot
  <2> QED
    BY <2>1 DEF ToSet
<1> HIDE DEF c
<1>3. c \in 1 .. Len(t)
  BY <1>0, <1>2, SoundTypes DEF Entry
<1>4. Linked(t, c) /\ t[c].parent = d
  BY <1>0, <1>2, <1>3, ChildIsLinked
<1>5. c \in Tree(t)
  BY <1>0, <1>3, <1>4, TreeUnfolds
<1> QED
  BY <1>0, <1>1, <1>2, <1>5 DEF Standing, c

(* rm and rmdir take one entry out of the current directory, or nothing.   *)
SameFields(t, u, n) ==
  \A e \in 1 .. n : /\ u[e].name = t[e].name /\ u[e].isDir = t[e].isDir
                    /\ u[e].size = t[e].size /\ u[e].data = t[e].data

LEMMA Removing ==
  ASSUME NEW t, NEW d, Standing(t, d), NEW slot \in DOMAIN t[d].children, NEW u,
         Pruned(t, d, slot, u)
  PROVE  /\ Standing(u, d) /\ Len(u) = Len(t) /\ Tree(u) \subseteq Tree(t)
         /\ SameFields(t, u, Len(t))
<1> DEFINE gone == Gone(t, t[d].children[slot])
<1>0. Sound(t) /\ d \in Tree(t) /\ t[d].isDir /\ d \in 1 .. Len(t) /\ Len(t) \in Nat
  BY StandingTypes DEF Standing
<1>1. /\ u = Without(t, gone)
      /\ Tree(u) \subseteq Tree(t)
      /\ \A e \in Tree(t) : e <= d => e \in Tree(u)
  BY DEF Pruned
<1> HIDE DEF gone
<1>2. /\ Sound(u) /\ Len(u) = Len(t)
      /\ \A e \in 1 .. Len(t) :
           /\ u[e].name = t[e].name /\ u[e].isDir = t[e].isDir
           /\ u[e].size = t[e].size /\ u[e].data = t[e].data
  BY <1>0, <1>1, WithoutIsSound
<1>3. d \in Tree(u) /\ u[d].isDir
  BY <1>0, <1>1, <1>2
<1> QED
  BY <1>1, <1>2, <1>3 DEF Standing, SameFields

-----------------------------------------------------------------------------
(* The inductive invariant *)

ShellFrame ==
  /\ Standing(nodes, Cwd)
  /\ current_dir \in {NULL, Cwd}
  /\ stray \in BOOLEAN

ShellInv ==
  /\ ShellFrame
  /\ CreatedUnlessFull

LEMMA BootStands ==
  ASSUME NEW m, NEW u, m \in Seq(Node), Len(m) = 2, m[1].isDir,
         m[1].parent = NULL, m[1].children = << >>,
         m[2].parent = NULL, m[2].children = << >>,
         u = AddChild(m, 1, 2)
  PROVE  /\ Standing(u, Root) /\ Tree(u) = {1, 2} /\ Len(u) = 2
         /\ u[1].children = <<2>> /\ u[2].children = << >>
         /\ \A e \in 1 .. 2 : /\ u[e].name = m[e].name /\ u[e].isDir = m[e].isDir
                             /\ u[e].size = m[e].size /\ u[e].data = m[e].data
<1> DEFINE t == <<m[1]>>
<1>1. t \in Seq(Node) /\ Len(t) = 1 /\ t[1] = m[1]
  <2>1. 1 \in 1 .. Len(m)
    OBVIOUS
  <2>2. m[1] \in Node
    BY <2>1, ElementOfSeq
  <2> QED
    BY <2>2
<1> HIDE DEF t
<1>2. Entry(t, 1)
  <2>1. t[1].children = << >> /\ DOMAIN t[1].children = {} /\ Len(t[1].children) = 0
    BY <1>1
  <2>2. ToSet(t[1].children) = {} /\ IsInjective(t[1].children)
    BY <2>1 DEF ToSet, IsInjective
  <2> QED
    BY <1>1, <2>1, <2>2, RamFSAssumption DEF Entry, NULL
<1>3. Sound(t)
  BY <1>1, <1>2, ShellAssumption DEF Sound
<1>4. Tree(t) = {1}
  <2>1. Tree(t) \subseteq 1 .. 1 /\ 1 \in Tree(t)
    BY <1>1, <1>3, SoundTypes, TreeUnfolds DEF Root
  <2> QED
    BY <2>1
<1>5. Standing(t, 1)
  BY <1>1, <1>3, <1>4 DEF Standing
<1>6. Fresh(t, m)
  BY <1>1, ShellAssumption DEF Fresh
<1>7. ~ Full(t, 1)
  BY <1>1, RamFSAssumption DEF Full
<1>8. u = AddChild(m, 1, Len(t) + 1) /\ Len(t) + 1 = 2
  BY <1>1
<1>9. /\ Standing(u, 1) /\ Len(u) = 2 /\ Tree(u) = {1} \cup {2}
      /\ u[1].children = Append(t[1].children, 2) /\ u[2].children = << >>
      /\ u[1].name = t[1].name /\ u[1].isDir = t[1].isDir
      /\ u[1].size = t[1].size /\ u[1].data = t[1].data
      /\ u[2].name = m[2].name /\ u[2].isDir = m[2].isDir
      /\ u[2].size = m[2].size /\ u[2].data = m[2].data
  <2>1. 1 \in 1 .. Len(t)
    BY <1>1
  <2>2. Gains(t, 1, m, 2, u)
    BY <1>5, <1>6, <1>8, Adding
  <2> QED
    BY <1>1, <1>4, <1>7, <2>1, <2>2 DEF Gains
<1>10. u[1].children = <<2>>
  BY <1>1, <1>9
<1>11. \A e \in 1 .. 2 : e = 1 \/ e = 2
  OBVIOUS
<1> QED
  BY <1>1, <1>9, <1>10, <1>11 DEF Root

LEMMA Singles ==
  ASSUME NEW x, NEW y
  PROVE  Append(<< >>, x) = <<x>> /\ Append(<<x>>, y) = <<x, y>>
<1>1. << >> \in Seq({x, y}) /\ <<x>> \in Seq({x, y}) /\ <<x, y>> \in Seq({x, y})
  OBVIOUS
<1>2. /\ Append(<< >>, x) \in Seq({x, y}) /\ Len(Append(<< >>, x)) = 1 /\ Append(<< >>, x)[1] = x
      /\ Len(<<x>>) = 1 /\ <<x>>[1] = x
  BY <1>1
<1>3. /\ Append(<<x>>, y) \in Seq({x, y}) /\ Len(Append(<<x>>, y)) = 2
      /\ Append(<<x>>, y)[1] = x /\ Append(<<x>>, y)[2] = y
      /\ Len(<<x, y>>) = 2 /\ <<x, y>>[1] = x /\ <<x, y>>[2] = y
  BY <1>1
<1>4. Append(<< >>, x) = <<x>>
  <2>1. \A i \in 1 .. Len(Append(<< >>, x)) : Append(<< >>, x)[i] = <<x>>[i]
    BY <1>2
  <2> QED
    BY <1>1, <1>2, <2>1, SeqEqual
<1>5. Append(<<x>>, y) = <<x, y>>
  <2>1. \A i \in 1 .. Len(Append(<<x>>, y)) : Append(<<x>>, y)[i] = <<x, y>>[i]
    BY <1>3
  <2> QED
    BY <1>1, <1>3, <2>1, SeqEqual
<1> QED
  BY <1>4, <1>5

(* A node whose size and buffer were set. *)
Filled(x, size, data) == [[x EXCEPT !.size = size] EXCEPT !.data = data]

LEMMA Filling ==
  ASSUME NEW x \in Node, NEW size \in Nat, NEW data \in Seq(Bytes)
  PROVE  /\ Filled(x, size, data) \in Node
         /\ Filled(x, size, data).name = x.name
         /\ Filled(x, size, data).isDir = x.isDir
         /\ Filled(x, size, data).parent = x.parent
         /\ Filled(x, size, data).children = x.children
         /\ Filled(x, size, data).size = size
         /\ Filled(x, size, data).data = data
<1> DEFINE y == [x EXCEPT !.size = size]
<1>1. /\ y \in Node /\ y.name = x.name /\ y.isDir = x.isDir /\ y.parent = x.parent
      /\ y.children = x.children /\ y.size = size
  BY DEF Node
<1> HIDE DEF y
<1> DEFINE z == [y EXCEPT !.data = data]
<1>2. /\ z \in Node /\ z.name = y.name /\ z.isDir = y.isDir /\ z.parent = y.parent
      /\ z.children = y.children /\ z.size = y.size /\ z.data = data
  BY <1>1 DEF Node
<1>3. Filled(x, size, data) = z
  BY DEF Filled, y
<1> HIDE DEF z
<1> QED
  BY <1>1, <1>2, <1>3

(* A node as fs_create_node makes it. *)
Blank(name, isDir, table) ==
  [name |-> name, isDir |-> isDir, parent |-> NULL, children |-> << >>,
   table |-> table, data |-> << >>, size |-> 0]

LEMMA BlankIsNode ==
  ASSUME NEW name \in Names, NEW isDir \in BOOLEAN, NEW table \in BOOLEAN
  PROVE  /\ Blank(name, isDir, table) \in Node
         /\ Blank(name, isDir, table).name = name
         /\ Blank(name, isDir, table).isDir = isDir
         /\ Blank(name, isDir, table).parent = NULL
         /\ Blank(name, isDir, table).children = << >>
         /\ Blank(name, isDir, table).size = 0
         /\ Blank(name, isDir, table).data = << >>
<1>1. /\ << >> \in Seq(1 .. MaxNodes) /\ << >> \in Seq(Bytes)
      /\ NULL \in 0 .. MaxNodes /\ 0 \in Nat
  BY ShellAssumption DEF NULL
<1> QED
  BY <1>1 DEF Blank, Node

(* The tree kernel_main leaves: the root and README. *)
LEMMA BootTree ==
  ASSUME Init
  PROVE  /\ Standing(nodes, Root) /\ Tree(nodes) = {1, 2} /\ Len(nodes) = 2
         /\ nodes[1].isDir /\ nodes[1].children = <<2>> /\ nodes[2].children = << >>
         /\ nodes[1].size = 0 /\ nodes[1].data = << >>
         /\ nodes[2].size = 1 /\ Len(nodes[2].data) = 1 /\ nodes[2].data[1] = Zero
<1> DEFINE byte == [i \in 1 .. 1 |-> Zero]
           root == Blank(Stored[RootName], TRUE, TRUE)
           empty == Blank(Stored[Readme], FALSE, FALSE)
           readme == Filled(empty, 1, byte)
           m == <<root, readme>>
<1>1. nodes = AddChild(m, Root, 2)
  <2>1. Create(<< >>, RootName, TRUE, TRUE) = <<root>>
    <3>1. Create(<< >>, RootName, TRUE, TRUE) = Append(<< >>, root)
      BY DEF Create, Blank
    <3> HIDE DEF root
    <3> QED
      BY <3>1, Singles
  <2>2. Create(<<root>>, Readme, FALSE, FALSE) = <<root, empty>>
    <3>1. Create(<<root>>, Readme, FALSE, FALSE) = Append(<<root>>, empty)
      BY DEF Create, Blank
    <3> HIDE DEF root, empty
    <3> QED
      BY <3>1, Singles
  <2>3. [<<root, empty>> EXCEPT ![2].size = 1, ![2].data = [i \in 1 .. 1 |-> Zero]] = m
    <3> HIDE DEF root, empty, byte
    <3> DEFINE v == [<<root, empty>> EXCEPT ![2].size = 1]
    <3>2. v = <<root, [empty EXCEPT !.size = 1]>>
      OBVIOUS
    <3> HIDE DEF v
    <3>3. [v EXCEPT ![2].data = byte] = m
      BY <3>2 DEF Filled
    <3> QED
      BY <3>3 DEF v, byte
  <2> HIDE DEF root, empty, m
  <2> QED
    BY <2>1, <2>2, <2>3 DEF Init, Booted
<1>2. byte \in Seq(Bytes) /\ Len(byte) = 1 /\ byte[1] = Zero
  <2>1. byte \in [1 .. 1 -> Bytes]
    BY DEF Bytes, Zero
  <2>2. byte = <<Zero>>
    OBVIOUS
  <2>3. Len(<<Zero>>) = 1 /\ <<Zero>>[1] = Zero
    OBVIOUS
  <2> HIDE DEF byte
  <2> QED
    BY <2>1, <2>2, <2>3
<1> HIDE DEF byte
<1>3. /\ root \in Node /\ root.isDir /\ root.parent = NULL /\ root.children = << >>
      /\ root.size = 0 /\ root.data = << >>
      /\ empty \in Node /\ empty.parent = NULL /\ empty.children = << >>
  <2>1. Stored[RootName] \in Names /\ Stored[Readme] \in Names
    BY RamFSAssumption, ShellAssumption
  <2> QED
    BY <2>1, BlankIsNode
<1> HIDE DEF root, empty
<1>4. /\ readme \in Node /\ readme.parent = NULL /\ readme.children = << >>
      /\ readme.size = 1 /\ readme.data = byte
  <2>1. 1 \in Nat /\ empty \in Node /\ byte \in Seq(Bytes)
    BY <1>2, <1>3
  <2> QED
    BY <1>3, <2>1, Filling
<1> HIDE DEF readme
<1>5. m \in Seq(Node) /\ Len(m) = 2 /\ m[1] = root /\ m[2] = readme
  BY <1>3, <1>4
<1> HIDE DEF m
<1>6. /\ Standing(nodes, Root) /\ Tree(nodes) = {1, 2} /\ Len(nodes) = 2
      /\ nodes[1].children = <<2>> /\ nodes[2].children = << >>
      /\ \A e \in 1 .. 2 : nodes[e].isDir = m[e].isDir /\ nodes[e].size = m[e].size
                           /\ nodes[e].data = m[e].data
  BY <1>1, <1>3, <1>4, <1>5, BootStands DEF Root
<1>7. 1 \in 1 .. 2 /\ 2 \in 1 .. 2
  OBVIOUS
<1> QED
  BY <1>2, <1>3, <1>4, <1>5, <1>6, <1>7

LEMMA InitShellInv == Init => ShellInv
<1> SUFFICES ASSUME Init PROVE ShellInv
  OBVIOUS
<1>1. Cwd = Root /\ current_dir = NULL /\ stray = FALSE /\ created = NoArg
  BY DEF Init, Cwd
<1> QED
  BY <1>1, BootTree DEF ShellInv, ShellFrame, CreatedUnlessFull

(* The node touch makes, before it is put into a directory. *)
TouchMakes(t, d, a, buffer, m) ==
  /\ Fresh(t, m) /\ Touched(t, d, a, buffer) = AddChild(m, d, Len(t) + 1)
  /\ m[Len(t) + 1].name = Stored[a] /\ m[Len(t) + 1].isDir = FALSE
  /\ m[Len(t) + 1].size = FileSize
  /\ buffer => /\ Len(m[Len(t) + 1].data) = FileSize
               /\ \A i \in 1 .. FileSize : m[Len(t) + 1].data[i] = Zero
  /\ ~ buffer => m[Len(t) + 1].data = << >>

LEMMA TouchedIsFresh ==
  ASSUME NEW t, NEW d, Standing(t, d), Len(t) < MaxNodes, NEW a \in Names, NEW buffer \in BOOLEAN
  PROVE  \E m : TouchMakes(t, d, a, buffer, m)
<1> DEFINE n == Len(t)
           c == n + 1
           bytes == IF buffer THEN [i \in 1 .. FileSize |-> Zero] ELSE << >>
           new == Blank(Stored[a], FALSE, FALSE)
           file == Filled(new, FileSize, bytes)
           made == Append(t, new)
           m == [made EXCEPT ![c].size = FileSize, ![c].data = bytes]
<1>0. n \in Nat /\ t \in Seq(Node) /\ FileSize \in Nat /\ c <= MaxNodes
  BY StandingTypes, ShellAssumption DEF Standing, Sound
<1>1. /\ bytes \in Seq(Bytes)
      /\ buffer => Len(bytes) = FileSize /\ \A i \in 1 .. FileSize : bytes[i] = Zero
      /\ (~ buffer => bytes = << >>)
  <2>1. [i \in 1 .. FileSize |-> Zero] \in [1 .. FileSize -> Bytes]
    BY DEF Bytes, Zero
  <2>2. [i \in 1 .. FileSize |-> Zero] \in Seq(Bytes)
    BY <1>0, <2>1
  <2>3. Len([i \in 1 .. FileSize |-> Zero]) = FileSize
    BY <1>0
  <2>4. << >> \in Seq(Bytes)
    OBVIOUS
  <2>5. CASE buffer
    BY <2>2, <2>3, <2>5
  <2>6. CASE ~ buffer
    BY <2>4, <2>6
  <2> QED
    BY <2>5, <2>6
<1> HIDE DEF bytes
<1>2. new \in Node /\ new.parent = NULL /\ new.children = << >> /\ new.name = Stored[a] /\ new.isDir = FALSE
  BY BlankIsNode, RamFSAssumption
<1>3. Create(t, a, FALSE, FALSE) = made
  BY DEF Create, Blank
<1> HIDE DEF new
<1>4. /\ file \in Node /\ file.parent = NULL /\ file.children = << >>
      /\ file.name = Stored[a] /\ file.isDir = FALSE /\ file.size = FileSize /\ file.data = bytes
  <2>1. FileSize \in Nat /\ new \in Node /\ bytes \in Seq(Bytes)
    BY <1>0, <1>1, <1>2
  <2> QED
    BY <1>2, <2>1, Filling
<1>5. /\ made \in Seq(Node) /\ Len(made) = c /\ DOMAIN made = 1 .. c
      /\ made[c] = new /\ \A e \in 1 .. n : made[e] = t[e]
  BY <1>0, <1>2
<1>6. Touched(t, d, a, buffer) = AddChild(m, d, c)
  <2> HIDE DEF made
  <2> QED
    BY <1>3 DEF Touched, bytes
<1>7. DOMAIN m = 1 .. c /\ m[c] = file /\ \A e \in 1 .. n : m[e] = t[e]
  <2> DEFINE v == [made EXCEPT ![c].size = FileSize]
  <2>2. m = [v EXCEPT ![c].data = bytes] /\ c \in 1 .. c /\ \A e \in 1 .. n : e # c /\ e \in 1 .. c
    BY <1>0
  <2> HIDE DEF made, m, file, n, c
  <2>3. /\ DOMAIN v = 1 .. c /\ v[c] = [new EXCEPT !.size = FileSize]
        /\ \A e \in 1 .. n : v[e] = t[e]
    BY <1>5, <2>2
  <2> HIDE DEF v
  <2>4. /\ DOMAIN m = 1 .. c /\ m[c] = [v[c] EXCEPT !.data = bytes]
        /\ \A e \in 1 .. n : m[e] = t[e]
    BY <2>2, <2>3
  <2> QED
    BY <2>3, <2>4 DEF file, Filled
<1> HIDE DEF file
<1>8. m \in Seq(Node) /\ Len(m) = c
  <2>1. \A e \in 1 .. c : e \in 1 .. n \/ e = c
    BY <1>0
  <2>2. \A e \in 1 .. c : m[e] \in Node
    <3> HIDE DEF m, n, c
    <3> QED
      BY <1>0, <1>4, <1>7, <2>1 DEF n
  <2>3. m \in [1 .. c -> Node]
    <3>1. m = [e \in 1 .. c |-> m[e]]
      <4> HIDE DEF made
      <4> QED
        BY <1>5
    <3> HIDE DEF m
    <3> QED
      BY <2>2, <3>1
  <2> HIDE DEF m
  <2> QED
    BY <1>0, <2>3
<1> HIDE DEF made, m
<1>9. Fresh(t, m)
  <2> HIDE DEF n
  <2> QED
    BY <1>0, <1>4, <1>7, <1>8 DEF Fresh, n
<1> HIDE DEF n
<1> QED
  BY <1>1, <1>4, <1>6, <1>7, <1>9 DEF n, TouchMakes

(* The node mkdir makes. *)
MkdirMakes(t, d, a, table, m) ==
  /\ Fresh(t, m) /\ MadeDir(t, d, a, table) = AddChild(m, d, Len(t) + 1)
  /\ m[Len(t) + 1].name = Stored[a] /\ m[Len(t) + 1].isDir = TRUE
  /\ m[Len(t) + 1].size = 0 /\ m[Len(t) + 1].data = << >>

LEMMA MadeDirIsFresh ==
  ASSUME NEW t, NEW d, Standing(t, d), Len(t) < MaxNodes, NEW a \in Names, NEW table \in BOOLEAN
  PROVE  \E m : MkdirMakes(t, d, a, table, m)
<1> DEFINE n == Len(t)
           c == n + 1
           new == [name |-> Stored[a], isDir |-> TRUE, parent |-> NULL,
                   children |-> << >>, table |-> table, data |-> << >>, size |-> 0]
           m == Append(t, new)
<1>0. n \in Nat /\ t \in Seq(Node) /\ c <= MaxNodes
  BY StandingTypes, ShellAssumption DEF Standing, Sound
<1>1. new \in Node
  <2>1. /\ Stored[a] \in Names /\ << >> \in Seq(1 .. MaxNodes) /\ << >> \in Seq(Bytes)
        /\ NULL \in 0 .. MaxNodes
    BY RamFSAssumption, ShellAssumption DEF NULL
  <2> QED
    BY <2>1 DEF Node
<1>2. Create(t, a, TRUE, table) = m
  BY DEF Create
<1>3. /\ new.parent = NULL /\ new.children = << >> /\ new.name = Stored[a]
      /\ new.isDir = TRUE /\ new.size = 0 /\ new.data = << >>
  OBVIOUS
<1> HIDE DEF new
<1>4. /\ m \in Seq(Node) /\ Len(m) = c /\ m[c] = new /\ \A e \in 1 .. n : m[e] = t[e]
  BY <1>0, <1>1
<1> HIDE DEF m, n
<1>5. Fresh(t, m)
  BY <1>0, <1>3, <1>4 DEF Fresh, n
<1>6. MadeDir(t, d, a, table) = AddChild(m, d, c)
  BY <1>2 DEF MadeDir, n
<1> QED
  BY <1>3, <1>4, <1>5, <1>6 DEF n, MkdirMakes

(* Every command keeps the invariant. *)

LEMMA ShellInvTypes ==
  ASSUME ShellFrame
  PROVE  /\ Len(nodes) \in Nat /\ Tree(nodes) \subseteq 1 .. Len(nodes)
         /\ Cwd \in 1 .. Len(nodes) /\ Cwd # NULL
<1> QED
  BY StandingTypes DEF ShellInv, ShellFrame, NULL

LEMMA InvIsFrame == ShellInv => ShellFrame
  BY DEF ShellInv

(* The tree is untouched. *)
LEMMA SameTreeKeeps ==
  ASSUME ShellInv, UNCHANGED <<nodes, stray>>, current_dir' = Cwd, created' = NoArg
  PROVE  ShellInv'
<1>1. Cwd # NULL /\ Cwd' = Cwd
  BY InvIsFrame, ShellInvTypes DEF Cwd
<1> QED
  BY <1>1 DEF ShellInv, ShellFrame, CreatedUnlessFull

(* A node is made and put into the current directory. *)
LEMMA GrownKeeps ==
  ASSUME ShellInv, ~ stray, stray' \in BOOLEAN, current_dir' = Cwd,
         NEW m, Gains(nodes, Cwd, m, Len(nodes) + 1, nodes'),
         NEW a \in Names, created' = a, m[Len(nodes) + 1].name = Stored[a]
  PROVE  ShellInv'
<1> DEFINE c == Len(nodes) + 1
           d == Cwd
<1>0. /\ Len(nodes) \in Nat /\ Tree(nodes) \subseteq 1 .. Len(nodes)
      /\ d \in 1 .. Len(nodes) /\ d # NULL /\ d \in Tree(nodes)
      /\ c # NULL /\ nodes[d].isDir
  BY InvIsFrame, ShellInvTypes DEF ShellInv, ShellFrame, Standing, NULL
<1>1. Cwd' = d /\ current_dir' = d
  BY <1>0 DEF Cwd
<1> HIDE DEF c, d
<1>2. Gains(nodes, d, m, c, nodes')
  BY DEF c, d
<1>3. Standing(nodes', d)
  BY <1>2 DEF Gains
<1>4. CASE Full(nodes, d)
  <2>1. nodes'[d].children = nodes[d].children
    BY <1>2, <1>4 DEF Gains
  <2>2. Len(nodes[d].children) \in Nat /\ Len(nodes[d].children) >= MAX_CHILDREN
    BY <1>0, <1>4, StandingTypes DEF ShellInv, ShellFrame, Full, d
  <2>3. Len(nodes'[d].children) <= MAX_CHILDREN
    <3>1. d \in 1 .. Len(nodes')
      BY <1>3, StandingTypes
    <3> QED
      BY <1>3, <3>1, SoundTypes DEF Standing, Entry
  <2>4. Len(nodes'[d].children) = MAX_CHILDREN
    BY <2>1, <2>2, <2>3, RamFSAssumption
  <2> QED
    BY <1>0, <1>1, <1>3, <2>4 DEF ShellInv, ShellFrame, CreatedUnlessFull
<1>5. CASE ~ Full(nodes, d)
  <2>1. nodes'[d].children = Append(nodes[d].children, c) /\ nodes'[c].name = Stored[a]
    BY <1>2, <1>5 DEF Gains, c
  <2> DEFINE q == nodes[d].children
             kids == nodes'[d].children
  <2>2. q \in Seq(1 .. MaxNodes)
    BY StandingTypes DEF ShellInv, ShellFrame, d
  <2>3. Len(q) + 1 \in DOMAIN kids /\ kids[Len(q) + 1] = c
    <3> HIDE DEF q
    <3> QED
      BY <2>1, <2>2 DEF q
  <2>4. \E i \in DOMAIN kids : nodes'[kids[i]].name = Stored[a]
    BY <2>1, <2>3
  <2>5. FindChild(nodes', d, Stored[a]) # NULL
    BY <1>3, <2>4, FoundInSlot
  <2> QED
    BY <1>0, <1>1, <1>3, <2>5 DEF ShellInv, ShellFrame, CreatedUnlessFull
<1> QED
  BY <1>4, <1>5

(* What a command can do: nothing to the tree; enter another directory of  *)
(* it; make a node and put it into the current directory; take out what is *)
(* in one slot of the current directory.                                   *)
Still == UNCHANGED <<nodes, stray>> /\ current_dir' = Cwd /\ created' = NoArg

Moved ==
  /\ UNCHANGED <<nodes, stray>> /\ created' = NoArg
  /\ Standing(nodes, current_dir')
  /\ \/ current_dir' = Cwd
     \/ Cwd \in ToSet(nodes[current_dir'].children)
     \/ current_dir' \in ToSet(nodes[Cwd].children)

Made(m, a) ==
  LET c == Len(nodes) + 1
  IN  /\ Gains(nodes, Cwd, m, c, nodes')
      /\ m[c].name = Stored[a] /\ m[c].isDir \in BOOLEAN
      /\ \/ stray'
         \/ /\ m[c].size <= Len(m[c].data)
            /\ \A i \in 1 .. m[c].size : m[c].data[i] = Zero
      /\ ~ stray /\ stray' \in BOOLEAN
      /\ current_dir' = Cwd /\ created' = a

Taken(slot) ==
  /\ Pruned(nodes, Cwd, slot, nodes')
  /\ UNCHANGED stray /\ current_dir' = Cwd /\ created' = NoArg

LEMMA TouchCases ==
  ASSUME ShellFrame, NEW a \in Args, cmd_touch(a)
  PROVE  Still \/ \E m : \E w \in Names : Made(m, w)
<1>1. a # NoArg => a \in Names
  BY ShellAssumption DEF Args
<1>2. CASE Usage(a)
  BY <1>2 DEF cmd_touch, Running, Usage, Still
<1>3. CASE ~ Usage(a)
  <2>1. /\ ~ stray /\ current_dir' = Cwd /\ a \in Names
        /\ \E ok \in NodeOutcomes, buffer \in Outcomes :
             IF ok
               THEN /\ nodes' = Touched(nodes, Cwd, a, buffer)
                    /\ stray' = (\/ MemsetIsStray(buffer)
                                 \/ AddIsStray(nodes, Cwd, Len(nodes) + 1))
                    /\ created' = a
               ELSE created' = NoArg /\ UNCHANGED <<nodes, stray>>
    BY <1>1, <1>3 DEF cmd_touch, Running
  <2>2. PICK ok \in NodeOutcomes, buffer \in Outcomes :
             IF ok
               THEN /\ nodes' = Touched(nodes, Cwd, a, buffer)
                    /\ stray' = (\/ MemsetIsStray(buffer)
                                 \/ AddIsStray(nodes, Cwd, Len(nodes) + 1))
                    /\ created' = a
               ELSE created' = NoArg /\ UNCHANGED <<nodes, stray>>
    BY <2>1
  <2>3. /\ buffer \in BOOLEAN /\ ok \in BOOLEAN
        /\ ok => Len(nodes) < MaxNodes
    BY DEF Outcomes, NodeOutcomes
  <2>4. CASE ~ ok
    BY <2>1, <2>2, <2>4 DEF Still
  <2>5. CASE ok
    <3> DEFINE c == Len(nodes) + 1
    <3>1. Standing(nodes, Cwd) /\ Len(nodes) < MaxNodes
      BY <2>3, <2>5 DEF ShellInv, ShellFrame
    <3>2. PICK m : TouchMakes(nodes, Cwd, a, buffer, m)
      BY <2>1, <2>3, <3>1, TouchedIsFresh
    <3>3. Gains(nodes, Cwd, m, Len(nodes) + 1, nodes')
      BY <2>2, <2>5, <3>1, <3>2, Adding DEF TouchMakes
    <3> HIDE DEF c
    <3>4. stray' \in BOOLEAN /\ (MemsetIsStray(buffer) => stray')
      BY <2>2, <2>5
    <3>5. \/ stray'
          \/ /\ m[c].size <= Len(m[c].data)
             /\ \A i \in 1 .. m[c].size : m[c].data[i] = Zero
      <4>1. CASE buffer
        BY <3>2, <4>1, ShellAssumption DEF c, TouchMakes
      <4>2. CASE ~ buffer /\ FileSize = 0
        <5>1. m[c].size = 0 /\ m[c].data = << >> /\ Len(<< >>) = 0
          BY <3>2, <4>2 DEF c, TouchMakes
        <5> QED
          BY <5>1
      <4>3. CASE ~ buffer /\ FileSize > 0
        BY <3>4, <4>3 DEF MemsetIsStray
      <4> QED
        BY <4>1, <4>2, <4>3, ShellAssumption
    <3>6. Made(m, a)
      BY <2>1, <2>2, <2>5, <3>2, <3>3, <3>4, <3>5 DEF Made, c, TouchMakes
    <3> QED
      BY <2>1, <3>6
  <2> QED
    BY <2>3, <2>4, <2>5
<1> QED
  BY <1>2, <1>3

LEMMA MkdirCases ==
  ASSUME ShellFrame, NEW a \in Args, cmd_mkdir(a)
  PROVE  Still \/ \E m : \E w \in Names : Made(m, w)
<1>1. a # NoArg => a \in Names
  BY ShellAssumption DEF Args
<1>2. CASE Usage(a)
  BY <1>2 DEF cmd_mkdir, Running, Usage, Still
<1>3. CASE ~ Usage(a)
  <2>1. /\ ~ stray /\ current_dir' = Cwd /\ a \in Names
        /\ \E ok \in NodeOutcomes, table \in Outcomes :
             IF ok
               THEN /\ nodes' = MadeDir(nodes, Cwd, a, table)
                    /\ stray' = AddIsStray(nodes, Cwd, Len(nodes) + 1)
                    /\ created' = a
               ELSE created' = NoArg /\ UNCHANGED <<nodes, stray>>
    BY <1>1, <1>3 DEF cmd_mkdir, Running
  <2>2. PICK ok \in NodeOutcomes, table \in Outcomes :
             IF ok
               THEN /\ nodes' = MadeDir(nodes, Cwd, a, table)
                    /\ stray' = AddIsStray(nodes, Cwd, Len(nodes) + 1)
                    /\ created' = a
               ELSE created' = NoArg /\ UNCHANGED <<nodes, stray>>
    BY <2>1
  <2>3. /\ table \in BOOLEAN /\ ok \in BOOLEAN
        /\ ok => Len(nodes) < MaxNodes
    BY DEF Outcomes, NodeOutcomes
  <2>4. CASE ~ ok
    BY <2>1, <2>2, <2>4 DEF Still
  <2>5. CASE ok
    <3> DEFINE c == Len(nodes) + 1
    <3>1. Standing(nodes, Cwd) /\ Len(nodes) < MaxNodes
      BY <2>3, <2>5 DEF ShellInv, ShellFrame
    <3>2. PICK m : MkdirMakes(nodes, Cwd, a, table, m)
      BY <2>1, <2>3, <3>1, MadeDirIsFresh
    <3>3. Gains(nodes, Cwd, m, Len(nodes) + 1, nodes')
      BY <2>2, <2>5, <3>1, <3>2, Adding DEF MkdirMakes
    <3> HIDE DEF c
    <3>4. stray' \in BOOLEAN
      BY <2>2, <2>5 DEF AddIsStray
    <3>5. m[c].size <= Len(m[c].data) /\ \A i \in 1 .. m[c].size : m[c].data[i] = Zero
      <4>1. m[c].size = 0 /\ m[c].data = << >> /\ Len(<< >>) = 0
        BY <3>2 DEF c, MkdirMakes
      <4> QED
        BY <4>1
    <3>6. Made(m, a)
      BY <2>1, <2>2, <2>5, <3>2, <3>3, <3>4, <3>5 DEF Made, c, MkdirMakes
    <3> QED
      BY <2>1, <3>6
  <2> QED
    BY <2>3, <2>4, <2>5
<1> QED
  BY <1>2, <1>3

LEMMA CdCases ==
  ASSUME ShellFrame, NEW a \in Args, cmd_cd(a)
  PROVE  Still \/ Moved
<1>1. UNCHANGED <<nodes, stray>> /\ created' = NoArg /\ Standing(nodes, Cwd)
  BY DEF cmd_cd, ShellInv, ShellFrame
<1>2. CASE current_dir' = Cwd
  BY <1>1, <1>2 DEF Still
<1>3. CASE a = DotDot /\ current_dir' = Up(nodes, Cwd)
  BY <1>1, <1>3, UpStands DEF Moved
<1>4. CASE /\ Enterable(nodes, FindChild(nodes, Cwd, a))
           /\ current_dir' = FindChild(nodes, Cwd, a)
  BY <1>1, <1>4, TargetStands DEF Moved
<1> QED
  BY <1>2, <1>3, <1>4 DEF cmd_cd

LEMMA RemoveCases ==
  ASSUME ShellFrame, Running, NEW a, NEW wantDir, RemoveEntry(a, wantDir)
  PROVE  Still \/ \E slot \in DOMAIN nodes[Cwd].children : Taken(slot)
<1> DEFINE c == FindChild(nodes, Cwd, a)
<1>1. Standing(nodes, Cwd) /\ current_dir' = Cwd /\ created' = NoArg /\ UNCHANGED stray
  BY DEF ShellInv, ShellFrame, Running, RemoveEntry
<1>2. CASE nodes' = nodes
  BY <1>1, <1>2 DEF Still
<1>3. CASE c # NULL /\ nodes' = RemoveChild(nodes, Cwd, c)
  <2>1. PICK slot \in DOMAIN nodes[Cwd].children : c = nodes[Cwd].children[slot]
    BY <1>1, <1>3, FoundInSlot
  <2>2. Sound(nodes) /\ Cwd \in Tree(nodes) /\ nodes[Cwd].isDir
    BY <1>1 DEF Standing
  <2>3. Pruned(nodes, Cwd, slot, RemoveChild(nodes, Cwd, nodes[Cwd].children[slot]))
    BY <2>2, RemovalIsSubtree
  <2>4. nodes' = RemoveChild(nodes, Cwd, nodes[Cwd].children[slot])
    BY <1>3, <2>1
  <2>5. Taken(slot)
    BY <1>1, <2>3, <2>4 DEF Taken
  <2> QED
    BY <2>5
<1> QED
  BY <1>2, <1>3 DEF RemoveEntry

LEMMA CommandCases ==
  ASSUME ShellFrame, Next
  PROVE  \/ Still
         \/ Moved
         \/ \E m : \E a \in Names : Made(m, a)
         \/ \E slot \in DOMAIN nodes[Cwd].children : Taken(slot)
<1>1. CASE cmd_ls
  BY <1>1 DEF cmd_ls, Running, Still
<1>2. ASSUME NEW a \in Args, cmd_cat(a)
      PROVE  Still
  BY <1>2 DEF cmd_cat, Running, Still
<1>3. ASSUME NEW a \in Args, cmd_touch(a) \/ cmd_mkdir(a)
      PROVE  Still \/ \E m : \E w \in Names : Made(m, w)
  BY <1>3, TouchCases, MkdirCases
<1>4. ASSUME NEW a \in Args, cmd_cd(a)
      PROVE  Still \/ Moved
  BY <1>4, CdCases
<1>5. ASSUME NEW a \in Args, cmd_rm(a) \/ cmd_rmdir(a)
      PROVE  Still \/ \E slot \in DOMAIN nodes[Cwd].children : Taken(slot)
  <2>1. CASE Running /\ Usage(a)
    BY <2>1 DEF Running, Usage, Still
  <2>2. CASE Running /\ (RemoveEntry(a, FALSE) \/ RemoveEntry(a, TRUE))
    BY <2>2, RemoveCases
  <2> QED
    BY <1>5, <2>1, <2>2 DEF cmd_rm, cmd_rmdir
<1> QED
  BY <1>1, <1>2, <1>3, <1>4, <1>5 DEF Next

LEMMA FrameKept ==
  ASSUME ShellFrame, Next
  PROVE  ShellFrame'
<1>1. CASE Still
  <2>1. Cwd' = Cwd
    BY <1>1, ShellInvTypes DEF Still, Cwd
  <2> QED
    BY <1>1, <2>1 DEF Still, ShellFrame
<1>2. CASE Moved
  <2>1. Cwd' = current_dir'
    BY <1>2, StandingTypes DEF Moved, Cwd, NULL
  <2> QED
    BY <1>2, <2>1 DEF Moved, ShellFrame
<1>3. ASSUME NEW m, NEW a \in Names, Made(m, a)
      PROVE  ShellFrame'
  <2>1. Cwd' = Cwd
    BY <1>3, ShellInvTypes DEF Made, Cwd
  <2> QED
    BY <1>3, <2>1 DEF Made, Gains, ShellFrame
<1>4. ASSUME NEW slot \in DOMAIN nodes[Cwd].children, Taken(slot)
      PROVE  ShellFrame'
  <2>1. Cwd' = Cwd
    BY <1>4, ShellInvTypes DEF Taken, Cwd
  <2>2. Standing(nodes', Cwd)
    BY <1>4, Removing DEF Taken, ShellFrame
  <2> QED
    BY <1>4, <2>1, <2>2 DEF Taken, ShellFrame
<1> QED
  BY <1>1, <1>2, <1>3, <1>4, CommandCases

LEMMA MovedKeeps ==
  ASSUME ShellInv, Moved
  PROVE  ShellInv'
<1>1. current_dir' # NULL /\ Cwd' = current_dir'
  BY StandingTypes DEF Moved, Cwd, NULL
<1> QED
  BY <1>1 DEF ShellInv, ShellFrame, CreatedUnlessFull, Moved

LEMMA TakenKeeps ==
  ASSUME ShellInv, NEW slot \in DOMAIN nodes[Cwd].children, Taken(slot)
  PROVE  ShellInv'
<1>1. Cwd # NULL /\ Cwd' = Cwd /\ current_dir' = Cwd
  BY InvIsFrame, ShellInvTypes DEF Cwd, Taken
<1>2. /\ Standing(nodes', Cwd) /\ Tree(nodes') \subseteq Tree(nodes)
      /\ SameFields(nodes, nodes', Len(nodes))
  BY Removing DEF ShellInv, ShellFrame, Taken
<1> QED
  BY <1>1, <1>2 DEF ShellInv, ShellFrame, CreatedUnlessFull, Taken

LEMMA NextKeepsShellInv == ShellInv /\ [Next]_shellVars => ShellInv'
<1> SUFFICES ASSUME ShellInv, [Next]_shellVars PROVE ShellInv'
  OBVIOUS
<1>1. CASE UNCHANGED shellVars
  BY <1>1 DEF shellVars, ShellInv, ShellFrame, Cwd, CreatedUnlessFull
<1>2. CASE Still
  BY <1>2, SameTreeKeeps DEF Still
<1>3. CASE Moved
  BY <1>3, MovedKeeps
<1>4. ASSUME NEW m, NEW a \in Names, Made(m, a)
      PROVE  ShellInv'
  BY <1>4, GrownKeeps DEF Made
<1>5. ASSUME NEW slot \in DOMAIN nodes[Cwd].children, Taken(slot)
      PROVE  ShellInv'
  BY <1>5, TakenKeeps
<1> QED
  BY <1>1, <1>2, <1>3, <1>4, <1>5, CommandCases, InvIsFrame

LEMMA ShellInvHolds == Spec => []ShellInv
  BY InitShellInv, NextKeepsShellInv, PTL DEF Spec

-----------------------------------------------------------------------------
(* The properties the runs check *)

(* The tables of ramfs.cpp keep their shape under every command, and no    *)
(* directory ever lists more than MAX_CHILDREN entries: fs_add_child does  *)
(* not write behind the array.                                             *)
THEOREM ShellIsTyped == Spec => []TypeOK
<1>1. ShellInv => TypeOK
  <2> SUFFICES ASSUME ShellInv PROVE TypeOK
    OBVIOUS
  <2>1. Standing(nodes, Cwd) /\ Sound(nodes)
    BY DEF ShellInv, ShellFrame, Standing
  <2>2. /\ nodes \in Seq(Node) /\ DOMAIN nodes = 1 .. Len(nodes)
        /\ \A d \in DOMAIN nodes : Len(nodes[d].children) <= MAX_CHILDREN
    BY <2>1, SoundTypes DEF Sound, Entry
  <2>3. current_dir \in {NULL} \cup DOMAIN nodes
    BY <2>2, InvIsFrame, ShellInvTypes DEF ShellInv, ShellFrame
  <2> QED
    BY <2>2, <2>3 DEF TypeOK, Node, ShellInv, ShellFrame
<1> QED
  BY <1>1, ShellInvHolds, PTL

(* fs_add_child and fs_remove_child keep the children arrays and the       *)
(* parent pointers in step, in the removed nodes too, and the directory    *)
(* the shell is in always hangs from the root.                             *)
THEOREM ShellTreeConsistent == Spec => []TreeConsistent
<1>1. ShellInv => TreeConsistent
  <2> SUFFICES ASSUME ShellInv PROVE TreeConsistent
    OBVIOUS
  <2>1. /\ Sound(nodes) /\ Cwd \in Tree(nodes) /\ nodes[Cwd].isDir
        /\ DOMAIN nodes = 1 .. Len(nodes)
    BY SoundTypes DEF ShellInv, ShellFrame, Standing
  <2> QED
    BY <2>1 DEF TreeConsistent, Sound, Entry
<1> QED
  BY <1>1, ShellInvHolds, PTL

(* What cmd_touch and cmd_mkdir report as created is found by              *)
(* fs_find_child under the name fs_create_node kept, unless fs_add_child   *)
(* found the directory full.                                               *)
THEOREM ShellCreatedUnlessFull == Spec => []CreatedUnlessFull
<1>1. ShellInv => CreatedUnlessFull
  BY DEF ShellInv, ShellFrame
<1> QED
  BY <1>1, ShellInvHolds, PTL

-----------------------------------------------------------------------------
(* The commands implement the tree a user sees *)

Named(t) == [c \in Tree(t) |-> [name |-> t[c].name, isDir |-> t[c].isDir]]
Lists(t) == [c \in Tree(t) |-> t[c].children]

(* A table with another node that is outside the tree shows the same tree. *)
LEMMA SameShape ==
  ASSUME NEW t, NEW u, Tree(u) = Tree(t),
         \A e \in Tree(t) : /\ u[e].name = t[e].name /\ u[e].isDir = t[e].isDir
                            /\ u[e].children = t[e].children
  PROVE  Named(u) = Named(t) /\ Lists(u) = Lists(t)
<1> QED
  BY DEF Named, Lists

LEMMA MakingAdds ==
  ASSUME ShellFrame, NEW m, NEW a \in Names, Made(m, a)
  PROVE  [Abstract!Next]_(Abstract!vars)
<1> DEFINE t == nodes
           u == nodes'
           d == Cwd
           c == Len(nodes) + 1
<1>1. /\ Len(t) \in Nat /\ Tree(t) \subseteq 1 .. Len(t) /\ d \in Tree(t) /\ d \in 1 .. Len(t)
      /\ d # c /\ c \notin Tree(t)
      /\ t \in Seq(Node) /\ u \in Seq(Node) /\ c \in 1 .. Len(u)
      /\ Len(t[d].children) \in Nat
  <2>1. Standing(t, d) /\ Standing(u, d) /\ Len(u) = c /\ c \notin Tree(t)
    BY DEF ShellInv, ShellFrame, Made, Gains
  <2> QED
    BY <2>1, StandingTypes, RamFSAssumption DEF Standing, Sound
<1>2. Cwd' = d
  BY <1>1 DEF Made, Cwd, NULL
<1>3. /\ \A e \in Tree(t) :
           /\ u[e].name = t[e].name /\ u[e].isDir = t[e].isDir
           /\ e # d => u[e].children = t[e].children
      /\ u[c].children = << >>
      /\ Full(t, d) => Tree(u) = Tree(t) /\ u[d].children = t[d].children
      /\ ~ Full(t, d) => /\ Tree(u) = Tree(t) \cup {c}
                         /\ u[d].children = Append(t[d].children, c)
  BY <1>1 DEF Made, Gains
<1> HIDE DEF t, u, d, c
<1>4. u[c].name \in Names /\ u[c].isDir \in BOOLEAN
  <2>1. u[c] \in Node
    BY <1>1
  <2> QED
    BY <2>1 DEF Node
<1>5. CASE Full(t, d)
  <2>1. Named(u) = Named(t) /\ Lists(u) = Lists(t)
    <3>1. \A e \in Tree(t) : u[e].children = t[e].children
      BY <1>3, <1>5
    <3> QED
      BY <1>3, <1>5, <3>1, SameShape
  <2> QED
    BY <1>2, <2>1 DEF Abstract!vars, Named, Lists, t, u, d
<1>6. CASE ~ Full(t, d)
  <2>1. Tree(u) = Tree(t) \cup {c} /\ u[d].children = Append(t[d].children, c)
    BY <1>3, <1>6
  <2>2. Len(Lists(t)[d]) < MAX_CHILDREN
    BY <1>1, <1>6, RamFSAssumption DEF Full, Lists
  <2>3. DOMAIN Named(u) = DOMAIN Named(t) \cup {c} /\ DOMAIN Named(t) = Tree(t)
    BY <2>1 DEF Named
  <2>4. Named(u)[c] \in [name : Names, isDir : BOOLEAN]
    BY <1>4, <2>1 DEF Named
  <2>5. Named(t) = [e \in DOMAIN Named(t) |-> Named(u)[e]]
    BY <1>3, <2>1 DEF Named
  <2>6. Lists(u) = [e \in DOMAIN Lists(t) \cup {c} |->
                      IF e = c THEN << >>
                      ELSE IF e = d THEN Append(Lists(t)[e], c) ELSE Lists(t)[e]]
    <3>1. \A e \in Tree(t) : e # c
      BY <1>1
    <3> QED
      BY <1>1, <1>3, <2>1, <3>1 DEF Lists
  <2>7. PICK k : k = c
    OBVIOUS
  <2>8. Abstract!Add(k)
    BY <1>2, <2>2, <2>3, <2>4, <2>5, <2>6, <2>7
       DEF Abstract!Add, Abstract!Restrict, Named, Lists, t, u, d
  <2>9. k \in DOMAIN Named(u) \ DOMAIN Named(t)
    BY <1>1, <2>3, <2>7
  <2> QED
    BY <2>8, <2>9 DEF Abstract!Next, Named, t, u
<1> QED
  BY <1>5, <1>6

LEMMA TakingRemoves ==
  ASSUME ShellFrame, NEW slot \in DOMAIN nodes[Cwd].children, Taken(slot)
  PROVE  [Abstract!Next]_(Abstract!vars)
<1> DEFINE t == nodes
           u == nodes'
           d == Cwd
           gone == Tree(t) \ Tree(u)
<1>1. /\ Len(t) \in Nat /\ Tree(t) \subseteq 1 .. Len(t) /\ d \in Tree(t) /\ d # NULL
      /\ Pruned(t, d, slot, u) /\ SameFields(t, u, Len(t))
  <2>1. Standing(t, d) /\ Pruned(t, d, slot, u)
    BY DEF ShellInv, ShellFrame, Taken
  <2> QED
    BY <2>1, Removing, InvIsFrame, ShellInvTypes DEF Standing
<1>2. Cwd' = d
  BY <1>1 DEF Taken, Cwd
<1> HIDE DEF t, u, d
<1>3. /\ Tree(u) \subseteq Tree(t) /\ Tree(t) \ gone = Tree(u)
      /\ \A e \in Tree(u) :
           /\ u[e].name = t[e].name /\ u[e].isDir = t[e].isDir
           /\ u[e].children = IF e = d THEN RemoveAt(t[d].children, slot) ELSE t[e].children
  BY <1>1 DEF Pruned, SameFields
<1>4. gone = {Lists(t)[d][slot]} \cup UNION {ToSet(Lists(t)[x]) : x \in gone}
  <2>1. Lists(t)[d] = t[d].children /\ \A x \in gone : Lists(t)[x] = t[x].children
    BY <1>1 DEF Lists
  <2>2. {ToSet(Lists(t)[x]) : x \in gone} = {ToSet(t[x].children) : x \in gone}
    <3> HIDE DEF gone
    <3> QED
      BY <2>1
  <2>3. gone = {t[d].children[slot]} \cup Below(t, gone)
    BY <1>1 DEF Pruned
  <2> HIDE DEF gone
  <2> QED
    BY <2>1, <2>2, <2>3 DEF Below
<1>5. DOMAIN Named(t) = Tree(t) /\ DOMAIN Named(u) = Tree(u) /\ DOMAIN Lists(t) = Tree(t)
  BY DEF Named, Lists
<1>6. Named(u) = [e \in Tree(u) |-> Named(t)[e]]
  BY <1>3 DEF Named
<1>7. Lists(u) = [e \in Tree(u) |-> [Lists(t) EXCEPT ![d] = RemoveAt(@, slot)][e]]
  BY <1>1, <1>3 DEF Lists
<1> DEFINE step == Abstract!RemoveEntry(slot)
<1>8. step
  <2>1. Abstract!Subtree(Lists(t), Lists(t)[d][slot], gone)
    BY <1>4 DEF Abstract!Subtree, Abstract!ToSet, ToSet
  <2> QED
    BY <1>2, <1>3, <1>5, <1>6, <1>7, <2>1
       DEF Abstract!RemoveEntry, Abstract!Restrict, Abstract!RemoveAt, RemoveAt, Named, Lists, t, u, d
<1>9. slot \in DOMAIN Lists(t)[d]
  BY <1>1 DEF Lists, t, d
<1> HIDE DEF step
<1> QED
  BY <1>8, <1>9 DEF Abstract!Next, Lists, t, d, step

LEMMA MovingDescends ==
  ASSUME ShellFrame, Moved
  PROVE  [Abstract!Next]_(Abstract!vars)
<1> DEFINE t == nodes
           d == Cwd
           e == current_dir'
<1>1. /\ nodes' = t /\ e \in Tree(t) /\ t[e].isDir /\ e # NULL /\ Cwd' = e /\ d \in Tree(t)
      /\ e = d \/ d \in ToSet(t[e].children) \/ e \in ToSet(t[d].children)
  BY StandingTypes DEF Moved, Standing, ShellInv, ShellFrame, Cwd, NULL
<1> HIDE DEF t, d, e
<1>2. Named(nodes') = Named(t) /\ Lists(nodes') = Lists(t) /\ DOMAIN Named(t) = Tree(t)
  BY <1>1 DEF Named
<1>3. Lists(t)[d] = t[d].children /\ Lists(t)[e] = t[e].children /\ Named(t)[e].isDir
  BY <1>1 DEF Lists, Named
<1>4. CASE e = d
  BY <1>1, <1>2, <1>4 DEF Abstract!vars, Named, Lists, t, d
<1>5. CASE d \in ToSet(t[e].children)
  <2>1. Abstract!Contains(Lists(t)[e], d)
    <3>1. DOMAIN t[e].children = 1 .. Len(t[e].children)
      BY StandingTypes DEF Moved, t, e
    <3> QED
      BY <1>3, <1>5, <3>1 DEF Abstract!Contains, ToSet
  <2>2. Abstract!Ascend(e)
    BY <1>1, <1>2, <2>1 DEF Abstract!Ascend, Named, Lists, t, d
  <2> QED
    BY <1>1, <1>2, <2>2 DEF Abstract!Next, Named, t
<1>6. CASE e \in ToSet(t[d].children)
  <2>1. Abstract!Descend(e)
    BY <1>1, <1>2, <1>3 DEF Abstract!Descend, Named, Lists, t, d
  <2>2. e \in Abstract!ToSet(Lists(t)[d])
    BY <1>3, <1>6 DEF Abstract!ToSet, ToSet
  <2> QED
    BY <2>1, <2>2 DEF Abstract!Next, Lists, t, d
<1> QED
  BY <1>1, <1>4, <1>5, <1>6

(* fs_init and kernel_main leave the root with the README file in it. *)
LEMMA BootIsAbstractInit == Init => Abstract!Init
<1> SUFFICES ASSUME Init PROVE Abstract!Init
  OBVIOUS
<1> DEFINE t == nodes
<1>1. /\ Tree(t) = {1, 2} /\ t[1].isDir /\ t[1].children = <<2>> /\ t[2].children = << >>
  BY BootTree
<1>2. Cwd = Root /\ Root = 1
  BY DEF Init, Cwd, Root
<1> HIDE DEF t
<1>3. /\ DOMAIN Named(t) = {1, 2} /\ DOMAIN Lists(t) = {1, 2}
      /\ Named(t)[1].isDir /\ Lists(t)[1] = <<2>> /\ Lists(t)[2] = << >>
  BY <1>1 DEF Named, Lists
<1>4. Abstract!Contains(<<2>>, 2) /\ Abstract!IsInjective(<<2>>)
  BY DEF Abstract!Contains, Abstract!IsInjective
<1> QED
  BY <1>2, <1>3, <1>4 DEF Abstract!Init, Named, Lists, t

(* Whatever the shell's commands do to the nodes, the parent pointers and  *)
(* the arrays of children, fs_add_child and fs_remove_child included, is a *)
(* step of the tree a user sees (TreeContract.tla), or nothing.            *)
THEOREM ShellImplementsContract == Spec => Contract
<1>1. ShellInv /\ [Next]_shellVars => [Abstract!Next]_(Abstract!vars)
  <2> SUFFICES ASSUME ShellInv, [Next]_shellVars
               PROVE  [Abstract!Next]_(Abstract!vars)
    OBVIOUS
  <2>1. CASE UNCHANGED shellVars
    BY <2>1 DEF shellVars, Abstract!vars, Cwd
  <2>2. CASE Still
    <3>1. Cwd' = Cwd
      BY <2>2, InvIsFrame, ShellInvTypes DEF Still, Cwd
    <3> QED
      BY <2>2, <3>1 DEF Still, Abstract!vars
  <2>3. CASE Moved
    BY <2>3, InvIsFrame, MovingDescends
  <2>4. ASSUME NEW m, NEW a \in Names, Made(m, a)
        PROVE  [Abstract!Next]_(Abstract!vars)
    BY <2>4, InvIsFrame, MakingAdds
  <2>5. ASSUME NEW slot \in DOMAIN nodes[Cwd].children, Taken(slot)
        PROVE  [Abstract!Next]_(Abstract!vars)
    BY <2>5, InvIsFrame, TakingRemoves
  <2> QED
    BY <2>1, <2>2, <2>3, <2>4, <2>5, CommandCases, InvIsFrame
<1> QED
  BY <1>1, BootIsAbstractInit, ShellInvHolds, PTL DEF Spec, Contract, Abstract!Spec

-----------------------------------------------------------------------------
(* The loop of fs_remove_child *)

(* One more entry, which is kept unless it is gone. *)
LEMMA RemainingAppend ==
  ASSUME NEW V, NEW q \in Seq(V), NEW x \in V, NEW gone
  PROVE  /\ Remaining(Append(q, x), gone) =
              IF x \in gone THEN Remaining(q, gone) ELSE Append(Remaining(q, gone), x)
         /\ Remaining(<< >>, gone) = << >>
<1> DEFINE L == Len(q)
           s == Append(q, x)
<1>1. L \in Nat /\ s \in Seq(V) /\ Len(s) = L + 1 /\ s[L + 1] = x
      /\ \A i \in 1 .. L : s[i] = q[i]
  OBVIOUS
<1> HIDE DEF s
<1>2. PICK k : Shifting(s, gone, V, k)
  BY <1>1, RemainingUnfolds
<1>3. PICK h : Shifting(q, gone, V, h)
  BY RemainingUnfolds
<1> DEFINE S == {i \in 0 .. L : k[i] = h[i]}
<1>4. 0 \in S
  BY <1>1, <1>2, <1>3 DEF Shifting
<1>5. ASSUME NEW m \in 0 .. (L - 1), m \in S PROVE m + 1 \in S
  <2>1. m + 1 \in 1 .. L /\ m + 1 \in 0 .. L /\ (m + 1) - 1 = m /\ m + 1 \in 1 .. Len(s)
    <3> HIDE DEF L
    <3> QED
      BY <1>1
  <2>2. k[m + 1] = IF s[m + 1] \in gone THEN k[m] ELSE Append(k[m], s[m + 1])
    BY <1>2, <2>1 DEF Shifting
  <2>3. h[m + 1] = IF q[m + 1] \in gone THEN h[m] ELSE Append(h[m], q[m + 1])
    BY <1>3, <2>1 DEF Shifting
  <2>4. s[m + 1] = q[m + 1] /\ k[m] = h[m]
    BY <1>1, <1>5, <2>1
  <2> QED
    BY <2>1, <2>2, <2>3, <2>4
<1>6. 0 .. L \subseteq S
  <2>1. \A m \in 0 .. (L - 1) : m \in S => m + 1 \in S
    BY <1>5
  <2> HIDE DEF S, L
  <2> QED
    BY <1>1, <1>4, <2>1, Induction
<1>7. k[L] = Remaining(q, gone)
  <2>1. L \in S /\ Remaining(q, gone) = h[L]
    BY <1>1, <1>3, <1>6 DEF Shifting
  <2> QED
    BY <2>1
<1>8. k[L + 1] = IF x \in gone THEN k[L] ELSE Append(k[L], x)
  <2>1. L + 1 \in 1 .. Len(s) /\ (L + 1) - 1 = L
    BY <1>1
  <2> QED
    BY <1>1, <1>2, <2>1 DEF Shifting
<1>9. Remaining(s, gone) = k[L + 1]
  BY <1>1, <1>2 DEF Shifting
<1>10. Remaining(<< >>, gone) = << >>
  <2>1. << >> \in Seq(V) /\ Len(<< >>) = 0
    OBVIOUS
  <2>2. PICK e : Shifting(<< >>, gone, V, e)
    BY <2>1, RemainingUnfolds
  <2> QED
    BY <2>1, <2>2 DEF Shifting
<1> QED
  BY <1>7, <1>8, <1>9, <1>10 DEF s

(* What is left depends on which of the entries are gone. *)
LEMMA RemainingSame ==
  ASSUME NEW V, NEW s \in Seq(V), NEW A, NEW B, ToSet(s) \cap A = ToSet(s) \cap B
  PROVE  Remaining(s, A) = Remaining(s, B)
<1> DEFINE n == Len(s)
<1>0. n \in Nat
  OBVIOUS
<1>1. PICK a : Shifting(s, A, V, a)
  BY RemainingUnfolds
<1>2. PICK b : Shifting(s, B, V, b)
  BY RemainingUnfolds
<1> DEFINE S == {i \in 0 .. n : a[i] = b[i]}
<1>3. 0 \in S
  BY <1>0, <1>1, <1>2 DEF Shifting
<1>4. ASSUME NEW m \in 0 .. (n - 1), m \in S PROVE m + 1 \in S
  <2>1. m + 1 \in 1 .. n /\ m + 1 \in 0 .. n /\ (m + 1) - 1 = m
    BY <1>0
  <2>2. a[m + 1] = IF s[m + 1] \in A THEN a[m] ELSE Append(a[m], s[m + 1])
    BY <1>1, <2>1 DEF Shifting
  <2>3. b[m + 1] = IF s[m + 1] \in B THEN b[m] ELSE Append(b[m], s[m + 1])
    BY <1>2, <2>1 DEF Shifting
  <2>4. s[m + 1] \in ToSet(s)
    BY <2>1 DEF ToSet
  <2> QED
    BY <1>4, <2>1, <2>2, <2>3, <2>4
<1>5. n \in S
  <2>1. n \in 0 .. n
    BY <1>0
  <2>2. \A m \in 0 .. (n - 1) : m \in S => m + 1 \in S
    BY <1>4
  <2> HIDE DEF S, n
  <2>3. 0 .. n \subseteq S
    BY <1>0, <1>3, <2>2, Induction
  <2> QED
    BY <2>1, <2>3
<1>6. Remaining(s, A) = a[n] /\ Remaining(s, B) = b[n]
  BY <1>1, <1>2 DEF Shifting
<1> QED
  BY <1>5, <1>6

(* Taking entries out at once or in two rounds is the same. *)
LEMMA RemainingTwice ==
  ASSUME NEW V, NEW s \in Seq(V), NEW A, NEW B
  PROVE  Remaining(Remaining(s, A), B) = Remaining(s, A \cup B)
<1> DEFINE n == Len(s)
           C == A \cup B
<1>0. n \in Nat
  OBVIOUS
<1>1. PICK a : Shifting(s, A, V, a)
  BY RemainingUnfolds
<1>2. PICK c : Shifting(s, C, V, c)
  BY RemainingUnfolds
<1> HIDE DEF C
<1> DEFINE T == {i \in 0 .. n : Remaining(a[i], B) = c[i]}
<1>3. 0 \in T
  <2>1. a[0] = << >> /\ c[0] = << >>
    BY <1>1, <1>2 DEF Shifting
  <2>2. Remaining(<< >>, B) = << >>
    <3>1. << >> \in Seq({0}) /\ 0 \in {0}
      OBVIOUS
    <3> QED
      BY <3>1, RemainingAppend
  <2> QED
    BY <1>0, <2>1, <2>2
<1>4. ASSUME NEW m \in 0 .. (n - 1), m \in T PROVE m + 1 \in T
  <2>1. m + 1 \in 1 .. n /\ m + 1 \in 0 .. n /\ m \in 0 .. n /\ (m + 1) - 1 = m
    BY <1>0
  <2>2. a[m + 1] = IF s[m + 1] \in A THEN a[m] ELSE Append(a[m], s[m + 1])
    BY <1>1, <2>1 DEF Shifting
  <2>3. c[m + 1] = IF s[m + 1] \in C THEN c[m] ELSE Append(c[m], s[m + 1])
    BY <1>2, <2>1 DEF Shifting
  <2> DEFINE q == a[m]
             x == s[m + 1]
  <2>4. q \in Seq(V) /\ x \in V
    BY <1>1, <2>1 DEF Shifting
  <2>5. Remaining(q, B) = c[m]
    BY <1>4
  <2> HIDE DEF q, x
  <2>6. Remaining(Append(q, x), B) =
          IF x \in B THEN Remaining(q, B) ELSE Append(Remaining(q, B), x)
    BY <2>4, RemainingAppend
  <2>7. x \in C <=> x \in A \/ x \in B
    BY DEF C
  <2>8. Remaining(a[m + 1], B) = c[m + 1]
    BY <2>2, <2>3, <2>5, <2>6, <2>7 DEF q, x
  <2> QED
    BY <2>1, <2>8
<1>5. n \in T
  <2>1. n \in 0 .. n
    BY <1>0
  <2>2. \A m \in 0 .. (n - 1) : m \in T => m + 1 \in T
    BY <1>4
  <2> HIDE DEF T, n
  <2>3. 0 .. n \subseteq T
    BY <1>0, <1>3, <2>2, Induction
  <2> QED
    BY <2>1, <2>3
<1>6. Remaining(s, A) = a[n] /\ Remaining(s, C) = c[n]
  BY <1>1, <1>2 DEF Shifting
<1>7. Remaining(Remaining(s, A), B) = Remaining(s, C)
  BY <1>5, <1>6
<1> QED
  BY <1>7 DEF C

(* An array whose first, third, fifth ... entry went one by one, m of them. *)
Odd(s, m) == {s[2 * i - 1] : i \in 1 .. m}

LEMMA OddGone ==
  ASSUME NEW V, NEW s \in Seq(V), IsInjective(s), NEW m \in Nat, 2 * m - 1 <= Len(s)
  PROVE  LET r == Remaining(s, Odd(s, m))
         IN  /\ r \in Seq(V) /\ Len(r) = Len(s) - m
             /\ \A i \in 1 .. (Len(s) - m) : r[i] = IF i <= m THEN s[2 * i] ELSE s[i + m]
<1> DEFINE n == Len(s)
           R(k) == Remaining(s, Odd(s, k))
           Is(k) == /\ R(k) \in Seq(V) /\ Len(R(k)) = n - k
                    /\ \A i \in 1 .. (n - k) : R(k)[i] = IF i <= k THEN s[2 * i] ELSE s[i + k]
           S == {k \in 0 .. m : Is(k)}
<1>0. n \in Nat
  OBVIOUS
<1>1. 0 \in S
  <2>1. Odd(s, 0) = {}
    BY DEF Odd
  <2>2. R(0) = s
    <3>1. ToSet(s) \cap {} = {}
      OBVIOUS
    <3> QED
      BY <2>1, <3>1, RemainingOfOthers
  <2> HIDE DEF R
  <2> QED
    BY <1>0, <2>2
<1>2. ASSUME NEW k \in 0 .. (m - 1), k \in S PROVE k + 1 \in S
  <2>1. Is(k)
    BY <1>2
  <2>2. k \in Nat /\ k + 1 \in 0 .. m /\ 2 * k + 1 \in 1 .. n /\ k + 1 \in 1 .. (n - k)
        /\ ~ (k + 1 <= k) /\ (k + 1) + k = 2 * k + 1
    <3> HIDE DEF n
    <3> QED
      BY <1>0 DEF n
  <2> DEFINE x == s[2 * k + 1]
  <2>3. Odd(s, k + 1) = Odd(s, k) \cup {x}
    <3>1. \A i : i \in 1 .. (k + 1) <=> i \in 1 .. k \/ i = k + 1
      BY <2>2
    <3>2. 2 * (k + 1) - 1 = 2 * k + 1
      BY <2>2
    <3> QED
      BY <3>1, <3>2 DEF Odd
  <2> DEFINE q == R(k)
  <2>4. q \in Seq(V) /\ Len(q) = n - k /\ q[k + 1] = x /\ k + 1 \in DOMAIN q
    <3> HIDE DEF R
    <3>1. q \in Seq(V) /\ Len(q) = n - k
      BY <2>1
    <3>2. q[k + 1] = s[(k + 1) + k]
      BY <2>1, <2>2
    <3> QED
      BY <2>2, <3>1, <3>2
  <2>5. IsInjective(q)
    BY RemainingKeeps
  <2>6. R(k + 1) = Remaining(q, {x})
    BY <2>3, RemainingTwice
  <2>7. ToSet(q) \cap {x} = {q[k + 1]}
    <3> HIDE DEF q, x
    <3> QED
      BY <2>4 DEF ToSet
  <2>8. R(k + 1) = Shifted(q, k + 1)
    <3> HIDE DEF q, x
    <3>1. Remaining(q, {x}) = Shifted(q, k + 1)
      BY <2>4, <2>5, <2>7, RemainingShifts
    <3> QED
      BY <2>6, <3>1
  <2> DEFINE u == R(k + 1)
  <2>9. u = [j \in 1 .. ((n - k) - 1) |-> IF j < k + 1 THEN q[j] ELSE q[j + 1]]
    <3> HIDE DEF q, R
    <3> QED
      BY <2>4, <2>8 DEF Shifted
  <2>10. u \in Seq(V)
    BY RemainingKeeps
  <2>11. \A i \in 1 .. (n - k) : q[i] = IF i <= k THEN s[2 * i] ELSE s[i + k]
    <3> HIDE DEF R
    <3> QED
      BY <2>1
  <2> HIDE DEF u, q
  <2>12. Len(u) = n - (k + 1)
    <3> HIDE DEF n
    <3>1. (n - k) - 1 \in Nat
      BY <1>0, <2>2
    <3>2. DOMAIN u = 1 .. ((n - k) - 1)
      BY <2>9
    <3>3. DOMAIN u = 1 .. Len(u) /\ Len(u) \in Nat
      BY <2>10
    <3> QED
      BY <1>0, <2>2, <3>1, <3>2, <3>3
  <2>13. ASSUME NEW i \in 1 .. (n - (k + 1))
         PROVE  u[i] = IF i <= k + 1 THEN s[2 * i] ELSE s[i + (k + 1)]
    <3> HIDE DEF n
    <3>1. i \in 1 .. ((n - k) - 1) /\ i \in 1 .. (n - k) /\ i + 1 \in 1 .. (n - k) /\ i \in Nat
      BY <1>0, <2>2
    <3>2. u[i] = IF i < k + 1 THEN q[i] ELSE q[i + 1]
      BY <2>9, <3>1
    <3>3. CASE i < k + 1
      <4>1. i <= k /\ i <= k + 1
        BY <2>2, <3>1, <3>3
      <4> QED
        BY <2>11, <3>1, <3>2, <3>3, <4>1
    <3>4. CASE ~ (i < k + 1)
      <4>1. ~ (i + 1 <= k) /\ (i + 1) + k = i + (k + 1) /\ (i <= k + 1 => i + (k + 1) = 2 * i)
        BY <2>2, <3>1, <3>4
      <4>2. u[i] = s[i + (k + 1)]
        BY <2>11, <3>1, <3>2, <3>4, <4>1
      <4> QED
        BY <4>1, <4>2
    <3> QED
      BY <3>3, <3>4
  <2> QED
    BY <2>2, <2>10, <2>12, <2>13 DEF u
<1>3. m \in S
  <2>1. m \in 0 .. m
    OBVIOUS
  <2>2. \A k \in 0 .. (m - 1) : k \in S => k + 1 \in S
    BY <1>2
  <2> HIDE DEF S
  <2>3. 0 .. m \subseteq S
    BY <1>1, <2>2, Induction
  <2> QED
    BY <2>1, <2>3
<1> QED
  BY <1>3

-----------------------------------------------------------------------------
(* Arrays of children that make up a tree: what the recursive calls of     *)
(* fs_remove_child leave behind.  t says who the parent of a node is.      *)
Fit(n, t, a) ==
  /\ a \in [1 .. n -> Seq(1 .. n)]
  /\ \A e \in 1 .. n :
       /\ ~ t[e].isDir => a[e] = << >>
       /\ IsInjective(a[e])
       /\ \A x \in ToSet(a[e]) : t[x].parent = e /\ e < x

(* G is who goes when c is removed from the arrays a. *)
Goes(n, t, a, c, G) ==
  /\ G \subseteq 1 .. n
  /\ \A x \in 1 .. n :
       x \in G <=> x = c \/ (/\ t[x].parent \in 1 .. (x - 1) /\ t[x].parent \in G
                             /\ Recursed(a[t[x].parent], x))

WhoGoes(n, t, a, c) == CHOOSE G : Goes(n, t, a, c, G)

(* The arrays without the nodes in G. *)
Cut(n, a, G) == [e \in 1 .. n |-> Remaining(a[e], G)]

LEMMA WhoGoesIs ==
  ASSUME NEW n \in Nat, NEW t, NEW a, NEW c
  PROVE  Goes(n, t, a, c, WhoGoes(n, t, a, c))
<1> DEFINE p == [x \in 1 .. n |-> t[x].parent]
           B == {x \in 1 .. n : Recursed(a[t[x].parent], x)}
<1>1. PICK R \in SUBSET (1 .. n) : \A x \in 1 .. n :
             x \in R <=> x \in {c} \/ (p[x] \in 1 .. (x - 1) /\ p[x] \in R /\ x \in B)
  <2> HIDE DEF p, B
  <2> QED
    BY Marking
<1>2. Goes(n, t, a, c, R)
  BY <1>1 DEF Goes
<1> QED
  BY <1>2 DEF WhoGoes

LEMMA WhoGoesOnly ==
  ASSUME NEW n \in Nat, NEW t, NEW a, NEW c, NEW G, Goes(n, t, a, c, G)
  PROVE  WhoGoes(n, t, a, c) = G
<1> DEFINE H == WhoGoes(n, t, a, c)
           S == {x \in 1 .. n : x \in G <=> x \in H}
<1>1. Goes(n, t, a, c, H)
  BY WhoGoesIs
<1> HIDE DEF H
<1>2. ASSUME NEW x \in 1 .. n, 1 .. (x - 1) \subseteq S PROVE x \in S
  <2> DEFINE p == t[x].parent
  <2>1. /\ x \in G <=> x = c \/ (p \in 1 .. (x - 1) /\ p \in G /\ Recursed(a[p], x))
        /\ x \in H <=> x = c \/ (p \in 1 .. (x - 1) /\ p \in H /\ Recursed(a[p], x))
    BY <1>1 DEF Goes
  <2>2. p \in 1 .. (x - 1) => (p \in G <=> p \in H)
    BY <1>2
  <2> HIDE DEF p
  <2> QED
    BY <2>1, <2>2
<1>3. 1 .. n \subseteq S
  <2>1. \A x \in 1 .. n : 1 .. (x - 1) \subseteq S => x \in S
    BY <1>2
  <2> HIDE DEF S
  <2> QED
    BY <2>1, StrongInduction
<1> QED
  BY <1>1, <1>3 DEF Goes, H

(* Who goes is not older than the child, and hangs from one who goes.      *)
LEMMA WhoGoesHangs ==
  ASSUME NEW n \in Nat, NEW t, NEW a, Fit(n, t, a), NEW c \in 1 .. n
  PROVE  /\ c \in WhoGoes(n, t, a, c) /\ WhoGoes(n, t, a, c) \subseteq 1 .. n
         /\ \A x \in WhoGoes(n, t, a, c) :
              x # c => /\ t[x].parent \in WhoGoes(n, t, a, c) /\ t[x].parent \in 1 .. (x - 1)
                       /\ Recursed(a[t[x].parent], x)
         /\ \A x \in WhoGoes(n, t, a, c) : c <= x
<1> DEFINE G == WhoGoes(n, t, a, c)
           S == {x \in 1 .. n : x \in G => c <= x}
<1>1. Goes(n, t, a, c, G)
  BY WhoGoesIs
<1> HIDE DEF G
<1>2. /\ c \in G /\ G \subseteq 1 .. n
      /\ \A x \in G : x # c => /\ t[x].parent \in G /\ t[x].parent \in 1 .. (x - 1)
                               /\ Recursed(a[t[x].parent], x)
  BY <1>1 DEF Goes
<1>3. ASSUME NEW x \in 1 .. n, 1 .. (x - 1) \subseteq S PROVE x \in S
  <2>1. ASSUME x \in G, x # c PROVE c <= x
    <3> DEFINE p == t[x].parent
    <3>1. p \in G /\ p \in 1 .. (x - 1)
      BY <1>2, <2>1
    <3> HIDE DEF p
    <3>2. c <= p
      BY <1>3, <3>1
    <3> QED
      BY <3>1, <3>2
  <2> QED
    BY <2>1
<1>4. 1 .. n \subseteq S
  <2>1. \A x \in 1 .. n : 1 .. (x - 1) \subseteq S => x \in S
    BY <1>3
  <2> HIDE DEF S
  <2> QED
    BY <2>1, StrongInduction
<1>5. \A x \in G : c <= x
  BY <1>2, <1>4
<1> QED
  BY <1>2, <1>5 DEF G

(* Nobody goes with two siblings. *)
LEMMA SiblingsApart ==
  ASSUME NEW n \in Nat, NEW t, NEW a, Fit(n, t, a), NEW d \in 1 .. n,
         NEW x \in ToSet(a[d]), NEW y \in ToSet(a[d]), x # y
  PROVE  \A e \in WhoGoes(n, t, a, x) : ToSet(a[e]) \cap WhoGoes(n, t, a, y) = {}
<1> DEFINE X == WhoGoes(n, t, a, x)
           Y == WhoGoes(n, t, a, y)
           S == {z \in 1 .. n : ~ (z \in X /\ z \in Y)}
<1>1. x \in 1 .. n /\ y \in 1 .. n /\ t[x].parent = d /\ t[y].parent = d /\ d < x /\ d < y
  <2>1. a[d] \in Seq(1 .. n)
    BY DEF Fit
  <2>2. x \in 1 .. n /\ y \in 1 .. n
    BY <2>1 DEF ToSet
  <2> QED
    BY <2>2 DEF Fit
<1>2. /\ X \subseteq 1 .. n /\ \A z \in X : x <= z
      /\ \A z \in X : z # x => t[z].parent \in X /\ t[z].parent \in 1 .. (z - 1)
  BY <1>1, WhoGoesHangs
<1>3. /\ Y \subseteq 1 .. n /\ \A z \in Y : y <= z
      /\ \A z \in Y : z # y => t[z].parent \in Y /\ t[z].parent \in 1 .. (z - 1)
  BY <1>1, WhoGoesHangs
<1> HIDE DEF X, Y
<1>4. d \notin X /\ d \notin Y
  BY <1>1, <1>2, <1>3
<1>5. ASSUME NEW z \in 1 .. n, 1 .. (z - 1) \subseteq S PROVE z \in S
  <2>1. ASSUME z \in X, z \in Y PROVE FALSE
    <3>1. z # x
      BY <1>1, <1>3, <1>4, <2>1
    <3>2. z # y
      BY <1>1, <1>2, <1>4, <2>1
    <3> QED
      BY <1>2, <1>3, <1>5, <2>1, <3>1, <3>2
  <2> QED
    BY <2>1
<1>6. 1 .. n \subseteq S
  <2>1. \A z \in 1 .. n : 1 .. (z - 1) \subseteq S => z \in S
    BY <1>5
  <2> HIDE DEF S
  <2> QED
    BY <2>1, StrongInduction
<1>7. ASSUME NEW e \in X, NEW w \in ToSet(a[e]), w \in Y PROVE FALSE
  <2>1. t[w].parent = e
    BY <1>2, <1>7 DEF Fit
  <2>2. CASE w = y
    BY <1>1, <1>4, <1>7, <2>1, <2>2
  <2>3. CASE w # y
    <3>1. e \in Y
      BY <1>3, <1>7, <2>1, <2>3
    <3> QED
      BY <1>2, <1>6, <1>7, <3>1
  <2> QED
    BY <2>2, <2>3
<1> QED
  BY <1>7 DEF X, Y

LEMMA CutFits ==
  ASSUME NEW n \in Nat, NEW t, NEW a, Fit(n, t, a), NEW G
  PROVE  /\ Fit(n, t, Cut(n, a, G))
         /\ \A e \in 1 .. n : Cut(n, a, G)[e] = Remaining(a[e], G)
         /\ \A H : Cut(n, Cut(n, a, G), H) = Cut(n, a, G \cup H)
<1> DEFINE b == Cut(n, a, G)
<1>1. \A e \in 1 .. n : a[e] \in Seq(1 .. n)
  BY DEF Fit
<1>2. b = [e \in 1 .. n |-> Remaining(a[e], G)]
  BY DEF Cut
<1> HIDE DEF b
<1>3. \A e \in 1 .. n : b[e] = Remaining(a[e], G)
  BY <1>2
<1>4. ASSUME NEW e \in 1 .. n
      PROVE  /\ b[e] \in Seq(1 .. n)
             /\ ~ t[e].isDir => b[e] = << >>
             /\ IsInjective(b[e])
             /\ \A x \in ToSet(b[e]) : t[x].parent = e /\ e < x
  <2>1. /\ b[e] \in Seq(1 .. n) /\ ToSet(b[e]) = ToSet(a[e]) \ G
        /\ IsInjective(a[e]) => IsInjective(b[e])
    BY <1>1, <1>3, RemainingKeeps
  <2>2. ~ t[e].isDir => b[e] = << >>
    <3>1. ~ t[e].isDir => a[e] = << >>
      BY DEF Fit
    <3>2. Remaining(<< >>, G) = << >>
      <4>1. << >> \in Seq({0}) /\ 0 \in {0}
        OBVIOUS
      <4> QED
        BY <4>1, RemainingAppend
    <3> QED
      BY <1>3, <3>1, <3>2
  <2> QED
    BY <2>1, <2>2 DEF Fit
<1>5. Fit(n, t, b)
  <2>1. b \in [1 .. n -> Seq(1 .. n)]
    BY <1>2, <1>4
  <2> QED
    BY <1>4, <2>1 DEF Fit
<1>6. ASSUME NEW H PROVE Cut(n, b, H) = Cut(n, a, G \cup H)
  <2>1. ASSUME NEW e \in 1 .. n PROVE Remaining(b[e], H) = Remaining(a[e], G \cup H)
    <3>1. a[e] \in Seq(1 .. n) /\ b[e] = Remaining(a[e], G)
      BY <1>1, <1>3
    <3>2. Remaining(Remaining(a[e], G), H) = Remaining(a[e], G \cup H)
      BY <3>1, RemainingTwice
    <3> QED
      BY <3>1, <3>2
  <2> QED
    BY <2>1 DEF Cut
<1> QED
  BY <1>3, <1>5, <1>6 DEF b

(* Who goes with x, when nodes elsewhere have gone before. *)
LEMMA WhoGoesStays ==
  ASSUME NEW n \in Nat, NEW t, NEW a, Fit(n, t, a), NEW x \in 1 .. n, NEW H,
         \A e \in WhoGoes(n, t, a, x) : ToSet(a[e]) \cap H = {}
  PROVE  WhoGoes(n, t, Cut(n, a, H), x) = WhoGoes(n, t, a, x)
<1> DEFINE X == WhoGoes(n, t, a, x)
           b == Cut(n, a, H)
<1>1. Goes(n, t, a, x, X)
  BY WhoGoesIs
<1>2. \A e \in X : e \in 1 .. n /\ b[e] = a[e]
  <2>1. ASSUME NEW e \in X PROVE e \in 1 .. n /\ b[e] = a[e]
    <3>1. e \in 1 .. n
      BY <1>1 DEF Goes
    <3>2. a[e] \in Seq(1 .. n)
      BY <3>1 DEF Fit
    <3>3. Remaining(a[e], H) = a[e]
      BY <3>2, RemainingOfOthers
    <3> QED
      BY <3>1, <3>3, CutFits
  <2> QED
    BY <2>1
<1> HIDE DEF X, b
<1>3. Goes(n, t, b, x, X)
  BY <1>1, <1>2 DEF Goes
<1> QED
  BY <1>3, WhoGoesOnly DEF X, b

-----------------------------------------------------------------------------
(* The recursive calls do what the closed form says, for children that are *)
(* less than k nodes before the last one.                                  *)
CallsOf(n) == [1 .. n -> Seq(1 .. n)] \X (1 .. n) \X (1 .. n)

Removes(n, t, removed, k) ==
  \A a, d, c : Fit(n, t, a) /\ d \in 1 .. n /\ t[d].isDir /\ c \in ToSet(a[d]) /\ n - c < k =>
    removed[<<a, d, c>>] = Cut(n, a, WhoGoes(n, t, a, c))

(* Who has gone after m rounds of the loop over the children of c. *)
GoneIn(n, t, a, c, m) == UNION {WhoGoes(n, t, a, a[c][2 * i - 1]) : i \in 1 .. m}

(* Of the children of c themselves, every other one. *)
LEMMA RoundsGone ==
  ASSUME NEW n \in Nat, NEW t, NEW a, Fit(n, t, a), NEW c \in 1 .. n,
         NEW m \in Nat, 2 * m - 1 <= Len(a[c])
  PROVE  /\ ToSet(a[c]) \cap GoneIn(n, t, a, c, m) = Odd(a[c], m)
         /\ \A x \in GoneIn(n, t, a, c, m) : x \in 1 .. n /\ c < x
         /\ \A x \in GoneIn(n, t, a, c, m) :
              \/ x \in Odd(a[c], m)
              \/ /\ t[x].parent \in GoneIn(n, t, a, c, m) /\ t[x].parent \in 1 .. (x - 1)
                 /\ Recursed(a[t[x].parent], x)
<1> DEFINE s == a[c]
           H == GoneIn(n, t, a, c, m)
<1>1. /\ s \in Seq(1 .. n) /\ Len(s) \in Nat /\ 2 * m - 1 <= Len(s)
      /\ \A x \in ToSet(s) : t[x].parent = c /\ c < x
  BY DEF Fit
<1> HIDE DEF s
<1>2. ASSUME NEW i \in 1 .. m
      PROVE  /\ 2 * i - 1 \in 1 .. Len(s) /\ s[2 * i - 1] \in 1 .. n /\ s[2 * i - 1] \in ToSet(s)
             /\ s[2 * i - 1] \in Odd(s, m)
  <2>1. 2 * i - 1 \in 1 .. Len(s)
    BY <1>1
  <2> QED
    BY <1>1, <2>1 DEF ToSet, Odd
<1>3. ASSUME NEW x \in H
      PROVE  \E i \in 1 .. m : x \in WhoGoes(n, t, a, s[2 * i - 1])
  BY DEF GoneIn, s
<1>4. ASSUME NEW i \in 1 .. m, NEW x \in WhoGoes(n, t, a, s[2 * i - 1])
      PROVE  x \in H
  BY DEF GoneIn, s
<1> HIDE DEF H
<1>5. ASSUME NEW i \in 1 .. m, NEW x \in WhoGoes(n, t, a, s[2 * i - 1])
      PROVE  /\ x \in 1 .. n /\ c < x
             /\ \/ x = s[2 * i - 1]
                \/ /\ t[x].parent \in WhoGoes(n, t, a, s[2 * i - 1]) /\ t[x].parent \in 1 .. (x - 1)
                   /\ Recursed(a[t[x].parent], x)
  <2> DEFINE y == s[2 * i - 1]
  <2>1. y \in 1 .. n /\ c < y
    BY <1>1, <1>2
  <2> HIDE DEF y
  <2>2. x \in WhoGoes(n, t, a, y)
    BY DEF y
  <2>3. /\ x \in 1 .. n /\ y <= x
        /\ x # y => /\ t[x].parent \in WhoGoes(n, t, a, y) /\ t[x].parent \in 1 .. (x - 1)
                    /\ Recursed(a[t[x].parent], x)
    BY <2>1, <2>2, WhoGoesHangs
  <2>4. c < x
    BY <2>1, <2>3
  <2> QED
    BY <2>3, <2>4 DEF y
<1>6. \A x \in H : x \in 1 .. n /\ c < x
  BY <1>3, <1>5
<1>7. ASSUME NEW x \in H
      PROVE  \/ x \in Odd(s, m)
             \/ /\ t[x].parent \in H /\ t[x].parent \in 1 .. (x - 1)
                /\ Recursed(a[t[x].parent], x)
  <2>1. PICK i \in 1 .. m : x \in WhoGoes(n, t, a, s[2 * i - 1])
    BY <1>3
  <2> QED
    BY <1>2, <1>4, <1>5, <2>1
<1>8. ToSet(s) \cap H \subseteq Odd(s, m)
  <2>1. ASSUME NEW x \in ToSet(s), x \in H, x \notin Odd(s, m) PROVE FALSE
    <3>1. t[x].parent = c /\ t[x].parent \in H
      BY <1>1, <1>7, <2>1
    <3> QED
      BY <1>6, <3>1
  <2> QED
    BY <2>1
<1>9. Odd(s, m) \subseteq ToSet(s) \cap H
  <2>1. ASSUME NEW i \in 1 .. m PROVE s[2 * i - 1] \in ToSet(s) \cap H
    <3>1. s[2 * i - 1] \in WhoGoes(n, t, a, s[2 * i - 1])
      <4> DEFINE y == s[2 * i - 1]
      <4>1. y \in 1 .. n
        BY <1>2
      <4> HIDE DEF y
      <4>2. y \in WhoGoes(n, t, a, y)
        BY <4>1, WhoGoesHangs
      <4> QED
        BY <4>2 DEF y
    <3> QED
      BY <1>2, <1>4, <3>1
  <2> QED
    BY <2>1 DEF Odd
<1> QED
  BY <1>6, <1>7, <1>8, <1>9 DEF s, H

(* After m rounds r is left of s: where the next round finds its child. *)
NextChild(s, r, m) ==
  /\ Len(r) = Len(s) - m
  /\ 2 * m + 1 <= Len(s) =>
       /\ m + 1 \in DOMAIN r /\ 2 * m + 1 \in DOMAIN s
       /\ r[m + 1] = s[2 * m + 1]
       /\ \A i \in 1 .. m : 2 * i - 1 \in DOMAIN s /\ 2 * i - 1 # 2 * m + 1

LEMMA OddCut ==
  ASSUME NEW V, NEW s \in Seq(V), IsInjective(s), NEW m \in Nat, 2 * m - 1 <= Len(s),
         NEW H, ToSet(s) \cap H = Odd(s, m)
  PROVE  Remaining(s, H) \in Seq(V) /\ NextChild(s, Remaining(s, H), m)
<1> DEFINE r == Remaining(s, Odd(s, m))
           q == Remaining(s, H)
           L == Len(s)
<1>1. /\ r \in Seq(V) /\ Len(r) = L - m
      /\ \A i \in 1 .. (L - m) : r[i] = IF i <= m THEN s[2 * i] ELSE s[i + m]
  BY OddGone
<1>2. q = r
  <2>1. Odd(s, m) \subseteq ToSet(s)
    BY ONLY ToSet(s) \cap H = Odd(s, m)
  <2>2. ToSet(s) \cap H = ToSet(s) \cap Odd(s, m)
    BY <2>1
  <2> QED
    BY <2>2, RemainingSame
<1>3. L \in Nat /\ DOMAIN s = 1 .. L /\ 2 * m - 1 <= L
  BY LenProperties
<1> HIDE DEF r, q, L
<1>4. DOMAIN r = 1 .. (L - m)
  BY <1>1, LenProperties
<1>5. ASSUME 2 * m + 1 <= L
      PROVE  /\ m + 1 \in DOMAIN q /\ 2 * m + 1 \in DOMAIN s
             /\ q[m + 1] = s[2 * m + 1]
             /\ \A i \in 1 .. m : 2 * i - 1 \in DOMAIN s /\ 2 * i - 1 # 2 * m + 1
  <2>1. m + 1 \in 1 .. (L - m) /\ 2 * m + 1 \in 1 .. L /\ ~ (m + 1 <= m) /\ (m + 1) + m = 2 * m + 1
    BY <1>3, <1>5
  <2>2. \A i \in 1 .. m : 2 * i - 1 \in 1 .. L /\ 2 * i - 1 # 2 * m + 1
    BY <1>3, <1>5
  <2>3. r[m + 1] = s[(m + 1) + m]
    BY <1>1, <2>1
  <2> QED
    BY <1>2, <1>3, <1>4, <2>1, <2>2, <2>3
<1> QED
  BY <1>1, <1>2, <1>5 DEF q, L, NextChild

(* A round of the loop comes to the first child of those that were never   *)
(* reached and are still in their place behind the skipped ones.           *)
LEMMA Round ==
  ASSUME NEW n \in Nat, NEW t, NEW a, Fit(n, t, a), NEW c \in 1 .. n, t[c].isDir,
         NEW removed, Removes(n, t, removed, n - c), NEW m \in Nat, 2 * m - 1 <= Len(a[c]),
         NEW b, b = Cut(n, a, GoneIn(n, t, a, c, m))
  PROVE  /\ b[c] \in Seq(1 .. n) /\ Len(b[c]) = Len(a[c]) - m
         /\ 2 * m + 1 <= Len(a[c]) =>
              removed[<<b, c, b[c][m + 1]>>] = Cut(n, a, GoneIn(n, t, a, c, m + 1))
<1> DEFINE s == a[c]
           H == GoneIn(n, t, a, c, m)
           r == b[c]
           L == Len(s)
<1>1. s \in Seq(1 .. n) /\ L \in Nat /\ IsInjective(s) /\ DOMAIN s = 1 .. L
      /\ \A y \in ToSet(s) : t[y].parent = c /\ c < y
  BY DEF Fit
<1>2. ToSet(s) \cap H = Odd(s, m)
  BY RoundsGone
<1>3. Fit(n, t, b) /\ r = Remaining(s, H)
  BY CutFits
<1>4. 2 * m - 1 <= L
  OBVIOUS
<1> HIDE DEF s, H
<1>5. /\ r \in Seq(1 .. n) /\ Len(r) = L - m
      /\ 2 * m + 1 <= L =>
           /\ m + 1 \in DOMAIN r /\ 2 * m + 1 \in DOMAIN s
           /\ r[m + 1] = s[2 * m + 1]
           /\ \A i \in 1 .. m : 2 * i - 1 \in DOMAIN s /\ 2 * i - 1 # 2 * m + 1
  <2>1. r \in Seq(1 .. n) /\ NextChild(s, r, m)
    <3> HIDE DEF r
    <3> QED
      BY <1>1, <1>2, <1>3, <1>4, OddCut
  <2> HIDE DEF r
  <2> QED
    BY <2>1 DEF NextChild
<1>6. ASSUME 2 * m + 1 <= L
      PROVE  removed[<<b, c, r[m + 1]>>] = Cut(n, a, GoneIn(n, t, a, c, m + 1))
  <2> DEFINE x == s[2 * m + 1]
             X == WhoGoes(n, t, a, x)
  <2>1. /\ m + 1 \in DOMAIN r /\ 2 * m + 1 \in DOMAIN s /\ r[m + 1] = x
        /\ \A i \in 1 .. m : 2 * i - 1 \in DOMAIN s /\ 2 * i - 1 # 2 * m + 1
    BY <1>5, <1>6
  <2> HIDE DEF L, r
  <2>2. x \in ToSet(s)
    BY <2>1 DEF ToSet
  <2>3. x \in 1 .. n /\ c < x
    <3>1. ToSet(s) \subseteq 1 .. n
      BY <1>1 DEF ToSet
    <3> HIDE DEF x
    <3> QED
      BY <1>1, <2>2, <3>1
  <2>4. x \in ToSet(r)
    BY <2>1 DEF ToSet
  <2>5. removed[<<b, c, x>>] = Cut(n, b, WhoGoes(n, t, b, x))
    <3> HIDE DEF x
    <3>1. n - x < n - c
      BY <2>3
    <3>2. x \in ToSet(b[c])
      BY <2>4 DEF r
    <3> QED
      BY <1>3, <2>3, <3>1, <3>2 DEF Removes
  <2>6. \A e \in X : ToSet(a[e]) \cap H = {}
    <3>1. ASSUME NEW e \in X, NEW i \in 1 .. m
          PROVE  ToSet(a[e]) \cap WhoGoes(n, t, a, s[2 * i - 1]) = {}
      <4> DEFINE j == 2 * i - 1
                 k == 2 * m + 1
                 y == s[j]
      <4>1. j \in DOMAIN s /\ j # k /\ k \in DOMAIN s
        BY <2>1
      <4> HIDE DEF j, k
      <4>2. y \in ToSet(s) /\ y # s[k]
        BY <1>1, <4>1 DEF ToSet, IsInjective
      <4>3. y \in ToSet(s) /\ y # x
        BY <4>2 DEF k
      <4> HIDE DEF x, y
      <4>4. ToSet(a[e]) \cap WhoGoes(n, t, a, y) = {}
        <5>1. x \in ToSet(a[c]) /\ y \in ToSet(a[c])
          BY <2>2, <4>3 DEF s
        <5> QED
          BY <4>3, <5>1, SiblingsApart
      <4> QED
        BY <4>4 DEF y, j
    <3> HIDE DEF X
    <3>2. \A w \in H : \E i \in 1 .. m : w \in WhoGoes(n, t, a, s[2 * i - 1])
      BY DEF H, GoneIn, s
    <3> QED
      BY <3>1, <3>2
  <2>7. WhoGoes(n, t, b, x) = X
    <3> HIDE DEF x
    <3>1. b = Cut(n, a, H)
      BY DEF H
    <3> QED
      BY <2>3, <2>6, <3>1, WhoGoesStays
  <2>8. Cut(n, b, X) = Cut(n, a, H \cup X)
    <3> HIDE DEF X
    <3>1. b = Cut(n, a, H)
      BY DEF H
    <3> QED
      BY <3>1, CutFits
  <2>9. GoneIn(n, t, a, c, m + 1) = H \cup X
    <3>1. \A i : i \in 1 .. (m + 1) <=> i \in 1 .. m \/ i = m + 1
      OBVIOUS
    <3>2. 2 * (m + 1) - 1 = 2 * m + 1
      OBVIOUS
    <3> QED
      BY <3>1, <3>2 DEF GoneIn, H, s
  <2> HIDE DEF X, x
  <2> QED
    BY <2>1, <2>5, <2>7, <2>8, <2>9
<1> QED
  BY <1>5, <1>6 DEF s, r, L

(* What the loop over the children of c has after its j-th round. *)
Looping(n, removed, a, c, f) ==
  /\ f[0] = a
  /\ \A j \in 1 .. Len(a[c]) :
       f[j] = IF j > Len(f[j - 1][c]) THEN f[j - 1]
              ELSE removed[<<f[j - 1], c, f[j - 1][c][j]>>]
  /\ RemoveAll(removed, a, c) = f[Len(a[c])]

LEMMA RemoveAllUnfolds ==
  ASSUME NEW n \in Nat, NEW a \in [1 .. n -> Seq(1 .. n)], NEW c \in 1 .. n,
         NEW removed \in [CallsOf(n) -> [1 .. n -> Seq(1 .. n)]]
  PROVE  \E f : Looping(n, removed, a, c, f)
<1> DEFINE L == Len(a[c])
           V == [1 .. n -> Seq(1 .. n)]
           R(j, x) == IF j > Len(x[c]) THEN x ELSE removed[<<x, c, x[c][j]>>]
           step == [j \in 1 .. L |-> [x \in V |-> R(j, x)]]
           Loops(f) == f = [j \in 0 .. L |->
                              IF j = 0 THEN a
                              ELSE IF j > Len(f[j - 1][c]) THEN f[j - 1]
                              ELSE removed[<<f[j - 1], c, f[j - 1][c][j]>>]]
<1>0. L \in Nat
  OBVIOUS
<1>1. ASSUME NEW j \in 1 .. L, NEW x \in V PROVE R(j, x) \in V
  <2>1. x[c] \in Seq(1 .. n)
    OBVIOUS
  <2>2. CASE ~ (j > Len(x[c]))
    <3>1. x[c][j] \in 1 .. n
      <4> DEFINE s == x[c]
      <4>1. s \in Seq(1 .. n) /\ ~ (j > Len(s)) /\ j \in Nat /\ 1 <= j
        BY <1>0, <2>1, <2>2
      <4> HIDE DEF s
      <4>2. Len(s) \in Nat /\ DOMAIN s = 1 .. Len(s)
        BY <4>1, LenProperties
      <4>3. j \in DOMAIN s
        BY <4>1, <4>2
      <4>4. s[j] \in 1 .. n
        BY <4>1, <4>2, <4>3, ElementOfSeq
      <4> QED
        BY <4>4 DEF s
    <3>2. <<x, c, x[c][j]>> \in CallsOf(n)
      BY <3>1 DEF CallsOf
    <3> QED
      BY <2>2, <3>2
  <2> QED
    BY <2>2
<1>2. step \in [1 .. L -> [V -> V]]
  <2> HIDE DEF R, V
  <2> QED
    BY <1>1
<1>3. PICK f0 : Iterates(f0, L, V, a, step)
  <2> HIDE DEF step, L
  <2> QED
    BY <1>0, <1>2, Iteration
<1>4. ASSUME NEW j \in 1 .. L
      PROVE  step[j][f0[j - 1]] = R(j, f0[j - 1])
  <2>1. j - 1 \in 0 .. L
    BY <1>0
  <2>2. f0[j - 1] \in V
    BY <1>3, <2>1 DEF Iterates
  <2> HIDE DEF R, V
  <2> QED
    BY <2>2
<1>5. Loops(f0)
  <2> HIDE DEF step, V
  <2>1. \A j \in 0 .. L : j # 0 => j \in 1 .. L
    OBVIOUS
  <2>2. \A j \in 0 .. L : f0[j] = IF j = 0 THEN a
                                  ELSE IF j > Len(f0[j - 1][c]) THEN f0[j - 1]
                                  ELSE removed[<<f0[j - 1], c, f0[j - 1][c][j]>>]
    BY <1>3, <1>4, <2>1 DEF Iterates
  <2> QED
    BY <1>3, <2>2 DEF Iterates
<1> DEFINE k == CHOOSE f : Loops(f)
<1>6. Loops(k)
  <2> HIDE DEF Loops
  <2> QED
    BY <1>5
<1>7. RemoveAll(removed, a, c) = k[L]
  BY DEF RemoveAll
<1> HIDE DEF k
<1>8. k[0] = a /\ \A j \in 1 .. L :
        k[j] = IF j > Len(k[j - 1][c]) THEN k[j - 1]
               ELSE removed[<<k[j - 1], c, k[j - 1][c][j]>>]
  <2>1. 0 \in 0 .. L /\ \A j \in 1 .. L : j \in 0 .. L /\ j # 0
    BY <1>0
  <2> HIDE DEF L
  <2> QED
    BY <1>6, <2>1
<1> QED
  BY <1>7, <1>8 DEF Looping

(* Where the loop is after j rounds: it has taken out every other child up *)
(* to the 2m-1st, and m is j unless there was no further one to come to.   *)
After(n, t, a, c, j, m, b) ==
  /\ m \in Nat /\ 2 * m - 1 <= Len(a[c])
  /\ b = Cut(n, a, GoneIn(n, t, a, c, m))
  /\ m = j \/ (m <= j /\ 2 * m + 1 > Len(a[c]))

LEMMA AllRounds ==
  ASSUME NEW n \in Nat, NEW t, NEW a, Fit(n, t, a), NEW c \in 1 .. n, t[c].isDir,
         NEW removed \in [CallsOf(n) -> [1 .. n -> Seq(1 .. n)]], Removes(n, t, removed, n - c)
  PROVE  \E m \in Nat : /\ 2 * m - 1 <= Len(a[c]) /\ 2 * m + 1 > Len(a[c])
                        /\ RemoveAll(removed, a, c) = Cut(n, a, GoneIn(n, t, a, c, m))
<1> DEFINE L == Len(a[c])
<1>0. a \in [1 .. n -> Seq(1 .. n)] /\ a[c] \in Seq(1 .. n) /\ L \in Nat
  BY DEF Fit
<1>1. PICK f : Looping(n, removed, a, c, f)
  BY <1>0, RemoveAllUnfolds
<1> DEFINE S == {j \in 0 .. L : \E m : After(n, t, a, c, j, m, f[j])}
<1>2. 0 \in S
  <2>1. f[0] = a
    BY <1>1 DEF Looping
  <2>2. Cut(n, a, GoneIn(n, t, a, c, 0)) = a
    <3>1. GoneIn(n, t, a, c, 0) = {}
      BY DEF GoneIn
    <3>2. \A e \in 1 .. n : Remaining(a[e], {}) = a[e]
      <4>1. ASSUME NEW e \in 1 .. n PROVE Remaining(a[e], {}) = a[e]
        <5>1. a[e] \in Seq(1 .. n) /\ ToSet(a[e]) \cap {} = {}
          BY <1>0
        <5> QED
          BY <5>1, RemainingOfOthers
      <4> QED
        BY <4>1
    <3> QED
      BY <1>0, <3>1, <3>2 DEF Cut
  <2>3. After(n, t, a, c, 0, 0, f[0])
    <3>1. 2 * 0 - 1 <= Len(a[c])
      BY <1>0
    <3> QED
      BY <2>1, <2>2, <3>1 DEF After
  <2> QED
    BY <1>0, <2>3
<1>3. ASSUME NEW j \in 0 .. (L - 1), j \in S
      PROVE  j + 1 \in S
  <2>0. j + 1 \in 1 .. L /\ j + 1 \in 0 .. L /\ (j + 1) - 1 = j /\ j \in Nat
    BY <1>0
  <2>1. PICK m : After(n, t, a, c, j, m, f[j])
    BY <1>3
  <2> DEFINE b == f[j]
  <2>2. f[j + 1] = IF j + 1 > Len(b[c]) THEN b ELSE removed[<<b, c, b[c][j + 1]>>]
    BY <1>1, <2>0 DEF Looping
  <2>3. /\ m \in Nat /\ 2 * m - 1 <= L /\ b = Cut(n, a, GoneIn(n, t, a, c, m))
        /\ m = j \/ (m <= j /\ 2 * m + 1 > L)
    BY <2>1 DEF After
  <2> HIDE DEF b
  <2>4. /\ Len(b[c]) = L - m
        /\ 2 * m + 1 <= L =>
             removed[<<b, c, b[c][m + 1]>>] = Cut(n, a, GoneIn(n, t, a, c, m + 1))
    BY <2>3, Round
  <2> HIDE DEF L
  <2>5. CASE 2 * m + 1 <= L
    <3>1. m = j /\ ~ (j + 1 > L - m) /\ 2 * (m + 1) - 1 <= L
      BY <1>0, <2>0, <2>3, <2>5
    <3>2. f[j + 1] = Cut(n, a, GoneIn(n, t, a, c, m + 1))
      <4>1. ~ (j + 1 > Len(b[c]))
        BY <2>4, <3>1
      <4> QED
        BY <2>2, <2>4, <2>5, <3>1, <4>1
    <3>3. After(n, t, a, c, j + 1, m + 1, f[j + 1])
      BY <2>3, <3>1, <3>2 DEF After, L
    <3> QED
      BY <2>0, <3>3
  <2>6. CASE ~ (2 * m + 1 <= L)
    <3>1. j + 1 > L - m /\ m <= j + 1 /\ 2 * m + 1 > L
      BY <1>0, <2>0, <2>3, <2>6
    <3>3. j + 1 > Len(b[c])
      BY <2>4, <3>1
    <3>2. After(n, t, a, c, j + 1, m, f[j + 1])
      BY <2>2, <2>3, <3>1, <3>3 DEF After, L
    <3> QED
      BY <2>0, <3>2
  <2> QED
    BY <2>5, <2>6
<1>4. L \in S
  <2>1. \A j \in 0 .. (L - 1) : j \in S => j + 1 \in S
    BY <1>3
  <2>2. L \in 0 .. L
    BY <1>0
  <2> HIDE DEF S, L
  <2>3. 0 .. L \subseteq S
    BY <1>0, <1>2, <2>1, Induction
  <2> QED
    BY <2>2, <2>3
<1>5. PICK m : After(n, t, a, c, L, m, f[L])
  BY <1>4
<1>6. m \in Nat /\ 2 * m - 1 <= L /\ 2 * m + 1 > L
  <2>1. m \in Nat /\ 2 * m - 1 <= L /\ (m = L \/ 2 * m + 1 > L)
    BY <1>5 DEF After
  <2> HIDE DEF L
  <2> QED
    BY <1>0, <2>1
<1>7. RemoveAll(removed, a, c) = Cut(n, a, GoneIn(n, t, a, c, m))
  BY <1>1, <1>5 DEF Looping, After
<1> QED
  BY <1>6, <1>7

(* Who goes with c: those that went in the rounds of its loop. *)
LEMMA WhoGoesInRounds ==
  ASSUME NEW n \in Nat, NEW t, NEW a, Fit(n, t, a), NEW c \in 1 .. n,
         NEW m \in Nat, 2 * m - 1 <= Len(a[c]), 2 * m + 1 > Len(a[c])
  PROVE  WhoGoes(n, t, a, c) = {c} \cup GoneIn(n, t, a, c, m)
<1> DEFINE s == a[c]
           H == GoneIn(n, t, a, c, m)
           G == {c} \cup H
           L == Len(s)
<1>1. s \in Seq(1 .. n) /\ L \in Nat /\ DOMAIN s = 1 .. L
      /\ \A y \in ToSet(s) : t[y].parent = c /\ c < y
  BY DEF Fit
<1>2. 2 * m - 1 <= L /\ 2 * m + 1 > L
  OBVIOUS
<1>3. /\ \A x \in H : x \in 1 .. n /\ c < x
      /\ \A x \in H :
           \/ x \in Odd(s, m)
           \/ /\ t[x].parent \in H /\ t[x].parent \in 1 .. (x - 1)
              /\ Recursed(a[t[x].parent], x)
  BY RoundsGone
<1>4. \A x : x \in H <=> \E i \in 1 .. m : x \in WhoGoes(n, t, a, s[2 * i - 1])
  BY DEF GoneIn
<1> HIDE DEF s, H, L
<1>5. ASSUME NEW i \in 1 .. m
      PROVE  2 * i - 1 \in 1 .. L /\ s[2 * i - 1] \in ToSet(s) /\ (2 * i - 1) % 2 = 1
             /\ s[2 * i - 1] \in 1 .. n
  <2>1. 2 * i - 1 \in 1 .. L /\ (2 * i - 1) % 2 = 1
    BY <1>1, <1>2
  <2> DEFINE k == 2 * i - 1
  <2>2. k \in DOMAIN s
    BY <1>1, <2>1
  <2> HIDE DEF k
  <2>3. s[k] \in ToSet(s) /\ s[k] \in 1 .. n
    <3>1. s[k] \in 1 .. n
      BY <1>1, <2>2, ElementOfSeq DEF L
    <3> QED
      BY <2>2, <3>1 DEF ToSet
  <2> QED
    BY <2>1, <2>3 DEF k
<1>6. ASSUME NEW x \in H
      PROVE  /\ t[x].parent \in 1 .. (x - 1) /\ t[x].parent \in G
             /\ Recursed(a[t[x].parent], x)
  <2>1. CASE x \in Odd(s, m)
    <3>1. PICK i \in 1 .. m : x = s[2 * i - 1]
      BY <2>1 DEF Odd
    <3>2. t[x].parent = c /\ c < x /\ x \in 1 .. n
      BY <1>1, <1>5, <3>1
    <3>3. Recursed(s, x)
      <4> DEFINE k == 2 * i - 1
      <4>1. k \in DOMAIN s /\ k % 2 = 1 /\ x = s[k]
        BY <1>1, <1>5, <3>1
      <4> HIDE DEF k
      <4> QED
        BY <4>1 DEF Recursed
    <3>4. c \in 1 .. (x - 1)
      BY <3>2
    <3> QED
      BY <3>2, <3>3, <3>4 DEF s
  <2> QED
    BY <1>3, <2>1
<1>7. ASSUME NEW x \in 1 .. n, t[x].parent \in 1 .. (x - 1), t[x].parent \in G,
             Recursed(a[t[x].parent], x)
      PROVE  x \in H
  <2>1. CASE t[x].parent = c
    <3>1. PICK k \in DOMAIN s : s[k] = x /\ k % 2 = 1
      BY <1>7, <2>1 DEF Recursed, s
    <3>2. PICK i \in 1 .. m : k = 2 * i - 1
      <4>1. k \in 1 .. L
        BY <1>1, <3>1
      <4>2. k \in Nat /\ k % 2 = 1 /\ 1 <= k /\ k <= L
        BY <1>1, <3>1, <4>1
      <4> DEFINE h == k \div 2
      <4>3. k = 2 * h + 1 /\ h \in Nat
        <5>1. k = 2 * (k \div 2) + (k % 2) /\ k \div 2 \in Nat
          BY <4>2
        <5> QED
          BY <4>2, <5>1
      <4> HIDE DEF h
      <4>4. h + 1 \in 1 .. m /\ k = 2 * (h + 1) - 1
        BY <1>1, <1>2, <4>2, <4>3
      <4> QED
        BY <4>4
    <3>3. x \in WhoGoes(n, t, a, x)
      BY WhoGoesHangs
    <3> QED
      BY <1>4, <3>1, <3>2, <3>3
  <2>2. CASE t[x].parent \in H
    <3>1. PICK i \in 1 .. m : t[x].parent \in WhoGoes(n, t, a, s[2 * i - 1])
      BY <1>4, <2>2
    <3> DEFINE y == s[2 * i - 1]
    <3>2. Goes(n, t, a, y, WhoGoes(n, t, a, y))
      BY WhoGoesIs
    <3>3. t[x].parent \in WhoGoes(n, t, a, y)
      BY <3>1
    <3> HIDE DEF y
    <3>4. x \in WhoGoes(n, t, a, y)
      BY <1>7, <3>2, <3>3 DEF Goes
    <3> QED
      BY <1>4, <3>4 DEF y
  <2> QED
    BY <1>7, <2>1, <2>2
<1>8. Goes(n, t, a, c, G)
  BY <1>3, <1>6, <1>7 DEF Goes
<1> HIDE DEF G
<1>9. WhoGoes(n, t, a, c) = G
  BY <1>8, WhoGoesOnly
<1> QED
  BY <1>9 DEF G, H

(* One call takes out the child and who goes with it. *)
LEMMA OneCall ==
  ASSUME NEW n \in Nat, NEW t, NEW a, Fit(n, t, a), NEW d \in 1 .. n, t[d].isDir,
         NEW c \in ToSet(a[d]),
         NEW removed \in [CallsOf(n) -> [1 .. n -> Seq(1 .. n)]], Removes(n, t, removed, n - c)
  PROVE  RemoveOne(t, removed, a, d, c) = Cut(n, a, WhoGoes(n, t, a, c))
<1> DEFINE s == a[d]
           below == IF t[c].isDir THEN RemoveAll(removed, a, c) ELSE a
           slot == FirstSlot(s, c)
<1>0. c \in 1 .. n /\ a[d] \in Seq(1 .. n)
  <2>1. a[d] \in Seq(1 .. n)
    BY DEF Fit
  <2> QED
    BY <2>1 DEF ToSet
<1>1. /\ a \in [1 .. n -> Seq(1 .. n)] /\ \A e \in 1 .. n : a[e] \in Seq(1 .. n)
      /\ s \in Seq(1 .. n) /\ IsInjective(s)
      /\ c \in 1 .. n /\ t[c].parent = d /\ d < c
      /\ \A e \in 1 .. n : \A y \in ToSet(a[e]) : t[y].parent = e /\ e < y
  <2>1. a \in [1 .. n -> Seq(1 .. n)]
    BY DEF Fit
  <2>2. s \in Seq(1 .. n)
    BY <2>1
  <2>3. c \in 1 .. n
    BY <2>2 DEF ToSet
  <2> QED
    BY <2>1, <2>2, <2>3 DEF Fit
<1>2. PICK H : /\ below = Cut(n, a, H) /\ WhoGoes(n, t, a, c) = {c} \cup H
               /\ \A x \in H : x \in 1 .. n /\ c < x
               /\ \A x \in H : t[x].parent = c \/ t[x].parent \in H
  <2>1. CASE t[c].isDir
    <3>1. PICK m \in Nat : /\ 2 * m - 1 <= Len(a[c]) /\ 2 * m + 1 > Len(a[c])
                           /\ RemoveAll(removed, a, c) = Cut(n, a, GoneIn(n, t, a, c, m))
      BY <1>0, <2>1, AllRounds
    <3> DEFINE H == GoneIn(n, t, a, c, m)
    <3>2. below = Cut(n, a, H)
      BY <2>1, <3>1
    <3>3. WhoGoes(n, t, a, c) = {c} \cup H
      BY <1>0, <3>1, WhoGoesInRounds
    <3>4. /\ \A x \in H : x \in 1 .. n /\ c < x
          /\ \A x \in H : x \in Odd(a[c], m) \/ t[x].parent \in H
          /\ ToSet(a[c]) \cap H = Odd(a[c], m)
      <4>1. /\ ToSet(a[c]) \cap H = Odd(a[c], m)
            /\ \A x \in H : x \in 1 .. n /\ c < x
            /\ \A x \in H :
                 \/ x \in Odd(a[c], m)
                 \/ /\ t[x].parent \in H /\ t[x].parent \in 1 .. (x - 1)
                    /\ Recursed(a[t[x].parent], x)
        BY <1>0, <3>1, RoundsGone
      <4> HIDE DEF H
      <4> QED
        BY <4>1
    <3> HIDE DEF H, below
    <3>5. \A x \in H : t[x].parent = c \/ t[x].parent \in H
      BY <1>1, <3>4
    <3> QED
      BY <3>2, <3>3, <3>4, <3>5
  <2>2. CASE ~ t[c].isDir
    <3>1. below = Cut(n, a, {})
      <4>1. ASSUME NEW e \in 1 .. n PROVE Remaining(a[e], {}) = a[e]
        <5>1. a[e] \in Seq(1 .. n) /\ ToSet(a[e]) \cap {} = {}
          BY <1>1
        <5> QED
          BY <5>1, RemainingOfOthers
      <4>2. Cut(n, a, {}) = a
        BY <1>1, <4>1 DEF Cut
      <4> QED
        BY <2>2, <4>2
    <3>2. a[c] = << >>
      BY <1>1, <2>2 DEF Fit
    <3> DEFINE m == 0
    <3>3. m \in Nat /\ 2 * m - 1 <= Len(a[c]) /\ 2 * m + 1 > Len(a[c])
      <4>1. Len(a[c]) = 0
        BY <3>2
      <4> QED
        BY <4>1
    <3>5. GoneIn(n, t, a, c, m) = {}
      BY DEF GoneIn
    <3> HIDE DEF m
    <3>4. WhoGoes(n, t, a, c) = {c} \cup GoneIn(n, t, a, c, m)
      BY <1>0, <3>3, WhoGoesInRounds
    <3> HIDE DEF below
    <3> QED
      BY <3>1, <3>4, <3>5
  <2> QED
    BY <2>1, <2>2
<1>20. d \notin H /\ d # c
  BY <1>1, <1>2
<1>3. slot \in DOMAIN s /\ s[slot] = c
  <2> HIDE DEF s
  <2>1. PICK i \in DOMAIN s : s[i] = c
    BY DEF ToSet, s
  <2>2. DOMAIN s = 1 .. Len(s) /\ Len(s) \in Nat
    BY <1>1
  <2>3. \A j \in 1 .. (i - 1) : s[j] # c
    <3>1. ASSUME NEW j \in 1 .. (i - 1) PROVE j \in DOMAIN s /\ j # i
      BY <2>1, <2>2
    <3> QED
      BY <1>1, <2>1, <3>1 DEF IsInjective
  <2> QED
    BY <2>1, <2>3 DEF FirstSlot
<1>4. Contains(s, c)
  <2> HIDE DEF s, slot
  <2>1. DOMAIN s = 1 .. Len(s)
    BY <1>1
  <2> QED
    BY <1>3, <2>1 DEF Contains
<1>5. RemoveOne(t, removed, a, d, c) = [below EXCEPT ![d] = Shifted(@, slot)]
  BY <1>4 DEF RemoveOne
<1> HIDE DEF below
<1>6. \A e \in 1 .. n : below[e] = Remaining(a[e], H)
  BY <1>2, CutFits
<1>7. below[d] = s
  <2>1. ToSet(s) \cap H = {}
    <3>1. ASSUME NEW x \in ToSet(s), x \in H PROVE FALSE
      <4>1. t[x].parent = d
        BY <1>1
      <4> QED
        BY <1>2, <1>20, <3>1, <4>1
    <3> QED
      BY <3>1
  <2>2. Remaining(s, H) = s
    <3> HIDE DEF s
    <3> QED
      BY <1>1, <2>1, RemainingOfOthers
  <2> QED
    BY <1>6, <2>2
<1> DEFINE G == {c} \cup H
<1>8. Remaining(s, G) = Shifted(s, slot)
  <2>1. ToSet(s) \cap G = {c}
    <3>1. ASSUME NEW x \in ToSet(s), x \in H PROVE FALSE
      <4>1. t[x].parent = d
        BY <1>1
      <4> QED
        BY <1>2, <1>20, <3>1, <4>1
    <3> QED
      BY <3>1
  <2> HIDE DEF s, G, slot
  <2>2. ToSet(s) \cap G = {s[slot]}
    BY <1>3, <2>1
  <2> QED
    BY <1>1, <1>3, <2>2, RemainingShifts
<1>9. ASSUME NEW e \in 1 .. n, e # d PROVE Remaining(a[e], G) = Remaining(a[e], H)
  <2> DEFINE q == a[e]
  <2>1. c \notin ToSet(q)
    BY <1>1, <1>9
  <2>2. ToSet(q) \cap G = ToSet(q) \cap H
    BY <2>1
  <2>3. q \in Seq(1 .. n)
    BY <1>1
  <2> HIDE DEF G, q
  <2>4. Remaining(q, G) = Remaining(q, H)
    BY <2>2, <2>3, RemainingSame
  <2> QED
    BY <2>4 DEF q
<1>10. DOMAIN below = 1 .. n
  BY <1>2 DEF Cut
<1> HIDE DEF s, slot, G
<1>11. [below EXCEPT ![d] = Shifted(@, slot)] = Cut(n, a, G)
  <2>1. [below EXCEPT ![d] = Shifted(@, slot)] =
          [e \in 1 .. n |-> IF e = d THEN Shifted(s, slot) ELSE below[e]]
    BY <1>7, <1>10
  <2>2. ASSUME NEW e \in 1 .. n
        PROVE  Remaining(a[e], G) = IF e = d THEN Shifted(s, slot) ELSE below[e]
    BY <1>6, <1>8, <1>9 DEF s
  <2> QED
    BY <2>1, <2>2 DEF Cut
<1> QED
  BY <1>2, <1>5, <1>11 DEF G

-----------------------------------------------------------------------------
(* The recursion: one level after the other *)

LEMMA RemoveAllTyped ==
  ASSUME NEW n \in Nat, NEW a \in [1 .. n -> Seq(1 .. n)], NEW c \in 1 .. n,
         NEW removed \in [CallsOf(n) -> [1 .. n -> Seq(1 .. n)]]
  PROVE  RemoveAll(removed, a, c) \in [1 .. n -> Seq(1 .. n)]
<1> DEFINE L == Len(a[c])
           V == [1 .. n -> Seq(1 .. n)]
<1>0. a[c] \in Seq(1 .. n) /\ L \in Nat
  OBVIOUS
<1>1. PICK f : Looping(n, removed, a, c, f)
  BY RemoveAllUnfolds
<1> DEFINE S == {j \in 0 .. L : f[j] \in V}
<1>2. 0 \in S
  BY <1>0, <1>1 DEF Looping
<1>3. ASSUME NEW j \in 0 .. (L - 1), j \in S PROVE j + 1 \in S
  <2>1. j + 1 \in 1 .. L /\ j + 1 \in 0 .. L /\ (j + 1) - 1 = j
    BY <1>0
  <2> DEFINE b == f[j]
  <2>2. f[j + 1] = IF j + 1 > Len(b[c]) THEN b ELSE removed[<<b, c, b[c][j + 1]>>]
    BY <1>1, <2>1 DEF Looping
  <2>3. b \in V
    BY <1>3
  <2> HIDE DEF b
  <2>4. b[c] \in Seq(1 .. n)
    BY <2>3
  <2>5. CASE ~ (j + 1 > Len(b[c]))
    <3>1. b[c][j + 1] \in 1 .. n
      <4> DEFINE s == b[c]
                 i == j + 1
      <4>1. s \in Seq(1 .. n) /\ ~ (i > Len(s)) /\ i \in Nat /\ 1 <= i
        BY <2>1, <2>4, <2>5
      <4> HIDE DEF s, i
      <4>2. Len(s) \in Nat
        BY <4>1, LenProperties
      <4>3. i \in 1 .. Len(s)
        BY <4>1, <4>2
      <4>4. s[i] \in 1 .. n
        BY <4>1, <4>3, ElementOfSeq
      <4> QED
        BY <4>4 DEF s, i
    <3>2. <<b, c, b[c][j + 1]>> \in CallsOf(n)
      BY <2>3, <3>1 DEF CallsOf
    <3>3. f[j + 1] \in V
      BY <2>2, <2>5, <3>2
    <3> QED
      BY <2>1, <3>3
  <2>6. CASE j + 1 > Len(b[c])
    BY <2>1, <2>2, <2>3, <2>6
  <2> QED
    BY <2>5, <2>6
<1>4. L \in S
  <2>1. \A j \in 0 .. (L - 1) : j \in S => j + 1 \in S
    BY <1>3
  <2>2. L \in 0 .. L
    BY <1>0
  <2> HIDE DEF S, L
  <2>3. 0 .. L \subseteq S
    BY <1>0, <1>2, <2>1, Induction
  <2> QED
    BY <2>2, <2>3
<1> QED
  BY <1>1, <1>4 DEF Looping

LEMMA RemoveOneTyped ==
  ASSUME NEW n \in Nat, NEW t, NEW a \in [1 .. n -> Seq(1 .. n)],
         NEW d \in 1 .. n, NEW c \in 1 .. n,
         NEW removed \in [CallsOf(n) -> [1 .. n -> Seq(1 .. n)]]
  PROVE  RemoveOne(t, removed, a, d, c) \in [1 .. n -> Seq(1 .. n)]
<1> DEFINE below == IF t[c].isDir THEN RemoveAll(removed, a, c) ELSE a
           slot == FirstSlot(a[d], c)
           s == below[d]
           u == Shifted(s, slot)
<1>1. below \in [1 .. n -> Seq(1 .. n)]
  BY RemoveAllTyped
<1>2. s \in Seq(1 .. n)
  BY <1>1
<1>3. RemoveOne(t, removed, a, d, c) \in {a, [below EXCEPT ![d] = u]}
  BY DEF RemoveOne
<1> HIDE DEF below, slot, s
<1>4. u \in Seq(1 .. n)
  <2> DEFINE m == Len(s)
  <2>1. m \in Nat /\ DOMAIN s = 1 .. m
    BY <1>2, LenProperties
  <2>2. u = [j \in 1 .. (m - 1) |-> IF j < slot THEN s[j] ELSE s[j + 1]]
    BY DEF Shifted
  <2>3. ASSUME NEW j \in 1 .. (m - 1) PROVE s[j] \in 1 .. n /\ s[j + 1] \in 1 .. n
    <3>1. j \in 1 .. m /\ j + 1 \in 1 .. m
      BY <2>1
    <3> QED
      BY <1>2, <3>1, ElementOfSeq
  <2> HIDE DEF m, u
  <2>4. \E k \in Nat : 1 .. (m - 1) = 1 .. k
    <3>1. CASE m = 0
      <4>1. 1 .. (m - 1) = 1 .. 0 /\ 0 \in Nat
        BY <3>1
      <4> QED
        BY <4>1
    <3>2. CASE m # 0
      <4>1. m - 1 \in Nat
        BY <2>1, <3>2
      <4> QED
        BY <4>1
    <3> QED
      BY <3>1, <3>2
  <2>5. u \in [1 .. (m - 1) -> 1 .. n]
    BY <2>2, <2>3
  <2>6. PICK k \in Nat : 1 .. (m - 1) = 1 .. k
    BY <2>4
  <2>7. u \in [1 .. k -> 1 .. n]
    BY <2>5, <2>6
  <2> QED
    BY <2>7, SeqDef
<1> HIDE DEF u
<1> QED
  BY <1>1, <1>3, <1>4

(* What the calls make of the arrays, level by level. *)
Levels(n, t, r) ==
  /\ r \in [0 .. n -> [CallsOf(n) -> [1 .. n -> Seq(1 .. n)]]]
  /\ \A k \in 1 .. n : \A call \in CallsOf(n) :
       r[k][call] = RemoveOne(t, r[k - 1], call[1], call[2], call[3])
  /\ \A d, c : RemoveLoop(t, d, c) =
       [e \in Nodes(t) |-> [t[e] EXCEPT !.children =
          r[Len(t)][<<[x \in Nodes(t) |-> t[x].children], d, c>>][e]]]

LEMMA LevelsUnfold ==
  ASSUME NEW n \in Nat, NEW t, Nodes(t) = 1 .. n, Len(t) = n
  PROVE  \E r : Levels(n, t, r)
<1> DEFINE V == [1 .. n -> Seq(1 .. n)]
           C == CallsOf(n)
           W == [C -> V]
           first == [call \in C |-> call[1]]
           Next1(r) == [call \in C |-> RemoveOne(t, r, call[1], call[2], call[3])]
           step == [k \in 1 .. n |-> [r \in W |-> Next1(r)]]
           D == Arrays(t) \X Nodes(t) \X Nodes(t)
           Unfolds(f) == f = [k \in 0 .. Len(t) |-> [call \in D |->
                                 IF k = 0 THEN call[1]
                                 ELSE RemoveOne(t, f[k - 1], call[1], call[2], call[3])]]
<1>0. C = D /\ Len(t) = n
  BY DEF Arrays, CallsOf
<1>1. \A call \in C : call[1] \in V /\ call[2] \in 1 .. n /\ call[3] \in 1 .. n
  BY DEF CallsOf
<1>2. first \in W
  BY <1>1
<1>3. ASSUME NEW r \in W PROVE Next1(r) \in W
  <2>1. ASSUME NEW call \in C PROVE RemoveOne(t, r, call[1], call[2], call[3]) \in V
    BY <1>1, RemoveOneTyped
  <2> QED
    BY <2>1
<1>4. step \in [1 .. n -> [W -> W]]
  <2> HIDE DEF W, Next1
  <2> QED
    BY <1>3
<1>5. PICK f0 : Iterates(f0, n, W, first, step)
  <2> HIDE DEF step, W, first
  <2> QED
    BY <1>2, <1>4, Iteration
<1>6. ASSUME NEW k \in 1 .. n PROVE step[k][f0[k - 1]] = Next1(f0[k - 1])
  <2>1. k - 1 \in 0 .. n
    OBVIOUS
  <2>2. f0[k - 1] \in W
    BY <1>5, <2>1 DEF Iterates
  <2> HIDE DEF Next1, W
  <2> QED
    BY <2>2
<1>7. Unfolds(f0)
  <2> HIDE DEF step, W
  <2>1. \A k \in 0 .. n : k # 0 => k \in 1 .. n
    OBVIOUS
  <2>2. ASSUME NEW k \in 0 .. n
        PROVE  f0[k] = [call \in C |-> IF k = 0 THEN call[1]
                          ELSE RemoveOne(t, f0[k - 1], call[1], call[2], call[3])]
    <3>1. CASE k = 0
      BY <1>5, <3>1 DEF Iterates
    <3>2. CASE k # 0
      <4>1. f0[k] = Next1(f0[k - 1])
        BY <1>5, <1>6, <2>1, <3>2 DEF Iterates
      <4> QED
        BY <3>2, <4>1
    <3> QED
      BY <3>1, <3>2
  <2>3. f0 = [k \in 0 .. n |-> f0[k]]
    BY <1>5 DEF Iterates
  <2> DEFINE N == Len(t)
  <2> HIDE DEF C, D
  <2>4. ASSUME NEW k \in 0 .. N
        PROVE  f0[k] = [call \in D |-> IF k = 0 THEN call[1]
                          ELSE RemoveOne(t, f0[k - 1], call[1], call[2], call[3])]
    BY <1>0, <2>2
  <2>5. f0 = [k \in 0 .. N |-> f0[k]]
    BY <1>0, <2>3
  <2> HIDE DEF N
  <2>6. f0 = [k \in 0 .. N |-> [call \in D |->
                 IF k = 0 THEN call[1]
                 ELSE RemoveOne(t, f0[k - 1], call[1], call[2], call[3])]]
    BY <2>4, <2>5
  <2> QED
    BY <2>6 DEF N
<1> DEFINE r == CHOOSE f : Unfolds(f)
<1>8. Unfolds(r)
  <2> HIDE DEF Unfolds
  <2> QED
    BY <1>7
<1>9. ASSUME NEW d, NEW c
      PROVE  RemoveLoop(t, d, c) =
               [e \in Nodes(t) |-> [t[e] EXCEPT !.children =
                  r[Len(t)][<<[x \in Nodes(t) |-> t[x].children], d, c>>][e]]]
  BY DEF RemoveLoop
<1> HIDE DEF r
<1>10. /\ r[0] = first
       /\ \A k \in 1 .. n : r[k] = Next1(r[k - 1])
  <2>1. 0 \in 0 .. n /\ \A k \in 1 .. n : k \in 0 .. n /\ k # 0
    OBVIOUS
  <2> HIDE DEF C, D
  <2>2. \A k \in 0 .. n : r[k] = [call \in C |-> IF k = 0 THEN call[1]
                             ELSE RemoveOne(t, r[k - 1], call[1], call[2], call[3])]
    BY <1>0, <1>8
  <2>3. r[0] = first
    BY <2>1, <2>2
  <2>4. ASSUME NEW k \in 1 .. n PROVE r[k] = Next1(r[k - 1])
    BY <2>1, <2>2
  <2> QED
    BY <2>3, <2>4
<1> DEFINE S == {k \in 0 .. n : r[k] \in W}
<1>11. 0 \in S
  <2> HIDE DEF W, first
  <2> QED
    BY <1>2, <1>10
<1>12. ASSUME NEW m \in 0 .. (n - 1), m \in S PROVE m + 1 \in S
  <2>1. m + 1 \in 1 .. n /\ m + 1 \in 0 .. n /\ (m + 1) - 1 = m
    OBVIOUS
  <2> HIDE DEF W, Next1
  <2> QED
    BY <1>3, <1>10, <1>12, <2>1
<1>13. 0 .. n \subseteq S
  <2>1. \A m \in 0 .. (n - 1) : m \in S => m + 1 \in S
    BY <1>12
  <2> HIDE DEF S
  <2> QED
    BY <1>11, <2>1, Induction
<1>14. r \in [0 .. n -> W]
  <2>1. DOMAIN r = 0 .. n /\ r = [k \in DOMAIN r |-> r[k]]
    BY <1>0, <1>8
  <2> HIDE DEF W
  <2> QED
    BY <1>13, <2>1
<1>15. ASSUME NEW k \in 1 .. n, NEW call \in C
       PROVE  r[k][call] = RemoveOne(t, r[k - 1], call[1], call[2], call[3])
  <2> DEFINE p == r[k - 1]
             q == r[k]
  <2>1. q = [x \in C |-> RemoveOne(t, p, x[1], x[2], x[3])]
    BY <1>10
  <2> HIDE DEF C, p, q
  <2>2. q[call] = RemoveOne(t, p, call[1], call[2], call[3])
    BY <2>1
  <2> QED
    BY <2>2 DEF p, q
<1>16. r \in [0 .. n -> [CallsOf(n) -> [1 .. n -> Seq(1 .. n)]]]
  BY <1>14
<1>17. \A k \in 1 .. n : \A call \in CallsOf(n) :
         r[k][call] = RemoveOne(t, r[k - 1], call[1], call[2], call[3])
  BY <1>15
<1>18. \A d, c : RemoveLoop(t, d, c) =
         [e \in Nodes(t) |-> [t[e] EXCEPT !.children =
            r[Len(t)][<<[x \in Nodes(t) |-> t[x].children], d, c>>][e]]]
  BY <1>9, Zenon
<1>19. Levels(n, t, r)
  BY <1>16, <1>17, <1>18, Zenon DEF Levels
<1> QED
  BY <1>19

LEMMA LevelsRemove ==
  ASSUME NEW n \in Nat, NEW t, NEW r, Levels(n, t, r)
  PROVE  Removes(n, t, r[n], n)
<1> DEFINE S == {k \in 0 .. n : Removes(n, t, r[k], k)}
<1>1. 0 \in S
  <2>1. ASSUME NEW a, NEW d, NEW c, Fit(n, t, a), d \in 1 .. n, c \in ToSet(a[d]), n - c < 0
        PROVE  FALSE
    <3>1. a[d] \in Seq(1 .. n)
      BY <2>1 DEF Fit
    <3>2. c \in 1 .. n
      BY <2>1, <3>1 DEF ToSet
    <3> QED
      BY <2>1, <3>2
  <2> QED
    BY <2>1 DEF Removes
<1>2. ASSUME NEW k \in 0 .. (n - 1), k \in S PROVE k + 1 \in S
  <2>1. k + 1 \in 1 .. n /\ k + 1 \in 0 .. n /\ k \in 0 .. n /\ (k + 1) - 1 = k
    OBVIOUS
  <2>2. Removes(n, t, r[k], k)
    BY <1>2
  <2> DEFINE q == r[k]
  <2>3. q \in [CallsOf(n) -> [1 .. n -> Seq(1 .. n)]]
    BY <2>1 DEF Levels
  <2>4. \A call \in CallsOf(n) : r[k + 1][call] = RemoveOne(t, q, call[1], call[2], call[3])
    BY <2>1 DEF Levels
  <2> HIDE DEF q
  <2>5. ASSUME NEW a, NEW d, NEW c, Fit(n, t, a), d \in 1 .. n, t[d].isDir,
               c \in ToSet(a[d]), n - c < k + 1
        PROVE  r[k + 1][<<a, d, c>>] = Cut(n, a, WhoGoes(n, t, a, c))
    <3>1. a \in [1 .. n -> Seq(1 .. n)] /\ a[d] \in Seq(1 .. n)
      BY <2>5 DEF Fit
    <3>2. c \in 1 .. n
      BY <2>5, <3>1 DEF ToSet
    <3>3. <<a, d, c>> \in CallsOf(n)
      BY <2>5, <3>1, <3>2 DEF CallsOf
    <3>4. r[k + 1][<<a, d, c>>] = RemoveOne(t, q, a, d, c)
      BY <2>4, <3>3
    <3>5. Removes(n, t, q, n - c)
      <4>1. ASSUME NEW x \in 1 .. n, n - x < n - c PROVE n - x < k
        BY <2>5, <3>2, <4>1
      <4>2. ASSUME NEW b, NEW e, NEW x, Fit(n, t, b), e \in 1 .. n, x \in ToSet(b[e])
            PROVE  x \in 1 .. n
        <5>1. b[e] \in Seq(1 .. n)
          BY <4>2 DEF Fit
        <5> QED
          BY <4>2, <5>1 DEF ToSet
      <4> QED
        BY <2>2, <4>1, <4>2 DEF Removes, q
    <3>6. RemoveOne(t, q, a, d, c) = Cut(n, a, WhoGoes(n, t, a, c))
      BY <2>3, <2>5, <3>5, OneCall
    <3> QED
      BY <3>4, <3>6
  <2>6. Removes(n, t, r[k + 1], k + 1)
    BY <2>5 DEF Removes
  <2> QED
    BY <2>1, <2>6
<1>3. n \in S
  <2>1. \A k \in 0 .. (n - 1) : k \in S => k + 1 \in S
    BY <1>2
  <2>2. n \in 0 .. n
    OBVIOUS
  <2> HIDE DEF S
  <2>3. 0 .. n \subseteq S
    BY <1>1, <2>1, Induction
  <2> QED
    BY <2>2, <2>3
<1> QED
  BY <1>3

(* In a sound tree the loops of fs_remove_child do what the closed form says. *)
LEMMA LoopIsClosedForm ==
  ASSUME NEW t, Sound(t), NEW d \in DOMAIN t, NEW c \in ToSet(t[d].children)
  PROVE  RemoveChild(t, d, c) = RemoveLoop(t, d, c)
<1> DEFINE n == Len(t)
           a == [x \in 1 .. n |-> t[x].children]
           G == Gone(t, c)
<1>1. /\ n \in Nat /\ Nodes(t) = 1 .. n /\ DOMAIN t = 1 .. n
      /\ \A e \in 1 .. n : t[e] \in Node /\ Entry(t, e)
  BY SoundTypes
<1>2. ASSUME NEW e \in 1 .. n
      PROVE  /\ t[e].children \in Seq(1 .. n)
             /\ IsInjective(t[e].children) /\ (~ t[e].isDir => t[e].children = << >>)
             /\ \A x \in ToSet(t[e].children) : t[x].parent = e /\ e < x
  <2>1. t[e].children \in Seq(1 .. MaxNodes) /\ Entry(t, e)
    BY <1>1 DEF Node
  <2> DEFINE s == t[e].children
  <2>2. s \in Seq(1 .. MaxNodes) /\ \A x \in ToSet(s) : x \in 1 .. n
    BY <2>1 DEF Entry
  <2> HIDE DEF s, n
  <2>3. DOMAIN s = 1 .. Len(s) /\ Len(s) \in Nat /\ s = [i \in DOMAIN s |-> s[i]]
    BY <2>2, LenProperties
  <2>4. \A i \in 1 .. Len(s) : s[i] \in 1 .. n
    BY <2>2, <2>3 DEF ToSet
  <2>6. s \in [1 .. Len(s) -> 1 .. n]
    BY <2>3, <2>4
  <2>5. s \in Seq(1 .. n)
    BY <2>3, <2>6, SeqDef
  <2> QED
    BY <2>1, <2>5 DEF Entry, s
<1>3. Fit(n, t, a)
  BY <1>2 DEF Fit
<1>4. d \in 1 .. n /\ a[d] = t[d].children /\ c \in ToSet(a[d]) /\ t[d].isDir /\ c \in 1 .. n
  <2>1. d \in 1 .. n /\ a[d] = t[d].children
    BY <1>1
  <2>2. t[d].children # << >> /\ c \in 1 .. n
    <3>1. t[d].children \in Seq(1 .. n)
      BY <1>2, <2>1
    <3> QED
      BY <3>1 DEF ToSet
  <2> QED
    BY <1>2, <2>1, <2>2
<1>5. PICK r : Levels(n, t, r)
  BY <1>1, LevelsUnfold
<1>6. Removes(n, t, r[n], n)
  BY <1>1, <1>5, LevelsRemove
<1>7. WhoGoes(n, t, a, c) = G
  <2>1. /\ G \subseteq 1 .. n
        /\ \A x \in 1 .. n : x \in G <=> x = c \/ (Caught(t, x) /\ t[x].parent \in G)
    BY <1>1, GoneUnfolds
  <2>2. ASSUME NEW x \in 1 .. n
        PROVE  Caught(t, x) <=> /\ t[x].parent \in 1 .. (x - 1)
                                /\ Recursed(a[t[x].parent], x)
    <3>1. t[x].parent \in 1 .. (x - 1) => t[x].parent \in 1 .. n
      BY <1>1
    <3> QED
      BY <3>1 DEF Caught
  <2> HIDE DEF G, a
  <2>3. Goes(n, t, a, c, G)
    BY <2>1, <2>2 DEF Goes
  <2> QED
    BY <1>1, <2>3, WhoGoesOnly
<1>8. r[n][<<a, d, c>>] = Cut(n, a, G)
  <2>1. n - c < n
    BY <1>1, <1>4
  <2> HIDE DEF a, G
  <2> QED
    BY <1>3, <1>4, <1>6, <1>7, <2>1 DEF Removes
<1>9. RemoveLoop(t, d, c) = [e \in 1 .. n |-> [t[e] EXCEPT !.children = Cut(n, a, G)[e]]]
  <2> DEFINE b == [x \in Nodes(t) |-> t[x].children]
             q == r[Len(t)][<<b, d, c>>]
  <2>1. RemoveLoop(t, d, c) = [e \in Nodes(t) |-> [t[e] EXCEPT !.children = q[e]]]
    BY <1>5 DEF Levels
  <2>2. b = a
    BY <1>1
  <2>3. q = Cut(n, a, G)
    <3> HIDE DEF a, b, G
    <3> QED
      BY <1>8, <2>2
  <2> HIDE DEF q, a, G, n
  <2> QED
    BY <1>1, <2>1, <2>3
<1>10. RemoveChild(t, d, c) = [e \in 1 .. n |-> [t[e] EXCEPT !.children = Remaining(@, G)]]
  <2>1. Contains(t[d].children, c)
    <3> DEFINE s == t[d].children
    <3>1. s \in Seq(1 .. n) /\ c \in ToSet(s)
      BY <1>2, <1>4
    <3> HIDE DEF s
    <3>2. DOMAIN s = 1 .. Len(s)
      BY <3>1, LenProperties
    <3>3. Contains(s, c)
      BY <3>1, <3>2 DEF Contains, ToSet
    <3> QED
      BY <3>3 DEF s
  <2>2. IsDir(t, d)
    BY <1>4 DEF IsDir, NULL
  <2> QED
    BY <1>1, <2>1, <2>2 DEF RemoveChild, Gone
<1>11. ASSUME NEW e \in 1 .. n
       PROVE  [t[e] EXCEPT !.children = Remaining(@, G)] = [t[e] EXCEPT !.children = Cut(n, a, G)[e]]
  <2>1. Cut(n, a, G)[e] = Remaining(t[e].children, G)
    BY DEF Cut
  <2> QED
    BY <2>1
<1> QED
  BY <1>9, <1>10, <1>11

(* The closed form in which rm and rmdir remove an entry is what the loops *)
(* of fs_remove_child do, which skip every second child as they shorten    *)
(* the array they walk (ramfs.cpp:53-78), for directories and tables of    *)
(* any size.                                                               *)
THEOREM RemovalIsTheLoop == Spec => []RemovalMatchesLoop
<1>1. ShellInv => RemovalMatchesLoop
  <2>1. ShellInv => Sound(nodes)
    BY DEF ShellInv, ShellFrame, Standing
  <2> QED
    BY <2>1, LoopIsClosedForm DEF RemovalMatchesLoop
<1> QED
  BY <1>1, ShellInvHolds, PTL

-----------------------------------------------------------------------------
(* Paths lead to nodes of the tree *)

LEMMA FindChildStays ==
  ASSUME NEW t, Sound(t), NEW d \in {NULL} \cup Tree(t), NEW name
  PROVE  FindChild(t, d, name) \in {NULL} \cup Tree(t)
<1> DEFINE c == FindChild(t, d, name)
<1>1. CASE ~ IsDir(t, d)
  BY <1>1 DEF FindChild
<1>2. CASE IsDir(t, d) /\ c # NULL
  <2>1. Standing(t, d)
    BY <1>2 DEF Standing, IsDir
  <2>2. PICK slot \in DOMAIN t[d].children : c = t[d].children[slot]
    BY <1>2, <2>1, FoundInSlot
  <2> HIDE DEF c
  <2>3. c \in ToSet(t[d].children) /\ d \in 1 .. Len(t) /\ Nodes(t) = 1 .. Len(t) /\ Len(t) \in Nat
    BY <2>1, <2>2, StandingTypes DEF ToSet
  <2>4. c \in 1 .. Len(t)
    BY <2>3, SoundTypes DEF Entry
  <2>5. Linked(t, c) /\ t[c].parent \in Tree(t)
    BY <2>1, <2>3, <2>4, ChildIsLinked DEF Standing
  <2>6. c \in Tree(t)
    BY <2>3, <2>4, <2>5, TreeUnfolds
  <2> QED
    BY <2>6 DEF c
<1> QED
  BY <1>1, <1>2

LEMMA WalkStays ==
  ASSUME NEW t, Sound(t), NEW from \in {NULL} \cup Tree(t), NEW path \in Seq(Names)
  PROVE  Walk(t, from, path) \in {NULL} \cup Tree(t)
<1> DEFINE n == Len(path)
           V == {NULL} \cup Tree(t)
           turn(i) == i > 1 /\ path[i] = Slash /\ path[i - 1] # Slash
           step == [i \in 1 .. n |-> [x \in V |->
                      IF turn(i) THEN FindChild(t, x, path[i - 1]) ELSE x]]
           Walks(f) == f = [i \in 0 .. n |->
                             IF i = 0 THEN from
                             ELSE IF i > 1 /\ path[i] = Slash /\ path[i - 1] # Slash
                               THEN FindChild(t, f[i - 1], path[i - 1])
                               ELSE f[i - 1]]
<1>0. n \in Nat
  OBVIOUS
<1>1. step \in [1 .. n -> [V -> V]]
  <2>1. \A x \in V : \A name : FindChild(t, x, name) \in V
    BY FindChildStays
  <2> HIDE DEF V
  <2> QED
    BY <2>1
<1>2. PICK f0 : Iterates(f0, n, V, from, step)
  <2> HIDE DEF step, n
  <2> QED
    BY <1>0, <1>1, Iteration
<1> HIDE DEF V
<1>3. ASSUME NEW i \in 1 .. n
      PROVE  step[i][f0[i - 1]] = IF turn(i) THEN FindChild(t, f0[i - 1], path[i - 1]) ELSE f0[i - 1]
  <2>1. i - 1 \in 0 .. n
    BY <1>0
  <2>2. f0[i - 1] \in V
    BY <1>2, <2>1 DEF Iterates
  <2> QED
    BY <2>2
<1>4. Walks(f0)
  <2> HIDE DEF step
  <2>1. \A i \in 0 .. n : i # 0 => i \in 1 .. n
    OBVIOUS
  <2>2. \A i \in 0 .. n : f0[i] = IF i = 0 THEN from
                                  ELSE IF turn(i) THEN FindChild(t, f0[i - 1], path[i - 1])
                                  ELSE f0[i - 1]
    BY <1>2, <1>3, <2>1 DEF Iterates
  <2> QED
    BY <1>2, <2>2 DEF Iterates
<1> DEFINE k == CHOOSE f : Walks(f)
<1>5. Walks(k)
  <2> HIDE DEF Walks
  <2> QED
    BY <1>4
<1>6. Walk(t, from, path) = k[n]
  BY DEF Walk
<1> HIDE DEF k
<1>7. k[0] = from /\ \A i \in 1 .. n :
        k[i] = FindChild(t, k[i - 1], path[i - 1]) \/ k[i] = k[i - 1]
  <2>1. 0 \in 0 .. n /\ \A i \in 1 .. n : i \in 0 .. n /\ i # 0
    BY <1>0
  <2> HIDE DEF n
  <2> QED
    BY <1>5, <2>1
<1> DEFINE S == {i \in 0 .. n : k[i] \in V}
<1>8. 0 \in S
  BY <1>0, <1>7 DEF V
<1>9. ASSUME NEW m \in 0 .. (n - 1), m \in S
      PROVE  m + 1 \in S
  <2>0. m + 1 \in 1 .. n /\ (m + 1) - 1 = m /\ k[m] \in V /\ m + 1 \in 0 .. n
    BY <1>0, <1>9
  <2>1. k[m + 1] = FindChild(t, k[m], path[m]) \/ k[m + 1] = k[m]
    BY <1>7, <2>0
  <2>2. k[m + 1] \in V
    BY <2>0, <2>1, FindChildStays DEF V
  <2> QED
    BY <2>0, <2>2
<1>10. n \in S
  <2>1. \A m \in 0 .. (n - 1) : m \in S => m + 1 \in S
    BY <1>9
  <2>2. n \in 0 .. n
    BY <1>0
  <2> HIDE DEF S
  <2>3. 0 .. n \subseteq S
    BY <1>0, <1>8, <2>1, Induction
  <2> QED
    BY <2>2, <2>3
<1> QED
  BY <1>6, <1>10 DEF V

LEMMA FindByPathStays ==
  ASSUME NEW t, NEW d, Standing(t, d), NEW path \in Seq(Names)
  PROVE  FindByPath(t, path) \in {NULL} \cup Tree(t)
<1>1. Sound(t) /\ Root \in {NULL} \cup Tree(t)
  BY StandingTypes DEF Standing
<1> QED
  BY <1>1, WalkStays DEF FindByPath

(* The path in front of the last slash is a path, and the name behind it   *)
(* is a name.                                                              *)
LEMMA SplitPath ==
  ASSUME NEW path \in Seq(Names)
  PROVE  ParentPath(path) \in Seq(Names) /\ NewName(path) \in Names
<1> DEFINE n == Len(path)
           I == {i \in 1 .. n : path[i] = Slash}
<1>0. n \in Nat
  OBVIOUS
<1>1. LastSlash(path) = IF I # {} THEN Max(I) ELSE 0
  BY DEF LastSlash, SelectLastInSeq
<1>2. LastSlash(path) \in 0 .. n
  <2>1. CASE I # {}
    <3> DEFINE D == {n - i : i \in I}
    <3>1. D \subseteq Nat /\ D # {}
      BY <1>0, <2>1
    <3>2. PICK x \in D : \A y \in D : x <= y
      <4> HIDE DEF D
      <4> QED
        BY <3>1, Smallest
    <3>3. PICK i \in I : x = n - i
      BY <3>2
    <3>4. ASSUME NEW j \in I
          PROVE  i >= j
      <4>1. n - j \in D
        OBVIOUS
      <4>2. n - i <= n - j
        BY <3>2, <3>3, <4>1
      <4> QED
        BY <1>0, <4>2
    <3>5. Max(I) \in I
      <4> HIDE DEF I
      <4> QED
        BY <3>4 DEF Max
    <3> QED
      BY <1>0, <1>1, <2>1, <3>5
  <2> QED
    BY <1>0, <1>1, <2>1
<1>3. ParentPath(path) \in Seq(Names)
  BY <1>2 DEF ParentPath
<1>4. NewName(path) \in Names
  <2>1. path # << >> => Last(path) \in Names
    BY DEF Last
  <2> QED
    BY <2>1, SyscallsAssumption DEF NewName
<1> QED
  BY <1>3, <1>4

-----------------------------------------------------------------------------
(* Contents of files *)

(* The buffer covers the size, and holds what a reader expects.            *)
Backed(x, s) ==
  /\ s \in Seq(Bytes) /\ Len(s) = x.size /\ x.size <= Len(x.data)
  /\ \A i \in 1 .. x.size : x.data[i] = s[i]

SameButData(x, y) ==
  /\ y \in Node /\ y.name = x.name /\ y.isDir = x.isDir /\ y.parent = x.parent
  /\ y.children = x.children

(* memcpy into the buffer. *)
LEMMA Overlaid ==
  ASSUME NEW data \in Seq(Bytes), NEW bytes \in Seq(Bytes), Len(bytes) <= Len(data)
  PROVE  /\ Overlay(data, 0, bytes) \in Seq(Bytes)
         /\ Len(Overlay(data, 0, bytes)) = Len(data)
         /\ \A i \in 1 .. Len(data) :
              Overlay(data, 0, bytes)[i] = IF i <= Len(bytes) THEN bytes[i] ELSE data[i]
<1> DEFINE n == Len(data)
           k == Len(bytes)
           v == Overlay(data, 0, bytes)
<1>0. n \in Nat /\ k \in Nat /\ DOMAIN data = 1 .. n /\ DOMAIN bytes = 1 .. k
  OBVIOUS
<1>1. v = [i \in 1 .. n |-> IF i - 0 \in 1 .. k THEN bytes[i - 0] ELSE data[i]]
  BY <1>0 DEF Overlay
<1> HIDE DEF v
<1>2. \A i \in 1 .. n : v[i] = IF i <= k THEN bytes[i] ELSE data[i]
  <2>1. \A i \in 1 .. n : i - 0 = i /\ (i \in 1 .. k <=> i <= k)
    BY <1>0
  <2> HIDE DEF n, k
  <2> QED
    BY <1>1, <2>1
<1>3. \A i \in 1 .. n : v[i] \in Bytes
  <2>1. \A i \in 1 .. n : data[i] \in Bytes
    BY ElementOfSeq
  <2>2. \A i \in 1 .. k : bytes[i] \in Bytes
    BY ElementOfSeq
  <2>3. \A i \in 1 .. n : i <= k => i \in 1 .. k
    BY <1>0
  <2> HIDE DEF n, k
  <2> QED
    BY <1>2, <2>1, <2>2, <2>3
<1>4. v \in [1 .. n -> Bytes]
  <2> HIDE DEF n, k
  <2>1. v = [i \in 1 .. n |-> v[i]]
    BY <1>1
  <2> QED
    BY <1>3, <2>1
<1>5. v \in Seq(Bytes) /\ Len(v) = n
  <2> HIDE DEF n
  <2> QED
    BY <1>0, <1>4
<1> QED
  BY <1>2, <1>5 DEF v

(* krealloc keeps the bytes there are. *)
LEMMA GrownKeepsBytes ==
  ASSUME NEW data \in Seq(Bytes), NEW n \in Nat
  PROVE  /\ Grown(data, n) \in Seq(Bytes)
         /\ Len(Grown(data, n)) = IF n <= Len(data) THEN Len(data) ELSE n
         /\ \A i \in 1 .. Len(data) : Grown(data, n)[i] = data[i]
<1> DEFINE more == IF n <= Len(data) THEN 0 ELSE n - Len(data)
           junk == [i \in 1 .. more |-> Junk]
<1>0. more \in Nat /\ Len(data) \in Nat
  OBVIOUS
<1>1. junk \in Seq(Bytes) /\ Len(junk) = more
  <2> HIDE DEF more
  <2>1. junk \in [1 .. more -> Bytes]
    BY DEF Junk, Bytes
  <2> HIDE DEF junk
  <2> QED
    BY <1>0, <2>1
<1>2. Grown(data, n) = data \o junk
  BY DEF Grown
<1>3. Len(data) + more = IF n <= Len(data) THEN Len(data) ELSE n
  BY <1>0
<1> HIDE DEF junk, more
<1>4. /\ data \o junk \in Seq(Bytes)
      /\ Len(data \o junk) = Len(data) + Len(junk)
      /\ \A i \in 1 .. Len(data) : (data \o junk)[i] = data[i]
  BY <1>1
<1> QED
  BY <1>1, <1>2, <1>3, <1>4

(* What a reader expects after a write at the start. *)
LEMMA ExpectedBytes ==
  ASSUME NEW s \in Seq(Bytes), NEW bytes \in Seq(Bytes)
  PROVE  /\ Expected(s, bytes) \in Seq(Bytes)
         /\ Len(Expected(s, bytes)) = IF Len(bytes) > Len(s) THEN Len(bytes) ELSE Len(s)
         /\ \A i \in 1 .. Len(Expected(s, bytes)) :
              Expected(s, bytes)[i] = IF i <= Len(bytes) THEN bytes[i] ELSE s[i]
<1> DEFINE k == Len(bytes)
           n == Len(s)
           rest == SubSeq(s, k + 1, n)
           e == bytes \o rest
<1>0. k \in Nat /\ n \in Nat
  OBVIOUS
<1>1. /\ rest \in Seq(Bytes) /\ Len(rest) = (IF k > n THEN 0 ELSE n - k)
      /\ \A j \in 1 .. Len(rest) : rest[j] = s[k + j]
  <2>1. rest \in Seq(Bytes)
    OBVIOUS
  <2>2. Len(rest) = IF k > n THEN 0 ELSE n - k
    BY <1>0
  <2>3. \A j \in 1 .. Len(rest) : rest[j] = s[k + j]
    BY <1>0, <2>2
  <2> QED
    BY <2>1, <2>2, <2>3
<1> HIDE DEF rest
<1>2. /\ e \in Seq(Bytes) /\ Len(e) = k + Len(rest)
      /\ \A i \in 1 .. k : e[i] = bytes[i]
      /\ \A j \in 1 .. Len(rest) : e[k + j] = rest[j]
  BY <1>1
<1>3. Expected(s, bytes) = e
  BY DEF Expected, rest
<1> HIDE DEF e, k, n
<1>4. Len(e) = IF k > n THEN k ELSE n
  BY <1>0, <1>1, <1>2
<1>5. ASSUME NEW i \in 1 .. Len(e)
      PROVE  e[i] = IF i <= k THEN bytes[i] ELSE s[i]
  <2>1. CASE i <= k
    BY <1>0, <1>2, <2>1
  <2>2. CASE i > k
    <3>1. i - k \in 1 .. Len(rest) /\ k + (i - k) = i
      BY <1>0, <1>1, <1>4, <2>2
    <3>2. e[i] = rest[i - k] /\ rest[i - k] = s[i]
      BY <1>1, <1>2, <3>1
    <3> QED
      BY <1>0, <2>2, <3>2
  <2> QED
    BY <1>0, <1>4, <2>1, <2>2
<1> QED
  BY <1>2, <1>3, <1>4, <1>5 DEF k, n

(* Setting the buffer and the size of a node. *)
LEMMA BufferSet ==
  ASSUME NEW x \in Node, NEW data \in Seq(Bytes)
  PROVE  /\ SameButData(x, [x EXCEPT !.data = data])
         /\ [x EXCEPT !.data = data].data = data
         /\ [x EXCEPT !.data = data].size = x.size
<1> QED
  BY DEF Node, SameButData

LEMMA SizeSet ==
  ASSUME NEW x \in Node, NEW size \in Nat
  PROVE  /\ SameButData(x, [x EXCEPT !.size = size])
         /\ [x EXCEPT !.size = size].data = x.data
         /\ [x EXCEPT !.size = size].size = size
<1> QED
  BY DEF Node, SameButData

(* fs_write from the start of a file. *)
LEMMA WrittenIsExpected ==
  ASSUME NEW x \in Node, NEW s, Backed(x, s), NEW bytes \in Seq(Bytes)
  PROVE  /\ SameButData(x, Written(x, 0, bytes))
         /\ Backed(Written(x, 0, bytes), Expected(s, bytes))
<1> DEFINE k == Len(bytes)
           grown == Grown(x.data, k)
           wide == [x EXCEPT !.data = grown]
           room == IF k > x.size THEN [wide EXCEPT !.size = k] ELSE x
           over == Overlay(room.data, 0, bytes)
           y == [room EXCEPT !.data = over]
           e == Expected(s, bytes)
<1>0. /\ k \in Nat /\ 0 + k = k
      /\ x.size \in Nat /\ x.data \in Seq(Bytes) /\ Len(x.data) \in Nat
  BY DEF Node
<1>1. Written(x, 0, bytes) = y
  BY <1>0 DEF Written
<1>2. /\ grown \in Seq(Bytes)
      /\ Len(grown) = IF k <= Len(x.data) THEN Len(x.data) ELSE k
      /\ \A i \in 1 .. Len(x.data) : grown[i] = x.data[i]
  BY <1>0, GrownKeepsBytes
<1> HIDE DEF grown, k
<1>3. SameButData(x, wide) /\ wide.data = grown /\ wide.size = x.size
  BY <1>2, BufferSet
<1> HIDE DEF wide
<1>4. /\ wide \in Node
      /\ SameButData(wide, [wide EXCEPT !.size = k])
      /\ [wide EXCEPT !.size = k].data = wide.data
      /\ [wide EXCEPT !.size = k].size = k
  <2>1. wide \in Node
    BY <1>3 DEF SameButData
  <2> QED
    BY <1>0, <2>1, SizeSet
<1>5. /\ SameButData(x, room) /\ room.size = (IF k > x.size THEN k ELSE x.size)
      /\ room.data \in Seq(Bytes) /\ k <= Len(room.data) /\ Len(x.data) <= Len(room.data)
      /\ \A i \in 1 .. Len(x.data) : room.data[i] = x.data[i]
  <2>1. CASE k > x.size
    <3>1. room = [wide EXCEPT !.size = k]
      BY <2>1
    <3> HIDE DEF room
    <3>2. SameButData(x, room) /\ room.size = k /\ room.data = grown
      BY <1>3, <1>4, <3>1 DEF SameButData
    <3> QED
      BY <1>0, <1>2, <2>1, <3>2
  <2>2. CASE ~ (k > x.size)
    <3>1. room = x /\ x.size <= Len(x.data)
      BY <2>2 DEF Backed
    <3> HIDE DEF room
    <3> QED
      BY <1>0, <2>2, <3>1 DEF SameButData
  <2> QED
    BY <2>1, <2>2
<1> HIDE DEF room
<1>6. /\ over \in Seq(Bytes) /\ Len(over) = Len(room.data)
      /\ \A i \in 1 .. Len(room.data) : over[i] = IF i <= k THEN bytes[i] ELSE room.data[i]
  BY <1>5, Overlaid DEF k
<1> HIDE DEF over
<1>7. /\ SameButData(room, y) /\ y.data = over /\ y.size = room.size
  <2>1. room \in Node
    BY <1>5 DEF SameButData
  <2> QED
    BY <1>6, <2>1, BufferSet
<1> HIDE DEF y
<1>8. SameButData(x, y)
  BY <1>5, <1>7 DEF SameButData
<1>9. /\ s \in Seq(Bytes) /\ Len(s) = x.size /\ x.size <= Len(x.data)
      /\ \A i \in 1 .. x.size : x.data[i] = s[i]
  BY DEF Backed
<1>10. /\ e \in Seq(Bytes) /\ Len(e) = (IF k > Len(s) THEN k ELSE Len(s))
       /\ \A i \in 1 .. Len(e) : e[i] = IF i <= k THEN bytes[i] ELSE s[i]
  BY <1>9, ExpectedBytes DEF k
<1> HIDE DEF e
<1>11. Len(e) = y.size /\ y.size <= Len(y.data) /\ Len(y.data) = Len(room.data)
  BY <1>0, <1>5, <1>6, <1>7, <1>9, <1>10
<1>12. ASSUME NEW i \in 1 .. y.size
       PROVE  y.data[i] = e[i]
  <2>1. Len(room.data) \in Nat /\ y.size \in Nat /\ y.size = (IF k > x.size THEN k ELSE x.size)
    BY <1>0, <1>5, <1>7
  <2>2. /\ i \in 1 .. Len(room.data) /\ i \in 1 .. Len(e)
        /\ i <= k \/ (i \in 1 .. x.size /\ i \in 1 .. Len(x.data))
    <3>1. i \in Nat /\ 1 <= i /\ i <= y.size
      BY <2>1
    <3>2. i \in 1 .. Len(room.data) /\ i \in 1 .. Len(e)
      BY <1>11, <2>1, <3>1
    <3>3. i <= k \/ i <= x.size
      BY <2>1, <3>1
    <3> QED
      BY <1>0, <1>9, <3>1, <3>2, <3>3
  <2>3. CASE i <= k
    BY <1>6, <1>7, <1>10, <2>2, <2>3
  <2>4. CASE ~ (i <= k)
    BY <1>5, <1>6, <1>7, <1>9, <1>10, <2>2, <2>4
  <2> QED
    BY <2>3, <2>4
<1>13. Backed(y, e)
  BY <1>10, <1>11, <1>12 DEF Backed
<1> QED
  BY <1>1, <1>8, <1>13 DEF e

-----------------------------------------------------------------------------
(* The tree does not depend on what files hold *)

SameLinks(t, u) ==
  /\ u \in Seq(Node) /\ Len(u) = Len(t)
  /\ \A e \in 1 .. Len(t) :
       /\ u[e].name = t[e].name /\ u[e].isDir = t[e].isDir
       /\ u[e].parent = t[e].parent /\ u[e].children = t[e].children

LEMMA SameLinksSameTree ==
  ASSUME NEW t, NEW u, Sound(t), SameLinks(t, u)
  PROVE  Sound(u) /\ Tree(u) = Tree(t)
<1> DEFINE n == Len(t)
<1>0. n \in Nat /\ Nodes(t) = 1 .. n /\ Nodes(u) = 1 .. n /\ Len(u) = n
  BY SoundTypes DEF SameLinks, Nodes
<1>1. \A e \in 1 .. n :
         /\ u[e].name = t[e].name /\ u[e].isDir = t[e].isDir
         /\ u[e].parent = t[e].parent /\ u[e].children = t[e].children
  BY DEF SameLinks
<1> HIDE DEF n
<1>2. ASSUME NEW d \in 1 .. n
      PROVE  Entry(u, d)
  <2>1. Entry(t, d)
    BY DEF Sound, n
  <2> QED
    BY <1>0, <1>1, <2>1 DEF Entry, n
<1>3. Sound(u)
  BY <1>0, <1>2 DEF Sound, SameLinks, n
<1>4. ASSUME NEW c \in 1 .. n
      PROVE  Linked(u, c) <=> Linked(t, c)
  <2>1. \A d \in 1 .. (c - 1) : u[d].children = t[d].children
    BY <1>0, <1>1
  <2> QED
    BY <1>1, <2>1 DEF Linked
<1>5. Tree(u) \ {} \subseteq Tree(t)
  <2>1. \A c \in (1 .. n) \ {} : Linked(u, c) =>
          c \in 1 .. n /\ Linked(t, c) /\ t[c].parent = u[c].parent /\ u[c].parent \notin {}
    BY <1>1, <1>4
  <2> QED
    BY <1>0, <2>1, Branches
<1>6. Tree(t) \ {} \subseteq Tree(u)
  <2>1. \A c \in (1 .. n) \ {} : Linked(t, c) =>
          c \in 1 .. n /\ Linked(u, c) /\ u[c].parent = t[c].parent /\ t[c].parent \notin {}
    BY <1>1, <1>4
  <2> QED
    BY <1>0, <2>1, Branches
<1> QED
  BY <1>3, <1>5, <1>6

(* The node fs_touch makes. *)
SysTouchMakes(t, d, name, buffer, m) ==
  /\ Fresh(t, m)
  /\ AddChild([Create(t, name, FALSE, FALSE) EXCEPT
                ![Len(t) + 1].data = IF buffer THEN [i \in 1 .. Capacity |-> Junk] ELSE << >>],
              d, Len(t) + 1)
       = AddChild(m, d, Len(t) + 1)
  /\ m[Len(t) + 1].isDir = FALSE /\ m[Len(t) + 1].size = 0
  /\ m[Len(t) + 1].data \in Seq(Bytes)

LEMMA SysTouchedIsFresh ==
  ASSUME NEW t, Sound(t), Len(t) < MaxNodes, NEW d, NEW name \in Names, NEW buffer \in BOOLEAN
  PROVE  \E m : SysTouchMakes(t, d, name, buffer, m)
<1> DEFINE n == Len(t)
           c == n + 1
           bytes == IF buffer THEN [i \in 1 .. Capacity |-> Junk] ELSE << >>
           new == Blank(Stored[name], FALSE, FALSE)
           file == [new EXCEPT !.data = bytes]
           made == Append(t, new)
           m == [made EXCEPT ![c].data = bytes]
<1>0. n \in Nat /\ t \in Seq(Node) /\ Capacity \in Nat /\ c <= MaxNodes
  BY SoundTypes, SyscallsAssumption, ShellAssumption DEF Sound
<1>1. bytes \in Seq(Bytes)
  <2>1. [i \in 1 .. Capacity |-> Junk] \in [1 .. Capacity -> Bytes]
    BY DEF Bytes, Junk
  <2>2. [i \in 1 .. Capacity |-> Junk] \in Seq(Bytes)
    BY <1>0, <2>1
  <2>3. << >> \in Seq(Bytes)
    OBVIOUS
  <2> QED
    BY <2>2, <2>3
<1>2. /\ new \in Node /\ new.parent = NULL /\ new.children = << >>
      /\ new.isDir = FALSE /\ new.size = 0
  BY BlankIsNode, RamFSAssumption
<1>3. Create(t, name, FALSE, FALSE) = made
  BY DEF Create, Blank
<1>4. [Create(t, name, FALSE, FALSE) EXCEPT
         ![Len(t) + 1].data = IF buffer THEN [i \in 1 .. Capacity |-> Junk] ELSE << >>] = m
  BY <1>3
<1> HIDE DEF new, bytes
<1>5. /\ file \in Node /\ file.parent = NULL /\ file.children = << >>
      /\ file.isDir = FALSE /\ file.size = 0 /\ file.data = bytes
  BY <1>1, <1>2, BufferSet DEF SameButData
<1>6. /\ made \in Seq(Node) /\ Len(made) = c /\ DOMAIN made = 1 .. c
      /\ made[c] = new /\ \A e \in 1 .. n : made[e] = t[e]
  BY <1>0, <1>2
<1> HIDE DEF made
<1>7. /\ DOMAIN m = 1 .. c /\ m[c] = file /\ \A e \in 1 .. n : m[e] = t[e]
      /\ m = [e \in 1 .. c |-> m[e]]
  <2>1. c \in 1 .. c /\ \A e \in 1 .. n : e # c /\ e \in 1 .. c
    BY <1>0
  <2> HIDE DEF c, n
  <2> QED
    BY <1>6, <2>1
<1> HIDE DEF m, file
<1>8. m \in Seq(Node) /\ Len(m) = c
  <2>1. \A e \in 1 .. c : e \in 1 .. n \/ e = c
    BY <1>0
  <2>2. \A e \in 1 .. n : t[e] \in Node
    BY SoundTypes
  <2>3. m \in [1 .. c -> Node]
    <3> HIDE DEF c, n
    <3> QED
      BY <1>5, <1>7, <2>1, <2>2
  <2> QED
    BY <1>0, <2>3
<1>9. Fresh(t, m)
  BY <1>0, <1>5, <1>7, <1>8 DEF Fresh
<1> QED
  BY <1>1, <1>4, <1>5, <1>7, <1>9 DEF SysTouchMakes

-----------------------------------------------------------------------------
(* The inductive invariant *)

Slots(t) == [node : {NULL} \cup 1 .. Len(t), offset : {0}, used : BOOLEAN]

SysInv ==
  /\ ShellFrame
  /\ fd_table \in [Descriptors -> Slots(nodes)]
  /\ \A fd \in Descriptors : fd_table[fd].used => fd_table[fd].node # NULL
  /\ DOMAIN contents = 1 .. Len(nodes)
  /\ ~ stray => \A f \in 1 .. Len(nodes) : Backed(nodes[f], contents[f])

LEMMA FrameTypes ==
  ASSUME ShellFrame
  PROVE  /\ Len(nodes) \in Nat /\ DOMAIN nodes = 1 .. Len(nodes) /\ Sound(nodes)
         /\ \A e \in 1 .. Len(nodes) : nodes[e] \in Node /\ nodes[e].size \in Nat
         /\ Cwd \in 1 .. Len(nodes) /\ Cwd \in Tree(nodes) /\ nodes[Cwd].isDir /\ Cwd # NULL
<1>1. Standing(nodes, Cwd) /\ Sound(nodes) /\ Cwd \in Tree(nodes) /\ nodes[Cwd].isDir
  BY DEF ShellFrame, Standing
<1>2. \A x \in Node : x.size \in Nat
  BY DEF Node
<1> QED
  BY <1>1, <1>2, SoundTypes, StandingTypes DEF NULL

(* The descriptors stay, and new nodes hold what their makers zeroed.      *)
LEMMA TableKept ==
  ASSUME SysInv, ShellFrame', UNCHANGED fd_table, contents' = ExpectedOfNew(nodes'),
         stray' \/ ~ stray,
         Len(nodes) <= Len(nodes'), SameFields(nodes, nodes', Len(nodes)),
         \/ stray'
         \/ \A c \in (Len(nodes) + 1) .. Len(nodes') :
              /\ nodes'[c].size <= Len(nodes'[c].data)
              /\ \A i \in 1 .. nodes'[c].size : nodes'[c].data[i] = Zero
  PROVE  SysInv'
<1> DEFINE n == Len(nodes)
           m == Len(nodes')
<1>0. /\ n \in Nat /\ m \in Nat /\ n <= m /\ DOMAIN nodes' = 1 .. m /\ 1 .. n \subseteq 1 .. m
      /\ \A e \in 1 .. m : nodes'[e].size \in Nat
      /\ DOMAIN contents = 1 .. n
  <2>1. n \in Nat /\ DOMAIN contents = 1 .. n
    BY FrameTypes DEF SysInv
  <2>2. /\ m \in Nat /\ DOMAIN nodes' = 1 .. m
        /\ \A e \in 1 .. m : nodes'[e].size \in Nat
    <3>1. Sound(nodes')
      BY DEF ShellFrame, Standing
    <3>2. m \in Nat /\ DOMAIN nodes' = 1 .. m /\ \A e \in 1 .. m : nodes'[e] \in Node
      BY <3>1, SoundTypes
    <3>3. \A x \in Node : x.size \in Nat
      BY DEF Node
    <3> QED
      BY <3>2, <3>3
  <2> QED
    BY <2>1, <2>2
<1>1. fd_table' \in [Descriptors -> Slots(nodes')]
  <2>1. Slots(nodes) \subseteq Slots(nodes')
    BY <1>0 DEF Slots
  <2> QED
    BY <2>1 DEF SysInv
<1>2. /\ DOMAIN contents' = 1 .. m
      /\ \A f \in 1 .. m : contents'[f] = IF f \in 1 .. n THEN contents[f]
                                         ELSE [i \in 1 .. nodes'[f].size |-> Zero]
  <2>1. ExpectedOfNew(nodes') = [c \in 1 .. m |-> IF c \in 1 .. n THEN contents[c]
                                                ELSE [i \in 1 .. nodes'[c].size |-> Zero]]
    BY <1>0 DEF ExpectedOfNew
  <2> HIDE DEF m, n
  <2> QED
    BY <2>1
<1>3. ASSUME ~ stray', NEW f \in 1 .. m
      PROVE  Backed(nodes'[f], contents'[f])
  <2>1. CASE f \in 1 .. n
    <3>1. Backed(nodes[f], contents[f])
      BY <1>3, <2>1 DEF SysInv
    <3>2. nodes'[f].size = nodes[f].size /\ nodes'[f].data = nodes[f].data
      BY <2>1 DEF SameFields
    <3>3. contents'[f] = contents[f]
      BY <1>2, <2>1
    <3> QED
      BY <3>1, <3>2, <3>3 DEF Backed
  <2>2. CASE f \notin 1 .. n
    <3> DEFINE k == nodes'[f].size
               s == [i \in 1 .. k |-> Zero]
    <3>1. contents'[f] = s /\ k \in Nat /\ f \in (n + 1) .. m
      BY <1>0, <1>2, <2>2
    <3>2. k <= Len(nodes'[f].data) /\ \A i \in 1 .. k : nodes'[f].data[i] = Zero
      BY <1>3, <3>1
    <3> HIDE DEF k
    <3>3. s \in [1 .. k -> Bytes] /\ \A i \in 1 .. k : s[i] = Zero
      BY DEF Zero, Bytes
    <3> HIDE DEF s
    <3>4. s \in Seq(Bytes) /\ Len(s) = k
      BY <3>1, <3>3
    <3> QED
      BY <3>1, <3>2, <3>3, <3>4 DEF Backed, k
  <2> QED
    BY <2>1, <2>2
<1>4. \A fd \in Descriptors : fd_table'[fd].used => fd_table'[fd].node # NULL
  BY DEF SysInv
<1> QED
  BY <1>1, <1>2, <1>3, <1>4 DEF SysInv

(* The commands of the shell. *)
LEMMA ShellStepKeeps ==
  ASSUME SysInv, ShellStep
  PROVE  SysInv'
<1>0. ShellFrame /\ Next /\ contents' = ExpectedOfNew(nodes') /\ UNCHANGED fd_table
      /\ Len(nodes) \in Nat
  BY FrameTypes DEF SysInv, ShellStep
<1>1. ShellFrame'
  BY <1>0, FrameKept
<1>2. CASE Still \/ Moved
  <2>1. nodes' = nodes /\ stray' = stray /\ SameFields(nodes, nodes', Len(nodes))
    BY <1>2 DEF Still, Moved, SameFields
  <2>2. stray' \/ ~ stray
    BY <2>1
  <2>3. Len(nodes) <= Len(nodes')
        /\ \A c \in (Len(nodes) + 1) .. Len(nodes') :
              /\ nodes'[c].size <= Len(nodes'[c].data)
              /\ \A i \in 1 .. nodes'[c].size : nodes'[c].data[i] = Zero
    BY <1>0, <2>1
  <2> QED
    BY <1>0, <1>1, <2>1, <2>2, <2>3, TableKept
<1>3. ASSUME NEW m, NEW a \in Names, Made(m, a)
      PROVE  SysInv'
  <2> DEFINE c == Len(nodes) + 1
  <2>1. Gains(nodes, Cwd, m, c, nodes') /\ ~ stray
        /\ \/ stray'
           \/ /\ m[c].size <= Len(m[c].data)
              /\ \A i \in 1 .. m[c].size : m[c].data[i] = Zero
    BY <1>3 DEF Made
  <2>2. Len(nodes') = c /\ SameFields(nodes, nodes', Len(nodes))
        /\ nodes'[c].size = m[c].size /\ nodes'[c].data = m[c].data
    BY <2>1 DEF Gains, SameFields
  <2>3. Len(nodes) <= Len(nodes') /\ \A e \in (Len(nodes) + 1) .. Len(nodes') : e = c
    BY <1>0, <2>2
  <2> HIDE DEF c
  <2>4. \/ stray'
        \/ \A e \in (Len(nodes) + 1) .. Len(nodes') :
              /\ nodes'[e].size <= Len(nodes'[e].data)
              /\ \A i \in 1 .. nodes'[e].size : nodes'[e].data[i] = Zero
    BY <2>1, <2>2, <2>3
  <2> QED
    BY <1>0, <1>1, <2>1, <2>2, <2>3, <2>4, TableKept
<1>4. ASSUME NEW slot \in DOMAIN nodes[Cwd].children, Taken(slot)
      PROVE  SysInv'
  <2>1. Len(nodes') = Len(nodes) /\ SameFields(nodes, nodes', Len(nodes)) /\ stray' = stray
    BY <1>0, <1>4, Removing DEF Taken, ShellFrame
  <2>2. stray' \/ ~ stray
    BY <2>1
  <2>3. Len(nodes) <= Len(nodes')
        /\ \A e \in (Len(nodes) + 1) .. Len(nodes') :
              /\ nodes'[e].size <= Len(nodes'[e].data)
              /\ \A i \in 1 .. nodes'[e].size : nodes'[e].data[i] = Zero
    BY <1>0, <2>1
  <2> QED
    BY <1>0, <1>1, <2>1, <2>2, <2>3, TableKept
<1> QED
  BY <1>0, <1>2, <1>3, <1>4, CommandCases

(* A node is put into some directory of the tree, or dropped. *)
LEMMA GainsFrame ==
  ASSUME ShellFrame, NEW d, Standing(nodes, d), NEW m,
         Gains(nodes, d, m, Len(nodes) + 1, nodes'), stray' \in BOOLEAN, UNCHANGED current_dir
  PROVE  ShellFrame'
<1>1. Cwd' = Cwd
  BY DEF Cwd
<1>2. Sound(nodes') /\ nodes'[Cwd].isDir = nodes[Cwd].isDir
  BY FrameTypes DEF Gains, Standing
<1>3. Tree(nodes) \subseteq Tree(nodes')
  BY DEF Gains
<1>4. Standing(nodes', Cwd)
  BY <1>2, <1>3, FrameTypes DEF Standing
<1> QED
  BY <1>1, <1>4 DEF ShellFrame

LEMMA GainsKeeps ==
  ASSUME SysInv, ~ stray, UNCHANGED <<current_dir, created, fd_table>>,
         contents' = ExpectedOfNew(nodes'), stray' \in BOOLEAN,
         NEW d, Standing(nodes, d), NEW m, Gains(nodes, d, m, Len(nodes) + 1, nodes'),
         m[Len(nodes) + 1].size = 0, Len(m[Len(nodes) + 1].data) \in Nat
  PROVE  SysInv'
<1> DEFINE c == Len(nodes) + 1
<1>0. ShellFrame /\ Len(nodes) \in Nat
  BY FrameTypes DEF SysInv
<1>1. ShellFrame'
  BY <1>0, GainsFrame
<1>2. Len(nodes') = c /\ SameFields(nodes, nodes', Len(nodes))
      /\ nodes'[c].size = 0 /\ Len(nodes'[c].data) \in Nat
  BY DEF Gains, SameFields
<1>3. Len(nodes) <= Len(nodes') /\ \A e \in (Len(nodes) + 1) .. Len(nodes') : e = c
  BY <1>0, <1>2
<1> HIDE DEF c
<1>4. \A e \in (Len(nodes) + 1) .. Len(nodes') :
              /\ nodes'[e].size <= Len(nodes'[e].data)
              /\ \A i \in 1 .. nodes'[e].size : nodes'[e].data[i] = Zero
  BY <1>2, <1>3
<1> QED
  BY <1>1, <1>2, <1>3, <1>4, TableKept

(* No node was made. *)
LEMMA NothingMadeKeeps ==
  ASSUME SysInv, ~ stray, UNCHANGED <<nodes, current_dir, created, fd_table>>,
         contents' = ExpectedOfNew(nodes'), stray' \in BOOLEAN
  PROVE  SysInv'
<1>0. ShellFrame /\ Len(nodes) \in Nat
  BY FrameTypes DEF SysInv
<1>1. ShellFrame'
  BY <1>0 DEF ShellFrame, Cwd
<1>2. Len(nodes) <= Len(nodes') /\ SameFields(nodes, nodes', Len(nodes))
      /\ \A e \in (Len(nodes) + 1) .. Len(nodes') :
              /\ nodes'[e].size <= Len(nodes'[e].data)
              /\ \A i \in 1 .. nodes'[e].size : nodes'[e].data[i] = Zero
  BY <1>0 DEF SameFields
<1> QED
  BY <1>1, <1>2, TableKept

LEMMA OpenKeeps ==
  ASSUME SysInv, NEW path \in Paths, sys_open(path)
  PROVE  SysInv'
<1> DEFINE node == FindByPath(nodes, path)
<1>0. /\ ShellFrame /\ Standing(nodes, Cwd) /\ path \in Seq(Names)
      /\ UNCHANGED <<nodes, stray, current_dir, contents>>
  BY SyscallsAssumption DEF SysInv, ShellFrame, sys_open
<1>1. node # NULL
  BY DEF sys_open
<1>2. PICK fd \in LowestFree(fd_table) :
         fd_table' = [fd_table EXCEPT ![fd] = [node |-> node, offset |-> 0, used |-> TRUE]]
  BY DEF sys_open
<1>3. node \in 1 .. Len(nodes)
  <2>1. node \in Tree(nodes)
    BY <1>0, <1>1, FindByPathStays
  <2> HIDE DEF node
  <2> QED
    BY <1>0, <2>1, StandingTypes
<1> HIDE DEF node
<1>4. [node |-> node, offset |-> 0, used |-> TRUE] \in Slots(nodes)
  BY <1>3 DEF Slots
<1>5. fd_table \in [Descriptors -> Slots(nodes)] /\ fd \in Descriptors
  BY DEF SysInv, LowestFree
<1>6. fd_table' \in [Descriptors -> Slots(nodes')]
  BY <1>0, <1>2, <1>4, <1>5
<1>7. \A e \in Descriptors : fd_table'[e].used => fd_table'[e].node # NULL
  BY <1>1, <1>2, <1>5 DEF SysInv
<1>8. ShellFrame'
  BY <1>0 DEF ShellFrame, Cwd
<1> QED
  BY <1>0, <1>6, <1>7, <1>8 DEF SysInv

LEMMA CloseKeeps ==
  ASSUME SysInv, NEW fd \in Descriptors, sys_close(fd)
  PROVE  SysInv'
<1>0. /\ ShellFrame /\ UNCHANGED <<nodes, stray, current_dir, contents>>
      /\ fd_table' = [fd_table EXCEPT ![fd].used = FALSE]
      /\ fd_table \in [Descriptors -> Slots(nodes)]
  BY DEF SysInv, sys_close
<1>1. [fd_table[fd] EXCEPT !.used = FALSE] \in Slots(nodes)
      /\ [fd_table[fd] EXCEPT !.used = FALSE].used = FALSE
  <2>1. fd_table[fd] \in Slots(nodes)
    BY <1>0
  <2> QED
    BY <2>1 DEF Slots
<1>2. /\ fd_table'[fd] = [fd_table[fd] EXCEPT !.used = FALSE]
      /\ \A e \in Descriptors : e # fd => fd_table'[e] = fd_table[e]
      /\ DOMAIN fd_table' = Descriptors
  BY <1>0
<1>3. fd_table' \in [Descriptors -> Slots(nodes')]
  BY <1>0, <1>1
<1>4. \A e \in Descriptors : fd_table'[e].used => fd_table'[e].node # NULL
  <2>1. \A e \in Descriptors : e = fd \/ fd_table'[e] = fd_table[e]
    BY <1>2
  <2>2. ~ fd_table'[fd].used
    BY <1>1, <1>2
  <2> QED
    BY <2>1, <2>2 DEF SysInv
<1>5. ShellFrame'
  BY <1>0 DEF ShellFrame, Cwd
<1> QED
  BY <1>0, <1>3, <1>4, <1>5 DEF SysInv

LEMMA WriteKeeps ==
  ASSUME SysInv, NEW fd \in Descriptors, NEW bytes \in Buffers, sys_write(fd, bytes)
  PROVE  SysInv'
<1> DEFINE node == fd_table[fd].node
           n == Len(nodes)
<1>0. /\ ShellFrame /\ ~ stray /\ UNCHANGED <<stray, current_dir, fd_table>>
      /\ fd_table \in [Descriptors -> Slots(nodes)]
      /\ DOMAIN contents = 1 .. n /\ DOMAIN nodes = 1 .. n /\ n \in Nat
      /\ Sound(nodes) /\ nodes \in Seq(Node)
  BY FrameTypes DEF SysInv, sys_write, Sound
<1>1. fd_table[fd].used /\ fd_table[fd] \in Slots(nodes)
  BY <1>0 DEF sys_write, IsOpen, Free
<1>2. fd_table[fd].offset = 0 /\ node \in 1 .. n
  <2>1. node # NULL
    BY <1>1 DEF SysInv
  <2> QED
    BY <1>1, <2>1 DEF Slots
<1>3. /\ nodes' = [nodes EXCEPT ![node] = Written(@, 0, bytes)]
      /\ contents' = [contents EXCEPT ![node] = Expected(@, bytes)]
  BY <1>2 DEF sys_write
<1>4. bytes \in Seq(Bytes)
  <2>1. bytes \in Seq(0 .. 255)
    BY SyscallsAssumption
  <2>2. Len(bytes) \in Nat /\ bytes \in [1 .. Len(bytes) -> 0 .. 255]
    BY <2>1, LenProperties
  <2>3. bytes \in [1 .. Len(bytes) -> Bytes]
    BY <2>2 DEF Bytes
  <2> QED
    BY <2>2, <2>3
<1>5. /\ SameButData(nodes[node], Written(nodes[node], 0, bytes))
      /\ Backed(Written(nodes[node], 0, bytes), Expected(contents[node], bytes))
  <2>1. nodes[node] \in Node /\ Backed(nodes[node], contents[node])
    BY <1>0, <1>2 DEF SysInv
  <2> QED
    BY <1>4, <2>1, WrittenIsExpected
<1> HIDE DEF node, n
<1>6. /\ nodes'[node] = Written(nodes[node], 0, bytes)
      /\ contents'[node] = Expected(contents[node], bytes)
      /\ \A e \in 1 .. n : e # node => nodes'[e] = nodes[e] /\ contents'[e] = contents[e]
      /\ DOMAIN contents' = 1 .. n /\ DOMAIN nodes' = 1 .. n
      /\ nodes' = [e \in 1 .. n |-> nodes'[e]]
  BY <1>0, <1>2, <1>3
<1>7. \A e \in 1 .. n : nodes'[e] \in Node
  BY <1>0, <1>5, <1>6 DEF SameButData, n
<1>8. nodes' \in Seq(Node) /\ Len(nodes') = n
  <2>1. nodes' \in [1 .. n -> Node]
    BY <1>6, <1>7
  <2> QED
    BY <1>0, <2>1
<1>9. SameLinks(nodes, nodes')
  <2>1. \A e \in 1 .. n : SameButData(nodes[e], nodes'[e]) \/ nodes'[e] = nodes[e]
    BY <1>5, <1>6
  <2> QED
    BY <1>8, <2>1 DEF SameLinks, SameButData, n
<1>10. ShellFrame'
  <2>1. Sound(nodes') /\ Tree(nodes') = Tree(nodes)
    BY <1>0, <1>9, SameLinksSameTree
  <2>2. Cwd' = Cwd /\ nodes'[Cwd].isDir = nodes[Cwd].isDir
    BY <1>0, <1>9, FrameTypes DEF SameLinks, Cwd
  <2>3. Standing(nodes', Cwd)
    BY <1>0, <2>1, <2>2 DEF Standing, ShellFrame
  <2> QED
    BY <1>0, <2>2, <2>3 DEF ShellFrame
<1>11. \A f \in 1 .. n : Backed(nodes'[f], contents'[f])
  <2>1. \A f \in 1 .. n : Backed(nodes[f], contents[f])
    BY <1>0 DEF SysInv, n
  <2> QED
    BY <1>5, <1>6, <2>1
<1>12. Slots(nodes') = Slots(nodes)
  BY <1>8 DEF Slots, n
<1> QED
  BY <1>0, <1>6, <1>8, <1>10, <1>11, <1>12 DEF SysInv

LEMMA MkdirKeeps ==
  ASSUME SysInv, NEW path \in Paths, fs_mkdir(path)
  PROVE  SysInv'
<1> DEFINE parent == FindByPath(nodes, ParentPath(path))
           name == NewName(path)
<1>0. /\ Standing(nodes, Cwd) /\ ParentPath(path) \in Seq(Names) /\ name \in Names
      /\ ~ stray /\ UNCHANGED <<current_dir, created, fd_table>>
      /\ contents' = ExpectedOfNew(nodes') /\ IsDir(nodes, parent)
  BY SplitPath, SyscallsAssumption DEF SysInv, ShellFrame, fs_mkdir
<1>1. Standing(nodes, parent)
  BY <1>0, FindByPathStays DEF Standing, IsDir
<1>2. PICK ok \in NodeOutcomes, table \in Outcomes :
           IF ok
             THEN /\ nodes' = MadeDir(nodes, parent, NewName(path), table)
                  /\ stray' = AddIsStray(nodes, parent, Len(nodes) + 1)
             ELSE /\ stray' = AddIsStray(nodes, parent, NULL)
                  /\ UNCHANGED nodes
  BY DEF fs_mkdir
<1> HIDE DEF parent, name
<1>3. table \in BOOLEAN /\ ok \in BOOLEAN /\ (ok => Len(nodes) < MaxNodes) /\ stray' \in BOOLEAN
  BY <1>2 DEF Outcomes, NodeOutcomes, AddIsStray
<1>4. CASE ~ ok
  BY <1>0, <1>2, <1>3, <1>4, NothingMadeKeeps
<1>5. CASE ok
  <2>1. nodes' = MadeDir(nodes, parent, name, table) /\ Len(nodes) < MaxNodes
    BY <1>2, <1>3, <1>5 DEF name
  <2>2. PICK m : MkdirMakes(nodes, parent, name, table, m)
    BY <1>0, <1>1, <1>3, <2>1, MadeDirIsFresh
  <2>3. Gains(nodes, parent, m, Len(nodes) + 1, nodes')
    BY <1>1, <2>1, <2>2, Adding DEF MkdirMakes
  <2>4. m[Len(nodes) + 1].size = 0 /\ Len(m[Len(nodes) + 1].data) \in Nat
    <3>1. m[Len(nodes) + 1].data = << >> /\ Len(<< >>) = 0
      BY <2>2 DEF MkdirMakes
    <3> QED
      BY <2>2, <3>1 DEF MkdirMakes
  <2> QED
    BY <1>0, <1>1, <1>3, <2>3, <2>4, GainsKeeps
<1> QED
  BY <1>3, <1>4, <1>5

LEMMA SysTouchKeeps ==
  ASSUME SysInv, NEW path \in Paths, fs_touch(path)
  PROVE  SysInv'
<1> DEFINE parent == FindByPath(nodes, ParentPath(path))
           name == NewName(path)
<1>0. /\ Standing(nodes, Cwd) /\ ParentPath(path) \in Seq(Names) /\ name \in Names
      /\ ~ stray /\ UNCHANGED <<current_dir, created, fd_table>>
      /\ contents' = ExpectedOfNew(nodes') /\ IsDir(nodes, parent)
  BY SplitPath, SyscallsAssumption DEF SysInv, ShellFrame, fs_touch
<1>1. Standing(nodes, parent)
  BY <1>0, FindByPathStays DEF Standing, IsDir
<1>2. PICK ok \in NodeOutcomes, buffer \in Outcomes :
           IF ok
             THEN /\ nodes' = AddChild([Create(nodes, NewName(path), FALSE, FALSE) EXCEPT
                                         ![Len(nodes) + 1].data =
                                            IF buffer THEN [i \in 1 .. Capacity |-> Junk]
                                                      ELSE << >>],
                                       parent, Len(nodes) + 1)
                  /\ stray' = AddIsStray(nodes, parent, Len(nodes) + 1)
             ELSE stray' = TRUE /\ UNCHANGED nodes
  BY DEF fs_touch
<1> HIDE DEF parent, name
<1>3. buffer \in BOOLEAN /\ ok \in BOOLEAN /\ (ok => Len(nodes) < MaxNodes) /\ stray' \in BOOLEAN
  BY <1>2 DEF Outcomes, NodeOutcomes, AddIsStray
<1>4. CASE ~ ok
  BY <1>0, <1>2, <1>3, <1>4, NothingMadeKeeps
<1>5. CASE ok
  <2>1. Len(nodes) < MaxNodes /\ Sound(nodes)
    BY <1>0, <1>3, <1>5 DEF Standing
  <2>2. PICK m : SysTouchMakes(nodes, parent, name, buffer, m)
    BY <1>0, <1>3, <2>1, SysTouchedIsFresh
  <2>3. nodes' = AddChild(m, parent, Len(nodes) + 1)
    BY <1>2, <1>5, <2>2 DEF SysTouchMakes, name
  <2>4. Gains(nodes, parent, m, Len(nodes) + 1, nodes')
    BY <1>1, <2>2, <2>3, Adding DEF SysTouchMakes
  <2>5. m[Len(nodes) + 1].size = 0 /\ Len(m[Len(nodes) + 1].data) \in Nat
    BY <2>2 DEF SysTouchMakes
  <2> QED
    BY <1>0, <1>1, <1>3, <2>4, <2>5, GainsKeeps
<1> QED
  BY <1>3, <1>4, <1>5

LEMMA InitSysInv == SysInit => SysInv
<1> SUFFICES ASSUME SysInit PROVE SysInv
  OBVIOUS
<1>1. /\ Init /\ ShellFrame /\ Len(nodes) = 2
      /\ nodes[1].size = 0 /\ nodes[1].data = << >>
      /\ nodes[2].size = 1 /\ Len(nodes[2].data) = 1 /\ nodes[2].data[1] = Zero
  BY InitShellInv, InvIsFrame, BootTree DEF SysInit
<1>2. Len(nodes) = 2 /\ DOMAIN nodes = 1 .. 2
  BY <1>1, BootTree, FrameTypes
<1>3. /\ fd_table \in [Descriptors -> Slots(nodes)]
      /\ \A fd \in Descriptors : ~ fd_table[fd].used
  <2>1. Closed \in Slots(nodes) /\ ~ Closed.used
    BY DEF Closed, Slots
  <2>2. fd_table = [fd \in Descriptors |-> Closed]
    BY DEF SysInit
  <2> HIDE DEF Closed
  <2> QED
    BY <2>1, <2>2
<1>4. /\ DOMAIN contents = 1 .. 2
      /\ contents[1] = [i \in 1 .. 0 |-> Zero]
      /\ contents[2] = [i \in 1 .. 1 |-> Zero]
  <2>1. contents = [c \in 1 .. 2 |-> [i \in 1 .. nodes[c].size |-> Zero]]
    BY <1>2 DEF SysInit
  <2>2. 1 \in 1 .. 2 /\ 2 \in 1 .. 2
    OBVIOUS
  <2> QED
    BY <1>1, <2>1, <2>2
<1>5. Backed(nodes[1], contents[1])
  <2>1. [i \in 1 .. 0 |-> Zero] = << >>
    OBVIOUS
  <2>2. Len(<< >>) = 0 /\ << >> \in Seq(Bytes)
    OBVIOUS
  <2> QED
    BY <1>1, <1>4, <2>1, <2>2 DEF Backed
<1>6. Backed(nodes[2], contents[2])
  <2>1. [i \in 1 .. 1 |-> Zero] = <<Zero>>
    OBVIOUS
  <2>2. Len(<<Zero>>) = 1 /\ <<Zero>> \in Seq(Bytes) /\ <<Zero>>[1] = Zero
    BY DEF Zero, Bytes
  <2>3. \A i \in 1 .. 1 : i = 1
    OBVIOUS
  <2> QED
    BY <1>1, <1>4, <2>1, <2>2, <2>3 DEF Backed
<1>7. \A f \in 1 .. 2 : f = 1 \/ f = 2
  OBVIOUS
<1> QED
  BY <1>1, <1>2, <1>3, <1>4, <1>5, <1>6, <1>7 DEF SysInv

LEMMA NextKeepsSysInv == SysInv /\ [SysNext]_sysVars => SysInv'
<1> SUFFICES ASSUME SysInv, [SysNext]_sysVars PROVE SysInv'
  OBVIOUS
<1>1. CASE UNCHANGED sysVars
  <2>1. UNCHANGED <<nodes, stray, current_dir, fd_table, contents>>
    BY <1>1 DEF sysVars
  <2>2. ShellFrame'
    BY <2>1 DEF SysInv, ShellFrame, Cwd
  <2> QED
    BY <2>1, <2>2 DEF SysInv
<1>2. CASE ShellStep
  BY <1>2, ShellStepKeeps
<1>3. ASSUME NEW path \in Paths, sys_open(path) \/ fs_mkdir(path) \/ fs_touch(path)
      PROVE  SysInv'
  BY <1>3, OpenKeeps, MkdirKeeps, SysTouchKeeps
<1>4. ASSUME NEW fd \in Descriptors, sys_close(fd)
      PROVE  SysInv'
  BY <1>4, CloseKeeps
<1>5. ASSUME NEW fd \in Descriptors, NEW bytes \in Buffers, sys_write(fd, bytes)
      PROVE  SysInv'
  BY <1>5, WriteKeeps
<1> QED
  BY <1>1, <1>2, <1>3, <1>4, <1>5 DEF SysNext

LEMMA SysInvHolds == SysSpec => []SysInv
  BY InitSysInv, NextKeepsSysInv, PTL DEF SysSpec

-----------------------------------------------------------------------------
(* The properties the runs check *)

(* Every descriptor refers to a node that was made, and the size of every  *)
(* file, removed or not, is covered by its buffer under any writes and any *)
(* commands between them, so the memcpy of fs_read and fs_write stays      *)
(* inside the buffer.                                                      *)
THEOREM DescriptorsAreTyped == SysSpec => []SysTypeOK
<1>1. SysInv => SysTypeOK
  <2> SUFFICES ASSUME SysInv PROVE SysTypeOK
    OBVIOUS
  <2>1. DOMAIN nodes = 1 .. Len(nodes)
    BY FrameTypes DEF SysInv
  <2>2. \A f \in 1 .. Len(nodes) : ~ stray => nodes[f].size <= Len(nodes[f].data)
    BY DEF SysInv, Backed
  <2> QED
    BY <2>1, <2>2 DEF SysTypeOK, SysInv, Slots
<1> QED
  BY <1>1, SysInvHolds, PTL

(* Files and directories that come from a path instead of the shell keep   *)
(* the tree just as sound: fs_touch and fs_mkdir link what they made below *)
(* a directory of the tree, and no write reaches a parent pointer or an    *)
(* array of children.                                                      *)
THEOREM CallsKeepTheTree == SysSpec => []TreeConsistent
<1>1. SysInv => TreeConsistent
  <2> SUFFICES ASSUME SysInv PROVE TreeConsistent
    OBVIOUS
  <2>1. /\ Sound(nodes) /\ Cwd \in Tree(nodes) /\ nodes[Cwd].isDir
        /\ DOMAIN nodes = 1 .. Len(nodes)
    BY FrameTypes DEF SysInv
  <2> QED
    BY <2>1 DEF TreeConsistent, Sound, Entry
<1> QED
  BY <1>1, SysInvHolds, PTL

(* The head of a buffer is the head of what a reader expects. *)
LEMMA SameHead ==
  ASSUME NEW data \in Seq(Bytes), NEW s \in Seq(Bytes), Len(s) <= Len(data),
         \A i \in 1 .. Len(s) : data[i] = s[i], NEW k \in 0 .. Len(s)
  PROVE  SubSeq(data, 1, k) = SubSeq(s, 1, k)
<1>0. k \in Nat /\ Len(s) \in Nat /\ Len(data) \in Nat
  OBVIOUS
<1>1. SubSeq(data, 1, k) = [i \in 1 .. k |-> data[i]]
  BY <1>0
<1>2. SubSeq(s, 1, k) = [i \in 1 .. k |-> s[i]]
  BY <1>0
<1>3. \A i \in 1 .. k : i \in 1 .. Len(s)
  BY <1>0
<1> QED
  BY <1>1, <1>2, <1>3

(* fs_read gives back what fs_write was last told, whatever the buffer     *)
(* went through: kept, grown in place or moved by krealloc, or taken out   *)
(* of the tree by rm while its descriptor was open.                        *)
THEOREM ReadsGiveWhatWasWritten == SysSpec => []ReadsWhatWasWritten
<1>1. SysInv => ReadsWhatWasWritten
  <2> SUFFICES ASSUME SysInv, ~ stray, NEW fd \in Descriptors, NEW n \in ReadSizes,
                      fd_table[fd].used, ~ nodes[fd_table[fd].node].isDir
               PROVE  sys_read(fd, n) =
                        SubSeq(contents[fd_table[fd].node], 1,
                               IF n < Len(contents[fd_table[fd].node])
                                 THEN n ELSE Len(contents[fd_table[fd].node]))
    BY DEF ReadsWhatWasWritten
  <2> DEFINE node == fd_table[fd].node
             f == nodes[node]
             s == contents[node]
             k == IF n < Len(s) THEN n ELSE Len(s)
  <2>1. n \in Nat
    BY SyscallsAssumption
  <2>2. fd_table[fd] \in Slots(nodes) /\ node # NULL
    BY DEF SysInv
  <2>3. node \in 1 .. Len(nodes) /\ fd_table[fd].offset = 0
    BY <2>2 DEF Slots
  <2>4. f \in Node /\ f.size \in Nat /\ Backed(f, s)
    BY <2>3, FrameTypes DEF SysInv
  <2>5. sys_read(fd, n) = Read(f, 0, n)
    BY <2>3 DEF sys_read, IsOpen, Free
  <2> HIDE DEF node, f, s
  <2>6. ~ f.isDir /\ f.data \in Seq(Bytes)
    BY <2>4 DEF node, f, Node
  <2>7. /\ s \in Seq(Bytes) /\ Len(s) = f.size /\ Len(s) <= Len(f.data)
        /\ \A i \in 1 .. Len(s) : f.data[i] = s[i]
    BY <2>4 DEF Backed
  <2>8. Read(f, 0, n) = SubSeq(f.data, 1, k)
    <3>1. ReadEnd(f, 0 + n) = k /\ 0 + 1 = 1 /\ ~ (0 > f.size)
      BY <2>1, <2>4, <2>7 DEF ReadEnd
    <3> HIDE DEF k
    <3> QED
      BY <2>6, <3>1 DEF Read
  <2>9. k \in 0 .. Len(s)
    BY <2>1, <2>4, <2>7
  <2>10. SubSeq(f.data, 1, k) = SubSeq(s, 1, k)
    <3> HIDE DEF k
    <3> QED
      BY <2>6, <2>7, <2>9, SameHead
  <2> QED
    BY <2>5, <2>8, <2>10 DEF node, f, s
<1> QED
  BY <1>1, SysInvHolds, PTL

(* sys_open takes a descriptor nobody holds, and sys_close only ends what  *)
(* it is asked to end: an open descriptor keeps its node.                  *)
THEOREM DescriptorsKeepTheirNode == SysSpec => BoundUntilClosed
<1> DEFINE Kept == \A fd \in Descriptors :
                     fd_table[fd].used /\ fd_table'[fd].used => fd_table'[fd] = fd_table[fd]
<1>1. SysInv /\ [SysNext]_sysVars => [Kept]_sysVars
  <2> SUFFICES ASSUME SysInv, [SysNext]_sysVars PROVE Kept \/ UNCHANGED sysVars
    OBVIOUS
  <2>0. DOMAIN fd_table = Descriptors
    BY DEF SysInv
  <2>1. CASE UNCHANGED fd_table
    BY <2>1
  <2>2. ASSUME NEW path \in Paths, sys_open(path)
        PROVE  Kept
    <3>1. PICK x \in LowestFree(fd_table) :
            fd_table' = [fd_table EXCEPT ![x] = [node |-> FindByPath(nodes, path),
                                                 offset |-> 0, used |-> TRUE]]
      BY <2>2 DEF sys_open
    <3>2. ~ fd_table[x].used
      BY DEF LowestFree, Free
    <3>3. \A fd \in Descriptors : fd # x => fd_table'[fd] = fd_table[fd]
      BY <2>0, <3>1
    <3> QED
      BY <3>2, <3>3
  <2>3. ASSUME NEW x \in Descriptors, sys_close(x)
        PROVE  Kept
    <3>1. fd_table' = [fd_table EXCEPT ![x].used = FALSE]
      BY <2>3 DEF sys_close
    <3>2. fd_table[x] \in Slots(nodes)
      BY DEF SysInv
    <3>3. ~ [fd_table[x] EXCEPT !.used = FALSE].used
      BY <3>2 DEF Slots
    <3>4. /\ fd_table'[x] = [fd_table[x] EXCEPT !.used = FALSE]
          /\ \A fd \in Descriptors : fd # x => fd_table'[fd] = fd_table[fd]
      BY <2>0, <3>1
    <3> QED
      BY <3>3, <3>4
  <2>4. \/ UNCHANGED sysVars
        \/ UNCHANGED fd_table
        \/ \E path \in Paths : sys_open(path)
        \/ \E x \in Descriptors : sys_close(x)
    BY DEF SysNext, ShellStep, fs_mkdir, fs_touch, sys_write
  <2> QED
    BY <2>1, <2>2, <2>3, <2>4
<1> QED
  BY <1>1, SysInvHolds, PTL DEF SysSpec, BoundUntilClosed
=============================================================================
