-------------------------- MODULE HeapMemoryProofs --------------------------
(***************************************************************************)
(* Proofs about HeapMemory.tla: the words of the arena hold the list of    *)
(* blocks of Heap.tla and the clients' data, for every arena, alignment    *)
(* and set of request sizes.  The lemmas of HeapProofs.tla are used of the *)
(* list that is read out of memory, HP.                                    *)
(***************************************************************************)
EXTENDS HeapMemory, DataInduction, SequenceTheorems

HP == INSTANCE HeapProofs WITH blocks <- ListInMemory

LEMMA ArenaBounds ==
  /\ Header = 3
  /\ KERNEL_HEAP_START \in Nat /\ KERNEL_HEAP_SIZE \in Nat /\ HeapEnd \in Nat
  /\ KERNEL_HEAP_START # NULL
  /\ HP!Addresses = Addresses /\ HP!HeapEnd = HeapEnd /\ NULL \notin Addresses
BY MemoryAssumption, HeaderAssumption
   DEF HeapEnd, Addresses, NULL, HP!Addresses, HP!HeapEnd

-----------------------------------------------------------------------------
(* A memory that holds a list of blocks: at the address of each block its  *)
(* size, the address of the next one and its flag.                         *)

NextAddr(bs, i) == IF i < Len(bs) THEN bs[i + 1].addr ELSE NULL
FirstAddr(bs) == IF Len(bs) = 0 THEN NULL ELSE bs[1].addr

HoldsHeader(m, b, next) ==
  /\ m[b.addr] = b.size
  /\ m[b.addr + 1] = next
  /\ m[b.addr + 2] = 1 <=> b.free

Written(m, bs) ==
  /\ m \in [Addresses -> Nat]
  /\ HP!TiledList(bs)
  /\ \A i \in 1 .. Len(bs) : HoldsHeader(m, bs[i], NextAddr(bs, i))

(* A block of a list that tiles the arena, in numbers. *)
LEMMA BlockPlace ==
  ASSUME NEW bs, HP!TiledList(bs), NEW i \in 1 .. Len(bs)
  PROVE  /\ bs[i].addr \in Nat /\ bs[i].addr \in Addresses
         /\ bs[i].size \in Nat /\ bs[i].free \in BOOLEAN
         /\ KERNEL_HEAP_START <= bs[i].addr
         /\ bs[i].addr + 3 + bs[i].size <= HeapEnd
         /\ HP!Payload(bs[i]) = bs[i].addr + 3
         /\ HP!EndOf(bs[i]) = bs[i].addr + 3 + bs[i].size
         /\ bs[i].addr + 1 \in Addresses /\ bs[i].addr + 2 \in Addresses
<1>1. /\ bs[i].addr \in HP!Addresses /\ bs[i].size \in Nat /\ bs[i].free \in BOOLEAN
      /\ HP!EndOf(bs[i]) <= HP!HeapEnd
  BY HP!BlockInArena, MemoryAssumption
<1>2. bs[i].addr \in Addresses /\ HP!EndOf(bs[i]) <= HeapEnd
  BY <1>1, ArenaBounds
<1>3. bs[i].addr \in Nat /\ KERNEL_HEAP_START <= bs[i].addr
  BY <1>2, ArenaBounds DEF Addresses
<1>4. /\ HP!Payload(bs[i]) = bs[i].addr + 3
      /\ HP!EndOf(bs[i]) = bs[i].addr + 3 + bs[i].size
  BY ArenaBounds DEF HP!Payload, HP!EndOf
<1>5. bs[i].addr + 1 \in Addresses /\ bs[i].addr + 2 \in Addresses
  <2> DEFINE a == bs[i].addr
             z == bs[i].size
  <2>1. a \in Nat /\ z \in Nat /\ KERNEL_HEAP_START <= a /\ a + 3 + z <= HeapEnd
    BY <1>1, <1>2, <1>3, <1>4
  <2> HIDE DEF a, z
  <2>2. a + 1 \in Addresses /\ a + 2 \in Addresses
    BY <2>1, ArenaBounds DEF Addresses
  <2> QED
    BY <2>2 DEF a
<1> QED
  BY <1>1, <1>2, <1>3, <1>4, <1>5

LEMMA TiledShape ==
  ASSUME NEW bs, HP!TiledList(bs)
  PROVE  /\ Len(bs) \in Nat /\ DOMAIN bs = 1 .. Len(bs)
         /\ bs \in Seq(HP!Block)
         /\ bs = [i \in 1 .. Len(bs) |-> bs[i]]
BY LenProperties DEF HP!TiledList

(* Two blocks do not share a word. *)
LEMMA BlocksApart ==
  ASSUME NEW bs, HP!TiledList(bs), NEW i \in 1 .. Len(bs), NEW j \in 1 .. Len(bs), i # j
  PROVE  \/ bs[i].addr + 3 + bs[i].size <= bs[j].addr
         \/ bs[j].addr + 3 + bs[j].size <= bs[i].addr
<1>1. HP!EndOf(bs[i]) <= bs[j].addr \/ HP!EndOf(bs[j]) <= bs[i].addr
  BY TiledShape DEF HP!TiledList, HP!Ordered
<1> QED
  BY <1>1, BlockPlace

(* There are no more blocks than words. *)
LEMMA FewBlocks ==
  ASSUME NEW bs, HP!TiledList(bs)
  PROVE  Len(bs) <= KERNEL_HEAP_SIZE
<1>1. Len(bs) \in Nat
  BY TiledShape
<1> DEFINE S == {k \in 0 .. Len(bs) : k > 0 => bs[k].addr >= KERNEL_HEAP_START + k - 1}
<1>2. 0 \in S
  BY <1>1
<1>3. ASSUME NEW k \in 0 .. (Len(bs) - 1), k \in S
      PROVE  k + 1 \in S
  <2>1. k + 1 \in 1 .. Len(bs) /\ bs[k + 1].addr \in Nat /\ KERNEL_HEAP_START <= bs[k + 1].addr
    <3>1. k + 1 \in 1 .. Len(bs)
      BY <1>1
    <3> QED
      BY <3>1, BlockPlace
  <2>2. CASE k = 0
    BY <2>1, <2>2, <1>1, ArenaBounds
  <2>3. CASE k > 0
    <3>1. k \in 1 .. Len(bs) /\ k < k + 1
      BY <2>3, <1>1
    <3>2. bs[k].addr + 3 + bs[k].size <= bs[k + 1].addr
      BY <2>1, <3>1, BlockPlace DEF HP!TiledList, HP!Ordered
    <3>3. bs[k].addr \in Nat /\ bs[k].size \in Nat /\ bs[k].addr >= KERNEL_HEAP_START + k - 1
      BY <1>3, <2>3, <3>1, BlockPlace
    <3>4. bs[k + 1].addr >= KERNEL_HEAP_START + k
      <4> DEFINE a == bs[k].addr
                 z == bs[k].size
                 b == bs[k + 1].addr
      <4>1. /\ a \in Nat /\ z \in Nat /\ b \in Nat /\ k \in Nat
            /\ a + 3 + z <= b /\ a >= KERNEL_HEAP_START + k - 1
        BY <2>1, <3>2, <3>3
      <4> HIDE DEF a, z, b
      <4>2. b >= KERNEL_HEAP_START + k
        BY <4>1, ArenaBounds
      <4> QED
        BY <4>2 DEF b
    <3>5. (k + 1) - 1 = k /\ KERNEL_HEAP_START + (k + 1) - 1 = KERNEL_HEAP_START + k
      BY ArenaBounds
    <3> QED
      BY <2>1, <3>4, <3>5, <1>1
  <2> QED
    BY <2>2, <2>3, <1>1
<1>4. Len(bs) \in S
  <2> HIDE DEF S
  <2>1. 0 .. Len(bs) \subseteq S
    BY <1>1, <1>2, <1>3, Induction
  <2> QED
    BY <1>1, <2>1
<1>5. CASE Len(bs) = 0
  BY <1>5, ArenaBounds
<1>6. CASE Len(bs) > 0
  <2>1. bs[Len(bs)].addr >= KERNEL_HEAP_START + Len(bs) - 1
    BY <1>4, <1>6
  <2>2. /\ bs[Len(bs)].addr \in Nat /\ bs[Len(bs)].size \in Nat
        /\ bs[Len(bs)].addr + 3 + bs[Len(bs)].size <= HeapEnd
    <3>1. Len(bs) \in 1 .. Len(bs)
      BY <1>1, <1>6
    <3> QED
      BY <3>1, BlockPlace
  <2> QED
    BY <2>1, <2>2, <1>1, ArenaBounds DEF HeapEnd
<1> QED
  BY <1>1, <1>5, <1>6

-----------------------------------------------------------------------------
(* Following the next pointers finds the list that is written. *)

(* What the walk has from the header at x on, given what it has one step   *)
(* further on.                                                             *)
From(m, rest, x) ==
  <<x>> \o IF NextOf(m, x) \in Addresses THEN rest[NextOf(m, x)] ELSE << >>

Walks(m, f) ==
  f = [k \in 0 .. KERNEL_HEAP_SIZE |->
         [x \in Addresses |->
            IF k = 0 THEN << >>
            ELSE <<x>> \o IF NextOf(m, x) \in Addresses THEN f[k - 1][NextOf(m, x)]
                          ELSE << >>]]

LEMMA WalkExists ==
  ASSUME NEW m
  PROVE  \E f : Walks(m, f)
<1> DEFINE V == [Addresses -> Seq(Addresses)]
           v == [x \in Addresses |-> << >>]
           step == [i \in 1 .. KERNEL_HEAP_SIZE |->
                      [g \in V |-> [x \in Addresses |-> From(m, g, x)]]]
<1>1. v \in V
  BY EmptySeq
<1>2. ASSUME NEW g \in V, NEW x \in Addresses
      PROVE  From(m, g, x) \in Seq(Addresses)
  <2>1. (IF NextOf(m, x) \in Addresses THEN g[NextOf(m, x)] ELSE << >>) \in Seq(Addresses)
    BY EmptySeq
  <2>2. <<x>> \in Seq(Addresses)
    OBVIOUS
  <2> QED
    BY <2>1, <2>2, ConcatProperties DEF From
<1>3. step \in [1 .. KERNEL_HEAP_SIZE -> [V -> V]]
  BY <1>2
<1>4. KERNEL_HEAP_SIZE \in Nat
  BY ArenaBounds
<1>5. PICK f : Iterates(f, KERNEL_HEAP_SIZE, V, v, step)
  <2> HIDE DEF V, v, step
  <2> QED
    BY <1>1, <1>3, <1>4, Iteration
<1>6. /\ f \in [0 .. KERNEL_HEAP_SIZE -> V] /\ f[0] = v
      /\ \A i \in 1 .. KERNEL_HEAP_SIZE : f[i] = step[i][f[i - 1]]
  BY <1>5 DEF Iterates
<1>7. ASSUME NEW k \in 0 .. KERNEL_HEAP_SIZE
      PROVE  f[k] = [x \in Addresses |->
                       IF k = 0 THEN << >>
                       ELSE <<x>> \o IF NextOf(m, x) \in Addresses
                                     THEN f[k - 1][NextOf(m, x)] ELSE << >>]
  <2>1. CASE k = 0
    BY <1>6, <2>1
  <2>2. CASE k # 0
    <3>1. k \in 1 .. KERNEL_HEAP_SIZE /\ k - 1 \in 0 .. KERNEL_HEAP_SIZE
      BY <2>2, <1>4
    <3>2. f[k - 1] \in V
      BY <1>6, <3>1
    <3>3. f[k] = [x \in Addresses |-> From(m, f[k - 1], x)]
      BY <1>6, <3>1, <3>2
    <3> QED
      BY <2>2, <3>3 DEF From
  <2> QED
    BY <2>1, <2>2
<1>8. Walks(m, f)
  BY <1>6, <1>7 DEF Walks
<1> QED
  BY <1>8

(* The addresses of the blocks of a list from the i-th on. *)
AddressesFrom(bs, i) == [j \in 1 .. (Len(bs) - i + 1) |-> bs[i + j - 1].addr]

LEMMA FunctionIsSeq ==
  ASSUME NEW S, NEW n \in Nat, NEW s \in [1 .. n -> S]
  PROVE  s \in Seq(S) /\ Len(s) = n
<1>1. s \in Seq(S)
  BY SeqDef
<1> QED
  BY <1>1, LenProperties

LEMMA OneMoreAddress ==
  ASSUME NEW bs, HP!TiledList(bs), NEW i \in 1 .. Len(bs)
  PROVE  AddressesFrom(bs, i) =
           <<bs[i].addr>> \o IF i < Len(bs) THEN AddressesFrom(bs, i + 1) ELSE << >>
<1>0. Len(bs) \in Nat /\ i \in Nat /\ \A k \in 1 .. Len(bs) : bs[k].addr \in Nat
  BY TiledShape, BlockPlace
<1> DEFINE n == Len(bs) - i + 1
           s == AddressesFrom(bs, i)
           r == IF i < Len(bs) THEN AddressesFrom(bs, i + 1) ELSE << >>
           h == <<bs[i].addr>>
<1>1. n \in Nat /\ n >= 1
  BY <1>0
<1>2. s \in Seq(Nat) /\ Len(s) = n /\ \A j \in 1 .. n : s[j] = bs[i + j - 1].addr
  <2>1. \A j \in 1 .. n : i + j - 1 \in 1 .. Len(bs)
    BY <1>0
  <2>2. s = [j \in 1 .. n |-> bs[i + j - 1].addr]
    BY DEF AddressesFrom
  <2>3. s \in [1 .. n -> Nat]
    BY <1>0, <2>1, <2>2
  <2> HIDE DEF s, n
  <2> QED
    BY <1>1, <2>2, <2>3, FunctionIsSeq
<1>3. /\ r \in Seq(Nat) /\ Len(r) = n - 1
      /\ \A j \in 1 .. (n - 1) : r[j] = bs[i + j].addr
  <2>1. CASE i < Len(bs)
    <3>1. \A j \in 1 .. (n - 1) : (i + 1) + j - 1 = i + j /\ i + j \in 1 .. Len(bs)
      BY <1>0
    <3>2. r = [j \in 1 .. (n - 1) |-> bs[i + j].addr]
      <4>1. Len(bs) - (i + 1) + 1 = n - 1
        BY <1>0
      <4>2. r = [j \in 1 .. (n - 1) |-> bs[(i + 1) + j - 1].addr]
        BY <2>1, <4>1 DEF AddressesFrom
      <4> HIDE DEF r, n
      <4> QED
        BY <3>1, <4>2
    <3>3. r \in [1 .. (n - 1) -> Nat]
      <4> HIDE DEF n, r
      <4> QED
        BY <1>0, <3>1, <3>2
    <3> HIDE DEF r, n
    <3>4. n - 1 \in Nat
      BY <1>1
    <3>5. r \in Seq(Nat) /\ Len(r) = n - 1
      BY <3>3, <3>4, FunctionIsSeq
    <3> QED
      BY <3>2, <3>5
  <2>2. CASE ~ (i < Len(bs))
    <3>1. r = << >> /\ n - 1 = 0
      BY <1>0, <2>2
    <3> HIDE DEF r, n
    <3> QED
      BY <3>1, EmptySeq
  <2> QED
    BY <2>1, <2>2
<1>4. h \in Seq(Nat) /\ Len(h) = 1 /\ h[1] = bs[i].addr
  BY <1>0
<1> HIDE DEF r, n, h, s
<1>5. /\ h \o r \in Seq(Nat) /\ Len(h \o r) = n
      /\ \A j \in 1 .. n : (h \o r)[j] = IF j = 1 THEN h[1] ELSE r[j - 1]
  <2>1. /\ h \o r \in Seq(Nat) /\ Len(h \o r) = Len(h) + Len(r)
        /\ \A j \in 1 .. Len(h) + Len(r) :
             (h \o r)[j] = IF j <= Len(h) THEN h[j] ELSE r[j - Len(h)]
    BY <1>3, <1>4, ConcatProperties
  <2>2. Len(h) + Len(r) = n
    BY <1>1, <1>3, <1>4
  <2>3. \A j \in 1 .. n : j <= 1 <=> j = 1
    BY <1>1
  <2> QED
    BY <1>4, <2>1, <2>2, <2>3
<1>6. ASSUME NEW j \in 1 .. n
      PROVE  (h \o r)[j] = s[j]
  <2>1. CASE j = 1
    <3>1. i + 1 - 1 = i
      BY <1>0
    <3> QED
      BY <1>1, <1>2, <1>4, <1>5, <2>1, <3>1
  <2>2. CASE j # 1
    <3>1. j - 1 \in 1 .. (n - 1) /\ i + (j - 1) = i + j - 1
      BY <1>0, <1>1, <2>2
    <3> QED
      BY <1>2, <1>3, <1>5, <2>2, <3>1
  <2> QED
    BY <2>1, <2>2
<1>7. s = h \o r
  <2> DEFINE t == h \o r
  <2>1. t \in Seq(Nat) /\ Len(s) = Len(t) /\ \A j \in 1 .. Len(s) : s[j] = t[j]
    BY <1>2, <1>5, <1>6
  <2> HIDE DEF t
  <2>2. s = t
    BY <1>2, <2>1, SeqEqual
  <2> QED
    BY <2>2 DEF t
<1> QED
  BY <1>7 DEF s, h, r

(* A walk of k steps that starts with one of the last k blocks meets the   *)
(* rest of the list.                                                       *)
LEMMA WalkMeetsBlocks ==
  ASSUME NEW m, NEW bs, Written(m, bs), NEW f, Walks(m, f), NEW i \in 1 .. Len(bs)
  PROVE  f[KERNEL_HEAP_SIZE][bs[i].addr] = AddressesFrom(bs, i)
<1>0. /\ HP!TiledList(bs) /\ Len(bs) \in Nat /\ Len(bs) <= KERNEL_HEAP_SIZE
      /\ KERNEL_HEAP_SIZE \in Nat
  BY TiledShape, FewBlocks, ArenaBounds DEF Written
<1> DEFINE S == {k \in 0 .. KERNEL_HEAP_SIZE :
                   \A j \in 1 .. Len(bs) :
                     Len(bs) - j + 1 <= k => f[k][bs[j].addr] = AddressesFrom(bs, j)}
<1>1. 0 \in S
  BY <1>0
<1>2. ASSUME NEW k \in 0 .. (KERNEL_HEAP_SIZE - 1), k \in S
      PROVE  k + 1 \in S
  <2>1. k + 1 \in 0 .. KERNEL_HEAP_SIZE /\ k + 1 # 0 /\ (k + 1) - 1 = k
    BY <1>0
  <2>2. ASSUME NEW j \in 1 .. Len(bs), Len(bs) - j + 1 <= k + 1
        PROVE  f[k + 1][bs[j].addr] = AddressesFrom(bs, j)
    <3>1. bs[j].addr \in Addresses /\ NextOf(m, bs[j].addr) = NextAddr(bs, j)
      BY <1>0, BlockPlace DEF Written, HoldsHeader, NextOf
    <3>2. f[k + 1][bs[j].addr] = From(m, f[k], bs[j].addr)
      <4>1. f[k + 1] = [x \in Addresses |->
              IF k + 1 = 0 THEN << >>
              ELSE <<x>> \o IF NextOf(m, x) \in Addresses
                            THEN f[(k + 1) - 1][NextOf(m, x)] ELSE << >>]
        BY <2>1 DEF Walks
      <4>2. f[k + 1] = [x \in Addresses |-> From(m, f[k], x)]
        BY <2>1, <4>1 DEF From
      <4> QED
        BY <3>1, <4>2
    <3>3. CASE j < Len(bs)
      <4>1. j + 1 \in 1 .. Len(bs) /\ Len(bs) - (j + 1) + 1 <= k
        BY <1>0, <2>2, <3>3
      <4>2. f[k][bs[j + 1].addr] = AddressesFrom(bs, j + 1)
        BY <1>2, <4>1
      <4>3. bs[j + 1].addr \in Addresses
        BY <1>0, <4>1, BlockPlace
      <4>4. NextOf(m, bs[j].addr) = bs[j + 1].addr
        BY <3>1, <3>3 DEF NextAddr
      <4>5. f[k + 1][bs[j].addr] = <<bs[j].addr>> \o AddressesFrom(bs, j + 1)
        BY <3>2, <4>2, <4>3, <4>4 DEF From
      <4> QED
        BY <1>0, <3>3, <4>5, OneMoreAddress
    <3>4. CASE ~ (j < Len(bs))
      <4>1. NextOf(m, bs[j].addr) \notin Addresses
        BY <3>1, <3>4, ArenaBounds DEF NextAddr
      <4>2. f[k + 1][bs[j].addr] = <<bs[j].addr>> \o << >>
        BY <3>2, <4>1 DEF From
      <4> QED
        BY <1>0, <3>4, <4>2, OneMoreAddress
    <3> QED
      BY <3>3, <3>4
  <2> QED
    BY <2>1, <2>2
<1>3. KERNEL_HEAP_SIZE \in S
  <2> HIDE DEF S
  <2>1. 0 .. KERNEL_HEAP_SIZE \subseteq S
    BY <1>0, <1>1, <1>2, Induction
  <2> QED
    BY <1>0, <2>1
<1>4. Len(bs) - i + 1 <= KERNEL_HEAP_SIZE
  BY <1>0
<1> QED
  BY <1>3, <1>4

LEMMA HeadersFound ==
  ASSUME NEW m, NEW bs, Written(m, bs)
  PROVE  /\ DOMAIN Headers(m, FirstAddr(bs)) = 1 .. Len(bs)
         /\ \A i \in 1 .. Len(bs) : Headers(m, FirstAddr(bs))[i] = bs[i].addr
<1>0. HP!TiledList(bs) /\ Len(bs) \in Nat
  BY TiledShape DEF Written
<1> DEFINE f == CHOOSE f : Walks(m, f)
<1>1. Walks(m, f)
  BY WalkExists
<1>2. \A a : Headers(m, a) = IF a \in Addresses THEN f[KERNEL_HEAP_SIZE][a] ELSE << >>
  BY DEF Headers, Walks
<1> HIDE DEF f
<1>3. CASE Len(bs) = 0
  <2>1. Headers(m, FirstAddr(bs)) = << >>
    BY <1>2, <1>3, ArenaBounds DEF FirstAddr
  <2> QED
    BY <1>3, <2>1
<1>4. CASE Len(bs) # 0
  <2>1. 1 \in 1 .. Len(bs) /\ FirstAddr(bs) = bs[1].addr
    BY <1>0, <1>4 DEF FirstAddr
  <2>2. Headers(m, FirstAddr(bs)) = AddressesFrom(bs, 1)
    BY <1>0, <1>1, <1>2, <2>1, BlockPlace, WalkMeetsBlocks
  <2>3. Len(bs) - 1 + 1 = Len(bs) /\ \A j \in 1 .. Len(bs) : 1 + j - 1 = j
    BY <1>0
  <2> QED
    BY <2>2, <2>3 DEF AddressesFrom
<1> QED
  BY <1>3, <1>4

LEMMA ListFound ==
  ASSUME NEW m, NEW bs, Written(m, bs)
  PROVE  ListIn(m, FirstAddr(bs)) = bs
<1> DEFINE hs == Headers(m, FirstAddr(bs))
           at(i) == [addr |-> hs[i], size |-> Size(m, hs[i]), free |-> IsFree(m, hs[i])]
<1>1. DOMAIN hs = 1 .. Len(bs) /\ \A i \in 1 .. Len(bs) : hs[i] = bs[i].addr
  BY HeadersFound
<1>2. ListIn(m, FirstAddr(bs)) = [i \in DOMAIN hs |-> at(i)]
  BY DEF ListIn
<1> HIDE DEF hs
<1>3. HP!TiledList(bs)
  BY DEF Written
<1>4. ASSUME NEW i \in 1 .. Len(bs)
      PROVE  at(i) = bs[i]
  <2>1. /\ bs[i] \in [addr : HP!Addresses, size : 0 .. KERNEL_HEAP_SIZE, free : BOOLEAN]
        /\ bs[i].free \in BOOLEAN
    BY <1>3, BlockPlace, TiledShape, ElementOfSeq DEF HP!Block
  <2>2. bs[i] = [addr |-> bs[i].addr, size |-> bs[i].size, free |-> bs[i].free]
    BY <2>1
  <2>3. /\ hs[i] = bs[i].addr /\ Size(m, hs[i]) = bs[i].size
        /\ IsFree(m, hs[i]) <=> bs[i].free
    BY <1>1 DEF Written, HoldsHeader, Size, IsFree
  <2>4. IsFree(m, hs[i]) = bs[i].free
    BY <2>1, <2>3 DEF IsFree
  <2> QED
    BY <2>2, <2>3, <2>4
<1>5. bs = [i \in 1 .. Len(bs) |-> bs[i]]
  BY <1>3, TiledShape
<1> HIDE DEF at
<1> QED
  BY <1>1, <1>2, <1>4, <1>5

-----------------------------------------------------------------------------
(* What the writes of kmalloc and kfree make of the words: the list that   *)
(* is written becomes the one Heap.tla has, and nothing outside the block  *)
(* changes.                                                                *)

Words == [Addresses -> Nat]

(* The words of m and w are the same outside the addresses from lo to hi.  *)
SameOutside(m, w, lo, hi) ==
  \A a \in Addresses : a < lo \/ hi <= a => w[a] = m[a]

(* The memory w is m with a header written at a. *)
HeaderSet(m, w, a, size, next, free) ==
  /\ w \in Words
  /\ w[a] = size /\ w[a + 1] = next /\ w[a + 2] = free
  /\ \A x \in Addresses : x # a /\ x # a + 1 /\ x # a + 2 => w[x] = m[x]

LEMMA SetHeaderWords ==
  ASSUME NEW m \in Words, NEW a \in Addresses, a + 1 \in Addresses, a + 2 \in Addresses,
         NEW size \in Nat, NEW next \in Nat, NEW free \in Nat
  PROVE  HeaderSet(m, SetHeader(m, a, size, next, free), a, size, next, free)
<1>1. a \in Int
  BY ArenaBounds DEF Addresses
<1> QED
  BY <1>1 DEF SetHeader, Words, HeaderSet

LEMMA AddressIsInt == ASSUME NEW a \in Addresses PROVE a \in Nat
BY ArenaBounds DEF Addresses

LEMMA NextAddrIsNat ==
  ASSUME NEW bs, HP!TiledList(bs), NEW i \in 1 .. Len(bs)
  PROVE  /\ NextAddr(bs, i) \in Nat
         /\ NextAddr(bs, i) # NULL <=> i < Len(bs)
<1>1. CASE i < Len(bs)
  <2>1. i + 1 \in 1 .. Len(bs)
    BY <1>1, TiledShape
  <2> QED
    BY <1>1, <2>1, BlockPlace, ArenaBounds DEF NextAddr
<1> QED
  BY <1>1 DEF NextAddr, NULL

(* A header whose three words stay is held as before. *)
LEMMA HeaderStays ==
  ASSUME NEW m, NEW w, NEW b, NEW next, HoldsHeader(m, b, next),
         w[b.addr] = m[b.addr], w[b.addr + 1] = m[b.addr + 1], w[b.addr + 2] = m[b.addr + 2]
  PROVE  HoldsHeader(w, b, next)
BY DEF HoldsHeader

(* The header of another block is outside a block. *)
LEMMA OtherHeaderStays ==
  ASSUME NEW bs, HP!TiledList(bs), NEW i \in 1 .. Len(bs), NEW j \in 1 .. Len(bs), i # j,
         NEW m, NEW w, SameOutside(m, w, bs[i].addr, bs[i].addr + 3 + bs[i].size),
         NEW next, HoldsHeader(m, bs[j], next)
  PROVE  HoldsHeader(w, bs[j], next)
<1>1. /\ bs[j].addr \in Nat /\ bs[j].size \in Nat /\ bs[j].addr \in Addresses
      /\ bs[j].addr + 1 \in Addresses /\ bs[j].addr + 2 \in Addresses
      /\ bs[i].addr \in Nat /\ bs[i].size \in Nat
  BY BlockPlace
<1>2. \/ bs[i].addr + 3 + bs[i].size <= bs[j].addr
      \/ bs[j].addr + 3 + bs[j].size <= bs[i].addr
  BY BlocksApart
<1>3. ASSUME NEW a \in Addresses, a = bs[j].addr \/ a = bs[j].addr + 1 \/ a = bs[j].addr + 2
      PROVE  w[a] = m[a]
  <2> DEFINE p == bs[i].addr
             u == bs[i].size
             q == bs[j].addr
             z == bs[j].size
  <2>a. p \in Nat /\ u \in Nat /\ q \in Nat /\ z \in Nat
    BY <1>1
  <2>b. p + 3 + u <= q \/ q + 3 + z <= p
    BY <1>2
  <2>c. a = q \/ a = q + 1 \/ a = q + 2
    BY <1>3
  <2> HIDE DEF p, u, q, z
  <2>d. a < p \/ p + 3 + u <= a
    BY <2>a, <2>b, <2>c
  <2>1. a < bs[i].addr \/ bs[i].addr + 3 + bs[i].size <= a
    BY <2>d DEF p, u
  <2> QED
    BY <2>1 DEF SameOutside
<1> QED
  BY <1>1, <1>3, HeaderStays

LEMMA HandOutSplits ==
  ASSUME NEW m, NEW bs, Written(m, bs), NEW i \in 1 .. Len(bs), NEW n \in Nat,
         HP!CanSplit(bs[i], n), bs[i].free
  PROVE  /\ Written(HandOut(m, bs[i].addr, n), HP!Carve(bs, i, n))
         /\ SameOutside(m, HandOut(m, bs[i].addr, n), bs[i].addr, bs[i].addr + 3 + bs[i].size)
<1> DEFINE a == bs[i].addr
           z == bs[i].size
           new == a + 3 + n
           r == z - n - 3
           next == NextAddr(bs, i)
           w1 == SetHeader(m, new, r, next, 1)
           w == SetHeader(w1, a, n, new, 0)
           t == HP!Carve(bs, i, n)
           head == HP!HandedPart(bs[i], n)
           rest == HP!Rest(bs[i], n)
<1>0. /\ HP!TiledList(bs) /\ Len(bs) \in Nat /\ m \in Words /\ i \in Nat
  BY TiledShape DEF Written, Words
<1>1. /\ a \in Nat /\ a \in Addresses /\ z \in Nat
      /\ a + 1 \in Addresses /\ a + 2 \in Addresses
      /\ KERNEL_HEAP_START <= a /\ a + 3 + z <= HeapEnd
      /\ HP!EndOf(bs[i]) = a + 3 + z
  BY <1>0, BlockPlace
<1>2. Align \in Nat /\ Align >= 1 /\ z >= n + 3 + Align
  BY ArenaBounds, MemoryAssumption DEF HP!CanSplit
<1>3. /\ m[a] = z /\ m[a + 1] = NextAddr(bs, i)
      /\ NextAddr(bs, i) \in Nat
  BY <1>0, NextAddrIsNat DEF Written, HoldsHeader
<1>4. HandOut(m, a, n) = w
  <2>1. Size(m, a) >= n + Header + Align
    BY <1>2, <1>3, ArenaBounds DEF Size
  <2> QED
    BY <1>3, <2>1, ArenaBounds DEF HandOut, Split, Size, NextOf
<1>5. /\ HP!TiledList(t)
      /\ t \in Seq(HP!Block) /\ Len(t) = Len(bs) + 1
      /\ t[i] = head /\ t[i + 1] = rest
      /\ \A k \in 1 .. (i - 1) : t[k] = bs[k]
      /\ \A k \in (i + 2) .. (Len(bs) + 1) : t[k] = bs[k - 1]
  <2>1. n <= bs[i].size
    BY <1>1, <1>2
  <2>2. HP!TiledList(t)
    BY <1>0, <2>1, HP!CarveOutcome, MemoryAssumption
  <2> QED
    BY <1>0, <2>2, HP!CarveSplits, MemoryAssumption
<1>6. /\ head.addr = a /\ head.size = n /\ ~ head.free
      /\ rest.addr = new /\ rest.size = z - n - 3 /\ rest.free
  BY ArenaBounds DEF HP!HandedPart, HP!Rest
<1> HIDE DEF t, head, rest
<1>7. /\ new \in Addresses /\ new + 1 \in Addresses /\ new + 2 \in Addresses
      /\ new \in Nat /\ z - n - 3 \in Nat
  <2> HIDE DEF a, z
  <2>1. a + n + 6 < HeapEnd /\ KERNEL_HEAP_START <= a + 3 + n
    BY <1>1, <1>2, ArenaBounds
  <2>2. new = a + 3 + n
    OBVIOUS
  <2> HIDE DEF new
  <2> QED
    BY <1>1, <1>2, <2>1, <2>2, ArenaBounds DEF Addresses
<1> HIDE DEF new, a, z
<1>8. HeaderSet(m, w1, new, r, next, 1)
  <2>1. r \in Nat /\ next \in Nat
    BY <1>3, <1>7
  <2> HIDE DEF r, next
  <2> QED
    BY <1>0, <1>7, <2>1, SetHeaderWords
<1> HIDE DEF w1
<1>9. HeaderSet(w1, w, a, n, new, 0)
  <2>1. w1 \in Words
    BY <1>8 DEF HeaderSet
  <2> QED
    BY <1>1, <1>7, <2>1, SetHeaderWords
<1> HIDE DEF w
<1>10. new = a + 3 + n
  BY DEF new
<1>11. SameOutside(m, w, a, a + 3 + z)
  <2> SUFFICES ASSUME NEW x \in Addresses, x < a \/ a + 3 + z <= x
               PROVE  w[x] = m[x]
    BY DEF SameOutside
  <2>1. /\ x # a /\ x # a + 1 /\ x # a + 2
        /\ x # new /\ x # new + 1 /\ x # new + 2
    BY <1>1, <1>2, <1>10, AddressIsInt
  <2> QED
    BY <1>8, <1>9, <2>1 DEF HeaderSet
<1>12. HoldsHeader(w, head, new)
  <2>1. w[a] = n /\ w[a + 1] = new /\ w[a + 2] = 0
    BY <1>9 DEF HeaderSet
  <2> QED
    BY <1>6, <2>1 DEF HoldsHeader
<1>13. HoldsHeader(w, rest, NextAddr(bs, i))
  <2>1. /\ new # a /\ new # a + 1 /\ new # a + 2
        /\ new + 1 # a /\ new + 1 # a + 1 /\ new + 1 # a + 2
        /\ new + 2 # a /\ new + 2 # a + 1 /\ new + 2 # a + 2
    BY <1>1, <1>10
  <2>2. w[new] = z - n - 3 /\ w[new + 1] = NextAddr(bs, i) /\ w[new + 2] = 1
    BY <1>7, <1>8, <1>9, <2>1 DEF HeaderSet
  <2> QED
    BY <1>6, <2>2 DEF HoldsHeader
<1>14. ASSUME NEW k \in 1 .. Len(t)
       PROVE  HoldsHeader(w, t[k], NextAddr(t, k))
  <2>1. CASE k < i
    <3>1. k \in 1 .. Len(bs) /\ t[k] = bs[k] /\ k < Len(t) /\ k < Len(bs)
      BY <1>0, <1>5, <2>1
    <3>2. t[k + 1].addr = bs[k + 1].addr
      <4>1. CASE k + 1 = i
        BY <1>5, <1>6, <4>1 DEF a
      <4>2. CASE k + 1 # i
        <5>1. k + 1 \in 1 .. (i - 1)
          BY <1>0, <2>1, <4>2
        <5> QED
          BY <1>5, <5>1
      <4> QED
        BY <4>1, <4>2
    <3>3. NextAddr(t, k) = NextAddr(bs, k)
      BY <3>1, <3>2 DEF NextAddr
    <3>4. HoldsHeader(m, bs[k], NextAddr(bs, k)) /\ k # i
      BY <1>0, <2>1, <3>1 DEF Written
    <3> QED
      BY <1>0, <1>11, <3>1, <3>3, <3>4, OtherHeaderStays DEF a, z
  <2>2. CASE k = i
    <3>1. i < Len(t) /\ t[i + 1].addr = new
      BY <1>0, <1>5, <1>6
    <3> QED
      BY <1>5, <1>12, <2>2, <3>1 DEF NextAddr
  <2>3. CASE k = i + 1
    <3>1. NextAddr(t, i + 1) = NextAddr(bs, i)
      <4>1. CASE i < Len(bs)
        <5>1. /\ i + 1 < Len(t) /\ i + 2 \in (i + 2) .. (Len(bs) + 1)
              /\ (i + 2) - 1 = i + 1 /\ (i + 1) + 1 = i + 2
          BY <1>0, <1>5, <4>1
        <5>2. t[i + 2] = bs[i + 1]
          BY <1>5, <5>1
        <5> QED
          BY <4>1, <5>1, <5>2 DEF NextAddr
      <4>2. CASE ~ (i < Len(bs))
        BY <1>0, <1>5, <4>2 DEF NextAddr
      <4> QED
        BY <4>1, <4>2
    <3> QED
      BY <1>5, <1>13, <2>3, <3>1
  <2>4. CASE k > i + 1
    <3> DEFINE j == k - 1
    <3>1. /\ j \in 1 .. Len(bs) /\ t[k] = bs[j] /\ j # i /\ j + 1 = k
          /\ k < Len(t) <=> j < Len(bs)
      BY <1>0, <1>5, <2>4
    <3> HIDE DEF j
    <3>2. NextAddr(t, k) = NextAddr(bs, j)
      <4>1. CASE k < Len(t)
        <5>1. k + 1 \in (i + 2) .. (Len(bs) + 1) /\ (k + 1) - 1 = k
          BY <1>0, <1>5, <2>4, <4>1
        <5>2. t[k + 1] = bs[k]
          BY <1>5, <5>1
        <5> QED
          BY <3>1, <4>1, <5>2 DEF NextAddr
      <4>2. CASE ~ (k < Len(t))
        BY <3>1, <4>2 DEF NextAddr
      <4> QED
        BY <4>1, <4>2
    <3>3. HoldsHeader(m, bs[j], NextAddr(bs, j))
      BY <3>1 DEF Written
    <3> QED
      BY <1>0, <1>11, <3>1, <3>2, <3>3, OtherHeaderStays DEF a, z
  <2> QED
    BY <1>0, <1>5, <2>1, <2>2, <2>3, <2>4
<1>15. Written(w, t)
  BY <1>5, <1>9, <1>14 DEF Written, Words, HeaderSet
<1> QED
  BY <1>4, <1>11, <1>15 DEF a, z, t

(* The flag of a block is set or cleared, and the list follows. *)
LEMMA FlagWritten ==
  ASSUME NEW m, NEW bs, Written(m, bs), NEW i \in 1 .. Len(bs),
         NEW t, HP!TiledList(t), Len(t) = Len(bs),
         t[i].addr = bs[i].addr, t[i].size = bs[i].size,
         \A k \in 1 .. Len(bs) : k # i => t[k] = bs[k],
         NEW f \in Nat, f = 1 <=> t[i].free
  PROVE  /\ Written([m EXCEPT ![bs[i].addr + 2] = f], t)
         /\ SameOutside(m, [m EXCEPT ![bs[i].addr + 2] = f], bs[i].addr, bs[i].addr + 3)
<1> DEFINE a == bs[i].addr
           w == [m EXCEPT ![bs[i].addr + 2] = f]
<1>0. /\ HP!TiledList(bs) /\ Len(bs) \in Nat /\ m \in Words
  BY TiledShape DEF Written, Words
<1>1. a \in Nat /\ a \in Addresses /\ a + 1 \in Addresses /\ a + 2 \in Addresses
  BY <1>0, BlockPlace
<1>2. /\ w \in Words /\ w[a + 2] = f /\ w[a] = m[a] /\ w[a + 1] = m[a + 1]
      /\ \A x \in Addresses : x # a + 2 => w[x] = m[x]
  BY <1>0, <1>1 DEF Words
<1> HIDE DEF w, a
<1>3. SameOutside(m, w, a, a + 3)
  <2> SUFFICES ASSUME NEW x \in Addresses, x < a \/ a + 3 <= x
               PROVE  w[x] = m[x]
    BY DEF SameOutside
  <2>1. x # a + 2
    BY <1>1, AddressIsInt
  <2> QED
    BY <1>2, <2>1
<1>4. SameOutside(m, w, a, a + 3 + bs[i].size)
  <2> SUFFICES ASSUME NEW x \in Addresses, x < a \/ a + 3 + bs[i].size <= x
               PROVE  w[x] = m[x]
    BY DEF SameOutside
  <2>0. bs[i].size \in Nat
    BY <1>0, BlockPlace
  <2>1. x < a \/ a + 3 <= x
    BY <1>1, <2>0, AddressIsInt
  <2> QED
    BY <1>3, <2>1 DEF SameOutside
<1>5. ASSUME NEW k \in 1 .. Len(t)
      PROVE  HoldsHeader(w, t[k], NextAddr(t, k))
  <2>1. t[k].addr = bs[k].addr
    BY <1>0
  <2>2. NextAddr(t, k) = NextAddr(bs, k)
    <3>1. CASE k < Len(bs)
      <4>1. k + 1 \in 1 .. Len(bs)
        BY <1>0, <3>1
      <4>2. t[k + 1].addr = bs[k + 1].addr
        BY <4>1
      <4> QED
        BY <3>1, <4>2 DEF NextAddr
    <3> QED
      BY <3>1 DEF NextAddr
  <2>3. HoldsHeader(m, bs[k], NextAddr(bs, k))
    BY DEF Written
  <2>4. CASE k = i
    BY <1>2, <2>1, <2>2, <2>3, <2>4 DEF HoldsHeader, a
  <2>5. CASE k # i
    <3>1. HoldsHeader(w, bs[k], NextAddr(bs, k))
      BY <1>0, <1>4, <2>3, <2>5, OtherHeaderStays DEF a
    <3> QED
      BY <2>2, <2>5, <3>1
  <2> QED
    BY <2>4, <2>5
<1>6. Written(w, t)
  BY <1>2, <1>5 DEF Written, Words
<1> QED
  BY <1>3, <1>6 DEF w, a

(* kmalloc's writes: a block that is split, or handed out whole. *)
LEMMA HandOutWrites ==
  ASSUME NEW m, NEW bs, Written(m, bs), NEW i \in 1 .. Len(bs), NEW n \in Nat,
         bs[i].free, n <= bs[i].size
  PROVE  /\ Written(HandOut(m, bs[i].addr, n), HP!Carve(bs, i, n))
         /\ SameOutside(m, HandOut(m, bs[i].addr, n), bs[i].addr, bs[i].addr + 3 + bs[i].size)
<1>0. HP!TiledList(bs) /\ Size(m, bs[i].addr) = bs[i].size
  BY DEF Written, HoldsHeader, Size
<1>1. CASE HP!CanSplit(bs[i], n)
  BY <1>1, HandOutSplits
<1>2. CASE ~ HP!CanSplit(bs[i], n)
  <2> DEFINE a == bs[i].addr
             w == [m EXCEPT ![a + 2] = 0]
             t == HP!Carve(bs, i, n)
  <2>1. HandOut(m, a, n) = w
    BY <1>0, <1>2 DEF HandOut, HP!CanSplit
  <2>2. HP!TiledList(t)
    BY <1>0, HP!CarveOutcome, MemoryAssumption
  <2>3. /\ Len(t) = Len(bs)
        /\ t[i].addr = bs[i].addr /\ t[i].size = bs[i].size /\ ~ t[i].free
        /\ \A k \in 1 .. Len(bs) : k # i => t[k] = bs[k]
    BY <1>0, <1>2, HP!CarveTakes, MemoryAssumption
  <2> HIDE DEF t
  <2>4. Written(w, t) /\ SameOutside(m, w, a, a + 3)
    <3> DEFINE f == 0
    <3>1. f \in Nat /\ (f = 1 <=> t[i].free)
      BY <2>3
    <3> HIDE DEF f
    <3>2. Written([m EXCEPT ![a + 2] = f], t) /\ SameOutside(m, [m EXCEPT ![a + 2] = f], a, a + 3)
      BY <2>2, <2>3, <3>1, FlagWritten
    <3> QED
      BY <3>2 DEF f
  <2>5. SameOutside(m, w, a, a + 3 + bs[i].size)
    <3>1. a \in Nat /\ bs[i].size \in Nat
      BY <1>0, BlockPlace
    <3> HIDE DEF w, a
    <3>2. \A x \in Addresses : a + 3 + bs[i].size <= x => a + 3 <= x
      BY <3>1, AddressIsInt
    <3> QED
      BY <2>4, <3>2 DEF SameOutside
  <2> QED
    BY <2>1, <2>4, <2>5 DEF t
<1> QED
  BY <1>1, <1>2

(* kfree's writes, with a free block behind the one that is given back. *)
LEMMA UnlinkWrites ==
  ASSUME NEW m, NEW bs, Written(m, bs), NEW i \in 1 .. Len(bs), ~ bs[i].free,
         HP!MergesNext(bs, i)
  PROVE  /\ Written(Unlink([m EXCEPT ![bs[i].addr + 2] = 1], bs[i].addr), HP!Release(bs, i))
         /\ SameOutside(m, Unlink([m EXCEPT ![bs[i].addr + 2] = 1], bs[i].addr),
                        bs[i].addr, bs[i].addr + 3)
<1> DEFINE a == bs[i].addr
           b == bs[i + 1].addr
           next == NextAddr(bs, i + 1)
           size == HP!Absorb(bs[i], bs[i + 1])
           freed == [m EXCEPT ![a + 2] = 1]
           w == Unlink(freed, a)
           t == HP!Release(bs, i)
           big == HP!Merged(bs[i], bs[i + 1])
<1>0. /\ HP!TiledList(bs) /\ Len(bs) \in Nat /\ m \in Words
      /\ i \in Nat /\ i < Len(bs) /\ i + 1 \in 1 .. Len(bs) /\ bs[i + 1].free
  BY TiledShape DEF Written, Words, HP!MergesNext
<1>1. /\ a \in Nat /\ a \in Addresses /\ a + 1 \in Addresses /\ a + 2 \in Addresses
      /\ bs[i].size \in Nat
  BY <1>0, BlockPlace
<1>2. /\ b \in Nat /\ b \in Addresses /\ b + 1 \in Addresses /\ b + 2 \in Addresses
      /\ bs[i + 1].size \in Nat
  BY <1>0, BlockPlace
<1>3. a + 3 <= b
  <2>1. HP!EndOf(bs[i]) <= b
    BY <1>0 DEF HP!TiledList, HP!Ordered
  <2>2. a + 3 + bs[i].size <= b
    BY <1>0, <2>1, BlockPlace
  <2> HIDE DEF a, b
  <2> QED
    BY <1>1, <1>2, <2>2
<1>4. /\ m[a] = bs[i].size /\ m[a + 1] = b
      /\ m[b] = bs[i + 1].size /\ m[b + 1] = next
  BY <1>0 DEF Written, HoldsHeader, NextAddr
<1>5. next \in Nat /\ size \in Nat /\ size = bs[i].size + bs[i + 1].size + 3
  <2>1. next \in Nat
    BY <1>0, NextAddrIsNat
  <2>2. size = bs[i].size + bs[i + 1].size + 3
    BY ArenaBounds DEF HP!Absorb
  <2>3. size \in Nat
    <3> DEFINE x == bs[i].size
               y == bs[i + 1].size
    <3>1. x \in Nat /\ y \in Nat /\ size = x + y + 3
      BY <1>1, <1>2, <2>2
    <3> HIDE DEF x, y, size
    <3> QED
      BY <3>1
  <2> QED
    BY <2>1, <2>2, <2>3
<1>6. /\ HP!TiledList(t)
      /\ big.addr = a /\ big.size = size /\ big.free
      /\ Len(t) = Len(bs) - 1 /\ t[i] = big
      /\ \A k \in 1 .. (i - 1) : t[k] = bs[k]
      /\ \A k \in (i + 1) .. (Len(bs) - 1) : t[k] = bs[k + 1]
  <2>1. HP!TiledList(t)
    BY <1>0, HP!ReleaseOutcome, MemoryAssumption
  <2>2. big.addr = a /\ big.size = size /\ big.free
    BY DEF HP!Merged
  <2> QED
    BY <1>0, <2>1, <2>2, HP!ReleaseMerges, MemoryAssumption
<1> HIDE DEF t, big
<1>7. w = SetHeader(freed, a, size, next, 1)
  <2>1. /\ a # b /\ a # a + 2 /\ a + 1 # a + 2 /\ b # a + 2 /\ b + 1 # a + 2
    <3> HIDE DEF a, b
    <3> QED
      BY <1>1, <1>2, <1>3
  <2> HIDE DEF a, b, next, size
  <2>2. /\ freed[a] = bs[i].size /\ freed[a + 1] = b
        /\ freed[b] = bs[i + 1].size /\ freed[b + 1] = next
    BY <1>0, <1>1, <1>2, <1>4, <2>1 DEF Words
  <2>3. Size(freed, a) + Size(freed, b) + Header = size
    BY <1>5, <2>2, ArenaBounds DEF Size
  <2> HIDE DEF freed
  <2> QED
    BY <2>2, <2>3 DEF Unlink, NextOf
<1> HIDE DEF w, a, b, next, size
<1>8. HeaderSet(freed, w, a, size, next, 1)
  <2>1. freed \in Words
    BY <1>0, <1>1 DEF Words
  <2> HIDE DEF freed
  <2> QED
    BY <1>1, <1>5, <1>7, <2>1, SetHeaderWords
<1>9. SameOutside(m, w, a, a + 3)
  <2> SUFFICES ASSUME NEW x \in Addresses, x < a \/ a + 3 <= x
               PROVE  w[x] = m[x]
    BY DEF SameOutside
  <2>1. x # a /\ x # a + 1 /\ x # a + 2
    BY <1>1, AddressIsInt
  <2>2. freed[x] = m[x]
    BY <1>0, <2>1 DEF Words
  <2> HIDE DEF freed
  <2> QED
    BY <1>8, <2>1, <2>2 DEF HeaderSet
<1>10. SameOutside(m, w, a, a + 3 + bs[i].size)
  <2>1. \A x \in Addresses : a + 3 + bs[i].size <= x => a + 3 <= x
    BY <1>1, AddressIsInt
  <2> QED
    BY <1>9, <2>1 DEF SameOutside
<1>11. ASSUME NEW k \in 1 .. Len(t)
       PROVE  HoldsHeader(w, t[k], NextAddr(t, k))
  <2>1. CASE k < i
    <3>1. k \in 1 .. Len(bs) /\ t[k] = bs[k] /\ k < Len(t) /\ k < Len(bs) /\ k # i
      BY <1>0, <1>6, <2>1
    <3>2. t[k + 1].addr = bs[k + 1].addr
      <4>1. CASE k + 1 = i
        BY <1>6, <4>1 DEF a
      <4>2. CASE k + 1 # i
        <5>1. k + 1 \in 1 .. (i - 1)
          BY <1>0, <2>1, <4>2
        <5> QED
          BY <1>6, <5>1
      <4> QED
        BY <4>1, <4>2
    <3>3. NextAddr(t, k) = NextAddr(bs, k) /\ HoldsHeader(m, bs[k], NextAddr(bs, k))
      BY <3>1, <3>2 DEF NextAddr, Written
    <3> QED
      BY <1>0, <1>10, <3>1, <3>3, OtherHeaderStays DEF a
  <2>2. CASE k = i
    <3>1. NextAddr(t, i) = next
      <4>1. CASE i < Len(t)
        <5>1. /\ i + 1 \in (i + 1) .. (Len(bs) - 1) /\ i + 1 < Len(bs)
              /\ (i + 1) + 1 = i + 2
          BY <1>0, <1>6, <4>1
        <5>2. t[i + 1] = bs[(i + 1) + 1]
          BY <1>6, <5>1
        <5> QED
          BY <4>1, <5>1, <5>2 DEF NextAddr, next
      <4>2. CASE ~ (i < Len(t))
        <5>1. ~ (i + 1 < Len(bs))
          BY <1>0, <1>6, <4>2
        <5> QED
          BY <4>2, <5>1 DEF NextAddr, next
      <4> QED
        BY <4>1, <4>2
    <3>2. HoldsHeader(w, big, next)
      <4>1. w[a] = size /\ w[a + 1] = next /\ w[a + 2] = 1
        BY <1>8 DEF HeaderSet
      <4> QED
        BY <1>6, <4>1 DEF HoldsHeader
    <3> QED
      BY <1>6, <2>2, <3>1, <3>2
  <2>3. CASE k > i
    <3> DEFINE j == k + 1
    <3>1. /\ j \in 1 .. Len(bs) /\ t[k] = bs[j] /\ j # i /\ j - 1 = k
          /\ k < Len(t) <=> j < Len(bs)
      BY <1>0, <1>6, <2>3
    <3> HIDE DEF j
    <3>2. NextAddr(t, k) = NextAddr(bs, j)
      <4>1. CASE k < Len(t)
        <5>1. k + 1 \in (i + 1) .. (Len(bs) - 1) /\ (k + 1) + 1 = j + 1
          BY <1>0, <1>6, <2>3, <4>1 DEF j
        <5>2. t[k + 1] = bs[(k + 1) + 1]
          BY <1>6, <5>1
        <5>3. t[k + 1] = bs[j + 1]
          BY <5>1, <5>2
        <5> QED
          BY <3>1, <4>1, <5>3 DEF NextAddr
      <4>2. CASE ~ (k < Len(t))
        BY <3>1, <4>2 DEF NextAddr
      <4> QED
        BY <4>1, <4>2
    <3>3. HoldsHeader(m, bs[j], NextAddr(bs, j))
      BY <3>1 DEF Written
    <3> QED
      BY <1>0, <1>10, <3>1, <3>2, <3>3, OtherHeaderStays DEF a
  <2> QED
    BY <1>0, <1>6, <2>1, <2>2, <2>3
<1>12. Written(w, t)
  <2>1. w \in Words
    BY <1>8 DEF HeaderSet
  <2> QED
    BY <1>6, <1>11, <2>1 DEF Written, Words
<1> QED
  BY <1>9, <1>12 DEF w, freed, a, t

LEMMA KfreeWrites ==
  ASSUME NEW m, NEW bs, Written(m, bs), NEW i \in 1 .. Len(bs), ~ bs[i].free
  PROVE  /\ Written(Kfree(m, bs[i].addr + 3), HP!Release(bs, i))
         /\ SameOutside(m, Kfree(m, bs[i].addr + 3), bs[i].addr, bs[i].addr + 3)
<1> DEFINE a == bs[i].addr
           freed == [m EXCEPT ![a + 2] = 1]
           t == HP!Release(bs, i)
<1>0. HP!TiledList(bs) /\ Len(bs) \in Nat /\ i \in Nat
  BY TiledShape DEF Written
<1>1. a \in Nat
  BY <1>0, BlockPlace
<1>2. NextOf(m, a) = NextAddr(bs, i)
  BY DEF Written, HoldsHeader, NextOf
<1>3. (NextOf(m, a) # NULL /\ IsFree(m, NextOf(m, a))) <=> HP!MergesNext(bs, i)
  <2>1. CASE i < Len(bs)
    <3>1. i + 1 \in 1 .. Len(bs) /\ NextOf(m, a) = bs[i + 1].addr
      BY <1>0, <1>2, <2>1 DEF NextAddr
    <3>2. NextOf(m, a) # NULL
      BY <1>0, <1>2, <2>1, NextAddrIsNat
    <3>3. IsFree(m, NextOf(m, a)) <=> bs[i + 1].free
      BY <3>1 DEF Written, HoldsHeader, IsFree
    <3> QED
      BY <2>1, <3>2, <3>3 DEF HP!MergesNext
  <2>2. CASE ~ (i < Len(bs))
    BY <1>2, <2>2 DEF NextAddr, HP!MergesNext
  <2> QED
    BY <2>1, <2>2
<1>4. Kfree(m, a + 3) = IF HP!MergesNext(bs, i) THEN Unlink(freed, a) ELSE freed
  <2>1. a + 3 # NULL /\ (a + 3) - Header = a
    BY <1>1, ArenaBounds DEF NULL
  <2> HIDE DEF a
  <2> QED
    BY <1>3, <2>1 DEF Kfree
<1>5. CASE HP!MergesNext(bs, i)
  BY <1>4, <1>5, UnlinkWrites
<1>6. CASE ~ HP!MergesNext(bs, i)
  <2>1. HP!TiledList(t)
    BY <1>0, HP!ReleaseOutcome, MemoryAssumption
  <2>2. /\ Len(t) = Len(bs)
        /\ t[i].addr = bs[i].addr /\ t[i].size = bs[i].size /\ t[i].free
        /\ \A k \in 1 .. Len(bs) : k # i => t[k] = bs[k]
    BY <1>0, <1>6, HP!ReleaseFlags, MemoryAssumption
  <2> HIDE DEF t
  <2> DEFINE f == 1
  <2>3. f \in Nat /\ (f = 1 <=> t[i].free)
    BY <2>2
  <2> HIDE DEF f
  <2>4. Written([m EXCEPT ![a + 2] = f], t) /\ SameOutside(m, [m EXCEPT ![a + 2] = f], a, a + 3)
    BY <2>1, <2>2, <2>3, FlagWritten
  <2> QED
    BY <1>4, <1>6, <2>4 DEF f, t
<1> QED
  BY <1>5, <1>6

-----------------------------------------------------------------------------
(* The regions of the blocks in use, and writes in them. *)

RegionSame(m, w, x, u) == \A a \in x .. (x + u - 1) : w[a] = m[a]

LEMMA RegionPlace ==
  ASSUME NEW m, NEW bs, Written(m, bs), NEW p, NEW s, HP!InUse(bs, p, s)
  PROVE  /\ p \in Nat /\ s \in Nat /\ p # NULL
         /\ KERNEL_HEAP_START <= p /\ p + s <= HeapEnd
         /\ p .. (p + s - 1) \subseteq Addresses
         /\ \E i \in 1 .. Len(bs) :
              /\ ~ bs[i].free /\ bs[i].addr + 3 = p /\ bs[i].size = s
              /\ HP!Payload(bs[i]) = p
<1>1. PICK i \in 1 .. Len(bs) : ~ bs[i].free /\ HP!Payload(bs[i]) = p /\ bs[i].size = s
  BY DEF HP!InUse
<1>2. /\ bs[i].addr \in Nat /\ s \in Nat /\ KERNEL_HEAP_START <= bs[i].addr
      /\ bs[i].addr + 3 + s <= HeapEnd /\ bs[i].addr + 3 = p
  BY <1>1, BlockPlace DEF Written
<1>3. /\ p \in Nat /\ p # NULL /\ KERNEL_HEAP_START <= p /\ p + s <= HeapEnd
  <2> DEFINE a == bs[i].addr
  <2> HIDE DEF a
  <2>1. /\ a \in Nat /\ s \in Nat /\ KERNEL_HEAP_START <= a
        /\ a + 3 + s <= HeapEnd /\ a + 3 = p
    BY <1>2 DEF a
  <2> QED
    BY <2>1, ArenaBounds DEF NULL
<1>4. p .. (p + s - 1) \subseteq Addresses
  BY <1>2, <1>3, ArenaBounds DEF Addresses
<1> QED
  BY <1>1, <1>2, <1>3, <1>4

(* A region is apart from the whole of another block, header and all. *)
LEMMA RegionApart ==
  ASSUME NEW m, NEW bs, Written(m, bs), NEW p, NEW s, HP!InUse(bs, p, s),
         NEW i \in 1 .. Len(bs), bs[i].addr + 3 # p
  PROVE  \/ bs[i].addr + 3 + bs[i].size <= p
         \/ p + s <= bs[i].addr
<1>1. PICK j \in 1 .. Len(bs) : bs[j].addr + 3 = p /\ bs[j].size = s
  BY RegionPlace
<1>2. \/ bs[i].addr + 3 + bs[i].size <= bs[j].addr
      \/ bs[j].addr + 3 + bs[j].size <= bs[i].addr
  BY <1>1, BlocksApart DEF Written
<1>3. /\ bs[i].addr \in Nat /\ bs[i].size \in Nat
      /\ bs[j].addr \in Nat /\ bs[j].size \in Nat
  BY BlockPlace DEF Written
<1> DEFINE a == bs[i].addr
           z == bs[i].size
           b == bs[j].addr
<1>4. /\ a \in Nat /\ z \in Nat /\ b \in Nat /\ s \in Nat /\ p = b + 3
      /\ a + 3 + z <= b \/ b + 3 + s <= a
  BY <1>1, <1>2, <1>3
<1> HIDE DEF a, z, b
<1>5. a + 3 + z <= p \/ p + s <= a
  BY <1>4
<1> QED
  BY <1>5 DEF a, z

LEMMA RegionsApart ==
  ASSUME NEW m, NEW bs, Written(m, bs), NEW p, NEW s, HP!InUse(bs, p, s),
         NEW x, NEW u, HP!InUse(bs, x, u), x # p
  PROVE  p + s <= x \/ x + u <= p
<1>1. HP!TiledList(bs)
  BY DEF Written
<1> QED
  BY <1>1, HP!RegionsDisjoint, MemoryAssumption

(* What is written outside a region leaves it as it was. *)
LEMMA RegionKept ==
  ASSUME NEW m, NEW bs, Written(m, bs), NEW x, NEW u, HP!InUse(bs, x, u),
         NEW w, NEW lo \in Nat, NEW hi \in Nat, SameOutside(m, w, lo, hi),
         hi <= x \/ x + u <= lo
  PROVE  RegionSame(m, w, x, u)
<1>1. x \in Nat /\ u \in Nat /\ x .. (x + u - 1) \subseteq Addresses
  BY RegionPlace
<1>2. ASSUME NEW a \in x .. (x + u - 1)
      PROVE  w[a] = m[a]
  <2>1. a \in Addresses /\ (a < lo \/ hi <= a)
    BY <1>1
  <2> QED
    BY <2>1 DEF SameOutside
<1> QED
  BY <1>2 DEF RegionSame

(* A client that writes in its region leaves the list as it was. *)
LEMMA PayloadWritten ==
  ASSUME NEW m, NEW bs, Written(m, bs), NEW p, NEW s, HP!InUse(bs, p, s),
         NEW w \in Words, SameOutside(m, w, p, p + s)
  PROVE  Written(w, bs)
<1>0. HP!TiledList(bs) /\ Len(bs) \in Nat
  BY TiledShape DEF Written
<1>1. PICK i \in 1 .. Len(bs) : bs[i].addr + 3 = p /\ bs[i].size = s
  BY RegionPlace
<1>2. bs[i].addr \in Nat /\ s \in Nat
  BY <1>0, <1>1, BlockPlace
<1>3. SameOutside(m, w, bs[i].addr, bs[i].addr + 3 + bs[i].size)
  <2> SUFFICES ASSUME NEW a \in Addresses,
                      a < bs[i].addr \/ bs[i].addr + 3 + bs[i].size <= a
               PROVE  w[a] = m[a]
    BY DEF SameOutside
  <2>1. a < p \/ p + s <= a
    BY <1>1, <1>2, AddressIsInt
  <2> QED
    BY <2>1 DEF SameOutside
<1>4. ASSUME NEW k \in 1 .. Len(bs)
      PROVE  HoldsHeader(w, bs[k], NextAddr(bs, k))
  <2>1. HoldsHeader(m, bs[k], NextAddr(bs, k))
    BY DEF Written
  <2>2. CASE k = i
    <3> DEFINE a == bs[i].addr
    <3>1. /\ a \in Addresses /\ a + 1 \in Addresses /\ a + 2 \in Addresses
          /\ a \in Nat /\ a + 3 = p
      BY <1>0, <1>1, BlockPlace
    <3>2. a < p /\ a + 1 < p /\ a + 2 < p
      <4> HIDE DEF a
      <4> QED
        BY <3>1
    <3>3. w[a] = m[a] /\ w[a + 1] = m[a + 1] /\ w[a + 2] = m[a + 2]
      BY <3>1, <3>2 DEF SameOutside
    <3> QED
      BY <2>1, <2>2, <3>3, HeaderStays
  <2>3. CASE k # i
    BY <1>0, <1>3, <2>1, <2>3, OtherHeaderStays
  <2> QED
    BY <2>2, <2>3
<1> QED
  BY <1>0, <1>4 DEF Written, Words

(* fs_create_node's and fs_write's filling, and krealloc's memcpy. *)
LEMMA FillWords ==
  ASSUME NEW m \in Words, NEW p \in Nat, NEW n \in Int, NEW d \in Nat
  PROVE  /\ Fill(m, p, n, d) \in Words
         /\ \A a \in Addresses : a \in p .. (p + n - 1) => Fill(m, p, n, d)[a] = d
         /\ \A a \in Addresses : a \notin p .. (p + n - 1) => Fill(m, p, n, d)[a] = m[a]
<1>1. DOMAIN m = Addresses
  BY DEF Words
<1> QED
  BY <1>1 DEF Fill, Words

LEMMA MemcpyWords ==
  ASSUME NEW m \in Words, NEW p \in Nat, NEW q \in Nat, NEW n \in Nat,
         \A a \in Addresses : a \in p .. (p + n - 1) => q + (a - p) \in Addresses
  PROVE  /\ Memcpy(m, p, q, n) \in Words
         /\ \A a \in Addresses : a \in p .. (p + n - 1) => Memcpy(m, p, q, n)[a] = m[q + (a - p)]
         /\ \A a \in Addresses : a \notin p .. (p + n - 1) => Memcpy(m, p, q, n)[a] = m[a]
<1>1. DOMAIN m = Addresses
  BY DEF Words
<1>2. \A a \in Addresses : m[a] \in Nat
  BY DEF Words
<1> QED
  BY <1>1, <1>2 DEF Memcpy, Words

-----------------------------------------------------------------------------
(* What the calls do, in terms of the regions in use. *)

LEMMA SearchFinds ==
  ASSUME NEW bs, Written(mem, bs), free_list = FirstAddr(bs), NEW n \in Nat
  PROVE  Search(mem, n) = {bs[i].addr : i \in HP!FirstFit(bs, n)}
<1> DEFINE hs == Headers(mem, free_list)
           fits(i) == IsFree(mem, hs[i]) /\ Size(mem, hs[i]) >= n
<1>1. DOMAIN hs = 1 .. Len(bs) /\ \A i \in 1 .. Len(bs) : hs[i] = bs[i].addr
  BY HeadersFound
<1>2. DOMAIN bs = 1 .. Len(bs) /\ Len(bs) \in Nat
  BY TiledShape DEF Written
<1>3. Search(mem, n) =
        {hs[i] : i \in {i \in DOMAIN hs : fits(i) /\ \A j \in 1 .. (i - 1) : ~ fits(j)}}
  BY DEF Search
<1> HIDE DEF hs
<1>4. ASSUME NEW i \in 1 .. Len(bs)
      PROVE  fits(i) <=> HP!Fits(bs[i], n)
  BY <1>1 DEF Written, HoldsHeader, IsFree, Size, HP!Fits
<1> HIDE DEF fits
<1>5. {i \in DOMAIN hs : fits(i) /\ \A j \in 1 .. (i - 1) : ~ fits(j)} = HP!FirstFit(bs, n)
  <2>1. ASSUME NEW i \in 1 .. Len(bs)
        PROVE  (fits(i) /\ \A j \in 1 .. (i - 1) : ~ fits(j)) <=>
                 (HP!Fits(bs[i], n) /\ \A j \in 1 .. (i - 1) : ~ HP!Fits(bs[j], n))
    <3>1. \A j \in 1 .. (i - 1) : j \in 1 .. Len(bs)
      BY <1>2
    <3> QED
      BY <1>4, <3>1
  <2> QED
    BY <1>1, <1>2, <2>1 DEF HP!FirstFit
<1>6. \A i \in HP!FirstFit(bs, n) : hs[i] = bs[i].addr
  BY <1>1, <1>2 DEF HP!FirstFit
<1> QED
  BY <1>3, <1>5, <1>6

LEMMA OneFirstFit ==
  ASSUME NEW bs, HP!TiledList(bs), NEW n,
         NEW i \in HP!FirstFit(bs, n), NEW j \in HP!FirstFit(bs, n)
  PROVE  i = j
<1>1. i \in 1 .. Len(bs) /\ j \in 1 .. Len(bs) /\ Len(bs) \in Nat
  BY TiledShape DEF HP!FirstFit
<1>2. ~ (i < j) /\ ~ (j < i)
  <2>1. ASSUME i < j PROVE FALSE
    <3>1. i \in 1 .. (j - 1)
      BY <1>1, <2>1
    <3> QED
      BY <3>1 DEF HP!FirstFit
  <2>2. ASSUME j < i PROVE FALSE
    <3>1. j \in 1 .. (i - 1)
      BY <1>1, <2>2
    <3> QED
      BY <3>1 DEF HP!FirstFit
  <2> QED
    BY <2>1, <2>2
<1> QED
  BY <1>1, <1>2

(* kmalloc finds in memory the block it finds in the list. *)
Refused(m, bs, n) ==
  /\ Kmalloc(m, n) = [ptr |-> NULL, mem |-> m]
  /\ HP!Kmalloc(bs, n) = [ptr |-> NULL, blocks |-> bs]

Found(m, bs, n, i) ==
  /\ n # 0 /\ i \in 1 .. Len(bs) /\ bs[i].free
  /\ align16(n) <= bs[i].size
  /\ Kmalloc(m, n) = [ptr |-> bs[i].addr + 3, mem |-> HandOut(m, bs[i].addr, align16(n))]
  /\ HP!Kmalloc(bs, n) = [ptr |-> bs[i].addr + 3, blocks |-> HP!Carve(bs, i, align16(n))]

LEMMA KmallocAgrees ==
  ASSUME NEW bs, Written(mem, bs), free_list = FirstAddr(bs), NEW n \in Nat
  PROVE  Refused(mem, bs, n) \/ \E i : Found(mem, bs, n, i)
<1> DEFINE k == align16(n)
           found == Search(mem, k)
           fit == HP!FirstFit(bs, k)
<1>0. /\ HP!TiledList(bs) /\ HP!align16(n) = k /\ k \in Nat /\ DOMAIN bs = 1 .. Len(bs)
      /\ free_list = NULL => Len(bs) = 0
  <2>1. HP!TiledList(bs) /\ DOMAIN bs = 1 .. Len(bs) /\ Len(bs) \in Nat
    BY TiledShape DEF Written
  <2>2. HP!align16(n) = k /\ HP!align16(n) \in Nat
    <3>1. HP!align16(n) \in Nat
      BY HP!Align16Bounds, MemoryAssumption
    <3> QED
      BY <3>1 DEF align16, HP!align16
  <2>3. free_list = NULL => Len(bs) = 0
    <3>1. CASE Len(bs) # 0
      <4>1. 1 \in 1 .. Len(bs)
        BY <2>1, <3>1
      <4>2. bs[1].addr \in Addresses
        BY <2>1, <4>1, BlockPlace
      <4> QED
        BY <3>1, <4>2, ArenaBounds DEF FirstAddr
    <3> QED
      BY <3>1
  <2> QED
    BY <2>1, <2>2, <2>3
<1> HIDE DEF k
<1>1. found = {bs[i].addr : i \in fit}
  BY <1>0, SearchFinds
<1>2. CASE n = 0 \/ found = {}
  <2>1. n = 0 \/ fit = {}
    BY <1>1, <1>2
  <2>2. Kmalloc(mem, n) = [ptr |-> NULL, mem |-> mem]
    BY <1>2 DEF Kmalloc, k
  <2>3. HP!Kmalloc(bs, n) = [ptr |-> NULL, blocks |-> bs]
    BY <1>0, <2>1 DEF HP!Kmalloc, HP!NULL, NULL
  <2> QED
    BY <2>2, <2>3 DEF Refused
<1>3. CASE n # 0 /\ found # {}
  <2>1. PICK i \in fit : TRUE
    BY <1>1, <1>3
  <2>2. i \in 1 .. Len(bs) /\ bs[i].free /\ bs[i].size >= k
    BY <1>0, <2>1 DEF HP!FirstFit, HP!Fits
  <2>3. bs[i].size \in Nat
    BY <1>0, <2>2, BlockPlace
  <2>4. fit = {i}
    BY <1>0, <2>1, OneFirstFit
  <2>5. found = {bs[i].addr}
    BY <1>1, <2>4
  <2>6. free_list # NULL
    BY <1>0, <2>2, TiledShape
  <2>7. Kmalloc(mem, n) = [ptr |-> bs[i].addr + 3, mem |-> HandOut(mem, bs[i].addr, k)]
    <3>1. (CHOOSE a \in found : TRUE) = bs[i].addr
      BY <2>5
    <3> QED
      BY <1>3, <2>6, <3>1, ArenaBounds DEF Kmalloc, k
  <2>8. HP!Kmalloc(bs, n) = [ptr |-> bs[i].addr + 3, blocks |-> HP!Carve(bs, i, k)]
    <3>1. (CHOOSE j \in fit : TRUE) = i
      BY <2>4
    <3>2. HP!Payload(bs[i]) = bs[i].addr + 3
      BY ArenaBounds DEF HP!Payload
    <3> QED
      BY <1>0, <1>3, <2>1, <3>1, <3>2 DEF HP!Kmalloc
  <2>9. Found(mem, bs, n, i)
    BY <1>0, <1>3, <2>2, <2>3, <2>7, <2>8 DEF Found, k
  <2> QED
    BY <2>9
<1> QED
  BY <1>2, <1>3

(* The region at q has been obtained, with room for n words; the others    *)
(* are as they were.                                                       *)
Obtained(m, bs, w, t, q, s, n) ==
  /\ Written(w, t) /\ FirstAddr(bs) = KERNEL_HEAP_START /\ FirstAddr(t) = KERNEL_HEAP_START
  /\ q \in Nat /\ q # NULL /\ s \in Nat /\ n <= s
  /\ \A u : ~ HP!InUse(bs, q, u)
  /\ \A x, u : HP!InUse(t, x, u) <=> HP!InUse(bs, x, u) \/ (x = q /\ u = s)
  /\ \A x, u : HP!InUse(bs, x, u) => RegionSame(m, w, x, u)

(* The region at p has been given back; the others are as they were. *)
Returned(m, bs, w, t, p) ==
  /\ Written(w, t) /\ FirstAddr(bs) = KERNEL_HEAP_START /\ FirstAddr(t) = KERNEL_HEAP_START
  /\ \A x, u : HP!InUse(t, x, u) <=> HP!InUse(bs, x, u) /\ x # p
  /\ \A x, u : HP!InUse(bs, x, u) /\ x # p => RegionSame(m, w, x, u)

LEMMA RoundedUp ==
  ASSUME HP!NoWrap, NEW n \in Sizes
  PROVE  n \in Nat /\ align16(n) \in Nat /\ n <= align16(n)
<1>1. n \in Nat /\ n + Align - 1 < WordSize
  BY MemoryAssumption DEF HP!NoWrap
<1>2. HP!align16(n) \in Nat /\ HP!align16(n) >= n
  BY <1>1, HP!Align16Bounds, MemoryAssumption
<1>3. HP!align16(n) = align16(n)
  BY DEF align16, HP!align16
<1> QED
  BY <1>1, <1>2, <1>3

LEMMA FirstIsStart ==
  ASSUME NEW bs, HP!TiledList(bs), Len(bs) # 0
  PROVE  FirstAddr(bs) = KERNEL_HEAP_START
BY TiledShape DEF HP!TiledList, FirstAddr

LEMMA FoundObtains ==
  ASSUME HP!NoWrap, NEW n \in Sizes, NEW m, NEW bs, Written(m, bs), NEW i, Found(m, bs, n, i)
  PROVE  \E s : Obtained(m, bs, Kmalloc(m, n).mem, HP!Kmalloc(bs, n).blocks,
                         Kmalloc(m, n).ptr, s, n)
<1> DEFINE k == align16(n)
           w == HandOut(m, bs[i].addr, k)
           t == HP!Carve(bs, i, k)
           q == bs[i].addr + 3
<1>0. /\ HP!TiledList(bs) /\ i \in 1 .. Len(bs) /\ bs[i].free /\ k <= bs[i].size
      /\ k \in Nat /\ n \in Nat /\ n <= k
      /\ Kmalloc(m, n).mem = w /\ HP!Kmalloc(bs, n).blocks = t /\ Kmalloc(m, n).ptr = q
  BY RoundedUp DEF Found, Written
<1>1. /\ bs[i].addr \in Nat /\ bs[i].size \in Nat /\ HP!Payload(bs[i]) = q
  BY <1>0, BlockPlace
<1>2. q \in Nat /\ q # NULL
  BY <1>1 DEF NULL
<1> HIDE DEF q, k
<1>3. Written(w, t) /\ SameOutside(m, w, bs[i].addr, bs[i].addr + 3 + bs[i].size)
  BY <1>0, HandOutWrites
<1>4. PICK s \in Nat : /\ s >= k
                       /\ \A x, u : HP!InUse(t, x, u) <=> HP!InUse(bs, x, u) \/ (x = q /\ u = s)
  <2>1. \E s \in Nat :
          /\ s >= k
          /\ \A x, u : HP!InUse(t, x, u)
                         <=> HP!InUse(bs, x, u) \/ (x = HP!Payload(bs[i]) /\ u = s)
    BY <1>0, HP!CarveOutcome, MemoryAssumption
  <2> HIDE DEF t
  <2> QED
    BY <1>1, <2>1
<1> HIDE DEF w, t
<1>5. ASSUME NEW u, HP!InUse(bs, q, u)
      PROVE  FALSE
  <2>1. PICK j \in 1 .. Len(bs) : ~ bs[j].free /\ HP!Payload(bs[j]) = q
    BY <1>5, RegionPlace
  <2>2. i = j
    BY <1>0, <1>1, <2>1, HP!PayloadsDiffer, MemoryAssumption
  <2> QED
    BY <1>0, <2>1, <2>2
<1>6. ASSUME NEW x, NEW u, HP!InUse(bs, x, u)
      PROVE  RegionSame(m, w, x, u)
  <2>1. bs[i].addr + 3 # x
    BY <1>5, <1>6 DEF q
  <2>2. bs[i].addr + 3 + bs[i].size <= x \/ x + u <= bs[i].addr
    BY <1>0, <1>6, <2>1, RegionApart
  <2>3. bs[i].addr + 3 + bs[i].size \in Nat
    BY <1>1
  <2> DEFINE lo == bs[i].addr
             hi == bs[i].addr + 3 + bs[i].size
  <2>4. lo \in Nat /\ hi \in Nat /\ SameOutside(m, w, lo, hi) /\ (hi <= x \/ x + u <= lo)
    BY <1>1, <1>3, <2>2, <2>3
  <2> HIDE DEF lo, hi
  <2> QED
    BY <1>6, <2>4, RegionKept
<1>7. n <= s
  BY <1>0, <1>4
<1>8. FirstAddr(bs) = KERNEL_HEAP_START /\ FirstAddr(t) = KERNEL_HEAP_START
  <2>1. HP!InUse(t, q, s)
    BY <1>4
  <2>2. HP!TiledList(t) /\ Len(t) # 0
    BY <1>3, <2>1 DEF Written, HP!InUse
  <2> QED
    BY <1>0, <2>2, FirstIsStart
<1>9. Obtained(m, bs, w, t, q, s, n)
  BY <1>2, <1>3, <1>4, <1>5, <1>6, <1>7, <1>8 DEF Obtained
<1> QED
  BY <1>0, <1>9

LEMMA KfreeReturns ==
  ASSUME NEW m, NEW bs, Written(m, bs), NEW p, NEW s, HP!InUse(bs, p, s)
  PROVE  Returned(m, bs, Kfree(m, p), HP!Kfree(bs, p), p)
<1>1. PICK i \in 1 .. Len(bs) : /\ ~ bs[i].free /\ bs[i].addr + 3 = p /\ bs[i].size = s
                                /\ HP!Payload(bs[i]) = p
  BY RegionPlace
<1>0. HP!TiledList(bs) /\ p # NULL
  BY RegionPlace DEF Written
<1>2. HP!Kfree(bs, p) = HP!Release(bs, i)
  <2>1. HP!IndexOf(bs, HP!Payload(bs[i])) = i
    BY <1>0, HP!IndexOfPayload, MemoryAssumption
  <2> QED
    BY <1>0, <1>1, <2>1 DEF HP!Kfree, HP!NULL, NULL
<1> DEFINE w == Kfree(m, p)
           t == HP!Kfree(bs, p)
<1>3. Written(w, t) /\ SameOutside(m, w, bs[i].addr, p)
  BY <1>1, <1>2, KfreeWrites
<1>4. \A x, u : HP!InUse(t, x, u) <=> HP!InUse(bs, x, u) /\ x # p
  <2>1. \A x, u : HP!InUse(HP!Release(bs, i), x, u) <=> HP!InUse(bs, x, u) /\ x # HP!Payload(bs[i])
    BY <1>0, <1>1, HP!ReleaseOutcome, MemoryAssumption
  <2> QED
    BY <1>1, <1>2, <2>1
<1> HIDE DEF w, t
<1>5. ASSUME NEW x, NEW u, HP!InUse(bs, x, u), x # p
      PROVE  RegionSame(m, w, x, u)
  <2>1. bs[i].addr + 3 + bs[i].size <= x \/ x + u <= bs[i].addr
    BY <1>1, <1>5, RegionApart
  <2> DEFINE a == bs[i].addr
             z == bs[i].size
  <2>2. a \in Nat /\ z \in Nat /\ p = a + 3 /\ (a + 3 + z <= x \/ x + u <= a)
    BY <1>0, <1>1, <2>1, BlockPlace
  <2>3. SameOutside(m, w, a, p)
    BY <1>3
  <2> HIDE DEF a, z
  <2>4. p \in Nat /\ (p <= x \/ x + u <= a) /\ x \in Nat
    BY <1>5, <2>2, RegionPlace
  <2> QED
    BY <1>5, <2>2, <2>3, <2>4, RegionKept
<1>6. FirstAddr(bs) = KERNEL_HEAP_START /\ FirstAddr(t) = KERNEL_HEAP_START
  <2>1. Len(t) # 0
    <3>1. CASE HP!MergesNext(bs, i)
      <4>1. i \in 1 .. (Len(bs) - 1) /\ Len(HP!Release(bs, i)) = Len(bs) - 1
        BY <1>0, <3>1, HP!ReleaseMerges, MemoryAssumption
      <4> QED
        BY <1>2, <4>1 DEF t
    <3>2. CASE ~ HP!MergesNext(bs, i)
      <4>1. Len(HP!Release(bs, i)) = Len(bs)
        BY <1>0, <3>2, HP!ReleaseFlags, MemoryAssumption
      <4> QED
        BY <1>2, <4>1 DEF t
    <3> QED
      BY <3>1, <3>2
  <2> QED
    BY <1>0, <1>3, <2>1, FirstIsStart DEF Written
<1>7. Returned(m, bs, w, t, p)
  BY <1>3, <1>4, <1>5, <1>6 DEF Returned
<1> QED
  BY <1>7 DEF w, t

(* The client of the region at q fills it from its k-th word on. *)
LEMMA ClientFills ==
  ASSUME NEW w, NEW t, Written(w, t), NEW q, NEW s, HP!InUse(t, q, s),
         NEW n \in Nat, n <= s, NEW k \in Nat, NEW d \in Nat
  PROVE  /\ Written(Fill(w, q + k, n - k, d), t)
         /\ \A x, u : HP!InUse(t, x, u) /\ x # q =>
              RegionSame(w, Fill(w, q + k, n - k, d), x, u)
         /\ \A a \in q .. (q + n - 1) :
              Fill(w, q + k, n - k, d)[a] = IF a < q + k THEN w[a] ELSE d
<1> DEFINE f == Fill(w, q + k, n - k, d)
           p == q + k
           c == n - k
<1>0. /\ q \in Nat /\ s \in Nat /\ q .. (q + s - 1) \subseteq Addresses /\ w \in Words
  BY RegionPlace DEF Written, Words
<1>1. p \in Nat /\ c \in Int /\ p + c - 1 = q + n - 1 /\ p >= q
  BY <1>0
<1>2. /\ f \in Words
      /\ \A a \in Addresses : a \in p .. (p + c - 1) => f[a] = d
      /\ \A a \in Addresses : a \notin p .. (p + c - 1) => f[a] = w[a]
  <2> HIDE DEF p, c
  <2>1. /\ Fill(w, p, c, d) \in Words
        /\ \A a \in Addresses : a \in p .. (p + c - 1) => Fill(w, p, c, d)[a] = d
        /\ \A a \in Addresses : a \notin p .. (p + c - 1) => Fill(w, p, c, d)[a] = w[a]
    BY <1>0, <1>1, FillWords
  <2> QED
    BY <2>1 DEF p, c
<1> HIDE DEF f
<1>3. SameOutside(w, f, q, q + s)
  <2> SUFFICES ASSUME NEW a \in Addresses, a < q \/ q + s <= a
               PROVE  f[a] = w[a]
    BY DEF SameOutside
  <2>1. a \notin p .. (p + c - 1)
    BY <1>0, <1>1, AddressIsInt
  <2> QED
    BY <1>2, <2>1
<1>4. Written(f, t)
  BY <1>2, <1>3, PayloadWritten
<1>5. ASSUME NEW x, NEW u, HP!InUse(t, x, u), x # q
      PROVE  RegionSame(w, f, x, u)
  <2>1. q + s <= x \/ x + u <= q
    BY <1>5, RegionsApart
  <2> DEFINE hi == q + s
  <2>2. hi \in Nat /\ SameOutside(w, f, q, hi) /\ (hi <= x \/ x + u <= q)
    BY <1>0, <1>3, <2>1
  <2> HIDE DEF hi
  <2> QED
    BY <1>0, <1>5, <2>2, RegionKept
<1>6. ASSUME NEW a \in q .. (q + n - 1)
      PROVE  f[a] = IF a < q + k THEN w[a] ELSE d
  <2>1. a \in Addresses
    BY <1>0
  <2>2. a \in p .. (p + c - 1) <=> ~ (a < q + k)
    BY <1>0, <1>1
  <2> QED
    BY <1>2, <2>1, <2>2
<1> QED
  BY <1>4, <1>5, <1>6 DEF f

(* krealloc's way to a larger block: obtain, copy, give back.              *)
Moved(m, bs, w, t, p, q, s, z, n) ==
  /\ Written(w, t) /\ FirstAddr(bs) = KERNEL_HEAP_START /\ FirstAddr(t) = KERNEL_HEAP_START
  /\ q \in Nat /\ q # NULL /\ s \in Nat /\ n <= s
  /\ \A u : ~ HP!InUse(bs, q, u)
  /\ \A x, u : HP!InUse(t, x, u) <=> (HP!InUse(bs, x, u) /\ x # p) \/ (x = q /\ u = s)
  /\ \A x, u : HP!InUse(bs, x, u) /\ x # p => RegionSame(m, w, x, u)
  /\ \A a \in q .. (q + z - 1) : w[a] = m[p + (a - q)]

LEMMA SizeRead ==
  ASSUME NEW m, NEW bs, Written(m, bs), NEW p, NEW s, HP!InUse(bs, p, s)
  PROVE  /\ Size(m, p - Header) = s
         /\ bs[HP!IndexOf(bs, p)].size = s
<1>1. PICK i \in 1 .. Len(bs) : /\ ~ bs[i].free /\ bs[i].addr + 3 = p /\ bs[i].size = s
                                /\ HP!Payload(bs[i]) = p
  BY RegionPlace
<1>0. HP!TiledList(bs) /\ bs[i].addr \in Nat
  BY BlockPlace DEF Written
<1>2. p - Header = bs[i].addr
  <2> DEFINE a == bs[i].addr
  <2>1. a \in Nat /\ p = a + 3
    BY <1>0, <1>1
  <2> HIDE DEF a
  <2>2. p - 3 = a
    BY <2>1
  <2> QED
    BY <2>2, ArenaBounds DEF a
<1>3. HP!IndexOf(bs, HP!Payload(bs[i])) = i
  BY <1>0, HP!IndexOfPayload, MemoryAssumption
<1> QED
  BY <1>1, <1>2, <1>3 DEF Written, HoldsHeader, Size

LEMMA MoveOutcome ==
  ASSUME NEW m, NEW bs, Written(m, bs), NEW p, NEW z, HP!InUse(bs, p, z),
         NEW n \in Nat, z < n, NEW w1, NEW t1, NEW q, NEW s, Obtained(m, bs, w1, t1, q, s, n)
  PROVE  Moved(m, bs, Kfree(CopyOld(w1, p, q), p), HP!Kfree(t1, p), p, q, s, z, n)
<1> DEFINE w2 == CopyOld(w1, p, q)
           w3 == Kfree(w2, p)
           t3 == HP!Kfree(t1, p)
<1>0. /\ Written(w1, t1) /\ q \in Nat /\ s \in Nat /\ n <= s /\ q # NULL
      /\ FirstAddr(bs) = KERNEL_HEAP_START
      /\ \A u : ~ HP!InUse(bs, q, u)
      /\ \A x, u : HP!InUse(t1, x, u) <=> HP!InUse(bs, x, u) \/ (x = q /\ u = s)
      /\ \A x, u : HP!InUse(bs, x, u) => RegionSame(m, w1, x, u)
  BY DEF Obtained
<1>1. /\ HP!InUse(t1, p, z) /\ HP!InUse(t1, q, s) /\ p # q
  BY <1>0
<1>2. /\ p \in Nat /\ z \in Nat /\ p .. (p + z - 1) \subseteq Addresses
      /\ q .. (q + s - 1) \subseteq Addresses
  BY <1>0, <1>1, RegionPlace
<1>3. w2 = Memcpy(w1, q, p, z)
  BY <1>0, <1>1, SizeRead DEF CopyOld
<1>4. /\ w2 \in Words
      /\ \A a \in Addresses : a \in q .. (q + z - 1) => w2[a] = w1[p + (a - q)]
      /\ \A a \in Addresses : a \notin q .. (q + z - 1) => w2[a] = w1[a]
  <2>1. \A a \in Addresses : a \in q .. (q + z - 1) => p + (a - q) \in p .. (p + z - 1)
    BY <1>0, <1>2, AddressIsInt
  <2>2. w1 \in Words
    BY <1>0 DEF Written, Words
  <2>3. \A a \in Addresses : a \in q .. (q + z - 1) => p + (a - q) \in Addresses
    BY <1>2, <2>1
  <2>4. /\ Memcpy(w1, q, p, z) \in Words
        /\ \A a \in Addresses :
             a \in q .. (q + z - 1) => Memcpy(w1, q, p, z)[a] = w1[p + (a - q)]
        /\ \A a \in Addresses : a \notin q .. (q + z - 1) => Memcpy(w1, q, p, z)[a] = w1[a]
    BY <1>0, <1>2, <2>2, <2>3, MemcpyWords
  <2> QED
    BY <1>3, <2>4
<1> HIDE DEF w2
<1>5. SameOutside(w1, w2, q, q + s)
  <2> SUFFICES ASSUME NEW a \in Addresses, a < q \/ q + s <= a
               PROVE  w2[a] = w1[a]
    BY DEF SameOutside
  <2>1. a \notin q .. (q + z - 1)
    BY <1>0, <1>2, AddressIsInt
  <2> QED
    BY <1>4, <2>1
<1>6. Written(w2, t1)
  BY <1>0, <1>1, <1>4, <1>5, PayloadWritten
<1>7. Returned(w2, t1, w3, t3, p)
  BY <1>1, <1>6, KfreeReturns
<1> HIDE DEF w3, t3
<1>8. \A x, u : HP!InUse(t3, x, u) <=> (HP!InUse(bs, x, u) /\ x # p) \/ (x = q /\ u = s)
  BY <1>0, <1>1, <1>7 DEF Returned
<1>9. ASSUME NEW x, NEW u, HP!InUse(bs, x, u), x # p
      PROVE  RegionSame(m, w3, x, u)
  <2>1. HP!InUse(t1, x, u) /\ x # q
    BY <1>0, <1>9
  <2>2. q + s <= x \/ x + u <= q
    BY <1>0, <1>1, <2>1, RegionsApart
  <2>3. RegionSame(w1, w2, x, u)
    <3> DEFINE hi == q + s
    <3>1. hi \in Nat /\ SameOutside(w1, w2, q, hi) /\ (hi <= x \/ x + u <= q)
      BY <1>0, <1>5, <2>2
    <3> HIDE DEF hi
    <3> QED
      BY <1>0, <2>1, <3>1, RegionKept
  <2>4. RegionSame(w2, w3, x, u)
    BY <1>7, <1>9, <2>1 DEF Returned
  <2>5. RegionSame(m, w1, x, u)
    BY <1>0, <1>9
  <2> QED
    BY <2>3, <2>4, <2>5 DEF RegionSame
<1>10. ASSUME NEW a \in q .. (q + z - 1)
       PROVE  w3[a] = m[p + (a - q)]
  <2>1. a \in q .. (q + s - 1) /\ p + (a - q) \in p .. (p + z - 1)
    BY <1>0, <1>2
  <2>2. w2[a] = w1[p + (a - q)]
    BY <1>2, <1>4, <2>1
  <2>3. w1[p + (a - q)] = m[p + (a - q)]
    <3> DEFINE y == p + (a - q)
    <3>1. y \in p .. (p + z - 1)
      BY <2>1
    <3> HIDE DEF y
    <3>2. w1[y] = m[y]
      BY <1>0, <3>1 DEF RegionSame
    <3> QED
      BY <3>2 DEF y
  <2>4. w3[a] = w2[a]
    <3>1. RegionSame(w2, w3, q, s)
      BY <1>1, <1>7 DEF Returned
    <3> QED
      BY <2>1, <3>1 DEF RegionSame
  <2> QED
    BY <2>2, <2>3, <2>4
<1>11. Written(w3, t3) /\ FirstAddr(t3) = KERNEL_HEAP_START
  BY <1>7 DEF Returned
<1>12. Moved(m, bs, w3, t3, p, q, s, z, n)
  BY <1>0, <1>8, <1>9, <1>10, <1>11 DEF Moved
<1> QED
  BY <1>12 DEF w3, t3, w2

-----------------------------------------------------------------------------
(* The inductive invariant: the list that is read out of memory is written *)
(* there, it satisfies the invariant of Heap.tla, and the data is intact.  *)
(* Without the first, nothing says what a search or a merge would find;    *)
(* without the second, a client's region might reach into a header.        *)

MInv ==
  /\ Written(mem, ListInMemory)
  /\ free_list = FirstAddr(ListInMemory)
  /\ HP!FitInv
  /\ DOMAIN content = DOMAIN live
  /\ \A p \in DOMAIN live : content[p] \in Nat
  /\ DataIntact

(* The region of a pointer that is outstanding. *)
LEMMA LiveRegion ==
  ASSUME MInv, NEW p \in DOMAIN live
  PROVE  /\ \E z : HP!InUse(ListInMemory, p, z) /\ live[p] <= z
         /\ live[p] \in Nat
<1>1. \E z : HP!InUse(ListInMemory, p, z) /\ z >= live[p]
  BY DEF MInv, HP!FitInv
<1>2. live[p] \in Sizes
  BY DEF MInv, HP!FitInv, HP!IInv
<1>3. live[p] \in Nat
  <2>1. Sizes \subseteq Nat
    BY MemoryAssumption
  <2> QED
    BY <1>2, <2>1
<1>4. PICK z : HP!InUse(ListInMemory, p, z) /\ z >= live[p]
  BY <1>1
<1>5. z \in Nat
  BY <1>4, RegionPlace DEF MInv
<1> QED
  BY <1>3, <1>4, <1>5

LEMMA OutstandingIffInUse ==
  ASSUME MInv
  PROVE  \A p : p \in DOMAIN live <=> \E z : HP!InUse(ListInMemory, p, z)
BY DEF MInv, HP!FitInv, HP!IInv, HP!Matches

(* After a step that writes the list t, t is the list in memory. *)
LEMMA ListAfter ==
  ASSUME NEW t, Written(mem', t), free_list' = FirstAddr(t)
  PROVE  ListInMemory' = t
<1>1. ListInMemory' = ListIn(mem', free_list')
  BY DEF ListInMemory
<1> QED
  BY <1>1, ListFound

LEMMA MInvAfter ==
  ASSUME HP!NoWrap, MInv, NEW t, Written(mem', t), free_list' = FirstAddr(t),
         [HP!Next]_HP!vars, DOMAIN content' = DOMAIN live',
         \A p \in DOMAIN live' : content'[p] \in Nat,
         \A p \in DOMAIN live' : \A a \in p .. (p + live'[p] - 1) : mem'[a] = content'[p]
  PROVE  MInv'
<1>1. ListInMemory' = t
  BY ListAfter
<1>2. HP!FitInv
  BY DEF MInv
<1>3. HP!FitInv'
  BY <1>2, HP!NextFitInv, MemoryAssumption
<1>4. DataIntact'
  BY DEF DataIntact
<1>5. /\ Written(mem', ListInMemory')
      /\ free_list' = FirstAddr(ListInMemory')
  BY <1>1
<1>6. Written(mem, ListInMemory)' /\ (free_list = FirstAddr(ListInMemory))'
  BY <1>5
<1> QED
  BY <1>3, <1>4, <1>6 DEF MInv

(* The data of an outstanding region that a step leaves alone. *)
LEMMA DataStays ==
  ASSUME MInv, NEW p \in DOMAIN live, NEW w,
         \A z : HP!InUse(ListInMemory, p, z) => RegionSame(mem, w, p, z)
  PROVE  \A a \in p .. (p + live[p] - 1) : w[a] = content[p]
<1>1. PICK z : HP!InUse(ListInMemory, p, z) /\ live[p] <= z
  BY LiveRegion
<1>2. p \in Nat /\ z \in Nat /\ live[p] \in Nat
  BY <1>1, LiveRegion, RegionPlace DEF MInv
<1>3. ASSUME NEW a \in p .. (p + live[p] - 1)
      PROVE  w[a] = content[p]
  <2>1. a \in p .. (p + z - 1)
    BY <1>1, <1>2
  <2>2. w[a] = mem[a]
    BY <1>1, <2>1 DEF RegionSame
  <2>3. mem[a] = content[p]
    BY <1>3 DEF MInv, DataIntact
  <2> QED
    BY <2>2, <2>3
<1> QED
  BY <1>3

LEMMA InitMInv == Init => MInv /\ HP!Init
<1> SUFFICES ASSUME Init PROVE MInv /\ HP!Init
  OBVIOUS
<1>1. Written(mem, << >>) /\ free_list = FirstAddr(<< >>)
  <2>1. << >> \in Seq(HP!Block) /\ Len(<< >>) = 0
    BY EmptySeq
  <2>2. HP!TiledList(<< >>)
    BY <2>1 DEF HP!TiledList, HP!Ordered
  <2>3. mem \in [Addresses -> Nat]
    BY DEF Init
  <2> QED
    BY <2>1, <2>2, <2>3 DEF Written, Init, FirstAddr
<1>2. ListInMemory = << >>
  <2> DEFINE e == << >>
  <2>1. Written(mem, e) /\ free_list = FirstAddr(e)
    BY <1>1
  <2> HIDE DEF e
  <2>2. ListIn(mem, free_list) = e
    BY <2>1, ListFound
  <2> QED
    BY <2>2 DEF ListInMemory, e
<1>3. DOMAIN live = {} /\ DOMAIN content = {}
  BY DEF Init
<1>4. HP!Init
  BY <1>2 DEF Init, HP!Init
<1>5. HP!IInv
  BY <1>4, HP!InitIInv, MemoryAssumption
<1>6. HP!FitInv
  BY <1>3, <1>5 DEF HP!FitInv
<1>7. DataIntact
  BY <1>3 DEF DataIntact
<1> QED
  BY <1>1, <1>2, <1>3, <1>4, <1>6, <1>7 DEF MInv

(* One step: it keeps the invariant, and is a step of the list.            *)
Follows == MInv' /\ [HP!Next]_HP!vars

LEMMA InitHeapFollows ==
  ASSUME HP!NoWrap, MInv, init_heap
  PROVE  Follows
<1> DEFINE bs == ListInMemory
           b == [addr |-> KERNEL_HEAP_START, size |-> KERNEL_HEAP_SIZE - Header, free |-> TRUE]
           t == <<b>>
           size == KERNEL_HEAP_SIZE - Header
<1>0. /\ KERNEL_HEAP_START \in Addresses /\ KERNEL_HEAP_START + 1 \in Addresses
      /\ KERNEL_HEAP_START + 2 \in Addresses /\ size \in Nat /\ NULL \in Nat
      /\ size \in 0 .. KERNEL_HEAP_SIZE /\ KERNEL_HEAP_START + 3 + size = HeapEnd
  BY ArenaBounds, MemoryAssumption DEF Addresses, HeapEnd, NULL
<1>1. Len(bs) = 0 /\ bs = << >>
  <2>1. HP!TiledList(bs) /\ free_list = NULL /\ free_list = FirstAddr(bs)
    BY DEF MInv, Written, init_heap
  <2> HIDE DEF bs
  <2>2. Len(bs) = 0
    <3>1. CASE Len(bs) # 0
      BY <2>1, <3>1, FirstIsStart, ArenaBounds
    <3> QED
      BY <3>1
  <2>3. bs \in Seq(HP!Block)
    BY <2>1 DEF HP!TiledList
  <2> QED
    BY <2>2, <2>3, EmptySeq
<1>2. DOMAIN live = {}
  <2>1. \A p, z : ~ HP!InUse(bs, p, z)
    BY <1>1 DEF HP!InUse
  <2> QED
    BY <2>1, OutstandingIffInUse
<1>3. /\ t \in Seq(HP!Block) /\ Len(t) = 1 /\ t[1] = b /\ b.addr = KERNEL_HEAP_START
      /\ b.size = size /\ b.free
  <2>1. b \in HP!Block
    BY <1>0, ArenaBounds DEF HP!Block
  <2> HIDE DEF b
  <2>2. t \in Seq(HP!Block) /\ Len(t) = 1 /\ t[1] = b
    BY <2>1
  <2> QED
    BY <2>2 DEF b
<1> HIDE DEF t, b
<1>4. HP!TiledList(t)
  <2>1. HP!EndOf(b) = HP!HeapEnd
    BY <1>0, <1>3, ArenaBounds DEF HP!EndOf
  <2>2. \A i, j \in 1 .. 1 : ~ (i < j)
    OBVIOUS
  <2> QED
    BY <1>3, <2>1, <2>2 DEF HP!TiledList, HP!Ordered
<1>5. Written(mem', t) /\ free_list' = FirstAddr(t)
  <2>1. HeaderSet(mem, mem', KERNEL_HEAP_START, size, NULL, 1)
    <3>1. mem \in Words
      BY DEF MInv, Written, Words
    <3>2. mem' = SetHeader(mem, KERNEL_HEAP_START, size, NULL, 1)
      BY DEF init_heap
    <3> HIDE DEF size
    <3> QED
      BY <1>0, <3>1, <3>2, SetHeaderWords
  <2>2. HoldsHeader(mem', b, NULL)
    BY <1>3, <2>1 DEF HoldsHeader, HeaderSet
  <2>3. NextAddr(t, 1) = NULL
    BY <1>3 DEF NextAddr
  <2>4. Written(mem', t)
    BY <1>3, <1>4, <2>1, <2>2, <2>3 DEF Written, HeaderSet, Words
  <2> QED
    BY <1>3, <2>4 DEF init_heap, FirstAddr
<1>6. HP!init_heap
  <2>1. ListInMemory' = t
    BY <1>5, ListAfter
  <2> QED
    BY <1>1, <2>1 DEF HP!init_heap, init_heap, t, b
<1>7. [HP!Next]_HP!vars
  BY <1>6 DEF HP!Next
<1>8. MInv'
  <2>1. live' = live /\ content' = content /\ DOMAIN content = {}
    BY <1>2 DEF init_heap, MInv
  <2> QED
    BY <1>2, <1>5, <1>7, <2>1, MInvAfter
<1> QED
  BY <1>7, <1>8 DEF Follows

LEMMA KmallocFollows ==
  ASSUME HP!NoWrap, MInv, NEW n \in Sizes, kmalloc(n)
  PROVE  Follows
<1>0. PICK bs : bs = ListInMemory
  OBVIOUS
<1>1. PICK r : r = Kmalloc(mem, n)
  OBVIOUS
<1>2. /\ Written(mem, bs) /\ free_list = FirstAddr(bs) /\ n \in Nat
      /\ DOMAIN content = DOMAIN live
      /\ \A p \in DOMAIN live : content[p] \in Nat /\ live[p] \in Nat
  BY <1>0, RoundedUp, LiveRegion DEF MInv
<1>3. CASE Refused(mem, bs, n)
  <2>1. r.ptr = NULL
    BY <1>1, <1>3 DEF Refused
  <2>2. mem' = mem /\ live' = live /\ content' = content /\ free_list' = free_list
    BY <1>1, <2>1 DEF kmalloc
  <2>3. ListInMemory' = bs
    BY <1>2, <2>2, ListAfter
  <2>4. [HP!Next]_HP!vars
    BY <1>0, <2>2, <2>3 DEF HP!vars
  <2>5. \A p \in DOMAIN live' : \A a \in p .. (p + live'[p] - 1) : mem'[a] = content'[p]
    BY <2>2 DEF MInv, DataIntact
  <2> QED
    BY <1>2, <2>2, <2>4, <2>5, MInvAfter DEF Follows
<1>4. ASSUME NEW i, Found(mem, bs, n, i)
      PROVE  Follows
  <2>1. PICK t : t = HP!Kmalloc(bs, n).blocks
    OBVIOUS
  <2>2. PICK q : q = r.ptr
    OBVIOUS
  <2>3. PICK w : w = r.mem
    OBVIOUS
  <2>4. PICK s : Obtained(mem, bs, w, t, q, s, n)
    BY <1>1, <1>2, <1>4, <2>1, <2>2, <2>3, FoundObtains
  <2>5. q \in Nat /\ q # NULL /\ n <= s /\ HP!InUse(t, q, s) /\ Written(w, t)
    BY <2>4 DEF Obtained
  <2>6. /\ mem' = Fill(w, q, n, q) /\ free_list' = free_list
        /\ live' = Note(live, q, n) /\ content' = Note(content, q, q)
    BY <1>1, <2>2, <2>3, <2>5 DEF kmalloc
  <2>7. /\ Written(mem', t)
        /\ \A x, u : HP!InUse(t, x, u) /\ x # q => RegionSame(w, mem', x, u)
        /\ \A a \in q .. (q + n - 1) : mem'[a] = q
    <3> DEFINE k == 0
    <3>1. k \in Nat /\ q + k = q /\ n - k = n
      BY <1>2, <2>5
    <3>2. mem' = Fill(w, q + k, n - k, q)
      BY <2>6, <3>1
    <3> HIDE DEF k
    <3>3. /\ Written(mem', t)
          /\ \A x, u : HP!InUse(t, x, u) /\ x # q => RegionSame(w, mem', x, u)
          /\ \A a \in q .. (q + n - 1) : mem'[a] = IF a < q + k THEN w[a] ELSE q
      <4>1. /\ Written(Fill(w, q + k, n - k, q), t)
            /\ \A x, u : HP!InUse(t, x, u) /\ x # q =>
                  RegionSame(w, Fill(w, q + k, n - k, q), x, u)
            /\ \A a \in q .. (q + n - 1) :
                  Fill(w, q + k, n - k, q)[a] = IF a < q + k THEN w[a] ELSE q
        BY <1>2, <2>5, <3>1, ClientFills
      <4> QED
        BY <3>2, <4>1
    <3>4. \A a \in q .. (q + n - 1) : ~ (a < q + k)
      BY <1>2, <2>5, <3>1
    <3> QED
      BY <3>3, <3>4
  <2>8. free_list' = FirstAddr(t) /\ ListInMemory' = t
    <3>1. free_list' = FirstAddr(t)
      BY <1>2, <2>4, <2>6 DEF Obtained
    <3> QED
      BY <2>7, <3>1, ListAfter
  <2>9. HP!kmalloc(n)
    <3>1. HP!Kmalloc(bs, n).ptr = q
      BY <1>1, <1>4, <2>2 DEF Found
    <3> QED
      BY <1>0, <2>1, <2>5, <2>6, <2>8, <3>1
         DEF HP!kmalloc, HP!Promise, Note, HP!NULL, NULL
  <2>10. [HP!Next]_HP!vars
    BY <2>9 DEF HP!Next
  <2>11. q \notin DOMAIN live
    BY <1>0, <2>4, OutstandingIffInUse DEF Obtained
  <2>12. /\ DOMAIN live' = DOMAIN live \cup {q} /\ DOMAIN content' = DOMAIN live \cup {q}
         /\ live'[q] = n /\ content'[q] = q
         /\ \A p \in DOMAIN live : live'[p] = live[p] /\ content'[p] = content[p]
    BY <1>2, <2>6, <2>11 DEF Note
  <2>13. ASSUME NEW p \in DOMAIN live
         PROVE  \A a \in p .. (p + live[p] - 1) : mem'[a] = content[p]
    <3>1. p # q
      BY <2>11
    <3>2. ASSUME NEW z, HP!InUse(ListInMemory, p, z)
          PROVE  RegionSame(mem, mem', p, z)
      <4>1. HP!InUse(t, p, z) /\ RegionSame(mem, w, p, z)
        BY <1>0, <2>4, <3>2 DEF Obtained
      <4>2. RegionSame(w, mem', p, z)
        BY <2>7, <3>1, <4>1
      <4> QED
        BY <4>1, <4>2 DEF RegionSame
    <3> QED
      BY <3>2, DataStays
  <2>14. \A p \in DOMAIN live' : \A a \in p .. (p + live'[p] - 1) : mem'[a] = content'[p]
    BY <2>7, <2>12, <2>13
  <2>15. \A p \in DOMAIN live' : content'[p] \in Nat
    BY <1>2, <2>5, <2>12
  <2> QED
    BY <2>7, <2>8, <2>10, <2>12, <2>14, <2>15, MInvAfter DEF Follows
<1> QED
  BY <1>2, <1>3, <1>4, KmallocAgrees

LEMMA KfreeFollows ==
  ASSUME HP!NoWrap, MInv, NEW p \in DOMAIN live, kfree(p)
  PROVE  Follows
<1>0. PICK bs : bs = ListInMemory
  OBVIOUS
<1>1. PICK z : HP!InUse(bs, p, z)
  BY <1>0, LiveRegion
<1>2. /\ Written(mem, bs) /\ free_list = FirstAddr(bs)
      /\ DOMAIN content = DOMAIN live
      /\ \A x \in DOMAIN live : content[x] \in Nat
  BY <1>0 DEF MInv
<1>3. PICK t : t = HP!Kfree(bs, p)
  OBVIOUS
<1>4. Returned(mem, bs, mem', t, p)
  BY <1>1, <1>2, <1>3, KfreeReturns DEF kfree
<1>5. Written(mem', t) /\ free_list' = FirstAddr(t)
  BY <1>2, <1>4 DEF Returned, kfree
<1>6. ListInMemory' = t
  BY <1>5, ListAfter
<1>7. [HP!Next]_HP!vars
  <2>1. HP!kfree(p)
    BY <1>0, <1>3, <1>6 DEF HP!kfree, kfree, HP!Forget, Forget
  <2> QED
    BY <2>1 DEF HP!Next
<1>8. /\ DOMAIN live' = DOMAIN live \ {p} /\ DOMAIN content' = DOMAIN live \ {p}
      /\ \A x \in DOMAIN live' : live'[x] = live[x] /\ content'[x] = content[x]
  BY <1>2 DEF kfree, Forget
<1>9. ASSUME NEW x \in DOMAIN live'
      PROVE  \A a \in x .. (x + live'[x] - 1) : mem'[a] = content'[x]
  <2>1. x \in DOMAIN live /\ x # p
    BY <1>8
  <2>2. \A u : HP!InUse(ListInMemory, x, u) => RegionSame(mem, mem', x, u)
    BY <1>0, <1>4, <2>1 DEF Returned
  <2>3. \A a \in x .. (x + live[x] - 1) : mem'[a] = content[x]
    BY <2>1, <2>2, DataStays
  <2> QED
    BY <1>8, <2>3
<1>10. DOMAIN content' = DOMAIN live' /\ \A x \in DOMAIN live' : content'[x] \in Nat
  BY <1>2, <1>8
<1>11. MInv'
  BY <1>5, <1>7, <1>9, <1>10, MInvAfter
<1> QED
  BY <1>7, <1>11 DEF Follows

(* What krealloc has done when it leaves the region at q, of n words, to   *)
(* the client of p: the words that were there came with it.                *)
Kept(bs, w, t, p, q, s, n) ==
  /\ Written(w, t) /\ free_list = FirstAddr(t)
  /\ q \in Nat /\ HP!InUse(t, q, s) /\ n <= s
  /\ \A x, u : HP!InUse(bs, x, u) /\ x # p =>
       HP!InUse(t, x, u) /\ x # q /\ RegionSame(mem, w, x, u)
  /\ \A a \in q .. (q + n - 1) : a < q + live[p] => w[a] = content[p]

(* The words a client writes beyond the ones that came with its region.    *)
LEMMA KeptFills ==
  ASSUME NEW bs, NEW w, NEW t, NEW p, NEW q, NEW s, NEW n \in Nat,
         Kept(bs, w, t, p, q, s, n), NEW k \in Nat, NEW d \in Nat
  PROVE  /\ Written(Fill(w, q + k, n - k, d), t)
         /\ \A x, u : HP!InUse(t, x, u) /\ x # q =>
              RegionSame(w, Fill(w, q + k, n - k, d), x, u)
         /\ \A a \in q .. (q + n - 1) :
              Fill(w, q + k, n - k, d)[a] = IF a < q + k THEN w[a] ELSE d
<1>1. Written(w, t) /\ HP!InUse(t, q, s) /\ n <= s
  BY DEF Kept
<1> QED
  BY <1>1, ClientFills

LEMMA KreallocEnds ==
  ASSUME HP!NoWrap, MInv, NEW p \in DOMAIN live, NEW n \in Sizes, n # 0,
         NEW bs, bs = ListInMemory,
         NEW w, NEW t, NEW q, NEW s, Kept(bs, w, t, p, q, s, n),
         HP!Krealloc(bs, p, n) = [ptr |-> q, blocks |-> t], q # NULL,
         mem' = Fill(w, q + live[p], n - live[p], content[p]),
         free_list' = free_list,
         live' = Note(Forget(live, p), q, n),
         content' = Note(Forget(content, p), q, content[p])
  PROVE  Follows
<1>0. /\ Written(mem, bs) /\ n \in Nat /\ live[p] \in Nat /\ content[p] \in Nat
      /\ DOMAIN content = DOMAIN live
      /\ \A x \in DOMAIN live : content[x] \in Nat
  BY RoundedUp, LiveRegion DEF MInv
<1>1. /\ Written(w, t) /\ free_list = FirstAddr(t)
      /\ q \in Nat /\ HP!InUse(t, q, s) /\ n <= s
  BY DEF Kept
<1>2. /\ Written(mem', t)
      /\ \A x, u : HP!InUse(t, x, u) /\ x # q => RegionSame(w, mem', x, u)
      /\ \A a \in q .. (q + n - 1) : mem'[a] = IF a < q + live[p] THEN w[a] ELSE content[p]
  <2> DEFINE k == live[p]
             d == content[p]
  <2>1. k \in Nat /\ d \in Nat
    BY <1>0
  <2>2. mem' = Fill(w, q + k, n - k, d)
    OBVIOUS
  <2> HIDE DEF k, d
  <2>3. /\ Written(Fill(w, q + k, n - k, d), t)
        /\ \A x, u : HP!InUse(t, x, u) /\ x # q =>
             RegionSame(w, Fill(w, q + k, n - k, d), x, u)
        /\ \A a \in q .. (q + n - 1) :
             Fill(w, q + k, n - k, d)[a] = IF a < q + k THEN w[a] ELSE d
    BY <1>0, <2>1, KeptFills
  <2>4. /\ Written(mem', t)
        /\ \A x, u : HP!InUse(t, x, u) /\ x # q => RegionSame(w, mem', x, u)
        /\ \A a \in q .. (q + n - 1) : mem'[a] = IF a < q + k THEN w[a] ELSE d
    BY <2>2, <2>3
  <2> QED
    BY <2>4 DEF k, d
<1>3. free_list' = FirstAddr(t) /\ ListInMemory' = t
  <2>1. free_list' = FirstAddr(t)
    BY <1>1
  <2> QED
    BY <1>2, <2>1, ListAfter
<1>4. [HP!Next]_HP!vars
  <2>1. HP!krealloc(p, n)
    BY <1>3 DEF HP!krealloc, HP!Promise, Note, HP!Forget, Forget, HP!NULL, NULL
  <2> QED
    BY <2>1 DEF HP!Next
<1>5. /\ DOMAIN live' = (DOMAIN live \ {p}) \cup {q}
      /\ DOMAIN content' = (DOMAIN live \ {p}) \cup {q}
      /\ live'[q] = n /\ content'[q] = content[p]
      /\ \A x \in DOMAIN live' : x # q => live'[x] = live[x] /\ content'[x] = content[x]
  BY <1>0 DEF Note, Forget
<1>6. ASSUME NEW x \in DOMAIN live'
      PROVE  \A a \in x .. (x + live'[x] - 1) : mem'[a] = content'[x]
  <2>1. CASE x = q
    <3>1. \A a \in q .. (q + n - 1) : mem'[a] = content[p]
      BY <1>2 DEF Kept
    <3> QED
      BY <1>5, <2>1, <3>1
  <2>2. CASE x # q
    <3>1. x \in DOMAIN live /\ x # p
      BY <1>5, <2>2
    <3>2. ASSUME NEW u, HP!InUse(ListInMemory, x, u)
          PROVE  RegionSame(mem, mem', x, u)
      <4>1. HP!InUse(t, x, u) /\ RegionSame(mem, w, x, u)
        BY <3>1, <3>2 DEF Kept
      <4>2. RegionSame(w, mem', x, u)
        BY <1>2, <2>2, <4>1
      <4> QED
        BY <4>1, <4>2 DEF RegionSame
    <3>3. \A a \in x .. (x + live[x] - 1) : mem'[a] = content[x]
      BY <3>1, <3>2, DataStays
    <3> QED
      BY <1>5, <2>2, <3>3
  <2> QED
    BY <2>1, <2>2
<1>7. DOMAIN content' = DOMAIN live' /\ \A x \in DOMAIN live' : content'[x] \in Nat
  BY <1>0, <1>5
<1>8. MInv'
  BY <1>2, <1>3, <1>4, <1>6, <1>7, MInvAfter
<1> QED
  BY <1>4, <1>8 DEF Follows

LEMMA KreallocFollows ==
  ASSUME HP!NoWrap, MInv, NEW p \in DOMAIN live, NEW n \in Sizes, krealloc(p, n)
  PROVE  Follows
<1>0. PICK bs : bs = ListInMemory
  OBVIOUS
<1>1. PICK z : HP!InUse(bs, p, z) /\ live[p] <= z
  BY <1>0, LiveRegion
<1>2. /\ Written(mem, bs) /\ free_list = FirstAddr(bs) /\ n \in Nat
      /\ DOMAIN content = DOMAIN live
      /\ \A x \in DOMAIN live : content[x] \in Nat
      /\ live[p] \in Nat
  BY <1>0, RoundedUp, LiveRegion DEF MInv
<1>3. p \in Nat /\ z \in Nat /\ p # NULL
  BY <1>1, <1>2, RegionPlace
<1>4. Size(mem, p - Header) = z /\ bs[HP!IndexOf(bs, p)].size = z
  BY <1>1, <1>2, SizeRead
<1>5. \A a \in p .. (p + live[p] - 1) : mem[a] = content[p]
  BY DEF MInv, DataIntact
<1>6. CASE n = 0
  <2>1. kfree(p)
    BY <1>6 DEF krealloc
  <2> QED
    BY <2>1, KfreeFollows
<1>7. CASE n # 0 /\ z >= n
  <2>1. /\ Krealloc(mem, p, n) = [ptr |-> p, mem |-> mem]
        /\ HP!Krealloc(bs, p, n) = [ptr |-> p, blocks |-> bs]
    BY <1>3, <1>4, <1>7 DEF Krealloc, HP!Krealloc, HP!NULL, NULL
  <2>2. /\ mem' = Fill(mem, p + live[p], n - live[p], content[p])
        /\ free_list' = free_list
        /\ live' = Note(Forget(live, p), p, n)
        /\ content' = Note(Forget(content, p), p, content[p])
    BY <1>3, <1>7, <2>1 DEF krealloc
  <2>3. Kept(bs, mem, bs, p, p, z, n)
    <3>1. \A a \in p .. (p + n - 1) : a < p + live[p] => mem[a] = content[p]
      <4>1. \A a \in p .. (p + n - 1) : a < p + live[p] => a \in p .. (p + live[p] - 1)
        BY <1>2, <1>3
      <4> QED
        BY <1>5, <4>1
    <3> QED
      BY <1>1, <1>2, <1>3, <1>7, <3>1 DEF Kept, RegionSame
  <2> QED
    BY <1>0, <1>3, <1>7, <2>1, <2>2, <2>3, KreallocEnds
<1>8. CASE n # 0 /\ ~ (z >= n)
  <2> DEFINE r == Kmalloc(mem, n)
             l == HP!Kmalloc(bs, n)
             result == Krealloc(mem, p, n)
  <2>1. result = IF r.ptr = NULL THEN r
                 ELSE [r EXCEPT !.mem = Kfree(CopyOld(@, p, r.ptr), p)]
    BY <1>3, <1>4, <1>8 DEF Krealloc
  <2>2. HP!Krealloc(bs, p, n) = IF l.ptr = NULL THEN l
                                ELSE [l EXCEPT !.blocks = HP!Kfree(@, p)]
    BY <1>3, <1>4, <1>8 DEF HP!Krealloc, HP!KreallocMove, HP!NULL, NULL
  <2>3. CASE Refused(mem, bs, n)
    <3>1. result.ptr = NULL
      BY <2>1, <2>3 DEF Refused
    <3>2. mem' = mem /\ live' = live /\ content' = content /\ free_list' = free_list
      BY <1>8, <3>1 DEF krealloc
    <3>3. ListInMemory' = bs
      BY <1>2, <3>2, ListAfter
    <3>4. [HP!Next]_HP!vars
      BY <1>0, <3>2, <3>3 DEF HP!vars
    <3>5. \A x \in DOMAIN live' : \A a \in x .. (x + live'[x] - 1) : mem'[a] = content'[x]
      BY <3>2 DEF MInv, DataIntact
    <3> QED
      BY <1>2, <3>2, <3>4, <3>5, MInvAfter DEF Follows
  <2>4. ASSUME NEW i, Found(mem, bs, n, i)
        PROVE  Follows
    <3>1. PICK w1 : w1 = r.mem
      OBVIOUS
    <3>2. PICK t1 : t1 = l.blocks
      OBVIOUS
    <3>3. PICK q : q = r.ptr
      OBVIOUS
    <3>4. PICK s : Obtained(mem, bs, w1, t1, q, s, n)
      BY <1>2, <2>4, <3>1, <3>2, <3>3, FoundObtains
    <3>5. q \in Nat /\ q # NULL /\ n <= s
      BY <3>4 DEF Obtained
    <3>6. r = [ptr |-> q, mem |-> w1] /\ l = [ptr |-> q, blocks |-> t1]
      BY <2>4, <3>1, <3>2, <3>3 DEF Found
    <3> HIDE DEF r, l
    <3>7. PICK w : w = Kfree(CopyOld(w1, p, q), p)
      OBVIOUS
    <3>8. PICK t : t = HP!Kfree(t1, p)
      OBVIOUS
    <3>9. /\ result = [ptr |-> q, mem |-> w]
          /\ HP!Krealloc(bs, p, n) = [ptr |-> q, blocks |-> t]
      BY <2>1, <2>2, <3>5, <3>6, <3>7, <3>8
    <3>10. Moved(mem, bs, w, t, p, q, s, z, n)
      <4>1. z < n
        BY <1>2, <1>3, <1>8
      <4> QED
        BY <1>1, <1>2, <3>4, <3>7, <3>8, <4>1, MoveOutcome
    <3>11. Kept(bs, w, t, p, q, s, n)
      <4>1. \A a \in q .. (q + n - 1) : a < q + live[p] => w[a] = content[p]
        <5> SUFFICES ASSUME NEW a \in q .. (q + n - 1), a < q + live[p]
                     PROVE  w[a] = content[p]
          OBVIOUS
        <5>1. a \in q .. (q + z - 1) /\ p + (a - q) \in p .. (p + live[p] - 1)
          BY <1>1, <1>2, <1>3, <3>5
        <5>2. w[a] = mem[p + (a - q)]
          BY <3>10, <5>1 DEF Moved
        <5> QED
          BY <1>5, <5>1, <5>2
      <4>2. free_list = FirstAddr(t)
        BY <1>2, <3>10 DEF Moved
      <4>3. HP!InUse(t, q, s)
        BY <3>10 DEF Moved
      <4>4. ASSUME NEW x, NEW u, HP!InUse(bs, x, u), x # p
            PROVE  HP!InUse(t, x, u) /\ x # q /\ RegionSame(mem, w, x, u)
        BY <3>10, <4>4 DEF Moved
      <4> QED
        BY <3>5, <3>10, <4>1, <4>2, <4>3, <4>4 DEF Kept, Moved
    <3>12. /\ mem' = Fill(w, q + live[p], n - live[p], content[p])
           /\ free_list' = free_list
           /\ live' = Note(Forget(live, p), q, n)
           /\ content' = Note(Forget(content, p), q, content[p])
      BY <1>8, <3>5, <3>9 DEF krealloc
    <3> QED
      BY <1>0, <1>8, <3>5, <3>9, <3>11, <3>12, KreallocEnds
  <2> QED
    BY <1>2, <2>3, <2>4, KmallocAgrees
<1> QED
  BY <1>2, <1>3, <1>6, <1>7, <1>8

LEMMA NextFollows ==
  ASSUME HP!NoWrap, MInv, [Next]_vars
  PROVE  Follows
<1>1. ASSUME UNCHANGED vars
      PROVE  Follows
  <2>1. mem' = mem /\ live' = live /\ content' = content /\ free_list' = free_list
    BY <1>1 DEF vars
  <2>2. ListInMemory' = ListInMemory
    BY <2>1 DEF ListInMemory
  <2>3. [HP!Next]_HP!vars
    BY <2>1, <2>2 DEF HP!vars
  <2>4. PICK t : t = ListInMemory
    OBVIOUS
  <2>5. Written(mem', t) /\ free_list' = FirstAddr(t)
    BY <2>1, <2>4 DEF MInv
  <2>6. /\ DOMAIN content' = DOMAIN live'
        /\ \A p \in DOMAIN live' : content'[p] \in Nat
        /\ \A p \in DOMAIN live' : \A a \in p .. (p + live'[p] - 1) : mem'[a] = content'[p]
    BY <2>1 DEF MInv, DataIntact
  <2> QED
    BY <2>3, <2>5, <2>6, MInvAfter DEF Follows
<1> QED
  BY <1>1, InitHeapFollows, KmallocFollows, KfreeFollows, KreallocFollows DEF Next

LEMMA MInvHolds == ASSUME HP!NoWrap PROVE Spec => []MInv
<1>1. Init => MInv
  BY InitMInv
<1>2. MInv /\ [Next]_vars => MInv'
  BY NextFollows DEF Follows
<1> QED
  BY <1>1, <1>2, PTL DEF Spec

(* What a client has written in its region is there until it gives it back *)
(* (heap.cpp:64-72, 90-93, 117), when no request wraps around in align16.  *)
THEOREM DataStaysIntact == ASSUME HP!NoWrap PROVE Spec => []DataIntact
<1>1. MInv => DataIntact
  BY DEF MInv
<1> QED
  BY <1>1, MInvHolds, PTL

(* The proofs read the instance of Heap.tla that comes with HeapProofs: its *)
(* operators are those of the instance the property speaks of.             *)
LEMMA SameCarve ==
  \A bs, i, n : HP!Carve(bs, i, n) = List!Carve(bs, i, n)
<1>1. \A s, i, e : HP!InsertAt(s, i, e) = List!InsertAt(s, i, e)
  BY DEF HP!InsertAt, List!InsertAt
<1>2. \A s, i, e : HP!ReplaceAt(s, i, e) = List!ReplaceAt(s, i, e)
  BY DEF HP!ReplaceAt, List!ReplaceAt
<1>3. \A b, n : HP!CanSplit(b, n) = List!CanSplit(b, n)
  BY DEF HP!CanSplit, List!CanSplit
<1>4. \A b, n : HP!Rest(b, n) = List!Rest(b, n)
  BY DEF HP!Rest, List!Rest
<1> QED
  BY <1>1, <1>2, <1>3, <1>4 DEF HP!Carve, List!Carve

LEMMA SameKmalloc ==
  \A bs, n : HP!Kmalloc(bs, n) = List!Kmalloc(bs, n)
<1>1. \A n : HP!align16(n) = List!align16(n)
  BY DEF HP!align16, List!align16
<1>2. \A b, n : HP!Fits(b, n) <=> List!Fits(b, n)
  BY DEF HP!Fits, List!Fits
<1>3. \A bs, n : HP!FirstFit(bs, n) = List!FirstFit(bs, n)
  BY <1>2 DEF HP!FirstFit, List!FirstFit
<1>4. \A b : HP!Payload(b) = List!Payload(b)
  BY DEF HP!Payload, List!Payload
<1> QED
  BY <1>1, <1>3, <1>4, SameCarve DEF HP!Kmalloc, List!Kmalloc, HP!NULL, List!NULL

LEMMA SameIndexOf ==
  \A bs, p : HP!IndexOf(bs, p) = List!IndexOf(bs, p)
BY DEF HP!IndexOf, List!IndexOf, HP!Payload, List!Payload

LEMMA SameKfree ==
  \A bs, p : HP!Kfree(bs, p) = List!Kfree(bs, p)
<1>1. \A s, i, e : HP!ReplaceAt(s, i, e) = List!ReplaceAt(s, i, e)
  BY DEF HP!ReplaceAt, List!ReplaceAt
<1>2. \A s, i : HP!RemoveAt(s, i) = List!RemoveAt(s, i)
  BY DEF HP!RemoveAt, List!RemoveAt
<1>3. \A bs, i : HP!MergesNext(bs, i) <=> List!MergesNext(bs, i)
  BY DEF HP!MergesNext, List!MergesNext
<1>4. \A b, c : HP!Absorb(b, c) = List!Absorb(b, c)
  BY DEF HP!Absorb, List!Absorb
<1>5. \A bs, i : HP!Release(bs, i) = List!Release(bs, i)
  BY <1>1, <1>2, <1>3, <1>4 DEF HP!Release, List!Release
<1> QED
  BY <1>5, SameIndexOf DEF HP!Kfree, List!Kfree, HP!NULL, List!NULL

LEMMA SameKrealloc ==
  \A bs, p, n : HP!Krealloc(bs, p, n) = List!Krealloc(bs, p, n)
<1>1. \A bs, p, n : HP!KreallocMove(bs, p, n) = List!KreallocMove(bs, p, n)
  BY SameKmalloc, SameKfree DEF HP!KreallocMove, List!KreallocMove, HP!NULL, List!NULL
<1> QED
  BY <1>1, SameKmalloc, SameKfree, SameIndexOf
  DEF HP!Krealloc, List!Krealloc, HP!NULL, List!NULL

LEMMA SameNext ==
  [HP!Next]_HP!vars => [List!Next]_(List!vars)
<1>1. HP!init_heap => List!init_heap
  BY DEF HP!init_heap, List!init_heap
<1>2. ASSUME NEW n, HP!kmalloc(n)
      PROVE  List!kmalloc(n)
  <2>1. \A f, p, k : HP!Promise(f, p, k) = List!Promise(f, p, k)
    BY DEF HP!Promise, List!Promise
  <2> QED
    BY <1>2, <2>1, SameKmalloc DEF HP!kmalloc, List!kmalloc, HP!NULL, List!NULL
<1>3. \A f, p : HP!Forget(f, p) = List!Forget(f, p)
  BY DEF HP!Forget, List!Forget
<1>4. ASSUME NEW p, HP!kfree(p)
      PROVE  List!kfree(p)
  BY <1>3, <1>4, SameKfree DEF HP!kfree, List!kfree
<1>5. ASSUME NEW p, NEW n, HP!krealloc(p, n)
      PROVE  List!krealloc(p, n)
  <2>1. \A f, q, k : HP!Promise(f, q, k) = List!Promise(f, q, k)
    BY DEF HP!Promise, List!Promise
  <2> QED
    BY <1>3, <1>5, <2>1, SameKrealloc DEF HP!krealloc, List!krealloc, HP!NULL, List!NULL
<1>6. HP!NULL = List!NULL
  BY DEF HP!NULL, List!NULL
<1>7. HP!Next => List!Next
  BY <1>1, <1>2, <1>4, <1>5, <1>6 DEF HP!Next, List!Next
<1> QED
  BY <1>7 DEF HP!vars, List!vars

(* The words in memory behave like the list of blocks of Heap.tla: a       *)
(* search finds the first fit, a split and a merge relink what they should *)
(* (heap.cpp:46-72, 88-93), and nobody writes over a header.               *)
THEOREM MemoryImplementsList == ASSUME HP!NoWrap PROVE Spec => ListInMemoryImplementsHeap
<1>1. Init => List!Init
  BY InitMInv DEF HP!Init, List!Init
<1>2. MInv /\ [Next]_vars => [List!Next]_(List!vars)
  <2> SUFFICES ASSUME MInv, [Next]_vars
               PROVE  [List!Next]_(List!vars)
    OBVIOUS
  <2>1. [HP!Next]_HP!vars
    BY NextFollows DEF Follows
  <2> QED
    BY <2>1, SameNext
<1> QED
  BY <1>1, <1>2, MInvHolds, PTL DEF Spec, ListInMemoryImplementsHeap, List!Spec
=============================================================================
