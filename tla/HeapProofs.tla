----------------------------- MODULE HeapProofs -----------------------------
(***************************************************************************)
(* Proofs about Heap.tla, for every arena, header size, alignment, word    *)
(* size and set of request sizes that HeapAssumption admits.               *)
(***************************************************************************)
EXTENDS Heap, SequenceTheorems, TLAPS

-----------------------------------------------------------------------------
(* What InsertAt, RemoveAt and ReplaceAt give, element by element. *)

LEMMA InsertAtElements ==
  ASSUME NEW S, NEW s \in Seq(S), NEW e \in S, NEW i \in 1 .. (Len(s) + 1)
  PROVE  /\ InsertAt(s, i, e) \in Seq(S)
         /\ Len(InsertAt(s, i, e)) = Len(s) + 1
         /\ \A k \in 1 .. (Len(s) + 1) :
              InsertAt(s, i, e)[k] = IF k < i THEN s[k]
                                     ELSE IF k = i THEN e ELSE s[k - 1]
<1> DEFINE l == SubSeq(s, 1, i - 1)
           o == <<e>>
           m == l \o o
           r == SubSeq(s, i, Len(s))
<1>0. Len(s) \in Nat /\ i \in Nat
  BY LenProperties
<1>1. /\ l \in Seq(S) /\ Len(l) = i - 1
      /\ \A k \in 1 .. (i - 1) : l[k] = s[k]
  BY SubSeqProperties
<1>2. /\ r \in Seq(S) /\ Len(r) = Len(s) - i + 1
      /\ \A k \in 1 .. (Len(s) - i + 1) : r[k] = s[i + k - 1]
  BY SubSeqProperties
<1>3. o \in Seq(S) /\ Len(o) = 1 /\ o[1] = e
  OBVIOUS
<1>4. InsertAt(s, i, e) = m \o r
  BY DEF InsertAt
<1> HIDE DEF l, o, r
<1>5. /\ m \in Seq(S) /\ Len(m) = i
      /\ \A k \in 1 .. i : m[k] = IF k <= i - 1 THEN l[k] ELSE o[k - (i - 1)]
  <2>1. /\ l \o o \in Seq(S) /\ Len(l \o o) = Len(l) + Len(o)
        /\ \A k \in 1 .. (Len(l) + Len(o)) :
             (l \o o)[k] = IF k <= Len(l) THEN l[k] ELSE o[k - Len(l)]
    BY <1>1, <1>3, ConcatProperties
  <2>2. Len(l) + Len(o) = i
    BY <1>1, <1>3
  <2> QED
    BY <2>1, <2>2, <1>1
<1> HIDE DEF m
<1>6. /\ m \o r \in Seq(S) /\ Len(m \o r) = Len(s) + 1
      /\ \A k \in 1 .. (Len(s) + 1) : (m \o r)[k] = IF k <= i THEN m[k] ELSE r[k - i]
  <2>1. /\ m \o r \in Seq(S) /\ Len(m \o r) = Len(m) + Len(r)
        /\ \A k \in 1 .. (Len(m) + Len(r)) :
             (m \o r)[k] = IF k <= Len(m) THEN m[k] ELSE r[k - Len(m)]
    BY <1>2, <1>5, ConcatProperties
  <2>2. Len(m) = i /\ Len(m) + Len(r) = Len(s) + 1
    BY <1>2, <1>5
  <2> QED
    BY <2>1, <2>2
<1> DEFINE t == m \o r
<1> HIDE DEF t
<1>7. ASSUME NEW k \in 1 .. (Len(s) + 1)
      PROVE  t[k] = IF k < i THEN s[k] ELSE IF k = i THEN e ELSE s[k - 1]
  <2>0. t[k] = IF k <= i THEN m[k] ELSE r[k - i]
    BY <1>6 DEF t
  <2>1. CASE k < i
    BY <2>0, <2>1, <1>1, <1>5
  <2>2. CASE k = i
    BY <2>0, <2>2, <1>3, <1>5
  <2>3. CASE k > i
    <3>1. k - i \in 1 .. (Len(s) - i + 1) /\ i + (k - i) - 1 = k - 1
      BY <2>3
    <3> QED
      BY <2>0, <2>3, <3>1, <1>2
  <2> QED
    BY <2>1, <2>2, <2>3, <1>0
<1> QED
  BY <1>4, <1>6, <1>7 DEF t

LEMMA RemoveAtElements ==
  ASSUME NEW S, NEW s \in Seq(S), NEW i \in 1 .. Len(s)
  PROVE  /\ RemoveAt(s, i) \in Seq(S)
         /\ Len(RemoveAt(s, i)) = Len(s) - 1
         /\ \A k \in 1 .. (Len(s) - 1) :
              RemoveAt(s, i)[k] = IF k < i THEN s[k] ELSE s[k + 1]
<1> DEFINE l == SubSeq(s, 1, i - 1)
           r == SubSeq(s, i + 1, Len(s))
<1>0. Len(s) \in Nat /\ i \in Nat
  BY LenProperties
<1>1. /\ l \in Seq(S) /\ Len(l) = i - 1
      /\ \A k \in 1 .. (i - 1) : l[k] = s[k]
  BY SubSeqProperties
<1>2. /\ r \in Seq(S) /\ Len(r) = Len(s) - i
      /\ \A k \in 1 .. (Len(s) - i) : r[k] = s[i + k]
  BY SubSeqProperties
<1>3. RemoveAt(s, i) = l \o r
  BY DEF RemoveAt
<1> HIDE DEF l, r
<1>4. /\ l \o r \in Seq(S) /\ Len(l \o r) = Len(s) - 1
      /\ \A k \in 1 .. (Len(s) - 1) :
           (l \o r)[k] = IF k <= i - 1 THEN l[k] ELSE r[k - (i - 1)]
  <2>1. /\ l \o r \in Seq(S) /\ Len(l \o r) = Len(l) + Len(r)
        /\ \A k \in 1 .. (Len(l) + Len(r)) :
             (l \o r)[k] = IF k <= Len(l) THEN l[k] ELSE r[k - Len(l)]
    BY <1>1, <1>2, ConcatProperties
  <2>2. Len(l) + Len(r) = Len(s) - 1
    BY <1>1, <1>2
  <2> QED
    BY <2>1, <2>2, <1>1
<1> DEFINE t == l \o r
<1> HIDE DEF t
<1>5. ASSUME NEW k \in 1 .. (Len(s) - 1)
      PROVE  t[k] = IF k < i THEN s[k] ELSE s[k + 1]
  <2>0. t[k] = IF k <= i - 1 THEN l[k] ELSE r[k - (i - 1)]
    BY <1>4 DEF t
  <2>1. CASE k < i
    BY <2>0, <2>1, <1>1
  <2>2. CASE k >= i
    <3>1. k - (i - 1) \in 1 .. (Len(s) - i) /\ i + (k - (i - 1)) = k + 1
      BY <2>2
    <3> QED
      BY <2>0, <2>2, <3>1, <1>2
  <2> QED
    BY <2>1, <2>2, <1>0
<1> QED
  BY <1>3, <1>4, <1>5 DEF t

LEMMA ReplaceAtElements ==
  ASSUME NEW S, NEW s \in Seq(S), NEW e \in S, NEW i \in 1 .. Len(s)
  PROVE  /\ ReplaceAt(s, i, e) \in Seq(S)
         /\ Len(ReplaceAt(s, i, e)) = Len(s)
         /\ \A k \in 1 .. Len(s) :
              ReplaceAt(s, i, e)[k] = IF k = i THEN e ELSE s[k]
BY ExceptSeq DEF ReplaceAt

LEMMA HeaderNat == Header \in Nat /\ 0 < Header
BY HeapAssumption

LEMMA AddressIsNat == ASSUME NEW a \in Addresses PROVE a \in Nat
<1>1. KERNEL_HEAP_START \in Nat /\ HeapEnd \in Int
  BY HeapAssumption DEF HeapEnd
<1> QED
  BY <1>1 DEF Addresses

LEMMA SizeIsNat == ASSUME NEW n \in 0 .. KERNEL_HEAP_SIZE PROVE n \in Nat
BY HeapAssumption

LEMMA Align16Bounds ==
  ASSUME NEW n \in Nat
  PROVE  /\ align16(n) \in Nat
         /\ n + Align - 1 < WordSize => align16(n) >= n
<1> DEFINE x == (n + Align - 1) % WordSize
           q == x \div Align
<1> USE HeapAssumption
<1>1. x \in Nat /\ (n + Align - 1 < WordSize => x = n + Align - 1)
  OBVIOUS
<1>2. q \in Nat
  BY <1>1
<1>3. x < q * Align + Align
  BY <1>1
<1>4. q * Align \in Nat
  BY <1>2
<1> HIDE DEF x, q
<1>5. align16(n) = q * Align
  BY DEF align16, x, q
<1> QED
  BY <1>1, <1>3, <1>4, <1>5

-----------------------------------------------------------------------------
(* Lists of headers that tile the arena in address order.  Ordered follows *)
(* from the tiling, by induction; as a part of the invariant it needs none. *)

Ordered(bs) ==
  \A i, j \in 1 .. Len(bs) : i < j => EndOf(bs[i]) <= bs[j].addr

TiledList(bs) ==
  /\ bs \in Seq(Block)
  /\ Ordered(bs)
  /\ Len(bs) > 0 =>
       /\ bs[1].addr = KERNEL_HEAP_START
       /\ \A i \in 1 .. (Len(bs) - 1) : bs[i + 1].addr = EndOf(bs[i])
       /\ EndOf(bs[Len(bs)]) = HeapEnd

(* The block in use at pointer p has s bytes. *)
InUse(bs, p, s) ==
  \E k \in 1 .. Len(bs) : ~ bs[k].free /\ Payload(bs[k]) = p /\ bs[k].size = s

LEMMA BlockInArena ==
  ASSUME NEW bs, TiledList(bs), NEW i \in 1 .. Len(bs)
  PROVE  /\ bs[i] \in Block
         /\ bs[i].addr \in Addresses /\ bs[i].size \in Nat /\ bs[i].free \in BOOLEAN
         /\ Payload(bs[i]) \in Nat /\ EndOf(bs[i]) \in Nat
         /\ EndOf(bs[i]) <= HeapEnd
<1>1. bs[i] \in Block /\ bs[Len(bs)] \in Block /\ Len(bs) \in Nat
  BY ElementOfSeq, LenProperties DEF TiledList
<1>2. EndOf(bs[i]) <= HeapEnd
  <2>0. HeapEnd \in Int
    BY HeapAssumption DEF HeapEnd
  <2>1. CASE i = Len(bs)
    <3>1. Len(bs) > 0
      BY <1>1, <2>1
    <3> QED
      BY <2>0, <2>1, <3>1 DEF TiledList
  <2>2. CASE i < Len(bs)
    <3>1. EndOf(bs[i]) <= bs[Len(bs)].addr
      BY <1>1, <2>2 DEF TiledList, Ordered
    <3>2. bs[Len(bs)].addr \in Int /\ bs[Len(bs)].addr < HeapEnd
      BY <1>1, <2>0 DEF Block, Addresses
    <3>3. EndOf(bs[i]) \in Int
      BY <1>1, HeapAssumption DEF Block, Addresses, EndOf
    <3> QED
      BY <2>0, <3>1, <3>2, <3>3
  <2> QED
    BY <1>1, <2>1, <2>2
<1>3. bs[i].addr \in Addresses /\ bs[i].size \in 0 .. KERNEL_HEAP_SIZE /\ bs[i].free \in BOOLEAN
  BY <1>1 DEF Block
<1>4. bs[i].addr \in Nat /\ bs[i].size \in Nat
  BY <1>3, AddressIsNat, SizeIsNat
<1>5. Payload(bs[i]) \in Nat /\ EndOf(bs[i]) \in Nat
  BY <1>4, HeaderNat DEF Payload, EndOf
<1> QED
  BY <1>1, <1>2, <1>3, <1>4, <1>5

LEMMA SamePayload ==
  ASSUME NEW b, NEW c, b.addr \in Nat, c.addr \in Nat, Payload(b) = Payload(c)
  PROVE  b.addr = c.addr
<1>1. b.addr + Header = c.addr + Header
  BY DEF Payload
<1> QED
  BY <1>1, HeaderNat

(* Blocks at different places have different payloads, so IndexOf finds    *)
(* the block it is asked for.                                              *)
LEMMA PayloadsDiffer ==
  ASSUME NEW bs, TiledList(bs), NEW i \in 1 .. Len(bs), NEW j \in 1 .. Len(bs),
         Payload(bs[i]) = Payload(bs[j])
  PROVE  i = j
<1>1. SUFFICES ASSUME NEW a \in 1 .. Len(bs), NEW b \in 1 .. Len(bs), a < b,
                      Payload(bs[a]) = Payload(bs[b])
               PROVE  FALSE
  BY LenProperties DEF TiledList
<1>2. EndOf(bs[a]) <= bs[b].addr
  BY <1>1 DEF TiledList, Ordered
<1>3. /\ bs[a].addr \in Nat /\ bs[a].size \in Nat /\ bs[b].addr \in Nat
  <2>1. bs[a].addr \in Addresses /\ bs[a].size \in Nat
    BY <1>1, BlockInArena
  <2>2. bs[b].addr \in Addresses
    BY <1>1, BlockInArena
  <2> QED
    BY <2>1, <2>2, AddressIsNat
<1>4. bs[a].addr = bs[b].addr
  BY <1>1, <1>3, SamePayload
<1>5. bs[a].addr + Header + bs[a].size <= bs[b].addr
  BY <1>2 DEF EndOf
<1> QED
  BY <1>3, <1>4, <1>5, HeaderNat

LEMMA IndexOfPayload ==
  ASSUME NEW bs, TiledList(bs), NEW i \in 1 .. Len(bs)
  PROVE  IndexOf(bs, Payload(bs[i])) = i
<1>1. DOMAIN bs = 1 .. Len(bs)
  BY LenProperties DEF TiledList
<1> QED
  BY <1>1, PayloadsDiffer DEF IndexOf

-----------------------------------------------------------------------------
(* The three ways the code changes the list keep it a tiling: a block is   *)
(* divided (heap.cpp:63-72), a block absorbs its successor (90-93), and    *)
(* the flag of a block changes.                                            *)

LEMMA DivideTiled ==
  ASSUME NEW bs, TiledList(bs), NEW t \in Seq(Block), NEW i \in 1 .. Len(bs),
         Len(t) = Len(bs) + 1,
         \A k \in 1 .. (i - 1) : t[k] = bs[k],
         \A k \in (i + 2) .. Len(t) : t[k] = bs[k - 1],
         t[i].addr = bs[i].addr,
         t[i + 1].addr = EndOf(t[i]),
         EndOf(t[i + 1]) = EndOf(bs[i])
  PROVE  TiledList(t)
<1>1. /\ Len(bs) \in Nat /\ i \in Nat
      /\ \A k \in 1 .. Len(bs) : bs[k].addr \in Int /\ EndOf(bs[k]) \in Int
  BY BlockInArena, LenProperties DEF TiledList, Addresses
<1>2. ASSUME NEW k \in 1 .. Len(t)
      PROVE  t[k].addr \in Int /\ EndOf(t[k]) \in Int /\ t[k].addr <= EndOf(t[k])
  <2>1. t[k] \in Block
    BY ElementOfSeq
  <2>2. t[k].addr \in Int /\ t[k].size \in Nat
    BY <2>1 DEF Block, Addresses
  <2> QED
    BY <2>2, HeaderNat DEF EndOf
<1>3. Ordered(t)
  <2> SUFFICES ASSUME NEW a \in 1 .. Len(t), NEW b \in 1 .. Len(t), a < b
               PROVE  EndOf(t[a]) <= t[b].addr
    BY DEF Ordered
  <2>0. \A j, k \in 1 .. Len(bs) : j < k => EndOf(bs[j]) <= bs[k].addr
    BY DEF TiledList, Ordered
  <2>1. CASE b < i
    BY <1>1, <2>0, <2>1
  <2>2. CASE b = i
    BY <1>1, <2>0, <2>2
  <2>3. CASE b = i + 1
    <3>1. CASE a = i
      <4>1. t[b].addr = EndOf(t[a])
        BY <2>3, <3>1
      <4> QED
        BY <4>1, <1>2
    <3>2. CASE a < i
      <4>1. t[a] = bs[a] /\ EndOf(bs[a]) <= bs[i].addr
        <5>1. a \in 1 .. (i - 1) /\ a \in 1 .. Len(bs)
          BY <1>1, <3>2
        <5> QED
          BY <2>0, <3>2, <5>1
      <4>2. t[i].addr <= EndOf(t[i]) /\ t[i].addr \in Int /\ EndOf(t[i]) \in Int
        BY <1>1, <1>2
      <4>3. EndOf(bs[a]) \in Int
        BY <1>1, <3>2
      <4> QED
        BY <2>3, <4>1, <4>2, <4>3
    <3> QED
      BY <1>1, <2>3, <3>1, <3>2
  <2>4. CASE b > i + 1
    <3>1. t[b] = bs[b - 1] /\ b - 1 \in 1 .. Len(bs) /\ i < b - 1
      BY <1>1, <2>4
    <3>2. EndOf(bs[i]) <= t[b].addr
      BY <2>0, <3>1
    <3>3. CASE a < i
      <4>1. t[a] = bs[a] /\ a \in 1 .. Len(bs) /\ a < b - 1
        BY <1>1, <3>1, <3>3
      <4> QED
        BY <2>0, <3>1, <4>1
    <3>4. CASE a = i
      <4>1. EndOf(t[i]) = t[i + 1].addr /\ EndOf(t[i + 1]) = EndOf(bs[i])
        OBVIOUS
      <4>2. i \in 1 .. Len(t) /\ i + 1 \in 1 .. Len(t) /\ b \in 1 .. Len(t)
        BY <1>1
      <4>3. /\ t[i + 1].addr \in Int /\ EndOf(t[i + 1]) \in Int /\ t[b].addr \in Int
            /\ t[i + 1].addr <= EndOf(t[i + 1])
        BY <1>2, <4>2
      <4> QED
        BY <3>2, <3>4, <4>1, <4>3
    <3>5. CASE a = i + 1
      BY <3>2, <3>5
    <3>6. CASE a > i + 1
      <4>1. t[a] = bs[a - 1] /\ a - 1 \in 1 .. Len(bs) /\ a - 1 < b - 1
        BY <1>1, <3>6
      <4> QED
        BY <2>0, <3>1, <4>1
    <3> QED
      BY <1>1, <3>3, <3>4, <3>5, <3>6
  <2> QED
    BY <1>1, <2>1, <2>2, <2>3, <2>4
<1>4. t[1].addr = KERNEL_HEAP_START
  BY <1>1 DEF TiledList
<1>5. ASSUME NEW k \in 1 .. (Len(t) - 1)
      PROVE  t[k + 1].addr = EndOf(t[k])
  <2>0. \A j \in 1 .. (Len(bs) - 1) : bs[j + 1].addr = EndOf(bs[j])
    BY <1>1 DEF TiledList
  <2>1. CASE k < i
    BY <1>1, <2>0, <2>1
  <2>2. CASE k = i
    BY <2>2
  <2>3. CASE k = i + 1
    <3>1. t[k + 1] = bs[i + 1] /\ i \in 1 .. (Len(bs) - 1)
      BY <1>1, <2>3
    <3> QED
      BY <2>0, <2>3, <3>1
  <2>4. CASE k > i + 1
    <3>1. t[k + 1] = bs[(k - 1) + 1] /\ t[k] = bs[k - 1] /\ k - 1 \in 1 .. (Len(bs) - 1)
      BY <1>1, <2>4
    <3> QED
      BY <2>0, <3>1
  <2> QED
    BY <1>1, <2>1, <2>2, <2>3, <2>4
<1>6. EndOf(t[Len(t)]) = HeapEnd
  <2>1. CASE i = Len(bs)
    BY <1>1, <2>1 DEF TiledList
  <2>2. CASE i < Len(bs)
    <3>1. t[Len(t)] = bs[Len(bs)]
      BY <1>1, <2>2
    <3> QED
      BY <1>1, <3>1 DEF TiledList
  <2> QED
    BY <1>1, <2>1, <2>2
<1> QED
  BY <1>3, <1>4, <1>5, <1>6 DEF TiledList

LEMMA AbsorbTiled ==
  ASSUME NEW bs, TiledList(bs), NEW t \in Seq(Block), NEW i \in 1 .. (Len(bs) - 1),
         Len(t) = Len(bs) - 1,
         \A k \in 1 .. (i - 1) : t[k] = bs[k],
         \A k \in (i + 1) .. Len(t) : t[k] = bs[k + 1],
         t[i].addr = bs[i].addr,
         EndOf(t[i]) = EndOf(bs[i + 1])
  PROVE  TiledList(t)
<1>1. /\ Len(bs) \in Nat /\ i \in Nat
      /\ \A k \in 1 .. Len(bs) : bs[k].addr \in Int /\ EndOf(bs[k]) \in Int
  <2>1. Len(bs) \in Nat
    BY LenProperties DEF TiledList
  <2> QED
    BY <2>1, BlockInArena DEF Addresses
<1>2. Ordered(t)
  <2> SUFFICES ASSUME NEW a \in 1 .. Len(t), NEW b \in 1 .. Len(t), a < b
               PROVE  EndOf(t[a]) <= t[b].addr
    BY DEF Ordered
  <2>0. \A j, k \in 1 .. Len(bs) : j < k => EndOf(bs[j]) <= bs[k].addr
    BY DEF TiledList, Ordered
  <2>1. CASE b < i
    <3>1. a \in 1 .. (i - 1) /\ b \in 1 .. (i - 1)
      BY <1>1, <2>1
    <3>2. /\ t[a] = bs[a] /\ t[b] = bs[b]
          /\ a \in 1 .. Len(bs) /\ b \in 1 .. Len(bs)
      BY <1>1, <3>1
    <3> QED
      BY <2>0, <3>2
  <2>2. CASE b = i
    BY <1>1, <2>0, <2>2
  <2>3. CASE b > i
    <3>1. t[b] = bs[b + 1] /\ b + 1 \in 1 .. Len(bs)
      BY <1>1, <2>3
    <3>2. CASE a < i
      <4>1. t[a] = bs[a] /\ a \in 1 .. Len(bs) /\ a < b + 1
        BY <1>1, <2>3, <3>2
      <4> QED
        BY <2>0, <3>1, <4>1
    <3>3. CASE a = i
      <4>1. i + 1 \in 1 .. Len(bs) /\ i + 1 < b + 1
        BY <1>1, <2>3
      <4>2. EndOf(bs[i + 1]) <= bs[b + 1].addr
        BY <2>0, <3>1, <4>1
      <4> QED
        BY <3>1, <3>3, <4>2
    <3>4. CASE a > i
      <4>1. a \in (i + 1) .. Len(t) /\ a + 1 \in 1 .. Len(bs) /\ a + 1 < b + 1
        BY <1>1, <3>4
      <4>2. t[a] = bs[a + 1]
        BY <4>1
      <4> QED
        BY <2>0, <3>1, <4>1, <4>2
    <3> QED
      BY <1>1, <3>2, <3>3, <3>4
  <2> QED
    BY <1>1, <2>1, <2>2, <2>3
<1>3. t[1].addr = KERNEL_HEAP_START
  BY <1>1 DEF TiledList
<1>4. ASSUME NEW k \in 1 .. (Len(t) - 1)
      PROVE  t[k + 1].addr = EndOf(t[k])
  <2>0. \A j \in 1 .. (Len(bs) - 1) : bs[j + 1].addr = EndOf(bs[j])
    BY <1>1 DEF TiledList
  <2>1. CASE k < i
    BY <1>1, <2>0, <2>1
  <2>2. CASE k = i
    <3>1. t[k + 1] = bs[(i + 1) + 1] /\ i + 1 \in 1 .. (Len(bs) - 1)
      BY <1>1, <2>2
    <3> QED
      BY <2>0, <2>2, <3>1
  <2>3. CASE k > i
    <3>1. t[k + 1] = bs[(k + 1) + 1] /\ t[k] = bs[k + 1] /\ k + 1 \in 1 .. (Len(bs) - 1)
      BY <1>1, <2>3
    <3> QED
      BY <2>0, <3>1
  <2> QED
    BY <1>1, <2>1, <2>2, <2>3
<1>5. EndOf(t[Len(t)]) = HeapEnd
  <2>1. CASE i = Len(bs) - 1
    BY <1>1, <2>1 DEF TiledList
  <2>2. CASE i < Len(bs) - 1
    <3>1. t[Len(t)] = bs[Len(bs)]
      <4>1. Len(t) \in (i + 1) .. Len(t) /\ Len(t) + 1 = Len(bs)
        BY <1>1, <2>2
      <4>2. t[Len(t)] = bs[Len(t) + 1]
        BY <4>1
      <4> QED
        BY <4>1, <4>2
    <3> QED
      BY <1>1, <3>1 DEF TiledList
  <2> QED
    BY <1>1, <2>1, <2>2
<1> QED
  BY <1>2, <1>3, <1>4, <1>5 DEF TiledList

LEMMA FlagTiled ==
  ASSUME NEW bs, TiledList(bs), NEW t \in Seq(Block), Len(t) = Len(bs),
         \A k \in 1 .. Len(bs) : t[k].addr = bs[k].addr /\ t[k].size = bs[k].size
  PROVE  TiledList(t)
<1>1. Len(bs) \in Nat /\ \A k \in 1 .. Len(bs) : EndOf(t[k]) = EndOf(bs[k])
  BY LenProperties DEF EndOf, TiledList
<1>2. Ordered(t)
  BY <1>1 DEF TiledList, Ordered
<1>3. CASE Len(bs) > 0
  <2>1. Len(bs) \in 1 .. Len(bs) /\ 1 \in 1 .. Len(bs)
    BY <1>1, <1>3
  <2>2. \A k \in 1 .. (Len(bs) - 1) : k \in 1 .. Len(bs) /\ k + 1 \in 1 .. Len(bs)
    BY <1>1
  <2> QED
    BY <1>1, <1>2, <1>3, <2>1, <2>2 DEF TiledList
<1>4. CASE Len(bs) = 0
  BY <1>2, <1>4 DEF TiledList
<1> QED
  BY <1>1, <1>3, <1>4

-----------------------------------------------------------------------------
(* What handing out a block and giving one back do to the list, and to the *)
(* set of blocks in use.                                                   *)

(* The two parts of a block that is split (heap.cpp:64-71). *)
HandedPart(b, n) == [addr |-> b.addr, size |-> n, free |-> FALSE]

LEMMA CarveParts ==
  ASSUME NEW bs, TiledList(bs), NEW i \in 1 .. Len(bs), NEW n \in Nat,
         CanSplit(bs[i], n)
  PROVE  LET head == HandedPart(bs[i], n)
             rest == Rest(bs[i], n)
         IN  /\ head \in Block /\ head.addr = bs[i].addr /\ head.size = n /\ ~ head.free
             /\ Payload(head) = Payload(bs[i])
             /\ rest \in Block /\ rest.free
             /\ rest.addr = EndOf(head) /\ EndOf(rest) = EndOf(bs[i])
<1> DEFINE head == HandedPart(bs[i], n)
           rest == Rest(bs[i], n)
<1>b. /\ bs[i] \in Block /\ bs[i].addr \in Addresses /\ bs[i].size \in Nat
      /\ bs[i].size <= KERNEL_HEAP_SIZE /\ EndOf(bs[i]) <= HeapEnd
  BY BlockInArena DEF Block
<1>a. n <= bs[i].size
  <2>1. bs[i].size >= n + Header + Align /\ Header \in Nat /\ Align \in Nat
    BY HeapAssumption DEF CanSplit
  <2> QED
    BY <2>1, <1>b
<1>2. /\ head \in Block /\ head.addr = bs[i].addr /\ head.size = n /\ ~ head.free
      /\ Payload(head) = Payload(bs[i])
  <2>1. n \in 0 .. KERNEL_HEAP_SIZE
    BY <1>a, <1>b, HeapAssumption
  <2> QED
    BY <1>b, <2>1 DEF Block, Payload, HandedPart
<1>3. /\ rest \in Block /\ rest.free
      /\ rest.addr = EndOf(head) /\ EndOf(rest) = EndOf(bs[i])
  <2>1. bs[i].size >= n + Header + Align
    BY DEF CanSplit
  <2>2. bs[i].addr \in Nat /\ KERNEL_HEAP_START <= bs[i].addr /\ HeapEnd \in Int
    BY <1>b, HeapAssumption DEF Addresses, HeapEnd
  <2>3. bs[i].addr + Header + bs[i].size <= HeapEnd
    BY <1>b DEF EndOf
  <2>4. bs[i].addr + Header + n \in Addresses
    <3> DEFINE x == bs[i].addr + Header + n
    <3>1. x \in Nat /\ KERNEL_HEAP_START <= x
      BY <2>2, HeapAssumption
    <3>2. x < HeapEnd
      BY <2>1, <2>2, <2>3, <1>b, HeapAssumption
    <3> HIDE DEF x
    <3>3. x \in Addresses
      <4>1. KERNEL_HEAP_START \in Int
        BY HeapAssumption
      <4> QED
        BY <2>2, <3>1, <3>2, <4>1 DEF Addresses
    <3> QED
      BY <3>3 DEF x
  <2>5. bs[i].size - n - Header \in 0 .. KERNEL_HEAP_SIZE
    <3>1. Header \in Nat /\ Align \in Nat /\ KERNEL_HEAP_SIZE \in Nat
      BY HeapAssumption
    <3> QED
      BY <2>1, <1>b, <3>1
  <2>6. rest \in Block /\ rest.free
    BY <2>4, <2>5 DEF Rest, Block
  <2>7. rest.addr = bs[i].addr + Header + n /\ rest.size = bs[i].size - n - Header
    BY DEF Rest
  <2>8. Header \in Nat /\ n \in Nat
    BY HeaderNat, HeapAssumption
  <2> QED
    BY <1>2, <2>2, <2>6, <2>7, <2>8, <1>b DEF EndOf
<1> QED
  BY <1>2, <1>3

LEMMA CarveSplits ==
  ASSUME NEW bs, TiledList(bs), NEW i \in 1 .. Len(bs), NEW n \in Nat,
         CanSplit(bs[i], n)
  PROVE  LET t == Carve(bs, i, n)
         IN  /\ t \in Seq(Block) /\ Len(t) = Len(bs) + 1
             /\ t[i] = HandedPart(bs[i], n) /\ t[i + 1] = Rest(bs[i], n)
             /\ \A k \in 1 .. (i - 1) : t[k] = bs[k]
             /\ \A k \in (i + 2) .. (Len(bs) + 1) : t[k] = bs[k - 1]
<1> DEFINE head == HandedPart(bs[i], n)
           rest == Rest(bs[i], n)
           u == ReplaceAt(bs, i, head)
           t == InsertAt(u, i + 1, rest)
<1>0. /\ Len(bs) \in Nat /\ bs \in Seq(Block) /\ i \in Nat
  BY LenProperties DEF TiledList
<1>1. Carve(bs, i, n) = t
  BY DEF Carve, HandedPart
<1>2. head \in Block
  BY CarveParts
<1>3. rest \in Block
  BY CarveParts
<1> HIDE DEF head, rest
<1>4. /\ u \in Seq(Block) /\ Len(u) = Len(bs)
      /\ \A k \in 1 .. Len(bs) : u[k] = IF k = i THEN head ELSE bs[k]
  BY <1>0, <1>2, ReplaceAtElements
<1> HIDE DEF u
<1>5. /\ t \in Seq(Block) /\ Len(t) = Len(u) + 1
      /\ \A k \in 1 .. (Len(u) + 1) :
           t[k] = IF k < i + 1 THEN u[k] ELSE IF k = i + 1 THEN rest ELSE u[k - 1]
  <2>1. i + 1 \in 1 .. (Len(u) + 1)
    BY <1>0, <1>4
  <2>2. rest \in Block /\ u \in Seq(Block)
    BY <1>3, <1>4
  <2> QED
    <3> DEFINE j == i + 1
    <3>1. j \in 1 .. (Len(u) + 1)
      BY <2>1
    <3> HIDE DEF j
    <3>2. /\ InsertAt(u, j, rest) \in Seq(Block)
          /\ Len(InsertAt(u, j, rest)) = Len(u) + 1
          /\ \A k \in 1 .. (Len(u) + 1) :
               InsertAt(u, j, rest)[k] = IF k < j THEN u[k]
                                         ELSE IF k = j THEN rest ELSE u[k - 1]
      BY <2>2, <3>1, InsertAtElements, SMTT(30)
    <3> QED
      BY <3>2 DEF j
<1> HIDE DEF t
<1>6. /\ t[i] = head /\ t[i + 1] = rest
      /\ \A k \in 1 .. (i - 1) : t[k] = bs[k]
      /\ \A k \in (i + 2) .. Len(t) : t[k] = bs[k - 1]
  <2>1. t[i] = head /\ t[i + 1] = rest
    BY <1>0, <1>4, <1>5
  <2>2. ASSUME NEW k \in 1 .. (i - 1)
        PROVE  t[k] = bs[k]
    <3>1. k \in 1 .. (Len(u) + 1) /\ k < i + 1 /\ k \in 1 .. Len(bs) /\ k # i
      BY <1>0, <1>4
    <3> QED
      BY <1>4, <1>5, <3>1
  <2>3. ASSUME NEW k \in (i + 2) .. Len(t)
        PROVE  t[k] = bs[k - 1]
    <3>1. k \in 1 .. (Len(u) + 1) /\ k > i + 1 /\ k - 1 \in 1 .. Len(bs) /\ k - 1 # i
      BY <1>0, <1>4, <1>5
    <3>2. t[k] = u[k - 1]
      BY <1>0, <1>5, <3>1
    <3>3. u[k - 1] = bs[k - 1]
      BY <1>4, <3>1
    <3> QED
      BY <3>2, <3>3
  <2> QED
    BY <2>1, <2>2, <2>3
<1>7. Len(t) = Len(bs) + 1
  BY <1>4, <1>5
<1>8. \A k \in (i + 2) .. (Len(bs) + 1) : t[k] = bs[k - 1]
  BY <1>6, <1>7
<1> QED
  BY <1>1, <1>5, <1>6, <1>7, <1>8, Zenon DEF head, rest

LEMMA CarveTakes ==
  ASSUME NEW bs, TiledList(bs), NEW i \in 1 .. Len(bs), NEW n, ~ CanSplit(bs[i], n)
  PROVE  LET t == Carve(bs, i, n)
         IN  /\ t \in Seq(Block) /\ Len(t) = Len(bs)
             /\ t[i].addr = bs[i].addr /\ t[i].size = bs[i].size /\ ~ t[i].free
             /\ \A k \in 1 .. Len(bs) : k # i => t[k] = bs[k]
<1> DEFINE e == [bs[i] EXCEPT !.free = FALSE]
<1>1. Carve(bs, i, n) = ReplaceAt(bs, i, e)
  BY DEF Carve
<1>2. e \in Block /\ e.addr = bs[i].addr /\ e.size = bs[i].size /\ ~ e.free
  BY BlockInArena DEF Block
<1> HIDE DEF e
<1>3. bs \in Seq(Block)
  BY DEF TiledList
<1> QED
  BY <1>1, <1>2, <1>3, ReplaceAtElements

LEMMA CarveOutcome ==
  ASSUME NEW bs, TiledList(bs), NEW i \in 1 .. Len(bs), bs[i].free,
         NEW n \in Nat, n <= bs[i].size
  PROVE  /\ TiledList(Carve(bs, i, n))
         /\ \E m \in Nat :
              /\ m >= n
              /\ \A p, s : InUse(Carve(bs, i, n), p, s)
                             <=> InUse(bs, p, s) \/ (p = Payload(bs[i]) /\ s = m)
<1>0. /\ Len(bs) \in Nat /\ bs \in Seq(Block) /\ i \in Nat
  BY LenProperties DEF TiledList
<1>b. /\ bs[i] \in Block /\ bs[i].addr \in Addresses /\ bs[i].size \in Nat
      /\ bs[i].size <= KERNEL_HEAP_SIZE /\ EndOf(bs[i]) <= HeapEnd
  BY BlockInArena DEF Block
<1>1. CASE CanSplit(bs[i], n)
  <2> DEFINE head == HandedPart(bs[i], n)
             rest == Rest(bs[i], n)
             t == Carve(bs, i, n)
  <2>2. /\ head \in Block /\ head.addr = bs[i].addr /\ head.size = n /\ ~ head.free
        /\ Payload(head) = Payload(bs[i])
        /\ rest \in Block /\ rest.free
        /\ rest.addr = EndOf(head) /\ EndOf(rest) = EndOf(bs[i])
    BY <1>1, CarveParts
  <2>6. /\ t \in Seq(Block) /\ Len(t) = Len(bs) + 1
        /\ t[i] = head /\ t[i + 1] = rest
        /\ \A k \in 1 .. (i - 1) : t[k] = bs[k]
        /\ \A k \in (i + 2) .. Len(t) : t[k] = bs[k - 1]
    <3>1. /\ t \in Seq(Block) /\ Len(t) = Len(bs) + 1
          /\ t[i] = head /\ t[i + 1] = rest
          /\ \A k \in 1 .. (i - 1) : t[k] = bs[k]
          /\ \A k \in (i + 2) .. (Len(bs) + 1) : t[k] = bs[k - 1]
      BY <1>1, CarveSplits
    <3> QED
      BY <3>1
  <2> HIDE DEF head, rest, t
  <2>7. TiledList(t)
    BY <2>2, <2>6, DivideTiled
  <2>8. ASSUME NEW p, NEW s
        PROVE  InUse(t, p, s) <=> InUse(bs, p, s) \/ (p = Payload(bs[i]) /\ s = n)
    <3>1. ASSUME InUse(t, p, s)
          PROVE  InUse(bs, p, s) \/ (p = Payload(bs[i]) /\ s = n)
      <4>1. PICK k \in 1 .. Len(t) : ~ t[k].free /\ Payload(t[k]) = p /\ t[k].size = s
        BY <3>1 DEF InUse
      <4>2. CASE k < i
        <5>1. k \in 1 .. Len(bs) /\ t[k] = bs[k]
          BY <1>0, <2>6, <4>2
        <5> QED
          BY <4>1, <5>1 DEF InUse
      <4>3. CASE k = i
        BY <2>2, <2>6, <4>1, <4>3
      <4>4. CASE k = i + 1
        BY <2>2, <2>6, <4>1, <4>4
      <4>5. CASE k > i + 1
        <5>1. k - 1 \in 1 .. Len(bs) /\ t[k] = bs[k - 1]
          BY <1>0, <2>6, <4>5
        <5> QED
          BY <4>1, <5>1 DEF InUse
      <4> QED
        BY <1>0, <2>6, <4>2, <4>3, <4>4, <4>5
    <3>2. ASSUME InUse(bs, p, s)
          PROVE  InUse(t, p, s)
      <4>1. PICK k \in 1 .. Len(bs) : ~ bs[k].free /\ Payload(bs[k]) = p /\ bs[k].size = s
        BY <3>2 DEF InUse
      <4>2. CASE k < i
        <5>1. k \in 1 .. Len(t) /\ t[k] = bs[k]
          BY <1>0, <2>6, <4>2
        <5> QED
          BY <4>1, <5>1 DEF InUse
      <4>3. CASE k = i
        BY <4>1, <4>3
      <4>4. CASE k > i
        <5>1. k + 1 \in 1 .. Len(t) /\ t[k + 1] = bs[k]
          BY <1>0, <2>6, <4>4
        <5> QED
          BY <4>1, <5>1 DEF InUse
      <4> QED
        BY <1>0, <4>2, <4>3, <4>4
    <3>3. ASSUME p = Payload(bs[i]), s = n
          PROVE  InUse(t, p, s)
      <4>1. i \in 1 .. Len(t)
        BY <1>0, <2>6
      <4> QED
        BY <2>2, <2>6, <3>3, <4>1 DEF InUse
    <3> QED
      BY <3>1, <3>2, <3>3
  <2> QED
    BY <2>7, <2>8 DEF t
<1>2. CASE ~ CanSplit(bs[i], n)
  <2> DEFINE t == Carve(bs, i, n)
  <2>1. /\ t \in Seq(Block) /\ Len(t) = Len(bs)
        /\ t[i].addr = bs[i].addr /\ t[i].size = bs[i].size /\ ~ t[i].free
        /\ \A k \in 1 .. Len(bs) : k # i => t[k] = bs[k]
    BY <1>2, CarveTakes
  <2> HIDE DEF t
  <2>2. TiledList(t)
    BY <2>1, FlagTiled
  <2>3. Payload(t[i]) = Payload(bs[i])
    BY <2>1 DEF Payload
  <2>4. ASSUME NEW p, NEW s
        PROVE  InUse(t, p, s) <=> InUse(bs, p, s) \/ (p = Payload(bs[i]) /\ s = bs[i].size)
    BY <2>1, <2>3 DEF InUse
  <2> QED
    BY <1>b, <2>2, <2>4 DEF t
<1> QED
  BY <1>1, <1>2

(* What a block becomes when it absorbs its successor (heap.cpp:91-92). *)
Merged(b, c) == [addr |-> b.addr, size |-> Absorb(b, c), free |-> TRUE]

LEMMA ReleaseMerges ==
  ASSUME NEW bs, TiledList(bs), NEW i \in 1 .. Len(bs), MergesNext(bs, i)
  PROVE  LET t == Release(bs, i)
             big == Merged(bs[i], bs[i + 1])
         IN  /\ big \in Block /\ big.addr = bs[i].addr /\ big.free
             /\ EndOf(big) = EndOf(bs[i + 1])
             /\ i \in 1 .. (Len(bs) - 1)
             /\ t \in Seq(Block) /\ Len(t) = Len(bs) - 1 /\ t[i] = big
             /\ \A k \in 1 .. (i - 1) : t[k] = bs[k]
             /\ \A k \in (i + 1) .. (Len(bs) - 1) : t[k] = bs[k + 1]
<1> DEFINE f == [bs[i] EXCEPT !.free = TRUE]
           freed == ReplaceAt(bs, i, f)
<1>0. /\ Len(bs) \in Nat /\ bs \in Seq(Block) /\ i \in Nat
  BY LenProperties DEF TiledList
<1>b. /\ bs[i] \in Block /\ bs[i].addr \in Addresses /\ bs[i].size \in Nat
      /\ EndOf(bs[i]) <= HeapEnd
  BY BlockInArena
<1>1. f \in Block /\ f.addr = bs[i].addr /\ f.size = bs[i].size /\ f.free
  BY <1>b DEF Block
<1> HIDE DEF f
<1>2. /\ freed \in Seq(Block) /\ Len(freed) = Len(bs)
      /\ \A k \in 1 .. Len(bs) : freed[k] = IF k = i THEN f ELSE bs[k]
  BY <1>0, <1>1, ReplaceAtElements
<1> HIDE DEF freed
<1> DEFINE big == Merged(bs[i], bs[i + 1])
           w == ReplaceAt(freed, i, big)
           t == RemoveAt(w, i + 1)
<1>3. Release(bs, i) = t
  BY DEF Release, freed, f, Merged
<1>4. i \in 1 .. (Len(bs) - 1) /\ i + 1 \in 1 .. Len(bs) /\ bs[i + 1].free
  BY <1>0 DEF MergesNext
<1>5. /\ big \in Block /\ big.addr = bs[i].addr /\ big.free
      /\ EndOf(big) = EndOf(bs[i + 1])
  <2>1. bs[i + 1].addr = EndOf(bs[i])
    BY <1>0, <1>4 DEF TiledList
  <2>2. /\ bs[i + 1].size \in Nat /\ bs[i + 1].addr \in Int
        /\ EndOf(bs[i + 1]) <= HeapEnd
    BY <1>4, BlockInArena DEF Addresses
  <2>3. /\ bs[i].addr \in Nat /\ KERNEL_HEAP_START <= bs[i].addr
    BY <1>b, HeapAssumption DEF Addresses
  <2>4. bs[i].addr + Header + Absorb(bs[i], bs[i + 1]) = EndOf(bs[i + 1])
    <3>1. bs[i + 1].addr = bs[i].addr + Header + bs[i].size
      BY <2>1 DEF EndOf
    <3>2. EndOf(bs[i + 1]) = bs[i + 1].addr + Header + bs[i + 1].size
      BY DEF EndOf
    <3>3. Absorb(bs[i], bs[i + 1]) = bs[i].size + bs[i + 1].size + Header
      BY DEF Absorb
    <3>4. /\ bs[i].addr \in Int /\ bs[i].size \in Int
          /\ bs[i + 1].addr \in Int /\ bs[i + 1].size \in Int
      BY <2>2, <2>3, <1>b
    <3> QED
      BY <3>1, <3>2, <3>3, <3>4, HeaderNat, SMTT(30)
  <2>5. Absorb(bs[i], bs[i + 1]) \in 0 .. KERNEL_HEAP_SIZE
    <3> DEFINE x == Absorb(bs[i], bs[i + 1])
    <3>0. x = bs[i].size + bs[i + 1].size + Header
      BY DEF Absorb
    <3> HIDE DEF x
    <3>1. x \in Nat
      <4>1. bs[i].size \in Nat /\ bs[i + 1].size \in Nat
        BY <2>2, <1>b
      <4> QED
        BY <3>0, <4>1, HeaderNat
    <3>2. bs[i].addr + Header + x <= KERNEL_HEAP_START + KERNEL_HEAP_SIZE
      BY <2>2, <2>4, HeapAssumption DEF HeapEnd, x
    <3>3. x <= KERNEL_HEAP_SIZE
      BY <2>3, <3>1, <3>2, HeapAssumption
    <3> QED
      BY <3>1, <3>3, HeapAssumption DEF x
  <2> QED
    BY <1>b, <2>4, <2>5 DEF Block, EndOf, Merged
<1> HIDE DEF big
<1>6. /\ w \in Seq(Block) /\ Len(w) = Len(bs)
      /\ \A k \in 1 .. Len(bs) : w[k] = IF k = i THEN big ELSE bs[k]
  <2>1. /\ w \in Seq(Block) /\ Len(w) = Len(freed)
        /\ \A k \in 1 .. Len(freed) : w[k] = IF k = i THEN big ELSE freed[k]
    BY <1>2, <1>5, ReplaceAtElements
  <2> HIDE DEF w
  <2> QED
    BY <1>2, <2>1
<1> HIDE DEF w
<1>7. /\ t \in Seq(Block) /\ Len(t) = Len(w) - 1
      /\ \A k \in 1 .. (Len(w) - 1) : t[k] = IF k < i + 1 THEN w[k] ELSE w[k + 1]
  <2>1. i + 1 \in 1 .. Len(w)
    BY <1>4, <1>6
  <2> QED
    BY <1>6, <2>1, RemoveAtElements
<1> HIDE DEF t
<1>8. /\ Len(t) = Len(bs) - 1
      /\ t[i] = big
      /\ \A k \in 1 .. (i - 1) : t[k] = bs[k]
      /\ \A k \in (i + 1) .. Len(t) : t[k] = bs[k + 1]
  <2>1. Len(t) = Len(bs) - 1 /\ t[i] = big
    BY <1>0, <1>4, <1>6, <1>7
  <2>2. ASSUME NEW k \in 1 .. (i - 1)
        PROVE  t[k] = bs[k]
    <3>1. k \in 1 .. (Len(w) - 1) /\ k < i + 1 /\ k \in 1 .. Len(bs) /\ k # i
      BY <1>0, <1>4, <1>6
    <3>2. t[k] = w[k]
      BY <1>7, <3>1
    <3> QED
      BY <1>6, <3>1, <3>2
  <2>3. ASSUME NEW k \in (i + 1) .. Len(t)
        PROVE  t[k] = bs[k + 1]
    <3>1. k \in 1 .. (Len(w) - 1) /\ ~ (k < i + 1) /\ k + 1 \in 1 .. Len(bs) /\ k + 1 # i
      BY <1>0, <1>6, <2>1
    <3>2. t[k] = w[k + 1]
      BY <1>7, <3>1
    <3>3. w[k + 1] = bs[k + 1]
      BY <1>6, <3>1
    <3> QED
      BY <3>2, <3>3
  <2> QED
    BY <2>1, <2>2, <2>3
<1>9. \A k \in (i + 1) .. (Len(bs) - 1) : t[k] = bs[k + 1]
  BY <1>8
<1> QED
  BY <1>3, <1>4, <1>5, <1>7, <1>8, <1>9, Zenon DEF big

LEMMA ReleaseFlags ==
  ASSUME NEW bs, TiledList(bs), NEW i \in 1 .. Len(bs), ~ MergesNext(bs, i)
  PROVE  LET t == Release(bs, i)
         IN  /\ t \in Seq(Block) /\ Len(t) = Len(bs)
             /\ t[i].addr = bs[i].addr /\ t[i].size = bs[i].size /\ t[i].free
             /\ \A k \in 1 .. Len(bs) : k # i => t[k] = bs[k]
<1> DEFINE f == [bs[i] EXCEPT !.free = TRUE]
           freed == ReplaceAt(bs, i, f)
<1>0. /\ Len(bs) \in Nat /\ bs \in Seq(Block) /\ i \in Nat
  BY LenProperties DEF TiledList
<1>b. /\ bs[i] \in Block /\ bs[i].addr \in Addresses /\ bs[i].size \in Nat
      /\ EndOf(bs[i]) <= HeapEnd
  BY BlockInArena
<1>1. f \in Block /\ f.addr = bs[i].addr /\ f.size = bs[i].size /\ f.free
  BY <1>b DEF Block
<1> HIDE DEF f
<1>2. /\ freed \in Seq(Block) /\ Len(freed) = Len(bs)
      /\ \A k \in 1 .. Len(bs) : freed[k] = IF k = i THEN f ELSE bs[k]
  BY <1>0, <1>1, ReplaceAtElements
<1> HIDE DEF freed
<1>4. Release(bs, i) = freed
  BY DEF Release, freed, f
<1> QED
  BY <1>1, <1>2, <1>4

LEMMA ReleaseOutcome ==
  ASSUME NEW bs, TiledList(bs), NEW i \in 1 .. Len(bs), ~ bs[i].free
  PROVE  /\ TiledList(Release(bs, i))
         /\ \A p, s : InUse(Release(bs, i), p, s)
                        <=> InUse(bs, p, s) /\ p # Payload(bs[i])
<1> DEFINE t == Release(bs, i)
<1>0. /\ Len(bs) \in Nat /\ bs \in Seq(Block) /\ i \in Nat
  BY LenProperties DEF TiledList
<1>3. CASE MergesNext(bs, i)
  <2> DEFINE big == Merged(bs[i], bs[i + 1])
  <2>6. /\ big \in Block /\ big.addr = bs[i].addr /\ big.free
        /\ EndOf(big) = EndOf(bs[i + 1])
        /\ i \in 1 .. (Len(bs) - 1)
        /\ t \in Seq(Block) /\ Len(t) = Len(bs) - 1 /\ t[i] = big
        /\ \A k \in 1 .. (i - 1) : t[k] = bs[k]
        /\ \A k \in (i + 1) .. Len(t) : t[k] = bs[k + 1]
    <3>1. /\ big \in Block /\ big.addr = bs[i].addr /\ big.free
          /\ EndOf(big) = EndOf(bs[i + 1])
          /\ i \in 1 .. (Len(bs) - 1)
          /\ t \in Seq(Block) /\ Len(t) = Len(bs) - 1 /\ t[i] = big
          /\ \A k \in 1 .. (i - 1) : t[k] = bs[k]
          /\ \A k \in (i + 1) .. (Len(bs) - 1) : t[k] = bs[k + 1]
      BY <1>3, ReleaseMerges
    <3> QED
      BY <3>1
  <2>2. bs[i + 1].free
    BY <1>3 DEF MergesNext
  <2> HIDE DEF big, t
  <2>7. TiledList(t)
    BY <2>6, AbsorbTiled
  <2>8. ASSUME NEW p, NEW s
        PROVE  InUse(t, p, s) <=> InUse(bs, p, s) /\ p # Payload(bs[i])
    <3>1. ASSUME InUse(t, p, s)
          PROVE  InUse(bs, p, s) /\ p # Payload(bs[i])
      <4>1. PICK k \in 1 .. Len(t) : ~ t[k].free /\ Payload(t[k]) = p /\ t[k].size = s
        BY <3>1 DEF InUse
      <4>2. PICK j \in 1 .. Len(bs) : j # i /\ t[k] = bs[j]
        <5>1. CASE k < i
          BY <1>0, <2>6, <5>1
        <5>2. CASE k = i
          BY <2>6, <4>1, <5>2
        <5>3. CASE k > i
          <6>1. k + 1 \in 1 .. Len(bs) /\ k + 1 # i /\ t[k] = bs[k + 1]
            BY <1>0, <2>6, <5>3
          <6> QED
            BY <6>1
        <5> QED
          BY <1>0, <2>6, <5>1, <5>2, <5>3
      <4>3. Payload(bs[j]) # Payload(bs[i])
        BY <4>2, PayloadsDiffer
      <4> QED
        BY <4>1, <4>2, <4>3 DEF InUse
    <3>2. ASSUME InUse(bs, p, s), p # Payload(bs[i])
          PROVE  InUse(t, p, s)
      <4>1. PICK k \in 1 .. Len(bs) : ~ bs[k].free /\ Payload(bs[k]) = p /\ bs[k].size = s
        BY <3>2 DEF InUse
      <4>2. k # i /\ k # i + 1
        BY <2>2, <3>2, <4>1
      <4>3. CASE k < i
        <5>1. k \in 1 .. Len(t) /\ t[k] = bs[k]
          BY <1>0, <2>2, <2>6, <4>3
        <5> QED
          BY <4>1, <5>1 DEF InUse
      <4>4. CASE k > i + 1
        <5>1. k - 1 \in (i + 1) .. Len(t) /\ k - 1 \in 1 .. Len(t) /\ (k - 1) + 1 = k
          BY <1>0, <2>6, <4>4
        <5>2. t[k - 1] = bs[k]
          BY <2>6, <5>1
        <5> QED
          BY <4>1, <5>1, <5>2 DEF InUse
      <4> QED
        BY <1>0, <4>2, <4>3, <4>4
    <3> QED
      BY <3>1, <3>2
  <2> QED
    BY <2>7, <2>8 DEF t
<1>4. CASE ~ MergesNext(bs, i)
  <2>1. /\ t \in Seq(Block) /\ Len(t) = Len(bs)
        /\ t[i].addr = bs[i].addr /\ t[i].size = bs[i].size /\ t[i].free
        /\ \A k \in 1 .. Len(bs) : k # i => t[k] = bs[k]
    BY <1>4, ReleaseFlags
  <2> HIDE DEF t
  <2>2. TiledList(t)
    BY <2>1, FlagTiled
  <2>3. ASSUME NEW p, NEW s
        PROVE  InUse(t, p, s) <=> InUse(bs, p, s) /\ p # Payload(bs[i])
    BY <2>1, PayloadsDiffer DEF InUse
  <2> QED
    BY <2>2, <2>3 DEF t
<1> QED
  BY <1>3, <1>4

-----------------------------------------------------------------------------
(* The regions of the blocks in use. *)

LEMMA RegionInArena ==
  ASSUME NEW bs, TiledList(bs), NEW p, NEW s, InUse(bs, p, s)
  PROVE  /\ p \in Nat /\ s \in Nat /\ p # NULL
         /\ KERNEL_HEAP_START <= p /\ p + s <= HeapEnd
<1>1. PICK k \in 1 .. Len(bs) : ~ bs[k].free /\ Payload(bs[k]) = p /\ bs[k].size = s
  BY DEF InUse
<1>2. /\ bs[k].addr \in Nat /\ KERNEL_HEAP_START <= bs[k].addr
      /\ bs[k].size \in Nat /\ bs[k].addr + Header + bs[k].size <= HeapEnd
  BY BlockInArena, HeapAssumption DEF Addresses, EndOf
<1>3. p = bs[k].addr + Header
  BY <1>1 DEF Payload
<1> QED
  BY <1>1, <1>2, <1>3, HeapAssumption DEF NULL

LEMMA RegionsDisjoint ==
  ASSUME NEW bs, TiledList(bs), NEW p, NEW s, InUse(bs, p, s),
         NEW q, NEW u, InUse(bs, q, u), p # q
  PROVE  p + s <= q \/ q + u <= p
<1>1. PICK j \in 1 .. Len(bs) : Payload(bs[j]) = p /\ bs[j].size = s
  BY DEF InUse
<1>2. PICK k \in 1 .. Len(bs) : Payload(bs[k]) = q /\ bs[k].size = u
  BY DEF InUse
<1>3. j < k \/ k < j
  BY <1>1, <1>2
<1>4. /\ bs[j].addr \in Int /\ bs[j].size \in Nat
      /\ bs[k].addr \in Int /\ bs[k].size \in Nat
  BY BlockInArena DEF Addresses
<1>5. CASE j < k
  <2>1. EndOf(bs[j]) <= bs[k].addr
    BY <1>5 DEF TiledList, Ordered
  <2>2. EndOf(bs[j]) = p + s /\ q = bs[k].addr + Header
    BY <1>1, <1>2, <1>4, HeapAssumption DEF EndOf, Payload
  <2>3. p + s \in Int /\ bs[k].addr \in Int /\ q \in Int
    BY <1>4, RegionInArena
  <2>4. p + s <= q
    BY <2>1, <2>2, <2>3, HeapAssumption
  <2> QED
    BY <2>4
<1>6. CASE k < j
  <2>1. EndOf(bs[k]) <= bs[j].addr
    BY <1>6 DEF TiledList, Ordered
  <2>2. EndOf(bs[k]) = q + u /\ p = bs[j].addr + Header
    BY <1>1, <1>2, <1>4, HeapAssumption DEF EndOf, Payload
  <2>3. q + u \in Int /\ bs[j].addr \in Int /\ p \in Int
    BY <1>4, RegionInArena
  <2>4. q + u <= p
    BY <2>1, <2>2, <2>3, HeapAssumption
  <2> QED
    BY <2>4
<1> QED
  BY <1>3, <1>5, <1>6

(* An allocation of n bytes ends with a block of m bytes: the size rounded *)
(* up, or, for a block krealloc keeps, the size itself.                    *)
Enough(m, n) == m >= n \/ m >= align16(n)

(* The effect of giving p back (or nothing, for NULL) and obtaining q.  A  *)
(* block that moves is copied, so that its new place avoids its old one.   *)
Exchanged(bs, new, p, q, n) ==
  /\ n # 0 /\ q # NULL
  /\ TiledList(new)
  /\ q = p \/ \A s : ~ InUse(bs, q, s)
  /\ \E m \in Nat :
       /\ Enough(m, n)
       /\ q = p => InUse(bs, p, m)
       /\ \A x, s : x # q /\ InUse(bs, x, s) => q + m <= x \/ x + s <= q
       /\ \A x, s : InUse(new, x, s) <=> (InUse(bs, x, s) /\ x # p) \/ (x = q /\ s = m)

LEMMA KmallocOutcome ==
  ASSUME NEW bs, TiledList(bs), NEW n \in Nat
  PROVE  LET r == Kmalloc(bs, n)
         IN  \/ r.ptr = NULL /\ r.blocks = bs
             \/ r.ptr # NULL /\ Exchanged(bs, r.blocks, NULL, r.ptr, n)
<1> DEFINE r == Kmalloc(bs, n)
           found == FirstFit(bs, align16(n))
           i == CHOOSE k \in found : TRUE
<1>1. CASE n = 0 \/ found = {}
  BY <1>1 DEF Kmalloc
<1>2. CASE n # 0 /\ found # {}
  <2>1. i \in found
    BY <1>2
  <2>2. i \in 1 .. Len(bs) /\ bs[i].free /\ align16(n) <= bs[i].size
    <3>1. DOMAIN bs = 1 .. Len(bs)
      BY LenProperties DEF TiledList
    <3> HIDE DEF i
    <3>2. i \in 1 .. Len(bs) /\ Fits(bs[i], align16(n))
      BY <2>1, <3>1 DEF FirstFit
    <3>3. bs[i].size \in Nat /\ align16(n) \in Nat
      BY <3>2, BlockInArena, Align16Bounds
    <3> QED
      BY <3>2, <3>3 DEF Fits
  <2>3. r = [ptr |-> Payload(bs[i]), blocks |-> Carve(bs, i, align16(n))]
    BY <1>2 DEF Kmalloc
  <2> HIDE DEF i, r
  <2>4. r.ptr = Payload(bs[i]) /\ r.blocks = Carve(bs, i, align16(n))
    BY <2>3
  <2>5. r.ptr # NULL
    <3>1. bs[i].addr \in Nat
      BY <2>2, BlockInArena, HeapAssumption DEF Addresses
    <3> QED
      BY <2>4, <3>1, HeapAssumption DEF Payload, NULL
  <2>6. ASSUME NEW s
        PROVE  ~ InUse(bs, r.ptr, s)
    BY <2>2, <2>4, PayloadsDiffer DEF InUse
  <2>7. align16(n) \in Nat
    BY Align16Bounds
  <2>8. TiledList(r.blocks)
    BY <2>2, <2>4, <2>7, CarveOutcome
  <2>9. PICK m \in Nat :
          /\ m >= align16(n)
          /\ \A x, s : InUse(r.blocks, x, s)
                         <=> InUse(bs, x, s) \/ (x = Payload(bs[i]) /\ s = m)
    BY <2>2, <2>4, <2>7, CarveOutcome
  <2>10. \A x, s : InUse(bs, x, s) => x # NULL
    BY RegionInArena
  <2>11. \A x, s : x # r.ptr /\ InUse(bs, x, s) => r.ptr + m <= x \/ x + s <= r.ptr
    <3>1. InUse(r.blocks, r.ptr, m)
      BY <2>4, <2>9
    <3> QED
      BY <2>8, <2>9, <3>1, RegionsDisjoint
  <2>12. Exchanged(bs, r.blocks, NULL, r.ptr, n)
    BY <1>2, <2>4, <2>5, <2>6, <2>8, <2>9, <2>10, <2>11 DEF Exchanged, Enough
  <2> QED
    BY <2>5, <2>12 DEF r
<1> QED
  BY <1>1, <1>2

LEMMA KfreeOutcome ==
  ASSUME NEW bs, TiledList(bs), NEW p, p = NULL \/ \E s : InUse(bs, p, s)
  PROVE  /\ TiledList(Kfree(bs, p))
         /\ \A q, s : InUse(Kfree(bs, p), q, s) <=> InUse(bs, q, s) /\ q # p
<1>1. CASE p = NULL
  BY <1>1, RegionInArena DEF Kfree
<1>2. CASE p # NULL
  <2>1. PICK i \in 1 .. Len(bs) : ~ bs[i].free /\ Payload(bs[i]) = p
    BY <1>2 DEF InUse
  <2>2. Kfree(bs, p) = Release(bs, i)
    BY <1>2, <2>1, IndexOfPayload DEF Kfree
  <2> QED
    BY <2>1, <2>2, ReleaseOutcome
<1> QED
  BY <1>1, <1>2

LEMMA KreallocOutcome ==
  ASSUME NEW bs, TiledList(bs), NEW n \in Nat,
         NEW p, p = NULL \/ \E s : InUse(bs, p, s), n # 0
  PROVE  LET r == Krealloc(bs, p, n)
         IN  \/ r.ptr = NULL /\ r.blocks = bs
             \/ r.ptr # NULL /\ Exchanged(bs, r.blocks, p, r.ptr, n)
<1> DEFINE r == Krealloc(bs, p, n)
<1>1. CASE p = NULL
  <2>1. r = Kmalloc(bs, n)
    BY <1>1 DEF Krealloc
  <2> QED
    BY <1>1, <2>1, KmallocOutcome
<1>2. CASE p # NULL
  <2>1. PICK i \in 1 .. Len(bs) : ~ bs[i].free /\ Payload(bs[i]) = p
    BY <1>2 DEF InUse
  <2>2. IndexOf(bs, p) = i /\ bs[i].size \in Nat
    BY <2>1, IndexOfPayload, BlockInArena
  <2>3. CASE bs[i].size >= n
    <3>1. r = [ptr |-> p, blocks |-> bs]
      BY <1>2, <2>2, <2>3 DEF Krealloc
    <3>2. InUse(bs, p, bs[i].size)
      BY <2>1 DEF InUse
    <3>3. ASSUME NEW s, InUse(bs, p, s)
          PROVE  s = bs[i].size
      BY <2>1, <3>3, PayloadsDiffer DEF InUse
    <3>4. \A x, s : x # p /\ InUse(bs, x, s) => p + bs[i].size <= x \/ x + s <= p
      BY <3>2, RegionsDisjoint
    <3>5. Exchanged(bs, bs, p, p, n)
      BY <1>2, <2>2, <2>3, <3>2, <3>3, <3>4 DEF Exchanged, Enough
    <3> QED
      BY <1>2, <3>1, <3>5
  <2>4. CASE ~ (bs[i].size >= n)
    <3> DEFINE k == Kmalloc(bs, n)
    <3>1. r = IF k.ptr = NULL THEN k ELSE [k EXCEPT !.blocks = Kfree(@, p)]
      BY <1>2, <2>2, <2>4 DEF Krealloc, KreallocMove
    <3>2. CASE k.ptr = NULL
      <4>1. k.blocks = bs
        BY <3>2, KmallocOutcome DEF Exchanged
      <4> QED
        BY <3>1, <3>2, <4>1
    <3>3. CASE k.ptr # NULL
      <4>1. r.ptr = k.ptr /\ r.blocks = Kfree(k.blocks, p)
        BY <3>1, <3>3 DEF Kmalloc
      <4> HIDE DEF k
      <4>2. Exchanged(bs, k.blocks, NULL, k.ptr, n)
        BY <3>3, KmallocOutcome DEF k
      <4>3. PICK m \in Nat :
              /\ Enough(m, n)
              /\ \A x, s : x # k.ptr /\ InUse(bs, x, s) => k.ptr + m <= x \/ x + s <= k.ptr
              /\ \A x, s : InUse(k.blocks, x, s)
                             <=> (InUse(bs, x, s) /\ x # NULL) \/ (x = k.ptr /\ s = m)
        BY <4>2 DEF Exchanged
      <4>4. \A s : ~ InUse(bs, k.ptr, s)
        BY <3>3, <4>2 DEF Exchanged
      <4>5. \E s : InUse(k.blocks, p, s)
        BY <1>2, <4>3
      <4>6. k.ptr # p
        BY <1>2, <4>4
      <4>7. /\ TiledList(r.blocks)
            /\ \A x, s : InUse(r.blocks, x, s) <=> InUse(k.blocks, x, s) /\ x # p
        BY <4>1, <4>2, <4>5, KfreeOutcome DEF Exchanged
      <4>8. \A x, s : InUse(bs, x, s) => x # NULL
        BY RegionInArena
      <4>9. \A x, s : InUse(r.blocks, x, s)
                        <=> (InUse(bs, x, s) /\ x # p) \/ (x = k.ptr /\ s = m)
        BY <4>3, <4>6, <4>7, <4>8
      <4> QED
        BY <3>3, <4>1, <4>3, <4>4, <4>6, <4>7, <4>9 DEF Exchanged
    <3> QED
      BY <3>2, <3>3
  <2> QED
    BY <2>3, <2>4
<1> QED
  BY <1>1, <1>2

LEMMA ForgetTable ==
  ASSUME NEW S, NEW f, f \in [DOMAIN f -> S], NEW p
  PROVE  /\ DOMAIN Forget(f, p) = DOMAIN f \ {p}
         /\ Forget(f, p) \in [DOMAIN Forget(f, p) -> S]
         /\ \A q \in DOMAIN f \ {p} : Forget(f, p)[q] = f[q]
         /\ p \notin DOMAIN f => Forget(f, p) = f
BY DEF Forget

-----------------------------------------------------------------------------
(* The inductive invariant.  Tiled and UsedIffLive alone are not inductive *)
(* in this form: that a block in use survives the split or the merge of    *)
(* another needs the order of the addresses.                               *)

Matches(bs, f) == \A p : p \in DOMAIN f <=> \E s : InUse(bs, p, s)

IInv ==
  /\ TiledList(blocks)
  /\ live \in [DOMAIN live -> Sizes]
  /\ Matches(blocks, live)

(* A client's pointer, or the NULL that kfree and krealloc accept. *)
LEMMA ClientPointer ==
  ASSUME IInv, NEW p \in DOMAIN live \cup {NULL}
  PROVE  /\ p = NULL \/ \E s : InUse(blocks, p, s)
         /\ NULL \notin DOMAIN live
BY RegionInArena DEF IInv, Matches

LEMMA InitIInv == Init => IInv
<1> SUFFICES ASSUME Init PROVE IInv
  OBVIOUS
<1>1. blocks \in Seq(Block) /\ Len(blocks) = 0
  BY EmptySeq DEF Init
<1>2. TiledList(blocks)
  BY <1>1 DEF TiledList, Ordered
<1>3. \A p, s : ~ InUse(blocks, p, s)
  BY <1>1 DEF InUse
<1>4. DOMAIN live = {} /\ live \in [DOMAIN live -> Sizes]
  BY DEF Init
<1> QED
  BY <1>2, <1>3, <1>4 DEF IInv, Matches

(* What a step may do, in terms of the blocks in use: nothing, give a      *)
(* region back, or exchange one (or nothing) for another.                  *)
SameInUse(bs, new) ==
  TiledList(new) /\ \A p, s : InUse(new, p, s) <=> InUse(bs, p, s)

Freed(bs, new, p) ==
  TiledList(new) /\ \A q, s : InUse(new, q, s) <=> InUse(bs, q, s) /\ q # p

StepKeeps == SameInUse(blocks, blocks') /\ live' = live

StepFrees(p) == Freed(blocks, blocks', p) /\ live' = Forget(live, p)

StepExchanges(p, q, n) ==
  Exchanged(blocks, blocks', p, q, n) /\ live' = Promise(Forget(live, p), q, n)

LEMMA StepCases ==
  ASSUME IInv, [Next]_vars
  PROVE  \/ StepKeeps
         \/ \E p \in DOMAIN live \cup {NULL} : StepFrees(p)
         \/ \E p \in DOMAIN live \cup {NULL}, n \in Sizes : \E q : StepExchanges(p, q, n)
<1>1. CASE init_heap
  <2> DEFINE b == [addr |-> KERNEL_HEAP_START,
                   size |-> KERNEL_HEAP_SIZE - Header, free |-> TRUE]
  <2>1. b \in Block /\ EndOf(b) = HeapEnd /\ b.addr = KERNEL_HEAP_START /\ b.free
    BY HeapAssumption DEF Block, Addresses, HeapEnd, EndOf
  <2> HIDE DEF b
  <2>2. blocks' = <<b>> /\ live' = live /\ blocks = << >>
    BY <1>1 DEF init_heap, b
  <2>3. TiledList(blocks')
    BY <2>1, <2>2 DEF TiledList, Ordered
  <2>4. \A p, s : ~ InUse(blocks', p, s) /\ ~ InUse(blocks, p, s)
    BY <2>1, <2>2 DEF InUse
  <2> QED
    BY <2>2, <2>3, <2>4 DEF StepKeeps, SameInUse
<1>2. ASSUME NEW n \in Sizes, kmalloc(n)
      PROVE  StepKeeps \/ \E q : StepExchanges(NULL, q, n)
  <2> DEFINE r == Kmalloc(blocks, n)
  <2>1. n \in Nat
    BY HeapAssumption
  <2>2. CASE r.ptr = NULL
    <3>1. blocks' = blocks /\ live' = live
      BY <1>2, <2>1, <2>2, KmallocOutcome DEF kmalloc, IInv
    <3> QED
      BY <3>1 DEF IInv, StepKeeps, SameInUse
  <2>3. CASE r.ptr # NULL
    <3>1. blocks' = r.blocks /\ live' = Promise(live, r.ptr, n)
      BY <1>2, <2>3 DEF kmalloc
    <3>2. Exchanged(blocks, r.blocks, NULL, r.ptr, n)
      BY <2>1, <2>3, KmallocOutcome DEF IInv
    <3>3. Forget(live, NULL) = live
      BY ClientPointer, ForgetTable DEF IInv
    <3> HIDE DEF r
    <3> QED
      BY <3>1, <3>2, <3>3 DEF StepExchanges
  <2> QED
    BY <2>2, <2>3
<1>3. ASSUME NEW p \in DOMAIN live \cup {NULL},
             blocks' = Kfree(blocks, p), live' = Forget(live, p)
      PROVE  StepFrees(p)
  BY <1>3, ClientPointer, KfreeOutcome DEF IInv, StepFrees, Freed
<1>4. ASSUME NEW p \in DOMAIN live \cup {NULL}, NEW n \in Sizes, krealloc(p, n)
      PROVE  StepKeeps \/ StepFrees(p) \/ \E q : StepExchanges(p, q, n)
  <2> DEFINE r == Krealloc(blocks, p, n)
  <2>1. n \in Nat
    BY HeapAssumption
  <2>2. CASE n = 0
    <3>1. blocks' = Kfree(blocks, p) /\ live' = Forget(live, p)
      BY <1>4, <2>2 DEF krealloc, Krealloc
    <3> QED
      BY <1>3, <3>1
  <2>3. CASE n # 0
    <3>1. \/ r.ptr = NULL /\ r.blocks = blocks
          \/ r.ptr # NULL /\ Exchanged(blocks, r.blocks, p, r.ptr, n)
      BY <2>1, <2>3, ClientPointer, KreallocOutcome DEF IInv
    <3>2. CASE r.ptr = NULL
      <4>1. blocks' = blocks /\ live' = live
        BY <1>4, <2>3, <3>1, <3>2 DEF krealloc
      <4> QED
        BY <4>1 DEF IInv, StepKeeps, SameInUse
    <3>3. CASE r.ptr # NULL
      <4>1. blocks' = r.blocks /\ live' = Promise(Forget(live, p), r.ptr, n)
        BY <1>4, <2>3, <3>3 DEF krealloc
      <4>2. Exchanged(blocks, r.blocks, p, r.ptr, n)
        BY <3>1, <3>3
      <4> HIDE DEF r
      <4> QED
        BY <4>1, <4>2 DEF StepExchanges
    <3> QED
      BY <3>2, <3>3
  <2> QED
    BY <2>2, <2>3
<1>5. CASE UNCHANGED vars
  BY <1>5 DEF vars, IInv, StepKeeps, SameInUse
<1>6. ASSUME NEW p \in DOMAIN live \cup {NULL}, kfree(p)
      PROVE  StepFrees(p)
  BY <1>3, <1>6 DEF kfree
<1> QED
  BY <1>1, <1>2, <1>4, <1>5, <1>6 DEF Next

(* The table of outstanding pointers after a free and after an exchange. *)
LEMMA FreedTable ==
  ASSUME IInv, NEW p, StepFrees(p)
  PROVE  /\ DOMAIN live' = DOMAIN live \ {p}
         /\ live' \in [DOMAIN live' -> Sizes]
         /\ \A x \in DOMAIN live' : live'[x] = live[x]
BY DEF IInv, StepFrees, Forget

LEMMA ExchangedTable ==
  ASSUME IInv, NEW p, NEW q, NEW n \in Sizes, StepExchanges(p, q, n)
  PROVE  /\ DOMAIN live' = (DOMAIN live \ {p}) \cup {q}
         /\ live' \in [DOMAIN live' -> Sizes]
         /\ live'[q] = n
         /\ \A x \in DOMAIN live' \ {q} : live'[x] = live[x]
BY DEF IInv, StepExchanges, Promise, Forget

LEMMA NextIInv == IInv /\ [Next]_vars => IInv'
<1> SUFFICES ASSUME IInv, [Next]_vars PROVE IInv'
  OBVIOUS
<1>1. CASE StepKeeps
  BY <1>1 DEF IInv, Matches, StepKeeps, SameInUse
<1>2. ASSUME NEW p \in DOMAIN live \cup {NULL}, StepFrees(p)
      PROVE  IInv'
  <2>1. DOMAIN live' = DOMAIN live \ {p} /\ live' \in [DOMAIN live' -> Sizes]
    BY <1>2, FreedTable
  <2>2. Matches(blocks', live')
    BY <1>2, <2>1 DEF IInv, Matches, StepFrees, Freed
  <2> QED
    BY <1>2, <2>1, <2>2 DEF IInv, StepFrees, Freed
<1>3. ASSUME NEW p \in DOMAIN live \cup {NULL}, NEW q, NEW n \in Sizes,
             StepExchanges(p, q, n)
      PROVE  IInv'
  <2>1. PICK m \in Nat :
          \A x, s : InUse(blocks', x, s)
                      <=> (InUse(blocks, x, s) /\ x # p) \/ (x = q /\ s = m)
    BY <1>3 DEF StepExchanges, Exchanged
  <2>2. DOMAIN live' = (DOMAIN live \ {p}) \cup {q} /\ live' \in [DOMAIN live' -> Sizes]
    BY <1>3, ExchangedTable
  <2>3. Matches(blocks', live')
    BY <2>1, <2>2 DEF IInv, Matches
  <2> QED
    BY <1>3, <2>2, <2>3 DEF IInv, StepExchanges, Exchanged
<1> QED
  BY <1>1, <1>2, <1>3, StepCases

(* Every reachable heap is a tiling whose blocks in use are the outstanding *)
(* pointers: the induction over init_heap, kmalloc, kfree and krealloc.    *)
THEOREM Invariance == Spec => []IInv
<1>1. Init => IInv
  BY InitIInv
<1>2. IInv /\ [Next]_vars => IInv'
  BY NextIInv
<1> QED
  BY <1>1, <1>2, PTL DEF Spec

-----------------------------------------------------------------------------
(* Theorems for every arena, header size, alignment and set of sizes. *)

LEMMA IInvImplies == IInv => TypeOK /\ Tiled /\ UsedIffLive
<1> SUFFICES ASSUME IInv PROVE TypeOK /\ Tiled /\ UsedIffLive
  OBVIOUS
<1>1. /\ blocks \in Seq(Block) /\ Len(blocks) \in Nat
      /\ DOMAIN blocks = 1 .. Len(blocks)
      /\ blocks # << >> => Len(blocks) > 0
  BY LenProperties, EmptySeq DEF IInv, TiledList
<1>2. TypeOK
  <2>1. DOMAIN live \subseteq KERNEL_HEAP_START .. HeapEnd
    <3> SUFFICES ASSUME NEW p \in DOMAIN live
                 PROVE  p \in KERNEL_HEAP_START .. HeapEnd
      OBVIOUS
    <3>1. PICK s : InUse(blocks, p, s)
      BY DEF IInv, Matches
    <3>2. p \in Nat /\ s \in Nat /\ KERNEL_HEAP_START <= p /\ p + s <= HeapEnd
      BY <3>1, RegionInArena DEF IInv
    <3> QED
      BY <3>2, HeapAssumption DEF HeapEnd
  <2>2. live \in [DOMAIN live -> Nat]
    BY HeapAssumption DEF IInv
  <2> QED
    BY <1>1, <2>1, <2>2 DEF TypeOK
<1>3. Tiled
  BY <1>1 DEF IInv, TiledList, Tiled
<1>4. UsedIffLive
  <2>1. ASSUME NEW i \in DOMAIN blocks, ~ blocks[i].free
        PROVE  Payload(blocks[i]) \in DOMAIN live
    <3>1. InUse(blocks, Payload(blocks[i]), blocks[i].size)
      BY <1>1, <2>1 DEF InUse
    <3> QED
      BY <3>1 DEF IInv, Matches
  <2>2. ASSUME NEW p \in DOMAIN live
        PROVE  \E i \in DOMAIN blocks : Payload(blocks[i]) = p /\ ~ blocks[i].free
    <3>1. PICK s : InUse(blocks, p, s)
      BY DEF IInv, Matches
    <3> QED
      BY <1>1, <3>1 DEF InUse
  <2> QED
    BY <2>1, <2>2 DEF UsedIffLive
<1> QED
  BY <1>2, <1>3, <1>4

(* The list of headers keeps its shape: no split (heap.cpp:64-72) writes a *)
(* header outside the arena, and no size exceeds it.                       *)
THEOREM TypeCorrect == Spec => []TypeOK
BY Invariance, IInvImplies, PTL

(* No sequence of kmalloc, kfree and krealloc loses a byte of the arena or *)
(* lets two blocks overlap (heap.cpp:63-72, 90-93).                        *)
THEOREM BlocksTile == Spec => []Tiled
BY Invariance, IInvImplies, PTL

(* A block is in use exactly while its pointer is outstanding: nothing is  *)
(* handed out twice (heap.cpp:50), and nothing is leaked by a krealloc     *)
(* that fails or moves (heap.cpp:112-120).                                 *)
THEOREM InUseExactlyWhileLive == Spec => []UsedIffLive
BY Invariance, IInvImplies, PTL

(* No call changes the size of a block whose region is outstanding before  *)
(* and after it: a merge never reaches a block in use (heap.cpp:90), and   *)
(* krealloc returns its argument only for the same block (heap.cpp:108).   *)
THEOREM CapacityIsKept == Spec => CapacityKept
<1> DEFINE Kept ==
      \A x \in DOMAIN live \cap DOMAIN live' :
        \E s : InUse(blocks, x, s) /\ InUse(blocks', x, s)
<1>1. ASSUME IInv, [Next]_vars
      PROVE  Kept
  <2> SUFFICES ASSUME NEW x \in DOMAIN live, x \in DOMAIN live'
               PROVE  \E s : InUse(blocks, x, s) /\ InUse(blocks', x, s)
    OBVIOUS
  <2>0. PICK u : InUse(blocks, x, u)
    BY <1>1 DEF IInv, Matches
  <2>1. CASE StepKeeps
    BY <2>0, <2>1 DEF StepKeeps, SameInUse
  <2>2. ASSUME NEW p \in DOMAIN live \cup {NULL}, StepFrees(p)
        PROVE  InUse(blocks', x, u)
    <3>1. x # p
      BY <2>2, <1>1, FreedTable
    <3> QED
      BY <2>0, <2>2, <3>1 DEF StepFrees, Freed
  <2>3. ASSUME NEW p \in DOMAIN live \cup {NULL}, NEW n \in Sizes, NEW q,
               StepExchanges(p, q, n)
        PROVE  \E s : InUse(blocks, x, s) /\ InUse(blocks', x, s)
    <3>1. x \in (DOMAIN live \ {p}) \cup {q}
      BY <1>1, <2>3, ExchangedTable
    <3>2. PICK m \in Nat :
            /\ q = p => InUse(blocks, p, m)
            /\ \A y, s : InUse(blocks', y, s)
                           <=> (InUse(blocks, y, s) /\ y # p) \/ (y = q /\ s = m)
      BY <2>3 DEF StepExchanges, Exchanged
    <3>3. q = p \/ \A s : ~ InUse(blocks, q, s)
      BY <2>3 DEF StepExchanges, Exchanged
    <3>4. CASE x # p
      BY <2>0, <3>2, <3>4
    <3>5. CASE x = p
      BY <3>1, <3>2, <3>5
    <3> QED
      BY <3>4, <3>5
  <2> QED
    BY <1>1, <2>0, <2>1, <2>2, <2>3, StepCases
<1>2. ASSUME IInv, IInv', Kept
      PROVE  \A p \in DOMAIN live \cap DOMAIN live' :
               \E i \in DOMAIN blocks, j \in DOMAIN blocks' :
                 /\ Payload(blocks[i]) = p /\ Payload(blocks'[j]) = p
                 /\ blocks[i].size = blocks'[j].size
  <2>1. DOMAIN blocks = 1 .. Len(blocks) /\ DOMAIN blocks' = 1 .. Len(blocks')
    BY <1>2, LenProperties DEF IInv, TiledList
  <2> QED
    BY <1>2, <2>1 DEF InUse
<1>3. IInv /\ IInv' /\ [Next]_vars =>
        [\A p \in DOMAIN live \cap DOMAIN live' :
           \E i \in DOMAIN blocks, j \in DOMAIN blocks' :
             /\ Payload(blocks[i]) = p /\ Payload(blocks'[j]) = p
             /\ blocks[i].size = blocks'[j].size]_vars
  BY <1>1, <1>2
<1> QED
  BY <1>3, Invariance, PTL DEF Spec, CapacityKept

-----------------------------------------------------------------------------
(* With requests that align16 does not wrap around, an outstanding region  *)
(* has the size that was asked for, and the heap implements the contract.  *)

NoWrap == \A n \in Sizes : n + Align - 1 < WordSize

FitInv ==
  /\ IInv
  /\ \A p \in DOMAIN live : \E s : InUse(blocks, p, s) /\ s >= live[p]

LEMMA NextFitInv ==
  ASSUME NoWrap, FitInv, [Next]_vars
  PROVE  FitInv'
<1>1. IInv /\ IInv'
  BY NextIInv DEF FitInv
<1>2. CASE StepKeeps
  BY <1>1, <1>2 DEF FitInv, StepKeeps, SameInUse
<1>3. ASSUME NEW p \in DOMAIN live \cup {NULL}, StepFrees(p)
      PROVE  FitInv'
  <2>1. /\ DOMAIN live' = DOMAIN live \ {p}
        /\ \A x \in DOMAIN live' : live'[x] = live[x]
    BY <1>1, <1>3, FreedTable
  <2> QED
    BY <1>1, <1>3, <2>1 DEF FitInv, StepFrees, Freed
<1>4. ASSUME NEW p \in DOMAIN live \cup {NULL}, NEW q, NEW n \in Sizes,
             StepExchanges(p, q, n)
      PROVE  FitInv'
  <2>1. PICK m \in Nat :
          /\ Enough(m, n)
          /\ \A x, s : InUse(blocks', x, s)
                         <=> (InUse(blocks, x, s) /\ x # p) \/ (x = q /\ s = m)
    BY <1>4 DEF StepExchanges, Exchanged
  <2>2. m >= n
    <3>1. n \in Nat /\ n + Align - 1 < WordSize
      BY HeapAssumption DEF NoWrap
    <3>2. align16(n) \in Nat /\ align16(n) >= n
      BY <3>1, Align16Bounds
    <3> QED
      BY <2>1, <3>1, <3>2 DEF Enough
  <2>3. /\ DOMAIN live' = (DOMAIN live \ {p}) \cup {q}
        /\ live'[q] = n
        /\ \A x \in DOMAIN live' \ {q} : live'[x] = live[x]
    BY <1>1, <1>4, ExchangedTable
  <2>4. ASSUME NEW x \in DOMAIN live'
        PROVE  \E s : InUse(blocks', x, s) /\ s >= live'[x]
    BY <2>1, <2>2, <2>3 DEF FitInv
  <2> QED
    BY <1>1, <2>4 DEF FitInv
<1> QED
  BY <1>1, <1>2, <1>3, <1>4, StepCases

LEMMA FitInvHolds == ASSUME NoWrap PROVE Spec => []FitInv
<1>1. Init => FitInv
  <2> SUFFICES ASSUME Init PROVE FitInv
    OBVIOUS
  <2>1. IInv /\ DOMAIN live = {}
    BY InitIInv DEF Init
  <2> QED
    BY <2>1 DEF FitInv
<1>2. FitInv /\ [Next]_vars => FitInv'
  BY NextFitInv
<1> QED
  BY <1>1, <1>2, PTL DEF Spec

(* When no request wraps around in align16, every outstanding region has   *)
(* at least the bytes that were asked for (heap.cpp:41, 50, 108).          *)
THEOREM RegionsFit == ASSUME NoWrap PROVE Spec => []LiveFits
<1>1. FitInv => LiveFits
  <2> SUFFICES ASSUME FitInv, NEW p \in DOMAIN live
               PROVE  \E i \in DOMAIN blocks : Payload(blocks[i]) = p /\ blocks[i].size >= live[p]
    BY DEF LiveFits
  <2>1. DOMAIN blocks = 1 .. Len(blocks)
    BY LenProperties DEF FitInv, IInv, TiledList
  <2> QED
    BY <2>1 DEF FitInv, InUse
<1> QED
  BY <1>1, FitInvHolds, PTL

(* Every entry of the table f has a block in use that is large enough. *)
Placed(bs, f) ==
  /\ TiledList(bs)
  /\ f \in [DOMAIN f -> Sizes]
  /\ \A p \in DOMAIN f : \E s : InUse(bs, p, s) /\ s >= f[p]

(* Such a region is one the contract could have granted, next to any of    *)
(* the others.                                                             *)
LEMMA PlacedIsPlaceable ==
  ASSUME NEW bs, NEW f, Placed(bs, f), NEW p \in DOMAIN f, NEW g,
         DOMAIN g \subseteq DOMAIN f \ {p},
         \A x \in DOMAIN g : g[x] = f[x]
  PROVE  Abstract!Placeable(g, p, f[p])
<1>1. PICK s : InUse(bs, p, s) /\ s >= f[p]
  BY DEF Placed
<1>2. f[p] \in Nat
  BY HeapAssumption DEF Placed
<1>3. /\ p \in Nat /\ s \in Nat
      /\ KERNEL_HEAP_START <= p /\ p + s <= HeapEnd
  BY <1>1, RegionInArena DEF Placed
<1>4. p .. (p + f[p] - 1) \subseteq Addresses
  BY <1>1, <1>2, <1>3, HeapAssumption DEF Addresses, HeapEnd
<1>5. ASSUME NEW q \in DOMAIN g
      PROVE  Abstract!Disjoint(p, f[p], q, g[q])
  <2>1. PICK u : InUse(bs, q, u) /\ u >= f[q]
    BY DEF Placed
  <2>2. q \in Nat /\ u \in Nat
    BY <2>1, RegionInArena DEF Placed
  <2>3. f[q] \in Nat
    BY HeapAssumption DEF Placed
  <2>4. p + s <= q \/ q + u <= p
    BY <1>1, <2>1, RegionsDisjoint DEF Placed
  <2>5. g[q] = f[q]
    OBVIOUS
  <2> QED
    BY <1>1, <1>2, <1>3, <2>1, <2>2, <2>3, <2>4, <2>5 DEF Abstract!Disjoint
<1> QED
  BY <1>4, <1>5 DEF Abstract!Placeable

(* A region of at least one byte begins at an address of the arena.        *)
LEMMA PlacedInArena ==
  ASSUME NEW bs, NEW f, Placed(bs, f), NEW p \in DOMAIN f, f[p] # 0
  PROVE  p \in Addresses
<1>1. PICK s : InUse(bs, p, s) /\ s >= f[p]
  BY DEF Placed
<1>2. f[p] \in Nat
  BY HeapAssumption DEF Placed
<1>3. /\ p \in Nat /\ s \in Nat
      /\ KERNEL_HEAP_START <= p /\ p + s <= HeapEnd
  BY <1>1, RegionInArena DEF Placed
<1> QED
  BY <1>1, <1>2, <1>3, HeapAssumption DEF Addresses, HeapEnd

LEMMA StepImplementsContract ==
  ASSUME FitInv, FitInv', [Next]_vars
  PROVE  [Abstract!Next]_live
<1>0. /\ IInv /\ IInv' /\ Placed(blocks, live) /\ Placed(blocks', live')
      /\ NULL \notin DOMAIN live
  <2>1. IInv /\ Placed(blocks, live)
    BY DEF FitInv, IInv, Placed
  <2>2. IInv' /\ Placed(blocks', live')
    BY DEF FitInv, IInv, Placed
  <2> QED
    BY <2>1, <2>2, ClientPointer
<1>1. CASE StepKeeps
  BY <1>1 DEF StepKeeps
<1>2. ASSUME NEW p \in DOMAIN live \cup {NULL}, StepFrees(p)
      PROVE  [Abstract!Next]_live
  <2>1. CASE p = NULL
    BY <1>0, <1>2, <2>1, ForgetTable DEF StepFrees, IInv
  <2>2. CASE p \in DOMAIN live
    <3>1. live' = Abstract!Without(live, p)
      BY <1>2 DEF StepFrees, Forget, Abstract!Without
    <3> QED
      BY <2>2, <3>1 DEF Abstract!Next, Abstract!Revoke
  <2> QED
    BY <2>1, <2>2
<1>3. ASSUME NEW p \in DOMAIN live \cup {NULL}, NEW q, NEW n \in Sizes,
             StepExchanges(p, q, n)
      PROVE  Abstract!Next
  <2>1. n # 0 /\ (q = p \/ \A s : ~ InUse(blocks, q, s)) /\ q # NULL
    BY <1>3 DEF StepExchanges, Exchanged
  <2>2. q = p \/ q \notin DOMAIN live
    BY <1>0, <2>1 DEF IInv, Matches
  <2>3. /\ DOMAIN live' = (DOMAIN live \ {p}) \cup {q}
        /\ live'[q] = n
        /\ \A x \in DOMAIN live' \ {q} : live'[x] = live[x]
    BY <1>0, <1>3, ExchangedTable
  <2>4. q \in Addresses
    BY <1>0, <2>1, <2>3, PlacedInArena
  <2>5. CASE p = NULL
    <3>1. Forget(live, p) = live
      BY <1>0, <2>5, ForgetTable DEF IInv
    <3>2. live' = Abstract!With(live, q, n)
      BY <1>3, <3>1 DEF StepExchanges, Promise, Abstract!With
    <3>3. q \notin DOMAIN live
      BY <2>1, <2>2, <2>5
    <3>4. Abstract!Placeable(live, q, live'[q])
      <4>1. q \in DOMAIN live' /\ DOMAIN live \subseteq DOMAIN live' \ {q}
        BY <1>0, <2>3, <2>5, <3>3
      <4>2. \A x \in DOMAIN live : live[x] = live'[x]
        BY <2>3, <4>1
      <4> QED
        BY <1>0, <4>1, <4>2, PlacedIsPlaceable
    <3>5. Abstract!Grant(q, n)
      BY <2>1, <2>3, <3>2, <3>3, <3>4 DEF Abstract!Grant
    <3> QED
      BY <2>4, <3>5 DEF Abstract!Next
  <2>6. CASE p \in DOMAIN live
    <3> DEFINE g == Abstract!Without(live, p)
    <3>1. /\ DOMAIN g = DOMAIN live \ {p}
          /\ \A x \in DOMAIN g : g[x] = live[x]
      BY DEF Abstract!Without
    <3>2. live' = Abstract!With(g, q, n)
      BY <1>3 DEF StepExchanges, Promise, Forget, Abstract!With, Abstract!Without
    <3> HIDE DEF g
    <3>3. Abstract!Placeable(g, q, live'[q])
      <4>1. q \in DOMAIN live' /\ DOMAIN g \subseteq DOMAIN live' \ {q}
        BY <2>2, <2>3, <3>1
      <4>2. \A x \in DOMAIN g : g[x] = live'[x]
        BY <2>3, <3>1, <4>1
      <4> QED
        BY <1>0, <4>1, <4>2, PlacedIsPlaceable
    <3>4. q = p \/ (q \notin DOMAIN live /\ Abstract!Placeable(live, q, n))
      <4>1. CASE q = p
        BY <4>1
      <4>2. CASE q # p
        <5>1. q \notin DOMAIN live /\ q \in DOMAIN live'
          BY <2>2, <2>3, <4>2
        <5>2. PICK m \in Nat :
                /\ \A x, s : x # q /\ InUse(blocks, x, s) => q + m <= x \/ x + s <= q
                /\ \A x, s : InUse(blocks', x, s)
                               <=> (InUse(blocks, x, s) /\ x # p) \/ (x = q /\ s = m)
          BY <1>3 DEF StepExchanges, Exchanged
        <5>3. PICK u : InUse(blocks', q, u) /\ u >= n
          BY <1>0, <2>3, <5>1 DEF Placed
        <5>4. u = m
          BY <2>1, <4>2, <5>2, <5>3
        <5>5. ASSUME NEW x \in DOMAIN live
              PROVE  Abstract!Disjoint(q, n, x, live[x])
          <6>1. PICK s : InUse(blocks, x, s) /\ s >= live[x]
            BY <1>0 DEF Placed
          <6>2. x \in Nat /\ s \in Nat
            BY <1>0, <6>1, RegionInArena DEF IInv
          <6>3. q + m <= x \/ x + s <= q
            BY <5>1, <5>2, <6>1
          <6>4. live[x] \in Nat /\ n \in Nat /\ q \in Nat
            BY <1>0, <2>4, HeapAssumption DEF IInv, Addresses
          <6> QED
            BY <5>3, <5>4, <6>1, <6>2, <6>3, <6>4 DEF Abstract!Disjoint
        <5>6. Abstract!Placeable(g, q, n)
          BY <2>3, <3>3
        <5> QED
          BY <5>1, <5>5, <5>6 DEF Abstract!Placeable
      <4> QED
        BY <4>1, <4>2
    <3> QED
      BY <2>1, <2>3, <2>4, <2>6, <3>2, <3>3, <3>4 DEF Abstract!Next, Abstract!Resize, g
  <2> QED
    BY <2>5, <2>6
<1> QED
  BY <1>0, <1>1, <1>2, <1>3, StepCases

(* For every arena and every set of requests that do not wrap around, the  *)
(* heap of heap.cpp implements the contract of AllocatorContract.tla.      *)
THEOREM HeapImplementsContract == ASSUME NoWrap PROVE Spec => Contract
<1>1. Init => Abstract!Init
  BY DEF Init, Abstract!Init
<1>2. FitInv /\ FitInv' /\ [Next]_vars => [Abstract!Next]_live
  BY StepImplementsContract
<1> QED
  BY <1>1, <1>2, FitInvHolds, PTL DEF Spec, Contract, Abstract!Spec
=============================================================================
