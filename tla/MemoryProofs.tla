---------------------------- MODULE MemoryProofs ----------------------------
(***************************************************************************)
(* Proofs about the physical memory manager, for every size of a page, of  *)
(* a word of the bitmap and of the memory; and about paging, alone and in  *)
(* the memory of module Memory, for every number and size of the page      *)
(* tables, every place of the kernel in the low memory and a TLB of any    *)
(* size.                                                                   *)
(***************************************************************************)
EXTENDS Memory, FiniteSetTheorems, DataInduction, TLAPS

-----------------------------------------------------------------------------
(* Numbers *)

(* The frames of a memory of n frames, and how many there are.             *)
LEMMA MemoryIsFinite ==
  ASSUME NEW n \in Nat
  PROVE  IsFiniteSet(0 .. (n - 1)) /\ Cardinality(0 .. (n - 1)) = n
<1>1. IsFiniteSet(0 .. (n - 1)) /\ Cardinality(0 .. (n - 1)) = IF 0 > n - 1 THEN 0 ELSE (n - 1) - 0 + 1
  BY FS_Interval
<1> QED
  BY <1>1

-----------------------------------------------------------------------------
(* What first_free returns *)

(* The words of the bitmap have a bit for each frame. *)
LEMMA WordsSuffice ==
  ASSUME NEW n \in Nat
  PROVE  Words(n) \in Nat /\ n <= Words(n) * WordBits
<1>0. WordBits \in Nat \ {0}
  BY PhysMemAssumption
<1>1. n = WordBits * (n \div WordBits) + (n % WordBits) /\ n % WordBits \in 0 .. (WordBits - 1)
      /\ n \div WordBits \in Nat
  BY <1>0, Division
<1> DEFINE q == n \div WordBits
<1>2. WordBits * q = q * WordBits /\ (q + 1) * WordBits = q * WordBits + WordBits
  BY <1>0, <1>1
<1>3. CASE n % WordBits > 0
  <2>1. Words(n) = q + 1
    BY <1>3 DEF Words
  <2> QED
    BY <1>0, <1>1, <1>2, <2>1
<1>4. CASE ~ (n % WordBits > 0)
  <2>1. Words(n) = q + 0
    BY <1>4 DEF Words
  <2> QED
    BY <1>0, <1>1, <1>2, <1>4, <2>1
<1> QED
  BY <1>3, <1>4

Lowest(bits, total, f) ==
  /\ f \in 0 .. (total - 1) /\ f \notin bits
  /\ \A g \in 0 .. (total - 1) : g \notin bits => f <= g

(* The frame is in the word it is looked for in. *)
LEMMA OwnWord ==
  ASSUME NEW f \in Nat
  PROVE  /\ f \div WordBits \in Nat /\ (f \div WordBits) * WordBits \in Nat
         /\ (f \div WordBits) * WordBits <= f
         /\ f <= (f \div WordBits) * WordBits + WordBits - 1
<1>0. WordBits \in Nat \ {0}
  BY PhysMemAssumption
<1>1. f = WordBits * (f \div WordBits) + (f % WordBits) /\ f % WordBits \in 0 .. (WordBits - 1)
      /\ f \div WordBits \in Nat
  BY <1>0, Division
<1>2. WordBits * (f \div WordBits) = (f \div WordBits) * WordBits
  BY <1>0, <1>1
<1> QED
  BY <1>0, <1>1, <1>2

(* A frame of an earlier word has a smaller number. *)
LEMMA WordOrder ==
  ASSUME NEW f \in Nat, NEW g \in Nat, f < g
  PROVE  \/ f \div WordBits = g \div WordBits
         \/ f \div WordBits < g \div WordBits
<1>0. WordBits \in Nat \ {0}
  BY PhysMemAssumption
<1> DEFINE i == f \div WordBits
           j == g \div WordBits
<1>1. /\ i \in Nat /\ i * WordBits <= f
      /\ j \in Nat /\ g <= j * WordBits + WordBits - 1
  BY OwnWord
<1>2. ASSUME j < i PROVE FALSE
  <2>1. (j + 1) * WordBits <= i * WordBits
    BY <1>0, <1>1, <1>2
  <2>2. (j + 1) * WordBits = j * WordBits + WordBits
    BY <1>0, <1>1
  <2> QED
    BY <1>0, <1>1, <2>1, <2>2
<1> QED
  BY <1>1, <1>2

LEMMA LowestIsFound ==
  ASSUME NEW bits, NEW total \in Nat, NEW f, Lowest(bits, total, f)
  PROVE  f \in first_free(bits, total)
<1>1. f \in Nat /\ f < total /\ f \notin bits
  BY DEF Lowest
<1>2. WordBits \in Nat \ {0} /\ Words(total) * WordBits \in Nat
  BY PhysMemAssumption, WordsSuffice
<1>3. f \in 0 .. (Words(total) * WordBits - 1)
  BY <1>1, <1>2, WordsSuffice
<1> DEFINE i == f \div WordBits
<1>4. i \in Nat /\ i * WordBits \in Nat /\ i * WordBits <= f /\ f <= i * WordBits + WordBits - 1
  BY <1>1, OwnWord
<1>5. Candidate(bits, total, i, f)
  <2>1. f \in (i * WordBits) .. (i * WordBits + WordBits - 1)
    BY <1>1, <1>2, <1>4
  <2>2. ASSUME NEW g \in (i * WordBits) .. (f - 1) PROVE g \in bits
    <3>1. g \in 0 .. (total - 1) /\ ~ (f <= g)
      BY <1>1, <1>4
    <3> QED
      BY <3>1 DEF Lowest
  <2> QED
    BY <1>1, <2>1, <2>2 DEF Candidate
<1>6. ASSUME NEW j \in 0 .. (i - 1), NEW g \in 0 .. (f - 1), Candidate(bits, total, j, g)
      PROVE  FALSE
  <2>1. g \in 0 .. (total - 1) /\ ~ (f <= g)
    BY <1>1
  <2>2. g \notin bits
    BY <1>6 DEF Candidate
  <2> QED
    BY <2>1, <2>2 DEF Lowest
<1> QED
  BY <1>3, <1>5, <1>6 DEF first_free

LEMMA FoundIsLowest ==
  ASSUME NEW bits, NEW total \in Nat, NEW f \in first_free(bits, total)
  PROVE  Lowest(bits, total, f)
<1> DEFINE i == f \div WordBits
<1>0. WordBits \in Nat \ {0} /\ Words(total) * WordBits \in Nat
  BY PhysMemAssumption, WordsSuffice
<1>1. /\ f \in 0 .. (Words(total) * WordBits - 1)
      /\ Candidate(bits, total, i, f)
      /\ \A j \in 0 .. (i - 1), g \in 0 .. (f - 1) : ~ Candidate(bits, total, j, g)
  BY DEF first_free
<1>2. f \in Nat /\ f < total /\ f \notin bits
      /\ \A g \in (i * WordBits) .. (f - 1) : g \in bits
  BY <1>0, <1>1 DEF Candidate
<1>3. ASSUME NEW g \in 0 .. (total - 1), g \notin bits, g < f
      PROVE  FALSE
  <2> DEFINE Clear == {x \in 0 .. (f - 1) : x \notin bits}
  <2>1. g \in Clear /\ Clear \subseteq Nat
    BY <1>2, <1>3
  <2>2. PICK h \in Clear : \A y \in Clear : h <= y
    BY <2>1, Smallest
  <2>3. h \in Nat /\ h < f /\ h \notin bits
    <3>1. h \in 0 .. (f - 1) /\ h \notin bits
      BY <2>2
    <3> QED
      BY <1>2, <3>1
  <2> DEFINE j == h \div WordBits
  <2>4. j \in Nat /\ j * WordBits \in Nat /\ j * WordBits <= h /\ h <= j * WordBits + WordBits - 1
    BY <2>3, OwnWord
  <2>5. i \in Nat /\ i * WordBits \in Nat
    BY <1>2, OwnWord
  <2>6. j = i \/ j < i
    BY <1>2, <2>3, WordOrder
  <2>7. CASE j = i
    <3>1. h \in (i * WordBits) .. (f - 1)
      BY <1>2, <2>3, <2>4, <2>7
    <3> QED
      BY <1>2, <2>3, <3>1
  <2>8. CASE j < i
    <3>1. h \in (j * WordBits) .. (j * WordBits + WordBits - 1)
      BY <1>0, <2>3, <2>4
    <3>2. ASSUME NEW y \in (j * WordBits) .. (h - 1) PROVE y \in bits
      <4>1. y \in 0 .. (f - 1) /\ ~ (h <= y)
        BY <1>2, <2>3, <2>4
      <4> QED
        BY <2>2, <4>1
    <3>3. h < total
      BY <1>2, <2>3
    <3>4. Candidate(bits, total, j, h)
      BY <2>3, <3>1, <3>2, <3>3 DEF Candidate
    <3>5. j \in 0 .. (i - 1) /\ h \in 0 .. (f - 1)
      BY <1>2, <2>3, <2>4, <2>5, <2>8
    <3> QED
      BY <1>1, <3>4, <3>5
  <2> QED
    BY <2>6, <2>7, <2>8
<1>4. f \in 0 .. (total - 1)
  BY <1>2
<1>5. ASSUME NEW g \in 0 .. (total - 1), g \notin bits PROVE f <= g
  BY <1>2, <1>3, <1>5
<1> QED
  BY <1>2, <1>4, <1>5 DEF Lowest

(* first_free finds the lowest clear bit, also across words that are full  *)
(* and in a last word that is not full, and nothing if there is none.      *)
LEMMA FirstFreeIsLowest ==
  ASSUME NEW bits, NEW total \in Nat
  PROVE  /\ \A f : f \in first_free(bits, total) <=> Lowest(bits, total, f)
         /\ \A f, g \in first_free(bits, total) : f = g
         /\ first_free(bits, total) = {} <=> 0 .. (total - 1) \subseteq bits
<1>1. \A f : f \in first_free(bits, total) <=> Lowest(bits, total, f)
  BY LowestIsFound, FoundIsLowest
<1>2. ASSUME NEW f \in first_free(bits, total), NEW g \in first_free(bits, total)
      PROVE  f = g
  <2>1. f \in 0 .. (total - 1) /\ g \in 0 .. (total - 1) /\ f <= g /\ g <= f
    BY <1>1 DEF Lowest
  <2> QED
    BY <2>1
<1>3. ASSUME NEW h \in 0 .. (total - 1), h \notin bits PROVE first_free(bits, total) # {}
  <2> DEFINE Clear == {x \in 0 .. (total - 1) : x \notin bits}
  <2>1. PICK f \in Clear : \A y \in Clear : f <= y
    <3>1. h \in Clear /\ Clear \subseteq Nat
      BY <1>3
    <3> QED
      BY <3>1, Smallest
  <2>2. Lowest(bits, total, f)
    BY <2>1 DEF Lowest
  <2> QED
    BY <1>1, <2>2
<1>4. ASSUME NEW f \in first_free(bits, total) PROVE ~ (0 .. (total - 1) \subseteq bits)
  BY <1>1 DEF Lowest
<1> QED
  BY <1>1, <1>2, <1>3, <1>4

-----------------------------------------------------------------------------
(* The inductive invariant *)

(* The frames below an address: those of the kernel and the bitmap.        *)
Below(total, end) == {f \in 0 .. (total - 1) : f * PAGE_SIZE < end}

(* FramesAccountedFor, with the ranges its sums and its cardinalities      *)
(* need: a client's frame is one of the memory.                            *)
PhysInv ==
  /\ total_frames \in Nat /\ next_free_physical \in Nat
  /\ held \subseteq 0 .. (total_frames - 1)
  /\ FramesAccountedFor

LEMMA FiniteParts ==
  ASSUME NEW total \in Nat, NEW end, NEW H, H \subseteq 0 .. (total - 1)
  PROVE  /\ IsFiniteSet(H) /\ Cardinality(H) \in Nat
         /\ IsFiniteSet(Below(total, end)) /\ Cardinality(Below(total, end)) \in Nat
<1>1. IsFiniteSet(0 .. (total - 1))
  BY MemoryIsFinite
<1>2. Below(total, end) \subseteq 0 .. (total - 1)
  BY DEF Below
<1>3. IsFiniteSet(H) /\ IsFiniteSet(Below(total, end))
  BY <1>1, <1>2, FS_Subset
<1> QED
  BY <1>3, FS_CardinalityType

LEMMA UsedAreBits ==
  ASSUME PhysInv
  PROVE  /\ bitmap \subseteq 0 .. (total_frames - 1) /\ IsFiniteSet(bitmap)
         /\ used_frames = Cardinality(bitmap) /\ used_frames \in 0 .. total_frames
         /\ used_frames = total_frames => bitmap = 0 .. (total_frames - 1)
<1> DEFINE low == Below(total_frames, next_free_physical)
<1>1. /\ held \cap low = {} /\ bitmap = held \cup low
      /\ used_frames = Cardinality(held) + Cardinality(low)
  BY DEF PhysInv, FramesAccountedFor, Below
<1>2. total_frames \in Nat /\ held \subseteq 0 .. (total_frames - 1)
  BY DEF PhysInv
<1>3. low \subseteq 0 .. (total_frames - 1)
  BY DEF Below
<1>4. /\ IsFiniteSet(held) /\ Cardinality(held) \in Nat
      /\ IsFiniteSet(low) /\ Cardinality(low) \in Nat
  BY <1>2, FiniteParts
<1> HIDE DEF low
<1>5. IsFiniteSet(held \cup low)
      /\ Cardinality(held \cup low) = Cardinality(held) + Cardinality(low) - Cardinality(held \cap low)
  BY <1>4, FS_Union
<1>6. Cardinality(held \cap low) = 0
  BY <1>1, FS_EmptySet
<1>7. used_frames = Cardinality(bitmap) /\ used_frames \in Nat
  BY <1>1, <1>4, <1>5, <1>6
<1>8. bitmap \subseteq 0 .. (total_frames - 1)
  BY <1>1, <1>2, <1>3
<1>9. IsFiniteSet(0 .. (total_frames - 1)) /\ Cardinality(0 .. (total_frames - 1)) = total_frames
  BY <1>2, MemoryIsFinite
<1>10. /\ Cardinality(bitmap) <= Cardinality(0 .. (total_frames - 1))
       /\ Cardinality(0 .. (total_frames - 1)) = Cardinality(bitmap) => 0 .. (total_frames - 1) = bitmap
  BY <1>8, <1>9, FS_Subset
<1>11. used_frames \in 0 .. total_frames
  BY <1>2, <1>7, <1>9, <1>10
<1>12. used_frames = total_frames => bitmap = 0 .. (total_frames - 1)
  BY <1>7, <1>9, <1>10
<1> QED
  BY <1>1, <1>5, <1>7, <1>8, <1>11, <1>12

(* The counter tells whether first_free finds a frame. *)
LEMMA PhysInvImplies == PhysInv => TypeOK /\ FramesAccountedFor /\ FreeCountIsHonest
<1> SUFFICES ASSUME PhysInv PROVE TypeOK /\ FramesAccountedFor /\ FreeCountIsHonest
  OBVIOUS
<1>1. /\ bitmap \subseteq 0 .. (total_frames - 1) /\ IsFiniteSet(bitmap)
      /\ used_frames = Cardinality(bitmap) /\ used_frames \in 0 .. total_frames
      /\ used_frames = total_frames => bitmap = 0 .. (total_frames - 1)
  BY UsedAreBits
<1>2. total_frames \in Nat /\ Cardinality(0 .. (total_frames - 1)) = total_frames
  BY MemoryIsFinite DEF PhysInv
<1>3. TypeOK
  BY <1>1 DEF PhysInv, TypeOK
<1>4. total_frames > used_frames <=> first_free(bitmap, total_frames) # {}
  <2>1. first_free(bitmap, total_frames) = {} <=> 0 .. (total_frames - 1) \subseteq bitmap
    BY <1>2, FirstFreeIsLowest
  <2>2. CASE 0 .. (total_frames - 1) \subseteq bitmap
    <3>1. bitmap = 0 .. (total_frames - 1)
      BY <1>1, <2>2
    <3>2. used_frames = total_frames
      BY <1>1, <1>2, <3>1
    <3> QED
      BY <1>2, <2>1, <2>2, <3>2
  <2>3. CASE ~ (0 .. (total_frames - 1) \subseteq bitmap)
    <3>1. used_frames # total_frames
      BY <1>1, <2>3
    <3> QED
      BY <1>1, <1>2, <2>1, <2>3, <3>1
  <2> QED
    BY <2>2, <2>3
<1>5. total_frames - used_frames = Cardinality(0 .. (total_frames - 1)) - Cardinality(bitmap)
  BY <1>1, <1>2
<1> QED
  BY <1>3, <1>4, <1>5 DEF PhysInv, FreeCountIsHonest

-----------------------------------------------------------------------------
(* The calls *)

LEMMA InitPhysInv == Init => PhysInv
<1> SUFFICES ASSUME Init PROVE PhysInv
  OBVIOUS
<1>1. Below(0, kernel_end) = {}
  BY DEF Below
<1>2. Cardinality({}) = 0
  BY FS_EmptySet
<1>3. FramesAccountedFor
  BY <1>1, <1>2 DEF Init, FramesAccountedFor, Below
<1>4. kernel_end \in Nat
  BY PhysMemAssumption
<1> QED
  BY <1>3, <1>4 DEF Init, PhysInv

(* The end of the bitmap is an address of the memory, so the loop of       *)
(* initialize sets the bits of the frames below it and no others.          *)
LEMMA InitializeKeepsPhysInv ==
  ASSUME PhysInv, NEW n \in MemSizes, initialize(n)
  PROVE  PhysInv'
<1> DEFINE base == align_up(next_free_physical)
           end == base + Words(n) * WordBytes
<1>0. n \in Nat /\ PAGE_SIZE \in Nat \ {0} /\ WordBytes \in Nat
  BY PhysMemAssumption
<1>1. base \in Nat
  <2>1. next_free_physical + PAGE_SIZE - 1 \in Nat
    BY <1>0 DEF PhysInv
  <2>2. (next_free_physical + PAGE_SIZE - 1) \div PAGE_SIZE \in Nat
    BY <1>0, <2>1, Division
  <2> QED
    BY <1>0, <2>2 DEF align_up
<1>2. end \in Nat
  <2>1. Words(n) \in Nat
    BY <1>0, WordsSuffice
  <2> QED
    BY <1>0, <1>1, <2>1
<1>3. /\ held = {} /\ held' = {} /\ end <= n * PAGE_SIZE
      /\ total_frames' = n /\ next_free_physical' = end
      /\ bitmap' = Reserved(end) /\ used_frames' = Cardinality(Reserved(end))
  BY DEF initialize
<1> HIDE DEF end
<1>4. Reserved(end) = Below(n, end)
  <2>1. ASSUME NEW f \in 0 .. end, f * PAGE_SIZE < end
        PROVE  f \in 0 .. (n - 1)
    <3>1. ASSUME f >= n PROVE FALSE
      <4>1. f * PAGE_SIZE >= n * PAGE_SIZE
        BY <1>0, <1>2, <3>1
      <4>2. f * PAGE_SIZE \in Int /\ n * PAGE_SIZE \in Int
        BY <1>0, <1>2
      <4> QED
        BY <1>2, <1>3, <2>1, <4>1, <4>2
    <3> QED
      BY <1>0, <1>2, <3>1
  <2>2. ASSUME NEW f \in 0 .. (n - 1), f * PAGE_SIZE < end
        PROVE  f \in 0 .. end
    <3>1. f <= f * PAGE_SIZE
      BY <1>0
    <3>2. f * PAGE_SIZE \in Int
      BY <1>0
    <3> QED
      BY <1>0, <1>2, <2>2, <3>1, <3>2
  <2> QED
    BY <2>1, <2>2 DEF Reserved, Below
<1>5. Cardinality({}) = 0 /\ Cardinality(Below(n, end)) \in Nat
  BY <1>0, FS_EmptySet, FiniteParts
<1>6. FramesAccountedFor'
  BY <1>3, <1>4, <1>5 DEF FramesAccountedFor, Below
<1> QED
  BY <1>0, <1>2, <1>3, <1>6 DEF PhysInv

LEMMA AllocateKeepsPhysInv == PhysInv /\ allocate_frame => PhysInv'
<1> SUFFICES ASSUME PhysInv, allocate_frame PROVE PhysInv'
  OBVIOUS
<1> DEFINE low == Below(total_frames, next_free_physical)
<1>1. PICK f \in first_free(bitmap, total_frames) :
        /\ bitmap' = set_frame(bitmap, f) /\ used_frames' = used_frames + 1
        /\ held' = held \cup {f} /\ UNCHANGED <<total_frames, next_free_physical>>
  BY DEF allocate_frame, Taken
<1>2. f \in 0 .. (total_frames - 1) /\ f \notin bitmap
  BY FirstFreeIsLowest DEF PhysInv, Lowest
<1>3. /\ held \cap low = {} /\ bitmap = held \cup low
      /\ used_frames = Cardinality(held) + Cardinality(low)
  BY DEF PhysInv, FramesAccountedFor, Below
<1>4. /\ IsFiniteSet(held) /\ Cardinality(held) \in Nat /\ Cardinality(low) \in Nat
  BY FiniteParts DEF PhysInv
<1>5. f \notin held /\ f \notin low
  BY <1>2, <1>3
<1>6. Cardinality(held \cup {f}) = Cardinality(held) + 1
  BY <1>4, <1>5, FS_AddElement
<1>7. used_frames' = Cardinality(held') + Cardinality(low)
  BY <1>1, <1>3, <1>4, <1>6
<1>8. held' \cap low = {} /\ bitmap' = held' \cup low
  BY <1>1, <1>3, <1>5 DEF set_frame
<1>9. low' = low
  BY <1>1 DEF Below
<1>10. FramesAccountedFor'
  BY <1>7, <1>8, <1>9 DEF FramesAccountedFor, Below
<1> QED
  BY <1>1, <1>2, <1>10 DEF PhysInv

(* Clients give back frames they have, one or, in the loop of a test, many.*)
LEMMA FreeingKeepsPhysInv ==
  ASSUME PhysInv, NEW S, S \subseteq held,
         bitmap' = bitmap \ S, used_frames' = used_frames - Cardinality(S), held' = held \ S,
         UNCHANGED <<total_frames, next_free_physical>>
  PROVE  PhysInv'
<1> DEFINE low == Below(total_frames, next_free_physical)
<1>1. /\ held \cap low = {} /\ bitmap = held \cup low
      /\ used_frames = Cardinality(held) + Cardinality(low)
  BY DEF PhysInv, FramesAccountedFor, Below
<1>2. /\ IsFiniteSet(held) /\ Cardinality(held) \in Nat /\ Cardinality(low) \in Nat
      /\ IsFiniteSet(S) /\ Cardinality(S) \in Nat
  BY FiniteParts DEF PhysInv
<1>3. Cardinality(held \ S) = Cardinality(held) - Cardinality(S)
  <2>1. held \cap S = S
    OBVIOUS
  <2> QED
    BY <1>2, <2>1, FS_Difference
<1>4. held' \cap low = {} /\ bitmap' = held' \cup low
  BY <1>1
<1>5. used_frames' = Cardinality(held') + Cardinality(low)
  BY <1>1, <1>2, <1>3
<1>6. low' = low
  BY DEF Below
<1>7. FramesAccountedFor'
  BY <1>4, <1>5, <1>6 DEF FramesAccountedFor, Below
<1> QED
  BY <1>7 DEF PhysInv

LEMMA FreeKeepsPhysInv ==
  ASSUME PhysInv, NEW f \in held, free_frame(f)
  PROVE  PhysInv'
<1>1. Cardinality({f}) = 1
  BY FS_Singleton
<1> QED
  BY <1>1, FreeingKeepsPhysInv DEF free_frame, clear_frame

LEMMA PhysUnchanged == PhysInv /\ UNCHANGED vars => PhysInv'
BY DEF PhysInv, FramesAccountedFor, vars

LEMMA NextKeepsPhysInv == PhysInv /\ [Next]_vars => PhysInv'
<1> SUFFICES ASSUME PhysInv, [Next]_vars PROVE PhysInv'
  OBVIOUS
<1>1. CASE \E n \in MemSizes : initialize(n)
  BY <1>1, InitializeKeepsPhysInv
<1>2. CASE allocate_frame
  BY <1>2, AllocateKeepsPhysInv
<1>3. CASE \E f \in held : free_frame(f)
  BY <1>3, FreeKeepsPhysInv
<1>4. CASE UNCHANGED vars
  BY <1>4, PhysUnchanged
<1> QED
  BY <1>1, <1>2, <1>3, <1>4 DEF Next

LEMMA PhysInvHolds == Spec => []PhysInv
BY InitPhysInv, NextKeepsPhysInv, PTL DEF Spec

(* The used frames are the clients' and those of the kernel and the        *)
(* bitmap: no sequence of calls hands a frame out twice, hands out one of  *)
(* the kernel's, or loses one (memory.cpp:48-87).                          *)
THEOREM NoFrameIsLost == Spec => []FramesAccountedFor
<1>1. PhysInv => FramesAccountedFor
  BY PhysInvImplies
<1> QED
  BY <1>1, PhysInvHolds, PTL

(* get_free_frames is the number of clear bits, and first_free finds a     *)
(* frame exactly when there is one, in whichever word (memory.cpp:89-135). *)
THEOREM CounterIsHonest == Spec => []FreeCountIsHonest
<1>1. PhysInv => FreeCountIsHonest
  BY PhysInvImplies
<1> QED
  BY <1>1, PhysInvHolds, PTL

-----------------------------------------------------------------------------
(* Pages and the tables they are in *)

Quot(v) == v \div PTE_ENTRIES
Rem(v) == v % PTE_ENTRIES

LEMMA DivBelow ==
  ASSUME NEW n \in Nat \ {0}, NEW t \in Nat, NEW v \in Nat
  PROVE  v \div n < t <=> v < t * n
<1> DEFINE q == v \div n
<1>1. v = n * q + (v % n) /\ v % n \in 0 .. (n - 1) /\ q \in Nat
  BY Division
<1>2. ASSUME q >= t PROVE v >= t * n
  <2>1. n * q >= n * t
    BY <1>1, <1>2
  <2> QED
    BY <1>1, <2>1
<1>3. ASSUME q < t PROVE v < t * n
  <2>1. n * (q + 1) <= n * t
    BY <1>1, <1>3
  <2>2. n * (q + 1) = n * q + n
    BY <1>1
  <2> QED
    BY <1>1, <2>1, <2>2
<1> QED
  BY <1>1, <1>2, <1>3

(* A page is in the directory, at one place of one table; the low pages    *)
(* are those with a table.                                                 *)
LEMMA PagePlace ==
  ASSUME NEW v \in Pages
  PROVE  /\ v \in Nat /\ Quot(v) \in 0 .. (PDE_ENTRIES - 1)
         /\ Rem(v) \in 0 .. (PTE_ENTRIES - 1)
         /\ Quot(v) < TABLES <=> v \in LowPages
         /\ phys_addr(Quot(v), Rem(v)) = v
<1>1. v \in Nat /\ v < PDE_ENTRIES * PTE_ENTRIES
  BY PagingAssumption DEF Pages
<1>2. Quot(v) \in Nat /\ Rem(v) \in 0 .. (PTE_ENTRIES - 1)
  BY <1>1, Division, PagingAssumption DEF Quot, Rem
<1>3. Quot(v) < PDE_ENTRIES
  BY <1>1, DivBelow, PagingAssumption DEF Quot
<1>4. Quot(v) < TABLES <=> v < TABLES * PTE_ENTRIES
  BY <1>1, DivBelow, PagingAssumption DEF Quot
<1>5. v \in LowPages <=> v < TABLES * PTE_ENTRIES
  BY <1>1, PagingAssumption DEF LowPages
<1>6. v = PTE_ENTRIES * Quot(v) + Rem(v)
  BY <1>1, Division, PagingAssumption DEF Quot, Rem
<1>7. PTE_ENTRIES * Quot(v) = Quot(v) * PTE_ENTRIES
  BY <1>2, PagingAssumption
<1> QED
  BY <1>1, <1>2, <1>3, <1>4, <1>5, <1>6, <1>7, PagingAssumption DEF phys_addr

LEMMA LowIsPage == LowPages \subseteq Pages
<1>1. TABLES * PTE_ENTRIES <= PDE_ENTRIES * PTE_ENTRIES
  BY PagingAssumption
<1> QED
  BY <1>1, PagingAssumption DEF LowPages, Pages

(* Each table has a frame of its own, which is a page of the kernel.       *)
LEMMA TableFrames1 ==
  ASSUME NEW t \in 0 .. (TABLES - 1)
  PROVE  /\ TableFrame[t] \in TableFrames /\ TableFrame[t] \in KernelPages
         /\ \A u \in 0 .. (TABLES - 1) : TableFrame[u] = TableFrame[t] => u = t
BY PagingAssumption DEF TableFrames, Injection, IsInjective

-----------------------------------------------------------------------------
(* The inductive invariant *)

(* The entry of a page in its table. *)
InTable(v) == tables[TableFrame[Quot(v)]][Rem(v)]

Directory ==
  [i \in 0 .. (PDE_ENTRIES - 1) |->
     IF i < TABLES THEN Entry(TableFrame[i], TRUE) ELSE Absent]

Call(place, v, e) ==
  [at |-> place, page |-> v, entry |-> e, table |-> TableFrame[Quot(v)]]

(* The directory names the tables, and is never changed again.             *)
Structure ==
  /\ mmu \in {"off", "ready", "on"} /\ fault \in BOOLEAN
  /\ mmu # "off" => kernel_page_directory = Directory
  /\ DOMAIN tables = TableFrames
  /\ \A f \in TableFrames : DOMAIN tables[f] = 0 .. (PTE_ENTRIES - 1)

(* The low memory is mapped to itself until clients begin, and the kernel  *)
(* for good.                                                               *)
Identity ==
  /\ mmu = "ready" => \A v \in LowPages : InTable(v) = Entry(v, TRUE)
  /\ mmu = "on" => \A v \in KernelPages : InTable(v) = Entry(v, TRUE)

(* A call under way concerns a page of a client that has a table.          *)
CallRight ==
  \/ call = NoCall
  \/ /\ mmu = "on" /\ fault = FALSE
     /\ \E place \in {"write", "invlpg"}, v \in ClientPages \cap LowPages, e \in Entries :
          call = Call(place, v, e)

(* The TLB is empty until paging is on.  An entry of it is right, or is    *)
(* that of the page just written; and that page has its new entry.         *)
TlbRight ==
  /\ DOMAIN tlb \subseteq Pages
  /\ mmu # "on" => DOMAIN tlb = {}
  /\ mmu = "on" => \A v \in DOMAIN tlb :
                     tlb[v] = Walk(v) \/ (call.at = "invlpg" /\ call.page = v)
  /\ call.at = "invlpg" => InTable(call.page) = call.entry

PInv == Structure /\ Identity /\ CallRight /\ TlbRight

-----------------------------------------------------------------------------
LEMMA WalkIs ==
  ASSUME Structure, mmu # "off", NEW v \in Pages
  PROVE  Walk(v) = IF v \in LowPages THEN InTable(v) ELSE Absent
<1>1. Quot(v) \in 0 .. (PDE_ENTRIES - 1) /\ (Quot(v) < TABLES <=> v \in LowPages)
  BY PagePlace
<1>2. kernel_page_directory[Quot(v)] =
        IF v \in LowPages THEN Entry(TableFrame[Quot(v)], TRUE) ELSE Absent
  BY <1>1 DEF Structure, Directory
<1>3. CASE v \in LowPages
  BY <1>2, <1>3 DEF Walk, InTable, Entry, Quot, Rem
<1>4. CASE v \notin LowPages
  BY <1>2, <1>4 DEF Walk, Absent, Quot
<1> QED
  BY <1>3, <1>4

LEMMA WalkAfter ==
  ASSUME Structure', mmu' # "off", NEW v \in Pages
  PROVE  Walk(v)' = IF v \in LowPages THEN InTable(v)' ELSE Absent
<1>1. Quot(v) \in 0 .. (PDE_ENTRIES - 1) /\ (Quot(v) < TABLES <=> v \in LowPages)
  BY PagePlace
<1>2. kernel_page_directory'[Quot(v)] =
        IF v \in LowPages THEN Entry(TableFrame[Quot(v)], TRUE) ELSE Absent
  BY <1>1 DEF Structure, Directory
<1>3. CASE v \in LowPages
  BY <1>2, <1>3 DEF Walk, InTable, Entry, Quot, Rem
<1>4. CASE v \notin LowPages
  BY <1>2, <1>4 DEF Walk, Absent, Quot
<1> QED
  BY <1>3, <1>4

LEMMA KernelLookup ==
  ASSUME PInv, NEW v \in KernelPages
  PROVE  Lookup(v) = Entry(v, TRUE)
<1>1. v \in LowPages /\ v \in Pages
  BY LowIsPage, PagingAssumption
<1>2. CASE mmu # "on"
  BY <1>2 DEF Lookup
<1>3. CASE mmu = "on"
  <2>1. Walk(v) = Entry(v, TRUE)
    BY <1>1, <1>3, WalkIs DEF PInv, Structure, Identity
  <2>2. ~ (call.at = "invlpg" /\ call.page = v)
    BY DEF PInv, CallRight, NoCall, Call, ClientPages
  <2>3. v \in DOMAIN tlb => tlb[v] = Walk(v)
    BY <1>3, <2>2 DEF PInv, TlbRight
  <2> QED
    BY <1>3, <2>1, <2>3 DEF Lookup
<1> QED
  BY <1>2, <1>3

LEMMA PInvImplies == PInv => Coherent /\ KernelInPlace
<1> SUFFICES ASSUME PInv PROVE Coherent /\ KernelInPlace
  OBVIOUS
<1>1. Coherent
  BY DEF PInv, TlbRight, Coherent
<1>2. KernelInPlace
  BY KernelLookup DEF PInv, CallRight, KernelInPlace
<1> QED
  BY <1>1, <1>2

LEMMA InitPInv == PagingInit => PInv
<1> SUFFICES ASSUME PagingInit PROVE PInv
  OBVIOUS
<1>1. Structure
  BY DEF PagingInit, Structure
<1>2. Identity /\ CallRight
  BY DEF PagingInit, Identity, CallRight
<1>3. DOMAIN tlb = {}
  BY DEF PagingInit
<1>4. TlbRight
  BY <1>3 DEF PagingInit, TlbRight, NoCall
<1> QED
  BY <1>1, <1>2, <1>4 DEF PInv

-----------------------------------------------------------------------------
(* The steps *)

LEMMA InitKeepsPInv == PInv /\ vmm_init => PInv'
<1> SUFFICES ASSUME PInv, vmm_init PROVE PInv'
  OBVIOUS
<1>1. /\ mmu = "off" /\ mmu' = "ready" /\ UNCHANGED <<tlb, call, fault>>
  BY DEF vmm_init
<1>2. kernel_page_directory' = Directory
  BY DEF vmm_init, Directory, kernel_page_table
<1>3. Structure'
  <2>1. fault' \in BOOLEAN
    BY <1>1 DEF PInv, Structure
  <2>2. /\ DOMAIN tables' = TableFrames
        /\ \A f \in TableFrames : DOMAIN tables'[f] = 0 .. (PTE_ENTRIES - 1)
    BY DEF vmm_init
  <2> QED
    BY <1>1, <1>2, <2>1, <2>2 DEF Structure, Directory
<1>4. Identity'
  <2> SUFFICES ASSUME NEW v \in LowPages PROVE InTable(v)' = Entry(v, TRUE)
    BY <1>1 DEF Identity
  <2>1. v \in Pages
    BY LowIsPage
  <2>2. /\ Quot(v) \in 0 .. (TABLES - 1) /\ Rem(v) \in 0 .. (PTE_ENTRIES - 1)
        /\ phys_addr(Quot(v), Rem(v)) = v
    BY <2>1, PagePlace, PagingAssumption
  <2>3. (CHOOSE n \in 0 .. (TABLES - 1) : TableFrame[n] = TableFrame[Quot(v)]) = Quot(v)
    BY <2>2, TableFrames1
  <2>4. tables'[TableFrame[Quot(v)]] =
          [i \in 0 .. (PTE_ENTRIES - 1) |-> Entry(phys_addr(Quot(v), i), TRUE)]
    BY <2>2, <2>3, TableFrames1 DEF vmm_init
  <2> QED
    BY <2>2, <2>4 DEF InTable, Quot, Rem
<1>5. call = NoCall
  BY <1>1 DEF PInv, CallRight
<1>6. CallRight'
  BY <1>1, <1>5 DEF CallRight
<1>7. TlbRight'
  BY <1>1, <1>5 DEF PInv, TlbRight, NoCall
<1> QED
  BY <1>3, <1>4, <1>6, <1>7 DEF PInv

LEMMA EnableKeepsPInv == PInv /\ vmm_enable => PInv'
<1> SUFFICES ASSUME PInv, vmm_enable PROVE PInv'
  OBVIOUS
<1>1. /\ mmu = "ready" /\ mmu' = "on" /\ DOMAIN tlb' = {}
      /\ UNCHANGED <<kernel_page_directory, tables, call, fault>>
  BY DEF vmm_enable
<1>2. call = NoCall
  BY <1>1 DEF PInv, CallRight
<1>3. Structure' /\ CallRight'
  BY <1>1, <1>2 DEF PInv, Structure, CallRight
<1>4. Identity'
  BY <1>1, PagingAssumption DEF PInv, Identity, InTable, Quot, Rem
<1>5. TlbRight'
  BY <1>1, <1>2 DEF TlbRight, NoCall
<1> QED
  BY <1>3, <1>4, <1>5 DEF PInv

(* vmm_map begins a call, or returns at once when there is no table.       *)
LEMMA MapBegins ==
  ASSUME PInv, NEW v \in ClientPages, NEW p \in Frames, NEW rw \in BOOLEAN, vmm_map(v, p, rw)
  PROVE  /\ mmu = "on" /\ call = NoCall /\ fault = FALSE
         /\ UNCHANGED <<kernel_page_directory, tables, mmu, tlb, fault>>
         /\ call' = IF v \in LowPages THEN Call("write", v, Entry(p, rw)) ELSE NoCall
<1>1. mmu = "on" /\ call = NoCall /\ fault = FALSE
  BY DEF vmm_map, PInv, Structure
<1>2. v \in Pages
  BY DEF ClientPages
<1>3. /\ Quot(v) \in 0 .. (PDE_ENTRIES - 1)
      /\ Quot(v) < TABLES <=> v \in LowPages
  BY <1>2, PagePlace
<1>4. kernel_page_directory[Quot(v)] =
        IF v \in LowPages THEN Entry(TableFrame[Quot(v)], TRUE) ELSE Absent
  BY <1>1, <1>3 DEF PInv, Structure, Directory
<1>5. call' = IF kernel_page_directory[Quot(v)].present
                THEN [at |-> "write", page |-> v, entry |-> Entry(p, rw),
                      table |-> kernel_page_directory[Quot(v)].frame]
                ELSE NoCall
  BY DEF vmm_map, pd_index, Quot
<1>6. UNCHANGED <<kernel_page_directory, tables, mmu, tlb, fault>>
  BY DEF vmm_map
<1>7. CASE v \in LowPages
  <2>1. /\ kernel_page_directory[Quot(v)].present
        /\ kernel_page_directory[Quot(v)].frame = TableFrame[Quot(v)]
    BY <1>4, <1>7 DEF Entry
  <2>2. call' = Call("write", v, Entry(p, rw))
    BY <1>5, <2>1 DEF Call
  <2> QED
    BY <1>1, <1>6, <1>7, <2>2
<1>8. CASE v \notin LowPages
  <2>1. ~ kernel_page_directory[Quot(v)].present
    BY <1>4, <1>8 DEF Absent
  <2> QED
    BY <1>1, <1>5, <1>6, <1>8, <2>1
<1> QED
  BY <1>7, <1>8

(* The frame of the table is written where the kernel expects it, and no   *)
(* other page changes its entry.                                           *)
LEMMA WriteIsLocal ==
  ASSUME PInv, WriteEntry
  PROVE  /\ mmu = "on" /\ UNCHANGED <<kernel_page_directory, mmu, tlb, fault>>
         /\ DOMAIN tables' = DOMAIN tables
         /\ \A f \in DOMAIN tables : DOMAIN tables'[f] = DOMAIN tables[f]
         /\ \E v \in ClientPages \cap LowPages, e \in Entries :
              /\ call = Call("write", v, e) /\ call' = Call("invlpg", v, e)
              /\ \A u \in LowPages : InTable(u)' = IF u = v THEN e ELSE InTable(u)
<1>1. call.at = "write"
  BY DEF WriteEntry
<1>2. call # NoCall
  BY <1>1 DEF NoCall
<1>3. mmu = "on" /\ fault = FALSE
  BY <1>2 DEF PInv, CallRight
<1>4. PICK place \in {"write", "invlpg"}, v \in ClientPages \cap LowPages, e \in Entries :
        call = Call(place, v, e)
  BY <1>2 DEF PInv, CallRight
<1>5. call = Call("write", v, e)
  BY <1>1, <1>4 DEF Call
<1>6. /\ call.page = v /\ call.entry = e /\ call.table = TableFrame[Quot(v)]
      /\ [call EXCEPT !.at = "invlpg"] = Call("invlpg", v, e)
  BY <1>5 DEF Call
<1>7. call' = Call("invlpg", v, e)
  BY <1>6 DEF WriteEntry
<1>8. v \in Pages /\ Quot(v) \in 0 .. (TABLES - 1) /\ Rem(v) \in 0 .. (PTE_ENTRIES - 1)
  BY LowIsPage, PagePlace, PagingAssumption
<1>9. call.table \in TableFrames /\ call.table \in KernelPages
  BY <1>6, <1>8, TableFrames1
<1>10. Lookup(call.table) = Entry(call.table, TRUE)
  BY <1>9, KernelLookup
<1>11. Lookup(call.table).present = TRUE /\ Lookup(call.table).frame = call.table
  BY <1>10 DEF Entry
<1>12. fault' = fault
  BY <1>3, <1>11 DEF WriteEntry
<1>13. tables' = [tables EXCEPT ![call.table][Rem(v)] = e]
  BY <1>6, <1>9, <1>11 DEF WriteEntry, pt_index, Rem
<1>14. UNCHANGED <<kernel_page_directory, mmu, tlb>>
  BY DEF WriteEntry
<1>15. /\ DOMAIN tables' = DOMAIN tables
       /\ \A f \in DOMAIN tables : DOMAIN tables'[f] = DOMAIN tables[f]
  BY <1>13
<1>16. ASSUME NEW u \in LowPages
       PROVE  InTable(u)' = IF u = v THEN e ELSE InTable(u)
  <2>1. u \in Pages /\ Quot(u) \in 0 .. (TABLES - 1) /\ Rem(u) \in 0 .. (PTE_ENTRIES - 1)
    BY LowIsPage, PagePlace, PagingAssumption
  <2>2. TableFrame[Quot(u)] \in TableFrames
    BY <2>1, TableFrames1
  <2>3. TableFrame[Quot(u)] = call.table /\ Rem(u) = Rem(v) => u = v
    <3>1. TableFrame[Quot(u)] = call.table => Quot(u) = Quot(v)
      BY <1>6, <1>8, <2>1, TableFrames1
    <3>2. phys_addr(Quot(u), Rem(u)) = u /\ phys_addr(Quot(v), Rem(v)) = v
      BY <1>8, <2>1, PagePlace
    <3> QED
      BY <3>1, <3>2
  <2>4. InTable(u)' = tables'[TableFrame[Quot(u)]][Rem(u)]
    BY DEF InTable, Quot, Rem
  <2>5. /\ DOMAIN tables = TableFrames
        /\ DOMAIN tables[TableFrame[Quot(u)]] = 0 .. (PTE_ENTRIES - 1)
    BY <2>2 DEF PInv, Structure
  <2>6. CASE u = v
    BY <1>6, <1>13, <2>1, <2>2, <2>4, <2>5, <2>6
  <2>7. CASE u # v
    BY <1>13, <2>1, <2>2, <2>3, <2>4, <2>5, <2>7 DEF InTable
  <2> QED
    BY <2>6, <2>7
<1> QED
  BY <1>3, <1>4, <1>5, <1>7, <1>12, <1>14, <1>15, <1>16

LEMMA MapKeepsPInv ==
  ASSUME PInv, NEW v \in ClientPages, NEW p \in Frames, NEW rw \in BOOLEAN, vmm_map(v, p, rw)
  PROVE  PInv'
<1>1. /\ mmu = "on" /\ call = NoCall /\ fault = FALSE
      /\ UNCHANGED <<kernel_page_directory, tables, mmu, tlb, fault>>
      /\ call' = IF v \in LowPages THEN Call("write", v, Entry(p, rw)) ELSE NoCall
  BY MapBegins
<1>2. Structure' /\ Identity'
  BY <1>1 DEF PInv, Structure, Identity, InTable, Quot, Rem
<1>3. Entry(p, rw) \in Entries
  BY DEF Entries
<1>4. CallRight'
  BY <1>1, <1>3 DEF CallRight, Call, Quot
<1>5. call'.at # "invlpg" /\ call.at # "invlpg"
  BY <1>1 DEF Call, NoCall
<1>6. TlbRight'
  BY <1>1, <1>5 DEF PInv, TlbRight, Walk
<1> QED
  BY <1>2, <1>4, <1>6 DEF PInv

LEMMA WriteKeepsPInv == PInv /\ WriteEntry => PInv'
<1> SUFFICES ASSUME PInv, WriteEntry PROVE PInv'
  OBVIOUS
<1>1. /\ mmu = "on" /\ UNCHANGED <<kernel_page_directory, mmu, tlb, fault>>
      /\ DOMAIN tables' = DOMAIN tables
      /\ \A f \in DOMAIN tables : DOMAIN tables'[f] = DOMAIN tables[f]
  BY WriteIsLocal
<1>2. PICK v \in ClientPages \cap LowPages, e \in Entries :
        /\ call = Call("write", v, e) /\ call' = Call("invlpg", v, e)
        /\ \A u \in LowPages : InTable(u)' = IF u = v THEN e ELSE InTable(u)
  BY WriteIsLocal
<1>3. Structure'
  BY <1>1 DEF PInv, Structure, Directory
<1>4. Identity'
  BY <1>1, <1>2, PagingAssumption DEF PInv, Identity, ClientPages
<1>5. call # NoCall /\ call.at # "invlpg"
  BY <1>2 DEF Call, NoCall
<1>6. CallRight'
  <2>1. mmu' = "on" /\ fault' = FALSE
    BY <1>1, <1>5 DEF PInv, CallRight
  <2> QED
    BY <1>2, <2>1 DEF CallRight, Call, Quot
<1>7. TlbRight'
  <2>1. call'.at = "invlpg" /\ call'.page = v /\ call'.entry = e
    BY <1>2 DEF Call
  <2>2. InTable(call.page)' = call'.entry
    BY <1>2, <2>1 DEF InTable, Quot, Rem
  <2>3. ASSUME NEW u \in DOMAIN tlb, u # v PROVE tlb[u] = Walk(u)'
    <3>1. u \in Pages /\ tlb[u] = Walk(u)
      BY <1>1, <1>5 DEF PInv, TlbRight
    <3>2. Walk(u) = IF u \in LowPages THEN InTable(u) ELSE Absent
      BY <1>1, <3>1, WalkIs DEF PInv
    <3>3. Walk(u)' = IF u \in LowPages THEN InTable(u)' ELSE Absent
      <4>1. Structure' /\ mmu' # "off"
        BY <1>1, <1>3
      <4> QED
        BY <3>1, <4>1, WalkAfter
    <3> QED
      BY <1>2, <2>3, <3>1, <3>2, <3>3
  <2> QED
    BY <1>1, <2>1, <2>2, <2>3 DEF PInv, TlbRight
<1> QED
  BY <1>3, <1>4, <1>6, <1>7 DEF PInv

LEMMA DoneKeepsPInv == PInv /\ MapDone => PInv'
<1> SUFFICES ASSUME PInv, MapDone PROVE PInv'
  OBVIOUS
<1>1. /\ call.at = "invlpg" /\ call' = NoCall
      /\ UNCHANGED <<kernel_page_directory, tables, mmu, fault>>
  BY DEF MapDone
<1>2. DOMAIN tlb' = DOMAIN tlb \ {call.page} /\ \A u \in DOMAIN tlb' : tlb'[u] = tlb[u]
  BY DEF MapDone, invlpg, Without, Restrict
<1>3. Structure' /\ Identity'
  BY <1>1 DEF PInv, Structure, Identity, InTable, Quot, Rem
<1>4. CallRight'
  BY <1>1 DEF CallRight
<1>5. call'.at # "invlpg"
  BY <1>1 DEF NoCall
<1>6. \A u : Walk(u)' = Walk(u)
  BY <1>1 DEF Walk
<1>7. TlbRight'
  BY <1>1, <1>2, <1>5, <1>6 DEF PInv, TlbRight
<1> QED
  BY <1>3, <1>4, <1>7 DEF PInv

LEMMA CpuKeepsPInv == PInv /\ Cpu => PInv'
<1> SUFFICES ASSUME PInv, Cpu PROVE PInv'
  OBVIOUS
<1>1. UNCHANGED <<kernel_page_directory, tables, mmu, call, fault>>
  BY DEF Cpu, Fill, Evict
<1>2. Structure' /\ Identity' /\ CallRight'
  BY <1>1 DEF PInv, Structure, Identity, CallRight, InTable, Quot, Rem
<1>3. PICK v \in Pages : Fill(v) \/ Evict(v)
  BY DEF Cpu
<1>4. \A u : Walk(u)' = Walk(u)
  BY <1>1 DEF Walk
<1>5. InTable(call.page)' = InTable(call.page)
  BY <1>1 DEF InTable, Quot, Rem
<1>6. CASE Fill(v)
  <2>1. /\ mmu = "on" /\ DOMAIN tlb' = DOMAIN tlb \cup {v}
        /\ \A u \in DOMAIN tlb' : tlb'[u] = IF u = v THEN Walk(v) ELSE tlb[u]
    BY <1>6 DEF Fill
  <2> QED
    BY <1>1, <1>2, <1>4, <1>5, <2>1 DEF PInv, TlbRight
<1>7. CASE Evict(v)
  <2>1. DOMAIN tlb' = DOMAIN tlb \ {v} /\ \A u \in DOMAIN tlb' : tlb'[u] = tlb[u]
    BY <1>7 DEF Evict, Without, Restrict
  <2> QED
    BY <1>1, <1>2, <1>4, <1>5, <2>1 DEF PInv, TlbRight
<1> QED
  BY <1>3, <1>6, <1>7

LEMMA StutterKeepsPInv == PInv /\ UNCHANGED pagingVars => PInv'
BY DEF pagingVars, PInv, Structure, Identity, CallRight, TlbRight, Walk, InTable, Quot, Rem

LEMMA NextKeepsPInv == PInv /\ [PagingNext]_pagingVars => PInv'
BY InitKeepsPInv, EnableKeepsPInv, MapKeepsPInv, WriteKeepsPInv, DoneKeepsPInv,
   CpuKeepsPInv, StutterKeepsPInv DEF PagingNext

LEMMA PInvHolds == PagingSpec => []PInv
BY InitPInv, NextKeepsPInv, PTL DEF PagingSpec

(* The TLB never disagrees with the tables, except about the page that     *)
(* vmm_map has written and not yet flushed.                                *)
THEOREM TlbIsCoherent == PagingSpec => []Coherent
BY PInvHolds, PInvImplies, PTL

(* Whatever clients map, the kernel and its page tables stay where they    *)
(* are, and vmm_map does not fault.                                        *)
THEOREM KernelStaysInPlace == PagingSpec => []KernelInPlace
BY PInvHolds, PInvImplies, PTL

-----------------------------------------------------------------------------
(* Paging implements the address space of AddressSpace.tla *)

Space == [v \in Pages |-> Lookup(v)]
Waiting == IF call = NoCall THEN {} ELSE {<<call.page, call.entry>>}

(* What the tables alone say of a page. *)
Translated(v) == IF v \in LowPages THEN InTable(v) ELSE Absent

LEMMA LookupIs ==
  ASSUME Structure, mmu = "on", NEW v \in Pages
  PROVE  Lookup(v) = IF v \in DOMAIN tlb THEN tlb[v] ELSE Translated(v)
BY WalkIs DEF Lookup, Translated

LEMMA LookupAfter ==
  ASSUME Structure', mmu' = "on", NEW v \in Pages
  PROVE  Lookup(v)' = IF v \in DOMAIN tlb' THEN tlb'[v] ELSE Translated(v)'
BY WalkAfter DEF Lookup, Translated

LEMMA SpaceUnchanged ==
  ASSUME \A v \in Pages : Lookup(v)' = Lookup(v), UNCHANGED call
  PROVE  UNCHANGED A!vars
<1>1. UNCHANGED Space
  BY DEF Space
<1>2. UNCHANGED Waiting
  BY DEF Waiting
<1> QED
  BY <1>1, <1>2 DEF A!vars, Space, Waiting

(* The actions of the address space, over Space and Waiting. *)
LEMMA BeginIs ==
  A!Begin <=> /\ Waiting = {}
              /\ \E v \in Pages, e \in Entries \cup {Entry(u, TRUE) : u \in Pages} :
                   Waiting' = {<<v, e>>}
              /\ UNCHANGED Space
BY Zenon DEF A!Begin, Space, Waiting

LEMMA SpaceChanges ==
  ASSUME NEW v, NEW e, Waiting = {<<v, e>>}, Space' = [Space EXCEPT ![v] = e]
  PROVE  A!Mapped
<1>1. A!Mapped <=> \E c \in Waiting : Space' = [Space EXCEPT ![c[1]] = c[2]]
  BY Zenon DEF A!Mapped, Space, Waiting
<1>2. <<v, e>> \in Waiting /\ <<v, e>>[1] = v /\ <<v, e>>[2] = e
  OBVIOUS
<1> QED
  BY <1>1, <1>2

LEMMA InitImplements == PagingInit => A!Init
<1> SUFFICES ASSUME PagingInit PROVE A!Init
  OBVIOUS
<1>1. \A v \in Pages : Lookup(v) = Entry(v, TRUE)
  BY DEF PagingInit, Lookup
<1> QED
  BY <1>1 DEF PagingInit, A!Init

(* Paging is switched on: the pages without a table are absent from then   *)
(* on, and the others stay.                                                *)
LEMMA EnableImplements ==
  ASSUME PInv, PInv', vmm_enable
  PROVE  A!Enable
<1>1. /\ mmu = "ready" /\ mmu' = "on" /\ DOMAIN tlb' = {}
      /\ UNCHANGED <<kernel_page_directory, tables, call, fault>>
  BY DEF vmm_enable
<1>2. call = NoCall
  BY <1>1 DEF PInv, CallRight
<1>3. ASSUME NEW v \in Pages
      PROVE  Lookup(v)' = IF v \in LowPages THEN Space[v] ELSE Absent
  <2>1. Lookup(v)' = Translated(v)'
    BY <1>1, LookupAfter DEF PInv
  <2>2. InTable(v)' = InTable(v)
    BY <1>1 DEF InTable, Quot, Rem
  <2>3. v \in LowPages => InTable(v) = Entry(v, TRUE)
    BY <1>1 DEF PInv, Identity
  <2>4. Space[v] = Entry(v, TRUE)
    BY <1>1 DEF Space, Lookup
  <2> QED
    BY <2>1, <2>2, <2>3, <2>4 DEF Translated
<1>4. Space' = [v \in Pages |-> IF v \in LowPages THEN Space[v] ELSE Absent]
  BY <1>3 DEF Space
<1>5. Waiting = {} /\ Waiting' = {}
  BY <1>1, <1>2 DEF Waiting
<1> QED
  BY <1>4, <1>5 DEF A!Enable, Space, Waiting

LEMMA BeginImplements ==
  ASSUME PInv, NEW v \in ClientPages, NEW p \in Frames, NEW rw \in BOOLEAN, vmm_map(v, p, rw)
  PROVE  A!Begin \/ UNCHANGED A!vars
<1>1. /\ mmu = "on" /\ call = NoCall
      /\ UNCHANGED <<kernel_page_directory, tables, mmu, tlb, fault>>
      /\ call' = IF v \in LowPages THEN Call("write", v, Entry(p, rw)) ELSE NoCall
  BY MapBegins
<1>2. \A u \in Pages : Lookup(u)' = Lookup(u)
  BY <1>1 DEF Lookup, Walk
<1>3. CASE v \in LowPages
  <2>1. call' = Call("write", v, Entry(p, rw))
    BY <1>1, <1>3
  <2>2. call'.page = v /\ call'.entry = Entry(p, rw) /\ call' # NoCall
    BY <2>1 DEF Call, NoCall
  <2>3. Waiting = {} /\ Waiting' = {<<v, Entry(p, rw)>>}
    BY <1>1, <2>2 DEF Waiting
  <2>4. UNCHANGED Space
    BY <1>2 DEF Space
  <2>5. v \in Pages /\ Entry(p, rw) \in Entries \cup {Entry(u, TRUE) : u \in Pages}
    <3>1. Entry(p, rw) \in Entries
      BY DEF Entries
    <3> QED
      BY <3>1 DEF ClientPages
  <2>6. \E u \in Pages, e \in Entries \cup {Entry(w, TRUE) : w \in Pages} :
          Waiting' = {<<u, e>>}
    BY <2>3, <2>5, Zenon
  <2> QED
    BY <2>3, <2>4, <2>6, BeginIs
<1>4. CASE v \notin LowPages
  BY <1>1, <1>2, <1>4, SpaceUnchanged
<1> QED
  BY <1>3, <1>4

(* The instant of the change: the write, if no old entry is in the TLB ... *)
LEMMA WriteImplements ==
  ASSUME PInv, PInv', WriteEntry
  PROVE  A!Effect \/ UNCHANGED A!vars
<1>1. mmu = "on" /\ UNCHANGED <<kernel_page_directory, mmu, tlb, fault>>
  BY WriteIsLocal
<1>2. PICK v \in ClientPages \cap LowPages, e \in Entries :
        /\ call = Call("write", v, e) /\ call' = Call("invlpg", v, e)
        /\ \A u \in LowPages : InTable(u)' = IF u = v THEN e ELSE InTable(u)
  BY WriteIsLocal
<1>3. Waiting = {<<v, e>>} /\ Waiting' = {<<v, e>>}
  <2>1. call # NoCall /\ call.page = v /\ call.entry = e
    BY <1>2 DEF Call, NoCall
  <2>2. call' # NoCall /\ call'.page = v /\ call'.entry = e
    BY <1>2 DEF Call, NoCall
  <2> QED
    BY <2>1, <2>2 DEF Waiting
<1>4. ASSUME NEW u \in Pages
      PROVE  Lookup(u)' = IF u = v /\ v \notin DOMAIN tlb THEN e ELSE Space[u]
  <2>1. Space[u] = IF u \in DOMAIN tlb THEN tlb[u] ELSE Translated(u)
    BY <1>1, LookupIs DEF PInv, Space
  <2>2. Lookup(u)' = IF u \in DOMAIN tlb THEN tlb[u] ELSE Translated(u)'
    BY <1>1, LookupAfter DEF PInv
  <2>3. Translated(u)' = IF u = v THEN e ELSE Translated(u)
    BY <1>2 DEF Translated
  <2> QED
    BY <2>1, <2>2, <2>3
<1>5. CASE v \in DOMAIN tlb
  <2>1. UNCHANGED Space
    BY <1>4, <1>5 DEF Space
  <2> QED
    BY <1>3, <2>1 DEF A!vars, Space, Waiting
<1>6. CASE v \notin DOMAIN tlb
  <2>1. Space' = [Space EXCEPT ![v] = e]
    BY <1>4, <1>6 DEF Space
  <2> QED
    BY <1>3, <2>1, SpaceChanges DEF A!Effect, Waiting
<1> QED
  BY <1>5, <1>6

(* ... else the moment it leaves the TLB, at invlpg ...                    *)
LEMMA DoneImplements ==
  ASSUME PInv, PInv', MapDone
  PROVE  A!End
<1>1. /\ call.at = "invlpg" /\ call' = NoCall
      /\ UNCHANGED <<kernel_page_directory, tables, mmu, fault>>
  BY DEF MapDone
<1>2. DOMAIN tlb' = DOMAIN tlb \ {call.page} /\ \A u \in DOMAIN tlb' : tlb'[u] = tlb[u]
  BY DEF MapDone, invlpg, Without, Restrict
<1>3. call # NoCall
  BY <1>1 DEF NoCall
<1>4. mmu = "on" /\ call.page \in LowPages /\ InTable(call.page) = call.entry
  BY <1>1, <1>3 DEF PInv, CallRight, TlbRight, Call
<1>5. ASSUME NEW u \in Pages
      PROVE  Lookup(u)' = IF u = call.page THEN call.entry ELSE Space[u]
  <2>1. Space[u] = IF u \in DOMAIN tlb THEN tlb[u] ELSE Translated(u)
    BY <1>4, LookupIs DEF PInv, Space
  <2>2. Lookup(u)' = IF u \in DOMAIN tlb' THEN tlb'[u] ELSE Translated(u)'
    BY <1>1, <1>4, LookupAfter DEF PInv
  <2>3. Translated(u)' = Translated(u)
    BY <1>1 DEF Translated, InTable, Quot, Rem
  <2>4. Translated(call.page) = call.entry
    BY <1>4 DEF Translated
  <2> QED
    BY <1>2, <2>1, <2>2, <2>3, <2>4
<1>6. Space' = [Space EXCEPT ![call.page] = call.entry]
  BY <1>5 DEF Space
<1>7. Waiting = {<<call.page, call.entry>>} /\ Waiting' = {}
  BY <1>1, <1>3 DEF Waiting
<1> QED
  BY <1>6, <1>7, SpaceChanges DEF A!End, Waiting

(* ... or before it, when the CPU drops the entry by itself.               *)
LEMMA CpuImplements ==
  ASSUME PInv, PInv', Cpu
  PROVE  A!Effect \/ UNCHANGED A!vars
<1>1. UNCHANGED <<kernel_page_directory, tables, mmu, call, fault>>
  BY DEF Cpu, Fill, Evict
<1>2. PICK v \in Pages : Fill(v) \/ Evict(v)
  BY DEF Cpu
<1>3. \A u : Walk(u)' = Walk(u)
  BY <1>1 DEF Walk
<1>4. CASE Fill(v)
  <2>1. /\ mmu = "on" /\ v \notin DOMAIN tlb /\ DOMAIN tlb' = DOMAIN tlb \cup {v}
        /\ \A u \in DOMAIN tlb' : tlb'[u] = IF u = v THEN Walk(v) ELSE tlb[u]
    BY <1>4 DEF Fill
  <2>2. \A u \in Pages : Lookup(u)' = Lookup(u)
    BY <1>1, <1>3, <2>1 DEF Lookup
  <2> QED
    BY <1>1, <2>2, SpaceUnchanged
<1>5. CASE Evict(v)
  <2>1. /\ v \in DOMAIN tlb /\ DOMAIN tlb' = DOMAIN tlb \ {v}
        /\ \A u \in DOMAIN tlb' : tlb'[u] = tlb[u]
    BY <1>5 DEF Evict, Without, Restrict
  <2>2. mmu = "on" /\ v \in Pages
    BY <2>1 DEF PInv, TlbRight
  <2>3. ASSUME NEW u \in Pages
        PROVE  Lookup(u)' = IF u = v THEN Walk(v) ELSE Space[u]
    <3>1. Space[u] = Lookup(u)
      BY DEF Space
    <3> QED
      BY <1>1, <1>3, <2>1, <2>2, <3>1 DEF Lookup
  <2>4. Space[v] = tlb[v]
    BY <2>1, <2>2 DEF Space, Lookup
  <2>5. CASE tlb[v] = Walk(v)
    <3>1. UNCHANGED Space
      BY <2>3, <2>4, <2>5 DEF Space
    <3>2. UNCHANGED Waiting
      BY <1>1 DEF Waiting
    <3> QED
      BY <3>1, <3>2 DEF A!vars, Space, Waiting
  <2>6. CASE tlb[v] # Walk(v)
    <3>1. call.at = "invlpg" /\ call.page = v /\ call # NoCall
      BY <2>1, <2>2, <2>6 DEF PInv, TlbRight, NoCall
    <3>2. v \in LowPages /\ InTable(v) = call.entry
      BY <3>1 DEF PInv, CallRight, TlbRight, Call
    <3>3. Walk(v) = call.entry
      BY <2>2, <3>2, WalkIs DEF PInv
    <3>4. Space' = [Space EXCEPT ![v] = call.entry]
      BY <2>3, <3>3 DEF Space
    <3>5. Waiting = {<<v, call.entry>>} /\ UNCHANGED Waiting
      BY <1>1, <3>1 DEF Waiting
    <3> QED
      BY <3>4, <3>5, SpaceChanges DEF A!Effect, Waiting
  <2> QED
    BY <2>5, <2>6
<1> QED
  BY <1>2, <1>4, <1>5

LEMMA StepImplements == PInv /\ PInv' /\ [PagingNext]_pagingVars => [A!Next]_(A!vars)
<1> SUFFICES ASSUME PInv, PInv', [PagingNext]_pagingVars PROVE [A!Next]_(A!vars)
  OBVIOUS
<1>1. CASE vmm_init
  <2>1. \A v \in Pages : Lookup(v)' = Lookup(v)
    BY <1>1 DEF vmm_init, Lookup
  <2> QED
    BY <1>1, <2>1, SpaceUnchanged DEF vmm_init
<1>2. CASE vmm_enable
  BY <1>2, EnableImplements DEF A!Next
<1>3. CASE \E v \in ClientPages, p \in Frames, rw \in BOOLEAN : vmm_map(v, p, rw)
  BY <1>3, BeginImplements DEF A!Next
<1>4. CASE WriteEntry
  BY <1>4, WriteImplements DEF A!Next
<1>5. CASE MapDone
  BY <1>5, DoneImplements DEF A!Next
<1>6. CASE Cpu
  BY <1>6, CpuImplements DEF A!Next
<1>7. CASE UNCHANGED pagingVars
  <2>1. \A v \in Pages : Lookup(v)' = Lookup(v)
    BY <1>7 DEF pagingVars, Lookup, Walk
  <2> QED
    BY <1>7, <2>1, SpaceUnchanged DEF pagingVars
<1> QED
  BY <1>1, <1>2, <1>3, <1>4, <1>5, <1>6, <1>7 DEF PagingNext

(* vmm_map implements the address space, with a TLB of any size between    *)
(* the tables and the accesses: a mapping changes at one instant of the    *)
(* call, and no other page changes with it.                                *)
THEOREM PagingMapsAtomically == PagingSpec => MapsAtomically
<1>1. PagingInit => A!Init
  BY InitImplements
<1>2. PInv /\ PInv' /\ [PagingNext]_pagingVars => [A!Next]_(A!vars)
  BY StepImplements
<1> QED
  BY <1>1, <1>2, PInvHolds, PTL DEF PagingSpec, MapsAtomically, A!Spec

-----------------------------------------------------------------------------
(* The segments *)

Loaded ==
  /\ gdt = [i \in 0 .. 4 |->
             IF i = 0 THEN set_gdt_entry(0, 0, 0, 0)
             ELSE set_gdt_entry(0, FourGiB, CASE i = 1 -> 154 [] i = 2 -> 146
                                              [] i = 3 -> 250 [] i = 4 -> 242, Flags)]
  /\ cs = 8 /\ ds = 16

LEMMA LoadedIsFlat == Loaded => SegmentsAreFlat
<1> SUFFICES ASSUME Loaded PROVE SegmentsAreFlat
  OBVIOUS
<1>1. /\ gdt[1] = set_gdt_entry(0, FourGiB, 154, Flags)
      /\ gdt[2] = set_gdt_entry(0, FourGiB, 146, Flags)
  BY DEF Loaded
<1>2. ASSUME NEW access \in {154, 146}
      PROVE  LET d == set_gdt_entry(0, FourGiB, access, Flags)
             IN  Flat(d) /\ Ring(d) = 0 /\ d.access = access
  <2>1. FourGiB = 1048575 /\ Flags = 207 /\ K64 = 65536
    BY DEF FourGiB, Flags, K64
  <2>2. granularity(FourGiB, Flags) = 207
    BY <2>1 DEF granularity
  <2> QED
    BY <2>1, <2>2 DEF set_gdt_entry, Flat, Present, Base, Limit, InPages, Ring
<1>3. IsCode(gdt[1]) /\ IsWritable(gdt[2])
  BY <1>1, <1>2 DEF IsCode, IsWritable
<1>4. Selected(8) = gdt[1] /\ Selected(16) = gdt[2]
  BY DEF Selected
<1> QED
  BY <1>1, <1>2, <1>3, <1>4
     DEF Loaded, SegmentsAreFlat, GateSelector, StubSelector, JumpSelector

-----------------------------------------------------------------------------
(* The memory with its clients and tests *)

(* A test neither interrupts a mapping nor is interrupted by one; clients  *)
(* have frames of the memory; the GDT is not there or complete.            *)
MInv ==
  /\ PInv
  /\ goal # 0 => call = NoCall
  /\ held \subseteq Frames
  /\ total_frames = 0 \/ total_frames \in MemSizes
  /\ gdt = << >> \/ Loaded

LEMMA AllocatedIsFrame ==
  ASSUME held \subseteq Frames, total_frames = 0 \/ total_frames \in MemSizes,
         NEW f \in first_free(bitmap, total_frames), Taken(f)
  PROVE  held' \subseteq Frames /\ UNCHANGED total_frames
<1>1. held' = held \cup {f} /\ UNCHANGED total_frames
  BY DEF Taken
<1>2. f \in Nat /\ f < total_frames
  <2>1. /\ f \in 0 .. (Words(total_frames) * WordBits - 1)
        /\ Candidate(bitmap, total_frames, f \div WordBits, f)
    BY DEF first_free
  <2> QED
    BY <2>1 DEF Candidate
<1>3. total_frames \in MemSizes
  BY <1>2
<1>4. f \in 0 .. (total_frames - 1)
  BY <1>2, <1>3, PhysMemAssumption
<1> QED
  BY <1>1, <1>3, <1>4, MemoryAssumption

LEMMA FramesStay ==
  ASSUME MInv, [MemoryNext]_memoryVars
  PROVE  held' \subseteq Frames /\ (total_frames' = 0 \/ total_frames' \in MemSizes)
<1>1. CASE UNCHANGED vars
  BY <1>1 DEF MInv, vars
<1>2. CASE \E f \in first_free(bitmap, total_frames) : Taken(f)
  BY <1>2, AllocatedIsFrame DEF MInv
<1>3. CASE \E n \in MemSizes : initialize(n)
  BY <1>3 DEF MInv, initialize
<1>4. CASE \E f \in Owned : free_frame(f)
  BY <1>4 DEF MInv, free_frame
<1>5. CASE test_free
  BY <1>5 DEF MInv, test_free, vars
<1>6. CASE Verify
  BY <1>6 DEF MInv, Verify
<1> QED
  BY <1>1, <1>2, <1>3, <1>4, <1>5, <1>6
     DEF MemoryNext, memoryVars, Boot, Managing, Mapping, CpuStep, Testing,
         test_allocations, TestStep, NoFrame, AllocateAndWrite, allocate_frame

LEMMA SegmentsStay ==
  ASSUME MInv, [MemoryNext]_memoryVars
  PROVE  (gdt = << >> \/ Loaded)'
<1>1. CASE UNCHANGED segmentVars
  BY <1>1 DEF MInv, Loaded, segmentVars
<1>2. CASE init_gdt
  BY <1>2 DEF init_gdt, Loaded
<1> QED
  BY <1>1, <1>2 DEF MemoryNext, memoryVars, Boot, Managing, Mapping, CpuStep, Testing

(* A client calls vmm_map. *)
MapCalled ==
  /\ Idle
  /\ \E v \in ClientPages \ ReservedFrames, rw \in BOOLEAN :
       \E p \in Owned \cup ({v} \cap Frames) : vmm_map(v, p, rw)

(* Every step of the memory is one of paging, or stops the CPU in a test.  *)
LEMMA MemoryStep ==
  ASSUME MInv, [MemoryNext]_memoryVars
  PROVE  /\ \/ [PagingNext]_pagingVars
            \/ /\ call = NoCall /\ fault' \in BOOLEAN
               /\ UNCHANGED <<kernel_page_directory, tables, mmu, tlb, call>>
         /\ goal' # 0 => call' = NoCall
<1>1. CASE UNCHANGED memoryVars
  BY <1>1 DEF MInv, memoryVars, pagingVars, testVars
<1>2. CASE Boot
  <2>1. UNCHANGED goal
    BY <1>2 DEF Boot, testVars
  <2>2. CASE UNCHANGED pagingVars
    BY <2>1, <2>2 DEF MInv, pagingVars
  <2>3. CASE vmm_init \/ vmm_enable
    <3>1. UNCHANGED call
      BY <2>3 DEF vmm_init, vmm_enable
    <3> QED
      BY <2>1, <2>3, <3>1 DEF MInv, PagingNext
  <2> QED
    BY <1>2, <2>2, <2>3 DEF Boot
<1>3. CASE Managing
  BY <1>3 DEF Managing, MInv, testVars, pagingVars
<1>4. CASE Mapping
  <2>1. UNCHANGED goal
    BY <1>4 DEF Mapping, testVars
  <2>2. CASE WriteEntry
    <3>1. goal = 0
      BY <2>2 DEF MInv, WriteEntry, NoCall
    <3> QED
      BY <2>1, <2>2, <3>1 DEF PagingNext
  <2>3. CASE MapDone
    BY <2>3 DEF MapDone, PagingNext
  <2>4. CASE MapCalled
    <3>1. goal = 0
      BY <2>4 DEF MapCalled, Idle
    <3>2. PICK v \in ClientPages \ ReservedFrames, rw \in BOOLEAN :
               \E p \in Owned \cup ({v} \cap Frames) : vmm_map(v, p, rw)
      BY <2>4 DEF MapCalled
    <3>3. \E p \in Frames : v \in ClientPages /\ vmm_map(v, p, rw)
      BY <3>2 DEF MInv, Owned
    <3> QED
      BY <2>1, <3>1, <3>2, <3>3 DEF PagingNext
  <2> QED
    BY <1>4, <2>2, <2>3, <2>4 DEF Mapping, MapCalled
<1>5. CASE CpuStep
  BY <1>5 DEF CpuStep, MInv, Cpu, Fill, Evict, PagingNext, testVars
<1>6. CASE Testing
  <2>1. CASE TestStep
    <3>1. goal # 0 /\ fault = FALSE
      BY <2>1 DEF TestStep, MInv, PInv, Structure
    <3>2. UNCHANGED <<kernel_page_directory, tables, mmu, tlb, call>> /\ call = NoCall
      BY <2>1, <3>1 DEF TestStep, MInv
    <3>3. fault' \in BOOLEAN
      BY <2>1, <3>1 DEF TestStep, NoFrame, AllocateAndWrite, Verify
    <3> QED
      BY <3>2, <3>3
  <2>2. CASE test_free
    BY <2>2 DEF test_free, MInv, Idle, pagingVars
  <2>3. CASE \E n \in {1, NUM_ALLOCATIONS} : test_allocations(n)
    BY <2>3 DEF test_allocations, MInv, Idle, pagingVars
  <2> QED
    BY <1>6, <2>1, <2>2, <2>3 DEF Testing
<1> QED
  BY <1>1, <1>2, <1>3, <1>4, <1>5, <1>6 DEF MemoryNext

(* What the inductive invariant needs of the steps that only stop the CPU. *)
LEMMA StopKeepsPInv ==
  ASSUME PInv, call = NoCall, fault' \in BOOLEAN,
         UNCHANGED <<kernel_page_directory, tables, mmu, tlb, call>>
  PROVE  PInv'
<1>1. Structure'
  BY DEF PInv, Structure
<1>2. Identity' /\ CallRight'
  BY DEF PInv, Identity, CallRight, InTable, Quot, Rem
<1>3. TlbRight'
  BY DEF PInv, TlbRight, InTable, Walk, Quot, Rem
<1> QED
  BY <1>1, <1>2, <1>3 DEF PInv

LEMMA NextKeepsMInv == MInv /\ [MemoryNext]_memoryVars => MInv'
<1> SUFFICES ASSUME MInv, [MemoryNext]_memoryVars PROVE MInv'
  OBVIOUS
<1>1. PInv'
  <2>1. CASE [PagingNext]_pagingVars
    BY <2>1, NextKeepsPInv DEF MInv
  <2>2. CASE /\ call = NoCall /\ fault' \in BOOLEAN
             /\ UNCHANGED <<kernel_page_directory, tables, mmu, tlb, call>>
    BY <2>2, StopKeepsPInv DEF MInv
  <2> QED
    BY <2>1, <2>2, MemoryStep
<1>2. goal' # 0 => call' = NoCall
  BY MemoryStep
<1>3. held' \subseteq Frames /\ (total_frames' = 0 \/ total_frames' \in MemSizes)
  BY FramesStay
<1>4. (gdt = << >> \/ Loaded)'
  BY SegmentsStay
<1> QED
  BY <1>1, <1>2, <1>3, <1>4 DEF MInv

LEMMA InitMInv == MemoryInit => MInv
<1> SUFFICES ASSUME MemoryInit PROVE MInv
  OBVIOUS
<1>1. PInv
  BY InitPInv DEF MemoryInit
<1>2. held \subseteq Frames /\ total_frames = 0
  BY DEF MemoryInit, Init
<1> QED
  BY <1>1, <1>2 DEF MInv, MemoryInit

LEMMA MInvHolds == MemorySpec => []MInv
BY InitMInv, NextKeepsMInv, PTL DEF MemorySpec

(* In the whole memory, with clients, tests and interrupts, the TLB never  *)
(* disagrees with the tables about a page vmm_map is not at               *)
(* (paging.cpp:138-142).                                                   *)
THEOREM MemoryTlbIsCoherent == MemorySpec => []Coherent
<1>1. MInv => Coherent
  BY PInvImplies DEF MInv
<1> QED
  BY <1>1, MInvHolds, PTL

(* Whatever clients map and tests allocate, an address of the kernel       *)
(* reaches the byte of that number: through the flat descriptors of ring 0 *)
(* of init_gdt (gdt.cpp:13-30) and the identity map of vmm_init.           *)
THEOREM KernelAlwaysReachesItself == MemorySpec => []KernelReachesItself
<1>1. MInv => KernelReachesItself
  <2>1. MInv => KernelInPlace
    BY PInvImplies DEF MInv
  <2>2. MInv => (gdt # << >> => SegmentsAreFlat)
    BY LoadedIsFlat DEF MInv
  <2> QED
    BY <2>1, <2>2 DEF KernelReachesItself
<1> QED
  BY <1>1, MInvHolds, PTL

(* The steps of MemoryTester that stop the CPU on a page that is not there *)
(* change no mapping, so the whole memory implements the address space     *)
(* that vmm_map promises (paging.cpp:121-144).                             *)
THEOREM MemoryMapsAtomically == MemorySpec => MapsAtomically
<1>1. MemoryInit => A!Init
  BY InitImplements DEF MemoryInit
<1>2. MInv /\ MInv' /\ [MemoryNext]_memoryVars => [A!Next]_(A!vars)
  <2> SUFFICES ASSUME MInv, MInv', [MemoryNext]_memoryVars PROVE [A!Next]_(A!vars)
    OBVIOUS
  <2>1. CASE [PagingNext]_pagingVars
    BY <2>1, StepImplements DEF MInv
  <2>2. CASE UNCHANGED <<kernel_page_directory, tables, mmu, tlb, call>>
    <3>1. \A v \in Pages : Lookup(v)' = Lookup(v)
      BY <2>2 DEF Lookup, Walk
    <3> QED
      BY <2>2, <3>1, SpaceUnchanged
  <2> QED
    BY <2>1, <2>2, MemoryStep
<1> QED
  BY <1>1, <1>2, MInvHolds, PTL DEF MemorySpec, MapsAtomically, A!Spec

-----------------------------------------------------------------------------
(* The types of paging *)

Stored == [present : BOOLEAN, rw : BOOLEAN, frame : Nat]

(* The tables hold entries, and the TLB no absent one. *)
Shapes ==
  /\ kernel_page_directory \in
       [0 .. (PDE_ENTRIES - 1) -> {Absent} \cup {Entry(f, TRUE) : f \in TableFrames}]
  /\ tables \in [TableFrames -> [0 .. (PTE_ENTRIES - 1) -> Stored]]
  /\ \A v \in DOMAIN tlb : tlb[v].present

LEMMA EntryIsStored ==
  /\ \A f \in Nat, rw \in BOOLEAN : Entry(f, rw) \in Stored
  /\ Absent \in Stored /\ Entries \subseteq Stored
<1>1. ASSUME NEW f \in Nat, NEW rw \in BOOLEAN PROVE Entry(f, rw) \in Stored
  BY DEF Entry, Stored
<1>2. Absent \in Stored
  BY DEF Absent, Stored
<1>3. Frames \subseteq Nat
  BY PagingAssumption
<1> QED
  BY <1>1, <1>2, <1>3 DEF Entries

LEMMA InitShapes == PagingInit => Shapes
<1> SUFFICES ASSUME PagingInit PROVE Shapes
  OBVIOUS
<1>1. DOMAIN tlb = {}
  BY DEF PagingInit
<1> QED
  BY <1>1, EntryIsStored DEF PagingInit, Shapes

LEMMA NextKeepsShapes ==
  ASSUME PInv, Shapes, [PagingNext]_pagingVars
  PROVE  Shapes'
<1>1. CASE vmm_init
  <2>1. UNCHANGED tlb
    BY <1>1 DEF vmm_init
  <2>2. \A t \in 0 .. (TABLES - 1) : TableFrame[t] \in TableFrames
    BY DEF TableFrames
  <2>3. kernel_page_directory' \in
          [0 .. (PDE_ENTRIES - 1) -> {Absent} \cup {Entry(f, TRUE) : f \in TableFrames}]
    <3>1. ASSUME NEW i \in 0 .. (PDE_ENTRIES - 1)
          PROVE  (IF i < TABLES THEN Entry(TableFrame[i], TRUE) ELSE Absent)
                   \in {Absent} \cup {Entry(f, TRUE) : f \in TableFrames}
      <4>1. CASE i < TABLES
        <5>1. i \in 0 .. (TABLES - 1)
          BY <4>1, PagingAssumption
        <5> QED
          BY <2>2, <4>1, <5>1
      <4>2. CASE ~ (i < TABLES)
        BY <4>2
      <4> QED
        BY <4>1, <4>2
    <3> QED
      BY <1>1, <3>1 DEF vmm_init, kernel_page_table
  <2>4. tables' \in [TableFrames -> [0 .. (PTE_ENTRIES - 1) -> Stored]]
    <3>1. ASSUME NEW f \in TableFrames, NEW i \in 0 .. (PTE_ENTRIES - 1)
          PROVE  Entry(phys_addr(CHOOSE n \in 0 .. (TABLES - 1) : TableFrame[n] = f, i), TRUE) \in Stored
      <4>1. PICK t \in 0 .. (TABLES - 1) : TableFrame[t] = f
        BY DEF TableFrames
      <4> DEFINE n == CHOOSE m \in 0 .. (TABLES - 1) : TableFrame[m] = f
      <4>2. n \in 0 .. (TABLES - 1)
        BY <4>1
      <4> HIDE DEF n
      <4>3. phys_addr(n, i) \in Nat
        BY <4>2, PagingAssumption DEF phys_addr
      <4>4. Entry(phys_addr(n, i), TRUE) \in Stored
        BY <4>3, EntryIsStored
      <4> QED
        BY <4>4 DEF n
    <3> QED
      BY <1>1, <3>1 DEF vmm_init
  <2> QED
    BY <2>1, <2>3, <2>4 DEF Shapes
<1>2. CASE vmm_enable
  <2>1. DOMAIN tlb' = {} /\ UNCHANGED <<kernel_page_directory, tables>>
    BY <1>2 DEF vmm_enable
  <2> QED
    BY <2>1 DEF Shapes
<1>3. CASE \E v \in ClientPages, p \in Frames, rw \in BOOLEAN : vmm_map(v, p, rw)
  BY <1>3 DEF vmm_map, Shapes
<1>4. CASE WriteEntry
  <2>1. UNCHANGED <<kernel_page_directory, tlb>>
    BY <1>4 DEF WriteEntry
  <2>2. call.entry \in Stored
    <3>1. call # NoCall
      BY <1>4 DEF WriteEntry, NoCall
    <3>2. PICK place \in {"write", "invlpg"}, v \in ClientPages \cap LowPages, e \in Entries :
            call = Call(place, v, e)
      BY <3>1 DEF PInv, CallRight
    <3> QED
      BY <3>2, EntryIsStored DEF Call
  <2>3. tables' \in [TableFrames -> [0 .. (PTE_ENTRIES - 1) -> Stored]]
    <3>1. CASE UNCHANGED tables
      BY <3>1 DEF Shapes
    <3>2. ASSUME NEW f \in TableFrames, NEW i, tables' = [tables EXCEPT ![f][i] = call.entry]
          PROVE  tables' \in [TableFrames -> [0 .. (PTE_ENTRIES - 1) -> Stored]]
      BY <2>2, <3>2 DEF Shapes
    <3>3. tables' = IF /\ Lookup(call.table).present
                       /\ Lookup(call.table).frame \in TableFrames
                      THEN [tables EXCEPT ![Lookup(call.table).frame][pt_index(call.page)] = call.entry]
                      ELSE tables
      BY <1>4 DEF WriteEntry
    <3>4. CASE Lookup(call.table).present /\ Lookup(call.table).frame \in TableFrames
      <4>1. tables' = [tables EXCEPT ![Lookup(call.table).frame][pt_index(call.page)] = call.entry]
        BY <3>3, <3>4
      <4> QED
        BY <3>2, <3>4, <4>1
    <3> QED
      BY <3>1, <3>3, <3>4
  <2> QED
    BY <2>1, <2>3 DEF Shapes
<1>5. CASE MapDone
  BY <1>5 DEF MapDone, invlpg, Without, Restrict, Shapes
<1>6. CASE Cpu
  <2>1. PICK v \in Pages : Fill(v) \/ Evict(v)
    BY <1>6 DEF Cpu
  <2>2. UNCHANGED <<kernel_page_directory, tables>>
    BY <2>1 DEF Fill, Evict
  <2>3. \A u \in DOMAIN tlb' : tlb'[u].present
    <3>1. CASE Fill(v)
      BY <3>1 DEF Fill, Shapes
    <3>2. CASE Evict(v)
      BY <3>2 DEF Evict, Without, Restrict, Shapes
    <3> QED
      BY <2>1, <3>1, <3>2
  <2> QED
    BY <2>2, <2>3 DEF Shapes
<1>7. CASE UNCHANGED pagingVars
  BY <1>7 DEF pagingVars, Shapes
<1> QED
  BY <1>1, <1>2, <1>3, <1>4, <1>5, <1>6, <1>7 DEF PagingNext

LEMMA PagingTypes == PInv /\ Shapes => PagingTypeOK
<1> SUFFICES ASSUME PInv, Shapes PROVE PagingTypeOK
  OBVIOUS
<1>1. ASSUME mmu # "off"
      PROVE  {kernel_page_directory[i].frame : i \in 0 .. (TABLES - 1)} = TableFrames
  <2>1. ASSUME NEW i \in 0 .. (TABLES - 1) PROVE kernel_page_directory[i].frame = TableFrame[i]
    <3>1. i \in 0 .. (PDE_ENTRIES - 1) /\ i < TABLES
      BY PagingAssumption
    <3>2. kernel_page_directory[i] = Entry(TableFrame[i], TRUE)
      BY <1>1, <3>1 DEF PInv, Structure, Directory
    <3> QED
      BY <3>2 DEF Entry
  <2> QED
    BY <2>1 DEF TableFrames
<1>2. call = NoCall \/ (call.at \in {"write", "invlpg"} /\ call.page \in ClientPages)
  BY DEF PInv, CallRight, Call
<1> QED
  BY <1>1, <1>2 DEF PInv, Structure, TlbRight, Shapes, Stored, PagingTypeOK

-----------------------------------------------------------------------------
(* Where pages lead *)

(* The frames clients may have mapped: a test does not map its own. *)
Lent == held \ ToSet(got)

Leads(v, e) == e.present /\ (e.frame = v \/ e.frame \in Lent)

(* A page with a table leads to its own frame, or to one a client has and  *)
(* has not unmapped; so says the TLB too, and a call under way.  The pages *)
(* of the kernel and the bitmaps have tables and lead to their own frames. *)
MapInv ==
  /\ mmu # "off" => \A v \in LowPages : Leads(v, InTable(v))
  /\ \A v \in DOMAIN tlb : Leads(v, tlb[v])
  /\ call # NoCall => Leads(call.page, call.entry) /\ call.page \notin ReservedFrames
  /\ mmu # "off" => \A v \in ReservedFrames : InTable(v).frame = v
  /\ ReservedFrames \subseteq LowPages

LEMMA ReservedIsBelow ==
  ASSUME NEW f \in Nat, next_free_physical \in Nat
  PROVE  f \in ReservedFrames <=> f * PAGE_SIZE < next_free_physical
<1>1. f * PAGE_SIZE = f * (PAGE_SIZE - 1) + f /\ f * (PAGE_SIZE - 1) \in Nat
  BY PhysMemAssumption
<1>2. f <= f * PAGE_SIZE /\ f * PAGE_SIZE \in Nat
  BY <1>1, PhysMemAssumption
<1> DEFINE place == f * PAGE_SIZE
           end == next_free_physical
<1> HIDE DEF place, end
<1>3. place < end => f \in 0 .. end
  BY <1>2 DEF place, end
<1>4. f \in Reserved(end) <=> f \in 0 .. end /\ place < end
  BY DEF Reserved, place
<1> QED
  BY <1>3, <1>4 DEF ReservedFrames, place, end

(* The memory manager keeps the frames of clients off the reserved ones.   *)
LEMMA HeldIsAbove ==
  ASSUME PhysInv, NEW f \in held
  PROVE  f \in Nat /\ f \notin ReservedFrames /\ ~ (f * PAGE_SIZE < next_free_physical)
<1>1. f \in 0 .. (total_frames - 1) /\ f \in Nat /\ ~ (f * PAGE_SIZE < next_free_physical)
  BY DEF PhysInv, FramesAccountedFor
<1> QED
  BY <1>1, ReservedIsBelow DEF PhysInv

(* The words of the bitmap lie below its end. *)
LEMMA WordIsBelow ==
  ASSUME PhysInv, NEW g, ~ (g * PAGE_SIZE < next_free_physical)
  PROVE  WordAt(g) = {}
<1> DEFINE words == Words(total_frames)
           first == next_free_physical - words * WordBytes
<1>1. total_frames \in Nat /\ next_free_physical \in Nat
  BY DEF PhysInv
<1>2. words \in Nat
  <2>1. total_frames \div WordBits \in Nat
    BY <1>1, Division, PhysMemAssumption
  <2> QED
    BY <2>1 DEF Words
<1> HIDE DEF words
<1>3. SUFFICES ASSUME NEW b \in 0 .. (words * WordBits - 1),
                      first + (b \div WordBits) * WordBytes = g * PAGE_SIZE
               PROVE  FALSE
  BY DEF WordAt, words
<1> DEFINE q == b \div WordBits
<1>4. b \in Nat /\ b < words * WordBits
  BY <1>2, PhysMemAssumption
<1>5. q \in Nat /\ q < words
  BY <1>2, <1>4, Division, DivBelow, PhysMemAssumption
<1> HIDE DEF q
<1>6. (q + 1) * WordBytes <= words * WordBytes
  BY <1>2, <1>5, PhysMemAssumption
<1>7. (q + 1) * WordBytes = q * WordBytes + WordBytes
  BY <1>5, PhysMemAssumption
<1>8. words * WordBytes \in Int /\ q * WordBytes \in Int
  BY <1>2, <1>5, PhysMemAssumption
<1>9. first + q * WordBytes < next_free_physical
  BY <1>1, <1>6, <1>7, <1>8, PhysMemAssumption
<1> QED
  BY <1>3, <1>9 DEF q

(* Nobody is given another page, and none of the old ones is taken away.   *)
Kept ==
  /\ UNCHANGED <<tables, next_free_physical>>
  /\ mmu' # "off" => mmu # "off"
  /\ call' \in {call, NoCall}
  /\ Lent \subseteq Lent'
  /\ DOMAIN tlb' \subseteq DOMAIN tlb /\ \A v \in DOMAIN tlb' : tlb'[v] = tlb[v]

LEMMA LeadsStill ==
  ASSUME Lent \subseteq Lent', NEW v, NEW e, Leads(v, e)
  PROVE  e.present /\ (e.frame = v \/ e.frame \in Lent')
BY DEF Leads

LEMMA KeptKeepsMapInv ==
  ASSUME MapInv, Kept
  PROVE  MapInv'
<1>1. ReservedFrames' = ReservedFrames
  BY DEF Kept, ReservedFrames
<1>2. \A v : InTable(v)' = InTable(v)
  BY DEF Kept, InTable
<1>3. mmu' # "off" => \A v \in LowPages : Leads(v, InTable(v))'
  BY <1>2 DEF Kept, MapInv, Leads
<1>4. \A v \in DOMAIN tlb' : Leads(v, tlb[v])'
  BY DEF Kept, MapInv, Leads
<1>5. call' # NoCall => (Leads(call.page, call.entry) /\ call.page \notin ReservedFrames)'
  BY <1>1 DEF Kept, MapInv, Leads
<1> QED
  BY <1>1, <1>2, <1>3, <1>4, <1>5 DEF Kept, MapInv

LEMMA InitMapInv == MemoryInit => MapInv
<1> SUFFICES ASSUME MemoryInit PROVE MapInv
  OBVIOUS
<1>1. mmu = "off" /\ call = NoCall /\ DOMAIN tlb = {} /\ next_free_physical = kernel_end
  BY DEF MemoryInit, Init, PagingInit
<1>2. ReservedFrames \subseteq LowPages
  BY <1>1, MemoryAssumption, PagingAssumption DEF ReservedFrames
<1> QED
  BY <1>1, <1>2 DEF MapInv

(* vmm_init maps the low memory to itself. *)
LEMMA InitKeepsMapInv ==
  ASSUME MapInv, PInv, PInv', vmm_init, UNCHANGED next_free_physical
  PROVE  MapInv'
<1>1. mmu = "off" /\ mmu' = "ready" /\ UNCHANGED <<tlb, call>>
  BY DEF vmm_init
<1>2. call' = NoCall /\ DOMAIN tlb' = {}
  BY <1>1 DEF PInv, CallRight, TlbRight
<1>3. \A v \in LowPages : InTable(v)' = Entry(v, TRUE)
  BY <1>1 DEF PInv, Identity
<1>4. ReservedFrames' = ReservedFrames
  BY DEF ReservedFrames
<1> QED
  BY <1>2, <1>3, <1>4 DEF MapInv, Leads, Entry

(* A client maps a page that is not reserved, to a frame it has or back.   *)
LEMMA CalledKeepsMapInv ==
  ASSUME MapInv, MInv, got = << >>, MapCalled, UNCHANGED <<vars, got>>
  PROVE  MapInv'
<1>1. PICK v \in ClientPages \ ReservedFrames, rw \in BOOLEAN :
             \E p \in Owned \cup ({v} \cap Frames) : vmm_map(v, p, rw)
  BY DEF MapCalled
<1>2. PICK p \in Owned \cup ({v} \cap Frames) : vmm_map(v, p, rw)
  BY <1>1
<1>3. p \in Frames
  BY <1>2 DEF MInv, Owned
<1>4. /\ call = NoCall /\ UNCHANGED <<tables, mmu, tlb>>
      /\ call' = IF v \in LowPages THEN Call("write", v, Entry(p, rw)) ELSE NoCall
  BY <1>1, <1>2, <1>3, MapBegins DEF MInv
<1>5. ReservedFrames' = ReservedFrames /\ Lent' = Lent /\ UNCHANGED next_free_physical
  BY DEF vars, ReservedFrames, Lent
<1>6. CASE v \notin LowPages
  <2>1. Kept
    BY <1>4, <1>5, <1>6 DEF Kept
  <2> QED
    BY <2>1, KeptKeepsMapInv
<1>7. CASE v \in LowPages
  <2>1. call'.page = v /\ call'.entry = Entry(p, rw)
    BY <1>4, <1>7 DEF Call
  <2>2. p = v \/ p \in Lent
    <3>1. ToSet(got) = {}
      BY DEF ToSet
    <3> QED
      BY <1>2, <3>1 DEF Owned, Lent
  <2>3. Entry(p, rw).present /\ Entry(p, rw).frame = p
    BY DEF Entry
  <2>4. Leads(call.page, call.entry)'
    BY <1>5, <2>1, <2>2, <2>3 DEF Leads
  <2>5. \A u : InTable(u)' = InTable(u)
    BY <1>4 DEF InTable, Quot, Rem
  <2>6. (mmu # "off" => \A u \in LowPages : Leads(u, InTable(u)))'
    BY <1>4, <1>5, <2>5 DEF MapInv, Leads
  <2>7. (\A u \in DOMAIN tlb : Leads(u, tlb[u]))'
    BY <1>4, <1>5 DEF MapInv, Leads
  <2> QED
    BY <1>1, <1>4, <1>5, <2>1, <2>4, <2>5, <2>6, <2>7 DEF MapInv
<1> QED
  BY <1>6, <1>7

(* The entry of the call gets into the table. *)
LEMMA WrittenKeepsMapInv ==
  ASSUME MapInv, PInv, WriteEntry, UNCHANGED <<vars, got>>
  PROVE  MapInv'
<1>1. mmu = "on" /\ UNCHANGED <<mmu, tlb>>
  BY WriteIsLocal
<1>2. PICK v \in ClientPages \cap LowPages, e \in Entries :
        /\ call = Call("write", v, e) /\ call' = Call("invlpg", v, e)
        /\ \A u \in LowPages : InTable(u)' = IF u = v THEN e ELSE InTable(u)
  BY WriteIsLocal
<1>3. /\ call # NoCall /\ call.page = v /\ call.entry = e
      /\ call'.page = v /\ call'.entry = e
  BY <1>2 DEF Call, NoCall
<1>4. ReservedFrames' = ReservedFrames /\ Lent' = Lent
  BY DEF vars, ReservedFrames, Lent
<1>5. Leads(v, e) /\ v \notin ReservedFrames /\ ReservedFrames \subseteq LowPages
  BY <1>3 DEF MapInv
<1>6. (Leads(call.page, call.entry) /\ call.page \notin ReservedFrames)'
  BY <1>3, <1>4, <1>5 DEF Leads
<1>7. (\A u \in LowPages : Leads(u, InTable(u)))'
  BY <1>1, <1>2, <1>4, <1>5 DEF MapInv, Leads
<1>8. (\A u \in DOMAIN tlb : Leads(u, tlb[u]))'
  BY <1>1, <1>4 DEF MapInv, Leads
<1>9. (\A u \in ReservedFrames : InTable(u).frame = u)'
  BY <1>1, <1>2, <1>4, <1>5 DEF MapInv
<1> QED
  BY <1>4, <1>5, <1>6, <1>7, <1>8, <1>9 DEF MapInv

LEMMA CpuKeepsMapInv ==
  ASSUME MapInv, PInv, Cpu, UNCHANGED <<vars, got>>
  PROVE  MapInv'
<1>1. UNCHANGED <<kernel_page_directory, tables, mmu, call>>
  BY DEF Cpu, Fill, Evict
<1>2. ReservedFrames' = ReservedFrames /\ Lent' = Lent /\ UNCHANGED next_free_physical
  BY DEF vars, ReservedFrames, Lent
<1>3. PICK v \in Pages : Fill(v) \/ Evict(v)
  BY DEF Cpu
<1>4. CASE Evict(v)
  <2>1. DOMAIN tlb' = DOMAIN tlb \ {v} /\ \A u \in DOMAIN tlb' : tlb'[u] = tlb[u]
    BY <1>4 DEF Evict, Without, Restrict
  <2>2. Kept
    BY <1>1, <1>2, <2>1 DEF Kept
  <2> QED
    BY <2>2, KeptKeepsMapInv
<1>5. CASE Fill(v)
  <2>1. /\ mmu = "on" /\ Walk(v).present /\ DOMAIN tlb' = DOMAIN tlb \cup {v}
        /\ \A u \in DOMAIN tlb' : tlb'[u] = IF u = v THEN Walk(v) ELSE tlb[u]
    BY <1>5 DEF Fill
  <2>2. Walk(v) = IF v \in LowPages THEN InTable(v) ELSE Absent
    BY <2>1, WalkIs DEF PInv
  <2>3. v \in LowPages /\ Walk(v) = InTable(v)
    BY <2>1, <2>2 DEF Absent
  <2>4. Leads(v, Walk(v))
    BY <2>1, <2>3 DEF MapInv
  <2>5. (\A u \in DOMAIN tlb : Leads(u, tlb[u]))'
    BY <1>2, <2>1, <2>4 DEF MapInv, Leads
  <2>6. \A u : InTable(u)' = InTable(u)
    BY <1>1 DEF InTable, Quot, Rem
  <2>7. (mmu # "off" => \A u \in LowPages : Leads(u, InTable(u)))'
    BY <1>1, <1>2, <2>6 DEF MapInv, Leads
  <2>8. (call # NoCall => Leads(call.page, call.entry) /\ call.page \notin ReservedFrames)'
    BY <1>1, <1>2 DEF MapInv, Leads
  <2> QED
    BY <1>1, <1>2, <2>5, <2>6, <2>7, <2>8 DEF MapInv
<1> QED
  BY <1>3, <1>4, <1>5

(* When initialize moves the bitmap no client has a frame, so every page   *)
(* leads to its own.                                                       *)
LEMMA PlacedKeepsMapInv ==
  ASSUME MapInv, NEW n \in MemSizes, initialize(n), ReservedFrames' \subseteq LowPages,
         call = NoCall, UNCHANGED <<got, tables, mmu, tlb, call>>
  PROVE  MapInv'
<1>1. Lent = {} /\ Lent' = {}
  BY DEF initialize, Lent
<1>2. \A u : InTable(u)' = InTable(u)
  BY DEF InTable, Quot, Rem
<1>3. (mmu # "off" => \A u \in LowPages : Leads(u, InTable(u)))'
  BY <1>1, <1>2 DEF MapInv, Leads
<1>4. (\A u \in DOMAIN tlb : Leads(u, tlb[u]))'
  BY <1>1 DEF MapInv, Leads
<1>5. (mmu # "off" => \A u \in ReservedFrames : InTable(u).frame = u)'
  BY <1>1, <1>2 DEF MapInv, Leads
<1> QED
  BY <1>3, <1>4, <1>5 DEF MapInv

(* No page is mapped any more to the frame a client gives back, and none   *)
(* is left in the TLB.                                                     *)
LEMMA ReturnedKeepsMapInv ==
  ASSUME MapInv, PInv, mmu = "on", call = NoCall, NEW f, Unmapped(f), free_frame(f),
         UNCHANGED <<got, tables, mmu, tlb, call>>
  PROVE  MapInv'
<1>1. Lent' = Lent \ {f} /\ ReservedFrames' = ReservedFrames
  BY DEF free_frame, Lent, ReservedFrames
<1>2. \A u : InTable(u)' = InTable(u)
  BY DEF InTable, Quot, Rem
<1>3. ASSUME NEW u \in LowPages PROVE Leads(u, InTable(u))'
  <2>1. Walk(u) = InTable(u) /\ u \in Pages
    BY WalkIs, LowIsPage DEF PInv
  <2>2. Leads(u, InTable(u))
    BY DEF MapInv
  <2>3. InTable(u).frame = f => u = f
    BY <2>1, <2>2 DEF Leads, Unmapped
  <2> QED
    BY <1>1, <1>2, <2>2, <2>3 DEF Leads
<1>4. ASSUME NEW u \in DOMAIN tlb PROVE Leads(u, tlb[u])'
  <2>1. tlb[u] = Walk(u) /\ u \in Pages
    BY DEF PInv, TlbRight, NoCall
  <2>2. Leads(u, tlb[u])
    BY DEF MapInv
  <2>3. tlb[u].frame = f => u = f
    BY <2>1, <2>2 DEF Leads, Unmapped
  <2> QED
    BY <1>1, <2>2, <2>3 DEF Leads
<1> QED
  BY <1>1, <1>2, <1>3, <1>4 DEF MapInv

(* Nobody but the page of its number reaches a reserved frame, and what    *)
(* clients and tests reach lies above the bitmap.                          *)
LEMMA LookupLeads ==
  ASSUME MapInv, PInv, mmu = "on", NEW v \in Pages, Lookup(v).present
  PROVE  Leads(v, Lookup(v))
<1>1. CASE v \in DOMAIN tlb
  BY <1>1 DEF Lookup, MapInv
<1>2. CASE v \notin DOMAIN tlb
  <2>1. Lookup(v) = Walk(v)
    BY <1>2 DEF Lookup
  <2>2. Walk(v) = IF v \in LowPages THEN InTable(v) ELSE Absent
    BY WalkIs DEF PInv
  <2>3. v \in LowPages /\ Lookup(v) = InTable(v)
    BY <2>1, <2>2 DEF Absent
  <2> QED
    BY <2>3 DEF MapInv
<1> QED
  BY <1>1, <1>2

LEMMA ReservedLookup ==
  ASSUME MapInv, PInv, mmu = "on", NEW f \in ReservedFrames
  PROVE  Lookup(f).present /\ Lookup(f).frame = f
<1>1. f \in LowPages /\ f \in Pages
  BY LowIsPage DEF MapInv
<1>2. Walk(f) = InTable(f)
  BY <1>1, WalkIs DEF PInv
<1>3. ~ (call.at = "invlpg" /\ call.page = f)
  BY DEF MapInv, NoCall
<1>4. Lookup(f) = InTable(f)
  BY <1>2, <1>3 DEF PInv, TlbRight, Lookup
<1> QED
  BY <1>1, <1>4 DEF MapInv, Leads

LEMMA MapInvImplies == PInv /\ PhysInv /\ MapInv => ReservedIsPrivate
<1> SUFFICES ASSUME PInv, PhysInv, MapInv, mmu = "on",
                    NEW f \in ReservedFrames, NEW v \in Pages
             PROVE  Lookup(v).present /\ Lookup(v).frame = f <=> v = f
  BY DEF ReservedIsPrivate
<1>1. ASSUME Lookup(v).present, Lookup(v).frame = f PROVE v = f
  BY <1>1, LookupLeads, HeldIsAbove DEF Leads, Lent
<1> QED
  BY <1>1, ReservedLookup

-----------------------------------------------------------------------------
(* The tests of memtest.cpp *)

(* What test i has written to its frame is where its page says. *)
Reads(i) ==
  /\ Lookup(got[i]).frame = got[i]
  /\ got[i] \in DOMAIN memory /\ memory[got[i]] = TEST_PATTERN(i - 1)

(* The frames of a test are its own, none twice, and taken from a bitmap   *)
(* that is otherwise what it was; unless the test has an excuse, what it   *)
(* has written can be read back.                                           *)
Testers ==
  /\ goal \in Nat /\ (goal # 0 => mmu = "on")
  /\ got \in Seq(held \ leaked) /\ leaked \subseteq held
  /\ \A i, j \in DOMAIN got : got[i] = got[j] => i = j
  /\ goal = 0 => got = << >>
  /\ goal # 0 => bitmap = before \cup ToSet(got) /\ before \cap ToSet(got) = {}

Excuses ==
  /\ goal # 0 /\ ~ excused => \A i \in DOMAIN got : Reads(i)
  /\ verdict = "failed" \/ fault => excused

Inv == MInv /\ Shapes /\ PhysInv /\ MapInv /\ Testers /\ Excuses

(* Between the calls of vmm_map the TLB cannot be told from the tables.    *)
LEMMA NoCallLooksUp ==
  ASSUME PInv, mmu = "on", call = NoCall, NEW v
  PROVE  Lookup(v) = Walk(v)
<1>1. call.at # "invlpg"
  BY DEF NoCall
<1> QED
  BY <1>1 DEF PInv, TlbRight, Lookup

(* While a test runs no page moves. *)
LEMMA TestKeepsPages ==
  ASSUME Inv, PInv', goal # 0, UNCHANGED <<kernel_page_directory, tables, mmu, call>>, NEW v
  PROVE  Lookup(v)' = Lookup(v)
<1>1. mmu = "on" /\ call = NoCall
  BY DEF Inv, MInv, Testers
<1>2. Lookup(v) = Walk(v)
  BY <1>1, NoCallLooksUp DEF Inv, MInv
<1>3. Lookup(v)' = Walk(v)'
  <2>1. call'.at # "invlpg"
    BY <1>1 DEF NoCall
  <2>2. mmu' = "on"
    BY <1>1
  <2> QED
    BY <2>1, <2>2 DEF PInv, TlbRight, Lookup
<1>4. Walk(v)' = Walk(v)
  BY DEF Walk
<1> QED
  BY <1>2, <1>3, <1>4

LEMMA TestersUnchanged ==
  ASSUME Testers, UNCHANGED <<bitmap, held, goal, got, leaked, before>>, goal # 0 => mmu' = "on"
  PROVE  Testers'
BY DEF Testers

LEMMA ExcusesUnchanged ==
  ASSUME Excuses, UNCHANGED <<goal, got, memory, verdict, excused>>, fault' => fault,
         goal # 0 => \A v : Lookup(v)' = Lookup(v)
  PROVE  Excuses'
<1>1. goal # 0 => \A i : Reads(i)' = Reads(i)
  BY DEF Reads
<1> QED
  BY <1>1 DEF Excuses

LEMMA InitInv == MemoryInit => Inv
<1> SUFFICES ASSUME MemoryInit PROVE Inv
  OBVIOUS
<1>1. MInv /\ Shapes /\ PhysInv /\ MapInv
  BY InitMInv, InitShapes, InitPhysInv, InitMapInv DEF MemoryInit
<1>2. Testers
  <2>1. << >> \in Seq(held \ leaked) /\ DOMAIN << >> = {}
    OBVIOUS
  <2> QED
    BY <2>1 DEF MemoryInit, Init, Testers
<1>3. Excuses
  BY DEF MemoryInit, PagingInit, Excuses
<1> QED
  BY <1>1, <1>2, <1>3 DEF Inv

-----------------------------------------------------------------------------
(* The steps that are not the tests' *)

LEMMA BootKeepsInv == Inv /\ Boot => PhysInv' /\ Testers' /\ Excuses'
<1> SUFFICES ASSUME Inv, Boot PROVE PhysInv' /\ Testers' /\ Excuses'
  OBVIOUS
<1>1. UNCHANGED vars /\ UNCHANGED testVars
  BY DEF Boot
<1>2. PhysInv'
  BY <1>1, PhysUnchanged DEF Inv
<1>3. CASE UNCHANGED pagingVars
  <2>1. Testers'
    BY <1>1, <1>3, TestersUnchanged DEF Inv, vars, testVars, pagingVars, Testers
  <2>2. \A v : Lookup(v)' = Lookup(v)
    BY <1>3 DEF pagingVars, Lookup, Walk
  <2>3. Excuses'
    BY <1>1, <1>3, <2>2, ExcusesUnchanged DEF Inv, testVars, pagingVars
  <2> QED
    BY <1>2, <2>1, <2>3
<1>4. CASE vmm_init \/ vmm_enable
  <2>1. goal = 0 /\ fault' = fault
    BY <1>4 DEF vmm_init, vmm_enable, Inv, Testers
  <2>2. Testers'
    BY <1>1, <2>1, TestersUnchanged DEF Inv, vars, testVars
  <2>3. Excuses'
    BY <1>1, <2>1, ExcusesUnchanged DEF Inv, testVars
  <2> QED
    BY <1>2, <2>2, <2>3
<1> QED
  BY <1>3, <1>4 DEF Boot

LEMMA ManagingKeepsInv == Inv /\ Managing => PhysInv' /\ Testers' /\ Excuses'
<1> SUFFICES ASSUME Inv, Managing PROVE PhysInv' /\ Testers' /\ Excuses'
  OBVIOUS
<1>1. goal = 0 /\ UNCHANGED pagingVars /\ UNCHANGED testVars
  BY DEF Managing, Idle
<1>2. got = << >> /\ leaked \subseteq held
  BY <1>1 DEF Inv, Testers
<1>3. PhysInv' /\ leaked \subseteq held'
  <2>1. ASSUME NEW n \in MemSizes, initialize(n) PROVE PhysInv' /\ leaked \subseteq held'
    BY <1>2, <2>1, InitializeKeepsPhysInv DEF Inv, initialize
  <2>2. ASSUME allocate_frame PROVE PhysInv' /\ leaked \subseteq held'
    BY <1>2, <2>2, AllocateKeepsPhysInv DEF Inv, allocate_frame, Taken
  <2>3. ASSUME NEW f \in Owned, free_frame(f) PROVE PhysInv' /\ leaked \subseteq held'
    BY <1>2, <2>3, FreeKeepsPhysInv DEF Inv, Owned, free_frame
  <2> QED
    BY <2>1, <2>2, <2>3 DEF Managing
<1>4. Testers'
  <2>1. got' = << >> /\ goal' = 0 /\ leaked' = leaked
    BY <1>1, <1>2 DEF testVars
  <2>2. << >> \in Seq(held' \ leaked') /\ DOMAIN << >> = {}
    OBVIOUS
  <2> QED
    BY <1>3, <2>1, <2>2 DEF Testers
<1>5. Excuses'
  BY <1>1, ExcusesUnchanged DEF Inv, testVars, pagingVars
<1> QED
  BY <1>3, <1>4, <1>5

LEMMA MappingKeepsInv == Inv /\ Mapping => PhysInv' /\ Testers' /\ Excuses'
<1> SUFFICES ASSUME Inv, Mapping PROVE PhysInv' /\ Testers' /\ Excuses'
  OBVIOUS
<1>1. UNCHANGED vars /\ UNCHANGED testVars
  BY DEF Mapping
<1>2. goal = 0 /\ fault' = fault
  <2>1. CASE WriteEntry
    <3>1. call # NoCall
      BY <2>1 DEF WriteEntry, NoCall
    <3>2. PInv
      BY DEF Inv, MInv
    <3> QED
      BY <2>1, <3>1, <3>2, WriteIsLocal DEF Inv, MInv
  <2>2. CASE MapDone
    <3>1. call # NoCall
      BY <2>2 DEF MapDone, NoCall
    <3> QED
      BY <2>2, <3>1 DEF MapDone, Inv, MInv
  <2>3. CASE MapCalled
    BY <2>3 DEF MapCalled, Idle, vmm_map
  <2> QED
    BY <2>1, <2>2, <2>3 DEF Mapping, MapCalled
<1>3. PhysInv'
  BY <1>1, PhysUnchanged DEF Inv
<1>4. Testers'
  BY <1>1, <1>2, TestersUnchanged DEF Inv, vars, testVars
<1>5. Excuses'
  BY <1>1, <1>2, ExcusesUnchanged DEF Inv, testVars
<1> QED
  BY <1>3, <1>4, <1>5

LEMMA CpuKeepsInv == Inv /\ PInv' /\ CpuStep => PhysInv' /\ Testers' /\ Excuses'
<1> SUFFICES ASSUME Inv, PInv', CpuStep PROVE PhysInv' /\ Testers' /\ Excuses'
  OBVIOUS
<1>1. UNCHANGED vars /\ UNCHANGED testVars /\ UNCHANGED <<kernel_page_directory, tables, mmu, call, fault>>
  BY DEF CpuStep, Cpu, Fill, Evict
<1>2. PhysInv'
  BY <1>1, PhysUnchanged DEF Inv
<1>3. Testers'
  BY <1>1, TestersUnchanged DEF Inv, vars, testVars, Testers
<1>4. goal # 0 => \A v : Lookup(v)' = Lookup(v)
  BY <1>1, TestKeepsPages
<1>5. Excuses'
  BY <1>1, <1>4, ExcusesUnchanged DEF Inv, testVars
<1> QED
  BY <1>2, <1>3, <1>5

-----------------------------------------------------------------------------
(* The steps of the tests *)

(* Of a frame that was allocated, freed and allocated again: first_free    *)
(* finds the same one, so test_free passes, and leaves the bitmap alone.   *)
LEMMA FreeTestKeepsInv ==
  Inv /\ test_free => PhysInv' /\ Testers' /\ Excuses' /\ Kept /\ UNCHANGED goal
<1> SUFFICES ASSUME Inv, test_free
             PROVE  PhysInv' /\ Testers' /\ Excuses' /\ Kept /\ UNCHANGED goal
  OBVIOUS
<1>1. goal = 0 /\ fault = FALSE /\ UNCHANGED <<goal, got, memory, leaked, before, pagingVars>>
  BY DEF test_free, Idle, Inv, MInv, PInv, Structure
<1>2. total_frames \in Nat
  BY DEF Inv, PhysInv
<1>3. UNCHANGED vars /\ (verdict' = "failed" => excused')
  <2>1. CASE first_free(bitmap, total_frames) = {}
    BY <2>1 DEF test_free
  <2>2. CASE first_free(bitmap, total_frames) # {}
    <3>1. PICK frame1 \in first_free(bitmap, total_frames) :
            LET freed == clear_frame(set_frame(bitmap, frame1), frame1)
            IN  \E frame2 \in first_free(freed, total_frames) :
                  /\ verdict' = IF frame1 = frame2 THEN "passed" ELSE "failed"
                  /\ bitmap' = clear_frame(set_frame(freed, frame2), frame2)
                  /\ excused' = FALSE
                  /\ UNCHANGED <<total_frames, used_frames, next_free_physical, held>>
      BY <2>2 DEF test_free
    <3>2. frame1 \notin bitmap
      BY <1>2, FirstFreeIsLowest DEF Lowest
    <3>3. clear_frame(set_frame(bitmap, frame1), frame1) = bitmap
      BY <3>2 DEF clear_frame, set_frame
    <3>4. PICK frame2 \in first_free(bitmap, total_frames) :
            /\ verdict' = IF frame1 = frame2 THEN "passed" ELSE "failed"
            /\ bitmap' = clear_frame(set_frame(bitmap, frame2), frame2)
            /\ excused' = FALSE
            /\ UNCHANGED <<total_frames, used_frames, next_free_physical, held>>
      BY <3>1, <3>3
    <3>5. frame2 = frame1
      BY <1>2, FirstFreeIsLowest
    <3>6. bitmap' = bitmap /\ verdict' = "passed"
      BY <3>3, <3>4, <3>5
    <3> QED
      BY <3>4, <3>6 DEF vars
  <2> QED
    BY <2>1, <2>2
<1>4. PhysInv'
  BY <1>3, PhysUnchanged DEF Inv
<1>5. Testers'
  BY <1>1, <1>3, TestersUnchanged DEF Inv, vars
<1>6. Excuses'
  BY <1>1, <1>3 DEF Excuses, pagingVars
<1>7. Kept
  BY <1>1, <1>3 DEF Kept, Lent, vars, pagingVars
<1> QED
  BY <1>1, <1>4, <1>5, <1>6, <1>7

LEMMA StartKeepsInv ==
  ASSUME Inv, NEW n \in {1, NUM_ALLOCATIONS}, test_allocations(n)
  PROVE  PhysInv' /\ Testers' /\ Excuses' /\ Kept /\ goal = 0
<1>1. /\ goal = 0 /\ mmu = "on" /\ fault = FALSE /\ goal' = n /\ before' = bitmap
      /\ excused' = FALSE /\ verdict' = "none" /\ UNCHANGED vars
      /\ UNCHANGED <<got, memory, leaked, pagingVars>>
  BY DEF test_allocations, Idle, Inv, MInv, PInv, Structure
<1>2. got = << >> /\ ToSet(got) = {} /\ DOMAIN got = {}
  BY <1>1 DEF Inv, Testers, ToSet
<1>3. PhysInv'
  BY <1>1, PhysUnchanged DEF Inv
<1>4. n \in Nat
  BY MemoryAssumption
<1>5. got' = << >> /\ ToSet(got)' = {} /\ DOMAIN got' = {}
  BY <1>1, <1>2 DEF ToSet
<1>6. Testers'
  <2>1. << >> \in Seq(held' \ leaked') /\ leaked' \subseteq held'
    BY <1>1 DEF Inv, Testers, vars
  <2>2. bitmap' = before' /\ mmu' = "on" /\ goal' \in Nat
    BY <1>1, <1>4 DEF vars, pagingVars
  <2> QED
    BY <1>5, <2>1, <2>2, MemoryAssumption DEF Testers
<1>7. Excuses'
  BY <1>1, <1>5 DEF Excuses, pagingVars
<1>8. Kept
  BY <1>1 DEF Kept, Lent, vars, pagingVars
<1> QED
  BY <1>1, <1>3, <1>6, <1>7, <1>8

LEMMA GotIsSet ==
  ASSUME Testers
  PROVE  /\ Len(got) \in Nat /\ DOMAIN got = 1 .. Len(got)
         /\ ToSet(got) \subseteq held \ leaked
         /\ IsFiniteSet(ToSet(got)) /\ Cardinality(ToSet(got)) = Len(got)
<1>1. Len(got) \in Nat /\ DOMAIN got = 1 .. Len(got) /\ \A i \in DOMAIN got : got[i] \in held \ leaked
  BY DEF Testers
<1>2. got \in Bijection(1 .. Len(got), ToSet(got))
  <2>1. got \in [1 .. Len(got) -> ToSet(got)]
    BY <1>1 DEF Testers, ToSet
  <2>2. \A i, j \in 1 .. Len(got) : got[i] = got[j] => i = j
    BY <1>1 DEF Testers
  <2>3. \A f \in ToSet(got) : \E i \in 1 .. Len(got) : got[i] = f
    BY <1>1 DEF ToSet
  <2> QED
    BY <2>1, <2>2, <2>3 DEF Bijection, Injection, Surjection, IsInjective
<1>3. IsFiniteSet(ToSet(got))
  BY <1>1, <1>2, FS_NatBijection DEF ExistsBijection
<1>4. Cardinality(ToSet(got)) = Len(got)
  BY <1>1, <1>2, FS_CountingElements DEF ExistsBijection
<1> QED
  BY <1>1, <1>3, <1>4 DEF ToSet

(* A test that gets no frame keeps those it has. *)
LEMMA NoFrameKeepsInv ==
  ASSUME Inv, goal # 0, TestStep, NoFrame
  PROVE  /\ PhysInv' /\ Testers' /\ Excuses' /\ Kept
         /\ leaked' = leaked => bitmap' = before
         /\ first_free(bitmap, total_frames) = {}
<1>1. /\ goal' = 0 /\ got' = << >> /\ leaked' = leaked \cup ToSet(got)
      /\ excused' = TRUE /\ UNCHANGED vars /\ first_free(bitmap, total_frames) = {}
  BY DEF NoFrame, Return
<1>2. PhysInv'
  BY <1>1, PhysUnchanged DEF Inv
<1>3. Testers'
  <2>1. << >> \in Seq(held' \ leaked') /\ DOMAIN << >> = {}
    OBVIOUS
  <2>2. leaked' \subseteq held'
    BY <1>1, GotIsSet DEF Inv, Testers, vars
  <2> QED
    BY <1>1, <2>1, <2>2 DEF Testers
<1>4. Excuses'
  BY <1>1 DEF Excuses
<1>5. ASSUME leaked' = leaked PROVE bitmap' = before
  <2>1. ToSet(got) = {}
    BY <1>1, <1>5, GotIsSet DEF Inv
  <2> QED
    BY <1>1, <2>1 DEF Inv, Testers, vars
<1>6. Kept
  <2>1. ToSet(got)' = {}
    BY <1>1 DEF ToSet
  <2> QED
    BY <1>1, <2>1 DEF TestStep, Kept, Lent, vars
<1> QED
  BY <1>1, <1>2, <1>3, <1>4, <1>5, <1>6

(* The write of a test through the address of the frame it was given.      *)
Written(f) ==
  LET to == Lookup(f)
  IN  /\ Taken(f)
      /\ bitmap' \in IF to.present THEN Overwritten(set_frame(bitmap, f), to.frame)
                     ELSE {set_frame(bitmap, f)}
      /\ got' = Append(got, f)
      /\ fault' = ~ to.present
      /\ memory' = IF to.present
           THEN [g \in DOMAIN memory \cup {to.frame} |->
                   IF g = to.frame THEN TEST_PATTERN(Len(got)) ELSE memory[g]]
           ELSE memory
      /\ excused' = (excused \/ ~ to.present \/ to.frame # f)

LEMMA WritesToFrame ==
  ASSUME AllocateAndWrite
  PROVE  \E f \in first_free(bitmap, total_frames) : Written(f)
BY DEF AllocateAndWrite, Written

(* It does not hit the bitmap: the page leads to the frame itself, or to   *)
(* one that a client has and has not unmapped, and both lie above it.      *)
LEMMA WrittenAllocates ==
  ASSUME Inv, goal # 0, NEW f \in first_free(bitmap, total_frames), Written(f)
  PROVE  bitmap' = set_frame(bitmap, f) /\ Taken(f)
<1>1. /\ PInv /\ MapInv /\ PhysInv /\ mmu = "on"
      /\ total_frames = 0 \/ total_frames \in MemSizes
  BY DEF Inv, MInv, Testers
<1>2. f \in 0 .. (total_frames - 1) /\ f \notin bitmap /\ total_frames \in Nat
  BY <1>1, FirstFreeIsLowest DEF PhysInv, Lowest
<1>3. ~ (f * PAGE_SIZE < next_free_physical)
  BY <1>1, <1>2 DEF PhysInv, FramesAccountedFor
<1>4. f \in Pages
  BY <1>1, <1>2, MemoryAssumption
<1>5. ASSUME Lookup(f).present PROVE WordAt(Lookup(f).frame) = {}
  <2>1. Lookup(f).frame = f \/ Lookup(f).frame \in held
    BY <1>1, <1>4, <1>5, LookupLeads DEF Leads, Lent
  <2>2. ~ (Lookup(f).frame * PAGE_SIZE < next_free_physical)
    BY <1>1, <1>3, <2>1, HeldIsAbove
  <2> QED
    BY <1>1, <2>2, WordIsBelow
<1> QED
  BY <1>5 DEF Written, Overwritten

(* A frame that is allocated is not one the test has, so what is written   *)
(* to it overwrites nothing the test has written, unless its page is       *)
(* mapped elsewhere, which excuses the test.                               *)
LEMMA AllocateKeepsInv ==
  ASSUME Inv, PInv', goal # 0, TestStep, AllocateAndWrite
  PROVE  PhysInv' /\ Testers' /\ Excuses' /\ Kept /\ goal' = goal
<1>0. PICK f \in first_free(bitmap, total_frames) : Written(f)
  BY WritesToFrame
<1>1. /\ bitmap' = set_frame(bitmap, f) /\ used_frames' = used_frames + 1
      /\ held' = held \cup {f} /\ UNCHANGED <<total_frames, next_free_physical>>
  BY <1>0, WrittenAllocates DEF Taken
<1>2. f \notin bitmap /\ f \notin held
  <2>1. f \notin bitmap
    BY FirstFreeIsLowest DEF Inv, PhysInv, Lowest
  <2> QED
    BY <2>1 DEF Inv, PhysInv, FramesAccountedFor
<1>4. LET to == Lookup(f)
      IN  /\ got' = Append(got, f)
          /\ fault' = ~ to.present
          /\ memory' = IF to.present
               THEN [g \in DOMAIN memory \cup {to.frame} |->
                       IF g = to.frame THEN TEST_PATTERN(Len(got)) ELSE memory[g]]
               ELSE memory
          /\ excused' = (excused \/ ~ to.present \/ to.frame # f)
  BY <1>0 DEF Written
<1>5. UNCHANGED <<goal, verdict, leaked, before, kernel_page_directory, tables, mmu, tlb, call>>
  BY DEF AllocateAndWrite, TestStep, Inv, MInv
<1>6. PhysInv'
  <2>1. allocate_frame
    BY <1>0, WrittenAllocates DEF allocate_frame
  <2> QED
    BY <2>1, AllocateKeepsPhysInv DEF Inv
<1> DEFINE n == Len(got)
<1>7. /\ n \in Nat /\ DOMAIN got = 1 .. n /\ ToSet(got) \subseteq held \ leaked
      /\ leaked \subseteq held
  BY GotIsSet DEF Inv, Testers
<1>8. /\ got' \in Seq(held' \ leaked') /\ DOMAIN got' = 1 .. (n + 1)
      /\ got'[n + 1] = f /\ \A i \in 1 .. n : got'[i] = got[i] /\ got[i] # f
  <2>1. got \in Seq(held' \ leaked')
    <3>1. held \ leaked \subseteq held' \ leaked'
      BY <1>1, <1>5
    <3> QED
      BY <3>1 DEF Inv, Testers
  <2>2. f \in held' \ leaked'
    BY <1>1, <1>2, <1>5, <1>7
  <2>3. got' = Append(got, f)
    BY <1>4
  <2>4. \A i \in 1 .. n : got[i] # f
    BY <1>2, <1>7 DEF ToSet
  <2> QED
    BY <1>7, <2>1, <2>2, <2>3, <2>4
<1>9. ToSet(got)' = ToSet(got) \cup {f}
  <2>1. ASSUME NEW x \in ToSet(got)' PROVE x \in ToSet(got) \cup {f}
    <3>1. PICK i \in 1 .. (n + 1) : x = got'[i]
      BY <1>8 DEF ToSet
    <3>2. i = n + 1 \/ i \in 1 .. n
      BY <1>7
    <3> QED
      BY <1>7, <1>8, <3>1, <3>2 DEF ToSet
  <2>2. ASSUME NEW i \in 1 .. n PROVE got[i] \in ToSet(got)'
    <3>1. i \in 1 .. (n + 1)
      BY <1>7
    <3> QED
      BY <1>8, <3>1 DEF ToSet
  <2>3. f \in ToSet(got)'
    <3>1. n + 1 \in 1 .. (n + 1)
      BY <1>7
    <3> QED
      BY <1>8, <3>1 DEF ToSet
  <2> QED
    BY <1>7, <2>1, <2>2, <2>3 DEF ToSet
<1>10. Testers'
  <2>1. leaked' \subseteq held'
    BY <1>1, <1>5, <1>7
  <2>2. ASSUME NEW i \in 1 .. (n + 1), NEW j \in 1 .. (n + 1), got'[i] = got'[j]
        PROVE  i = j
    <3>1. i \in 1 .. n \/ i = n + 1
      BY <1>7
    <3>2. j \in 1 .. n \/ j = n + 1
      BY <1>7
    <3>3. i \in 1 .. n /\ j \in 1 .. n => i = j
      BY <1>7, <1>8, <2>2 DEF Inv, Testers
    <3> QED
      BY <1>8, <2>2, <3>1, <3>2, <3>3
  <2>3. bitmap' = before' \cup ToSet(got)' /\ before' \cap ToSet(got)' = {}
    BY <1>1, <1>2, <1>5, <1>9 DEF set_frame, Inv, Testers
  <2> QED
    BY <1>5, <1>8, <2>1, <2>2, <2>3 DEF Inv, Testers
<1>11. Excuses'
  <2>1. \A v : Lookup(v)' = Lookup(v)
    BY <1>5, TestKeepsPages
  <2>2. ASSUME ~ excused', NEW i \in 1 .. (n + 1) PROVE Reads(i)'
    <3>1. /\ ~ excused /\ Lookup(f).present /\ Lookup(f).frame = f
          /\ memory' = [g \in DOMAIN memory \cup {f} |->
                          IF g = f THEN TEST_PATTERN(n) ELSE memory[g]]
      BY <1>4, <2>2
    <3>2. CASE i = n + 1
      <4>1. memory'[f] = TEST_PATTERN((n + 1) - 1) /\ f \in DOMAIN memory'
        BY <1>7, <3>1
      <4> QED
        BY <1>8, <2>1, <3>1, <3>2, <4>1 DEF Reads, TEST_PATTERN
    <3>3. CASE i \in 1 .. n
      <4>1. Reads(i)
        BY <1>7, <3>1, <3>3 DEF Inv, Excuses
      <4>2. got'[i] = got[i] /\ got[i] # f
        BY <1>8, <3>3
      <4> QED
        BY <2>1, <3>1, <4>1, <4>2 DEF Reads
    <3> QED
      BY <1>7, <3>2, <3>3
  <2>3. verdict' = "failed" \/ fault' => excused'
    BY <1>4, <1>5 DEF Inv, Excuses
  <2> QED
    BY <1>8, <2>2, <2>3 DEF Excuses
<1>12. Kept
  BY <1>1, <1>2, <1>5, <1>9 DEF Kept, Lent, TestStep
<1> QED
  BY <1>5, <1>6, <1>10, <1>11, <1>12

(* The test reads its frames, and gives back all of them. *)
LEMMA VerifyKeepsInv ==
  ASSUME Inv, goal # 0, TestStep, Verify
  PROVE  /\ PhysInv' /\ Testers' /\ Excuses' /\ Kept
         /\ leaked' = leaked /\ bitmap' = before
<1>1. /\ goal' = 0 /\ got' = << >>
      /\ bitmap' = bitmap \ ToSet(got) /\ used_frames' = used_frames - Len(got)
      /\ held' = held \ ToSet(got)
      /\ UNCHANGED <<total_frames, next_free_physical, leaked, excused, fault>>
  BY DEF Verify, Return, Freed
<1>2. /\ ToSet(got) \subseteq held \ leaked /\ Cardinality(ToSet(got)) = Len(got)
  BY GotIsSet DEF Inv
<1>3. PhysInv'
  BY <1>1, <1>2, FreeingKeepsPhysInv DEF Inv
<1>4. Testers'
  <2>1. << >> \in Seq(held' \ leaked') /\ DOMAIN << >> = {}
    OBVIOUS
  <2>2. leaked' \subseteq held'
    BY <1>1, <1>2 DEF Inv, Testers
  <2> QED
    BY <1>1, <2>1, <2>2 DEF Testers
<1>5. ASSUME verdict' = "failed" PROVE excused
  <2>1. SUFFICES ASSUME ~ excused PROVE FALSE
    OBVIOUS
  <2>2. \A i \in DOMAIN got : Reads(i)
    BY <2>1 DEF Inv, Excuses
  <2>3. ASSUME NEW i \in DOMAIN got
        PROVE  LET g == Lookup(got[i]).frame
               IN  g \in DOMAIN memory /\ WordAt(g) = {} /\ memory[g] = TEST_PATTERN(i - 1)
    <3>1. got[i] \in held
      BY <1>2 DEF ToSet
    <3>2. WordAt(got[i]) = {}
      BY <3>1, HeldIsAbove, WordIsBelow DEF Inv
    <3> QED
      BY <2>2, <3>2 DEF Reads
  <2>4. verdict' = "passed"
    BY <2>3 DEF Verify, Return
  <2> QED
    BY <1>5, <2>4
<1>6. Excuses'
  BY <1>1, <1>5 DEF Inv, Excuses
<1>7. bitmap' = before
  BY <1>1 DEF Inv, Testers
<1>8. Kept
  <2>1. ToSet(got)' = {}
    BY <1>1 DEF ToSet
  <2> QED
    BY <1>1, <2>1 DEF TestStep, Kept, Lent
<1> QED
  BY <1>1, <1>3, <1>4, <1>6, <1>7, <1>8

LEMMA TestingKeepsInv ==
  ASSUME Inv, PInv', Testing
  PROVE  /\ PhysInv' /\ Testers' /\ Excuses' /\ Kept
         /\ goal > 0 /\ goal' = 0 =>
              IF leaked' = leaked THEN bitmap' = before ELSE first_free(bitmap, total_frames) = {}
<1>1. CASE test_free
  BY <1>1, FreeTestKeepsInv DEF Inv, Testers
<1>2. CASE \E n \in {1, NUM_ALLOCATIONS} : test_allocations(n)
  BY <1>2, StartKeepsInv
<1>3. CASE TestStep
  <2>1. goal # 0
    BY <1>3 DEF TestStep
  <2>2. NoFrame \/ AllocateAndWrite \/ Verify
    BY <1>3 DEF TestStep
  <2> QED
    BY <1>3, <2>1, <2>2, NoFrameKeepsInv, AllocateKeepsInv, VerifyKeepsInv
<1> QED
  BY <1>1, <1>2, <1>3 DEF Testing

LEMMA BootKeepsMapInv ==
  ASSUME Inv, PInv', Boot
  PROVE  MapInv'
<1>1. UNCHANGED <<vars, got>>
  BY DEF Boot, testVars
<1>2. CASE vmm_init
  BY <1>1, <1>2, InitKeepsMapInv DEF Inv, MInv, vars
<1>3. CASE vmm_enable
  <2>1. Kept
    BY <1>1, <1>3 DEF vmm_enable, Kept, Lent, vars
  <2> QED
    BY <2>1, KeptKeepsMapInv DEF Inv
<1>4. CASE UNCHANGED pagingVars
  <2>1. Kept
    BY <1>1, <1>4 DEF pagingVars, Kept, Lent, vars
  <2> QED
    BY <2>1, KeptKeepsMapInv DEF Inv
<1> QED
  BY <1>2, <1>3, <1>4 DEF Boot

LEMMA ManagingKeepsMapInv ==
  ASSUME Inv, Managing
  PROVE  MapInv'
<1>1. /\ MapInv /\ PInv /\ mmu = "on" /\ call = NoCall
      /\ UNCHANGED <<got, tables, mmu, tlb, call>>
  BY DEF Inv, MInv, Managing, Idle, pagingVars, testVars
<1>2. CASE \E n \in MemSizes : initialize(n) /\ ReservedFrames' \subseteq LowPages
  BY <1>1, <1>2, PlacedKeepsMapInv
<1>3. CASE allocate_frame
  <2>1. Kept
    BY <1>1, <1>3 DEF allocate_frame, Taken, Kept, Lent
  <2> QED
    BY <1>1, <2>1, KeptKeepsMapInv
<1>4. CASE \E f \in Owned : Unmapped(f) /\ free_frame(f)
  BY <1>1, <1>4, ReturnedKeepsMapInv
<1> QED
  BY <1>2, <1>3, <1>4 DEF Managing

LEMMA MappingKeepsMapInv ==
  ASSUME Inv, Mapping
  PROVE  MapInv'
<1>1. MapInv /\ PInv /\ MInv /\ UNCHANGED <<vars, got>>
  BY DEF Inv, MInv, Mapping, testVars
<1>2. CASE MapCalled
  <2>1. got = << >>
    BY <1>2 DEF MapCalled, Idle, Inv, Testers
  <2> QED
    BY <1>1, <1>2, <2>1, CalledKeepsMapInv
<1>3. CASE WriteEntry
  BY <1>1, <1>3, WrittenKeepsMapInv
<1>4. CASE MapDone
  <2>1. DOMAIN tlb' = DOMAIN tlb \ {call.page} /\ \A u \in DOMAIN tlb' : tlb'[u] = tlb[u]
    BY <1>4 DEF MapDone, invlpg, Without, Restrict
  <2>2. call' = NoCall /\ UNCHANGED <<tables, mmu>>
    BY <1>4 DEF MapDone
  <2>3. Kept
    BY <1>1, <2>1, <2>2 DEF Kept, Lent, vars
  <2> QED
    BY <1>1, <2>3, KeptKeepsMapInv
<1> QED
  BY <1>2, <1>3, <1>4 DEF Mapping, MapCalled

-----------------------------------------------------------------------------
(* All that the run checks *)

LEMMA NextKeepsInv ==
  ASSUME Inv, [MemoryNext]_memoryVars
  PROVE  /\ Inv'
         /\ goal > 0 /\ goal' = 0 =>
              IF leaked' = leaked THEN bitmap' = before ELSE first_free(bitmap, total_frames) = {}
<1>1. MInv' /\ PInv'
  BY NextKeepsMInv DEF Inv, MInv
<1>2. Shapes'
  <2>1. CASE [PagingNext]_pagingVars
    BY <2>1, NextKeepsShapes DEF Inv, MInv
  <2>2. CASE UNCHANGED <<kernel_page_directory, tables, mmu, tlb, call>>
    BY <2>2 DEF Inv, Shapes
  <2> QED
    BY <2>1, <2>2, MemoryStep DEF Inv
<1>3. CASE UNCHANGED memoryVars
  <2>1. PhysInv'
    BY <1>3, PhysUnchanged DEF memoryVars, Inv
  <2>2. Testers'
    BY <1>3, TestersUnchanged DEF memoryVars, Inv, vars, testVars, pagingVars, Testers
  <2>3. \A v : Lookup(v)' = Lookup(v)
    BY <1>3 DEF memoryVars, pagingVars, Lookup, Walk
  <2>4. Excuses'
    BY <1>3, <2>3, ExcusesUnchanged DEF memoryVars, Inv, testVars, pagingVars
  <2>5. UNCHANGED goal
    BY <1>3 DEF memoryVars, testVars
  <2>6. Kept
    BY <1>3 DEF memoryVars, testVars, vars, pagingVars, Kept, Lent
  <2>7. MapInv'
    BY <2>6, KeptKeepsMapInv DEF Inv
  <2> QED
    BY <1>1, <1>2, <2>1, <2>2, <2>4, <2>5, <2>7 DEF Inv
<1>4. CASE Boot \/ Managing \/ Mapping \/ CpuStep
  <2>1. UNCHANGED goal
    BY <1>4 DEF Boot, Managing, Mapping, CpuStep, testVars
  <2>2. CASE CpuStep
    <3>1. MapInv'
      BY <2>2, CpuKeepsMapInv DEF CpuStep, Inv, MInv, testVars
    <3> QED
      BY <1>1, <1>2, <2>1, <2>2, <3>1, CpuKeepsInv DEF Inv
  <2>3. CASE Boot
    BY <1>1, <1>2, <2>1, <2>3, BootKeepsInv, BootKeepsMapInv DEF Inv
  <2>4. CASE Managing
    BY <1>1, <1>2, <2>1, <2>4, ManagingKeepsInv, ManagingKeepsMapInv DEF Inv
  <2>5. CASE Mapping
    BY <1>1, <1>2, <2>1, <2>5, MappingKeepsInv, MappingKeepsMapInv DEF Inv
  <2> QED
    BY <1>4, <2>2, <2>3, <2>4, <2>5
<1>5. CASE Testing
  <2>1. MapInv'
    BY <1>1, <1>5, TestingKeepsInv, KeptKeepsMapInv DEF Inv
  <2> QED
    BY <1>1, <1>2, <1>5, <2>1, TestingKeepsInv DEF Inv
<1> QED
  BY <1>3, <1>4, <1>5 DEF MemoryNext

LEMMA InvHolds == MemorySpec => []Inv
BY InitInv, NextKeepsInv, PTL DEF MemorySpec

(* The bitmap, the counters, the directory, the tables and the TLB keep    *)
(* their shapes, and no set bit stands for a frame that is not there.      *)
THEOREM MemoryIsTyped == MemorySpec => []MemoryTypeOK
<1>1. Inv => MemoryTypeOK
  BY PhysInvImplies, PagingTypes DEF Inv, MInv, MemoryTypeOK
<1> QED
  BY <1>1, InvHolds, PTL

(* In the whole memory, tests and leaks included, no frame is handed out   *)
(* twice or lost, and the counter says whether there is one (memory.cpp).  *)
THEOREM MemoryLosesNoFrame == MemorySpec => [](FramesAccountedFor /\ FreeCountIsHonest)
<1>1. Inv => FramesAccountedFor /\ FreeCountIsHonest
  BY PhysInvImplies DEF Inv
<1> QED
  BY <1>1, InvHolds, PTL

(* A test of memtest.cpp fails, or faults, only where no frame was left or *)
(* where the identity map it relies on is not there (memtest.cpp:9, 41).   *)
THEOREM TestsFailWithReason == MemorySpec => []FailuresExcused
<1>1. Inv => FailuresExcused
  BY DEF Inv, Excuses, FailuresExcused
<1> QED
  BY <1>1, InvHolds, PTL

(* Through whatever mappings clients make and undo, and however often      *)
(* initialize moves the bitmap, no page but its own leads to a frame of    *)
(* the bitmap or the kernel, in the TLB either, and that page does         *)
(* (memory.cpp:37-54, paging.cpp:138-142).                                 *)
THEOREM ReservedStaysPrivate == MemorySpec => []ReservedIsPrivate
<1>1. Inv => ReservedIsPrivate
  BY MapInvImplies DEF Inv, MInv
<1> QED
  BY <1>1, InvHolds, PTL

(* A test that returns leaves the bitmap as it found it, the words its     *)
(* patterns might have overwritten (memtest.cpp:42) included, or has met a *)
(* memory without a free frame (memtest.cpp:38).                           *)
THEOREM TestsRestoreTheBitmap == MemorySpec => TestsGiveBack
<1>1. Inv /\ [MemoryNext]_memoryVars =>
        [goal > 0 /\ goal' = 0 =>
           IF leaked' = leaked THEN bitmap' = before
           ELSE first_free(bitmap, total_frames) = {}]_memoryVars
  BY NextKeepsInv
<1> QED
  BY <1>1, InvHolds, PTL DEF MemorySpec, TestsGiveBack
=============================================================================
