-------------------------------- MODULE Heap --------------------------------
(***************************************************************************)
(* The kernel heap, src/kernel/heap.cpp: init_heap, kmalloc, kfree and     *)
(* krealloc over one arena that a list of headers divides into blocks.     *)
(*                                                                         *)
(* The list that starts at free_list and runs through heap_block_t.next    *)
(* is the sequence "blocks": its i-th element is the i-th header, and the  *)
(* next pointer of the i-th header is the address of the (i+1)-th (NULL    *)
(* for the last).  Header addresses are computed as the code computes      *)
(* them, so that the list tiles the arena is a property and no assumption. *)
(* free_list = NULL, before init_heap, is the empty sequence.              *)
(*                                                                         *)
(* The functions run with interrupts disabled (Interrupts.tla), so a call  *)
(* is one step.  "live" is a history variable: the pointers a client has   *)
(* been given and has not given back, with the size it last asked for.     *)
(***************************************************************************)
EXTENDS Integers, Sequences, SequencesExt

CONSTANTS
  KERNEL_HEAP_START,
  KERNEL_HEAP_SIZE,
  Header,     \* sizeof(heap_block_t): 12 bytes on i686
  Align,      \* the 16 of align16, and of the test that splits a block
  WordSize,   \* size_t arithmetic is modulo WordSize (2^32 on i686)
  Sizes       \* the size arguments of the calls that are modelled

ASSUME HeapAssumption ==
  /\ KERNEL_HEAP_START \in Nat /\ KERNEL_HEAP_SIZE \in Nat
  /\ Header \in Nat /\ Align \in Nat /\ WordSize \in Nat
  /\ 0 < KERNEL_HEAP_START /\ 0 < Header /\ 0 < Align
  /\ Header < KERNEL_HEAP_SIZE
  /\ KERNEL_HEAP_START + KERNEL_HEAP_SIZE + Header + Align <= WordSize
  /\ Sizes \subseteq 0 .. (WordSize - 1)

VARIABLES
  blocks,     \* the list of headers, in list order
  live        \* history: outstanding pointer |-> size asked for

vars == <<blocks, live>>

NULL == 0
HeapEnd == KERNEL_HEAP_START + KERNEL_HEAP_SIZE

Addresses == KERNEL_HEAP_START .. (HeapEnd - 1)
Block == [addr : Addresses, size : 0 .. KERNEL_HEAP_SIZE, free : BOOLEAN]

(* The pointer kmalloc returns for a block, and the end of its payload. *)
Payload(b) == b.addr + Header
EndOf(b) == b.addr + Header + b.size

-----------------------------------------------------------------------------
(* Mutants: forms a slip in heap.cpp could give the definitions below.     *)

Align16Truncates(n) == (n \div Align) * Align

RestIgnoresHeader(b, n) ==
  [addr |-> b.addr + Header + n, size |-> b.size - n, free |-> TRUE]

MergeIgnoresUse(bs, i) == i < Len(bs)

AbsorbIgnoresHeader(b, c) == b.size + c.size

-----------------------------------------------------------------------------
(* kmalloc *)

(* (size + 15) & ~15 in size_t arithmetic. *)
align16(n) == (((n + Align - 1) % WordSize) \div Align) * Align

(* "Find a free block that is big enough" *)
Fits(b, n) == b.free /\ b.size >= n

FirstFit(bs, n) ==
  {i \in DOMAIN bs : Fits(bs[i], n) /\ \A j \in 1 .. (i - 1) : ~ Fits(bs[j], n)}

(* "Check if we can split the block".  The sum does not wrap: n is at most *)
(* the size of a block (HeapAssumption).                                   *)
CanSplit(b, n) == b.size >= n + Header + Align

(* new_block, the header written behind the n bytes that are handed out. *)
Rest(b, n) ==
  [addr |-> b.addr + Header + n, size |-> b.size - n - Header, free |-> TRUE]

(* The list after block i has been handed out for n bytes. *)
Carve(bs, i, n) ==
  IF CanSplit(bs[i], n)
    THEN InsertAt(ReplaceAt(bs, i, [addr |-> bs[i].addr, size |-> n, free |-> FALSE]),
                  i + 1, Rest(bs[i], n))
    ELSE ReplaceAt(bs, i, [bs[i] EXCEPT !.free = FALSE])

(* What kmalloc(n) returns and leaves behind.  An uninitialised heap has   *)
(* no block, so its error return is the one of a full heap.                *)
Kmalloc(bs, n) ==
  LET found == FirstFit(bs, align16(n))
  IN  IF n = 0 \/ found = {}
        THEN [ptr |-> NULL, blocks |-> bs]
        ELSE LET i == CHOOSE k \in found : TRUE
             IN  [ptr |-> Payload(bs[i]), blocks |-> Carve(bs, i, align16(n))]

-----------------------------------------------------------------------------
(* kfree *)

(* The block a client's pointer belongs to: the header just below it. *)
IndexOf(bs, p) == CHOOSE i \in DOMAIN bs : Payload(bs[i]) = p

(* "Try to merge with next block if free" *)
MergesNext(bs, i) == i < Len(bs) /\ bs[i + 1].free

(* block->size += block->next->size + sizeof(heap_block_t) *)
Absorb(b, c) == b.size + c.size + Header

Release(bs, i) ==
  LET freed == ReplaceAt(bs, i, [bs[i] EXCEPT !.free = TRUE])
  IN  IF MergesNext(bs, i)
        THEN RemoveAt(ReplaceAt(freed, i,
                        [addr |-> bs[i].addr, size |-> Absorb(bs[i], bs[i + 1]), free |-> TRUE]),
                      i + 1)
        ELSE freed

Kfree(bs, p) == IF p = NULL THEN bs ELSE Release(bs, IndexOf(bs, p))

-----------------------------------------------------------------------------
(* krealloc: free, allocate, keep, or allocate - copy - free.  The copy    *)
(* itself is modelled in HeapMemory.tla.                                   *)

(* The path that needs a larger block: the old one is given up only once   *)
(* the new one has been obtained.                                          *)
KreallocMove(bs, p, n) ==
  LET r == Kmalloc(bs, n)
  IN  IF r.ptr = NULL THEN r ELSE [r EXCEPT !.blocks = Kfree(@, p)]

Krealloc(bs, p, n) ==
  IF n = 0 THEN [ptr |-> NULL, blocks |-> Kfree(bs, p)]
  ELSE IF p = NULL THEN Kmalloc(bs, n)
  ELSE IF bs[IndexOf(bs, p)].size >= n THEN [ptr |-> p, blocks |-> bs]
  ELSE KreallocMove(bs, p, n)

-----------------------------------------------------------------------------
(* The specification: calls of a client that gives back only pointers it   *)
(* was given, which is how krealloc, ramfs.cpp and heap_test use the heap. *)

Forget(f, p) == [q \in DOMAIN f \ {p} |-> f[q]]
Promise(f, p, n) == [q \in DOMAIN f \cup {p} |-> IF q = p THEN n ELSE f[q]]

Init == blocks = << >> /\ live = [q \in {} |-> 0]

(* kernel_main calls init_heap once, before the first kmalloc that can     *)
(* succeed.                                                                *)
init_heap ==
  /\ blocks = << >>
  /\ blocks' = << [addr |-> KERNEL_HEAP_START,
                   size |-> KERNEL_HEAP_SIZE - Header, free |-> TRUE] >>
  /\ UNCHANGED live

kmalloc(n) ==
  LET r == Kmalloc(blocks, n)
  IN  /\ blocks' = r.blocks
      /\ live' = IF r.ptr = NULL THEN live ELSE Promise(live, r.ptr, n)

kfree(p) ==
  /\ blocks' = Kfree(blocks, p)
  /\ live' = Forget(live, p)

(* On failure krealloc returns NULL and the old region stays the client's. *)
krealloc(p, n) ==
  LET r == Krealloc(blocks, p, n)
  IN  /\ blocks' = r.blocks
      /\ live' = IF n = 0 THEN Forget(live, p)
                 ELSE IF r.ptr = NULL THEN live
                 ELSE Promise(Forget(live, p), r.ptr, n)

Next ==
  \/ init_heap
  \/ \E n \in Sizes : kmalloc(n)
  \/ \E p \in DOMAIN live \cup {NULL} : kfree(p)
  \/ \E p \in DOMAIN live \cup {NULL}, n \in Sizes : krealloc(p, n)

Spec == Init /\ [][Next]_vars

-----------------------------------------------------------------------------
(* Properties *)

(* The variables have the shape of the list of headers and of the table of *)
(* outstanding pointers.                                                   *)
TypeOK ==
  /\ blocks \in Seq(Block)
  /\ live \in [DOMAIN live -> Nat]
  /\ DOMAIN live \subseteq KERNEL_HEAP_START .. HeapEnd

(* The blocks tile the arena: the list begins at KERNEL_HEAP_START, every  *)
(* next pointer is the end of the block before it, and the last block ends *)
(* with the arena.  No sequence of splits and merges (heap.cpp:64-72 and   *)
(* 90-93) loses a byte, or lets two blocks overlap.                        *)
Tiled ==
  blocks # << >> =>
    /\ blocks[1].addr = KERNEL_HEAP_START
    /\ \A i \in 1 .. (Len(blocks) - 1) : blocks[i + 1].addr = EndOf(blocks[i])
    /\ EndOf(blocks[Len(blocks)]) = HeapEnd

(* The used blocks are exactly the outstanding pointers: kmalloc never     *)
(* hands out a block in use, kfree never gives up one that is not its      *)
(* argument, and krealloc keeps the old block when it fails                *)
(* (heap.cpp:112-120).                                                     *)
UsedIffLive ==
  /\ \A i \in DOMAIN blocks : ~ blocks[i].free => Payload(blocks[i]) \in DOMAIN live
  /\ \A p \in DOMAIN live :
       \E i \in DOMAIN blocks : Payload(blocks[i]) = p /\ ~ blocks[i].free

(* An outstanding region has at least the bytes that were asked for.       *)
LiveFits ==
  \A p \in DOMAIN live :
    \E i \in DOMAIN blocks : Payload(blocks[i]) = p /\ blocks[i].size >= live[p]

(* A call leaves the block of every pointer that is outstanding before and *)
(* after it as large as it was: splitting and merging never touch a block  *)
(* in use, and krealloc returns the same pointer only for the same block.  *)
CapacityKept ==
  [][\A p \in DOMAIN live \cap DOMAIN live' :
       \E i \in DOMAIN blocks, j \in DOMAIN blocks' :
         /\ Payload(blocks[i]) = p /\ Payload(blocks'[j]) = p
         /\ blocks[i].size = blocks'[j].size]_vars

(* The heap implements the contract its clients rely on. *)
Abstract == INSTANCE AllocatorContract WITH Arena <- Addresses
Contract == Abstract!Spec
=============================================================================
