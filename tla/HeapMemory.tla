----------------------------- MODULE HeapMemory -----------------------------
(***************************************************************************)
(* The heap at the level of memory words: headers live in the arena next   *)
(* to the bytes of the clients, the list exists only as next pointers in   *)
(* those headers, and krealloc copies words.  One cell of "mem" is one     *)
(* 32-bit word, so a header is the three words size, next and free, and    *)
(* the 16 bytes of align16 are four words.                                 *)
(*                                                                         *)
(* The module is shown to implement Heap.tla under the mapping that reads  *)
(* the list of headers out of memory.                                      *)
(***************************************************************************)
EXTENDS Integers, Sequences, SequencesExt, FiniteSets

CONSTANTS
  KERNEL_HEAP_START, KERNEL_HEAP_SIZE,   \* in words
  Header, Align, WordSize,
  Sizes

(* What Heap.tla assumes of its constants, with a header of three words.   *)
ASSUME MemoryAssumption ==
  /\ KERNEL_HEAP_START \in Nat /\ KERNEL_HEAP_SIZE \in Nat
  /\ Header \in Nat /\ Align \in Nat /\ WordSize \in Nat
  /\ 0 < KERNEL_HEAP_START /\ 0 < Header /\ 0 < Align
  /\ Header < KERNEL_HEAP_SIZE
  /\ KERNEL_HEAP_START + KERNEL_HEAP_SIZE + Header + Align <= WordSize
  /\ Sizes \subseteq 0 .. (WordSize - 1)

ASSUME HeaderAssumption == Header = 3

VARIABLES
  mem,        \* the words of the arena
  free_list,
  live,       \* history: outstanding pointer |-> size asked for
  content     \* history: outstanding pointer |-> the word its client wrote all over it

vars == <<mem, free_list, live, content>>

NULL == 0
HeapEnd == KERNEL_HEAP_START + KERNEL_HEAP_SIZE
Addresses == KERNEL_HEAP_START .. (HeapEnd - 1)

-----------------------------------------------------------------------------
(* heap_block_t: the fields of the header at address a. *)
Size(m, a) == m[a]
NextOf(m, a) == m[a + 1]
IsFree(m, a) == m[a + 2] = 1

SetHeader(m, a, size, next, free) ==
  [m EXCEPT ![a] = size, ![a + 1] = next, ![a + 2] = free]

(* Words [p, p+n) set to d, and words [p, p+n) copied from [q, q+n).  A    *)
(* write outside the arena is not modelled: the properties below would     *)
(* already have failed.                                                    *)
Fill(m, p, n, d) == [a \in DOMAIN m |-> IF a \in p .. (p + n - 1) THEN d ELSE m[a]]
Memcpy(m, p, q, n) ==
  [a \in DOMAIN m |-> IF a \in p .. (p + n - 1) THEN m[q + (a - p)] ELSE m[a]]

(* The headers met by following next from the address a, at most one for   *)
(* each word of the arena: a longer walk is a cycle.                       *)
Headers(m, a) ==
  LET walk[k \in 0 .. KERNEL_HEAP_SIZE] ==
        [x \in Addresses |->
           IF k = 0 THEN << >>
           ELSE <<x>> \o IF NextOf(m, x) \in Addresses THEN walk[k - 1][NextOf(m, x)]
                         ELSE << >>]
  IN  IF a \in Addresses THEN walk[KERNEL_HEAP_SIZE][a] ELSE << >>

-----------------------------------------------------------------------------
(* Mutants: forms a slip in heap.cpp could give the definitions below. *)

CopyWithHeader(m, p, q) == Memcpy(m, q, p - Header, Size(m, p - Header))

UnlinkNone(m, a) ==
  SetHeader(m, a, Size(m, a) + Size(m, NextOf(m, a)) + Header, NextOf(m, a), 1)

-----------------------------------------------------------------------------
align16(n) == (((n + Align - 1) % WordSize) \div Align) * Align

(* The loop of kmalloc: the first free header that is big enough. *)
Search(m, n) ==
  LET hs == Headers(m, free_list)
  IN  {hs[i] : i \in {i \in DOMAIN hs :
                        /\ IsFree(m, hs[i]) /\ Size(m, hs[i]) >= n
                        /\ \A j \in 1 .. (i - 1) :
                             ~ (IsFree(m, hs[j]) /\ Size(m, hs[j]) >= n)}}

(* The header of the part that stays free, then the one of the part that   *)
(* is handed out.                                                          *)
Split(m, a, n) ==
  LET new == a + Header + n
  IN  SetHeader(SetHeader(m, new, Size(m, a) - n - Header, NextOf(m, a), 1),
                a, n, new, 0)

HandOut(m, a, n) ==
  IF Size(m, a) >= n + Header + Align
    THEN Split(m, a, n)
    ELSE [m EXCEPT ![a + 2] = 0]

Kmalloc(m, n) ==
  LET found == Search(m, align16(n))
  IN  IF n = 0 \/ free_list = NULL \/ found = {}
        THEN [ptr |-> NULL, mem |-> m]
        ELSE LET a == CHOOSE a \in found : TRUE
             IN  [ptr |-> a + Header, mem |-> HandOut(m, a, align16(n))]

(* block->size += ...; block->next = block->next->next *)
Unlink(m, a) ==
  SetHeader(m, a, Size(m, a) + Size(m, NextOf(m, a)) + Header, NextOf(m, NextOf(m, a)), 1)

Kfree(m, p) ==
  IF p = NULL THEN m
  ELSE LET a == p - Header
           freed == [m EXCEPT ![a + 2] = 1]
       IN  IF NextOf(m, a) # NULL /\ IsFree(m, NextOf(m, a))
             THEN Unlink(freed, a)
             ELSE freed

(* memcpy(new_ptr, ptr, block->size): all of the old block. *)
CopyOld(m, p, q) == Memcpy(m, q, p, Size(m, p - Header))

Krealloc(m, p, n) ==
  IF n = 0 THEN [ptr |-> NULL, mem |-> Kfree(m, p)]
  ELSE IF p = NULL THEN Kmalloc(m, n)
  ELSE IF Size(m, p - Header) >= n THEN [ptr |-> p, mem |-> m]
  ELSE LET r == Kmalloc(m, n)
       IN  IF r.ptr = NULL THEN r
           ELSE [r EXCEPT !.mem = Kfree(CopyOld(@, p, r.ptr), p)]

-----------------------------------------------------------------------------
(* The clients.  They fill what they have just been given (fs_create_node  *)
(* clears its nodes, fs_write fills the part it has grown), and they give  *)
(* back only what they were given.  What they write is the pointer they    *)
(* got, so that no two outstanding regions hold the same words.            *)

Forget(f, p) == [q \in DOMAIN f \ {p} |-> f[q]]
Note(f, p, n) == [q \in DOMAIN f \cup {p} |-> IF q = p THEN n ELSE f[q]]

Init ==
  /\ mem = [a \in Addresses |-> 0]
  /\ free_list = NULL
  /\ live = [p \in {} |-> 0] /\ content = [p \in {} |-> 0]

init_heap ==
  /\ free_list = NULL
  /\ free_list' = KERNEL_HEAP_START
  /\ mem' = SetHeader(mem, KERNEL_HEAP_START, KERNEL_HEAP_SIZE - Header, NULL, 1)
  /\ UNCHANGED <<live, content>>

kmalloc(n) ==
  LET r == Kmalloc(mem, n)
  IN  /\ UNCHANGED free_list
      /\ IF r.ptr = NULL
           THEN UNCHANGED <<mem, live, content>>
           ELSE /\ mem' = Fill(r.mem, r.ptr, n, r.ptr)
                /\ live' = Note(live, r.ptr, n)
                /\ content' = Note(content, r.ptr, r.ptr)

kfree(p) ==
  /\ mem' = Kfree(mem, p)
  /\ live' = Forget(live, p) /\ content' = Forget(content, p)
  /\ UNCHANGED free_list

(* The client writes only the words beyond the ones it had: those it had   *)
(* must have come with the block.                                          *)
krealloc(p, n) ==
  LET r == Krealloc(mem, p, n)
  IN  /\ UNCHANGED free_list
      /\ IF n = 0 THEN kfree(p)
         ELSE IF r.ptr = NULL THEN UNCHANGED <<mem, live, content>>
         ELSE /\ mem' = Fill(r.mem, r.ptr + live[p], n - live[p], content[p])
              /\ live' = Note(Forget(live, p), r.ptr, n)
              /\ content' = Note(Forget(content, p), r.ptr, content[p])

Next ==
  \/ init_heap
  \/ \E n \in Sizes : kmalloc(n)
  \/ \E p \in DOMAIN live : kfree(p)
  \/ \E p \in DOMAIN live, n \in Sizes : krealloc(p, n)

Spec == Init /\ [][Next]_vars

-----------------------------------------------------------------------------
(* What a client has written in its region is there until it gives the     *)
(* region back, across the splits and merges of its neighbours, whose      *)
(* headers are written next to it (heap.cpp:64-72, 90-93), and across the  *)
(* copy of krealloc (heap.cpp:117).                                        *)
DataIntact ==
  \A p \in DOMAIN live : \A a \in p .. (p + live[p] - 1) : mem[a] = content[p]

(* The list as Heap.tla has it, read out of the headers in memory. *)
ListIn(m, a) ==
  LET hs == Headers(m, a)
  IN  [i \in DOMAIN hs |->
         [addr |-> hs[i], size |-> Size(m, hs[i]), free |-> IsFree(m, hs[i])]]

ListInMemory == ListIn(mem, free_list)

(* The words in memory behave like the list of blocks of Heap.tla, whose   *)
(* theorems therefore speak of them: no header is overwritten by a client  *)
(* or by a copy, and the next pointers and the sizes agree.                *)
List == INSTANCE Heap WITH blocks <- ListInMemory
ListInMemoryImplementsHeap == List!Spec
=============================================================================
