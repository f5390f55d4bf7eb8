------------------------------ MODULE PhysMem ------------------------------
(***************************************************************************)
(* The physical memory manager, src/kernel/memory.cpp: a bitmap with one   *)
(* bit per page frame, in words of WordBits bits, and a counter of used    *)
(* frames.  "bitmap" is the set of the frames whose bit is set; the words  *)
(* it lies in cover a few frames beyond total_frames.                      *)
(*                                                                         *)
(* The boot sequence does not call it; its clients are MemoryTester and    *)
(* whoever maps pages later.  They free only what they were given.  "held" *)
(* is a history variable: the frames clients have.                         *)
(***************************************************************************)
EXTENDS Integers, FiniteSets

CONSTANTS
  PAGE_SIZE,
  WordBits,       \* the 32 bits of a word of the bitmap
  WordBytes,      \* the 4 bytes of such a word
  kernel_end,     \* linker symbol: the first byte behind the kernel
  MemSizes        \* the numbers of frames the multiboot information reports

ASSUME PhysMemAssumption ==
  /\ PAGE_SIZE \in Nat \ {0} /\ WordBits \in Nat \ {0} /\ WordBytes \in Nat \ {0}
  /\ kernel_end \in Nat \ {0}
  /\ MemSizes \subseteq Nat \ {0}

VARIABLES
  total_frames, used_frames,
  bitmap,
  next_free_physical,   \* static of initialize: survives the call
  held

vars == <<total_frames, used_frames, bitmap, next_free_physical, held>>

-----------------------------------------------------------------------------
(* Mutants: forms a slip in memory.cpp could give the definitions below.    *)

WordsRoundedDown(frames) == frames \div WordBits
CandidateAnywhere(bits, total, i, f) ==
  /\ f \in (i * WordBits) .. (i * WordBits + WordBits - 1) /\ f \notin bits
  /\ \A g \in (i * WordBits) .. (f - 1) : g \in bits
ReservedRoundedDown(end) == 0 .. (end \div PAGE_SIZE - 1)

-----------------------------------------------------------------------------
align_up(n) == ((n + PAGE_SIZE - 1) \div PAGE_SIZE) * PAGE_SIZE

(* total_frames / 32, and one more for a remainder. *)
Words(frames) == frames \div WordBits + (IF frames % WordBits > 0 THEN 1 ELSE 0)

(* The frames that begin below the address "end": the loop of initialize.  *)
Reserved(end) == {f \in 0 .. end : f * PAGE_SIZE < end}

set_frame(bits, f) == bits \cup {f}
clear_frame(bits, f) == bits \ {f}

(* first_free looks at one word after the other.  In a word it stops at    *)
(* the first clear bit, and returns it only if it stands for a frame; if   *)
(* not, it goes on with the next word.                                     *)
Candidate(bits, total, i, f) ==
  /\ f \in (i * WordBits) .. (i * WordBits + WordBits - 1) /\ f \notin bits
  /\ \A g \in (i * WordBits) .. (f - 1) : g \in bits
  /\ f < total

first_free(bits, total) ==
  {f \in 0 .. (Words(total) * WordBits - 1) :
     LET i == f \div WordBits
     IN  /\ Candidate(bits, total, i, f)
         /\ \A j \in 0 .. (i - 1), g \in 0 .. (f - 1) : ~ Candidate(bits, total, j, g)}

-----------------------------------------------------------------------------
Init ==
  /\ total_frames = 0 /\ used_frames = 0 /\ bitmap = {}
  /\ next_free_physical = kernel_end
  /\ held = {}

(* The bitmap is placed behind the kernel, and behind the bitmap of an     *)
(* earlier call; the bits of what lies below its end are set.  The memory  *)
(* is assumed to reach beyond that.                                        *)
initialize(frames) ==
  LET base == align_up(next_free_physical)
      end == base + Words(frames) * WordBytes
  IN  /\ held = {}
      /\ end <= frames * PAGE_SIZE
      /\ total_frames' = frames
      /\ next_free_physical' = end
      /\ bitmap' = Reserved(end)
      /\ used_frames' = Cardinality(Reserved(end))
      /\ UNCHANGED held

(* The caller has the frame, and the counter knows. *)
Taken(f) ==
  /\ used_frames' = used_frames + 1
  /\ held' = held \cup {f}
  /\ UNCHANGED <<total_frames, next_free_physical>>

allocate_frame ==
  \E f \in first_free(bitmap, total_frames) :
    bitmap' = set_frame(bitmap, f) /\ Taken(f)

free_frame(f) ==
  /\ bitmap' = clear_frame(bitmap, f)
  /\ used_frames' = used_frames - 1
  /\ held' = held \ {f}
  /\ UNCHANGED <<total_frames, next_free_physical>>

Next ==
  \/ \E n \in MemSizes : initialize(n)
  \/ allocate_frame
  \/ \E f \in held : free_frame(f)

Spec == Init /\ [][Next]_vars

-----------------------------------------------------------------------------
(* Properties *)

(* Every bit that is set stands for a frame of the memory, and the bits    *)
(* fit the words of the bitmap.                                            *)
TypeOK ==
  /\ total_frames \in Nat /\ used_frames \in 0 .. total_frames
  /\ bitmap \subseteq 0 .. (total_frames - 1)
  /\ next_free_physical \in Nat
  /\ held \subseteq Nat

(* The frames of clients and the frames below the end of the bitmap are    *)
(* disjoint, and together they are the used ones: the kernel and the       *)
(* bitmap are never handed out (memory.cpp:48-54), no frame is handed out  *)
(* twice, and none is lost.                                                *)
FramesAccountedFor ==
  LET below == {f \in 0 .. (total_frames - 1) : f * PAGE_SIZE < next_free_physical}
  IN  /\ held \cap below = {}
      /\ bitmap = held \cup below
      /\ used_frames = Cardinality(held) + Cardinality(below)

(* get_free_frames, computed from the counter, is the number of frames the *)
(* bitmap still has: allocate_frame fails exactly when it is 0, also when  *)
(* the last word of the bitmap is not full (memory.cpp:110-135).           *)
FreeCountIsHonest ==
  /\ total_frames - used_frames = Cardinality(0 .. (total_frames - 1)) - Cardinality(bitmap)
  /\ total_frames > used_frames <=> first_free(bitmap, total_frames) # {}
=============================================================================
