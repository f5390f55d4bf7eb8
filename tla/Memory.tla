------------------------------- MODULE Memory -------------------------------
(***************************************************************************)
(* Segments, paging and the physical memory manager together, with their   *)
(* clients: those who map frames they were given, and MemoryTester of      *)
(* src/kernel/tests/memtest.cpp, which uses the address of a frame as a    *)
(* pointer.  The boot sequence sets up segments and paging, and nothing in *)
(* the repository calls the rest; here every call may be made, one at a    *)
(* time, while interrupts and the CPU use the TLB.                         *)
(***************************************************************************)
EXTENDS PhysMem, Paging, Segments, Sequences, SequencesExt

CONSTANT NUM_ALLOCATIONS     \* the 10 frames of test_multiple_allocations

(* The frames below the end of the bitmap: the kernel's, those of earlier  *)
(* bitmaps and its own.  The kernel uses the pages of their numbers.       *)
ReservedFrames == Reserved(next_free_physical)

(* The address of a frame fits a pointer. *)
ASSUME MemoryAssumption ==
  /\ NUM_ALLOCATIONS \in Nat \ {0} /\ Frames \subseteq Pages
  /\ \A n \in MemSizes : 0 .. (n - 1) \subseteq Frames
  /\ Reserved(kernel_end) \subseteq KernelPages

VARIABLES
  goal,       \* how many frames the test under way allocates, 0 for no test
  got,        \* frames[0 .. i - 1], in the order of their allocation
  memory,     \* what the test has written, by the frame it went to
  verdict,    \* what the last test returned, or "none"
  leaked,     \* history: frames a test has allocated and nobody has
  before,     \* history: the bitmap when the test under way began
  excused     \* history: the last test met no free frame, or a frame whose
              \* page is not mapped to it

testVars == <<goal, got, memory, verdict, leaked, before, excused>>
memoryVars == <<vars, pagingVars, segmentVars, testVars>>

-----------------------------------------------------------------------------
(* Mutants: forms a slip in the code could give the definitions below.      *)

AllButLast(frames) == {frames[i] : i \in 1 .. (Len(frames) - 1)}

-----------------------------------------------------------------------------
MemoryInit ==
  /\ Init /\ PagingInit
  /\ gdt = << >> /\ cs = 0 /\ ds = 0
  /\ goal = 0 /\ got = << >> /\ memory = << >> /\ verdict = "none"
  /\ leaked = {} /\ before = {} /\ excused = FALSE

(* kernel_main: init_gdt, vmm_init, vmm_enable. *)
Boot ==
  /\ \/ gdt = << >> /\ init_gdt /\ UNCHANGED pagingVars
     \/ gdt # << >> /\ (vmm_init \/ vmm_enable) /\ UNCHANGED segmentVars
  /\ UNCHANGED <<vars, testVars>>

Idle == mmu = "on" /\ goal = 0 /\ call = NoCall /\ ~ fault

Owned == held \ leaked

(* Clients undo the mappings they have made of a frame before they give it *)
(* back: no page but its own is mapped to it any more.                     *)
Unmapped(f) == \A v \in Pages \ {f} : ~ (Walk(v).present /\ Walk(v).frame = f)

(* The bitmap is written through its pages, so the tables have to reach    *)
(* beyond it.                                                              *)
Managing ==
  /\ Idle
  /\ \/ \E n \in MemSizes : initialize(n) /\ ReservedFrames' \subseteq LowPages
     \/ allocate_frame
     \/ \E f \in Owned : Unmapped(f) /\ free_frame(f)
  /\ UNCHANGED <<pagingVars, segmentVars, testVars>>

(* Clients map neither the pages of the kernel nor those of the bitmap;    *)
(* another page they map to a frame of theirs, or back to its own frame.   *)
Mapping ==
  /\ \/ /\ Idle
        /\ \E v \in ClientPages \ ReservedFrames, rw \in BOOLEAN :
             \E p \in Owned \cup ({v} \cap Frames) : vmm_map(v, p, rw)
     \/ WriteEntry \/ MapDone
  /\ UNCHANGED <<vars, segmentVars, testVars>>

CpuStep == Cpu /\ UNCHANGED <<vars, segmentVars, testVars>>

-----------------------------------------------------------------------------
(* MemoryTester *)

(* Allocate, free and allocate again, and free.                            *)
test_free ==
  /\ Idle
  /\ IF first_free(bitmap, total_frames) = {}
       THEN verdict' = "failed" /\ excused' = TRUE /\ UNCHANGED vars
       ELSE \E frame1 \in first_free(bitmap, total_frames) :
              LET freed == clear_frame(set_frame(bitmap, frame1), frame1)
              IN  \E frame2 \in first_free(freed, total_frames) :
                    /\ verdict' = IF frame1 = frame2 THEN "passed" ELSE "failed"
                    /\ bitmap' = clear_frame(set_frame(freed, frame2), frame2)
                    /\ excused' = FALSE
                    /\ UNCHANGED <<total_frames, used_frames, next_free_physical, held>>
  /\ UNCHANGED <<goal, got, memory, leaked, before, pagingVars>>

(* test_allocation does with one frame what test_multiple_allocations does *)
(* with NUM_ALLOCATIONS.                                                   *)
test_allocations(n) ==
  /\ Idle /\ goal' = n
  /\ before' = bitmap /\ excused' = FALSE /\ verdict' = "none"
  /\ UNCHANGED <<vars, got, memory, leaked, pagingVars>>

Return(success) ==
  /\ goal' = 0 /\ got' = << >> /\ memory' = << >> /\ before' = {}
  /\ verdict' = success

(* The test returns at once when it gets no frame, and keeps those it got. *)
NoFrame ==
  /\ first_free(bitmap, total_frames) = {}
  /\ Return("failed")
  /\ leaked' = leaked \cup ToSet(got) /\ excused' = TRUE
  /\ UNCHANGED <<vars, fault>>

TEST_PATTERN(i) == i

(* The word of the bitmap at the start of a frame, as the bits it holds.   *)
WordAt(g) ==
  LET words == Words(total_frames)
      first == next_free_physical - words * WordBytes
  IN  {b \in 0 .. (words * WordBits - 1) :
         first + (b \div WordBits) * WordBytes = g * PAGE_SIZE}

(* A pattern is as wide as a word of the bitmap: written over one, it sets *)
(* and clears any of its bits.                                             *)
Overwritten(bits, g) == {(bits \ WordAt(g)) \cup set : set \in SUBSET WordAt(g)}

(* *ptr = TEST_PATTERN + i: the frame is where the page of its number is.  *)
AllocateAndWrite ==
  /\ \E f \in first_free(bitmap, total_frames) :
       LET to == Lookup(f)
       IN  /\ Taken(f)
           /\ bitmap' \in IF to.present THEN Overwritten(set_frame(bitmap, f), to.frame)
                          ELSE {set_frame(bitmap, f)}
           /\ got' = Append(got, f)
           /\ fault' = ~ to.present
           /\ memory' = IF to.present
                THEN [g \in DOMAIN memory \cup {to.frame} |->
                        IF g = to.frame THEN TEST_PATTERN(Len(got)) ELSE memory[g]]
                ELSE memory
           /\ excused' = (excused \/ ~ to.present \/ to.frame # f)
  /\ UNCHANGED <<goal, verdict, leaked, before>>

Freed(frames) == ToSet(frames)

(* A pattern over a word of the bitmap may have been changed since.        *)
Verify ==
  /\ Len(got) = goal
  /\ \E same \in BOOLEAN :
       LET reads(i, value) ==
             LET g == Lookup(got[i]).frame
             IN  /\ g \in DOMAIN memory
                 /\ IF WordAt(g) = {} THEN memory[g] = value ELSE same
       IN  Return(IF \A i \in DOMAIN got : reads(i, TEST_PATTERN(i - 1))
                    THEN "passed" ELSE "failed")
  /\ bitmap' = bitmap \ Freed(got)
  /\ used_frames' = used_frames - Len(got)
  /\ held' = held \ Freed(got)
  /\ UNCHANGED <<total_frames, next_free_physical, leaked, excused, fault>>

TestStep ==
  /\ goal > 0 /\ ~ fault
  /\ (Len(got) < goal /\ (NoFrame \/ AllocateAndWrite)) \/ Verify
  /\ UNCHANGED <<kernel_page_directory, tables, mmu, tlb, call>>

Testing ==
  /\ \/ test_free
     \/ \E n \in {1, NUM_ALLOCATIONS} : test_allocations(n)
     \/ TestStep
  /\ UNCHANGED segmentVars

MemoryNext == Boot \/ Managing \/ Mapping \/ CpuStep \/ Testing

MemorySpec == MemoryInit /\ [][MemoryNext]_memoryVars

-----------------------------------------------------------------------------
(* Properties *)

(* The shapes of the two halves.                                           *)
MemoryTypeOK == TypeOK /\ PagingTypeOK

(* A test of memtest.cpp fails, or faults, only where no frame was left or *)
(* where the identity map it relies on (memtest.cpp:9, 41) is not there:   *)
(* vmm_map has remapped the page, or the frame is above the page tables.   *)
FailuresExcused == (verdict = "failed" \/ fault) => excused

(* A test that returns leaves the bitmap as it found it, unless it ran out *)
(* of frames: then it keeps what it got (memtest.cpp:38).  In particular   *)
(* the patterns it writes through the page of a frame (memtest.cpp:42) do  *)
(* not hit the bitmap, wherever that page has been mapped and wherever     *)
(* initialize has put the bitmap in the meantime.                          *)
TestsGiveBack ==
  [][goal > 0 /\ goal' = 0 =>
       IF leaked' = leaked THEN bitmap' = before ELSE first_free(bitmap, total_frames) = {}]_memoryVars

(* The bitmap stays where initialize has put it, although it is used by    *)
(* its address with paging on, and nobody else reaches it: through the     *)
(* mappings that clients make, undo and leave in the TLB, and however      *)
(* often initialize moves the bitmap, no page but its own leads to a frame *)
(* of the bitmap or the kernel (memory.cpp:37-54, paging.cpp:138-142).     *)
ReservedIsPrivate ==
  mmu = "on" =>
    \A f \in ReservedFrames, v \in Pages :
      Lookup(v).present /\ Lookup(v).frame = f <=> v = f

SegmentsAreFlat ==
  /\ \A s \in {cs, ds, GateSelector, StubSelector, JumpSelector} :
       Flat(Selected(s)) /\ Ring(Selected(s)) = 0
  /\ \A s \in {cs, GateSelector, JumpSelector} : IsCode(Selected(s))
  /\ \A s \in {ds, StubSelector} : IsWritable(Selected(s))

(* An address of the kernel reaches the byte of that number, whatever      *)
(* clients have mapped: the selectors that gdt.cpp, idt.cpp, isr_stub.s    *)
(* and paging.cpp load name flat descriptors of ring 0 (gdt.cpp:13-30),    *)
(* and paging leaves the pages of the kernel where they are.               *)
KernelReachesItself == (gdt # << >> => SegmentsAreFlat) /\ KernelInPlace
=============================================================================
