------------------------------ MODULE Segments ------------------------------
(***************************************************************************)
(* The global descriptor table, src/kernel/gdt.cpp: set_gdt_entry cuts a   *)
(* base and a limit into the fields of a descriptor, and the CPU puts them *)
(* together again when a selector is loaded.  A selector is a multiple of  *)
(* eight; its index is that of the descriptor.                             *)
(***************************************************************************)
EXTENDS Integers

VARIABLES
  gdt,      \* the descriptors, from index 0 on
  cs, ds    \* the selectors in the code and in the data segment registers

segmentVars == <<gdt, cs, ds>>

K64 == 65536

-----------------------------------------------------------------------------
(* Mutants: forms a slip in gdt.cpp could give the definitions below.       *)

granularityOverwritten(limit, gran) == (gran \div 16) * 16

-----------------------------------------------------------------------------
(* The byte has bits 16 to 19 of the limit below the flags.                *)
granularity(limit, gran) == ((limit \div K64) % 16) + (gran \div 16) * 16

set_gdt_entry(base, limit, access, gran) ==
  [limit_low |-> limit % K64, granularity |-> granularity(limit, gran),
   base_low |-> base % K64, base_mid |-> (base \div K64) % 256,
   base_high |-> (base \div (256 * K64)) % 256, access |-> access]

FourGiB == 16 * K64 - 1      \* 0xFFFFF, in pages
Flags == 12 * 16 + 15        \* 0xCF: in pages, 32 bits

(* The access bytes 0x9A, 0x92, 0xFA and 0xF2. *)
init_gdt ==
  /\ gdt' = [i \in 0 .. 4 |->
              IF i = 0 THEN set_gdt_entry(0, 0, 0, 0)
              ELSE set_gdt_entry(0, FourGiB, CASE i = 1 -> 154 [] i = 2 -> 146
                                               [] i = 3 -> 250 [] i = 4 -> 242, Flags)]
  /\ cs' = 8 /\ ds' = 16     \* gdt_flush

-----------------------------------------------------------------------------
(* What the CPU makes of a descriptor. *)

Base(d) == d.base_low + K64 * d.base_mid + 256 * K64 * d.base_high
Limit(d) == d.limit_low + K64 * (d.granularity % 16)
InPages(d) == (d.granularity \div 128) % 2 = 1
Present(d) == (d.access \div 128) % 2 = 1
Ring(d) == (d.access \div 32) % 4
IsCode(d) == (d.access \div 8) % 2 = 1
IsWritable(d) == ~ IsCode(d) /\ (d.access \div 2) % 2 = 1

Selected(selector) == gdt[selector \div 8]

Flat(d) == Present(d) /\ Base(d) = 0 /\ Limit(d) = FourGiB /\ InPages(d)

-----------------------------------------------------------------------------
(* The selectors the rest of the kernel loads: the gates of idt.cpp, the   *)
(* stubs of isr_stub.s, the far jump of vmm_enable. *)
GateSelector == 8
StubSelector == 16
JumpSelector == 8
=============================================================================
