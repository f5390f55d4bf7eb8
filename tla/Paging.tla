------------------------------- MODULE Paging -------------------------------
(***************************************************************************)
(* Paging, src/kernel/paging.cpp: the page directory, the page tables that *)
(* map the low memory to itself, and vmm_map, which changes one entry of a *)
(* table.  A page and a frame are numbers, an address without its last 12  *)
(* bits; page v lies at the frame v where nothing is remapped.             *)
(*                                                                         *)
(* External, from how the kernel uses them: the page walk of the CPU, and  *)
(* its TLB, which may keep the entry of a page until invlpg or forget it,  *)
(* and may look up any page at any time.                                   *)
(***************************************************************************)
EXTENDS Integers, FiniteSets, Functions

CONSTANTS
  PDE_ENTRIES, PTE_ENTRIES,    \* 1024 of each
  TABLES,                      \* the 4 page tables
  TableFrame,                  \* linker: the frame of each page table
  KernelPages,                 \* the pages of the kernel and of its data
  Frames,                      \* the frames there are
  TlbSize                      \* bound of the model: entries in the TLB

(* The pages the tables of vmm_init map. *)
LowPages == 0 .. (TABLES * PTE_ENTRIES - 1)

ASSUME PagingAssumption ==
  /\ PTE_ENTRIES \in Nat \ {0} /\ TABLES \in Nat \ {0} /\ TlbSize \in Nat
  /\ PDE_ENTRIES \in Nat /\ TABLES <= PDE_ENTRIES
  /\ TableFrame \in Injection(0 .. (TABLES - 1), KernelPages)
  /\ KernelPages \subseteq LowPages
  /\ Frames \subseteq Nat

VARIABLES
  kernel_page_directory,
  tables,       \* the page tables, by the frame they are in
  mmu,          \* "off", "ready": after vmm_init, "on": after vmm_enable
  tlb,          \* a function from the pages it holds to their entries
  call,         \* the call of vmm_map under way
  fault         \* page_fault_handler has stopped the CPU

pagingVars == <<kernel_page_directory, tables, mmu, tlb, call, fault>>

Pages == 0 .. (PDE_ENTRIES * PTE_ENTRIES - 1)
TableFrames == {TableFrame[t] : t \in 0 .. (TABLES - 1)}

Absent == [present |-> FALSE, rw |-> FALSE, frame |-> 0]
Entry(f, rw) == [present |-> TRUE, rw |-> rw, frame |-> f]
Entries == {Absent} \cup {Entry(f, rw) : f \in Frames, rw \in BOOLEAN}
NoCall == [at |-> "none"]

-----------------------------------------------------------------------------
(* Mutants: forms a slip in paging.cpp could give the definitions below.    *)

NothingFlushed(v) == tlb
IndexOffByOne(v) == (v + 1) % PTE_ENTRIES

-----------------------------------------------------------------------------
(* The CPU: the walk through the directory and a table, and the TLB.       *)
Walk(v) ==
  LET pde == kernel_page_directory[v \div PTE_ENTRIES]
  IN  IF pde.present THEN tables[pde.frame][v % PTE_ENTRIES] ELSE Absent

Lookup(v) ==
  IF mmu # "on" THEN Entry(v, TRUE)
  ELSE IF v \in DOMAIN tlb THEN tlb[v]
  ELSE Walk(v)

PagingInit ==
  /\ kernel_page_directory = [i \in 0 .. (PDE_ENTRIES - 1) |-> Absent]
  /\ tables = [f \in TableFrames |-> [i \in 0 .. (PTE_ENTRIES - 1) |-> Absent]]
  /\ mmu = "off" /\ tlb = << >> /\ call = NoCall /\ fault = FALSE

phys_addr(t, i) == t * PTE_ENTRIES + i

kernel_page_table(t) == TableFrame[t]

vmm_init ==
  /\ mmu = "off" /\ mmu' = "ready"
  /\ kernel_page_directory' =
       [i \in 0 .. (PDE_ENTRIES - 1) |->
          IF i < TABLES THEN Entry(kernel_page_table(i), TRUE) ELSE Absent]
  /\ tables' =
       [f \in TableFrames |->
          LET t == CHOOSE n \in 0 .. (TABLES - 1) : TableFrame[n] = f
          IN  [i \in 0 .. (PTE_ENTRIES - 1) |-> Entry(phys_addr(t, i), TRUE)]]
  /\ UNCHANGED <<tlb, call, fault>>

vmm_enable ==
  /\ mmu = "ready" /\ mmu' = "on"
  /\ tlb' = << >>
  /\ UNCHANGED <<kernel_page_directory, tables, call, fault>>

pd_index(v) == v \div PTE_ENTRIES
pt_index(v) == v % PTE_ENTRIES

(* vmm_map up to the write of the entry.  It returns without a word to the *)
(* caller when there is no page table.                                     *)
vmm_map(v, p, rw) ==
  /\ mmu = "on" /\ call = NoCall /\ ~ fault
  /\ LET pde == kernel_page_directory[pd_index(v)]
     IN  call' = IF pde.present
                   THEN [at |-> "write", page |-> v, entry |-> Entry(p, rw),
                         table |-> pde.frame]
                   ELSE NoCall
  /\ UNCHANGED <<kernel_page_directory, tables, mmu, tlb, fault>>

(* The physical address of the table is used as an address: the write goes *)
(* where the page of that number is mapped.                                *)
WriteEntry ==
  /\ call.at = "write" /\ ~ fault
  /\ LET to == Lookup(call.table)
     IN  /\ fault' = ~ to.present
         /\ IF to.present /\ to.frame \in TableFrames
              THEN tables' = [tables EXCEPT ![to.frame][pt_index(call.page)] = call.entry]
              ELSE UNCHANGED tables
  /\ call' = [call EXCEPT !.at = "invlpg"]
  /\ UNCHANGED <<kernel_page_directory, mmu, tlb>>

Without(v) == Restrict(tlb, DOMAIN tlb \ {v})

invlpg(v) == Without(v)

MapDone ==
  /\ call.at = "invlpg" /\ ~ fault
  /\ tlb' = invlpg(call.page)
  /\ call' = NoCall
  /\ UNCHANGED <<kernel_page_directory, tables, mmu, fault>>

(* The CPU walks to a page, for an interrupt handler or ahead of time, and *)
(* keeps what it finds.                                                    *)
Fill(v) ==
  /\ mmu = "on" /\ ~ fault
  /\ v \notin DOMAIN tlb /\ Cardinality(DOMAIN tlb) < TlbSize
  /\ Walk(v).present
  /\ tlb' = [u \in DOMAIN tlb \cup {v} |-> IF u = v THEN Walk(v) ELSE tlb[u]]
  /\ UNCHANGED <<kernel_page_directory, tables, mmu, call, fault>>

Evict(v) ==
  /\ v \in DOMAIN tlb /\ ~ fault
  /\ tlb' = Without(v)
  /\ UNCHANGED <<kernel_page_directory, tables, mmu, call, fault>>

Cpu == \E v \in Pages : Fill(v) \/ Evict(v)

(* Clients do not remap the kernel. *)
ClientPages == Pages \ KernelPages

PagingNext ==
  \/ vmm_init \/ vmm_enable
  \/ \E v \in ClientPages, p \in Frames, rw \in BOOLEAN : vmm_map(v, p, rw)
  \/ WriteEntry \/ MapDone
  \/ Cpu

PagingSpec == PagingInit /\ [][PagingNext]_pagingVars

-----------------------------------------------------------------------------
(* Properties *)

(* The directory, the tables, the TLB and the call have their shapes.  The *)
(* directory names each page table once, and the TLB no absent entry.      *)
PagingTypeOK ==
  /\ kernel_page_directory \in
       [0 .. (PDE_ENTRIES - 1) -> {Absent} \cup {Entry(f, TRUE) : f \in TableFrames}]
  /\ tables \in [TableFrames -> [0 .. (PTE_ENTRIES - 1) -> [present : BOOLEAN, rw : BOOLEAN, frame : Nat]]]
  /\ mmu # "off" =>
       {kernel_page_directory[i].frame : i \in 0 .. (TABLES - 1)} = TableFrames
  /\ mmu \in {"off", "ready", "on"} /\ fault \in BOOLEAN
  /\ DOMAIN tlb \subseteq Pages /\ \A v \in DOMAIN tlb : tlb[v].present
  /\ call = NoCall \/ (call.at \in {"write", "invlpg"} /\ call.page \in ClientPages)

(* The TLB never disagrees with the tables, except about the page whose    *)
(* entry vmm_map has just written and not yet flushed (paging.cpp:138-142).*)
Coherent ==
  mmu = "on" =>
    \A v \in DOMAIN tlb :
      tlb[v] = Walk(v) \/ (call.at = "invlpg" /\ call.page = v)

(* Every page of the kernel, its page tables among them, stays at the frame*)
(* of its number, as the cast "Identity-mapped" of vmm_map takes for       *)
(* granted (paging.cpp:135), so vmm_map itself never faults.               *)
KernelInPlace ==
  /\ \A v \in KernelPages : Lookup(v) = Entry(v, TRUE)
  /\ call # NoCall => ~ fault

(* vmm_map implements the address space: with the TLB between the tables   *)
(* and the accesses, the change of a mapping is still one instant inside   *)
(* the call, and concerns one page (paging.cpp:121-144).                   *)
A == INSTANCE AddressSpace WITH
       Entries <- Entries \cup {Entry(v, TRUE) : v \in Pages},
       Home <- [v \in Pages |-> Entry(v, TRUE)],
       Kept <- LowPages,
       space <- [v \in Pages |-> Lookup(v)],
       pending <- IF call = NoCall THEN {} ELSE {<<call.page, call.entry>>}

MapsAtomically == A!Spec
=============================================================================
