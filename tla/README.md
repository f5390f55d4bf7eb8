# ContinuumOS in TLA+

ContinuumOS is a small kernel for one i686 CPU: it boots through GRUB, sets up
segments, interrupts, paging and a heap, makes a RAM file system with one file,
and then runs a shell that lives entirely in the keyboard interrupt. The
modules in this directory model its components, TLC checks them on small
instances, and TLAPS proves the theorems of the modules named `...Proofs` for every
instance: of the heap and its words in memory, the file system, the descriptors, the
console, the interrupts, the memory manager, paging and the C library.

`tlc -config X.cfg M` checks the module `M`; `tlapm M.tla` checks the proofs in
it. `PROJECT.json` lists the runs, the mutants, the lines each definition stands
for, the hazards and the theorems.

## 1. Inventory

### How the kernel runs

`kernel_main` (kernel.cpp) runs with interrupts off: terminal, GDT, PIC, IDT,
paging, heap, file system, the README node, keyboard, timer, shell prompt, and
then `sti` and a `hlt` loop. From then on every line of kernel code runs inside
an interrupt handler. All gates are interrupt gates, the stubs begin with `cli`
and end with `sti; iret`, and the EOI is sent before the handler is called. A
shell command is therefore a call that runs to completion in IRQ 1. `Interrupts`
checks that (property `NoNesting`), and the other modules use it: a call is one
action. `Machine` checks the same from outside: whatever the devices do between
the two halves of `keyboard_callback`, the console changes as if a key were one
step (`KeysAreAtomic`).

| component | state | operations | what makes it correct |
|---|---|---|---|
| kernel heap (heap.cpp) | the list of headers in an 8 MiB arena | `init_heap` `kmalloc` `kfree` `krealloc` | blocks tile the arena; a block is used exactly while a client holds it; contents survive neighbours and copies |
| file system tree (ramfs.cpp) | `FSNode`s with `parent` and `children` | `fs_create_node` `fs_add_child` `fs_remove_child` `fs_find_child` | both directions of the tree agree; removal takes one entry with what is below; limits are kept |
| descriptors, contents and paths (ramfs.cpp, syscalls.cpp) | `fd_table`, `data` and `size` of the nodes | `sys_open/read/write/close`, `fs_mkdir`, `fs_touch`, `fs_find_by_path` | a descriptor stays bound; reading gives what was written; buffers cover sizes |
| shell commands (shell.cpp) | `current_dir` | ls cd cat touch mkdir rm rmdir help uptime | the current directory stays in the tree; messages are true; a failed allocation is survived |
| line editor and dispatch (shell.cpp) | `shell_buffer`, `shell_index` | `shell_handle_key`, `shell_process_command` | what is seen is what is run; the buffer is never overrun |
| terminal (vga.cpp) | row, column, cells, hardware cursor | `putchar` and what it calls | screen and cursor show the text that was printed |
| keyboard driver (keyboard.cpp) | shift and caps flags, the controller | `keyboard_install`, `read_keyboard` | the shift flag follows the keys; the controller never blocks |
| interrupts (idt, isr, isr_stub, pic, timer) | IDT, handler table, 8259, ticks | `init_*`, stubs, `irq_handler` | handlers do not nest; every request is served; handlers exist before they are needed |
| physical memory manager (memory.cpp) | bitmap, counters | `initialize` `allocate_frame` `free_frame` | a frame has one owner; kernel and bitmap are reserved; the counter is right |
| paging (paging.cpp) | directory, four tables, the CPU's TLB | `vmm_init` `vmm_enable` `vmm_map` | mapping a page is one instant and concerns one page; the kernel and the page tables stay where they are |
| segments (gdt.cpp) | the GDT, CS and the data selectors | `init_gdt` | every selector the kernel loads names a flat descriptor of ring 0 |
| memory tests (tests/memtest.cpp) | local arrays, the words they write | three tests | they fail only for want of a frame or of the identity map; frames come back |
| C library (libc) | `strtok`'s static pointer, locals | `printf`, `itoa`, string functions | numbers and words come out right; regions may overlap; nothing is read behind a NUL |
| ports, debug, utilities, boot.s, build | — | — | — |

Interaction: IRQ 1 -> `keyboard_callback` -> `shell_handle_key` -> a command ->
ramfs -> heap, with every step printing through the terminal; IRQ 0 -> the tick
counter, which `uptime` reads. `MemoryTester` -> frames -> their addresses used as
pointers -> paging. The physical memory manager, the tests, the system calls,
`fs_mkdir`, `fs_touch` and `vmm_map` are written but have no caller in the boot
sequence; they are modelled for the clients they are written for.

### What is hard

There is one CPU and no preemption, so the hard part is less interleaving than
long sequences of legal calls, partial failure, and the boundary with the devices:
splits and merges of heap blocks; an allocation that fails halfway through
`touch`; an array shifted by the recursion that walks it; two representations of a
tree; erasing over a row edge after a scroll; a shift flag shared by two keys; the
order of boot steps; an output buffer that blocks if its edge is lost; bytes that
come while the last one is being handled; a TLB between the page tables and the
accesses; page tables reached through the mapping they define; numbers that do not
fit the type they are passed in. `PROJECT.json` lists each hazard at its line with
the properties that cover it, or why none does.

## 2. Modules

| module | models | uses |
|---|---|---|
| `AllocatorContract` | what a client of the heap may rely on | |
| `Heap` | heap.cpp over the list of blocks | implements `AllocatorContract` |
| `HeapMemory` | heap.cpp over memory words, headers and clients' data side by side | implements `Heap` |
| `HeapTest` | tests/heaptest.cpp | extends `Heap` |
| `HeapProofs` | theorems about `Heap` | extends `Heap` |
| `HeapMemoryProofs` | theorems about `HeapMemory` | extends `HeapMemory`, `DataInduction`, instances `HeapProofs` |
| `RamFS` | operators of the tree in ramfs.cpp | |
| `TreeContract` | the tree a user of the shell sees | |
| `Shell` | the file commands | extends `RamFS`, implements `TreeContract` |
| `Syscalls` | descriptors, contents and paths, with the shell's commands in between | extends `Shell` |
| `SyscallsProofs` | theorems about `Shell` and `Syscalls` | extends `Syscalls`, `DataInduction` |
| `Terminal` | vga.cpp | |
| `Console` | keyboard decoding, line editor, dispatch | extends `Terminal` |
| `ConsoleProofs` | theorems about `Console` | extends `Console`, `DataInduction` |
| `Interrupts` | boot order, CPU flag, 8259, keyboard controller, PIT, handlers | |
| `Machine` | the interrupts carrying bytes to the console, `keyboard_callback` in two steps | extends `Interrupts`, instances `Console` |
| `InterruptsProofs` | theorems about `Interrupts` and `Machine` | extends `Machine` |
| `PhysMem` | memory.cpp | |
| `AddressSpace` | what paging promises | |
| `Paging` | paging.cpp, with page walk and TLB | implements `AddressSpace` |
| `Segments` | gdt.cpp | |
| `Memory` | frames, paging, segments and tests/memtest.cpp | extends `PhysMem`, `Paging`, `Segments` |
| `MemoryProofs` | theorems about `PhysMem`, `Paging` and `Memory` | extends `Memory`, `DataInduction` |
| `Stdio` | stdio.cpp: `printf` and `itoa` | |
| `Strings` | string.cpp: `memmove` `memcpy` `strtok`; `split_path` of ramfs.cpp | |
| `CLibrary` | one call at a time | extends `Stdio`, `Strings` |
| `LibraryProofs` | theorems about `CLibrary` | extends `CLibrary`, `DataInduction` |
| `DataInduction` | lemmas of the proofs: division, induction over a set of numbers, functions defined by recursion | |
| `MCHeap` `MCShell` `MCSyscalls` `MCConsole` `MCMachine` `MCMemory` `MCLibrary` | values of constants for TLC | |

A module that says what others promise (`AllocatorContract`, `TreeContract`,
`AddressSpace`) is instantiated with a refinement mapping and checked as a
property; `Console` plays that part for `Machine`.

### State and code

* **Heap.** `blocks` is the list from `free_list` along `next`; an element has
  the header's address, `size` and `free`. Addresses are computed where the code
  computes them, so that the list tiles the arena is a property. `live` is a
  history variable: the pointers a client holds with the size it asked for.
  `size_t` arithmetic that can wrap, in `align16`, is modulo `WordSize`; the other
  sums are bounded by the arena.
* **HeapMemory.** `mem` is the arena in 32-bit words. Headers are three words in
  it, the list exists only as pointers, `krealloc` copies words. `content` is
  history: the word a client has written all over its region. One cell is a word
  because every address and size the code computes is a multiple of four, and the
  list is read back out of the words by the refinement mapping `ListInMemory`.
* **RamFS, Shell.** A node is the index of its record in `nodes`; nodes are never
  freed, as in the code. The commands use `fs_remove_child` in closed form (`Hit`,
  `Remaining`); `RemoveLoop` is the loop itself, over the arrays of children, with the
  recursion as a function of its depth, and `RemovalMatchesLoop` compares the two.
  `created` is the name the
  last command reported as created. `stray` becomes true when the code writes
  through NULL; page 0 is mapped, so the write succeeds and destroys low memory,
  and the model stops there. An allocation may fail at any call (`MayFail`), and
  always does once `MaxNodes` exist.
* **Syscalls.** `fd_table` as in the code; `contents` is history: what writers
  put into each node. A read changes no state, so it appears in a property and not
  as an action. A call that fails and changes nothing is a stuttering step.
* **Terminal, Console.** `term` is the object `terminal`. `text` and the field
  `scrolls` are history: what was printed and not erased, and how often the screen
  scrolled. `held` is the environment: which shift keys are down. A command is
  what it may print. `lost` is the call of address 0.
* **Interrupts.** `pc` walks `Boot`, the steps of `kernel_main` that touch
  interrupts. `frames` is the stack of interrupts being served, each at one of
  `entry` (before the stub's `cli`), `eoi`, `call`, `body`. `irr`, `isr`, `imr` are
  the 8259's registers, `obf` the keyboard's output buffer, `ackDue` an
  acknowledgement on its way. The firmware may leave any mask, any request and a
  byte in the buffer. When a byte is read before its request is taken, the 8259
  may or may not withdraw the request: both are modelled.
* **Machine.** The flags of the keyboard driver change in `read_keyboard`, the
  line and the screen in `shell_handle_key`; `events` holds the local variable that
  carries the event from one to the other. `data` is the byte in the output
  register, which the port still shows after it was read; `owed` is history: the
  bytes sent and neither thrown away by the boot sequence nor handled. `Console` is
  instantiated with the flags as the event under way found them, so a key is one
  step there and two here. `ghosts` counts events that nobody was owed: one is
  possible, when a request from before the polling is served after it.
* **PhysMem.** `bitmap` is the set of the bits that are set, in words of
  `WordBits`. `held` is history: the frames clients have. `next_free_physical` is
  the static variable that survives a second `initialize`, and `ReservedFrames`
  (in `Memory`) what lies below it. The bitmap itself is used by its address:
  `ReservedIsPrivate` says that with paging on this still reaches it, and nobody
  else does.
* **Paging.** Pages and frames are numbers, an address without its last twelve
  bits. `tables` gives the entries by the frame a table is in, because `vmm_map`
  reaches the table through the address in the directory, as it is mapped at that
  moment (`Lookup`). `vmm_map` is three steps: up to the lookup of the directory,
  the write, and `invlpg`. Between them the CPU may fill or drop any TLB entry
  (`Fill`, `Evict`): a handler may touch any page and the CPU may look ahead. A
  TLB larger than `TlbSize` differs from a smaller one only in how many pages are
  stale together, and at most one is. Clients do not remap `KernelPages`. That the
  kernel may write to a page mapped with rw = 0 (CR0.WP is never set) is why `rw`
  is carried and never looked at.
* **Memory.** `goal`, `got`, `memory` are the locals of a test and the words it
  writes, at the frame the page of that number is mapped to. If a word of the bitmap
  is at that place, the pattern goes over its bits (`Overwritten`). `leaked`, `before`
  and `excused` are history. The empty slots of the GDT and the selectors are those of
  `Segments`; `Flat`, `Ring` and the rest say what the CPU makes of a descriptor.
  The repository has no client but the tests, so what clients owe the two managers is
  written into `Managing` and `Mapping`. They give back only frames they have
  (`Owned`), and undo their mappings of a frame first (`Unmapped`): `free_frame` does
  not know of mappings, and if one is left, the next `initialize` may put the bitmap
  into the frame, where a write through the old page goes over it. TLC finds that
  behaviour when the guard is dropped, as a violation of `ReservedIsPrivate`,
  `TestsGiveBack` and `FramesAccountedFor`. They map no page of the kernel
  (`ClientPages`) nor one under the bitmap (`ReservedFrames`). `initialize` is called
  when all frames are back, with memory and page tables that reach beyond the new
  bitmap.
* **Stdio, Strings.** A step is a round of a loop. A word has `2 * Half` values;
  `-value` of the smallest one is undefined in C and is both outcomes a compiler
  produces. A byte taken from outside the table of digits is `Junk`. In `Strings`
  the call under way is the record `work`; a cell that is copied starts with its own
  address, an array that was never written with `Unset`.

## 3. Runs

### Passing

| run | states | shows | why the bounds are enough |
|---|---|---|---|
| `heap` | 1.7 k | tiling, use, sizes, contract under all call sequences | the arena of 230 bytes holds up to eight blocks with the real header (12) and alignment (16): splits, exact fits, remainders too small to split, merges, exhaustion and all four paths of `krealloc` happen |
| `heap_memory` | 18 k | words behave as the list; no client's word is lost | 27 words are enough for a used block between two free ones, for a moving `krealloc`, and for a failing one |
| `shell` | 118 k | tree consistency, removal, honest messages, refinement | directories of three entries fill up, and three are the fewest for which the loop of `fs_remove_child` visits a first and a third child and skips one; six nodes give four levels; equal names, a name that is cut, and every combination of failing allocations happen |
| `syscalls` | 407 k | contents, binding, buffer sizes | two descriptors on the same or different files; writes that overwrite, fit and outgrow the buffer; `rm` of an open file |
| `console` | 219 k | screen, cursor and line agree; the shift flag | three rows of three cells wrap and scroll within a few keys; the buffer of five is filled; both shift keys, repeats, both orders of release, releases of keys that went down before the kernel listened, caps lock |
| `machine` | 222 k | nesting, boot order, no wedge, every byte once and in order, keys atomic, liveness | every firmware state; two polls let the acknowledgement come early, late, or behind a key; a letter, enter and a shift key with their releases; two rows of two cells; text up to three characters, which is enough for a key to be handled, refused and submitted; the tick counter wraps at two |
| `memory` | 265 k | atomic mapping, coherence, kernel in place, a bitmap nobody else reaches, ownership, reservation, count, memory tests | pages of four bytes, two tables of four entries and a directory with room for a third, so a page without a table exists; memories of eight frames, all mapped, and of nine, one above the map; words of two bits, the last full or not; initialised again and again while the tables reach, so that the bitmap moves into frames that clients had and had mapped, and out of the pages that `KernelPages` names; tests of one and of two frames with any mapping before them |
| `libc` | 7.7 k | numerals, tokens, overlapping copies, paths | all numbers of eight bits in every conversion; all lines and paths up to five characters over two letters and the delimiter; all overlaps in six cells |

`CHECK_DEADLOCK FALSE` is used where the program really stops: after a write
through NULL (`shell`, `syscalls`), after the call of address 0 or at the bound
`MaxText` (`console`), after an exception (`machine`), after a page fault
(`memory`), and when the script ends (`heap_test`).

Two invariants hold of the heap that no run repeats because they are proved:
`LiveFits` and `CapacityKept` (section 4).

The liveness properties of `machine` are `BootCompletes`, `BytesAreRead` and
`TimeGoesOn`; they hold under `FairMachine`, the machine with the conjunction
`Fairness` of `Interrupts`. Weak fairness of `KernelMain` and `Handler` says that
the CPU executes the next instruction and that a shell command terminates (its
loops are bounded by the entries of a directory or the length of a line). Weak
fairness of `Take(Timer)` says that an interrupt that is offered with the flag on
is accepted. `Take(Keyboard)` is strongly fair: the timer has priority, so the
keyboard's request is offered again and again rather than continuously, and it is
accepted because the timer handler is far shorter than a period, which is also the
guard of `Tick`. `TakeCommand` and `Tick` are weakly fair: the controller reads its
input register, and the PIT never stops. Keys and exceptions are not fair.
`BootCompletes` leaves out bytes that keep coming, because `keyboard_flush` and
the busy-bit loop have no bound; it does not need an answer of the keyboard.
`TimeGoesOn` assumes that the firmware left IRQ 0 unmasked: `init_timer` does not
unmask it.

### Violations

Each of these runs checks one sentence of a comment, a message or a test, and TLC
finds a behaviour of the code that contradicts it.

| run | says | what the code does |
|---|---|---|
| `heap_test` | "Free block merging works correctly" (heaptest.cpp:54) | `kfree` merges forward only; blocks freed in ascending order stay apart |
| `console_digits` | "If the character is a printable character, we add it" (shell.cpp:221) | the keys 7, 9 and = are taken for backspace and enter |
| `console_empty` | "Find the command in the list and execute it." (shell.cpp:168) | an empty line calls the NULL function behind the list |
| `syscalls_path` | "Path not found" (ramfs.cpp:198) | the last name of a path is never looked up: the node above it is the answer |

More places where the code does not do what it says were met and have no run of
their own. File system and shell:

* `align16` of a size within 15 of SIZE_MAX is 0, and the first free block,
  whatever its size, is granted (heap.cpp:39, 49); `RegionsFit` needs the
  assumption `NoWrap` for that reason.
* "File '%s' created." (shell.cpp:86, 100) is printed also when `fs_add_child` drops
  the entry because the directory is full (ramfs.cpp:44), and of a name that is cut.
  `CreatedUnlessFull` says that these are the only two cases.
* "No such directory" (shell.cpp:54, 137) is printed of a directory that a file of
  the same name, created earlier, hides; the model has the first match win.
* "recursively remove them" (ramfs.cpp:61): the loop skips every second child. The
  skipped nodes stay in the removed directory, out of reach. `RemovalMatchesLoop`
  says that the model skips the same ones.
* "Current read/write offset" (ramfs.h:32): the offset never moves, so consecutive
  writes overwrite each other; `offset + size` may wrap (ramfs.cpp:140).
* The path functions copy a component into 128 bytes and a name into 64 without a
  limit (ramfs.cpp:204, 273). `StringsAssumption` is what their callers must keep.
* A file whose buffer `sys_write` has filled to the end has no NUL for `cat` to stop
  at (shell.cpp:67).
* Neither `touch` nor `fs_add_child` looks at what `kmalloc` returned for the buffer
  or the array of children (shell.cpp:83, ramfs.cpp:49): they write through NULL, where
  the model stops (`stray`).
* Releasing one of two held shift keys clears the flag (keyboard.cpp:113).
  `ShiftIsHeld` says the other direction: the flag is up only while a key is held.

Interrupts and time:

* "Uptime: %u ms" (shell.cpp:106): edges of the timer during a long command are
  merged into one, so the counter falls behind; a frequency below 19 Hz does not fit
  the 16 bits of the divisor (timer.cpp:16).
* "Expect 0xFA (ACK) or 0xAA" (keyboard.cpp:156): the reset reads the output buffer
  at once, whatever it holds. An answer that comes later is dropped by
  `keyboard_flush` or by the polling, or arrives as the release of a key.
* A byte read by polling may leave its request behind, and the handler reads the
  empty buffer: the last byte comes a second time. `KeysInOrder` allows it once.

Memory and library:

* "Page fault caused by", "Page fault": bits 0 and 1 of the error code are decoded
  the wrong way round, and bit 3 is not the instruction fetch (paging.cpp:34-41).
* "Unsigned Integer" (stdio.cpp:67): the argument goes through `int32_t`, so from 2^31
  on `%u` prints a negative number, and `%x` and `%p` one byte that is no digit; the
  CR0 that `vmm_enable` prints is one of these (paging.cpp:108), behind "0x0x".
  `NumeralsReadBack` says that these numbers, and `INT_MIN`, are the only ones.
* "Free all frames" (memtest.cpp:55): a test that gets no frame returns at once and
  keeps what it has for good (memtest.cpp:38). `TestsGiveBack` says that this is the
  only way a test changes the bitmap.
* `vmm_map` returns without a word when the directory entry is absent
  (paging.cpp:129), and its parameter `rw` does not keep the kernel from writing.
* The memory manager may hand out the frames between 8 and 16 MiB that the heap uses
  (memory.cpp:124), and `free_frame` does not check that a frame was allocated
  (memory.cpp:75).
* memtest.cpp:9 uses the address of a frame as a pointer, which faults above 16 MiB
  and goes elsewhere where the page has been mapped: `FailuresExcused` says that a test
  fails for no other reason than these and a lack of frames.
* `int_to_string(0)` is the empty string (utils.cpp:17); a "%" at the end of a format
  takes the NUL for its letter (stdio.cpp:101).

## 4. Proofs

`HeapProofs` proves, for every arena, header size, alignment, word size and set of
sizes that satisfy `HeapAssumption` (which the values of heap.h do):

* `TypeCorrect`, `BlocksTile`, `InUseExactlyWhileLive`: the invariants `TypeOK`,
  `Tiled` and `UsedIffLive` of the run `heap`;
* `CapacityIsKept`: the action property `CapacityKept`;
* `RegionsFit` (`LiveFits`) and `HeapImplementsContract` (`Contract`), under the
  assumption `NoWrap` that no size lies within `Align - 1` of `WordSize`. It is needed:
  see `align16` above.

The argument. `Tiled` alone is not inductive: to know that a merge joins
neighbours one needs that every element is a block of the arena, and to know that
`kfree` finds the header of its argument one needs that outstanding pointers and
used blocks match. `IInv` is the conjunction of the three: `TiledList(blocks)`,
which has the types, the first address, the links and the end; `live` is a table
of sizes; and `Matches(blocks, live)`. From the tiling, addresses increase along
the list, so a pointer determines its block. Each operator of `Heap` has a lemma
that says what it does to a tiled list: `Carve` and `Release` keep it tiled and
change the use of one block only; `Kmalloc`, `Kfree` and `Krealloc` follow.
`Invariance` is then one step per action. `FitInv` adds that each used block is at
least as large as asked for, from the lemma that `align16` does not round down.
For the refinement, regions of different used blocks are disjoint because their
blocks are, so each call is a `Grant`, `Revoke` or `Resize` of the contract, or a
stuttering step.

`HeapMemoryProofs` carries this down to the words, for every arena, alignment and set
of sizes, with headers of three words (`MemoryAssumption`) and under `NoWrap`:

* `DataStaysIntact` (`DataIntact`): no header is ever written over a word of a client,
  and `krealloc` takes the words along when it moves a block;
* `MemoryImplementsList` (`ListInMemoryImplementsHeap`): the calls, which follow `next`
  pointers and change words, are the calls of `Heap` on the list read out of the words.

The argument. `Written(mem, list)` says that the memory holds a list: it tiles the
arena, and at the address of each block are its size, the address of the next one and
its flag. A memory holds at most one list that begins at `free_list`, and it is the one
that `ListInMemory` reads. `MInv` is `Written(mem, ListInMemory)`, `DataIntact`, and the
invariant `FitInv` of `HeapProofs` about that list: a client's words lie in its block,
behind the header, because the block is as large as was asked for, and blocks are
apart, so a call that writes a header or copies a region disturbs no other region. Each
operator has a lemma that says which list the memory holds afterwards, namely the one
that the operator of the same name in `Heap` gives; that `Heap` keeps the list tiled is
then cited from `HeapProofs`, of the instance `HP`.

`InterruptsProofs` proves, for every number of polls and every width of the tick
counter that satisfy `InterruptsAssumption`:

* `HandlersNeverNest` (`NoNesting`), `GatesAndHandlersReady` (`HandlersReady`) and
  `KeyboardNeverWedged` (`NeverWedged`) for `Interrupts`;
* `MachineIsSafe`: the same and `TypeOK` for `Machine`, with a screen, a set of keys
  and commands of any size, because every step of the machine is a step of the
  interrupts (`MachineImplementsInterrupts`);
* `KeysComeInOrder` (`KeysInOrder`): no byte is lost, repeated or reordered between
  the interrupt and the shell;
* `KeyIsOneStep` (`KeysAreAtomic`): the two steps of `keyboard_callback`, with whatever
  comes between them, refine the one step of `Console`.

The argument. `NoNesting` is not inductive: an interrupt may be taken whenever the
flag is on, so one needs that the flag is on only when no frame is there, and only
after `sti`, which also keeps the steps of the boot sequence and the handlers apart
(`OneFrame`). `BootedSoFar` says which boot steps have been done, from which it
follows that gates and handlers are there when the flag comes on. `Unwedged` is
`NeverWedged` for the only frame there can be; it is kept because a byte raises its
request when it comes, a request becomes a frame before its byte is read, and only
`body`, behind the read, returns. `StepKeepsIInv` says what a step of the boot
sequence must do for the invariant, `MoveKeepsIInv` what a step of a handler must
do; each action is then an instance of one of the two.

For the keys, `MachineInv` says that there is one event exactly while the keyboard
handler is in its body, unless its command stopped the machine (`EventInv`), and that
this event is what `read_keyboard` decodes from its byte (`Decoded`). What is owed is
then the byte of a fresh event followed by the byte in the register (`OweInv`). That
at most one event repeats a byte is not inductive by itself: `GhostInv` counts the
requests and the handlers that have not read yet, of which each byte in the register
uses up one, and leaves one over, the request that `keyboard_flush` or the poll may
leave behind; after the boot a second one cannot come, because a byte always has its
request (`Unwedged`). One assumption, `MachineAssumption`: the scancodes of keys have
seven bits, the eighth says release (keyboard.cpp:116). For the refinement, the console
sees the flags the event found, until the shell has handled it; `HandlingIsCallback`
says that the shell's step is then the callback of `Console`, and an acknowledgement
that comes late (0xFA) is the release of scancode 122.

`MemoryProofs` proves, for every number and size of page tables, every place of the
kernel in the low memory, every set of frames and a TLB of any size, as
`PagingAssumption`, `PhysMemAssumption` and `MemoryAssumption` allow:

* for `Paging` alone: `TlbIsCoherent` (`Coherent`), `KernelStaysInPlace`
  (`KernelInPlace`) and `PagingMapsAtomically` (`MapsAtomically`, the refinement of
  `AddressSpace`);
* for the whole `Memory`, with frames, segments, clients and tests:
  `MemoryTlbIsCoherent`, `KernelAlwaysReachesItself` (`KernelReachesItself`) and
  `MemoryMapsAtomically`.

The assumptions that matter: the page tables are in frames of the kernel, each in its
own, the kernel is below the end of the identity map, and the memory manager's frames
are frames of the machine whose addresses fit a pointer. That clients do not remap the kernel is part of `Paging`
(`ClientPages`); nothing in `vmm_map` checks it.

The argument. Neither property is inductive: that the TLB stays coherent needs that
the write of `vmm_map` hits the table the CPU walks, and that needs the kernel in
place; that the kernel stays in place needs a coherent TLB. `PInv` is the conjunction
of `Structure` (the directory names the tables and does not change), `Identity` (the
entries of the kernel map it to itself), `CallRight` (a call under way concerns a
client's page that has a table) and `TlbRight` (coherence, and the page between its
write and `invlpg` has its new entry in the table). `PagePlace` says that the index in
the directory and the index in the table determine the page, so `WriteIsLocal`: one
entry changes, that of the page of the call. For the refinement, a mapping takes
effect when its entry is written if the TLB does not hold the page, and otherwise when
the CPU evicts it or at `invlpg`, whichever comes first. `MInv` adds what the rest of the
memory must keep: no test runs during a call, clients have frames of the machine, and
the GDT is empty or that of `init_gdt`, whose descriptors `LoadedIsFlat` decodes.
`MemoryStep` then says that every step of `Memory` is one of `Paging` or only stops
the CPU.

The module also has the theorems about frames and tests in `Memory`: `MemoryIsTyped`
(`MemoryTypeOK`), `MemoryLosesNoFrame` (`FramesAccountedFor` and `FreeCountIsHonest`),
`TestsFailWithReason` (`FailuresExcused`), `ReservedStaysPrivate` (`ReservedIsPrivate`)
and `TestsRestoreTheBitmap` (`TestsGiveBack`). `MapInv` says where pages lead: each to
its own frame or to one a client has (`Leads`), in the tables, in the TLB and in a call
under way, and the reserved ones to their own. It survives `initialize`, which moves
the bitmap, because at that moment no client has a frame, so that every page leads to
its own; and a frame given back, because `Unmapped` speaks of the tables and the TLB
agrees with them when no call is under way. As `PhysInv` keeps the frames of clients
above the end of the bitmap, no word of it is where a test writes (`WrittenAllocates`,
`WordIsBelow`), and the allocation of a test is one of `PhysMem`. `Testers` says that the frames of a test are its own, none twice,
and that the bitmap is otherwise what it was when the test began; `Excuses` that an
unexcused test reads what it wrote. A freed frame is allocated again by test_free
because `first_free` is the lowest clear bit (`FirstFreeIsLowest`) and the bitmap is
back to what it was.

Of `PhysMem` alone it proves `NoFrameIsLost` (`FramesAccountedFor`) and `CounterIsHonest`
(`FreeCountIsHonest`) for every size of the memory, of a page and of a word of the
bitmap, and for `initialize` called as often as one likes. The invariant `PhysInv` is
the property with the ranges its cardinalities need. The work is in the operators:
`first_free`, which skips full words and then tries each bit, finds the least frame
whose bit is clear, and finds one exactly when the counter is not zero.

`SyscallsProofs` proves of `Shell`, for every set of names, every size of a directory and every
number of nodes, with allocations failing at will: `ShellIsTyped` (`TypeOK`),
`ShellTreeConsistent` (`TreeConsistent`),
`ShellCreatedUnlessFull` (`CreatedUnlessFull`) and `ShellImplementsContract`
(`Contract`). The argument. `TreeConsistent` is about the nodes below the root, but
removed nodes stay where they are, still pointing at each other, so the invariant
speaks of every node ever made: `Sound` says that each directory lists distinct nodes
that are younger than it and name it as their parent (`Entry`). A parent is thus
always an older node, which is what the recursive definitions `Tree` and `Below`
recurse on, and `Marking` of `DataInduction` gives what they compute. `Standing` adds
that the current directory is a directory of the tree. `rm` and `rmdir` take out one
entry with what is below it; that is always younger than the entry, and the entry is
younger than the current directory that lists it, so the current directory stays in
the tree and nothing else leaves it. For the refinement, an entry is added as the last
one of its directory, and the names and the order of the others are kept.

It also proves `RemovalIsTheLoop` (`RemovalMatchesLoop`): in every tree that is `Sound`
the closed form is what the loops of `fs_remove_child` compute. A round of the loop
shortens the array it walks, and after m rounds the array is the second, fourth, ...
2m-th child followed by those never reached, so the next round comes to child 2m+1
(`OddGone`, `Round`). What goes with two siblings hangs from different children
(`SiblingsApart`), so that what a recursive call takes out does not depend on the calls
before it (`WhoGoesStays`), and the arrays the loop leaves are the first ones without
everybody who went (`AllRounds`, `OneCall`). The recursion is an induction over its
depth (`LevelsRemove`): a call for a child has at most as many levels below it as there
are younger nodes, because a child is younger than its directory.

Of `Syscalls` it proves `DescriptorsAreTyped` (`SysTypeOK`), `ReadsGiveWhatWasWritten`
(`ReadsWhatWasWritten`), `DescriptorsKeepTheirNode` (`BoundUntilClosed`), and
`CallsKeepTheTree`, which is `TreeConsistent` of `Shell` when files and directories
also come from `fs_touch` and `fs_mkdir`; for every number of descriptors, every set
of paths and every buffer a caller writes. `SysInv` says of every node ever made,
removed or not, that its buffer covers its size and begins with what a reader expects
(`Backed`), as long as no command has written through NULL. A path leads to a node of
the tree (`FindChildStays` and its successors), so what is made there hangs from it.

`ConsoleProofs` proves, for every size of the screen, every set of keys and whatever
the commands print: `ConsoleIsTyped` (`TypeOK`), `ScreenAndTextAgree`
(`ScreenShowsText`), `LineIsSeen` (`LineIsWhatIsSeen`) and `ShiftIsNotStuck`
(`ShiftIsHeld`). Two assumptions in `ConsoleAssumption` matter: prompts and outputs
hold no backspace, and the longest line fits above the last row
(`SHELL_BUFFER_SIZE - 1 <= LastRow * VGA_WIDTH`, in the code 255 and 1920). The second
is needed: a line longer than the screen scrolls its own beginning away, and a
backspace that reaches it is stopped at the upper left corner while the text goes on
losing characters. The argument. The text is laid out on an endless sheet of paper
(`Layout`); places strictly advance (`LayoutAdvances`), so no place is printed twice.
`Window(term, text)` says that the screen shows the paper from row `term.scrolls` on,
with the cursor at the pen. `PutShows` is one character, in its cases on a row, at the
edge, and scrolling; `EraseShows` is backspace, space, backspace, and needs the place
of the last character to be on the screen. `Room` provides it: the line begins at a
row that is still shown, because the cursor scrolls the screen only from its last row
and the line is too short to reach from there to a row above the first.

`LibraryProofs` proves, for every number of cells, all lines, paths and formats that are
C strings and, for `split_path`, fit its arrays (`StringsAssumption`):

* `CopiesAreAtOnce` (`CopiesAtOnce`), `TokensAreTheWords` (`TokensAreWords`) and
  `SplitMakesThePath` (`SplitRejoins`);
* `PrintfStaysInside` (`StdioTypeOK`) and `PrintedNumbersReadBack` (`NumeralsReadBack`),
  for every width of a word and every buffer that has room for the digits of the
  largest number (`StdioAssumption`), and for callers that pass an argument of its kind
  for each conversion. This is the hypothesis `[]ArgumentsFit`; printf has no way to
  check it, and without it `va_arg` reads what was never passed. The
  calls of the run satisfy it: added to `MCLibrary.cfg`, it is an invariant.

The argument. A call under way is described by what it has done so far (`StringsInv`):
the cells that are copied hold what was in their source at the beginning, and those
still to be read are untouched, which is where the direction of `memmove` comes in; the
line in `strtok` is what it was but for one NUL behind each word that was returned, and
behind the static pointer it is untouched, so the words returned are the first ones of
the line, as many as there were calls. For `itoa` (`StdioInv`), the digits in `temp`,
read backwards behind what is left of `value`, always stand for the number; that they
fit follows from `RoomForDigits`: as many digits as there is room for would stand for
more than the largest number. `Tailed` says that printf is still in front of the NUL of
its format, but for a "%" at the end, which takes the NUL for its letter and prints it.

Inductions over data in these proofs (over the characters of a string, the bits of a
bitmap, the headers of a list, the nodes of a tree) are stated with sets and functions instead of operators:
a statement about the numbers up to n is a set of numbers, a recursive definition a
function (`Induction`, `Iteration`, `Marking` of `DataInduction`, from the
well-foundedness of the naturals).

Only model-checked: the liveness properties of `machine`, because the prover treats
neither fairness nor ENABLED. Every other invariant, action property and refinement that
a passing run checks is a theorem. The theorems about `printf` have the hypothesis
`ArgumentsFit`, what its callers owe it, and those about regions and contents in the
heap `NoWrap`.

## 5. Not modelled

* Colours, log lines and the wording of messages, except where a property is about
  what they claim.
* The slave 8259, the PIT's divisor, prefixed (0xE0) scancodes; vectors other than
  IRQ 0, IRQ 1 and the exceptions that halt.
* What `page_fault_handler` and `cat` print.
* `Terminal::clear`, `writeLine`, `setcolor`, `pic_send_eoi`, `keyboard_poll`,
  `keyboard_check_status`, `int_to_string`: no caller, or no effect.
* The comparing and measuring functions of the C library, which are the equality and
  the length of sequences; `memset` is modelled by its effect where it is called.
* boot.s, the linker script and the build; pagetest.cpp is empty.

## 6. Plan

Done, in the order of importance: heap (list, words, contract, test), file system and
shell, descriptors, console, interrupts and the machine on top of them, physical
memory, segments and paging with the memory tests, the C library; proofs of the safety
properties and refinements of each of them.

What could follow:

1. The liveness properties of `machine` for a prover that treats fairness.
2. Clients of the heap other than one at a time: the file system allocates from the heap
   of `Heap`, while `Shell` takes an allocation that may fail at any call. Composing the
   two would say which failures can happen together.
