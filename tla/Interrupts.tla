----------------------------- MODULE Interrupts -----------------------------
(***************************************************************************)
(* When the code of the kernel runs: the boot sequence of kernel_main with *)
(* interrupts off, and afterwards the interrupts of the timer (IRQ 0) and  *)
(* the keyboard (IRQ 1) on top of the hlt loop.  Kernel side:              *)
(* src/kernel/kernel.cpp, idt.cpp, isr_stub.s, isr.cpp, pic.cpp, timer.cpp *)
(* and keyboard_install of keyboard.cpp.                                   *)
(*                                                                         *)
(* External, modelled from how the kernel programs them: the 8259 (request *)
(* register irr set by a rising edge, in-service register isr, mask        *)
(* register imr, fixed priority), the keyboard controller with its         *)
(* one-byte output buffer obf whose line follows the buffer, and the PIT.  *)
(***************************************************************************)
EXTENDS Integers, Sequences, SequencesExt

CONSTANTS
  MaxPolls,     \* the 1000 polls keyboard_enable waits for the ACK
  TickMod       \* timer_ticks is a uint32_t: 2^32

ASSUME InterruptsAssumption == MaxPolls \in Nat \ {0} /\ TickMod \in Nat \ {0}

VARIABLES
  pc,           \* kernel_main: the step of Boot it is at
  iflag,        \* the interrupt flag of the CPU
  frames,       \* the interrupts being served, the innermost last
  idt,          \* init_idt has loaded the table
  registered,   \* the IRQs with an entry in interrupt_handlers
  irr, isr, imr,
  obf, ackDue,  \* the keyboard controller: its output register, the ACK it owes
  ibf,          \* its status bit 1: a command has not been taken yet
  polls,
  timer_ticks,
  halted        \* an exception has stopped the CPU for good

cpu == <<pc, iflag, frames, halted>>
kernel == <<idt, registered, polls, timer_ticks>>
pic == <<irr, isr, imr>>
kbc == <<obf, ackDue, ibf>>
intVars == <<cpu, kernel, pic, kbc>>

Timer == 0
Keyboard == 1
IRQs == {Timer, Keyboard}

None == "none"
Key == "key"
Ack == "ack"

Empty == << >>

-----------------------------------------------------------------------------
(* Mutants: forms a slip in the code could give the definitions below.      *)

DiscardsNothing(byte) == byte = None
BootStiEarly ==
  <<"init_pic", "init_idt", "vmm_enable", "reset", "flush", "interface",
    "enable", "poll", "sti", "register keyboard", "unmask", "init_timer">>
TrapGate(flag) == flag
NoEoi(serving) == serving
FlagSet(flag) == TRUE
LeavesByte(byte) == byte
PollsOneMore(n) == n <= MaxPolls

-----------------------------------------------------------------------------
(* The steps of kernel_main that touch interrupts, in their order. *)
Boot ==
  <<"init_pic", "init_idt", "vmm_enable", "reset", "flush", "interface",
    "enable", "poll", "register keyboard", "unmask", "init_timer", "sti">>

Running == pc > Len(Boot)     \* the hlt loop

(* The gates are interrupt gates (0x8E): the CPU clears the flag.  *)
FlagInHandler(flag) == FALSE

(* The end-of-interrupt command ends the service of the highest priority. *)
AfterEoi(serving) == {i \in serving : \E j \in serving : j < i}

(* inb(0x60) in read_keyboard takes the byte out of the buffer. *)
ByteAfterRead(byte) == None

Init ==
  /\ pc = 1 /\ iflag = FALSE /\ frames = Empty /\ halted = FALSE
  /\ idt = FALSE /\ registered = {} /\ polls = 0 /\ timer_ticks = 0
  /\ irr \in SUBSET IRQs /\ isr = {} /\ imr \in SUBSET IRQs
  /\ obf \in {None, Key} /\ ackDue = FALSE /\ ibf \in BOOLEAN

-----------------------------------------------------------------------------
(* kernel_main *)

At(step) ==
  /\ ~ halted /\ frames = Empty
  /\ pc \in DOMAIN Boot /\ Boot[pc] = step

Go == pc' = pc + 1 /\ UNCHANGED <<frames, halted>>

(* The buffer is read: its line drops.  A request that was not yet taken   *)
(* is withdrawn with the line, or not, depending on the 8259.              *)
TakeByte(after) ==
  /\ obf' = after
  /\ irr' \in (IF obf # None /\ after = None THEN {irr, irr \ {Keyboard}} ELSE {irr})
  /\ UNCHANGED <<isr, imr>>

(* Initialising the 8259 forgets the edges it has seen; pic_remap restores *)
(* the masks it found.                                                     *)
init_pic ==
  /\ At("init_pic") /\ Go
  /\ irr' = {} /\ isr' = {} /\ UNCHANGED imr
  /\ UNCHANGED <<iflag, kernel, kbc>>

init_idt ==
  /\ At("init_idt") /\ Go
  /\ idt' = TRUE
  /\ UNCHANGED <<iflag, registered, polls, timer_ticks, pic, kbc>>

vmm_enable ==
  /\ At("vmm_enable") /\ Go
  /\ iflag' = FALSE
  /\ UNCHANGED <<kernel, pic, kbc>>

(* A command is written when the controller has taken the last one:        *)
(* wait_for_input_clear is the guard.                                      *)
outb(step) ==
  /\ At(step) /\ Go
  /\ ~ ibf /\ ibf' = TRUE
  /\ UNCHANGED <<iflag, kernel>>

(* The reset reads one answer at once, whatever it is. *)
keyboard_reset == outb("reset") /\ TakeByte(None) /\ UNCHANGED ackDue

Discards(byte) == byte # None

(* One round of the loop of keyboard_flush. *)
keyboard_flush ==
  /\ At("flush")
  /\ IF Discards(obf)
       THEN TakeByte(None) /\ UNCHANGED <<pc, frames, halted>>
       ELSE Go /\ UNCHANGED <<pic, obf>>
  /\ UNCHANGED <<iflag, kernel, ackDue, ibf>>

(* keyboard_enable sends a command to the controller, and one the keyboard *)
(* will acknowledge ...                                                    *)
keyboard_interface == outb("interface") /\ UNCHANGED <<pic, obf, ackDue>>

keyboard_enable == outb("enable") /\ ackDue' = TRUE /\ UNCHANGED <<pic, obf>>

(* ... and polls for the answer, dropping any other byte, a bounded number *)
(* of times.                                                               *)
PollsLeft(n) == n < MaxPolls

keyboard_poll ==
  /\ At("poll")
  /\ IF PollsLeft(polls)
       THEN polls' = polls + 1 /\ TakeByte(None)
       ELSE UNCHANGED <<polls, pic, obf>>
  /\ IF ~ PollsLeft(polls) \/ obf = Ack THEN Go ELSE UNCHANGED <<pc, frames, halted>>
  /\ UNCHANGED <<iflag, idt, registered, timer_ticks, ackDue, ibf>>

register_interrupt_handler(step, irq) ==
  /\ At(step) /\ Go
  /\ registered' = registered \cup {irq}
  /\ UNCHANGED <<iflag, idt, polls, timer_ticks, pic, kbc>>

pic_unmask_irq ==
  /\ At("unmask") /\ Go
  /\ imr' = imr \ {Keyboard}
  /\ UNCHANGED <<iflag, kernel, irr, isr, kbc>>

sti ==
  /\ At("sti") /\ Go
  /\ iflag' = TRUE
  /\ UNCHANGED <<kernel, pic, kbc>>

KernelMain ==
  \/ init_pic \/ init_idt \/ vmm_enable
  \/ keyboard_reset \/ keyboard_flush \/ keyboard_interface
  \/ keyboard_enable \/ keyboard_poll
  \/ register_interrupt_handler("register keyboard", Keyboard)
  \/ register_interrupt_handler("init_timer", Timer)
  \/ pic_unmask_irq \/ sti

-----------------------------------------------------------------------------
(* Serving an interrupt *)

Top == frames[Len(frames)]

In(place) == ~ halted /\ frames # Empty /\ Top.at = place

MoveTo(place) ==
  /\ frames' = [frames EXCEPT ![Len(frames)].at = place]
  /\ UNCHANGED <<pc, halted>>

Pending == irr \ imr

(* The 8259 offers the highest request above everything in service. *)
Offered(i) ==
  /\ i \in Pending
  /\ \A j \in Pending : i <= j
  /\ \A j \in isr : i < j

Take(i) ==
  /\ ~ halted /\ iflag
  /\ Offered(i)
  /\ irr' = irr \ {i} /\ isr' = isr \cup {i} /\ UNCHANGED imr
  /\ frames' = Append(frames, [irq |-> i, at |-> "entry"])
  /\ iflag' = FlagInHandler(iflag)
  /\ UNCHANGED <<pc, halted, kernel, kbc>>

(* The stub begins with cli. *)
Stub ==
  /\ In("entry") /\ MoveTo("eoi")
  /\ iflag' = FALSE
  /\ UNCHANGED <<kernel, pic, kbc>>

(* irq_handler sends the EOI before it calls the handler, with interrupts  *)
(* off as the stub left them.                                              *)
FlagAfterEoi(flag) == flag

SendEoi ==
  /\ In("eoi") /\ MoveTo("call")
  /\ isr' = AfterEoi(isr)
  /\ iflag' = FlagAfterEoi(iflag)
  /\ UNCHANGED <<kernel, irr, imr, kbc>>

Call(i) == In("call") /\ Top.irq = i /\ MoveTo("body")

timer_handler ==
  /\ Call(Timer)
  /\ timer_ticks' = IF Timer \in registered THEN (timer_ticks + 1) % TickMod
                    ELSE timer_ticks
  /\ UNCHANGED <<iflag, idt, registered, polls, pic, kbc>>

(* The byte is read first; the rest, the shell and its command, is the     *)
(* body, which lasts until Return.                                         *)
keyboard_callback ==
  /\ Call(Keyboard)
  /\ IF Keyboard \in registered
       THEN TakeByte(ByteAfterRead(obf))
       ELSE UNCHANGED <<pic, obf>>
  /\ UNCHANGED <<iflag, kernel, ackDue, ibf>>

(* sti; iret: no interrupt comes between the two. *)
Return ==
  /\ In("body")
  /\ frames' = Front(frames)
  /\ iflag' = TRUE
  /\ UNCHANGED <<pc, halted, kernel, pic, kbc>>

Handler == Stub \/ SendEoi \/ timer_handler \/ keyboard_callback \/ Return

(* A command faults: isr_handler prints and halts for ever.                *)
Exception ==
  /\ In("body") /\ Top.irq = Keyboard
  /\ halted' = TRUE /\ iflag' = FALSE
  /\ UNCHANGED <<pc, frames, kernel, pic, kbc>>

-----------------------------------------------------------------------------
(* The devices *)

(* The controller has a byte from the keyboard: its line rises. *)
SendByte(byte) ==
  /\ obf = None
  /\ byte = Ack => ackDue
  /\ obf' = byte
  /\ ackDue' = (ackDue /\ byte # Ack)
  /\ irr' = irr \cup {Keyboard}
  /\ UNCHANGED <<cpu, kernel, isr, imr, ibf>>

(* The controller takes the command from its input register. *)
TakeCommand ==
  /\ ibf /\ ibf' = FALSE
  /\ UNCHANGED <<cpu, kernel, pic, obf, ackDue>>

(* A period of the PIT is longer than the few dozen instructions of the    *)
(* timer handler, and than the CPU takes to accept an interrupt while the  *)
(* flag is set.  A command of the shell may last for several periods.      *)
Tick ==
  /\ \A i \in DOMAIN frames : frames[i].irq # Timer
  /\ ~ (iflag /\ Offered(Timer))
  /\ irr' = irr \cup {Timer}
  /\ UNCHANGED <<cpu, kernel, isr, imr, kbc>>

Next ==
  \/ KernelMain \/ Handler \/ Exception
  \/ \E i \in IRQs : Take(i)
  \/ \E byte \in {Key, Ack} : SendByte(byte)
  \/ TakeCommand \/ Tick

Spec == Init /\ [][Next]_intVars

(* The CPU executes instructions and takes the interrupts it is offered; a *)
(* keyboard request is offered again and again because the timer handler   *)
(* is done before the next tick.  The PIT never stops, and the keyboard    *)
(* controller takes its commands.  Neither keys nor exceptions are fair.   *)
Fairness ==
  /\ WF_intVars(KernelMain) /\ WF_intVars(Handler)
  /\ WF_intVars(Take(Timer)) /\ SF_intVars(Take(Keyboard))
  /\ WF_intVars(TakeCommand) /\ WF_intVars(Tick)

-----------------------------------------------------------------------------
(* Properties *)

(* The variables have the shape the kernel and the 8259 give them. *)
TypeOK ==
  /\ pc \in 1 .. (Len(Boot) + 1)
  /\ iflag \in BOOLEAN /\ idt \in BOOLEAN /\ halted \in BOOLEAN
  /\ registered \subseteq IRQs /\ irr \subseteq IRQs /\ isr \subseteq IRQs /\ imr \subseteq IRQs
  /\ frames \in Seq([irq : IRQs, at : {"entry", "eoi", "call", "body"}])
  /\ obf \in {None, Key, Ack} /\ ackDue \in BOOLEAN /\ ibf \in BOOLEAN
  /\ polls \in 0 .. MaxPolls
  /\ timer_ticks \in 0 .. (TickMod - 1)

(* Handlers never nest, although the EOI is sent before the handler runs   *)
(* (isr.cpp:41-53) and the stub enables interrupts before it returns:      *)
(* while one is served the flag is off, so the shell, the file system and  *)
(* the heap are never entered twice.                                       *)
NoNesting == Len(frames) <= 1 /\ (frames # Empty => ~ iflag)

(* An interrupt is served only when its gate and its handler are in place: *)
(* a byte taken by no handler would stay in the buffer (isr.cpp:55).       *)
HandlersReady ==
  \A i \in DOMAIN frames : idt /\ frames[i].irq \in registered

FlushDone == \E i \in 1 .. (pc - 1) : Boot[i] = "flush"

(* The keyboard is never wedged: once keyboard_flush is done, a byte in    *)
(* the output buffer has a request at the 8259 or a handler about to read  *)
(* it.  A byte without one would block the buffer, and with it every later *)
(* edge, for good (keyboard.cpp:141-191).                                  *)
NeverWedged ==
  FlushDone /\ obf # None =>
    \/ Keyboard \in irr
    \/ \E i \in DOMAIN frames : frames[i].irq = Keyboard /\ frames[i].at # "body"
=============================================================================
