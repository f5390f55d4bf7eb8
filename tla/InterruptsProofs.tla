-------------------------- MODULE InterruptsProofs --------------------------
(***************************************************************************)
(* Proofs about the interrupts of module Interrupts, and about the machine *)
(* of module Machine that is built on them, for every number of polls,     *)
(* every range of the tick counter and every console.                      *)
(***************************************************************************)
EXTENDS Machine, SequenceTheorems, FiniteSetTheorems, TLAPS

-----------------------------------------------------------------------------
(* The inductive invariant *)

Places == {"entry", "eoi", "call", "body"}

Frame(i, place) == <<[irq |-> i, at |-> place]>>

(* What TypeOK says of the variables other than frames: numbers, Booleans *)
(* and the registers of the devices.                                      *)
Counters ==
  /\ pc \in 1 .. 13
  /\ polls \in 0 .. MaxPolls
  /\ timer_ticks \in 0 .. (TickMod - 1)

Flags ==
  /\ iflag \in BOOLEAN /\ idt \in BOOLEAN /\ halted \in BOOLEAN
  /\ ackDue \in BOOLEAN /\ ibf \in BOOLEAN

Registers ==
  /\ registered \subseteq IRQs /\ irr \subseteq IRQs /\ isr \subseteq IRQs /\ imr \subseteq IRQs
  /\ obf \in {None, Key, Ack}

Scalars == Counters /\ Flags /\ Registers

(* The stack has at most one frame.  A frame, or the flag, is there only   *)
(* when the boot is over, and never both.                                  *)
OneFrame ==
  /\ frames = Empty \/ \E i \in IRQs, place \in Places : frames = Frame(i, place)
  /\ frames # Empty => ~ iflag /\ pc = 13
  /\ iflag => pc = 13

(* What the boot sequence has done when it is past a step. *)
BootedSoFar ==
  /\ pc > 2 => idt
  /\ pc > 9 => Keyboard \in registered
  /\ pc > 11 => Timer \in registered

(* NeverWedged, with the only frame there can be. *)
Unwedged ==
  pc > 5 /\ obf # None =>
    \/ Keyboard \in irr
    \/ \E place \in Places \ {"body"} : frames = Frame(Keyboard, place)

IInv == Scalars /\ OneFrame /\ BootedSoFar /\ Unwedged

-----------------------------------------------------------------------------
(* The steps of Boot by their numbers. *)
LEMMA BootSteps ==
  /\ Len(Boot) = 12 /\ DOMAIN Boot = 1 .. 12
  /\ Boot[1] = "init_pic" /\ Boot[2] = "init_idt" /\ Boot[3] = "vmm_enable"
  /\ Boot[4] = "reset" /\ Boot[5] = "flush" /\ Boot[6] = "interface"
  /\ Boot[7] = "enable" /\ Boot[8] = "poll" /\ Boot[9] = "register keyboard"
  /\ Boot[10] = "unmask" /\ Boot[11] = "init_timer" /\ Boot[12] = "sti"
BY DEF Boot

LEMMA StepNumber ==
  ASSUME NEW i \in 1 .. 12
  PROVE  /\ Boot[i] = "init_pic" <=> i = 1
         /\ Boot[i] = "init_idt" <=> i = 2
         /\ Boot[i] = "vmm_enable" <=> i = 3
         /\ Boot[i] = "reset" <=> i = 4
         /\ Boot[i] = "flush" <=> i = 5
         /\ Boot[i] = "interface" <=> i = 6
         /\ Boot[i] = "enable" <=> i = 7
         /\ Boot[i] = "poll" <=> i = 8
         /\ Boot[i] = "register keyboard" <=> i = 9
         /\ Boot[i] = "unmask" <=> i = 10
         /\ Boot[i] = "init_timer" <=> i = 11
         /\ Boot[i] = "sti" <=> i = 12
<1>1. \/ i = 1 \/ i = 2 \/ i = 3 \/ i = 4 \/ i = 5 \/ i = 6
      \/ i = 7 \/ i = 8 \/ i = 9 \/ i = 10 \/ i = 11 \/ i = 12
  OBVIOUS
<1> QED
  BY <1>1, BootSteps

(* No step comes twice. *)
LEMMA BootInjective ==
  ASSUME NEW i \in 1 .. 12, NEW n \in 1 .. 12, Boot[i] = Boot[n]
  PROVE  i = n
<1> DEFINE Same(name, k) == (Boot[i] = name <=> i = k) /\ (Boot[n] = name <=> n = k)
<1>1. /\ Same("init_pic", 1) /\ Same("init_idt", 2) /\ Same("vmm_enable", 3)
      /\ Same("reset", 4) /\ Same("flush", 5) /\ Same("interface", 6)
      /\ Same("enable", 7) /\ Same("poll", 8) /\ Same("register keyboard", 9)
      /\ Same("unmask", 10) /\ Same("init_timer", 11) /\ Same("sti", 12)
  BY StepNumber
<1>2. ASSUME NEW k, NEW name, Same(name, k), n = k PROVE i = n
  BY <1>2
<1>3. \/ n = 1 \/ n = 2 \/ n = 3 \/ n = 4 \/ n = 5 \/ n = 6
      \/ n = 7 \/ n = 8 \/ n = 9 \/ n = 10 \/ n = 11 \/ n = 12
  OBVIOUS
<1> QED
  BY <1>1, <1>2, <1>3, Zenon

LEMMA FlushIsFifth == ASSUME pc \in 1 .. 13
                      PROVE  FlushDone <=> pc > 5
<1>1. ASSUME NEW i \in 1 .. (pc - 1), Boot[i] = "flush" PROVE pc > 5
  <2>1. i \in 1 .. 12
    OBVIOUS
  <2>2. i = 5
    BY <1>1, <2>1, StepNumber
  <2> QED
    BY <2>2
<1>2. pc > 5 => 5 \in 1 .. (pc - 1)
  OBVIOUS
<1>3. Boot[5] = "flush"
  BY BootSteps
<1> QED
  BY <1>1, <1>2, <1>3 DEF FlushDone

LEMMA FrameIsSeq ==
  ASSUME NEW i \in IRQs, NEW place \in Places
  PROVE  /\ Frame(i, place) \in Seq([irq : IRQs, at : Places])
         /\ Len(Frame(i, place)) = 1 /\ DOMAIN Frame(i, place) = {1}
         /\ Frame(i, place)[1].irq = i /\ Frame(i, place)[1].at = place
         /\ Frame(i, place) # Empty
BY DEF Frame, Empty

LEMMA TypeOKParts ==
  TypeOK <=> Scalars /\ frames \in Seq([irq : IRQs, at : Places])
<1>0. Len(Boot) = 12
  BY BootSteps
<1>1. Len(Boot) + 1 = 13
  BY <1>0
<1>2. 1 .. (Len(Boot) + 1) = 1 .. 13
  BY <1>1
<1>3. ASSUME TypeOK PROVE Scalars
  BY <1>2, <1>3 DEF TypeOK, Scalars, Counters, Flags, Registers
<1>4. ASSUME TypeOK PROVE frames \in Seq([irq : IRQs, at : Places])
  BY <1>4 DEF TypeOK, Places
<1>5. ASSUME Scalars, frames \in Seq([irq : IRQs, at : Places]) PROVE TypeOK
  BY <1>2, <1>5 DEF TypeOK, Scalars, Counters, Flags, Registers, Places
<1> QED
  BY <1>3, <1>4, <1>5

(* The invariants of the run follow. *)
LEMMA IInvImplies == IInv => TypeOK /\ NoNesting /\ HandlersReady /\ NeverWedged
<1> SUFFICES ASSUME IInv PROVE TypeOK /\ NoNesting /\ HandlersReady /\ NeverWedged
  OBVIOUS
<1>1. CASE frames = Empty
  <2>1. frames \in Seq([irq : IRQs, at : Places]) /\ Len(frames) = 0 /\ DOMAIN frames = {}
    BY <1>1 DEF Empty
  <2>2. TypeOK
    BY <2>1, TypeOKParts DEF IInv
  <2>3. NoNesting /\ HandlersReady
    BY <1>1, <2>1 DEF NoNesting, HandlersReady
  <2>4. NeverWedged
    BY <1>1, FlushIsFifth, FrameIsSeq DEF IInv, Scalars, Counters, Unwedged, NeverWedged, IRQs
  <2> QED
    BY <2>2, <2>3, <2>4
<1>2. CASE frames # Empty
  <2>1. PICK i \in IRQs, place \in Places : frames = Frame(i, place)
    BY <1>2 DEF IInv, OneFrame
  <2>2. TypeOK
    BY <2>1, FrameIsSeq, TypeOKParts DEF IInv
  <2>3. NoNesting
    <3>1. Len(frames) = 1
      BY <2>1, FrameIsSeq
    <3> QED
      BY <1>2, <3>1 DEF NoNesting, IInv, OneFrame
  <2>4. pc = 13 /\ registered = IRQs /\ idt
    BY <1>2 DEF IInv, OneFrame, BootedSoFar, Scalars, Registers, IRQs
  <2>5. HandlersReady
    BY <2>1, <2>4, FrameIsSeq DEF HandlersReady
  <2>6. NeverWedged
    <3>1. FlushDone <=> pc > 5
      BY FlushIsFifth DEF IInv, Scalars, Counters
    <3>2. ASSUME NEW p \in Places \ {"body"}, frames = Frame(Keyboard, p)
          PROVE  1 \in DOMAIN frames /\ frames[1].irq = Keyboard /\ frames[1].at # "body"
      BY <3>2, FrameIsSeq DEF IRQs
    <3> QED
      BY <3>1, <3>2 DEF IInv, Unwedged, NeverWedged
  <2> QED
    BY <2>2, <2>3, <2>5, <2>6
<1> QED
  BY <1>1, <1>2

LEMMA InitIInv == Init => IInv
<1> SUFFICES ASSUME Init PROVE IInv
  OBVIOUS
<1>1. Counters
  <2>1. 0 \in 0 .. MaxPolls /\ 0 \in 0 .. (TickMod - 1)
    BY InterruptsAssumption
  <2> QED
    BY <2>1 DEF Init, Counters
<1>2. Flags /\ Registers
  BY DEF Init, Flags, Registers
<1> QED
  BY <1>1, <1>2 DEF Init, IInv, Scalars, OneFrame, BootedSoFar, Unwedged

-----------------------------------------------------------------------------
(* The steps of kernel_main *)

(* At a step of Boot nothing else runs. *)
LEMMA AtStep ==
  ASSUME IInv, NEW n \in 1 .. 12, At(Boot[n])
  PROVE  pc = n /\ frames = Empty /\ ~ iflag
<1>1. pc \in 1 .. 12 /\ Boot[pc] = Boot[n] /\ frames = Empty
  BY BootSteps DEF At
<1>2. pc = n
  BY <1>1, BootInjective
<1>3. pc # 13
  BY <1>1
<1> QED
  BY <1>1, <1>2, <1>3 DEF IInv, OneFrame

(* What a step of Boot must do for the invariant to hold after it: set the *)
(* flag only at the end, do what BootedSoFar says of it, and either leave  *)
(* the output buffer empty, or alone, or come before the flush.            *)
LEMMA StepKeepsIInv ==
  ASSUME IInv, NEW n \in 1 .. 12, At(Boot[n]), Go,
         UNCHANGED <<polls, timer_ticks>>, Flags', Registers',
         n = 12 \/ ~ iflag' \/ iflag' = iflag,
         idt => idt', registered \subseteq registered',
         n = 2 => idt',
         n = 9 => Keyboard \in registered',
         n = 11 => Timer \in registered',
         n < 5 \/ obf' = None \/ (n > 5 /\ UNCHANGED <<obf, irr>>)
  PROVE  IInv'
<1>1. pc = n /\ frames = Empty /\ ~ iflag
  BY AtStep
<1>2. pc' = n + 1 /\ frames' = Empty
  BY <1>1 DEF Go
<1>3. Counters'
  BY <1>2 DEF IInv, Scalars, Counters
<1>4. OneFrame'
  BY <1>1, <1>2 DEF OneFrame
<1>5. BootedSoFar'
  BY <1>1, <1>2 DEF IInv, BootedSoFar
<1>6. Unwedged'
  <2>1. CASE n < 5
    BY <1>2, <2>1 DEF Unwedged
  <2>2. CASE obf' = None
    BY <2>2 DEF Unwedged
  <2>3. CASE n > 5 /\ UNCHANGED <<obf, irr>>
    BY <1>1, <1>2, <2>3 DEF IInv, Unwedged
  <2> QED
    BY <2>1, <2>2, <2>3
<1> QED
  BY <1>3, <1>4, <1>5, <1>6 DEF IInv, Scalars

(* A byte that is read or dropped leaves the register empty. *)
LEMMA TakenByte ==
  ASSUME Registers, TakeByte(None)
  PROVE  /\ obf' = None /\ irr' \subseteq irr
         /\ UNCHANGED registered => Registers'
BY DEF Registers, TakeByte, IRQs

LEMMA KernelKeepsIInv == IInv /\ KernelMain => IInv'
<1> SUFFICES ASSUME IInv, KernelMain PROVE IInv'
  OBVIOUS
<1> USE DEF IInv
<1>1. ASSUME init_pic PROVE IInv'
  <2>1. At(Boot[1]) /\ Go
    BY <1>1, BootSteps DEF init_pic
  <2>2. Flags' /\ Registers'
    BY <1>1 DEF init_pic, Go, Scalars, Flags, Registers, kernel, kbc
  <2> QED
    BY <1>1, <2>1, <2>2, StepKeepsIInv DEF init_pic, kernel, kbc
<1>2. ASSUME init_idt PROVE IInv'
  <2>1. At(Boot[2]) /\ Go
    BY <1>2, BootSteps DEF init_idt
  <2>2. Flags' /\ Registers'
    BY <1>2 DEF init_idt, Go, Scalars, Flags, Registers, pic, kbc
  <2> QED
    BY <1>2, <2>1, <2>2, StepKeepsIInv DEF init_idt, pic, kbc
<1>3. ASSUME vmm_enable PROVE IInv'
  <2>1. At(Boot[3]) /\ Go
    BY <1>3, BootSteps DEF vmm_enable
  <2>2. Flags' /\ Registers'
    BY <1>3 DEF vmm_enable, Go, Scalars, Flags, Registers, kernel, pic, kbc
  <2> QED
    BY <1>3, <2>1, <2>2, StepKeepsIInv DEF vmm_enable, kernel, pic, kbc
<1>4. ASSUME keyboard_reset PROVE IInv'
  <2>1. At(Boot[4]) /\ Go
    BY <1>4, BootSteps DEF keyboard_reset, outb
  <2>2. Flags' /\ Registers'
    BY <1>4, TakenByte DEF keyboard_reset, outb, Go, Scalars, Flags, Registers, kernel
  <2> QED
    BY <1>4, <2>1, <2>2, StepKeepsIInv, TakenByte DEF keyboard_reset, outb, kernel
<1>5. ASSUME keyboard_flush PROVE IInv'
  <2>1. CASE obf # None
    <3>1. /\ TakeByte(None)
          /\ UNCHANGED <<pc, frames, halted, iflag, idt, registered, polls, timer_ticks, ackDue, ibf>>
      BY <1>5, <2>1 DEF keyboard_flush, Discards, kernel
    <3>2. Flags' /\ Registers'
      BY <3>1, TakenByte DEF Scalars, Flags
    <3>3. Unwedged'
      BY <3>1, TakenByte DEF Scalars, Unwedged
    <3> QED
      BY <3>1, <3>2, <3>3 DEF Scalars, Counters, OneFrame, BootedSoFar
  <2>2. CASE obf = None
    <3>1. At(Boot[5]) /\ Go /\ UNCHANGED <<pic, obf, iflag, kernel, ackDue, ibf>>
      BY <1>5, <2>2, BootSteps DEF keyboard_flush, Discards
    <3>2. Flags' /\ Registers'
      BY <3>1 DEF Go, Scalars, Flags, Registers, kernel, pic
    <3> QED
      BY <2>2, <3>1, <3>2, StepKeepsIInv DEF kernel, pic
  <2> QED
    BY <2>1, <2>2
<1>6. ASSUME keyboard_interface PROVE IInv'
  <2>1. At(Boot[6]) /\ Go
    BY <1>6, BootSteps DEF keyboard_interface, outb
  <2>2. Flags' /\ Registers'
    BY <1>6 DEF keyboard_interface, outb, Go, Scalars, Flags, Registers, kernel, pic
  <2> QED
    BY <1>6, <2>1, <2>2, StepKeepsIInv DEF keyboard_interface, outb, kernel, pic
<1>7. ASSUME keyboard_enable PROVE IInv'
  <2>1. At(Boot[7]) /\ Go
    BY <1>7, BootSteps DEF keyboard_enable, outb
  <2>2. Flags' /\ Registers'
    BY <1>7 DEF keyboard_enable, outb, Go, Scalars, Flags, Registers, kernel, pic
  <2> QED
    BY <1>7, <2>1, <2>2, StepKeepsIInv DEF keyboard_enable, outb, kernel, pic
<1>8. ASSUME keyboard_poll PROVE IInv'
  <2>1. pc = 8 /\ frames = Empty /\ ~ iflag
    <3>1. At(Boot[8])
      BY <1>8, BootSteps DEF keyboard_poll
    <3> QED
      BY <3>1, AtStep
  <2>2. /\ pc' \in {8, 9} /\ frames' = Empty
        /\ UNCHANGED <<iflag, halted, idt, registered, timer_ticks, ackDue, ibf>>
    BY <1>8, <2>1 DEF keyboard_poll, Go
  <2>3. Flags'
    BY <2>2 DEF Scalars, Flags
  <2>4. OneFrame' /\ BootedSoFar'
    BY <2>1, <2>2 DEF OneFrame, BootedSoFar
  <2>5. CASE PollsLeft(polls)
    <3>1. polls' = polls + 1 /\ TakeByte(None)
      BY <1>8, <2>5 DEF keyboard_poll
    <3>2. Counters'
      BY <2>2, <2>5, <3>1, InterruptsAssumption DEF PollsLeft, Scalars, Counters
    <3>3. Registers' /\ Unwedged'
      BY <2>2, <3>1, TakenByte DEF Scalars, Unwedged
    <3> QED
      BY <2>3, <2>4, <3>2, <3>3 DEF Scalars
  <2>6. CASE ~ PollsLeft(polls)
    <3>1. UNCHANGED <<polls, pic, obf>>
      BY <1>8, <2>6 DEF keyboard_poll
    <3>2. Counters'
      BY <2>2, <3>1 DEF Scalars, Counters
    <3>3. Registers'
      BY <2>2, <3>1 DEF pic, Scalars, Registers
    <3>4. Unwedged'
      BY <2>1, <2>2, <3>1 DEF pic, Unwedged
    <3> QED
      BY <2>3, <2>4, <3>2, <3>3, <3>4 DEF Scalars
  <2> QED
    BY <2>5, <2>6
<1>9. ASSUME register_interrupt_handler("register keyboard", Keyboard) PROVE IInv'
  <2>1. At(Boot[9]) /\ Go
    BY <1>9, BootSteps DEF register_interrupt_handler, IRQs
  <2>2. Flags'
    BY <1>9 DEF register_interrupt_handler, Go, Scalars, Flags, pic, kbc
  <2>3. Registers'
    BY <1>9 DEF register_interrupt_handler, IRQs, Scalars, Registers, pic, kbc
  <2>4. /\ Keyboard \in registered' /\ registered \subseteq registered'
        /\ UNCHANGED <<iflag, idt, polls, timer_ticks, obf, irr>>
    BY <1>9 DEF register_interrupt_handler, pic, kbc
  <2> QED
    BY <2>1, <2>2, <2>3, <2>4, StepKeepsIInv
<1>10. ASSUME register_interrupt_handler("init_timer", Timer) PROVE IInv'
  <2>1. At(Boot[11]) /\ Go
    BY <1>10, BootSteps DEF register_interrupt_handler, IRQs
  <2>2. Flags'
    BY <1>10 DEF register_interrupt_handler, Go, Scalars, Flags, pic, kbc
  <2>3. Registers'
    BY <1>10 DEF register_interrupt_handler, IRQs, Scalars, Registers, pic, kbc
  <2> QED
    BY <1>10, <2>1, <2>2, <2>3, StepKeepsIInv DEF register_interrupt_handler, pic, kbc
<1>11. ASSUME pic_unmask_irq PROVE IInv'
  <2>1. At(Boot[10]) /\ Go
    BY <1>11, BootSteps DEF pic_unmask_irq
  <2>2. Flags' /\ Registers'
    BY <1>11 DEF pic_unmask_irq, Go, Scalars, Flags, Registers, kernel, kbc
  <2> QED
    BY <1>11, <2>1, <2>2, StepKeepsIInv DEF pic_unmask_irq, kernel, kbc
<1>12. ASSUME sti PROVE IInv'
  <2>1. At(Boot[12]) /\ Go
    BY <1>12, BootSteps DEF sti
  <2>2. Flags' /\ Registers'
    BY <1>12 DEF sti, Go, Scalars, Flags, Registers, kernel, pic, kbc
  <2> QED
    BY <1>12, <2>1, <2>2, StepKeepsIInv DEF sti, kernel, pic, kbc
<1> QED
  BY <1>1, <1>2, <1>3, <1>4, <1>5, <1>6, <1>7, <1>8, <1>9, <1>10, <1>11, <1>12
     DEF KernelMain

-----------------------------------------------------------------------------
(* Serving an interrupt *)

(* A handler runs on the only frame, after the boot. *)
LEMMA InHandler ==
  ASSUME IInv, NEW place, In(place)
  PROVE  /\ pc = 13 /\ iflag = FALSE /\ idt /\ Keyboard \in registered
         /\ \E i \in IRQs : place \in Places /\ frames = Frame(i, place)
<1>1. PICK i \in IRQs, p \in Places : frames = Frame(i, p)
  BY DEF In, IInv, OneFrame
<1>2. p = place
  BY <1>1, FrameIsSeq DEF In, Top
<1>3. pc = 13 /\ iflag = FALSE
  BY <1>1 DEF In, IInv, OneFrame, Scalars, Flags
<1>4. idt /\ Keyboard \in registered
  BY <1>3 DEF IInv, BootedSoFar
<1> QED
  BY <1>1, <1>2, <1>3, <1>4

LEMMA FrameMoves ==
  ASSUME NEW i \in IRQs, NEW p \in Places, NEW q \in Places,
         frames = Frame(i, p), MoveTo(q)
  PROVE  frames' = Frame(i, q) /\ UNCHANGED <<pc, halted>>
BY DEF MoveTo, Frame

LEMMA FramesDiffer ==
  ASSUME NEW i \in IRQs, NEW j \in IRQs, NEW p \in Places, NEW q \in Places,
         Frame(i, p) = Frame(j, q)
  PROVE  i = j /\ p = q
BY DEF Frame

(* What a step that moves the frame on must do for the invariant. *)
LEMMA MoveKeepsIInv ==
  ASSUME IInv, NEW p \in Places, NEW q \in Places, In(p), MoveTo(q),
         Counters', Registers', iflag' = FALSE, UNCHANGED <<idt, registered, ackDue, ibf>>,
         obf' = None \/ (p # "body" /\ q # "body" /\ UNCHANGED <<obf, irr>>)
                    \/ (Top.irq = Timer /\ UNCHANGED <<obf, irr>>)
  PROVE  IInv'
<1>1. PICK i \in IRQs : frames = Frame(i, p)
  BY InHandler
<1>2. frames' = Frame(i, q) /\ UNCHANGED <<pc, halted>>
  BY <1>1, FrameMoves
<1>3. pc = 13 /\ Top.irq = i
  <2>1. pc = 13
    BY InHandler
  <2>2. Top.irq = i
    BY <1>1, FrameIsSeq DEF Top
  <2> QED
    BY <2>1, <2>2
<1>4. Flags'
  BY <1>2 DEF IInv, Scalars, Flags
<1>5. OneFrame'
  BY <1>2, <1>3 DEF OneFrame
<1>6. BootedSoFar'
  BY <1>2 DEF IInv, BootedSoFar
<1>7. Unwedged'
  <2>1. CASE i = Keyboard
    BY <1>1, <1>2, <1>3, <2>1 DEF IInv, Unwedged, Places, Timer, Keyboard
  <2>2. CASE i # Keyboard
    <3>1. ~ \E place \in Places \ {"body"} : frames = Frame(Keyboard, place)
      BY <1>1, <2>2, FramesDiffer DEF IRQs
    <3> QED
      BY <1>2, <3>1 DEF IInv, Unwedged
  <2> QED
    BY <2>1, <2>2
<1> QED
  BY <1>4, <1>5, <1>6, <1>7 DEF IInv, Scalars

LEMMA HandlerKeepsIInv == IInv /\ Handler => IInv'
<1> SUFFICES ASSUME IInv, Handler PROVE IInv'
  OBVIOUS
<1>1. ASSUME Stub PROVE IInv'
  <2>1. In("entry") /\ MoveTo("eoi") /\ iflag' = FALSE
    BY <1>1 DEF Stub
  <2>2. UNCHANGED <<idt, registered, polls, timer_ticks, irr, isr, imr, obf, ackDue, ibf, pc>>
    BY <1>1 DEF Stub, MoveTo, kernel, pic, kbc
  <2>3. Counters' /\ Registers'
    BY <2>2 DEF IInv, Scalars, Counters, Registers
  <2> QED
    BY <2>1, <2>2, <2>3, MoveKeepsIInv DEF Places
<1>2. ASSUME SendEoi PROVE IInv'
  <2>1. In("eoi") /\ MoveTo("call")
    BY <1>2 DEF SendEoi
  <2>2. iflag' = FALSE
    BY <1>2, <2>1, InHandler DEF SendEoi, FlagAfterEoi
  <2>3. /\ UNCHANGED <<idt, registered, polls, timer_ticks, irr, imr, obf, ackDue, ibf, pc>>
        /\ isr' \subseteq isr
    BY <1>2 DEF SendEoi, MoveTo, AfterEoi, kernel, kbc
  <2>4. Counters' /\ Registers'
    BY <2>3 DEF IInv, Scalars, Counters, Registers
  <2> QED
    BY <2>1, <2>2, <2>3, <2>4, MoveKeepsIInv DEF Places
<1>3. ASSUME timer_handler PROVE IInv'
  <2>1. In("call") /\ MoveTo("body") /\ Top.irq = Timer
    BY <1>3 DEF timer_handler, Call
  <2>2. /\ UNCHANGED <<iflag, idt, registered, polls, irr, isr, imr, obf, ackDue, ibf, pc>>
        /\ timer_ticks' \in {timer_ticks, (timer_ticks + 1) % TickMod}
    BY <1>3 DEF timer_handler, Call, MoveTo, pic, kbc
  <2>3. timer_ticks' \in 0 .. (TickMod - 1)
    BY <2>2, InterruptsAssumption DEF IInv, Scalars, Counters
  <2>4. Counters'
    BY <2>2, <2>3 DEF IInv, Scalars, Counters
  <2>5. Registers'
    BY <2>2 DEF IInv, Scalars, Registers
  <2>6. iflag' = FALSE
    BY <2>1, <2>2, InHandler
  <2> QED
    BY <2>1, <2>2, <2>4, <2>5, <2>6, MoveKeepsIInv DEF Places
<1>4. ASSUME keyboard_callback PROVE IInv'
  <2>1. In("call") /\ MoveTo("body")
    BY <1>4 DEF keyboard_callback, Call
  <2>2. TakeByte(None)
    BY <1>4, <2>1, InHandler DEF keyboard_callback, ByteAfterRead
  <2>3. UNCHANGED <<iflag, idt, registered, polls, timer_ticks, ackDue, ibf, pc>>
    BY <1>4 DEF keyboard_callback, Call, MoveTo, kernel
  <2>4. Counters'
    BY <2>3 DEF IInv, Scalars, Counters
  <2>5. Registers' /\ obf' = None
    BY <2>2, <2>3, TakenByte DEF IInv, Scalars
  <2>6. iflag' = FALSE
    BY <2>1, <2>3, InHandler
  <2> QED
    BY <2>1, <2>3, <2>4, <2>5, <2>6, MoveKeepsIInv DEF Places
<1>5. ASSUME Return PROVE IInv'
  <2>1. PICK i \in IRQs : frames = Frame(i, "body")
    BY <1>5, InHandler DEF Return
  <2>2. frames' = Empty
    BY <1>5, <2>1 DEF Return, Front, Frame, Empty
  <2>3. UNCHANGED <<pc, halted, idt, registered, polls, timer_ticks,
                    irr, isr, imr, obf, ackDue, ibf>> /\ iflag' = TRUE
    BY <1>5 DEF Return, kernel, pic, kbc
  <2>4. Counters' /\ Registers'
    BY <2>3 DEF IInv, Scalars, Counters, Registers
  <2>5. Flags'
    BY <2>3 DEF IInv, Scalars, Flags
  <2>6. OneFrame' /\ BootedSoFar'
    BY <1>5, <2>2, <2>3, InHandler DEF Return, IInv, OneFrame, BootedSoFar
  <2>7. ~ \E place \in Places \ {"body"} : frames = Frame(Keyboard, place)
    BY <2>1, FramesDiffer DEF IRQs, Places
  <2>8. Unwedged'
    BY <2>3, <2>7 DEF IInv, Unwedged
  <2> QED
    BY <2>4, <2>5, <2>6, <2>8 DEF IInv, Scalars
<1> QED
  BY <1>1, <1>2, <1>3, <1>4, <1>5 DEF Handler

LEMMA ExceptionKeepsIInv == IInv /\ Exception => IInv'
<1> SUFFICES ASSUME IInv, Exception PROVE IInv'
  OBVIOUS
<1>1. /\ UNCHANGED <<pc, frames, idt, registered, polls, timer_ticks,
                     irr, isr, imr, obf, ackDue, ibf>>
      /\ halted' = TRUE /\ iflag' = FALSE
  BY DEF Exception, kernel, pic, kbc
<1>2. Counters' /\ Registers'
  BY <1>1 DEF IInv, Scalars, Counters, Registers
<1>3. Flags'
  BY <1>1 DEF IInv, Scalars, Flags
<1>4. OneFrame'
  BY <1>1 DEF IInv, OneFrame
<1>5. BootedSoFar' /\ Unwedged'
  BY <1>1 DEF IInv, BootedSoFar, Unwedged
<1> QED
  BY <1>2, <1>3, <1>4, <1>5 DEF IInv, Scalars

LEMMA TakeKeepsIInv ==
  ASSUME IInv, NEW i \in IRQs, Take(i)
  PROVE  IInv'
<1>1. frames = Empty /\ pc = 13
  BY DEF Take, IInv, OneFrame
<1>2. frames' = Frame(i, "entry")
  BY <1>1 DEF Take, Frame, Empty
<1>3. /\ UNCHANGED <<pc, halted, idt, registered, polls, timer_ticks, imr, obf, ackDue, ibf>>
      /\ irr' = irr \ {i} /\ isr' = isr \cup {i} /\ iflag' = FALSE
  BY DEF Take, FlagInHandler, kernel, kbc
<1>4. Counters'
  BY <1>3 DEF IInv, Scalars, Counters
<1>5. Registers'
  BY <1>3 DEF IInv, Scalars, Registers
<1>6. Flags'
  BY <1>3 DEF IInv, Scalars, Flags
<1>7. OneFrame'
  BY <1>1, <1>2, <1>3 DEF OneFrame, Places
<1>8. BootedSoFar'
  BY <1>3 DEF IInv, BootedSoFar
<1>9. Unwedged'
  <2>1. CASE i = Keyboard
    BY <1>2, <2>1 DEF Unwedged, Places
  <2>2. CASE i # Keyboard
    <3>1. ~ \E place \in Places \ {"body"} : frames = Frame(Keyboard, place)
      BY <1>1, FrameIsSeq DEF IRQs
    <3> QED
      BY <1>3, <2>2, <3>1 DEF IInv, Unwedged
  <2> QED
    BY <2>1, <2>2
<1> QED
  BY <1>4, <1>5, <1>6, <1>7, <1>8, <1>9 DEF IInv, Scalars

-----------------------------------------------------------------------------
(* The devices *)

LEMMA SendByteKeepsIInv ==
  ASSUME IInv, NEW byte \in {Key, Ack}, SendByte(byte)
  PROVE  IInv'
<1>1. /\ UNCHANGED <<pc, iflag, frames, halted, idt, registered, polls, timer_ticks, isr, imr, ibf>>
      /\ irr' = irr \cup {Keyboard} /\ obf' = byte /\ ackDue' = (ackDue /\ byte # Ack)
  BY DEF SendByte, cpu, kernel
<1>2. Counters'
  BY <1>1 DEF IInv, Scalars, Counters
<1>3. Registers'
  BY <1>1 DEF IInv, Scalars, Registers, IRQs
<1>4. Flags'
  BY <1>1 DEF IInv, Scalars, Flags
<1>5. OneFrame'
  BY <1>1 DEF IInv, OneFrame
<1>6. BootedSoFar' /\ Unwedged'
  BY <1>1 DEF IInv, BootedSoFar, Unwedged
<1> QED
  BY <1>2, <1>3, <1>4, <1>5, <1>6 DEF IInv, Scalars

LEMMA DevicesKeepIInv == IInv /\ (TakeCommand \/ Tick) => IInv'
<1> SUFFICES ASSUME IInv, TakeCommand \/ Tick PROVE IInv'
  OBVIOUS
<1>1. /\ UNCHANGED <<pc, iflag, frames, halted, idt, registered, polls, timer_ticks,
                     isr, imr, obf, ackDue>>
      /\ ibf' \in {ibf, FALSE} /\ irr \subseteq irr' /\ irr' \subseteq irr \cup {Timer}
  BY DEF TakeCommand, Tick, cpu, kernel, pic, kbc
<1>2. Counters'
  BY <1>1 DEF IInv, Scalars, Counters
<1>3. Registers'
  BY <1>1 DEF IInv, Scalars, Registers, IRQs
<1>4. Flags'
  BY <1>1 DEF IInv, Scalars, Flags
<1>5. OneFrame'
  BY <1>1 DEF IInv, OneFrame
<1>6. BootedSoFar' /\ Unwedged'
  BY <1>1 DEF IInv, BootedSoFar, Unwedged
<1> QED
  BY <1>2, <1>3, <1>4, <1>5, <1>6 DEF IInv, Scalars

LEMMA NextKeepsIInv == IInv /\ [Next]_intVars => IInv'
<1> SUFFICES ASSUME IInv, [Next]_intVars PROVE IInv'
  OBVIOUS
<1>1. CASE UNCHANGED intVars
  <2>1. /\ UNCHANGED <<pc, iflag, frames, halted, idt, registered, polls, timer_ticks>>
        /\ UNCHANGED <<irr, isr, imr, obf, ackDue, ibf>>
    BY <1>1 DEF intVars, cpu, kernel, pic, kbc
  <2>2. Scalars'
    BY <2>1 DEF IInv, Scalars, Counters, Flags, Registers
  <2>3. OneFrame' /\ BootedSoFar' /\ Unwedged'
    BY <2>1 DEF IInv, OneFrame, BootedSoFar, Unwedged
  <2> QED
    BY <2>2, <2>3 DEF IInv
<1>2. CASE KernelMain
  BY <1>2, KernelKeepsIInv
<1>3. CASE Handler
  BY <1>3, HandlerKeepsIInv
<1>4. CASE Exception
  BY <1>4, ExceptionKeepsIInv
<1>5. CASE \E i \in IRQs : Take(i)
  BY <1>5, TakeKeepsIInv
<1>6. CASE \E byte \in {Key, Ack} : SendByte(byte)
  BY <1>6, SendByteKeepsIInv
<1>7. CASE TakeCommand \/ Tick
  BY <1>7, DevicesKeepIInv
<1> QED
  BY <1>1, <1>2, <1>3, <1>4, <1>5, <1>6, <1>7 DEF Next

LEMMA IInvHolds == Spec => []IInv
<1> QED
  BY InitIInv, NextKeepsIInv, PTL DEF Spec

-----------------------------------------------------------------------------
(* The theorems *)

(* For every number of polls and every width of the tick counter: handlers *)
(* never nest, although the end of interrupt is sent before the handler    *)
(* runs, because no step sets the flag while a frame is there.             *)
THEOREM HandlersNeverNest == Spec => []NoNesting
BY IInvHolds, IInvImplies, PTL

(* An interrupt is served only with its gate and its handler in place.     *)
THEOREM GatesAndHandlersReady == Spec => []HandlersReady
BY IInvHolds, IInvImplies, PTL

(* From the end of keyboard_flush on, a byte in the output buffer has a    *)
(* request or a handler that is about to read it.                          *)
THEOREM KeyboardNeverWedged == Spec => []NeverWedged
BY IInvHolds, IInvImplies, PTL

-----------------------------------------------------------------------------
(* The machine *)

(* The console rides on the interrupts: with its own variables put aside,  *)
(* every step of the machine is a step of the interrupts.                  *)
LEMMA MachineStep == MachineNext => Next
<1>1. ASSUME Booting PROVE Next
  BY <1>1 DEF Booting, Next
<1>2. ASSUME MachineHandler PROVE Next
  BY <1>2 DEF MachineHandler, Serving, read_keyboard, shell_handle_key, ReturnOnly, Handler, Next
<1>3. ASSUME Faulting PROVE Next
  BY <1>3 DEF Faulting, Next
<1>4. ASSUME NEW i \in IRQs, Interrupted(i) PROVE Next
  BY <1>4 DEF Interrupted, Next
<1>5. ASSUME NEW k \in KeyBytes, SendKey(k) PROVE Next
  BY <1>5 DEF SendKey, Next
<1>6. ASSUME SendAck \/ Hardware PROVE Next
  BY <1>6 DEF SendAck, Hardware, Next
<1> QED
  BY <1>1, <1>2, <1>3, <1>4, <1>5, <1>6 DEF MachineNext

LEMMA MachineImplementsInterrupts == MachineSpec => Spec
<1>1. MachineInit => Init
  BY DEF MachineInit
<1>2. [MachineNext]_machineVars => [Next]_intVars
  BY MachineStep DEF machineVars
<1> QED
  BY <1>1, <1>2, PTL DEF MachineSpec, Spec

(* The machine with its console, of any size and with any commands, keeps  *)
(* what the interrupts promise.                                            *)
THEOREM MachineIsSafe ==
  MachineSpec => [](TypeOK /\ NoNesting /\ HandlersReady /\ NeverWedged)
BY MachineImplementsInterrupts, IInvHolds, IInvImplies, PTL

-----------------------------------------------------------------------------
(* A byte on its way through the machine *)

InBody == frames = Frame(Keyboard, "body")
AboutToRead == \E place \in Places \ {"body"} : frames = Frame(Keyboard, place)

InRegister == IF obf = None THEN << >> ELSE <<data>>

(* What read_keyboard leaves for the shell. *)
Decoded(e) ==
  /\ e.scancode \in Bytes /\ e.fresh \in BOOLEAN
  /\ e.shift = shift_pressed
  /\ shift_pressed = C!ShiftAfter(e.wasShift, e.scancode)
  /\ caps_lock_active = C!CapsAfter(e.wasCaps, e.scancode)

(* There is an event exactly while the keyboard handler is in its body,    *)
(* unless the command it runs has stopped the machine.                     *)
EventInv ==
  \/ events = << >> /\ (InBody => halted)
  \/ InBody /\ events = <<Head(events)>> /\ Decoded(Head(events))

OwedByEvent ==
  IF events # << >> /\ Head(events).fresh THEN <<Head(events).scancode>> ELSE << >>

OweInv == owed = OwedByEvent \o InRegister

(* A request, or a handler that has not read yet, stands for the byte in   *)
(* the register, but for one, which has become, or may become, a ghost.    *)
One(b) == IF b THEN 1 ELSE 0

GhostInv ==
  /\ ghosts \in Nat
  /\ ghosts + One(events # << >> /\ ~ Head(events).fresh)
       + One(Keyboard \in irr) + One(AboutToRead) <= 1 + One(obf # None)
  /\ pc <= 12 => ghosts = 0

MachineInv ==
  data \in Bytes /\ (lost => halted) /\ EventInv /\ OweInv /\ GhostInv

LEMMA NamesDiffer ==
  /\ Key # None /\ Ack # None /\ Key # Ack /\ Timer # Keyboard
  /\ "entry" # "body" /\ "eoi" # "body" /\ "call" # "body"
  /\ "entry" \in Places /\ "eoi" \in Places /\ "call" \in Places /\ "body" \in Places
  /\ Timer \in IRQs /\ Keyboard \in IRQs
BY DEF Key, None, Ack, Timer, Keyboard, Places, IRQs

LEMMA TopOfFrame ==
  ASSUME NEW i \in IRQs, NEW place \in Places, frames = Frame(i, place)
  PROVE  Top.irq = i /\ 1 \in DOMAIN frames /\ frames[1].irq = i
<1>1. Len(frames) = 1 /\ DOMAIN frames = {1} /\ frames[1].irq = i
  BY FrameIsSeq
<1> QED
  BY <1>1 DEF Top

(* Where a frame is tells whether the byte has been read. *)
LEMMA ReadInBody ==
  ASSUME NEW i \in IRQs, NEW place \in Places, frames = Frame(i, place)
  PROVE  /\ InBody <=> i = Keyboard /\ place = "body"
         /\ AboutToRead <=> i = Keyboard /\ place # "body"
BY FramesDiffer, NamesDiffer DEF InBody, AboutToRead

LEMMA NoFrameNoByte ==
  ASSUME frames = Empty
  PROVE  ~ InBody /\ ~ AboutToRead
BY FrameIsSeq, NamesDiffer DEF InBody, AboutToRead

(* Without an event. *)
LEMMA NoEvent ==
  ASSUME EventInv, ~ InBody
  PROVE  events = << >> /\ OwedByEvent = << >>
BY DEF EventInv, OwedByEvent

LEMMA InitMachineInv == MachineInit => MachineInv
<1> SUFFICES ASSUME MachineInit PROVE MachineInv
  OBVIOUS
<1>1. /\ frames = Empty /\ pc = 1 /\ irr \subseteq IRQs /\ obf \in {None, Key}
      /\ data \in KeyBytes /\ events = << >> /\ ghosts = 0
      /\ owed = IF obf = None THEN << >> ELSE <<data>>
  BY DEF MachineInit, Init
<1>2. ~ lost
  BY DEF MachineInit, C!Init
<1>3. ~ InBody /\ ~ AboutToRead
  BY <1>1, NoFrameNoByte
<1>4. data \in Bytes
  BY <1>1 DEF Bytes
<1>5. EventInv
  BY <1>1, <1>3 DEF EventInv
<1>6. OweInv
  BY <1>1 DEF OweInv, OwedByEvent, InRegister
<1>7. GhostInv
  BY <1>1, <1>3 DEF GhostInv, One
<1> QED
  BY <1>2, <1>4, <1>5, <1>6, <1>7 DEF MachineInv

-----------------------------------------------------------------------------
(* The steps that leave the shell alone *)

LEMMA IdleKeeps ==
  ASSUME ShellIdle
  PROVE  /\ UNCHANGED <<data, events, ghosts, shift_pressed, caps_lock_active, lost>>
         /\ OwedByEvent' = OwedByEvent
         /\ \A e : Decoded(e)' <=> Decoded(e)
<1>1. UNCHANGED <<data, events, ghosts, shift_pressed, caps_lock_active, lost>>
  BY DEF ShellIdle, shellVars
<1> QED
  BY <1>1 DEF OwedByEvent, Decoded

(* A step of the boot sequence. *)
LEMMA BootAlone ==
  ASSUME KernelMain
  PROVE  /\ frames = Empty /\ UNCHANGED <<frames, halted>> /\ pc \in 1 .. 12
         /\ obf' \in {None, obf}
<1>0. DOMAIN Boot = 1 .. 12
  BY BootSteps
<1>1. frames = Empty /\ pc \in 1 .. 12
  BY <1>0 DEF KernelMain, init_pic, init_idt, vmm_enable, keyboard_reset, keyboard_flush,
       keyboard_interface, keyboard_enable, keyboard_poll, register_interrupt_handler,
       pic_unmask_irq, sti, outb, At
<1>2. UNCHANGED <<frames, halted>>
  BY DEF KernelMain, init_pic, init_idt, vmm_enable, keyboard_reset, keyboard_flush,
       keyboard_interface, keyboard_enable, keyboard_poll, register_interrupt_handler,
       pic_unmask_irq, sti, outb, Go
<1>3. obf' \in {None, obf}
  BY DEF KernelMain, init_pic, init_idt, vmm_enable, keyboard_reset, keyboard_flush,
       keyboard_interface, keyboard_enable, keyboard_poll, register_interrupt_handler,
       pic_unmask_irq, sti, outb, TakeByte, kbc
<1> QED
  BY <1>1, <1>2, <1>3

LEMMA BootingKeeps ==
  ASSUME MachineInv, IInv, IInv', Booting
  PROVE  MachineInv'
<1>1. /\ frames = Empty /\ frames' = Empty /\ halted' = halted /\ pc \in 1 .. 12
      /\ obf' \in {None, obf}
  BY BootAlone DEF Booting
<1>2. ~ InBody /\ ~ AboutToRead
  BY <1>1, NoFrameNoByte
<1>3. ~ InBody' /\ ~ AboutToRead'
  BY <1>1, FrameIsSeq, NamesDiffer DEF InBody, AboutToRead
<1>4. events = << >> /\ OwedByEvent = << >> /\ ghosts = 0
  BY <1>1, <1>2, NoEvent DEF MachineInv, GhostInv
<1>5. /\ UNCHANGED <<data, events, ghosts, shift_pressed, caps_lock_active, lost>>
      /\ OwedByEvent' = OwedByEvent
  BY IdleKeeps DEF Booting
<1>6. owed' = IF obf' = None THEN << >> ELSE owed
  BY DEF Booting
<1>7. OweInv'
  <2>1. CASE obf' = None
    BY <1>4, <1>5, <1>6, <2>1 DEF OweInv, InRegister
  <2>2. CASE obf' # None
    <3>1. obf' = obf /\ owed' = owed
      BY <1>1, <1>6, <2>2
    <3> QED
      BY <1>5, <3>1 DEF MachineInv, OweInv, InRegister
  <2> QED
    BY <2>1, <2>2
<1>8. EventInv'
  BY <1>3, <1>4, <1>5 DEF EventInv
<1>9. GhostInv'
  BY <1>3, <1>4, <1>5 DEF GhostInv, One
<1> QED
  BY <1>1, <1>5, <1>7, <1>8, <1>9 DEF MachineInv

(* A step that moves no byte: what it must do for the invariant. *)
LEMMA QuietKeeps ==
  ASSUME MachineInv, ShellIdle, UNCHANGED <<owed, obf, pc>>, halted => halted',
         InBody' <=> InBody,
         One(Keyboard \in irr') + One(AboutToRead') <= One(Keyboard \in irr) + One(AboutToRead)
  PROVE  MachineInv'
<1>1. /\ UNCHANGED <<data, events, ghosts, shift_pressed, caps_lock_active, lost>>
      /\ OwedByEvent' = OwedByEvent
      /\ \A e : Decoded(e)' <=> Decoded(e)
  BY IdleKeeps
<1>2. EventInv'
  BY <1>1 DEF MachineInv, EventInv
<1>3. OweInv'
  BY <1>1 DEF MachineInv, OweInv, InRegister
<1>4. GhostInv'
  <2> DEFINE stale == One(events # << >> /\ ~ Head(events).fresh)
             full == One(obf # None)
             a == One(Keyboard \in irr) + One(AboutToRead)
             b == One(Keyboard \in irr') + One(AboutToRead')
  <2>1. ghosts \in Nat /\ ghosts + stale + One(Keyboard \in irr) + One(AboutToRead) <= 1 + full
    BY DEF MachineInv, GhostInv
  <2>2. stale \in {0, 1} /\ full \in {0, 1} /\ a \in 0 .. 2 /\ b \in 0 .. 2
    BY DEF One
  <2>3. ghosts + stale + a <= 1 + full /\ b <= a
    BY <2>1 DEF One
  <2>4. ghosts + stale + One(Keyboard \in irr') + One(AboutToRead') <= 1 + full
    <3>1. ghosts + stale + b <= 1 + full
      <4> HIDE DEF stale, full, a, b
      <4> QED
        BY <2>1, <2>2, <2>3
    <3> HIDE DEF stale, full
    <3> QED
      BY <2>1, <2>2, <3>1 DEF One
  <2> QED
    BY <1>1, <2>4 DEF MachineInv, GhostInv
<1> QED
  BY <1>1, <1>2, <1>3, <1>4 DEF MachineInv

LEMMA StutterKeeps ==
  ASSUME MachineInv, UNCHANGED machineVars
  PROVE  MachineInv'
<1>1. ShellIdle /\ UNCHANGED <<owed, obf, pc, halted, frames, irr>>
  BY DEF machineVars, ShellIdle, intVars, cpu, pic, kbc
<1>2. (InBody' <=> InBody) /\ AboutToRead' = AboutToRead
  BY <1>1 DEF InBody, AboutToRead
<1>3. One(Keyboard \in irr') + One(AboutToRead') <= One(Keyboard \in irr) + One(AboutToRead)
  BY <1>1, <1>2 DEF One
<1> QED
  BY <1>1, <1>2, <1>3, QuietKeeps

LEMMA ServingKeeps ==
  ASSUME MachineInv, IInv, Serving
  PROVE  MachineInv'
<1>1. ShellIdle /\ UNCHANGED owed
  BY DEF Serving
<1>2. UNCHANGED <<obf, irr, pc, halted>>
  BY DEF Serving, Stub, SendEoi, timer_handler, Call, MoveTo, kbc, pic
<1>3. (InBody' <=> InBody) /\ (AboutToRead' <=> AboutToRead)
  <2>1. PICK p \in Places, q \in Places :
          /\ In(p) /\ MoveTo(q)
          /\ (p = "entry" /\ q = "eoi") \/ (p = "eoi" /\ q = "call")
             \/ (p = "call" /\ q = "body" /\ Top.irq = Timer)
    BY NamesDiffer DEF Serving, Stub, SendEoi, timer_handler, Call
  <2>2. PICK i \in IRQs : frames = Frame(i, p)
    BY <2>1, InHandler
  <2>3. frames' = Frame(i, q) /\ Top.irq = i
    BY <2>1, <2>2, FrameMoves, FrameIsSeq DEF Top
  <2>4. /\ InBody <=> i = Keyboard /\ p = "body"
        /\ AboutToRead <=> i = Keyboard /\ p # "body"
    BY <2>2, ReadInBody
  <2>5. /\ InBody' <=> i = Keyboard /\ q = "body"
        /\ AboutToRead' <=> i = Keyboard /\ q # "body"
    BY <2>3, FramesDiffer, NamesDiffer DEF InBody, AboutToRead
  <2> QED
    BY <2>1, <2>3, <2>4, <2>5, NamesDiffer
<1>4. One(Keyboard \in irr') + One(AboutToRead') <= One(Keyboard \in irr) + One(AboutToRead)
  BY <1>2, <1>3 DEF One
<1> QED
  BY <1>1, <1>2, <1>3, <1>4, QuietKeeps

LEMMA ReturnKeeps ==
  ASSUME MachineInv, IInv, ReturnOnly
  PROVE  MachineInv'
<1>1. /\ ShellIdle /\ UNCHANGED owed /\ In("body") /\ frames' = Front(frames)
      /\ Top.irq = Keyboard => events = << >>
      /\ UNCHANGED <<obf, irr, pc, halted>>
  BY DEF ReturnOnly, Return, kbc, pic
<1>2. PICK i \in IRQs : frames = Frame(i, "body")
  BY <1>1, InHandler
<1>3. Top.irq = i /\ ~ halted
  <2>1. Top.irq = i
    BY <1>2, TopOfFrame, NamesDiffer
  <2> QED
    BY <1>1, <2>1 DEF In
<1>4. i # Keyboard
  <2>1. ASSUME i = Keyboard PROVE FALSE
    <3>1. InBody /\ events = << >>
      BY <1>1, <1>2, <1>3, <2>1 DEF InBody
    <3>2. << >> # <<Head(events)>>
      OBVIOUS
    <3> QED
      BY <1>3, <3>1, <3>2 DEF MachineInv, EventInv
  <2> QED
    BY <2>1
<1>5. ~ InBody /\ ~ AboutToRead
  BY <1>2, <1>4, ReadInBody, NamesDiffer
<1>6. frames' = Empty
  BY <1>1, <1>2 DEF Front, Frame, Empty
<1>7. ~ InBody' /\ ~ AboutToRead'
  BY <1>6, FrameIsSeq, NamesDiffer DEF InBody, AboutToRead
<1>8. One(Keyboard \in irr') + One(AboutToRead') <= One(Keyboard \in irr) + One(AboutToRead)
  BY <1>1, <1>5, <1>7 DEF One
<1> QED
  BY <1>1, <1>5, <1>7, <1>8, QuietKeeps

LEMMA InterruptedKeeps ==
  ASSUME MachineInv, IInv, NEW i \in IRQs, Interrupted(i)
  PROVE  MachineInv'
<1>1. /\ ShellIdle /\ UNCHANGED <<owed, obf, pc, halted>>
      /\ irr' = irr \ {i} /\ i \in irr
      /\ frames' = Append(frames, [irq |-> i, at |-> "entry"]) /\ iflag
  BY DEF Interrupted, Take, Offered, Pending, kbc
<1>2. frames = Empty
  BY <1>1 DEF IInv, OneFrame
<1>3. frames' = Frame(i, "entry")
  BY <1>1, <1>2 DEF Empty, Frame
<1>4. ~ InBody /\ ~ AboutToRead
  BY <1>2, NoFrameNoByte
<1>5. ~ InBody' /\ (AboutToRead' <=> i = Keyboard)
  BY <1>3, FramesDiffer, NamesDiffer DEF InBody, AboutToRead
<1>6. One(Keyboard \in irr') + One(AboutToRead') <= One(Keyboard \in irr) + One(AboutToRead)
  BY <1>1, <1>4, <1>5 DEF One
<1> QED
  BY <1>1, <1>4, <1>5, <1>6, QuietKeeps

LEMMA FaultingKeeps ==
  ASSUME MachineInv, Faulting
  PROVE  MachineInv'
<1>1. ShellIdle /\ UNCHANGED <<owed, obf, pc, irr, frames>> /\ halted'
  BY DEF Faulting, Exception, kbc, pic
<1>2. (InBody' <=> InBody) /\ (AboutToRead' <=> AboutToRead)
  BY <1>1 DEF InBody, AboutToRead
<1>3. One(Keyboard \in irr') + One(AboutToRead') <= One(Keyboard \in irr) + One(AboutToRead)
  BY <1>1, <1>2 DEF One
<1> QED
  BY <1>1, <1>2, <1>3, QuietKeeps

LEMMA HardwareKeeps ==
  ASSUME MachineInv, Hardware
  PROVE  MachineInv'
<1>1. ShellIdle /\ UNCHANGED <<owed, obf, pc, frames, halted>> /\ irr' \subseteq irr \cup {Timer}
  BY DEF Hardware, TakeCommand, Tick, kbc, pic, cpu
<1>2. (InBody' <=> InBody) /\ (AboutToRead' <=> AboutToRead)
  BY <1>1 DEF InBody, AboutToRead
<1>3. One(Keyboard \in irr') + One(AboutToRead') <= One(Keyboard \in irr) + One(AboutToRead)
  BY <1>1, <1>2, NamesDiffer DEF One
<1> QED
  BY <1>1, <1>2, <1>3, QuietKeeps


-----------------------------------------------------------------------------
(* The keyboard sends a byte *)

LEMMA SendingKeeps ==
  ASSUME MachineInv, NEW k \in Bytes, NEW byte \in {Key, Ack}, SendByte(byte),
         data' = k, owed' = Append(owed, k), UNCHANGED <<shellVars, events, ghosts>>
  PROVE  MachineInv'
<1>1. /\ obf = None /\ obf' = byte /\ obf' # None /\ irr' = irr \cup {Keyboard}
      /\ UNCHANGED <<frames, halted, pc>>
  BY NamesDiffer DEF SendByte, cpu
<1>2. UNCHANGED <<events, ghosts, shift_pressed, caps_lock_active, lost>>
  BY DEF shellVars
<1>3. (InBody' <=> InBody) /\ (AboutToRead' <=> AboutToRead)
  BY <1>1 DEF InBody, AboutToRead
<1>4. EventInv'
  <2>1. \A e : Decoded(e)' <=> Decoded(e)
    BY <1>2 DEF Decoded
  <2> QED
    BY <1>1, <1>2, <1>3, <2>1 DEF MachineInv, EventInv
<1>5. OweInv'
  <2>1. OwedByEvent' = OwedByEvent
    BY <1>2 DEF OwedByEvent
  <2>2. owed = OwedByEvent \o << >>
    BY <1>1 DEF MachineInv, OweInv, InRegister
  <2>3. owed' = OwedByEvent \o <<k>>
    <3>1. OwedByEvent = << >> \/ \E c : OwedByEvent = <<c>>
      BY DEF OwedByEvent
    <3>2. CASE OwedByEvent = << >>
      BY <2>2, <3>2
    <3>3. ASSUME NEW c, OwedByEvent = <<c>> PROVE owed' = OwedByEvent \o <<k>>
      BY <2>2, <3>3
    <3> QED
      BY <3>1, <3>2, <3>3
  <2>4. InRegister' = <<k>>
    BY <1>1 DEF InRegister
  <2> QED
    BY <2>1, <2>3, <2>4 DEF OweInv
<1>6. GhostInv'
  <2>1. One(Keyboard \in irr') <= One(Keyboard \in irr) + 1
    BY DEF One
  <2>2. One(obf' # None) = 1 /\ One(obf # None) = 0
    BY <1>1 DEF One
  <2>3. AboutToRead' = AboutToRead
    BY <1>1 DEF AboutToRead
  <2> QED
    BY <1>1, <1>2, <2>2, <2>3 DEF MachineInv, GhostInv, One
<1> QED
  BY <1>1, <1>2, <1>4, <1>5, <1>6 DEF MachineInv

-----------------------------------------------------------------------------
(* The two steps of the keyboard handler *)

(* read_keyboard leaves one event. *)
NewEvent(e) ==
  /\ e.scancode = data /\ e.fresh = (obf # None)
  /\ e.shift = shift_pressed' /\ e.wasShift = shift_pressed /\ e.wasCaps = caps_lock_active
  /\ shift_pressed' = C!ShiftAfter(e.wasShift, e.scancode)
  /\ caps_lock_active' = C!CapsAfter(e.wasCaps, e.scancode)
  /\ events' = <<e>>

LEMMA Reading ==
  ASSUME MachineInv, IInv, read_keyboard
  PROVE  /\ AboutToRead /\ ~ InBody /\ events = << >> /\ OwedByEvent = << >>
         /\ InBody' /\ ~ AboutToRead' /\ obf' = None
         /\ irr' \in {irr, irr \ {Keyboard}}
         /\ \E e : NewEvent(e)
         /\ UNCHANGED <<term, text, line, held, lost, data, owed, ghosts, pc, halted>>
<1>1. In("call") /\ Top.irq = Keyboard /\ MoveTo("body")
  BY DEF read_keyboard, keyboard_callback, Call
<1>2. PICK i \in IRQs : frames = Frame(i, "call")
  BY <1>1, NamesDiffer, InHandler
<1>3. i = Keyboard
  BY <1>1, <1>2, TopOfFrame, NamesDiffer
<1>4. AboutToRead /\ ~ InBody
  BY <1>2, <1>3, ReadInBody, NamesDiffer
<1>5. events = << >> /\ OwedByEvent = << >>
  BY <1>4, NoEvent DEF MachineInv
<1>6. frames' = Frame(Keyboard, "body")
  BY <1>1, <1>2, <1>3, NamesDiffer, FrameMoves
<1>7. InBody' /\ ~ AboutToRead'
  BY <1>6, FramesDiffer, NamesDiffer DEF InBody, AboutToRead
<1>8. Keyboard \in registered
  <2>1. HandlersReady
    BY IInvImplies
  <2>2. 1 \in DOMAIN frames /\ frames[1].irq = Keyboard
    BY <1>2, <1>3, TopOfFrame, NamesDiffer
  <2> QED
    BY <2>1, <2>2 DEF HandlersReady
<1>9. obf' = None /\ irr' \in {irr, irr \ {Keyboard}}
  BY <1>8 DEF read_keyboard, keyboard_callback, TakeByte, ByteAfterRead
<1>10. \E e : NewEvent(e)
  <2> DEFINE e == [scancode |-> data, shift |-> shift_pressed', fresh |-> obf # None,
                   wasShift |-> shift_pressed, wasCaps |-> caps_lock_active]
  <2>1. /\ shift_pressed' = C!ShiftAfter(shift_pressed, data)
        /\ caps_lock_active' = C!CapsAfter(caps_lock_active, data)
        /\ events' = <<e>>
    BY <1>5, <1>8 DEF read_keyboard
  <2>2. NewEvent(e)
    BY <2>1 DEF NewEvent
  <2> HIDE DEF e
  <2> QED
    BY <2>2
<1>11. UNCHANGED <<term, text, line, held, lost, data, owed, ghosts, pc, halted>>
  BY <1>1 DEF read_keyboard, MoveTo
<1> QED
  BY <1>4, <1>5, <1>7, <1>9, <1>10, <1>11

LEMMA ReadingKeeps ==
  ASSUME MachineInv, IInv, read_keyboard
  PROVE  MachineInv'
<1>1. /\ AboutToRead /\ ~ InBody /\ events = << >> /\ OwedByEvent = << >>
      /\ InBody' /\ ~ AboutToRead' /\ obf' = None
      /\ irr' \in {irr, irr \ {Keyboard}}
      /\ \E e : NewEvent(e)
      /\ UNCHANGED <<term, text, line, held, lost, data, owed, ghosts, pc, halted>>
  BY Reading
<1>2. PICK e : NewEvent(e)
  BY <1>1
<1>3. events' = <<e>> /\ Head(events') = e /\ events' # << >>
  BY <1>2 DEF NewEvent
<1>4. EventInv'
  <2>1. Decoded(e)'
    BY <1>1, <1>2 DEF NewEvent, Decoded, MachineInv, C!ShiftAfter, C!CapsAfter, C!ShiftKeys
  <2> QED
    BY <1>1, <1>3, <2>1 DEF EventInv
<1>5. OweInv'
  <2>1. owed = InRegister
    <3>1. InRegister = << >> \/ InRegister = <<data>>
      BY DEF InRegister
    <3> QED
      BY <1>1, <3>1 DEF MachineInv, OweInv
  <2>2. OwedByEvent' = InRegister
    BY <1>2, <1>3 DEF NewEvent, OwedByEvent, InRegister
  <2>3. InRegister' = << >>
    BY <1>1 DEF InRegister
  <2>4. InRegister = InRegister \o << >>
    BY DEF InRegister
  <2> QED
    BY <1>1, <2>1, <2>2, <2>3, <2>4 DEF OweInv
<1>6. GhostInv'
  <2>1. One(events' # << >> /\ ~ Head(events').fresh) = One(obf = None)
    BY <1>2, <1>3 DEF NewEvent, One
  <2>2. One(events # << >> /\ ~ Head(events).fresh) = 0 /\ One(AboutToRead) = 1
        /\ One(AboutToRead') = 0 /\ One(obf' # None) = 0
    BY <1>1 DEF One
  <2>3. One(Keyboard \in irr') <= One(Keyboard \in irr)
    BY <1>1 DEF One
  <2>4. ghosts \in Nat /\ ghosts + One(Keyboard \in irr) <= One(obf # None)
    BY <2>2 DEF MachineInv, GhostInv, One
  <2>5. ghosts + One(obf = None) + One(Keyboard \in irr') <= 1
    BY <2>3, <2>4 DEF One
  <2>6. pc <= 12 => ghosts = 0
    BY DEF MachineInv, GhostInv
  <2> QED
    BY <1>1, <2>1, <2>2, <2>4, <2>5, <2>6 DEF GhostInv, One
<1> QED
  BY <1>1, <1>4, <1>5, <1>6 DEF MachineInv


LEMMA EventInBody ==
  ASSUME MachineInv, IInv, shell_handle_key
  PROVE  /\ InBody /\ ~ AboutToRead /\ ~ halted /\ ~ lost /\ pc = 13
         /\ events = <<Head(events)>> /\ Last(events) = Head(events) /\ events' = << >>
         /\ Decoded(Head(events))
<1>1. In("body") /\ events # << >> /\ events' = Front(events)
  BY DEF shell_handle_key
<1>2. InBody /\ events = <<Head(events)>> /\ Decoded(Head(events))
  BY <1>1 DEF MachineInv, EventInv
<1>3. ~ AboutToRead
  BY <1>2, ReadInBody, NamesDiffer DEF InBody
<1>4. ~ halted /\ ~ lost
  BY <1>1 DEF In, MachineInv
<1>5. pc = 13
  BY <1>1, InHandler
<1>6. Last(events) = Head(events) /\ events' = << >>
  <2> DEFINE e == Head(events)
  <2>1. events = <<e>>
    BY <1>2
  <2> HIDE DEF e
  <2>2. Last(events) = e /\ Front(events) = << >>
    BY <2>1 DEF Last, Front
  <2> QED
    BY <1>1, <2>2 DEF e
<1> QED
  BY <1>2, <1>3, <1>4, <1>5, <1>6

(* The handler returns, or the machine stops. *)
LEMMA HandlingEnds ==
  ASSUME MachineInv, IInv, shell_handle_key
  PROVE  /\ UNCHANGED <<obf, irr, pc, data>> /\ ~ AboutToRead'
         /\ lost' => halted'
         /\ InBody' => halted'
<1>1. InBody /\ ~ AboutToRead
  BY EventInBody
<1>2. IF lost' THEN Exception ELSE Return
  BY DEF shell_handle_key
<1>3. UNCHANGED data
  BY DEF shell_handle_key
<1>4. CASE lost'
  <2>1. /\ UNCHANGED <<obf, irr, pc, frames>> /\ halted'
    BY <1>2, <1>4 DEF Exception, kbc, pic
  <2> QED
    BY <1>1, <1>3, <2>1 DEF AboutToRead
<1>5. CASE ~ lost'
  <2>1. /\ UNCHANGED <<obf, irr, pc>> /\ frames' = Front(frames)
    BY <1>2, <1>5 DEF Return, kbc, pic
  <2>2. frames' = Empty
    BY <1>1, <2>1 DEF InBody, Front, Frame, Empty
  <2>3. ~ InBody' /\ ~ AboutToRead'
    BY <2>2, FrameIsSeq, NamesDiffer DEF InBody, AboutToRead
  <2> QED
    BY <1>3, <1>5, <2>1, <2>3
<1> QED
  BY <1>4, <1>5

LEMMA TwoBytes ==
  ASSUME NEW c, NEW d
  PROVE  /\ <<c>> \o <<d>> # << >> /\ Head(<<c>> \o <<d>>) = c
         /\ Tail(<<c>> \o <<d>>) = <<d>>
         /\ Len(<<c>> \o <<d>>) = 2 /\ (<<c>> \o <<d>>)[1] = c /\ Last(<<c>> \o <<d>>) = d
<1> DEFINE a == <<c>>
<1>1. a \in Seq({c, d}) /\ a # << >> /\ Head(a) = c /\ Tail(a) = << >> /\ Len(a) = 1 /\ a[1] = c
  OBVIOUS
<1>2. Append(<< >>, d) = <<d>>
  OBVIOUS
<1> HIDE DEF a
<1>3. a \o <<d>> = Append(a, d)
  BY <1>1, AppendIsConcat
<1>4. Head(Append(a, d)) = c /\ Tail(Append(a, d)) = <<d>>
  <2>1. Head(Append(a, d)) = c
    BY <1>1, HeadTailAppend
  <2>2. Tail(Append(a, d)) = Append(<< >>, d)
    BY <1>1, HeadTailAppend
  <2> QED
    BY <1>2, <2>1, <2>2, Zenon
<1>5. Append(a, d) # << >>
  BY <1>1
<1>6. a \o <<d>> # << >> /\ Head(a \o <<d>>) = c /\ Tail(a \o <<d>>) = <<d>>
  BY <1>3, <1>4, <1>5, Zenon
<1>7. Len(Append(a, d)) = 2 /\ Append(a, d)[1] = c /\ Append(a, d)[2] = d
  <2>1. Len(Append(<<c>>, d)) = 2
    OBVIOUS
  <2>2. Append(<<c>>, d)[1] = c
    OBVIOUS
  <2>3. Append(<<c>>, d)[2] = d
    OBVIOUS
  <2> QED
    BY <2>1, <2>2, <2>3 DEF a
<1>8. Len(a \o <<d>>) = 2 /\ (a \o <<d>>)[1] = c /\ Last(a \o <<d>>) = d
  BY <1>3, <1>7 DEF Last
<1> QED
  BY <1>6, <1>8 DEF a

LEMMA HandlingKeeps ==
  ASSUME MachineInv, IInv, shell_handle_key
  PROVE  MachineInv'
<1> DEFINE e == Head(events)
<1>1. /\ InBody /\ ~ AboutToRead /\ pc = 13
      /\ events = <<e>> /\ Last(events) = e /\ events' = << >> /\ Decoded(e)
  BY EventInBody
<1>2. /\ UNCHANGED <<obf, irr, pc, data>> /\ ~ AboutToRead'
      /\ lost' => halted'
      /\ InBody' => halted'
  BY HandlingEnds
<1>3. Settled(e)
  BY <1>1 DEF shell_handle_key
<1>4. EventInv'
  BY <1>1, <1>2 DEF EventInv
<1>5. events # << >> /\ e.fresh \in BOOLEAN
  <2>1. events # << >>
    BY DEF shell_handle_key
  <2>2. e.fresh \in BOOLEAN
    BY <1>1 DEF Decoded
  <2> QED
    BY <2>1, <2>2
<1>6. InRegister' = InRegister /\ OwedByEvent' = << >>
  BY <1>1, <1>2 DEF InRegister, OwedByEvent
<1>7. << >> \o InRegister = InRegister
  BY DEF InRegister
<1>8. owed' = InRegister /\ ghosts' = ghosts + One(~ e.fresh) /\ ghosts \in Nat
  <2>1. ghosts \in Nat
    BY DEF MachineInv, GhostInv
  <2>2. CASE e.fresh
    <3>1. owed = <<e.scancode>> \o InRegister
      BY <1>5, <2>2 DEF MachineInv, OweInv, OwedByEvent
    <3>2. owed # << >> /\ Head(owed) = e.scancode /\ Tail(owed) = InRegister
      <4> DEFINE c == e.scancode
      <4>1. owed = <<c>> \o InRegister
        BY <3>1
      <4> HIDE DEF c
      <4>2. owed # << >> /\ Head(owed) = c /\ Tail(owed) = InRegister
        <5>1. CASE InRegister = << >>
          <6>1. owed = <<c>>
            BY <4>1, <5>1
          <6> QED
            BY <5>1, <6>1
        <5>2. CASE InRegister = <<data>>
          BY <4>1, <5>2, TwoBytes
        <5> QED
          BY <5>1, <5>2 DEF InRegister
      <4> QED
        BY <4>2 DEF c
    <3>3. owed' = Tail(owed) /\ ghosts' = ghosts
      BY <1>3, <2>2, <3>2 DEF Settled
    <3> QED
      BY <2>1, <2>2, <3>2, <3>3 DEF One
  <2>3. CASE ~ e.fresh
    <3>1. owed = InRegister
      BY <1>7, <2>3 DEF MachineInv, OweInv, OwedByEvent
    <3>2. ghosts' = ghosts + 1 /\ owed' = owed
      BY <1>3, <2>3 DEF Settled
    <3> QED
      BY <2>1, <2>3, <3>1, <3>2 DEF One
  <2> QED
    BY <1>5, <2>2, <2>3
<1>9. OweInv'
  BY <1>6, <1>7, <1>8 DEF OweInv
<1>10. GhostInv'
  <2>1. /\ One(events # << >> /\ ~ e.fresh) = One(~ e.fresh) /\ One(AboutToRead) = 0
        /\ One(AboutToRead') = 0
        /\ One(events' # << >> /\ ~ Head(events').fresh) = 0
    BY <1>1, <1>2, <1>5 DEF One
  <2>2. ghosts + One(~ e.fresh) + One(Keyboard \in irr) + 0 <= 1 + One(obf # None)
    BY <2>1 DEF MachineInv, GhostInv
  <2>3. ghosts' \in Nat /\ ~ pc' <= 12
    BY <1>1, <1>2, <1>8 DEF One
  <2>4. ghosts' + 0 + One(Keyboard \in irr') + 0 <= 1 + One(obf' # None)
    <3> DEFINE n == One(~ e.fresh)
    <3>1. n \in {0, 1} /\ One(Keyboard \in irr) \in {0, 1}
      BY DEF One
    <3> HIDE DEF n
    <3> QED
      BY <1>2, <1>8, <2>2, <3>1 DEF n
  <2> QED
    BY <2>1, <2>3, <2>4 DEF GhostInv
<1> QED
  BY <1>2, <1>4, <1>9, <1>10 DEF MachineInv

-----------------------------------------------------------------------------
LEMMA MachineNextKeeps ==
  ASSUME MachineInv, IInv, IInv', [MachineNext]_machineVars
  PROVE  MachineInv'
<1>1. CASE UNCHANGED machineVars
  BY <1>1, StutterKeeps
<1>2. CASE Booting
  BY <1>2, BootingKeeps
<1>3. CASE MachineHandler
  BY <1>3, ServingKeeps, ReadingKeeps, HandlingKeeps, ReturnKeeps DEF MachineHandler
<1>4. CASE Faulting
  BY <1>4, FaultingKeeps
<1>5. ASSUME NEW i \in IRQs, Interrupted(i) PROVE MachineInv'
  BY <1>5, InterruptedKeeps
<1>6. ASSUME NEW k \in KeyBytes, SendKey(k) PROVE MachineInv'
  <2>1. /\ k \in Bytes /\ Key \in {Key, Ack} /\ SendByte(Key)
        /\ data' = k /\ owed' = Append(owed, k) /\ UNCHANGED <<shellVars, events, ghosts>>
    BY <1>6 DEF SendKey, Bytes
  <2> QED
    BY <2>1, SendingKeeps
<1>7. CASE SendAck
  <2>1. /\ ACK \in Bytes /\ Ack \in {Key, Ack} /\ SendByte(Ack)
        /\ data' = ACK /\ owed' = Append(owed, ACK) /\ UNCHANGED <<shellVars, events, ghosts>>
    BY <1>7 DEF SendAck, Bytes
  <2> QED
    BY <2>1, SendingKeeps
<1>8. CASE Hardware
  BY <1>8, HardwareKeeps
<1> QED
  BY <1>1, <1>2, <1>3, <1>4, <1>5, <1>6, <1>7, <1>8 DEF MachineNext

LEMMA MachineInvHolds == MachineSpec => []MachineInv
<1>1. MachineSpec => []IInv
  BY MachineImplementsInterrupts, IInvHolds, PTL
<1>2. IInv /\ IInv' /\ MachineInv /\ [MachineNext]_machineVars => MachineInv'
  BY MachineNextKeeps
<1> QED
  BY <1>1, <1>2, InitMachineInv, PTL DEF MachineSpec


-----------------------------------------------------------------------------
(* What the invariant says of the bytes *)

(* After the boot, a byte in the register uses up one request or handler.  *)
LEMMA OneGhost ==
  ASSUME MachineInv, IInv
  PROVE  ghosts \in Nat /\ ghosts + One(events # << >> /\ ~ Head(events).fresh) <= 1
<1> DEFINE stale == One(events # << >> /\ ~ Head(events).fresh)
           request == One(Keyboard \in irr)
           handler == One(AboutToRead)
           full == One(obf # None)
<1>1. /\ ghosts \in Nat
      /\ ghosts + stale + request + handler <= 1 + full
      /\ pc <= 12 => ghosts = 0
  BY DEF MachineInv, GhostInv
<1>2. stale \in {0, 1} /\ request \in {0, 1} /\ handler \in {0, 1} /\ full \in {0, 1}
  BY DEF One
<1>3. pc \in 1 .. 13
  BY DEF IInv, Scalars, Counters
<1>4. CASE pc <= 12
  BY <1>1, <1>2, <1>4
<1>5. CASE pc > 12
  <2>1. obf # None => Keyboard \in irr \/ AboutToRead
    BY <1>3, <1>5 DEF IInv, Unwedged, AboutToRead
  <2>2. full <= request + handler
    BY <2>1 DEF One
  <2>3. ghosts + stale <= 1
    <3> HIDE DEF stale, request, handler, full
    <3> QED
      BY <1>1, <1>2, <2>2
  <2> QED
    BY <1>1, <2>3
<1> QED
  BY <1>3, <1>4, <1>5

LEMMA InvKeysInOrder == MachineInv /\ IInv => KeysInOrder
<1> SUFFICES ASSUME MachineInv, IInv PROVE KeysInOrder
  OBVIOUS
<1> DEFINE fresh == {i \in DOMAIN events : events[i].fresh}
           Rank(i) == Cardinality({j \in fresh : j <= i})
           register == IF obf = None THEN 0 ELSE 1
<1>1. ghosts \in Nat /\ ghosts + One(events # << >> /\ ~ Head(events).fresh) <= 1
  BY OneGhost
<1>2. owed = OwedByEvent \o InRegister
  BY DEF MachineInv, OweInv
<1>3. \/ obf = None /\ InRegister = << >> /\ register = 0
      \/ obf # None /\ InRegister = <<data>> /\ register = 1
  <2>1. CASE obf = None
    BY <2>1 DEF InRegister
  <2>2. CASE obf # None
    BY <2>2 DEF InRegister
  <2> QED
    BY <2>1, <2>2
<1>4. CASE events = << >>
  <2>1. fresh = {} /\ DOMAIN events \ fresh = {}
    BY <1>4
  <2>2. OwedByEvent = << >>
    BY <1>4 DEF OwedByEvent
  <2>3. owed = InRegister
    BY <1>2, <1>3, <2>2
  <2>4. Len(owed) = register /\ (obf # None => Last(owed) = data)
    BY <1>3, <2>3 DEF Last, InRegister
  <2>5. Cardinality(fresh) = 0 /\ Cardinality(DOMAIN events \ fresh) = 0
    BY <2>1, FS_EmptySet
  <2>6. ghosts <= 1
    BY <1>1 DEF One
  <2>7. /\ Len(owed) = Cardinality(fresh) + register
        /\ \A i \in fresh : owed[Rank(i)] = events[i].scancode
        /\ obf # None => Last(owed) = data
        /\ ghosts + Cardinality(DOMAIN events \ fresh) <= 1
    BY <1>1, <1>3, <2>1, <2>4, <2>5, <2>6
  <2> QED
    BY <2>7 DEF KeysInOrder
<1>5. CASE events # << >>
  <2> DEFINE e == Head(events)
  <2>1. events = <<e>> /\ e.fresh \in BOOLEAN
    BY <1>5 DEF MachineInv, EventInv, Decoded
  <2>2. DOMAIN events = {1} /\ events[1] = e
    <3> HIDE DEF e
    <3> QED
      BY <2>1
  <2>3. CASE e.fresh
    <3>1. fresh = {1} /\ DOMAIN events \ fresh = {} /\ {j \in fresh : j <= 1} = {1}
      BY <2>2, <2>3
    <3>2. owed = <<e.scancode>> \o InRegister
      BY <1>2, <1>5, <2>3 DEF OwedByEvent
    <3>3. Len(owed) = 1 + register /\ owed[1] = e.scancode /\ (obf # None => Last(owed) = data)
      <4> DEFINE c == e.scancode
      <4>1. CASE InRegister = << >>
        <5>1. owed = <<c>> /\ register = 0 /\ obf = None
          <6> HIDE DEF c
          <6>1. <<c>> \o << >> = <<c>>
            OBVIOUS
          <6>2. owed = <<c>> \o InRegister
            BY <3>2 DEF c
          <6> QED
            BY <1>3, <4>1, <6>1, <6>2 DEF InRegister
        <5> HIDE DEF c
        <5>2. Len(owed) = 1 + register /\ owed[1] = c /\ (obf # None => Last(owed) = data)
          BY <5>1
        <5> QED
          BY <5>2 DEF c
      <4>2. CASE InRegister = <<data>>
        <5>1. owed = <<c>> \o <<data>> /\ register = 1
          BY <1>3, <3>2, <4>2
        <5> HIDE DEF c
        <5>2. Len(owed) = 2 /\ owed[1] = c /\ Last(owed) = data
          BY <5>1, TwoBytes
        <5> QED
          BY <5>1, <5>2 DEF c
      <4> QED
        BY <1>3, <4>1, <4>2
    <3>4. Cardinality(fresh) = 1 /\ Rank(1) = 1 /\ Cardinality(DOMAIN events \ fresh) = 0
      BY <3>1, FS_EmptySet, FS_Singleton
    <3> HIDE DEF register, Rank
    <3>5. /\ Len(owed) = Cardinality(fresh) + register
          /\ \A i \in fresh : owed[Rank(i)] = events[i].scancode
          /\ obf # None => Last(owed) = data
          /\ ghosts + Cardinality(DOMAIN events \ fresh) <= 1
      BY <1>1, <2>2, <3>1, <3>3, <3>4 DEF One, register
    <3> QED
      BY <3>5 DEF KeysInOrder, register, Rank
  <2>4. CASE ~ e.fresh
    <3>1. fresh = {} /\ DOMAIN events \ fresh = {1}
      BY <2>2, <2>4
    <3>2. OwedByEvent = << >>
      BY <2>4 DEF OwedByEvent
    <3>3. owed = InRegister
      BY <1>2, <1>3, <3>2
    <3>4. Len(owed) = register /\ (obf # None => Last(owed) = data)
      BY <1>3, <3>3 DEF Last, InRegister
    <3>5. Cardinality(fresh) = 0 /\ Cardinality(DOMAIN events \ fresh) = 1
      BY <3>1, FS_EmptySet, FS_Singleton
    <3>6. ghosts + 1 <= 1
      BY <1>1, <1>5, <2>4 DEF One
    <3>7. /\ Len(owed) = Cardinality(fresh) + register
          /\ \A i \in fresh : owed[Rank(i)] = events[i].scancode
          /\ obf # None => Last(owed) = data
          /\ ghosts + Cardinality(DOMAIN events \ fresh) <= 1
      BY <1>1, <1>3, <3>1, <3>4, <3>5, <3>6
    <3> QED
      BY <3>7 DEF KeysInOrder
  <2> QED
    BY <2>1, <2>3, <2>4
<1> QED
  BY <1>4, <1>5


(* No byte of the keyboard is lost, repeated or reordered between the      *)
(* interrupt and the shell, but for the one event keyboard.cpp:102 may     *)
(* repeat, for every keyboard, screen and set of commands.                 *)
THEOREM KeysComeInOrder == MachineSpec => []KeysInOrder
<1>1. MachineSpec => []IInv
  BY MachineImplementsInterrupts, IInvHolds, PTL
<1> QED
  BY <1>1, MachineInvHolds, InvKeysInOrder, PTL

-----------------------------------------------------------------------------
(* Seen from the console a key is one step *)

(* The flags as the console sees them while an event is under way. *)
SeenShift == IF events = << >> THEN shift_pressed ELSE Head(events).wasShift
SeenCaps == IF events = << >> THEN caps_lock_active ELSE Head(events).wasCaps

LEMMA ConsoleRests ==
  ASSUME UNCHANGED <<term, text, line, held, lost, SeenShift, SeenCaps>>
  PROVE  UNCHANGED C!consoleVars
BY DEF SeenShift, SeenCaps, C!consoleVars

(* With the shell's variables, and the events, unchanged. *)
LEMMA ConsoleIdles ==
  ASSUME UNCHANGED <<shellVars, events>>
  PROVE  UNCHANGED C!consoleVars
<1>1. UNCHANGED <<term, text, line, held, lost, shift_pressed, caps_lock_active, events>>
  BY DEF shellVars
<1>2. UNCHANGED <<SeenShift, SeenCaps>>
  BY <1>1 DEF SeenShift, SeenCaps
<1> QED
  BY <1>1, <1>2, ConsoleRests

LEMMA ReadingIsUnseen ==
  ASSUME MachineInv, IInv, read_keyboard
  PROVE  UNCHANGED C!consoleVars
<1>1. /\ events = << >> /\ \E e : NewEvent(e)
      /\ UNCHANGED <<term, text, line, held, lost>>
  BY Reading
<1>2. PICK e : NewEvent(e)
  BY <1>1
<1>3. events' # << >> /\ Head(events') = e
  BY <1>2 DEF NewEvent
<1>4. UNCHANGED <<SeenShift, SeenCaps>>
  BY <1>1, <1>2, <1>3 DEF SeenShift, SeenCaps, NewEvent
<1> QED
  BY <1>1, <1>4, ConsoleRests

(* The shell's step is the step of the console for the event's scancode.   *)
LEMMA HandlingIsCallback ==
  ASSUME MachineInv, IInv, shell_handle_key
  PROVE  /\ C!keyboard_callback(Head(events).scancode) /\ Seen(Head(events).scancode)
         /\ ~ lost /\ Head(events).scancode \in Bytes
<1> DEFINE e == Head(events)
<1>1. /\ ~ lost /\ Last(events) = e /\ events' = << >> /\ Decoded(e)
  BY EventInBody
<1>2. /\ C!shell_handle_key(e.scancode, e.shift, caps_lock_active) /\ Seen(e.scancode)
      /\ UNCHANGED <<shift_pressed, caps_lock_active>>
  BY <1>1 DEF shell_handle_key
<1>3. events # << >>
  BY DEF shell_handle_key
<1>4. SeenShift = e.wasShift /\ SeenCaps = e.wasCaps
  BY <1>3 DEF SeenShift, SeenCaps
<1>5. SeenShift' = shift_pressed /\ SeenCaps' = caps_lock_active
  BY <1>1, <1>2 DEF SeenShift, SeenCaps
<1>6. /\ SeenShift' = C!ShiftAfter(SeenShift, e.scancode)
      /\ SeenCaps' = C!CapsAfter(SeenCaps, e.scancode)
      /\ C!shell_handle_key(e.scancode, SeenShift', SeenCaps')
  BY <1>1, <1>2, <1>4, <1>5 DEF Decoded
<1>7. C!keyboard_callback(e.scancode)
  BY <1>6 DEF C!keyboard_callback, SeenShift, SeenCaps
<1> QED
  BY <1>1, <1>2, <1>7 DEF Decoded

LEMMA HandlingIsTyping ==
  ASSUME MachineInv, IInv, shell_handle_key
  PROVE  C!Typing
<1> DEFINE c == Head(events).scancode
<1>1. C!keyboard_callback(c) /\ Seen(c) /\ ~ lost /\ c \in Bytes
  BY HandlingIsCallback
<1> HIDE DEF c
<1>2. CASE c \in Keys
  <2>1. c < KBD_SCANCODE_RELEASE
    BY <1>2, MachineAssumption DEF KBD_SCANCODE_RELEASE
  <2>2. held' = held \cup ({c} \cap C!ShiftKeys)
    BY <1>1, <2>1 DEF Seen
  <2>3. C!Press(c)
    BY <1>1, <2>2 DEF C!Press
  <2> QED
    BY <1>2, <2>3 DEF C!Typing, AllKeys
<1>3. ASSUME NEW k \in AllKeys, c = k + KBD_SCANCODE_RELEASE
      PROVE  C!Typing
  <2>1. k \in 1 .. 127
    BY MachineAssumption DEF AllKeys, ACK, KBD_SCANCODE_RELEASE
  <2>2. held' = held \ {k}
    BY <1>1, <1>3, <2>1 DEF Seen, KBD_SCANCODE_RELEASE
  <2>3. C!keyboard_callback(k + C!KBD_SCANCODE_RELEASE)
    BY <1>1, <1>3 DEF KBD_SCANCODE_RELEASE, C!KBD_SCANCODE_RELEASE
  <2>4. C!LetGo(k)
    BY <1>1, <2>2, <2>3 DEF C!LetGo
  <2> QED
    BY <2>4 DEF C!Typing
<1>4. c \in Keys \/ \E k \in AllKeys : c = k + KBD_SCANCODE_RELEASE
  <2>1. CASE c = ACK
    <3>1. ACK - KBD_SCANCODE_RELEASE \in AllKeys /\ c = (ACK - KBD_SCANCODE_RELEASE) + KBD_SCANCODE_RELEASE
      BY <2>1 DEF AllKeys, ACK, KBD_SCANCODE_RELEASE
    <3> QED
      BY <3>1
  <2> QED
    BY <1>1, <2>1 DEF Bytes, KeyBytes, AllKeys
<1> QED
  BY <1>2, <1>3, <1>4

LEMMA NextIsTyping ==
  ASSUME MachineInv, IInv, [MachineNext]_machineVars
  PROVE  [C!Typing]_(C!consoleVars)
<1>1. CASE UNCHANGED machineVars
  BY <1>1, ConsoleIdles DEF machineVars
<1>2. ASSUME ShellIdle PROVE UNCHANGED C!consoleVars
  BY <1>2, ConsoleIdles DEF ShellIdle
<1>3. CASE Booting \/ Faulting \/ Hardware \/ Serving \/ ReturnOnly
  BY <1>2, <1>3 DEF Booting, Faulting, Hardware, Serving, ReturnOnly
<1>4. CASE \E i \in IRQs : Interrupted(i)
  BY <1>2, <1>4 DEF Interrupted
<1>5. CASE (\E k \in KeyBytes : SendKey(k)) \/ SendAck
  BY <1>5, ConsoleIdles DEF SendKey, SendAck
<1>6. CASE read_keyboard
  BY <1>6, ReadingIsUnseen
<1>7. CASE shell_handle_key
  BY <1>7, HandlingIsTyping
<1> QED
  BY <1>1, <1>3, <1>4, <1>5, <1>6, <1>7 DEF MachineNext, MachineHandler

(* Whatever comes between read_keyboard and shell_handle_key, a key looks  *)
(* to the screen and the line buffer like one step of the console.         *)
THEOREM KeyIsOneStep == MachineSpec => KeysAreAtomic
<1>1. MachineInit => C!Init
  BY DEF MachineInit
<1>2. MachineInv /\ IInv /\ [MachineNext]_machineVars => [C!Typing]_(C!consoleVars)
  BY NextIsTyping
<1>3. MachineSpec => []IInv
  BY MachineImplementsInterrupts, IInvHolds, PTL
<1> QED
  BY <1>1, <1>2, <1>3, MachineInvHolds, PTL DEF MachineSpec, KeysAreAtomic
=============================================================================
