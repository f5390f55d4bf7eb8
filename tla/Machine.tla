------------------------------ MODULE Machine ------------------------------
(***************************************************************************)
(* The kernel at work: the interrupts of module Interrupts carry the bytes *)
(* of the keyboard to the console of module Console.                       *)
(*                                                                         *)
(* keyboard_callback is two steps here.  read_keyboard takes the byte from *)
(* the port, updates the flags and leaves the event in a local variable;   *)
(* shell_handle_key works on that event.  Ticks, further bytes, and        *)
(* whatever the interrupt flag lets in come between the two.               *)
(***************************************************************************)
EXTENDS Interrupts

CONSTANTS
  VGA_WIDTH, VGA_HEIGHT, Keys, SHELL_BUFFER_SIZE, Prompt, CommandNames,
  Outputs, NotFound,
  MaxText       \* bound of the model: keys are sent up to this much text

VARIABLES
  term, text, shift_pressed, caps_lock_active, line, held, lost,   \* of Console
  data,         \* the byte in the output register, also after it was read
  events,       \* the local "event" of each keyboard_callback that is active
  owed,         \* history: the bytes sent and neither discarded nor handled
  ghosts        \* history: how many events were handled that nobody was owed

shellVars == <<term, text, shift_pressed, caps_lock_active, line, held, lost>>
machineVars == <<intVars, shellVars, data, events, owed, ghosts>>

KBD_SCANCODE_RELEASE == 128
ACK == 250

ASSUME MachineAssumption == Keys \subseteq 1 .. (KBD_SCANCODE_RELEASE - 1)

(* An acknowledgement that comes too late passes for the release of a key. *)
AllKeys == Keys \cup {ACK - KBD_SCANCODE_RELEASE}

(* The console as its own module has it, where a key is one step.  While   *)
(* an event is under way the flags are the ones it found.  Of the          *)
(* operators used below only Init looks at the flags, and no event is      *)
(* under way then.                                                         *)
C == INSTANCE Console WITH
       Keys <- AllKeys,
       shift_pressed <- IF events = << >> THEN shift_pressed ELSE Head(events).wasShift,
       caps_lock_active <- IF events = << >> THEN caps_lock_active ELSE Head(events).wasCaps

KeyBytes == Keys \cup {k + KBD_SCANCODE_RELEASE : k \in Keys}
Bytes == KeyBytes \cup {ACK}

-----------------------------------------------------------------------------
MachineInit ==
  /\ Init
  /\ data \in KeyBytes
  /\ events = << >> /\ ghosts = 0
  /\ shift_pressed = FALSE /\ caps_lock_active = FALSE
  /\ C!Init
  /\ owed = IF obf = None THEN << >> ELSE <<data>>

ShellIdle == UNCHANGED <<shellVars, data, events, ghosts>>

(* While it boots the kernel throws away what it reads. *)
Booting ==
  /\ KernelMain
  /\ owed' = IF obf' = None THEN << >> ELSE owed
  /\ ShellIdle

read_keyboard ==
  /\ keyboard_callback
  /\ IF Keyboard \in registered
       THEN /\ shift_pressed' = C!ShiftAfter(shift_pressed, data)
            /\ caps_lock_active' = C!CapsAfter(caps_lock_active, data)
            /\ events' = Append(events,
                 [scancode |-> data, shift |-> shift_pressed', fresh |-> obf # None,
                  wasShift |-> shift_pressed, wasCaps |-> caps_lock_active])
       ELSE UNCHANGED <<shift_pressed, caps_lock_active, events>>
  /\ UNCHANGED <<term, text, line, held, lost, data, owed, ghosts>>

(* The byte that is owed longest is settled by an event that read it. *)
Settled(e) ==
  IF e.fresh /\ owed # << >> /\ Head(owed) = e.scancode
    THEN owed' = Tail(owed) /\ UNCHANGED ghosts
    ELSE ghosts' = ghosts + 1 /\ UNCHANGED owed

Seen(scancode) ==
  held' = IF scancode < KBD_SCANCODE_RELEASE
            THEN held \cup ({scancode} \cap C!ShiftKeys)
            ELSE held \ {scancode - KBD_SCANCODE_RELEASE}

(* The shell handles the event, and the interrupt returns.  A jump to      *)
(* address 0 is where the model, like an exception, stops.                 *)
shell_handle_key ==
  /\ In("body") /\ Top.irq = Keyboard /\ events # << >>
  /\ LET e == Last(events)
     IN  /\ C!shell_handle_key(e.scancode, e.shift, caps_lock_active)
         /\ Seen(e.scancode)
         /\ Settled(e)
  /\ IF lost' THEN Exception ELSE Return
  /\ events' = Front(events)
  /\ UNCHANGED <<shift_pressed, caps_lock_active, data>>

ReturnOnly ==
  /\ Return /\ (Top.irq = Keyboard => events = << >>)
  /\ ShellIdle /\ UNCHANGED owed

Serving == (Stub \/ SendEoi \/ timer_handler) /\ ShellIdle /\ UNCHANGED owed

MachineHandler == Serving \/ read_keyboard \/ shell_handle_key \/ ReturnOnly

Interrupted(i) == Take(i) /\ ShellIdle /\ UNCHANGED owed

Faulting == Exception /\ ShellIdle /\ UNCHANGED owed

-----------------------------------------------------------------------------
(* The devices *)

SendKey(k) ==
  /\ Len(text) <= MaxText
  /\ SendByte(Key)
  /\ data' = k /\ owed' = Append(owed, k)
  /\ UNCHANGED <<shellVars, events, ghosts>>

SendAck ==
  /\ SendByte(Ack)
  /\ data' = ACK /\ owed' = Append(owed, ACK)
  /\ UNCHANGED <<shellVars, events, ghosts>>

Hardware == (TakeCommand \/ Tick) /\ ShellIdle /\ UNCHANGED owed

MachineNext ==
  \/ Booting \/ MachineHandler \/ Faulting
  \/ \E i \in IRQs : Interrupted(i)
  \/ \E k \in KeyBytes : SendKey(k)
  \/ SendAck \/ Hardware

MachineSpec == MachineInit /\ [][MachineNext]_machineVars

FairMachine == MachineSpec /\ Fairness

-----------------------------------------------------------------------------
(* Properties *)

(* No byte the keyboard sends is lost, handled twice or handled out of     *)
(* order, whatever comes between read_keyboard and shell_handle_key: what  *)
(* is owed is what active handlers have read and what is in the register.  *)
(* One event in the life of the system may repeat a byte: a request from   *)
(* before "flush" or "poll" emptied the register is served all the same    *)
(* (keyboard.cpp:102).                                                     *)
KeysInOrder ==
  LET fresh == {i \in DOMAIN events : events[i].fresh}
      Rank(i) == Cardinality({j \in fresh : j <= i})
      register == IF obf = None THEN 0 ELSE 1
  IN  /\ Len(owed) = Cardinality(fresh) + register
      /\ \A i \in fresh : owed[Rank(i)] = events[i].scancode
      /\ obf # None => Last(owed) = data
      /\ ghosts + Cardinality(DOMAIN events \ fresh) <= 1

(* A key is handled as if it were one step: seen from the screen and the   *)
(* line buffer, the interrupts do what Console says, so what is shown of   *)
(* Console holds in the machine (keyboard.cpp:127-131).                    *)
KeysAreAtomic == C!Init /\ [][C!Typing]_(C!consoleVars)

(* The boot sequence ends, unless keys come without end while the loop of  *)
(* keyboard_flush discards them (keyboard.cpp:133-183); it does not need   *)
(* an answer of the keyboard.                                              *)
BootCompletes == (<>Running) \/ []<>(obf # None)

(* Every byte the keyboard sends to the running system is read, unless an  *)
(* exception stops the machine.                                            *)
BytesAreRead == (Running /\ obf # None) ~> (obf = None \/ halted)

(* Time goes on: if the timer was found unmasked (init_timer does not      *)
(* unmask it), the counter that uptime reads takes every value again.      *)
TimeGoesOn ==
  \A t \in 0 .. (TickMod - 1) :
    (Running /\ Timer \notin imr) ~> (halted \/ timer_ticks = t)
=============================================================================
