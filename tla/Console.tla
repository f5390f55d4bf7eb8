------------------------------- MODULE Console -------------------------------
(***************************************************************************)
(* From the keyboard to the screen: read_keyboard and kb_to_ascii of       *)
(* src/kernel/keyboard.cpp, the line editor shell_handle_key and the       *)
(* dispatch shell_process_command of src/kernel/shell.cpp, over the        *)
(* terminal.  keyboard_callback takes one scancode through all of it in    *)
(* one interrupt, so a key event is one step.                              *)
(*                                                                         *)
(* The keyboard is the environment: it sends the scancode of a key that is *)
(* pressed (again and again while it is held), and of one that is let go,  *)
(* which may have gone down before the kernel listened.                    *)
(***************************************************************************)
EXTENDS Terminal

CONSTANTS
  Keys,               \* the scancodes of the keys that are used
  SHELL_BUFFER_SIZE,
  Prompt,             \* "nutshell> "
  CommandNames,       \* the names in the table "commands"
  Outputs,            \* what a command may print, complete lines
  NotFound,           \* what is printed for a word that is no command
  MaxText             \* bound of the model: keys are accepted up to this much text

KBD_SCANCODE_RELEASE == 128
KBD_SCANCODE_SHIFT_LEFT == 42
KBD_SCANCODE_SHIFT_RIGHT == 54
KBD_SCANCODE_CAPS_LOCK == 58
KBD_SCANCODE_BACKSPACE == 14
KBD_SCANCODE_ENTER == 28

CR == 13
DEL == 127

ASSUME ConsoleAssumption ==
  /\ Keys \subseteq 1 .. (KBD_SCANCODE_RELEASE - 1)
  /\ SHELL_BUFFER_SIZE \in Nat \ {0}
  /\ SHELL_BUFFER_SIZE - 1 <= LastRow * VGA_WIDTH    \* 255 and 24 * 80
  /\ {Prompt, NotFound} \cup Outputs \subseteq Seq(Characters)
  /\ MaxText \in Nat

VARIABLES
  shift_pressed, caps_lock_active,
  line,         \* shell_buffer[0 .. shell_index - 1]
  held,         \* history: the shift keys seen to go down and not up again
  lost          \* control has gone to address 0

consoleVars == <<term, text, shift_pressed, caps_lock_active, line, held, lost>>

ShiftKeys == {KBD_SCANCODE_SHIFT_LEFT, KBD_SCANCODE_SHIFT_RIGHT}

-----------------------------------------------------------------------------
(* Mutants: forms a slip in the code could give the definitions below.      *)

RoomUpToTheEnd(s) == Len(s) < SHELL_BUFFER_SIZE
ErasesPrompt(s) == TRUE
ShiftToggled(was, s) == IF s \in ShiftKeys THEN ~ was ELSE was

-----------------------------------------------------------------------------
(* keyboard.cpp *)

(* The ASCII code of each scancode from 0 on; 0 for no character.          *)
scancode_to_ascii ==
  << 0, 0, 49, 50, 51, 52, 53, 54, 55, 56, 57, 48, 45, 61, 0, 0,
     113, 119, 101, 114, 116, 121, 117, 105, 111, 112, 91, 93, 0, 0,
     97, 115, 100, 102, 103, 104, 106, 107, 108, 59, 39, 96, 0, 92,
     122, 120, 99, 118, 98, 110, 109, 44, 46, 47, 0, 42, 0, 32 >>

toupper(c) == IF c \in 97 .. 122 THEN c - 32 ELSE c

(* kb_to_ascii of an event.  The letters go up with shift or caps lock.    *)
kb_to_ascii(scancode, shift, caps) ==
  LET c == IF scancode < Len(scancode_to_ascii)
             THEN scancode_to_ascii[scancode + 1] ELSE 0
  IN  IF shift \/ caps THEN toupper(c) ELSE c

(* One flag for both shift keys. *)
ShiftAfter(was, scancode) ==
  IF scancode \in ShiftKeys THEN TRUE
  ELSE IF scancode - KBD_SCANCODE_RELEASE \in ShiftKeys THEN FALSE
  ELSE was

CapsAfter(was, scancode) == (scancode = KBD_SCANCODE_CAPS_LOCK) # was

-----------------------------------------------------------------------------
(* shell_process_command *)

(* The words strtok(line, " ") finds, as the places where they start. *)
Starts(s) == {i \in DOMAIN s : s[i] # SP /\ (i = 1 \/ s[i - 1] = SP)}

Word(s, i) ==
  LET end == {j \in i .. Len(s) : j = Len(s) \/ s[j + 1] = SP}
  IN  SubSeq(s, i, CHOOSE j \in end : \A k \in end : j <= k)

FirstWord(s) == Word(s, CHOOSE i \in Starts(s) : \A j \in Starts(s) : i <= j)

(* A line without a word has command = NULL.  strcmp finds it equal to the *)
(* name of the first unused entry of the table, NULL too, and calls the    *)
(* function of that entry, NULL again.                                     *)
CallsNull(s) == Starts(s) = {}

(* What the command of a line prints. *)
Printed(s) == IF FirstWord(s) \in CommandNames THEN Outputs ELSE {NotFound}

-----------------------------------------------------------------------------
(* shell_handle_key *)

Quiet == UNCHANGED <<term, text, line, lost>>

(* "We assume backspace is sent as ASCII 0x08 or DEL (127)": the scancode  *)
(* is compared with the character.                                         *)
IsBackspace(scancode) == scancode \in {BS, DEL, KBD_SCANCODE_BACKSPACE}

IsEnter(scancode) == scancode \in {LF, CR, KBD_SCANCODE_ENTER}

CanErase(s) == s # << >>

Backspace ==
  IF CanErase(line)
    THEN /\ line' = SubSeq(line, 1, Len(line) - 1)
         /\ Erased
         /\ UNCHANGED lost
    ELSE Quiet

Enter ==
  IF CallsNull(line)
    THEN lost' = TRUE /\ Shown(<<LF>>) /\ UNCHANGED line
    ELSE /\ line' = << >>
         /\ UNCHANGED lost
         /\ \E out \in Printed(line) : Shown(<<LF>> \o out \o Prompt)

(* The last byte of shell_buffer is kept for the terminating NUL. *)
HasRoom(s) == Len(s) < SHELL_BUFFER_SIZE - 1

Character(c) ==
  IF c # 0 /\ HasRoom(line)
    THEN line' = Append(line, c) /\ Shown(<<c>>) /\ UNCHANGED lost
    ELSE Quiet

shell_handle_key(scancode, shift, caps) ==
  IF IsBackspace(scancode) THEN Backspace
  ELSE IF IsEnter(scancode) THEN Enter
  ELSE Character(kb_to_ascii(scancode, shift, caps))

(* keyboard_callback: read_keyboard, then the shell. *)
keyboard_callback(scancode) ==
  /\ shift_pressed' = ShiftAfter(shift_pressed, scancode)
  /\ caps_lock_active' = CapsAfter(caps_lock_active, scancode)
  /\ shell_handle_key(scancode, shift_pressed', caps_lock_active')

-----------------------------------------------------------------------------
(* shell_init prints the prompt on a screen the boot messages have left at *)
(* the start of some row.                                                  *)
Init ==
  /\ \E rows \in 0 .. LastRow : text = [i \in 1 .. rows |-> LF] \o Prompt
  /\ term = writestring(Blank, text)
  /\ shift_pressed = FALSE /\ caps_lock_active = FALSE
  /\ line = << >>
  /\ held = {}
  /\ lost = FALSE

Press(k) ==
  /\ ~ lost
  /\ held' = held \cup ({k} \cap ShiftKeys)
  /\ keyboard_callback(k)

LetGo(k) ==
  /\ ~ lost
  /\ held' = held \ {k}
  /\ keyboard_callback(k + KBD_SCANCODE_RELEASE)

Typing == \E k \in Keys : Press(k) \/ LetGo(k)

Next == Len(text) <= MaxText /\ Typing

Spec == Init /\ [][Next]_consoleVars

-----------------------------------------------------------------------------
(* Properties *)

(* The variables have the shape of the C variables: the line and its NUL   *)
(* fit shell_buffer, and the terminal writes only to cells of the screen.  *)
TypeOK ==
  /\ term.row \in 0 .. LastRow /\ term.column \in 0 .. (VGA_WIDTH - 1)
  /\ DOMAIN term.buffer = Cells
  /\ shift_pressed \in BOOLEAN /\ caps_lock_active \in BOOLEAN
  /\ line \in Seq(1 .. 127) /\ Len(line) + 1 <= SHELL_BUFFER_SIZE
  /\ held \subseteq ShiftKeys
  /\ lost \in BOOLEAN

(* The line the user sees is the line the shell will run: the text ends    *)
(* with the prompt followed by exactly the buffer, so no sequence of keys  *)
(* erases the prompt or leaves a character on the screen that is not in    *)
(* the buffer (shell.cpp:186-231).                                         *)
LineIsWhatIsSeen == ~ lost => IsSuffix(Prompt \o line, text)

(* Capital letters are typed only while a shift key is down: the flag      *)
(* both keys share (keyboard.cpp:106-114) is never stuck after the last of *)
(* them is released.                                                       *)
ShiftIsHeld == shift_pressed => held # {}

-----------------------------------------------------------------------------
(* What the comments of the code say.  Each is checked by a run of its     *)
(* own, which refutes it.                                                  *)

(* "If the character is a printable character, we add it to the buffer."   *)
(* (shell.cpp:221): pressing a key that has a character, with room in the  *)
(* buffer, adds that character.                                            *)
PrintableIsAdded ==
  [][\A k \in Keys :
       LET c == kb_to_ascii(k, shift_pressed', caps_lock_active')
       IN  Press(k) /\ c # 0 /\ HasRoom(line) => line' = Append(line, c)]_consoleVars

(* "Find the command in the list and execute it." (shell.cpp:168): what    *)
(* is executed is an entry of the list, never the NULL behind the entries. *)
OnlyCommandsRun == ~ lost
=============================================================================
