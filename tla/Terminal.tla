------------------------------ MODULE Terminal ------------------------------
(***************************************************************************)
(* The text screen, src/kernel/vga.cpp: Terminal::putchar with the line    *)
(* wrap, the scroll and the backspace it calls, and writestring.  The      *)
(* object terminal is the record "term": row, column, the cells of the     *)
(* video buffer, and the position programmed into the hardware cursor.     *)
(* Colours are left out: every cell is written with the same one.          *)
(*                                                                         *)
(* "text" is a history variable: what has been printed so far and not been *)
(* erased.  So is the field "scrolls", which counts the calls of scroll.   *)
(***************************************************************************)
EXTENDS Integers, Sequences, SequencesExt

CONSTANTS VGA_WIDTH, VGA_HEIGHT

ASSUME TerminalAssumption ==
  VGA_WIDTH \in Nat \ {0} /\ VGA_HEIGHT \in Nat \ {0, 1}

VARIABLES term, text

(* Characters are ASCII codes.  A backspace takes one back. *)
BS == 8
LF == 10
SP == 32
Characters == (1 .. 255) \ {BS}

Cells == 0 .. (VGA_WIDTH * VGA_HEIGHT - 1)
LastRow == VGA_HEIGHT - 1

-----------------------------------------------------------------------------
(* Mutants: forms a slip in vga.cpp could give the definitions below.       *)

BackStaysOnRow(t) == [t EXCEPT !.column = IF @ > 0 THEN @ - 1 ELSE @]

-----------------------------------------------------------------------------
(* The screen after Terminal::initialize. *)
Blank ==
  [row |-> 0, column |-> 0, buffer |-> [i \in Cells |-> SP], cursor |-> 0,
   scrolls |-> 0]

putentry_at(t, c) == [t EXCEPT !.buffer[t.row * VGA_WIDTH + t.column] = c]

update_cursor(t) == [t EXCEPT !.cursor = t.row * VGA_WIDTH + t.column]

(* Every row moves up by one; the last one is filled with spaces. *)
scroll(t) ==
  [t EXCEPT !.buffer = [i \in Cells |->
              IF i < LastRow * VGA_WIDTH THEN @[i + VGA_WIDTH] ELSE SP]]

(* if (++row == VGA_HEIGHT) *)
new_line(t) ==
  update_cursor(IF t.row = LastRow
                  THEN [scroll(t) EXCEPT !.column = 0, !.scrolls = @ + 1]
                  ELSE [t EXCEPT !.column = 0, !.row = @ + 1])

(* The cursor steps back, over the left edge to the end of the row above.  *)
StepBack(t) ==
  IF t.column > 0 THEN [t EXCEPT !.column = @ - 1]
  ELSE IF t.row > 0 THEN [t EXCEPT !.row = @ - 1, !.column = VGA_WIDTH - 1]
  ELSE t

AtEdge(column) == column = VGA_WIDTH

putchar(t, c) ==
  IF c = BS THEN update_cursor(putentry_at(StepBack(t), SP))
  ELSE IF c = LF THEN new_line(t)
  ELSE LET put == [putentry_at(t, c) EXCEPT !.column = @ + 1]
       IN  update_cursor(IF AtEdge(put.column) THEN new_line(put) ELSE put)

writestring(t, s) ==
  LET shown[i \in 0 .. Len(s)] == IF i = 0 THEN t ELSE putchar(shown[i - 1], s[i])
  IN  shown[Len(s)]

-----------------------------------------------------------------------------
(* printf of the plain characters s, as a step. *)
Shown(s) ==
  /\ term' = writestring(term, s)
  /\ text' = text \o s

(* printf("\b \b"): the last character leaves the screen and the text.     *)
Erased ==
  /\ term' = writestring(term, <<BS, SP, BS>>)
  /\ text' = Front(text)

-----------------------------------------------------------------------------
(* The sheet of paper the screen is a window on: where each character of   *)
(* the text lands when lines have VGA_WIDTH characters and nothing scrolls *)
(* away.  Layout(s)[i] is the place behind the first i characters.         *)
Corner == [row |-> 0, column |-> 0]

PlaceAfter(p, c) ==
  IF c = LF \/ p.column = VGA_WIDTH - 1
    THEN [row |-> p.row + 1, column |-> 0]
    ELSE [row |-> p.row, column |-> p.column + 1]

Layout(s) ==
  LET place[i \in 0 .. Len(s)] ==
        IF i = 0 THEN Corner ELSE PlaceAfter(place[i - 1], s[i])
  IN  place

(* Where the cell i of the screen t is on that paper. *)
PlaceOf(t, i) == [row |-> t.scrolls + (i \div VGA_WIDTH), column |-> i % VGA_WIDTH]

(* The characters of s that were printed on the cell i. *)
PrintedAt(t, s, i) ==
  {k \in DOMAIN s : s[k] # LF /\ Layout(s)[k - 1] = PlaceOf(t, i)}

(* The screen is a window on that paper: every cell shows the character    *)
(* printed there, or a space, and the software and the hardware cursor     *)
(* stand behind the last character.  Wrapping, scrolling and erasing over  *)
(* the edge of a row (vga.cpp:41-84) never disagree about where a          *)
(* character is.                                                           *)
ScreenShowsText ==
  /\ Layout(text)[Len(text)] = [row |-> term.scrolls + term.row, column |-> term.column]
  /\ term.cursor = term.row * VGA_WIDTH + term.column
  /\ \A i \in Cells :
       term.buffer[i] = LET printed == PrintedAt(term, text, i)
                        IN  IF printed = {} THEN SP ELSE text[CHOOSE k \in printed : TRUE]
=============================================================================
