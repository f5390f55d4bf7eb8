----------------------------- MODULE MCConsole -----------------------------
(***************************************************************************)
(* The console on a screen of three rows of three cells.  Keys: a, space,  *)
(* enter, backspace and both shift keys; 7 and 9 are used by the runs that *)
(* look at what those keys do.                                             *)
(***************************************************************************)
EXTENDS Console

EditKeys == {30, 57, 28, 14}
AllKeys == EditKeys \cup {42, 54, 58}
DigitKeys == {30, 3, 8, 28}

MCPrompt == <<62>>
MCCommandNames == {<<97>>, <<97, 97>>}
MCOutputs == {<< >>, <<120, 10>>}
MCNotFound == <<63, 10>>
=============================================================================
