----------------------------- MODULE MCMachine -----------------------------
(***************************************************************************)
(* The machine with a screen of two rows of two cells.  Keys: a, enter and *)
(* a shift key; their releases, and the acknowledgement, are bytes too.    *)
(***************************************************************************)
EXTENDS Machine

MCKeys == {30, 28, 42}
MCPrompt == <<62>>
MCCommandNames == {<<97>>}
MCOutputs == {<< >>}
MCNotFound == <<63, 10>>
=============================================================================
