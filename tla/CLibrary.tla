------------------------------ MODULE CLibrary ------------------------------
(***************************************************************************)
(* The C library under the kernel: a call of printf or of a string         *)
(* function runs to its end before the next begins, because interrupts are *)
(* off or the interrupted code is the hlt loop (module Interrupts).        *)
(***************************************************************************)
EXTENDS Stdio, Strings

libraryVars == <<stdioVars, work>>

LibraryInit == StdioInit /\ StringsInit

LibraryNext ==
  \/ work = Idle /\ StdioNext /\ UNCHANGED work
  \/ at = "idle" /\ StringsNext /\ UNCHANGED stdioVars

LibrarySpec == LibraryInit /\ [][LibraryNext]_libraryVars
=============================================================================
