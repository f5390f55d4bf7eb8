------------------------------ MODULE MCShell ------------------------------
(***************************************************************************)
(* The shell over a file system of a few nodes.                            *)
(***************************************************************************)
EXTENDS Shell

(* A word of more than 63 characters, whose first 63 are the word "a". *)
MCNames == {"a", "a...", "..", "/", "README"}
MCStored == [n \in MCNames |-> IF n = "a..." THEN "a" ELSE n]
=============================================================================
