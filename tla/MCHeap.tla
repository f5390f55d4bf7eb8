------------------------------- MODULE MCHeap -------------------------------
(***************************************************************************)
(* The heap with the header and alignment of the i686 build, in an arena   *)
(* of a few blocks.  The sizes make every path occur: a block that is      *)
(* split, one too small to split, no fit, a krealloc that keeps, moves and *)
(* fails, and merges with the next block.                                  *)
(***************************************************************************)
EXTENDS Heap

MCSizes == {0, 17, 40}
=============================================================================
