------------------------------ MODULE MCMemory ------------------------------
(***************************************************************************)
(* Pages of four bytes.  The kernel, with both page tables, is in frames 0 *)
(* to 3; the tables map pages 0 to 7 and the directory has room for one    *)
(* more table.  Pages 4 and 5 are the kernel's too: behind its image the   *)
(* bitmap, and, as the heap does, a page whose frame the manager may hand  *)
(* out.  The last frame of the larger memory is above the map.             *)
(***************************************************************************)
EXTENDS Memory

MCTableFrame == 0 :> 1 @@ 1 :> 2
MCKernelPages == 0 .. 5
MCFrames == 0 .. 8
=============================================================================
