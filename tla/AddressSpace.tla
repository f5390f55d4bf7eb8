---------------------------- MODULE AddressSpace ----------------------------
(***************************************************************************)
(* What paging promises its clients: an address space, which gives each    *)
(* page a frame or none.  To map a page is a call that takes effect at one *)
(* instant between its beginning and its end, and on no other page; from   *)
(* then on every access to the page goes to the new frame.                 *)
(***************************************************************************)
CONSTANTS
  Pages,
  Entries,    \* what a page can be mapped to
  Absent,     \* the entry of a page without a frame
  Home,       \* where each page is at the beginning
  Kept        \* the pages that stay where they are when paging is switched on

VARIABLES
  space,      \* the entry an access to a page finds
  pending     \* the call under way: at most one pair of a page and an entry

vars == <<space, pending>>

Enable ==
  /\ pending = {}
  /\ space' = [v \in Pages |-> IF v \in Kept THEN space[v] ELSE Absent]
  /\ UNCHANGED pending

Begin ==
  /\ pending = {}
  /\ \E v \in Pages, e \in Entries : pending' = {<<v, e>>}
  /\ UNCHANGED space

Mapped == \E call \in pending : space' = [space EXCEPT ![call[1]] = call[2]]

Effect == Mapped /\ UNCHANGED pending
End == Mapped /\ pending' = {}

Next == Enable \/ Begin \/ Effect \/ End

Init == space = Home /\ pending = {}

Spec == Init /\ [][Next]_vars
=============================================================================
