------------------------- MODULE AllocatorContract -------------------------
(***************************************************************************)
(* What a client of kmalloc/kfree/krealloc may rely on, with no mention of *)
(* headers, block lists or search order: outstanding regions lie inside    *)
(* the arena and never share an address.  Heap.tla is shown to implement   *)
(* this specification (property Contract of its runs, theorem              *)
(* HeapImplementsContract of HeapProofs).                                  *)
(***************************************************************************)
EXTENDS Integers

CONSTANTS
  Arena,    \* the addresses of the arena
  Sizes     \* the sizes a client may ask for

VARIABLE live   \* outstanding regions: pointer |-> requested size

(* The regions [p, p+n) and [q, q+m) have no address in common. *)
Disjoint(p, n, q, m) == p + n <= q \/ q + m <= p

(* [p, p+n) is inside the arena and avoids every region of the table f. *)
Placeable(f, p, n) ==
  /\ p .. (p + n - 1) \subseteq Arena
  /\ \A q \in DOMAIN f : Disjoint(p, n, q, f[q])

(* The table f without the region at p. *)
Without(f, p) == [q \in DOMAIN f \ {p} |-> f[q]]

(* The table f with the region [p, p+n). *)
With(f, p, n) == [q \in DOMAIN f \cup {p} |-> IF q = p THEN n ELSE f[q]]

Init == live = [q \in {} |-> 0]

(* A successful allocation takes any free place.  A failed one is a        *)
(* stuttering step.                                                        *)
Grant(p, n) ==
  /\ n # 0
  /\ p \notin DOMAIN live
  /\ Placeable(live, p, n)
  /\ live' = With(live, p, n)

Revoke(p) ==
  /\ p \in DOMAIN live
  /\ live' = Without(live, p)

(* A region is resized where it is, or moves to a place that was free.     *)
Resize(p, q, n) ==
  /\ p \in DOMAIN live
  /\ n # 0
  /\ q = p \/ (q \notin DOMAIN live /\ Placeable(live, q, n))
  /\ Placeable(Without(live, p), q, n)
  /\ live' = With(Without(live, p), q, n)

Next ==
  \/ \E p \in Arena, n \in Sizes : Grant(p, n)
  \/ \E p \in DOMAIN live : Revoke(p)
  \/ \E p \in DOMAIN live, q \in Arena, n \in Sizes : Resize(p, q, n)

Spec == Init /\ [][Next]_live
=============================================================================
