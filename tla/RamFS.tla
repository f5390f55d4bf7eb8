------------------------------- MODULE RamFS -------------------------------
(***************************************************************************)
(* The tree of the RAM file system, src/kernel/ramfs.cpp.                  *)
(*                                                                         *)
(* An FSNode is the index of its record in "nodes".  A node is never       *)
(* freed (nothing in the kernel gives one back to kfree), so a removed     *)
(* node keeps its record; it is in the tree only while the children array  *)
(* of its parent holds it.  The record has the fields of FSNode: "isDir"   *)
(* is type = FS_DIRECTORY, "children" the first child_count entries of the *)
(* array, "table" whether that array was allocated, "data" the bytes of    *)
(* the buffer (empty for NULL), "size" the field of that name.             *)
(*                                                                         *)
(* The operators take the table of nodes and return the new one; Shell.tla *)
(* and Syscalls.tla make actions of them.                                  *)
(***************************************************************************)
EXTENDS Integers, Sequences, SequencesExt

CONSTANTS
  Names,          \* the names a caller passes
  Stored,         \* name |-> its first 63 characters, what FSNode.name keeps
  MAX_CHILDREN

ASSUME RamFSAssumption ==
  /\ Stored \in [Names -> Names]
  /\ \A n \in Names : Stored[Stored[n]] = Stored[n]
  /\ MAX_CHILDREN \in Nat \ {0}

VARIABLES
  nodes,      \* the FSNodes kmalloc ever returned, in the order of creation
  stray       \* a write has gone through a NULL pointer

NULL == 0
Root == 1       \* the static variable root, set once by fs_init

Nodes(t) == DOMAIN t
IsDir(t, d) == d # NULL /\ t[d].isDir

Zero == 0       \* a byte memset or the caller put there
Junk == -1      \* a byte of a fresh allocation nobody has written
Bytes == -1 .. 255

-----------------------------------------------------------------------------
(* Mutants: forms a slip in ramfs.cpp could give the definitions below.     *)

FullOneLate(t, d) == Len(t[d].children) > MAX_CHILDREN

FullOneEarly(t, d) == Len(t[d].children) + 1 >= MAX_CHILDREN

LinkAtFront(t, d, c) == [t EXCEPT ![d].children = <<c>> \o @, ![c].parent = d]

RecursedAll(siblings, c) == TRUE

-----------------------------------------------------------------------------
(* fs_create_node: the name is cut to the field; a directory gets an array *)
(* of children if the second kmalloc succeeds.                             *)
Create(t, name, isDir, table) ==
  Append(t, [name |-> Stored[name], isDir |-> isDir, parent |-> NULL,
             children |-> << >>, table |-> isDir /\ table,
             data |-> << >>, size |-> 0])

(* fs_add_child: "directory is full" drops the child without telling the   *)
(* caller.                                                                 *)
Full(t, d) == Len(t[d].children) >= MAX_CHILDREN

Link(t, d, c) == [t EXCEPT ![d].children = Append(@, c), ![c].parent = d]

AddChild(t, d, c) ==
  IF ~ IsDir(t, d) \/ Full(t, d) THEN t ELSE Link(t, d, c)

(* fs_add_child indexes the array, and dereferences the child, without a   *)
(* test for NULL.                                                          *)
AddIsStray(t, d, c) ==
  IsDir(t, d) /\ ~ Full(t, d) /\ (~ t[d].table \/ c = NULL)

(* fs_find_child: the first child with exactly this name. *)
FindChild(t, d, name) ==
  IF ~ IsDir(t, d) THEN NULL
  ELSE LET kids == t[d].children
           match == {i \in DOMAIN kids : t[kids[i]].name = name}
       IN  IF match = {} THEN NULL
           ELSE kids[CHOOSE i \in match : \A j \in match : i <= j]

-----------------------------------------------------------------------------
(* fs_remove_child.  The loop over the children of the removed directory   *)
(* advances j while each removal shifts the array left, so the recursion   *)
(* visits the first, third, fifth ... child and leaves the others in       *)
(* place.  Below this closed form comes the loop itself.                   *)

(* Whether the recursive loop over the array "siblings" removes c. *)
Recursed(siblings, c) ==
  \E i \in DOMAIN siblings : siblings[i] = c /\ i % 2 = 1

(* Hit(t, child)[c]: fs_remove_child is called for c when child is         *)
(* removed.  A parent is created before its children, so it has the        *)
(* smaller index.                                                          *)
Hit(t, child) ==
  LET hit[c \in Nodes(t)] ==
        \/ c = child
        \/ /\ t[c].parent \in 1 .. (c - 1)
           /\ hit[t[c].parent]
           /\ Recursed(t[t[c].parent].children, c)
  IN  hit

(* The array without the removed children: the others shift to the left. *)
Remaining(siblings, gone) ==
  LET kept[i \in 0 .. Len(siblings)] ==
        IF i = 0 THEN << >>
        ELSE IF siblings[i] \in gone THEN kept[i - 1]
        ELSE Append(kept[i - 1], siblings[i])
  IN  kept[Len(siblings)]

RemoveChild(t, d, child) ==
  IF ~ IsDir(t, d) \/ ~ Contains(t[d].children, child) THEN t
  ELSE LET hit == Hit(t, child)
           gone == {c \in Nodes(t) : hit[c]}
       IN  [n \in Nodes(t) |-> [t[n] EXCEPT !.children = Remaining(@, gone)]]

-----------------------------------------------------------------------------
(* fs_remove_child as it is written, on the arrays of children.  "removed" *)
(* says what the recursive calls make of the arrays.                       *)

Arrays(t) == [Nodes(t) -> Seq(Nodes(t))]

(* The second loop: the entries behind the slot move to the left, and the  *)
(* count goes down.                                                        *)
Shifted(s, slot) ==
  [j \in 1 .. (Len(s) - 1) |-> IF j < slot THEN s[j] ELSE s[j + 1]]

FirstSlot(s, c) ==
  CHOOSE i \in DOMAIN s : s[i] = c /\ \A j \in 1 .. (i - 1) : s[j] # c

(* The first loop, over an array that each round may shorten. *)
RemoveAll(removed, arrays, child) ==
  LET after[j \in 0 .. Len(arrays[child])] ==
        IF j = 0 THEN arrays
        ELSE IF j > Len(after[j - 1][child]) THEN after[j - 1]
        ELSE removed[<<after[j - 1], child, after[j - 1][child][j]>>]
  IN  after[Len(arrays[child])]

RemoveOne(t, removed, arrays, d, child) ==
  IF ~ t[d].isDir \/ ~ Contains(arrays[d], child) THEN arrays
  ELSE LET below == IF t[child].isDir THEN RemoveAll(removed, arrays, child)
                    ELSE arrays
       IN  [below EXCEPT ![d] = Shifted(@, FirstSlot(arrays[d], child))]

(* What the loop makes of t.  No chain of directories is longer than the   *)
(* table, so the recursion is never as deep.                               *)
RemoveLoop(t, d, child) ==
  LET removed[depth \in 0 .. Len(t)] ==
        [call \in Arrays(t) \X Nodes(t) \X Nodes(t) |->
           IF depth = 0 THEN call[1]
           ELSE RemoveOne(t, removed[depth - 1], call[1], call[2], call[3])]
      arrays == removed[Len(t)][<<[n \in Nodes(t) |-> t[n].children], d, child>>]
  IN  [n \in Nodes(t) |-> [t[n] EXCEPT !.children = arrays[n]]]

-----------------------------------------------------------------------------
(* fs_init, and the README file kernel_main adds before it enables         *)
(* interrupts.  The heap is fresh: these allocations succeed.              *)

Booted(rootName, readme, bytes) ==
  LET withRoot == Create(<< >>, rootName, TRUE, TRUE)
      withReadme == Create(withRoot, readme, FALSE, FALSE)
      filled == [withReadme EXCEPT ![2].size = bytes,
                                   ![2].data = [i \in 1 .. bytes |-> Zero]]
  IN  AddChild(filled, Root, 2)

-----------------------------------------------------------------------------
(* The tree that hangs from the root, used to state properties. *)

(* InTree(t)[c]: there is a chain of children arrays from the root to c. *)
InTree(t) ==
  LET in[c \in Nodes(t)] ==
        \/ c = Root
        \/ /\ t[c].parent \in 1 .. (c - 1)
           /\ in[t[c].parent]
           /\ Contains(t[t[c].parent].children, c)
  IN  in

Tree(t) == LET in == InTree(t) IN {c \in Nodes(t) : in[c]}
=============================================================================
