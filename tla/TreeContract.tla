---------------------------- MODULE TreeContract ----------------------------
(***************************************************************************)
(* What a user of the shell may rely on, with no mention of nodes that     *)
(* were removed, parent pointers or arrays that shift: a tree of entries   *)
(* in which every directory lists its entries in the order of creation,    *)
(* and a current directory that is always in the tree.  Shell.tla is shown *)
(* to implement this specification (property Contract of its runs).        *)
(***************************************************************************)
EXTENDS Integers, Sequences, SequencesExt

CONSTANTS
  Root,
  Entries,    \* what an entry can be: records with a name and isDir
  Fanout      \* the number of entries a directory can list

VARIABLES
  entry,      \* the entries of the tree: identity |-> [name, isDir]
  list,       \* directory or file of the tree |-> the entries below it
  cwd         \* the current directory

vars == <<entry, list, cwd>>

Init ==
  /\ cwd = Root
  /\ Root \in DOMAIN entry /\ entry[Root].isDir
  /\ \A c \in DOMAIN entry \ {Root} : Contains(list[Root], c) /\ list[c] = << >>
  /\ DOMAIN list = DOMAIN entry
  /\ IsInjective(list[Root])

(* cwd gets one more entry, with an identity of its own, behind the others. *)
Add(c) ==
  /\ Len(list[cwd]) < Fanout
  /\ DOMAIN entry' = DOMAIN entry \cup {c}
  /\ entry'[c] \in Entries
  /\ entry = Restrict(entry', DOMAIN entry)
  /\ list' = [d \in DOMAIN list \cup {c} |->
                IF d = c THEN << >>
                ELSE IF d = cwd THEN Append(list[d], c) ELSE list[d]]
  /\ UNCHANGED cwd

(* "gone" is c and everything below it: it is closed downwards, and each   *)
(* of its other members is below a member.                                 *)
Subtree(below, c, gone) ==
  /\ c \in gone
  /\ gone = {c} \cup UNION {ToSet(below[d]) : d \in gone}

RemoveEntry(i) ==
  LET gone == DOMAIN entry \ DOMAIN entry'
  IN  /\ Subtree(list, list[cwd][i], gone)
      /\ entry' = Restrict(entry, DOMAIN entry \ gone)
      /\ list' = Restrict([list EXCEPT ![cwd] = RemoveAt(@, i)],
                          DOMAIN list \ gone)
      /\ UNCHANGED cwd

Descend(c) ==
  /\ cwd' = c
  /\ entry[c].isDir
  /\ UNCHANGED <<entry, list>>

Ascend(d) ==
  /\ cwd' = d
  /\ Contains(list[d], cwd)
  /\ UNCHANGED <<entry, list>>

Next ==
  \/ \E c \in DOMAIN entry' \ DOMAIN entry : Add(c)
  \/ \E i \in DOMAIN list[cwd] : RemoveEntry(i)
  \/ \E c \in ToSet(list[cwd]) : Descend(c)
  \/ \E d \in DOMAIN entry : Ascend(d)

Spec == Init /\ [][Next]_vars
=============================================================================
