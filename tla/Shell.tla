------------------------------- MODULE Shell -------------------------------
(***************************************************************************)
(* The file commands of the shell, src/kernel/shell.cpp, over the RAM file *)
(* system.  Each command runs to completion inside the keyboard interrupt  *)
(* (Interrupts.tla), so it is one action.  An argument is one word of the  *)
(* command line; NoArg stands for the NULL strtok returns when there is    *)
(* none.                                                                   *)
(*                                                                         *)
(* MaxNodes bounds the heap: once that many nodes exist, kmalloc fails for *)
(* the next one.  With MayFail it may fail earlier, at any of the calls.   *)
(* The two nodes made during the boot always fit.                          *)
(***************************************************************************)
EXTENDS RamFS

CONSTANTS
  Words,        \* the words a user types as arguments
  DotDot,       \* the word ".."
  RootName,     \* "/", no word the tests of the commands tell apart
  Readme,       \* "README"
  NoArg,
  FileSize,     \* the 256 bytes of a file made by touch
  MaxNodes,
  MayFail       \* whether kmalloc may fail before MaxNodes

ASSUME ShellAssumption ==
  /\ {DotDot, RootName, Readme} \cup Words \subseteq Names
  /\ NoArg \notin Names
  /\ Stored[Readme] = Readme /\ Stored[RootName] = RootName
  /\ FileSize \in Nat /\ MaxNodes \in Nat \ {0, 1} /\ MayFail \in BOOLEAN

VARIABLES
  current_dir,  \* the current directory, NULL before the first command
  created       \* the word the last command reported as created, or NoArg

shellVars == <<nodes, stray, current_dir, created>>

Args == Words \cup {DotDot, NoArg}

-----------------------------------------------------------------------------
(* Mutants: forms a slip in shell.cpp could give the definitions below.    *)

EnterAnything(t, c) == c # NULL

-----------------------------------------------------------------------------
(* if (!current_dir) current_dir = fs_get_root(); *)
Cwd == IF current_dir = NULL THEN Root ELSE current_dir

Init ==
  /\ nodes = Booted(RootName, Readme, 1)
  /\ stray = FALSE
  /\ current_dir = NULL
  /\ created = NoArg

(* The outcomes of a kmalloc. *)
Outcomes == IF MayFail THEN BOOLEAN ELSE {TRUE}
NodeOutcomes == IF Len(nodes) < MaxNodes THEN Outcomes ELSE {FALSE}

(* The first lines of every file command. *)
Running == ~ stray /\ current_dir' = Cwd

Usage(a) == a = NoArg /\ created' = NoArg /\ UNCHANGED <<nodes, stray>>

-----------------------------------------------------------------------------
(* ls and cat print, which leaves no trace here. *)
cmd_ls == Running /\ created' = NoArg /\ UNCHANGED <<nodes, stray>>

cmd_cat(a) == Running /\ created' = NoArg /\ UNCHANGED <<nodes, stray>>

(* touch: a node, a buffer, zeroes into the buffer, and only then the      *)
(* link.  memset does not look whether there is a buffer.                  *)
Touched(t, d, a, buffer) ==
  LET c == Len(t) + 1
      made == Create(t, a, FALSE, FALSE)
      filled == [made EXCEPT ![c].size = FileSize,
                             ![c].data = IF buffer
                                           THEN [i \in 1 .. FileSize |-> Zero]
                                           ELSE << >>]
  IN  AddChild(filled, d, c)

(* The memset of touch through a NULL buffer. *)
MemsetIsStray(buffer) == FileSize > 0 /\ ~ buffer

cmd_touch(a) ==
  /\ Running
  /\ \/ Usage(a)
     \/ /\ a # NoArg
        /\ \E ok \in NodeOutcomes, buffer \in Outcomes :
             IF ok
               THEN /\ nodes' = Touched(nodes, Cwd, a, buffer)
                    /\ stray' = (\/ MemsetIsStray(buffer)
                                 \/ AddIsStray(nodes, Cwd, Len(nodes) + 1))
                    /\ created' = a
               ELSE created' = NoArg /\ UNCHANGED <<nodes, stray>>

MadeDir(t, d, a, table) == AddChild(Create(t, a, TRUE, table), d, Len(t) + 1)

cmd_mkdir(a) ==
  /\ Running
  /\ \/ Usage(a)
     \/ /\ a # NoArg
        /\ \E ok \in NodeOutcomes, table \in Outcomes :
             IF ok
               THEN /\ nodes' = MadeDir(nodes, Cwd, a, table)
                    /\ stray' = AddIsStray(nodes, Cwd, Len(nodes) + 1)
                    /\ created' = a
               ELSE created' = NoArg /\ UNCHANGED <<nodes, stray>>

(* cd "..": the root, whose parent is NULL, is never left. *)
Up(t, d) == IF t[d].parent # NULL THEN t[d].parent ELSE d

Enterable(t, c) == IsDir(t, c)

cmd_cd(a) ==
  /\ ~ stray
  /\ \/ a = NoArg /\ current_dir' = Cwd
     \/ /\ a = DotDot
        /\ current_dir' = Up(nodes, Cwd)
     \/ /\ a \notin {NoArg, DotDot}
        /\ LET target == FindChild(nodes, Cwd, a)
           IN  current_dir' = IF Enterable(nodes, target) THEN target ELSE Cwd
  /\ created' = NoArg
  /\ UNCHANGED <<nodes, stray>>

(* rm and rmdir differ in the type they accept, and in what they print.    *)
RemoveEntry(a, wantDir) ==
  LET c == FindChild(nodes, Cwd, a)
  IN  /\ nodes' = IF c # NULL /\ nodes[c].isDir = wantDir
                    THEN RemoveChild(nodes, Cwd, c) ELSE nodes
      /\ created' = NoArg
      /\ UNCHANGED stray

cmd_rm(a) ==
  /\ Running
  /\ \/ Usage(a)
     \/ a # NoArg /\ RemoveEntry(a, FALSE)

cmd_rmdir(a) ==
  /\ Running
  /\ \/ Usage(a)
     \/ a # NoArg /\ RemoveEntry(a, TRUE)

Next ==
  \/ cmd_ls
  \/ \E a \in Args : \/ cmd_touch(a) \/ cmd_mkdir(a)
                     \/ cmd_cd(a) \/ cmd_cat(a)
                     \/ cmd_rm(a) \/ cmd_rmdir(a)

Spec == Init /\ [][Next]_shellVars

-----------------------------------------------------------------------------
(* Properties *)

(* The variables have the shape of the C structures; in particular no      *)
(* directory lists more than MAX_CHILDREN entries, the length of the array *)
(* fs_add_child writes to.                                                 *)
TypeOK ==
  /\ nodes \in Seq([name : Names, isDir : BOOLEAN, parent : 0 .. MaxNodes,
                    children : Seq(1 .. MaxNodes), table : BOOLEAN,
                    data : Seq(Bytes), size : Nat])
  /\ \A d \in DOMAIN nodes : Len(nodes[d].children) <= MAX_CHILDREN
  /\ stray \in BOOLEAN
  /\ current_dir \in {NULL} \cup DOMAIN nodes

(* The two representations of the tree agree in every node ever made, the  *)
(* removed ones included: no node is in two slots of the children arrays,  *)
(* and the parent pointer of a node in a slot is the directory of the      *)
(* slot, so that "cd .." (shell.cpp:42) leads back where "cd" came from.   *)
(* The shell is never left in a directory that was removed: whatever rm    *)
(* and rmdir take away, the current directory still hangs from the root.   *)
TreeConsistent ==
  /\ Cwd \in Tree(nodes) /\ nodes[Cwd].isDir
  /\ \A d \in DOMAIN nodes :
       /\ ~ nodes[d].isDir => nodes[d].children = << >>
       /\ IsInjective(nodes[d].children)
       /\ \A c \in ToSet(nodes[d].children) : nodes[c].parent = d /\ d < c

(* In every tree the commands can build, the closed form used by rm and    *)
(* rmdir computes what the loops of fs_remove_child compute, for each      *)
(* entry that could be removed (ramfs.cpp:53-78).                          *)
RemovalMatchesLoop ==
  \A d \in DOMAIN nodes : \A c \in ToSet(nodes[d].children) :
    RemoveChild(nodes, d, c) = RemoveLoop(nodes, d, c)

Abstract == INSTANCE TreeContract WITH
  Entries <- [name : Names, isDir : BOOLEAN],
  Fanout <- MAX_CHILDREN,
  entry <- [c \in Tree(nodes) |-> [name |-> nodes[c].name, isDir |-> nodes[c].isDir]],
  list <- [c \in Tree(nodes) |-> nodes[c].children],
  cwd <- Cwd

(* The commands implement the tree a user sees: an entry is only ever      *)
(* added last, and rm and rmdir take out exactly one entry of the current  *)
(* directory with everything below it, and keep the order of the others,   *)
(* although fs_remove_child walks an array it is shifting.                 *)
Contract == Abstract!Spec

(* After "File created" or "Directory created" (shell.cpp:86 and 100) the  *)
(* current directory has an entry with the first 63 characters of the      *)
(* name, or as many entries as it can hold: fs_add_child drops the node of *)
(* a full directory and the shell reports success all the same.            *)
CreatedUnlessFull ==
  created # NoArg =>
    \/ FindChild(nodes, Cwd, Stored[created]) # NULL
    \/ Len(nodes[Cwd].children) = MAX_CHILDREN
=============================================================================
