------------------------------ MODULE Syscalls ------------------------------
(***************************************************************************)
(* The file interface of the kernel: sys_open, sys_read, sys_write and     *)
(* sys_close of src/kernel/syscalls.cpp over the descriptors and the       *)
(* contents in src/kernel/ramfs.cpp (fs_open, fs_read, fs_write, fs_close, *)
(* fs_find_by_path, fs_mkdir, fs_touch), together with the commands of the *)
(* shell, which change the same tree between two calls.                    *)
(*                                                                         *)
(* A path is a sequence of names and slashes, no two names in a row.  A    *)
(* call runs with interrupts off or in an interrupt, so it is one step.    *)
(*                                                                         *)
(* "contents" is a history variable: for every node the bytes its writers  *)
(* put there, which is what a reader expects.                              *)
(***************************************************************************)
EXTENDS Shell

CONSTANTS
  MAX_OPEN_FILES,
  EmptyName,      \* the empty string, the name behind a slash at the end
  Paths,          \* the paths that are used
  Buffers,        \* the byte sequences that are written
  ReadSizes,      \* the sizes that are read
  Capacity        \* the 1024 bytes fs_touch allocates

ASSUME SyscallsAssumption ==
  /\ MAX_OPEN_FILES \in Nat \ {0}
  /\ EmptyName \in Names /\ Paths \subseteq Seq(Names)
  /\ Buffers \subseteq Seq(0 .. 255) /\ ReadSizes \subseteq Nat
  /\ Capacity \in Nat

VARIABLES
  fd_table,   \* descriptor |-> [node, offset, used]
  contents    \* history: node |-> the bytes a reader expects

sysVars == <<nodes, stray, current_dir, created, fd_table, contents>>

Slash == RootName
Descriptors == 0 .. (MAX_OPEN_FILES - 1)
Error == -1

-----------------------------------------------------------------------------
(* Mutants: forms a slip in the code could give the definitions below.      *)

ReadEndOfBuffer(f, end) == IF end > Len(f.data) THEN Len(f.data) ELSE end
GrownOneShort(data, n) ==
  data \o [i \in 1 .. (IF n <= Len(data) THEN 0 ELSE n - Len(data) - 1) |-> Junk]
SlotUnchecked(table, fd) == table[fd].offset = 0

-----------------------------------------------------------------------------
(* Paths *)

(* Where a walk along the path from the node "from" is after each token.   *)
(* A name is looked up when the slash behind it is reached.                *)
Walk(t, from, path) ==
  LET at[i \in 0 .. Len(path)] ==
        IF i = 0 THEN from
        ELSE IF i > 1 /\ path[i] = Slash /\ path[i - 1] # Slash
          THEN FindChild(t, at[i - 1], path[i - 1])
          ELSE at[i - 1]
  IN  at[Len(path)]

(* fs_find_by_path(path): the loop ends at the NUL without looking up a    *)
(* name that no slash follows.                                             *)
FindByPath(t, path) ==
  IF path = << >> \/ path[1] # Slash THEN NULL ELSE Walk(t, Root, path)

(* fs_find_by_path(path, current) looks up the last name too. *)
FindByPathFrom(t, path, current) ==
  LET dir == Walk(t, IF path # << >> /\ path[1] = Slash THEN Root ELSE current, path)
  IN  IF path = << >> \/ Last(path) = Slash THEN dir
      ELSE FindChild(t, dir, Last(path))

(* split_path: what is before the last slash, and the name behind it. *)
LastSlash(path) == SelectLastInSeq(path, LAMBDA x : x = Slash)
ParentPath(path) == SubSeq(path, 1, LastSlash(path) - 1)
NewName(path) == IF path = << >> \/ Last(path) = Slash THEN EmptyName ELSE Last(path)

-----------------------------------------------------------------------------
(* Descriptors *)

Free(table, fd) == ~ table[fd].used

(* fs_open: the lowest descriptor that is not in use. *)
LowestFree(table) ==
  {fd \in Descriptors : Free(table, fd) /\ \A e \in 0 .. (fd - 1) : ~ Free(table, e)}

(* The test sys_read, sys_write and fs_close begin with. *)
IsOpen(fd) == fd \in Descriptors /\ ~ Free(fd_table, fd)

(* fs_read: nothing but Error for a directory or an offset behind the end; *)
(* at most the bytes up to the end otherwise.                              *)
ReadEnd(f, end) == IF end > f.size THEN f.size ELSE end

Read(f, offset, n) ==
  IF f.isDir \/ offset > f.size THEN Error
  ELSE SubSeq(f.data, offset + 1, ReadEnd(f, offset + n))

sys_read(fd, n) ==
  IF IsOpen(fd) THEN Read(nodes[fd_table[fd].node], fd_table[fd].offset, n) ELSE Error

(* krealloc of a buffer to n bytes: the bytes it had are kept. *)
Grown(data, n) ==
  data \o [i \in 1 .. (IF n <= Len(data) THEN 0 ELSE n - Len(data)) |-> Junk]

(* memcpy(data + offset, bytes). *)
Overlay(data, offset, bytes) ==
  [i \in DOMAIN data |-> IF i - offset \in DOMAIN bytes THEN bytes[i - offset] ELSE data[i]]

(* fs_write of a file: the buffer grows, and the size with it, when the    *)
(* bytes go beyond the end.  If krealloc fails nothing changes, which is a *)
(* stuttering step.                                                        *)
Written(f, offset, bytes) ==
  LET end == offset + Len(bytes)
      room == IF end > f.size THEN [f EXCEPT !.data = Grown(@, end), !.size = end] ELSE f
  IN  [room EXCEPT !.data = Overlay(@, offset, bytes)]

-----------------------------------------------------------------------------
(* What readers expect of a file after bytes were written at its start,    *)
(* and of the nodes a call has added.                                      *)
Expected(old, bytes) == bytes \o SubSeq(old, Len(bytes) + 1, Len(old))

ExpectedOfNew(t) ==
  [c \in DOMAIN t |-> IF c \in DOMAIN contents THEN contents[c]
                      ELSE [i \in 1 .. t[c].size |-> Zero]]

Closed == [node |-> NULL, offset |-> 0, used |-> FALSE]

SysInit ==
  /\ Init
  /\ fd_table = [fd \in Descriptors |-> Closed]
  /\ contents = [c \in DOMAIN nodes |-> [i \in 1 .. nodes[c].size |-> Zero]]

ShellStep ==
  /\ Next
  /\ contents' = ExpectedOfNew(nodes')
  /\ UNCHANGED fd_table

sys_open(path) ==
  /\ ~ stray
  /\ LET node == FindByPath(nodes, path)
     IN  /\ node # NULL
         /\ \E fd \in LowestFree(fd_table) :
              fd_table' = [fd_table EXCEPT ![fd] = [node |-> node, offset |-> 0, used |-> TRUE]]
  /\ UNCHANGED <<nodes, stray, current_dir, created, contents>>

sys_write(fd, bytes) ==
  /\ ~ stray
  /\ IsOpen(fd)
  /\ LET node == fd_table[fd].node
         offset == fd_table[fd].offset
     IN  /\ ~ nodes[node].isDir
         /\ nodes' = [nodes EXCEPT ![node] = Written(@, offset, bytes)]
         /\ contents' = [contents EXCEPT ![node] = Expected(@, bytes)]
  /\ UNCHANGED <<stray, current_dir, created, fd_table>>

(* The node of a closed descriptor stays in the table. *)
sys_close(fd) ==
  /\ ~ stray
  /\ IsOpen(fd)
  /\ fd_table' = [fd_table EXCEPT ![fd].used = FALSE]
  /\ UNCHANGED <<nodes, stray, current_dir, created, contents>>

(* fs_mkdir and fs_touch: the new node is made before anybody looks        *)
(* whether there is one, and fs_touch writes to it at once.                *)
fs_mkdir(path) ==
  LET parent == FindByPath(nodes, ParentPath(path))
  IN  /\ ~ stray
      /\ IsDir(nodes, parent)
      /\ \E ok \in NodeOutcomes, table \in Outcomes :
           IF ok
             THEN /\ nodes' = MadeDir(nodes, parent, NewName(path), table)
                  /\ stray' = AddIsStray(nodes, parent, Len(nodes) + 1)
             ELSE /\ stray' = AddIsStray(nodes, parent, NULL)
                  /\ UNCHANGED nodes
      /\ contents' = ExpectedOfNew(nodes')
      /\ UNCHANGED <<current_dir, created, fd_table>>

fs_touch(path) ==
  LET parent == FindByPath(nodes, ParentPath(path))
      c == Len(nodes) + 1
  IN  /\ ~ stray
      /\ IsDir(nodes, parent)
      /\ \E ok \in NodeOutcomes, buffer \in Outcomes :
           IF ok
             THEN /\ nodes' = AddChild([Create(nodes, NewName(path), FALSE, FALSE) EXCEPT
                                         ![c].data = IF buffer
                                                       THEN [i \in 1 .. Capacity |-> Junk]
                                                       ELSE << >>],
                                       parent, c)
                  /\ stray' = AddIsStray(nodes, parent, c)
             ELSE stray' = TRUE /\ UNCHANGED nodes
      /\ contents' = ExpectedOfNew(nodes')
      /\ UNCHANGED <<current_dir, created, fd_table>>

SysNext ==
  \/ ShellStep
  \/ \E path \in Paths : sys_open(path) \/ fs_mkdir(path) \/ fs_touch(path)
  \/ \E fd \in Descriptors : \/ sys_close(fd)
                            \/ \E bytes \in Buffers : sys_write(fd, bytes)

SysSpec == SysInit /\ [][SysNext]_sysVars

-----------------------------------------------------------------------------
(* Properties *)

(* The descriptor table has the shape of the C array, and the size of a    *)
(* file, in the tree or not, is covered by its buffer, so that the memcpy  *)
(* of fs_read and fs_write stays inside (ramfs.cpp:128 and 153).           *)
SysTypeOK ==
  /\ fd_table \in [Descriptors ->
                    [node : {NULL} \cup DOMAIN nodes, offset : {0}, used : BOOLEAN]]
  /\ DOMAIN contents = DOMAIN nodes
  /\ ~ stray => \A f \in DOMAIN nodes : nodes[f].size <= Len(nodes[f].data)

(* An open descriptor names the node it was opened for until it is closed, *)
(* whatever is opened, closed, written or removed meanwhile: sys_open      *)
(* never hands out a descriptor somebody holds (ramfs.cpp:157-178).        *)
BoundUntilClosed ==
  [][\A fd \in Descriptors :
       fd_table[fd].used /\ fd_table'[fd].used => fd_table'[fd] = fd_table[fd]]_sysVars

(* Reading an open file gives the bytes that were written, as far as the   *)
(* file goes and never an uninitialised one, after any sequence of writes  *)
(* that overwrite, grow within the buffer or move it (ramfs.cpp:140-153),  *)
(* also for a file that rm has taken out of the tree.                      *)
ReadsWhatWasWritten ==
  ~ stray =>
    \A fd \in Descriptors, n \in ReadSizes :
      LET f == fd_table[fd].node
          expected == contents[f]
      IN  fd_table[fd].used /\ ~ nodes[f].isDir =>
            sys_read(fd, n) = SubSeq(expected, 1, IF n < Len(expected) THEN n ELSE Len(expected))

-----------------------------------------------------------------------------
(* What a comment of the code says, refuted by a run of its own.           *)

(* "Path not found" (ramfs.cpp:198): a path one of whose names is not in   *)
(* the tree has no node.  The other overload of fs_find_by_path says which *)
(* paths those are.                                                        *)
MissingIsNotFound ==
  \A path \in Paths :
    path # << >> /\ path[1] = Slash /\ FindByPathFrom(nodes, path, Root) = NULL
      => FindByPath(nodes, path) = NULL
=============================================================================
