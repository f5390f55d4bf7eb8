------------------------------ MODULE Strings ------------------------------
(***************************************************************************)
(* Functions of libc/string/string.cpp that work through memory a byte at  *)
(* a time: memmove and memcpy, strtok, which cuts the line it is given and *)
(* remembers where it stopped, and strrchr, strncpy and strcpy in          *)
(* split_path of src/kernel/ramfs.cpp.                                     *)
(*                                                                         *)
(* "work" is the call under way, a record of its own for each function.    *)
(***************************************************************************)
EXTENDS Integers, Sequences, FiniteSets, SequencesExt

CONSTANTS
  Cells,          \* the addresses of the memory that is copied, 0 .. Cells - 1
  Lines,          \* the lines given to strtok, of characters and Space
  Paths,          \* the paths given to split_path, of characters and Slash;
                  \* a longer one overruns the arrays
  PathSize,       \* the 128 bytes of parent_path
  NameSize        \* the 64 bytes of name

ASSUME StringsAssumption ==
  /\ Cells \in Nat /\ PathSize \in Nat /\ NameSize \in Nat
  /\ \A path \in Paths : Len(path) < NameSize /\ Len(path) < PathSize
  /\ \A s \in Lines \cup Paths : s \in Seq(STRING) /\ "NUL" \notin ToSet(s)

VARIABLE work

Space == " "
Slash == "/"
NUL == "NUL"
Unset == "unset"
Idle == [op |-> "none"]

Doing(op) == work.op = op

-----------------------------------------------------------------------------
(* Mutants: forms a slip in the code could give the definitions below.      *)

AlwaysForward(w) == TRUE
StaysOnNul(s, i) == i
KeepsBytes(parent, len) == parent

-----------------------------------------------------------------------------
(* memmove and memcpy: one round of the loop.  A cell holds its address to *)
(* begin with.                                                             *)

Move(op) ==
  /\ work = Idle
  /\ \E dst, src \in 0 .. (Cells - 1), size \in 0 .. Cells :
       /\ dst + size <= Cells /\ src + size <= Cells
       /\ work' = [op |-> op, dst |-> dst, src |-> src, size |-> size, left |-> size,
                   memory |-> [c \in 0 .. (Cells - 1) |-> c]]

memmove == Move("memmove")
memcpy == Move("memcpy")

(* memmove goes from the end unless the destination is the lower one. *)
Forward(w) == w.op = "memcpy" \/ w.dst < w.src

CopyByte ==
  /\ Doing("memmove") \/ Doing("memcpy")
  /\ work.left > 0
  /\ LET i == IF Forward(work) THEN work.size - work.left ELSE work.left - 1
     IN  work' = [work EXCEPT !.left = @ - 1,
                              !.memory[work.dst + i] = work.memory[work.src + i]]

-----------------------------------------------------------------------------
(* strtok with the delimiter " ".  Pointers are places in the string, 0 is *)
(* NULL.  Each round is a call: the first with the line, the others with   *)
(* NULL, as shell_process_command does.                                    *)

IsDelimiter(c) == c = Space

(* strtok skips to the first character from i on that is no delimiter, and *)
(* then to the delimiter or the NUL behind the token.                      *)
TokenStart(s, i) ==
  CHOOSE j \in i .. Len(s) :
    /\ ~ IsDelimiter(s[j])
    /\ \A k \in i .. (j - 1) : IsDelimiter(s[k])

TokenEnd(s, i) ==
  CHOOSE j \in i .. Len(s) :
    /\ IsDelimiter(s[j]) \/ s[j] = NUL
    /\ \A k \in i .. (j - 1) : ~ IsDelimiter(s[k]) /\ s[k] # NUL

Tokenize ==
  /\ work = Idle
  /\ \E line \in Lines :
       work' = [op |-> "strtok", line |-> line, string |-> Append(line, NUL),
                last |-> 1, tokens |-> << >>, calls |-> 0]

(* Behind the NUL that ends the token, except at the end of the string. *)
AfterToken(s, i) == IF s[i] = NUL THEN i ELSE i + 1

strtok ==
  /\ Doing("strtok") /\ work.calls < Len(work.line) + 1
  /\ LET s == work.string
         start == TokenStart(s, work.last)
         end == TokenEnd(s, start)
     IN  work' = [work EXCEPT
           !.calls = @ + 1,
           !.last = IF s[start] = NUL THEN start ELSE AfterToken(s, end),
           !.string = IF s[start] = NUL THEN s ELSE [s EXCEPT ![end] = NUL],
           !.tokens = Append(@, IF s[start] = NUL THEN 0 ELSE start)]

-----------------------------------------------------------------------------
(* split_path *)

(* The string in an array: the characters before the first NUL. *)
CString(bytes) ==
  LET ends == {i \in DOMAIN bytes : bytes[i] = NUL}
  IN  SubSeq(bytes, 1, CHOOSE i \in 0 .. Len(bytes) :
                         /\ i + 1 \in ends \/ (ends = {} /\ i = Len(bytes))
                         /\ \A j \in ends : i < j)

strrchr(s, c) ==
  LET places == {i \in DOMAIN s : s[i] = c}
  IN  IF places = {} THEN 0 ELSE Max(places)

(* strncpy copies n bytes or fills up with NUL; strcpy copies up to the    *)
(* NUL.  The rest of the array stays as it is.                             *)
strncpy(dest, src, n) ==
  [i \in DOMAIN dest |-> IF i > n THEN dest[i] ELSE IF i <= Len(src) THEN src[i] ELSE NUL]

strcpy(dest, src) == strncpy(dest, src, Len(src) + 1)

Terminated(parent, len) == [parent EXCEPT ![len + 1] = NUL]

Array(n) == [i \in 1 .. n |-> Unset]

split_path ==
  /\ work = Idle
  /\ \E path \in Paths :
       LET last_slash == strrchr(path, Slash)
           parent_len == last_slash - 1
       IN  work' =
             [op |-> "split", path |-> path,
              parent |-> IF last_slash = 0 THEN strcpy(Array(PathSize), << >>)
                         ELSE Terminated(strncpy(Array(PathSize), path, parent_len), parent_len),
              name |-> strcpy(Array(NameSize), SubSeq(path, last_slash + 1, Len(path)))]

Done ==
  /\ work # Idle
  /\ Doing("memmove") \/ Doing("memcpy") => work.left = 0
  /\ work' = Idle

StringsInit == work = Idle

StringsNext ==
  \/ memmove \/ memcpy \/ CopyByte
  \/ Tokenize \/ strtok
  \/ split_path
  \/ Done

-----------------------------------------------------------------------------
(* Properties *)

(* memmove is as if all bytes were copied at once, also when the regions   *)
(* overlap, and memcpy when the destination is not inside the source and   *)
(* above its start (string.cpp:63-78, 41-48).                              *)
CopiesAtOnce ==
  (Doing("memmove") \/ Doing("memcpy")) /\ work.left = 0
    /\ (Doing("memmove") \/ work.dst \notin (work.src + 1) .. (work.src + work.size - 1)) =>
       \A c \in 0 .. (Cells - 1) :
         work.memory[c] = IF c \in work.dst .. (work.dst + work.size - 1)
                            THEN work.src + (c - work.dst) ELSE c

(* The tokens are the words of the line, in their order, none of them left *)
(* out or cut short, and then NULL: neither the NULs strtok writes into    *)
(* the line nor the pointer it keeps between the calls ever show           *)
(* (string.cpp:131-171).                                                   *)
TokensAreWords ==
  Doing("strtok") =>
    LET line == work.line
        starts == {i \in DOMAIN line :
                     line[i] # Space /\ (i = 1 \/ line[i - 1] = Space)}
        upTo(i) == {j \in starts : j <= i}
        stringAt(s, i) == CString(SubSeq(s, i, Len(s)))
    IN  \A n \in 1 .. work.calls :
          LET token == work.tokens[n]
          IN  IF n > Cardinality(starts) THEN token = 0
              ELSE /\ token \in starts /\ Cardinality(upTo(token)) = n
                   /\ LET word == stringAt(work.string, token)
                          next == token + Len(word)
                      IN  /\ word = SubSeq(line, token, next - 1)
                          /\ Space \notin ToSet(word)
                          /\ next > Len(line) \/ line[next] = Space

(* split_path loses nothing: the parent and the name, read from their      *)
(* arrays, make up the path again, and the name has no slash in it         *)
(* (ramfs.cpp:254-269).                                                    *)
SplitRejoins ==
  Doing("split") =>
    LET parent == CString(work.parent)
        name == CString(work.name)
    IN  /\ Slash \notin ToSet(name)
        /\ work.path = IF Slash \in ToSet(work.path) THEN parent \o <<Slash>> \o name
                       ELSE name
=============================================================================
