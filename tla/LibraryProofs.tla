--------------------------- MODULE LibraryProofs ---------------------------
(***************************************************************************)
(* Proofs about the C library of module CLibrary: the copies, strtok and   *)
(* split_path of module Strings, for memory of any size and any lines and  *)
(* paths; printf and itoa of module Stdio, for words of any width and any  *)
(* formats with arguments that fit them.                                   *)
(***************************************************************************)
EXTENDS CLibrary, DataInduction, FiniteSetTheorems, SequenceTheorems

-----------------------------------------------------------------------------
(* memmove and memcpy *)

CellsOf == 0 .. (Cells - 1)

Copy ==
  [op : {"memmove", "memcpy"}, dst : CellsOf, src : CellsOf, size : 0 .. Cells,
   left : 0 .. Cells, memory : [CellsOf -> Int]]

(* The cells that have been written. *)
Copied(w) ==
  IF Forward(w) THEN w.dst .. (w.dst + (w.size - w.left) - 1)
  ELSE (w.dst + w.left) .. (w.dst + w.size - 1)

(* The copy is one that memmove, or memcpy, is made for. *)
Safe(w) == w.op = "memmove" \/ w.dst \notin (w.src + 1) .. (w.src + w.size - 1)

CopyRight(w) ==
  /\ w \in Copy
  /\ w.dst + w.size <= Cells /\ w.src + w.size <= Cells /\ w.left <= w.size
  /\ Safe(w) => \A c \in CellsOf :
                  w.memory[c] = IF c \in Copied(w) THEN w.src + (c - w.dst) ELSE c

LEMMA CopyStarts ==
  ASSUME NEW op \in {"memmove", "memcpy"}, Move(op)
  PROVE  CopyRight(work')
<1>0. Cells \in Nat
  BY StringsAssumption
<1>1. PICK dst \in CellsOf, src \in CellsOf, size \in 0 .. Cells :
        /\ dst + size <= Cells /\ src + size <= Cells
        /\ work' = [op |-> op, dst |-> dst, src |-> src, size |-> size, left |-> size,
                    memory |-> [c \in CellsOf |-> c]]
  BY DEF Move, CellsOf
<1>2. work' \in Copy
  BY <1>0, <1>1 DEF Copy, CellsOf
<1>3. Copied(work') = {}
  BY <1>0, <1>1 DEF Copied, Forward, CellsOf
<1> QED
  BY <1>0, <1>1, <1>2, <1>3 DEF CopyRight

(* A round writes one cell and reads one that has not been written. *)
LEMMA CopyGoesOn ==
  ASSUME CopyRight(work), CopyByte
  PROVE  CopyRight(work')
<1> DEFINE w == work
           forth == Forward(w)
           m == w.memory
           d == w.dst
           s == w.src
           z == w.size
           l == w.left
           i == IF forth THEN z - l ELSE l - 1
<1>0. /\ Cells \in Nat /\ d \in CellsOf /\ s \in CellsOf /\ z \in 0 .. Cells /\ l \in 0 .. Cells
      /\ m \in [CellsOf -> Int] /\ w.op \in {"memmove", "memcpy"} /\ w \in Copy
      /\ d + z <= Cells /\ s + z <= Cells /\ l <= z /\ l > 0 /\ forth \in BOOLEAN
  BY StringsAssumption DEF CopyRight, Copy, CopyByte, Forward
<1>1. work' = [w EXCEPT !.left = l - 1, !.memory[d + i] = m[s + i]]
  BY DEF CopyByte
<1>2. Copied(w) = IF forth THEN d .. (d + (z - l) - 1) ELSE (d + l) .. (d + z - 1)
  BY DEF Copied
<1>3. Safe(w) => /\ forth => d <= s \/ s + z <= d
                 /\ ~ forth => s <= d
  <2>1. forth <=> w.op = "memcpy" \/ d < s
    BY DEF Forward
  <2>2. Safe(w) <=> w.op = "memmove" \/ d \notin (s + 1) .. (s + z - 1)
    BY DEF Safe
  <2>3. w.op = "memmove" \/ w.op = "memcpy"
    BY <1>0
  <2>4. d \in Int /\ s \in Int /\ z \in Int
    BY <1>0 DEF CellsOf
  <2> HIDE DEF forth, d, s, z
  <2>5. CASE w.op = "memmove"
    BY <2>1, <2>4, <2>5
  <2>6. CASE w.op = "memcpy"
    BY <2>1, <2>2, <2>4, <2>6
  <2> QED
    BY <2>3, <2>5, <2>6
<1>4. Safe(w) => \A c \in CellsOf : m[c] = IF c \in Copied(w) THEN s + (c - d) ELSE c
  BY DEF CopyRight
<1>5. /\ work'.op = w.op /\ work'.dst = d /\ work'.src = s /\ work'.size = z
      /\ work'.left = l - 1 /\ work'.memory = [m EXCEPT ![d + i] = m[s + i]]
      /\ DOMAIN work' = DOMAIN w
  BY <1>0, <1>1 DEF Copy
<1>6. Forward(work') = forth /\ Safe(work') = Safe(w)
  BY <1>5 DEF Forward, Safe
<1>7. Copied(work') = IF forth THEN d .. (d + (z - (l - 1)) - 1)
                      ELSE (d + (l - 1)) .. (d + z - 1)
  BY <1>5, <1>6 DEF Copied
<1>8. i \in 0 .. (z - 1) /\ d + i \in CellsOf /\ s + i \in CellsOf
  <2>1. /\ Cells \in Nat /\ d \in Nat /\ s \in Nat /\ z \in Nat /\ l \in Nat
        /\ d + z <= Cells /\ s + z <= Cells /\ l <= z /\ l > 0 /\ forth \in BOOLEAN
    BY <1>0 DEF CellsOf
  <2> HIDE DEF forth, d, s, z, l
  <2> QED
    BY <2>1 DEF CellsOf
<1>9. work' \in Copy
  <2>1. [m EXCEPT ![d + i] = m[s + i]] \in [CellsOf -> Int]
    <3> HIDE DEF m, i, d, s
    <3> QED
      BY <1>0, <1>8
  <2>2. l - 1 \in 0 .. Cells
    BY <1>0
  <2> QED
    BY <1>0, <1>1, <2>1, <2>2 DEF Copy
<1> DEFINE A == Copied(w)
           B == Copied(work')
<1>10. /\ \A c \in CellsOf : c \in B <=> c = d + i \/ c \in A
       /\ Safe(w) => s + i \notin A
       /\ d \in Int /\ s \in Int /\ i \in Int
  <2>1. /\ Cells \in Nat /\ d \in Nat /\ s \in Nat /\ z \in Nat /\ l \in Nat
        /\ d + z <= Cells /\ s + z <= Cells /\ l <= z /\ l > 0 /\ forth \in BOOLEAN
    BY <1>0 DEF CellsOf
  <2>2. A = IF forth THEN d .. (d + (z - l) - 1) ELSE (d + l) .. (d + z - 1)
    BY <1>2
  <2>3. B = IF forth THEN d .. (d + (z - (l - 1)) - 1) ELSE (d + (l - 1)) .. (d + z - 1)
    BY <1>7
  <2> HIDE DEF forth, d, s, z, l, A, B
  <2> QED
    BY <1>3, <2>1, <2>2, <2>3 DEF CellsOf
<1>11. ASSUME Safe(w), NEW c \in CellsOf
       PROVE  work'.memory[c] = IF c \in B THEN s + (c - d) ELSE c
  <2>1. \A x \in CellsOf : m[x] = IF x \in A THEN s + (x - d) ELSE x
    BY <1>4, <1>11
  <2>2. work'.memory[c] = IF c = d + i THEN m[s + i] ELSE m[c]
    <3> HIDE DEF m, i, d, s
    <3> QED
      BY <1>0, <1>5, <1>8
  <2>3. c \in Int
    BY DEF CellsOf
  <2> HIDE DEF A, B, m, i, d, s
  <2>4. m[s + i] = s + i
    BY <1>8, <1>10, <1>11, <2>1
  <2> QED
    BY <1>10, <2>1, <2>2, <2>3, <2>4
<1>12. work'.dst + work'.size <= Cells /\ work'.src + work'.size <= Cells
       /\ work'.left <= work'.size
  BY <1>0, <1>5
<1> QED
  BY <1>5, <1>6, <1>9, <1>11, <1>12 DEF CopyRight

LEMMA CopyImplies ==
  ASSUME CopyRight(work), work.left = 0, Safe(work)
  PROVE  \A c \in 0 .. (Cells - 1) :
           work.memory[c] = IF c \in work.dst .. (work.dst + work.size - 1)
                              THEN work.src + (c - work.dst) ELSE c
<1>1. work \in Copy /\ Cells \in Nat
  BY StringsAssumption DEF CopyRight
<1>2. Copied(work) = work.dst .. (work.dst + work.size - 1)
  BY <1>1 DEF Copied, Copy, CellsOf
<1> QED
  BY <1>2 DEF CopyRight, CellsOf

-----------------------------------------------------------------------------
(* Strings in arrays *)

Byte == STRING \cup {NUL, Unset}

(* The characters of a line or a path are not the NUL. *)
LEMMA GivenStrings ==
  ASSUME NEW s \in Lines \cup Paths
  PROVE  s \in Seq(STRING) /\ \A i \in 1 .. Len(s) : s[i] # NUL
<1>1. s \in Seq(STRING) /\ NUL \notin ToSet(s)
  BY StringsAssumption DEF NUL
<1> QED
  BY <1>1 DEF ToSet

(* The string in an array ends before its first NUL. *)
LEMMA CStringIs ==
  ASSUME NEW bytes \in Seq(Byte), NEW n \in 0 .. (Len(bytes) - 1),
         bytes[n + 1] = NUL, \A i \in 1 .. n : bytes[i] # NUL
  PROVE  CString(bytes) = SubSeq(bytes, 1, n)
<1> DEFINE ends == {i \in DOMAIN bytes : bytes[i] = NUL}
           Ends(i) == /\ i + 1 \in ends \/ (ends = {} /\ i = Len(bytes))
                      /\ \A j \in ends : i < j
<1>1. n + 1 \in ends /\ \A j \in ends : n < j /\ j \in Nat
  OBVIOUS
<1>2. Ends(n)
  BY <1>1
<1>3. ASSUME NEW i \in 0 .. Len(bytes), Ends(i) PROVE i = n
  <2>1. i + 1 \in ends /\ i < n + 1
    BY <1>1, <1>3
  <2>2. n < i + 1
    BY <1>1, <2>1
  <2> QED
    BY <2>1, <2>2
<1>4. n \in 0 .. Len(bytes)
  OBVIOUS
<1>5. (CHOOSE i \in 0 .. Len(bytes) : Ends(i)) = n
  <2> HIDE DEF Ends
  <2> QED
    BY <1>2, <1>3, <1>4
<1> QED
  BY <1>5 DEF CString

LEMMA ArrayCopied ==
  ASSUME NEW m \in Nat, NEW src \in Seq(Byte), Len(src) < m,
         \A i \in 1 .. Len(src) : src[i] # NUL
  PROVE  CString(strcpy(Array(m), src)) = src
<1> DEFINE b == strcpy(Array(m), src)
           n == Len(src)
<1>1. b = [i \in 1 .. m |-> IF i > n + 1 THEN Unset ELSE IF i <= n THEN src[i] ELSE NUL]
  BY DEF strcpy, strncpy, Array
<1>2. \A i \in 1 .. n : src[i] \in Byte
  OBVIOUS
<1>3. b \in Seq(Byte) /\ Len(b) = m
  <2>1. \A i \in 1 .. m : b[i] \in Byte
    <3>1. ASSUME NEW i \in 1 .. m PROVE b[i] \in {Unset, NUL} \cup Byte
      <4> HIDE DEF b
      <4>1. i \in 1 .. n \/ i > n
        OBVIOUS
      <4> QED
        BY <1>1, <1>2, <4>1
    <3> QED
      BY <3>1 DEF Byte
  <2>2. b \in [1 .. m -> Byte]
    BY <1>1, <2>1
  <2> HIDE DEF b
  <2> QED
    BY <2>2
<1>4. b[n + 1] = NUL /\ \A i \in 1 .. n : b[i] = src[i]
  BY <1>1
<1> HIDE DEF b
<1>5. CString(b) = SubSeq(b, 1, n)
  BY <1>3, <1>4, CStringIs
<1>6. SubSeq(b, 1, n) = src
  BY <1>3, <1>4
<1> QED
  BY <1>5, <1>6 DEF b

LEMMA GivenBytes ==
  ASSUME NEW s \in Lines \cup Paths
  PROVE  s \in Seq(Byte) /\ \A i \in 1 .. Len(s) : s[i] # NUL
<1>1. s \in Seq(STRING) /\ \A i \in 1 .. Len(s) : s[i] # NUL
  BY GivenStrings
<1>2. Len(s) \in Nat /\ s \in [1 .. Len(s) -> STRING]
  BY <1>1
<1>3. s \in [1 .. Len(s) -> Byte]
  BY <1>2 DEF Byte
<1> QED
  BY <1>1, <1>2, <1>3

-----------------------------------------------------------------------------
(* split_path *)

(* The last slash of a path, or 0. *)
LEMMA LastSlash ==
  ASSUME NEW s \in Seq(Byte), NEW c
  PROVE  LET k == strrchr(s, c)
         IN  /\ k \in 0 .. Len(s)
             /\ k # 0 => s[k] = c
             /\ \A i \in 1 .. Len(s) : i > k => s[i] # c
<1> DEFINE places == {i \in DOMAIN s : s[i] = c}
<1>1. places \subseteq 1 .. Len(s) /\ Len(s) \in Nat
  OBVIOUS
<1>2. CASE places = {}
  <2>1. strrchr(s, c) = 0
    BY <1>2 DEF strrchr
  <2> QED
    BY <1>1, <1>2, <2>1
<1>3. CASE places # {}
  <2>1. \E x \in places : \A y \in places : y <= x
    <3> DEFINE back == {Len(s) - i : i \in places}
    <3>1. back \subseteq Nat /\ back # {}
      BY <1>1, <1>3
    <3>2. PICK x \in back : \A y \in back : x <= y
      <4> HIDE DEF back
      <4> QED
        BY <3>1, Smallest
    <3>3. PICK i \in places : x = Len(s) - i
      BY <3>2
    <3>4. \A j \in places : Len(s) - i <= Len(s) - j
      BY <3>2, <3>3
    <3> HIDE DEF places
    <3>5. \A j \in places : j <= i
      BY <1>1, <3>4
    <3> QED
      BY <3>5
  <2>2. strrchr(s, c) = CHOOSE x \in places : \A y \in places : x >= y
    BY <1>3 DEF strrchr, Max
  <2> DEFINE k == CHOOSE x \in places : \A y \in places : x >= y
  <2>3. k \in places /\ \A y \in places : k >= y
    <3>1. \E x \in places : \A y \in places : x >= y
      <4> HIDE DEF places
      <4> QED
        BY <1>1, <2>1
    <3> HIDE DEF places
    <3> QED
      BY <3>1
  <2> HIDE DEF k
  <2>4. strrchr(s, c) = k
    BY <2>2 DEF k
  <2> QED
    BY <1>1, <2>3, <2>4
<1> QED
  BY <1>2, <1>3

LEMMA ParentCopied ==
  ASSUME NEW m \in Nat, NEW src \in Seq(Byte), NEW n \in 0 .. Len(src), n < m,
         \A i \in 1 .. Len(src) : src[i] # NUL
  PROVE  CString(Terminated(strncpy(Array(m), src, n), n)) = SubSeq(src, 1, n)
<1> DEFINE b == Terminated(strncpy(Array(m), src, n), n)
<1>1. b = [i \in 1 .. m |-> IF i = n + 1 THEN NUL ELSE IF i > n THEN Unset ELSE src[i]]
  <2>1. strncpy(Array(m), src, n) = [i \in 1 .. m |-> IF i > n THEN Unset ELSE src[i]]
    BY DEF strncpy, Array
  <2> QED
    BY <2>1 DEF Terminated
<1>2. \A i \in 1 .. n : src[i] \in Byte
  OBVIOUS
<1>3. b \in Seq(Byte) /\ Len(b) = m
  <2>1. ASSUME NEW i \in 1 .. m PROVE b[i] \in {Unset, NUL} \cup Byte
    <3> HIDE DEF b
    <3>1. i \in 1 .. n \/ i > n
      OBVIOUS
    <3> QED
      BY <1>1, <1>2, <3>1
  <2>2. b \in [1 .. m -> Byte]
    BY <1>1, <2>1 DEF Byte
  <2> HIDE DEF b
  <2> QED
    BY <2>2
<1>4. b[n + 1] = NUL /\ \A i \in 1 .. n : b[i] = src[i]
  BY <1>1
<1> HIDE DEF b
<1>5. CString(b) = SubSeq(b, 1, n)
  BY <1>3, <1>4, CStringIs
<1>6. SubSeq(b, 1, n) = SubSeq(src, 1, n)
  BY <1>3, <1>4
<1> QED
  BY <1>5, <1>6 DEF b

SplitRight(w) ==
  LET parent == CString(w.parent)
      name == CString(w.name)
  IN  /\ Slash \notin ToSet(name)
      /\ w.path = IF Slash \in ToSet(w.path) THEN parent \o <<Slash>> \o name
                  ELSE name

LEMMA SplitMakes ==
  ASSUME split_path
  PROVE  work'.op = "split" /\ SplitRight(work')
<1>1. PICK path \in Paths :
        LET last_slash == strrchr(path, Slash)
            parent_len == last_slash - 1
        IN  work' =
              [op |-> "split", path |-> path,
               parent |-> IF last_slash = 0 THEN strcpy(Array(PathSize), << >>)
                          ELSE Terminated(strncpy(Array(PathSize), path, parent_len), parent_len),
               name |-> strcpy(Array(NameSize), SubSeq(path, last_slash + 1, Len(path)))]
  BY DEF split_path
<1> DEFINE k == strrchr(path, Slash)
           rest == SubSeq(path, k + 1, Len(path))
           parent == CString(work'.parent)
           name == CString(work'.name)
<1>2. /\ path \in Seq(Byte) /\ \A i \in 1 .. Len(path) : path[i] # NUL
      /\ PathSize \in Nat /\ NameSize \in Nat /\ Len(path) < NameSize /\ Len(path) < PathSize
      /\ Len(path) \in Nat
  BY GivenBytes, StringsAssumption
<1>3. /\ k \in 0 .. Len(path) /\ (k # 0 => path[k] = Slash)
      /\ \A i \in 1 .. Len(path) : i > k => path[i] # Slash
  BY <1>2, LastSlash
<1>4. /\ work'.op = "split" /\ work'.path = path
      /\ work'.parent = IF k = 0 THEN strcpy(Array(PathSize), << >>)
                        ELSE Terminated(strncpy(Array(PathSize), path, k - 1), k - 1)
      /\ work'.name = strcpy(Array(NameSize), rest)
  BY <1>1
<1> HIDE DEF k
<1>5. /\ rest \in Seq(Byte) /\ Len(rest) = Len(path) - k
      /\ \A i \in 1 .. Len(rest) : rest[i] = path[k + i]
  BY <1>2, <1>3
<1>6. name = rest
  <2>1. ASSUME NEW i \in 1 .. Len(rest) PROVE rest[i] # NUL
    <3> HIDE DEF rest
    <3>1. k + i \in 1 .. Len(path) /\ rest[i] = path[k + i]
      BY <1>2, <1>3, <1>5
    <3> QED
      BY <1>2, <3>1
  <2>2. Len(rest) < NameSize
    BY <1>2, <1>3, <1>5
  <2> HIDE DEF rest
  <2>3. CString(strcpy(Array(NameSize), rest)) = rest
    BY <1>2, <1>5, <2>1, <2>2, ArrayCopied
  <2> QED
    BY <1>4, <2>3
<1>7. Slash \notin ToSet(rest)
  <2>1. \A i \in 1 .. Len(rest) : rest[i] # Slash
    BY <1>2, <1>3, <1>5
  <2> HIDE DEF rest
  <2> QED
    BY <1>5, <2>1 DEF ToSet
<1>8. CASE k = 0
  <2>1. rest = path
    BY <1>2, <1>8
  <2> QED
    BY <1>4, <1>6, <1>7, <2>1 DEF SplitRight
<1>9. CASE k # 0
  <2>1. parent = SubSeq(path, 1, k - 1)
    <3>1. k - 1 \in 0 .. Len(path) /\ k - 1 < PathSize
      BY <1>2, <1>3, <1>9
    <3>2. CString(Terminated(strncpy(Array(PathSize), path, k - 1), k - 1)) = SubSeq(path, 1, k - 1)
      BY <1>2, <3>1, ParentCopied
    <3> QED
      BY <1>4, <1>9, <3>2
  <2>2. Slash \in ToSet(path)
    BY <1>2, <1>3, <1>9 DEF ToSet
  <2>3. SubSeq(path, 1, k - 1) \o <<Slash>> \o rest = path
    <3> DEFINE first == SubSeq(path, 1, k - 1)
               all == first \o <<Slash>> \o rest
    <3>1. /\ first \in Seq(Byte) /\ Len(first) = k - 1
          /\ \A i \in 1 .. (k - 1) : first[i] = path[i]
      BY <1>2, <1>3, <1>9
    <3> HIDE DEF first, rest
    <3>2. /\ all \in Seq(Byte \cup {Slash}) /\ Len(all) = Len(path)
          /\ \A i \in 1 .. Len(path) :
               all[i] = IF i < k THEN first[i] ELSE IF i = k THEN Slash ELSE rest[i - k]
      <4> DEFINE head == first \o <<Slash>>
      <4>1. k - 1 \in Nat /\ first \in Seq(Byte \cup {Slash}) /\ <<Slash>> \in Seq(Byte \cup {Slash})
        BY <1>3, <1>9, <3>1
      <4>2. head \in Seq(Byte \cup {Slash}) /\ Len(head) = k
            /\ \A i \in 1 .. k : head[i] = IF i < k THEN first[i] ELSE Slash
        BY <1>3, <1>9, <3>1, <4>1
      <4> HIDE DEF head
      <4>3. rest \in Seq(Byte \cup {Slash})
        BY <1>5
      <4>4. head \o rest \in Seq(Byte \cup {Slash})
            /\ Len(head \o rest) = k + Len(rest)
            /\ \A i \in 1 .. (k + Len(rest)) :
                 (head \o rest)[i] = IF i <= k THEN head[i] ELSE rest[i - k]
        BY <4>2, <4>3
      <4>5. all = head \o rest
        BY DEF head
      <4>6. Len(rest) = Len(path) - k /\ Len(path) \in Nat /\ k \in 0 .. Len(path)
        BY <1>2, <1>3, <1>5
      <4> HIDE DEF all
      <4>7. all \in Seq(Byte \cup {Slash}) /\ Len(all) = Len(path)
        BY <4>4, <4>5, <4>6
      <4>8. ASSUME NEW i \in 1 .. Len(path)
            PROVE  all[i] = IF i < k THEN first[i] ELSE IF i = k THEN Slash ELSE rest[i - k]
        <5>1. i \in 1 .. (k + Len(rest)) /\ i \in Int /\ k \in Int
          BY <4>6
        <5>2. all[i] = IF i <= k THEN head[i] ELSE rest[i - k]
          BY <4>4, <4>5, <5>1
        <5>3. i <= k => i \in 1 .. k
          BY <4>6
        <5>4. i <= k => head[i] = IF i < k THEN first[i] ELSE Slash
          BY <4>2, <5>3
        <5> QED
          BY <5>1, <5>2, <5>4
      <4> QED
        BY <4>7, <4>8
    <3>3. ASSUME NEW i \in 1 .. Len(path) PROVE all[i] = path[i]
      <4>1. i < k => i \in 1 .. (k - 1)
        BY <1>3
      <4>2. i > k => i - k \in 1 .. Len(rest) /\ rest[i - k] = path[k + (i - k)] /\ k + (i - k) = i
        BY <1>2, <1>3, <1>5
      <4> HIDE DEF all
      <4> QED
        BY <1>3, <1>9, <3>1, <3>2, <4>1, <4>2
    <3> HIDE DEF all
    <3>4. all = path
      BY <1>2, <3>2, <3>3
    <3> QED
      BY <3>4 DEF all, first, rest
  <2> QED
    BY <1>4, <1>6, <1>7, <2>1, <2>2, <2>3 DEF SplitRight
<1> QED
  BY <1>8, <1>9

-----------------------------------------------------------------------------
(* strtok *)

(* Where the words of a line begin. *)
Starts(line) ==
  {i \in DOMAIN line : line[i] # Space /\ (i = 1 \/ line[i - 1] = Space)}
StartsBefore(line, i) == {j \in Starts(line) : j < i}

(* From "last" on the string is still the line, and a word that is found   *)
(* there is a whole word of the line.                                      *)
Uncut(line, s, last) ==
  /\ s \in Seq(Byte) /\ Len(s) = Len(line) + 1 /\ s[Len(s)] = NUL
  /\ last \in 1 .. Len(s)
  /\ \A i \in last .. Len(line) : s[i] = line[i]
  /\ last \in 2 .. Len(line) => line[last - 1] = Space

(* The token that begins at i and ends before e is a word of the line, and *)
(* is what one reads at i.                                                 *)
Whole(line, s, i, e) ==
  /\ i < e /\ e <= Len(line) + 1 /\ s[e] = NUL
  /\ e = Len(line) + 1 \/ line[e] = Space
  /\ \A k \in i .. (e - 1) : s[k] = line[k] /\ line[k] # Space

TokenRight(line, s, last, n, token) ==
  IF n > Cardinality(Starts(line)) THEN token = 0
  ELSE /\ token \in Starts(line)
       /\ Cardinality({j \in Starts(line) : j <= token}) = n
       /\ \E e \in token .. last : Whole(line, s, token, e)

(* As many words lie behind "last" as tokens have not been found yet.      *)
Counted(line, last, calls) ==
  LET all == Cardinality(Starts(line))
      found == Cardinality(StartsBefore(line, last))
  IN  /\ calls <= all => found = calls
      /\ calls >= all => found = all

TokRight(w) ==
  /\ w \in [op : {"strtok"}, line : Lines, string : Seq(Byte), last : Nat,
            tokens : Seq(Nat), calls : Nat]
  /\ Uncut(w.line, w.string, w.last)
  /\ Counted(w.line, w.last, w.calls)
  /\ Len(w.tokens) = w.calls
  /\ \A n \in 1 .. w.calls : TokenRight(w.line, w.string, w.last, n, w.tokens[n])

LEMMA StartsAreFinite ==
  ASSUME NEW line \in Seq(Byte)
  PROVE  /\ Starts(line) \subseteq 1 .. Len(line)
         /\ IsFiniteSet(Starts(line)) /\ Cardinality(Starts(line)) \in Nat
         /\ \A S \in SUBSET Starts(line) : IsFiniteSet(S) /\ Cardinality(S) \in Nat
<1>1. Starts(line) \subseteq 1 .. Len(line) /\ Len(line) \in Nat
  BY DEF Starts
<1>2. IsFiniteSet(1 .. Len(line))
  BY <1>1, FS_Interval
<1> QED
  BY <1>1, <1>2, FS_Subset, FS_CardinalityType

LEMMA TokenBegins ==
  ASSUME NEW line \in Lines, NEW s, NEW last, Uncut(line, s, last)
  PROVE  /\ TokenStart(s, last) \in last .. Len(s)
         /\ s[TokenStart(s, last)] # Space
         /\ \A k \in last .. (TokenStart(s, last) - 1) : s[k] = Space
<1> DEFINE Found(j) == ~ IsDelimiter(s[j]) /\ \A k \in last .. (j - 1) : IsDelimiter(s[k])
           S == {j \in last .. Len(s) : ~ IsDelimiter(s[j])}
<1>1. Len(s) \in Nat /\ last \in 1 .. Len(s) /\ s[Len(s)] = NUL
  BY DEF Uncut
<1>2. Len(s) \in S /\ S \subseteq Nat
  <2>1. NUL # Space
    BY DEF NUL, Space
  <2> QED
    BY <1>1, <2>1 DEF IsDelimiter
<1>3. PICK j \in S : \A k \in S : j <= k
  <2> HIDE DEF S
  <2> QED
    BY <1>2, Smallest
<1>4. j \in last .. Len(s) /\ Found(j)
  BY <1>1, <1>3
<1>5. TokenStart(s, last) = CHOOSE i \in last .. Len(s) : Found(i)
  BY DEF TokenStart
<1>6. TokenStart(s, last) \in last .. Len(s) /\ Found(TokenStart(s, last))
  <2> HIDE DEF Found
  <2> QED
    BY <1>4, <1>5
<1> QED
  BY <1>6 DEF IsDelimiter

LEMMA TokenFinishes ==
  ASSUME NEW line \in Lines, NEW s, NEW last, Uncut(line, s, last),
         NEW i \in last .. Len(s)
  PROVE  /\ TokenEnd(s, i) \in i .. Len(s)
         /\ s[TokenEnd(s, i)] = Space \/ s[TokenEnd(s, i)] = NUL
         /\ \A k \in i .. (TokenEnd(s, i) - 1) : s[k] # Space /\ s[k] # NUL
<1> DEFINE Found(j) == /\ IsDelimiter(s[j]) \/ s[j] = NUL
                       /\ \A k \in i .. (j - 1) : ~ IsDelimiter(s[k]) /\ s[k] # NUL
           S == {j \in i .. Len(s) : IsDelimiter(s[j]) \/ s[j] = NUL}
<1>1. Len(s) \in Nat /\ last \in 1 .. Len(s) /\ s[Len(s)] = NUL
  BY DEF Uncut
<1>2. Len(s) \in S /\ S \subseteq Nat
  BY <1>1
<1>3. PICK j \in S : \A k \in S : j <= k
  <2> HIDE DEF S
  <2> QED
    BY <1>2, Smallest
<1>4. j \in i .. Len(s) /\ Found(j)
  BY <1>1, <1>3
<1>5. TokenEnd(s, i) = CHOOSE k \in i .. Len(s) : Found(k)
  BY DEF TokenEnd
<1>6. TokenEnd(s, i) \in i .. Len(s) /\ Found(TokenEnd(s, i))
  <2> HIDE DEF Found
  <2> QED
    BY <1>4, <1>5
<1> QED
  BY <1>6 DEF IsDelimiter

LEMMA TokenizeStarts ==
  ASSUME Tokenize
  PROVE  TokRight(work')
<1>1. PICK line \in Lines :
        work' = [op |-> "strtok", line |-> line, string |-> Append(line, NUL),
                 last |-> 1, tokens |-> << >>, calls |-> 0]
  BY DEF Tokenize
<1>2. line \in Seq(Byte) /\ Len(line) \in Nat
  BY GivenBytes
<1>3. /\ Append(line, NUL) \in Seq(Byte) /\ Len(Append(line, NUL)) = Len(line) + 1
      /\ Append(line, NUL)[Len(line) + 1] = NUL
      /\ \A i \in 1 .. Len(line) : Append(line, NUL)[i] = line[i]
  <2>1. NUL \in Byte
    BY DEF Byte
  <2> QED
    BY <1>2, <2>1
<1>4. Uncut(line, Append(line, NUL), 1)
  BY <1>2, <1>3 DEF Uncut
<1>5. Counted(line, 1, 0)
  <2>1. StartsBefore(line, 1) = {}
    BY <1>2, StartsAreFinite DEF StartsBefore
  <2>2. Cardinality({}) = 0
    BY FS_EmptySet
  <2>3. Cardinality(Starts(line)) \in Nat
    BY <1>2, StartsAreFinite
  <2> QED
    BY <2>1, <2>2, <2>3 DEF Counted
<1> DEFINE s == Append(line, NUL)
<1>6. s \in Seq(Byte) /\ Uncut(line, s, 1)
  BY <1>3, <1>4
<1>7. work' = [op |-> "strtok", line |-> line, string |-> s,
               last |-> 1, tokens |-> << >>, calls |-> 0]
  BY <1>1
<1> HIDE DEF s
<1> QED
  BY <1>5, <1>6, <1>7 DEF TokRight

(* A call that finds a word: it begins at i and ends at e. *)
LEMMA WordFound ==
  ASSUME NEW line \in Lines, NEW s, NEW last, Uncut(line, s, last),
         NEW calls \in Nat, Counted(line, last, calls),
         NEW i, i = TokenStart(s, last), s[i] # NUL,
         NEW e, e = TokenEnd(s, i)
  PROVE  /\ i \in last .. Len(line) /\ e \in (i + 1) .. (Len(line) + 1)
         /\ Uncut(line, [s EXCEPT ![e] = NUL], AfterToken(s, e))
         /\ AfterToken(s, e) \in e .. (e + 1)
         /\ Whole(line, [s EXCEPT ![e] = NUL], i, e)
         /\ i \in Starts(line)
         /\ StartsBefore(line, AfterToken(s, e)) = {j \in Starts(line) : j <= i}
         /\ {j \in Starts(line) : j <= i} = StartsBefore(line, last) \cup {i}
<1> DEFINE t == [s EXCEPT ![e] = NUL]
           next == AfterToken(s, e)
           L == Len(line)
<1>1. /\ line \in Seq(Byte) /\ L \in Nat /\ \A j \in 1 .. L : line[j] # NUL /\ line[j] \in Byte
      /\ NUL # Space /\ NUL \in Byte
  BY GivenBytes DEF NUL, Space, Byte
<1>2. /\ s \in Seq(Byte) /\ Len(s) = L + 1 /\ s[L + 1] = NUL
      /\ last \in 1 .. (L + 1) /\ \A j \in last .. L : s[j] = line[j]
      /\ last \in 2 .. L => line[last - 1] = Space
  BY DEF Uncut
<1>3. i \in last .. (L + 1) /\ s[i] # Space /\ \A k \in last .. (i - 1) : s[k] = Space
  BY <1>2, TokenBegins
<1>4. i \in last .. L
  BY <1>1, <1>2, <1>3
<1>5. /\ e \in i .. (L + 1) /\ (s[e] = Space \/ s[e] = NUL)
      /\ \A k \in i .. (e - 1) : s[k] # Space /\ s[k] # NUL
  <2>1. i \in last .. Len(s)
    BY <1>2, <1>3
  <2> QED
    BY <1>2, <2>1, TokenFinishes
<1>6. e \in (i + 1) .. (L + 1)
  BY <1>1, <1>2, <1>3, <1>5
<1>7. e = L + 1 \/ (e \in 1 .. L /\ line[e] = Space /\ s[e] = Space)
  BY <1>1, <1>2, <1>3, <1>5, <1>6
<1>8. next = IF e = L + 1 THEN e ELSE e + 1
  BY <1>1, <1>2, <1>7 DEF AfterToken
<1>9. /\ t \in Seq(Byte) /\ Len(t) = L + 1 /\ t[e] = NUL
      /\ \A k \in 1 .. (L + 1) : k # e => t[k] = s[k]
  BY <1>1, <1>2, <1>3, <1>6
<1> HIDE DEF t, next
<1>10. next \in 1 .. (L + 1) /\ next \in e .. (e + 1)
  BY <1>1, <1>2, <1>3, <1>6, <1>7, <1>8
<1>11. Uncut(line, t, next)
  <2>1. t[L + 1] = NUL
    BY <1>1, <1>2, <1>7, <1>9
  <2>2. ASSUME NEW j \in next .. L PROVE t[j] = line[j]
    <3>1. j \in last .. L /\ j # e /\ j \in 1 .. (L + 1)
      BY <1>1, <1>2, <1>3, <1>6, <1>8, <1>10
    <3> QED
      BY <1>2, <1>9, <3>1
  <2>3. next \in 2 .. L => line[next - 1] = Space
    BY <1>1, <1>7, <1>8
  <2> QED
    BY <1>9, <1>10, <2>1, <2>2, <2>3 DEF Uncut
<1>12. \A k \in i .. (e - 1) : k \in 1 .. L /\ s[k] = line[k] /\ line[k] # Space
  <2>1. ASSUME NEW k \in i .. (e - 1)
        PROVE  k \in 1 .. L /\ k \in last .. L
    BY <1>1, <1>2, <1>3, <1>6
  <2> QED
    BY <1>2, <1>5, <2>1
<1>13. Whole(line, t, i, e)
  <2>1. \A k \in i .. (e - 1) : t[k] = line[k] /\ line[k] # Space
    BY <1>1, <1>2, <1>6, <1>9, <1>12
  <2>2. i < e /\ e <= L + 1 /\ (e = L + 1 \/ line[e] = Space)
    BY <1>1, <1>2, <1>3, <1>6, <1>7
  <2> QED
    BY <1>9, <2>1, <2>2 DEF Whole
<1>14. i \in Starts(line)
  <2>1. line[i] # Space /\ i \in 1 .. L
    BY <1>2, <1>3, <1>4
  <2>2. i = 1 \/ line[i - 1] = Space
    <3>1. CASE i = last
      BY <1>1, <1>2, <1>4, <3>1
    <3>2. CASE i > last
      <4>1. i - 1 \in last .. (i - 1) /\ i - 1 \in last .. L
        BY <1>1, <1>2, <1>4, <3>2
      <4> QED
        BY <1>2, <1>3, <4>1
    <3> QED
      BY <1>2, <1>3, <3>1, <3>2
  <2> QED
    BY <1>1, <2>1, <2>2 DEF Starts
<1>15. \A j \in Starts(line) : /\ j \in 1 .. L /\ line[j] # Space
                               /\ j = 1 \/ line[j - 1] = Space
  BY <1>1 DEF Starts
<1>16. ASSUME NEW j \in Starts(line)
       PROVE  j < next <=> j <= i
  <2>1. j <= i => j < next
    BY <1>1, <1>2, <1>3, <1>6, <1>10, <1>15
  <2>2. ASSUME j < next, j > i PROVE FALSE
    <3>1. j # e
      BY <1>7, <1>15
    <3>2. j - 1 \in i .. (e - 1) /\ j # 1
      BY <1>1, <1>2, <1>3, <1>6, <1>8, <1>15, <2>2, <3>1
    <3> QED
      BY <1>12, <1>15, <3>2
  <2>3. j \in Int /\ i \in Int
    BY <1>2, <1>3, <1>15
  <2> QED
    BY <2>1, <2>2, <2>3
<1>17. ASSUME NEW j \in Starts(line)
       PROVE  j <= i <=> j < last \/ j = i
  <2>1. ASSUME j >= last, j < i PROVE FALSE
    <3>1. j \in last .. (i - 1) /\ j \in last .. L
      BY <1>1, <1>2, <1>3, <1>15, <2>1
    <3> QED
      BY <1>2, <1>3, <1>15, <3>1
  <2>2. j \in Int /\ i \in Int /\ last \in Int /\ last <= i
    BY <1>2, <1>3, <1>15
  <2> QED
    BY <2>1, <2>2
<1>18. StartsBefore(line, next) = {j \in Starts(line) : j <= i}
  BY <1>16 DEF StartsBefore
<1>19. {j \in Starts(line) : j <= i} = StartsBefore(line, last) \cup {i}
  BY <1>14, <1>17 DEF StartsBefore
<1> QED
  BY <1>4, <1>6, <1>10, <1>11, <1>13, <1>14, <1>18, <1>19 DEF t, next

(* A call that reaches the end of the line: no word is left. *)
LEMMA NoWordLeft ==
  ASSUME NEW line \in Lines, NEW s, NEW last, Uncut(line, s, last),
         NEW i, i = TokenStart(s, last), s[i] = NUL
  PROVE  /\ i = Len(line) + 1 /\ Uncut(line, s, i)
         /\ StartsBefore(line, last) = Starts(line)
         /\ StartsBefore(line, i) = Starts(line)
<1> DEFINE L == Len(line)
<1>1. /\ line \in Seq(Byte) /\ L \in Nat /\ \A j \in 1 .. L : line[j] # NUL
  BY GivenBytes
<1>2. /\ s \in Seq(Byte) /\ Len(s) = L + 1 /\ s[L + 1] = NUL
      /\ last \in 1 .. (L + 1) /\ \A j \in last .. L : s[j] = line[j]
  BY DEF Uncut
<1>3. i \in last .. (L + 1) /\ \A k \in last .. (i - 1) : s[k] = Space
  BY <1>2, TokenBegins
<1>4. i = L + 1
  BY <1>1, <1>2, <1>3
<1>5. Uncut(line, s, i)
  BY <1>1, <1>2, <1>4 DEF Uncut
<1>6. ASSUME NEW j \in Starts(line) PROVE j < last /\ j < i
  <2>1. j \in 1 .. L /\ line[j] # Space
    BY <1>1 DEF Starts
  <2>2. j \in last .. L => s[j] = Space /\ s[j] = line[j]
    BY <1>1, <1>2, <1>3, <1>4
  <2> QED
    BY <1>1, <1>2, <1>4, <2>1, <2>2
<1>7. StartsBefore(line, last) = Starts(line) /\ StartsBefore(line, i) = Starts(line)
  BY <1>6 DEF StartsBefore
<1> QED
  BY <1>4, <1>5, <1>7

(* The earlier tokens stay what they were: strtok writes behind them.      *)
LEMMA TokenStays ==
  ASSUME NEW line \in Lines, NEW s, NEW last, Uncut(line, s, last),
         NEW e \in last .. (Len(line) + 1), NEW next \in last .. (Len(line) + 1),
         NEW n, NEW token, TokenRight(line, s, last, n, token)
  PROVE  TokenRight(line, [s EXCEPT ![e] = NUL], next, n, token)
<1> DEFINE t == [s EXCEPT ![e] = NUL]
           L == Len(line)
<1>1. line \in Seq(Byte) /\ L \in Nat /\ NUL \in Byte /\ Starts(line) \subseteq 1 .. L
  BY GivenBytes, StartsAreFinite DEF Byte
<1>2. s \in Seq(Byte) /\ Len(s) = L + 1 /\ last \in 1 .. (L + 1)
  BY DEF Uncut
<1>3. /\ t[e] = NUL
      /\ \A k \in 1 .. (L + 1) : k # e => t[k] = s[k]
  BY <1>1, <1>2
<1> HIDE DEF t
<1>4. CASE n > Cardinality(Starts(line))
  BY <1>4 DEF TokenRight
<1>5. CASE ~ (n > Cardinality(Starts(line)))
  <2>1. /\ token \in Starts(line) /\ Cardinality({j \in Starts(line) : j <= token}) = n
    BY <1>5 DEF TokenRight
  <2>2. PICK f \in token .. last : Whole(line, s, token, f)
    BY <1>5 DEF TokenRight
  <2>3. token \in 1 .. L /\ f \in token .. next /\ f \in 1 .. (L + 1)
    BY <1>1, <1>2, <2>1, <2>2
  <2>4. t[f] = NUL
    <3>1. s[f] = NUL
      BY <2>2 DEF Whole
    <3> QED
      BY <1>3, <2>3, <3>1
  <2>5. \A k \in token .. (f - 1) : t[k] = s[k]
    BY <1>1, <1>2, <1>3, <2>2, <2>3
  <2>6. Whole(line, t, token, f)
    BY <2>2, <2>4, <2>5 DEF Whole
  <2>7. \E x \in token .. next : Whole(line, t, token, x)
    BY <2>3, <2>6
  <2> QED
    BY <1>5, <2>1, <2>7 DEF TokenRight, t
<1> QED
  BY <1>4, <1>5 DEF t

LEMMA SetToItself ==
  ASSUME NEW s \in Seq(Byte), NEW i \in 1 .. Len(s), s[i] = NUL
  PROVE  [s EXCEPT ![i] = NUL] = s
OBVIOUS

LEMMA StrtokGoesOn ==
  ASSUME TokRight(work), strtok
  PROVE  TokRight(work')
<1> DEFINE w == work
           line == w.line
           s == w.string
           last == w.last
           calls == w.calls
           i == TokenStart(s, last)
           e == TokenEnd(s, i)
           L == Len(line)
           all == Cardinality(Starts(line))
<1>1. /\ w \in [op : {"strtok"}, line : Lines, string : Seq(Byte), last : Nat,
                tokens : Seq(Nat), calls : Nat]
      /\ line \in Lines /\ line \in Seq(Byte) /\ L \in Nat /\ s \in Seq(Byte)
      /\ last \in Nat /\ calls \in Nat /\ w.tokens \in Seq(Nat)
      /\ Uncut(line, s, last) /\ Counted(line, last, calls)
      /\ Len(w.tokens) = calls
      /\ \A n \in 1 .. calls : TokenRight(line, s, last, n, w.tokens[n])
      /\ all \in Nat
  <2>1. TokRight(w)
    OBVIOUS
  <2>2. line \in Lines
    BY <2>1 DEF TokRight
  <2>3. line \in Seq(Byte) /\ L \in Nat /\ all \in Nat
    BY <2>2, GivenBytes, StartsAreFinite
  <2> QED
    BY <2>1, <2>2, <2>3 DEF TokRight
<1>2. work' = [w EXCEPT
           !.calls = calls + 1,
           !.last = IF s[i] = NUL THEN i ELSE AfterToken(s, e),
           !.string = IF s[i] = NUL THEN s ELSE [s EXCEPT ![e] = NUL],
           !.tokens = Append(w.tokens, IF s[i] = NUL THEN 0 ELSE i)]
  BY DEF strtok
<1> HIDE DEF w, line, s, last, calls, i, e, all
<1>3. ASSUME NEW t \in Seq(Byte), NEW next \in Nat, NEW token \in Nat,
             work' = [w EXCEPT !.calls = calls + 1, !.last = next, !.string = t,
                               !.tokens = Append(w.tokens, token)],
             Uncut(line, t, next), Counted(line, next, calls + 1),
             \A n \in 1 .. calls : TokenRight(line, t, next, n, w.tokens[n]),
             TokenRight(line, t, next, calls + 1, token)
      PROVE  TokRight(work')
  <2> DEFINE ts == Append(w.tokens, token)
  <2>1. /\ ts \in Seq(Nat) /\ Len(ts) = calls + 1 /\ ts[calls + 1] = token
        /\ \A n \in 1 .. calls : ts[n] = w.tokens[n]
    BY <1>1
  <2>2. \A n \in 1 .. (calls + 1) : n \in 1 .. calls \/ n = calls + 1
    BY <1>1
  <2>3. work' = [w EXCEPT !.calls = calls + 1, !.last = next, !.string = t, !.tokens = ts]
    BY <1>3
  <2> HIDE DEF ts
  <2>4. \A n \in 1 .. (calls + 1) : TokenRight(line, t, next, n, ts[n])
    BY <1>3, <2>1, <2>2
  <2>5. /\ work' \in [op : {"strtok"}, line : Lines, string : Seq(Byte), last : Nat,
                      tokens : Seq(Nat), calls : Nat]
        /\ work'.line = line /\ work'.string = t /\ work'.last = next
        /\ work'.calls = calls + 1 /\ work'.tokens = ts
    <3> DEFINE c == calls + 1
    <3>1. c \in Nat /\ next \in Nat /\ t \in Seq(Byte) /\ ts \in Seq(Nat)
      BY <1>1, <1>3, <2>1
    <3>2. work' = [w EXCEPT !.calls = c, !.last = next, !.string = t, !.tokens = ts]
      BY <2>3
    <3> HIDE DEF c
    <3>3. /\ work' \in [op : {"strtok"}, line : Lines, string : Seq(Byte), last : Nat,
                       tokens : Seq(Nat), calls : Nat]
          /\ work'.line = w.line /\ work'.string = t /\ work'.last = next
          /\ work'.calls = c /\ work'.tokens = ts
      BY <1>1, <3>1, <3>2
    <3> QED
      BY <3>3 DEF c, line
  <2> QED
    BY <1>3, <2>1, <2>4, <2>5 DEF TokRight
<1>4. CASE s[i] = NUL
  <2>1. /\ i = L + 1 /\ Uncut(line, s, i)
        /\ StartsBefore(line, last) = Starts(line)
        /\ StartsBefore(line, i) = Starts(line)
    BY <1>1, <1>4, NoWordLeft DEF i
  <2>2. calls >= all /\ Counted(line, i, calls + 1)
    BY <1>1, <2>1 DEF Counted, all
  <2>3. ASSUME NEW n \in 1 .. calls
        PROVE  TokenRight(line, s, i, n, w.tokens[n])
    <3>1. TokenRight(line, s, last, n, w.tokens[n]) /\ Len(s) = L + 1 /\ last \in 1 .. (L + 1)
      BY <1>1 DEF Uncut
    <3>2. L + 1 \in last .. (L + 1) /\ i \in last .. (L + 1) /\ s[L + 1] = NUL
      BY <1>1, <1>4, <2>1, <3>1
    <3>3. TokenRight(line, [s EXCEPT ![L + 1] = NUL], i, n, w.tokens[n])
      BY <1>1, <3>1, <3>2, TokenStays
    <3>4. [s EXCEPT ![L + 1] = NUL] = s
      BY <1>1, <3>1, <3>2, SetToItself
    <3> QED
      BY <3>3, <3>4
  <2>4. TokenRight(line, s, i, calls + 1, 0)
    BY <1>1, <2>2 DEF TokenRight, all
  <2>5. work' = [w EXCEPT !.calls = calls + 1, !.last = i, !.string = s,
                          !.tokens = Append(w.tokens, 0)]
    BY <1>2, <1>4
  <2> QED
    <3>1. i \in Nat /\ 0 \in Nat /\ s \in Seq(Byte)
      BY <1>1, <2>1
    <3> QED
      BY <1>3, <2>1, <2>2, <2>3, <2>4, <2>5, <3>1
<1>5. CASE s[i] # NUL
  <2> DEFINE t == [s EXCEPT ![e] = NUL]
             next == AfterToken(s, e)
  <2>1. /\ i \in last .. L /\ e \in (i + 1) .. (L + 1)
        /\ Uncut(line, t, next) /\ next \in e .. (e + 1)
        /\ Whole(line, t, i, e) /\ i \in Starts(line)
        /\ StartsBefore(line, next) = {j \in Starts(line) : j <= i}
        /\ {j \in Starts(line) : j <= i} = StartsBefore(line, last) \cup {i}
    BY <1>1, <1>5, WordFound DEF i, e
  <2>2. /\ Cardinality({j \in Starts(line) : j <= i}) = Cardinality(StartsBefore(line, last)) + 1
        /\ Cardinality({j \in Starts(line) : j <= i}) <= all
        /\ Cardinality(StartsBefore(line, last)) \in Nat
    <3>1. i \notin StartsBefore(line, last)
      BY <1>1, <2>1 DEF StartsBefore
    <3>2. IsFiniteSet(StartsBefore(line, last)) /\ Cardinality(StartsBefore(line, last)) \in Nat
      BY <1>1, StartsAreFinite DEF StartsBefore
    <3>3. Cardinality(StartsBefore(line, last) \cup {i}) = Cardinality(StartsBefore(line, last)) + 1
      BY <3>1, <3>2, FS_AddElement
    <3>4. Cardinality({j \in Starts(line) : j <= i}) <= Cardinality(Starts(line))
      BY <1>1, StartsAreFinite, FS_Subset
    <3> QED
      BY <2>1, <3>2, <3>3, <3>4 DEF all
  <2>3. Cardinality({j \in Starts(line) : j <= i}) = calls + 1 /\ calls + 1 <= all
    BY <1>1, <2>2 DEF Counted, all
  <2>4. Counted(line, next, calls + 1)
    BY <1>1, <2>1, <2>3 DEF Counted, all
  <2>5. t \in Seq(Byte) /\ next \in 1 .. (L + 1) /\ next \in Nat /\ i \in Nat
        /\ next \in last .. (L + 1) /\ e \in last .. (L + 1) /\ e \in i .. next
    <3>1. t \in Seq(Byte) /\ next \in 1 .. (L + 1)
      <4> HIDE DEF t, next
      <4>1. t \in Seq(Byte) /\ Len(t) = L + 1 /\ next \in 1 .. Len(t)
        BY <2>1 DEF Uncut
      <4> QED
        BY <4>1
    <3> HIDE DEF t, next
    <3> QED
      BY <1>1, <2>1, <3>1
  <2>6. \A n \in 1 .. calls : TokenRight(line, t, next, n, w.tokens[n])
    <3>1. ASSUME NEW n \in 1 .. calls
          PROVE  TokenRight(line, [s EXCEPT ![e] = NUL], next, n, w.tokens[n])
      <4>1. TokenRight(line, s, last, n, w.tokens[n])
        BY <1>1
      <4> HIDE DEF next
      <4> QED
        BY <1>1, <2>5, <4>1, TokenStays
    <3> QED
      BY <3>1
  <2>7. TokenRight(line, t, next, calls + 1, i)
    <3> HIDE DEF t, next
    <3> QED
      BY <1>1, <2>1, <2>3, <2>5 DEF TokenRight, all
  <2>8. work' = [w EXCEPT !.calls = calls + 1, !.last = next, !.string = t,
                          !.tokens = Append(w.tokens, i)]
    BY <1>2, <1>5
  <2> HIDE DEF t, next
  <2> QED
    BY <1>3, <2>1, <2>4, <2>5, <2>6, <2>7, <2>8
<1> QED
  BY <1>4, <1>5

(* What a client reads at a token is the word. *)
LEMMA WordRead ==
  ASSUME NEW line \in Lines, NEW s \in Seq(Byte), Len(s) = Len(line) + 1,
         NEW i \in 1 .. Len(line), NEW e \in Nat, Whole(line, s, i, e)
  PROVE  LET word == CString(SubSeq(s, i, Len(s)))
             next == i + Len(word)
         IN  /\ word = SubSeq(line, i, next - 1)
             /\ Space \notin ToSet(word)
             /\ next > Len(line) \/ line[next] = Space
<1> DEFINE L == Len(line)
           b == SubSeq(s, i, Len(s))
           n == e - i
           word == CString(b)
<1>1. line \in Seq(Byte) /\ L \in Nat /\ \A k \in 1 .. L : line[k] # NUL
  BY GivenBytes
<1>2. /\ i < e /\ e <= L + 1 /\ s[e] = NUL
      /\ e = L + 1 \/ line[e] = Space
      /\ \A k \in i .. (e - 1) : s[k] = line[k] /\ line[k] # Space
  BY DEF Whole
<1>3. /\ b \in Seq(Byte) /\ Len(b) = L + 2 - i
      /\ \A k \in 1 .. (L + 2 - i) : b[k] = s[i + k - 1]
  BY <1>1
<1> HIDE DEF b
<1>4. b[n + 1] = NUL /\ n \in 0 .. (Len(b) - 1) /\ n \in Nat
  <2>1. n + 1 \in 1 .. (L + 2 - i) /\ i + (n + 1) - 1 = e
    BY <1>1, <1>2
  <2> QED
    BY <1>1, <1>2, <1>3, <2>1
<1>5. ASSUME NEW k \in 1 .. n
      PROVE  b[k] = line[i + k - 1] /\ b[k] # NUL /\ b[k] # Space
  <2>1. i + k - 1 \in i .. (e - 1) /\ i + k - 1 \in 1 .. L /\ k \in 1 .. (L + 2 - i)
    BY <1>1, <1>2, <1>4
  <2> QED
    BY <1>1, <1>2, <1>3, <2>1
<1>6. word = SubSeq(b, 1, n)
  <2> HIDE DEF n
  <2> QED
    BY <1>3, <1>4, <1>5, CStringIs
<1>7. word \in Seq(Byte) /\ Len(word) = n /\ \A k \in 1 .. n : word[k] = b[k]
  <2> HIDE DEF n
  <2>1. b \in Seq(Byte) /\ n \in Nat /\ n <= Len(b) /\ \A k \in 1 .. n : b[k] \in Byte
    BY <1>3, <1>4
  <2>2. SubSeq(b, 1, n) \in Seq(Byte) /\ Len(SubSeq(b, 1, n)) = n
        /\ \A k \in 1 .. n : SubSeq(b, 1, n)[k] = b[k]
    BY <2>1
  <2> QED
    BY <1>6, <2>2
<1> HIDE DEF word
<1>8. i + Len(word) = e
  BY <1>1, <1>2, <1>7
<1>9. word = SubSeq(line, i, e - 1)
  <2> DEFINE v == SubSeq(line, i, e - 1)
  <2>1. /\ v \in Seq(Byte) /\ Len(v) = n
        /\ \A k \in 1 .. n : v[k] = line[i + k - 1]
    BY <1>1, <1>2
  <2> HIDE DEF v
  <2>2. \A k \in 1 .. n : word[k] = v[k]
    BY <1>5, <1>7, <2>1
  <2>3. word = v
    BY <1>4, <1>7, <2>1, <2>2
  <2> QED
    BY <2>3 DEF v
<1>10. Space \notin ToSet(word)
  BY <1>5, <1>7 DEF ToSet
<1>11. e > L \/ line[e] = Space
  BY <1>1, <1>2
<1>12. /\ word = SubSeq(line, i, (i + Len(word)) - 1)
       /\ Space \notin ToSet(word)
       /\ i + Len(word) > Len(line) \/ line[i + Len(word)] = Space
  BY <1>8, <1>9, <1>10, <1>11
<1> QED
  BY <1>12 DEF word, b

LEMMA TokRightImplies ==
  ASSUME Doing("strtok"), TokRight(work)
  PROVE  TokensAreWords
<1> DEFINE line == work.line
           s == work.string
           starts == {i \in DOMAIN line :
                        line[i] # Space /\ (i = 1 \/ line[i - 1] = Space)}
           upTo(i) == {j \in starts : j <= i}
           Read(token) ==
             LET word == CString(SubSeq(s, token, Len(s)))
                 next == token + Len(word)
             IN  /\ word = SubSeq(line, token, next - 1)
                 /\ Space \notin ToSet(word)
                 /\ next > Len(line) \/ line[next] = Space
<1>1. /\ line \in Lines /\ s \in Seq(Byte) /\ Len(s) = Len(line) + 1
      /\ work.last \in Nat
      /\ \A n \in 1 .. work.calls : TokenRight(line, s, work.last, n, work.tokens[n])
  BY DEF TokRight, Uncut
<1>2. starts = Starts(line)
  BY DEF Starts
<1>3. Starts(line) \subseteq 1 .. Len(line)
  BY <1>1, GivenBytes, StartsAreFinite
<1> HIDE DEF line, s, starts, Read
<1>4. ASSUME NEW n \in 1 .. work.calls
      PROVE  IF n > Cardinality(starts) THEN work.tokens[n] = 0
             ELSE /\ work.tokens[n] \in starts /\ Cardinality(upTo(work.tokens[n])) = n
                  /\ Read(work.tokens[n])
  <2> DEFINE token == work.tokens[n]
  <2>1. TokenRight(line, s, work.last, n, token)
    BY <1>1
  <2> HIDE DEF token
  <2>2. CASE n > Cardinality(Starts(line))
    BY <1>2, <2>1, <2>2 DEF TokenRight, token
  <2>3. CASE ~ (n > Cardinality(Starts(line)))
    <3>1. token \in Starts(line) /\ Cardinality({j \in Starts(line) : j <= token}) = n
      BY <2>1, <2>3 DEF TokenRight
    <3>2. PICK e \in token .. work.last : Whole(line, s, token, e)
      BY <2>1, <2>3 DEF TokenRight
    <3>3. token \in 1 .. Len(line) /\ e \in Nat
      BY <1>1, <1>3, <3>1, <3>2
    <3>4. Read(token)
      BY <1>1, <3>2, <3>3, WordRead DEF Read
    <3> QED
      BY <1>2, <2>3, <3>1, <3>4 DEF token
  <2> QED
    BY <2>2, <2>3
<1> QED
  BY <1>4 DEF TokensAreWords, line, s, starts, Read

-----------------------------------------------------------------------------
(* The library *)

StringsInv ==
  \/ work = Idle
  \/ (Doing("memmove") \/ Doing("memcpy")) /\ CopyRight(work)
  \/ Doing("strtok") /\ TokRight(work)
  \/ Doing("split") /\ SplitRight(work)

LEMMA StringsStep ==
  ASSUME StringsInv, StringsNext
  PROVE  StringsInv'
<1>1. ASSUME NEW op \in {"memmove", "memcpy"}, Move(op) PROVE StringsInv'
  <2>1. CopyRight(work')
    BY <1>1, CopyStarts
  <2>2. work'.op \in {"memmove", "memcpy"}
    BY <2>1 DEF CopyRight, Copy
  <2> QED
    BY <2>1, <2>2 DEF StringsInv, Doing
<1>2. CASE CopyByte
  <2>1. CopyRight(work)
    BY <1>2 DEF StringsInv, CopyByte, Doing, Idle
  <2>2. CopyRight(work')
    BY <1>2, <2>1, CopyGoesOn
  <2>3. work'.op \in {"memmove", "memcpy"}
    BY <2>2 DEF CopyRight, Copy
  <2> QED
    BY <2>2, <2>3 DEF StringsInv, Doing
<1>3. CASE Tokenize
  <2>1. TokRight(work')
    BY <1>3, TokenizeStarts
  <2>2. work'.op = "strtok"
    BY <2>1 DEF TokRight
  <2> QED
    BY <2>1, <2>2 DEF StringsInv, Doing
<1>4. CASE strtok
  <2>1. TokRight(work)
    BY <1>4 DEF StringsInv, strtok, Doing, Idle
  <2>2. TokRight(work')
    BY <1>4, <2>1, StrtokGoesOn
  <2>3. work'.op = "strtok"
    BY <2>2 DEF TokRight
  <2> QED
    BY <2>2, <2>3 DEF StringsInv, Doing
<1>5. CASE split_path
  <2>1. work'.op = "split" /\ SplitRight(work')
    BY <1>5, SplitMakes
  <2> QED
    BY <2>1 DEF StringsInv, Doing
<1>6. CASE Done
  BY <1>6 DEF Done, StringsInv
<1> QED
  BY <1>1, <1>2, <1>3, <1>4, <1>5, <1>6 DEF StringsNext, memmove, memcpy

LEMMA StringsInvHolds == LibrarySpec => []StringsInv
<1>1. LibraryInit => StringsInv
  BY DEF LibraryInit, StringsInit, StringsInv
<1>2. ASSUME StringsInv, [LibraryNext]_libraryVars PROVE StringsInv'
  <2>1. CASE StringsNext
    BY <1>2, <2>1, StringsStep
  <2>2. CASE UNCHANGED work
    <3>1. work' = work
      BY <2>2
    <3>2. CopyRight(work) = CopyRight(work') /\ TokRight(work) = TokRight(work')
          /\ SplitRight(work) = SplitRight(work')
      BY <3>1
    <3> QED
      BY <1>2, <3>1, <3>2 DEF StringsInv, Doing
  <2> QED
    BY <1>2, <2>1, <2>2 DEF LibraryNext, libraryVars
<1> QED
  BY <1>1, <1>2, PTL DEF LibrarySpec

(* memmove, for any overlap, and memcpy, where it may be used, leave what  *)
(* copying all bytes at once would (string.cpp:41-48, 63-78).              *)
THEOREM CopiesAreAtOnce == LibrarySpec => []CopiesAtOnce
<1>1. StringsInv => CopiesAtOnce
  BY CopyImplies DEF StringsInv, CopiesAtOnce, Doing, Idle, Safe
<1> QED
  BY <1>1, StringsInvHolds, PTL

(* The calls of strtok find each word of the line once, in order, whatever *)
(* NULs they have written before (string.cpp:131-171).                     *)
THEOREM TokensAreTheWords == LibrarySpec => []TokensAreWords
<1>1. StringsInv => TokensAreWords
  <2>1. ASSUME StringsInv, Doing("strtok") PROVE TokensAreWords
    <3>1. TokRight(work)
      BY <2>1 DEF StringsInv, Doing, Idle
    <3> QED
      BY <2>1, <3>1, TokRightImplies
  <2>2. ~ Doing("strtok") => TokensAreWords
    BY DEF TokensAreWords
  <2> QED
    BY <2>1, <2>2
<1> QED
  BY <1>1, StringsInvHolds, PTL

(* The parent and the name split_path leaves in its arrays make up the     *)
(* path (ramfs.cpp:254-269).                                               *)
THEOREM SplitMakesThePath == LibrarySpec => []SplitRejoins
<1>1. StringsInv => SplitRejoins
  BY DEF StringsInv, SplitRejoins, SplitRight, Doing, Idle
<1> QED
  BY <1>1, StringsInvHolds, PTL

-----------------------------------------------------------------------------
(* Numerals *)

Bases == {10, 16}
DigitChars == {digits[d] : d \in 1 .. 16}

LEMMA DigitsDiffer ==
  /\ DOMAIN digits = 1 .. 16
  /\ \A d, e \in 1 .. 16 : digits[d] = digits[e] => d = e
  /\ digits[1] = "0" /\ "-" \notin DigitChars /\ Junk \notin DigitChars
<1>1. DOMAIN digits = 1 .. 16
  BY DEF digits
<1>2. /\ digits[1] = "0" /\ digits[2] = "1" /\ digits[3] = "2" /\ digits[4] = "3"
      /\ digits[5] = "4" /\ digits[6] = "5" /\ digits[7] = "6" /\ digits[8] = "7"
      /\ digits[9] = "8" /\ digits[10] = "9" /\ digits[11] = "A" /\ digits[12] = "B"
      /\ digits[13] = "C" /\ digits[14] = "D" /\ digits[15] = "E" /\ digits[16] = "F"
  BY DEF digits
<1>3. \A d \in 1 .. 16 : d = 1 \/ d = 2 \/ d = 3 \/ d = 4 \/ d = 5 \/ d = 6 \/ d = 7 \/ d = 8
                      \/ d = 9 \/ d = 10 \/ d = 11 \/ d = 12 \/ d = 13 \/ d = 14 \/ d = 15 \/ d = 16
  OBVIOUS
<1>4. ASSUME NEW d \in 1 .. 16, NEW e \in 1 .. 16, digits[d] = digits[e] PROVE d = e
  BY <1>2, <1>3, <1>4
<1>5. \A d \in 1 .. 16 : digits[d] # "-" /\ digits[d] # Junk
  BY <1>2, <1>3 DEF Junk
<1> QED
  BY <1>1, <1>2, <1>4, <1>5 DEF DigitChars

LEMMA DigitReads ==
  /\ \A d \in 0 .. 15 : Digit(d) \in DigitChars /\ DigitValue(Digit(d)) = d
  /\ \A c \in DigitChars : DigitValue(c) \in 0 .. 15
  /\ \A d \in Int : d \notin 0 .. 15 => Digit(d) = Junk
  /\ Digit(0) = "0" /\ DigitValue("0") = 0
  /\ \A d \in 0 .. 15 : Digit(d) = "0" => d = 0
<1>1. ASSUME NEW d \in 0 .. 15
      PROVE  /\ Digit(d) = digits[d + 1] /\ Digit(d) \in DigitChars
             /\ DigitValue(Digit(d)) = d
  <2>1. d + 1 \in 1 .. 16 /\ Digit(d) = digits[d + 1]
    BY DEF Digit
  <2>2. (CHOOSE e \in DOMAIN digits : digits[e] = digits[d + 1]) = d + 1
    BY <2>1, DigitsDiffer
  <2>3. DigitValue(Digit(d)) = (d + 1) - 1
    BY <2>1, <2>2 DEF DigitValue
  <2> QED
    BY <2>1, <2>3 DEF DigitChars
<1>2. ASSUME NEW c \in DigitChars PROVE DigitValue(c) \in 0 .. 15
  <2>1. PICK d \in 1 .. 16 : c = digits[d]
    BY DEF DigitChars
  <2>2. d - 1 \in 0 .. 15 /\ (d - 1) + 1 = d
    OBVIOUS
  <2> QED
    BY <1>1, <2>1, <2>2
<1>3. \A d \in Int : d \notin 0 .. 15 => Digit(d) = Junk
  BY DEF Digit
<1>4. Digit(0) = "0"
  BY <1>1, DigitsDiffer
<1>5. ASSUME NEW d \in 0 .. 15, Digit(d) = "0" PROVE d = 0
  BY <1>1, <1>4, <1>5
<1> QED
  BY <1>1, <1>2, <1>3, <1>4, <1>5

(* The numbers met while the digits ds are read behind n. *)
Reading(r, n, ds, b) ==
  /\ r \in [0 .. Len(ds) -> Int]
  /\ r[0] = n
  /\ \A i \in 1 .. Len(ds) : r[i] = b * r[i - 1] + DigitValue(ds[i])

LEMMA ReadingIs ==
  ASSUME NEW n \in Int, NEW b \in Bases, NEW ds \in Seq(DigitChars)
  PROVE  \E r : Reading(r, n, ds, b) /\ ReadOn(n, ds, b) = r[Len(ds)]
<1> DEFINE L == Len(ds)
           step == [i \in 1 .. L |-> [x \in Int |-> b * x + DigitValue(ds[i])]]
           Fits(r) == r = [i \in 0 .. L |-> IF i = 0 THEN n ELSE b * r[i - 1] + DigitValue(ds[i])]
<1>1. L \in Nat /\ b \in Int /\ \A i \in 1 .. L : DigitValue(ds[i]) \in Int
  BY DigitReads DEF Bases
<1>2. step \in [1 .. L -> [Int -> Int]]
  <2> HIDE DEF L
  <2> QED
    BY <1>1
<1>3. PICK f : Iterates(f, L, Int, n, step)
  <2> HIDE DEF L, step
  <2> QED
    BY <1>1, <1>2, Iteration
<1>4. f \in [0 .. L -> Int] /\ f[0] = n /\ \A i \in 1 .. L : f[i] = step[i][f[i - 1]]
  BY <1>3 DEF Iterates
<1>5. ASSUME NEW i \in 0 .. L
      PROVE  f[i] = IF i = 0 THEN n ELSE b * f[i - 1] + DigitValue(ds[i])
  <2>1. CASE i = 0
    BY <1>4, <2>1
  <2>2. CASE i # 0
    <3>1. i \in 1 .. L /\ i - 1 \in 0 .. L
      BY <1>1, <2>2
    <3>2. f[i - 1] \in Int
      BY <1>4, <3>1
    <3>3. f[i] = b * f[i - 1] + DigitValue(ds[i])
      BY <1>4, <3>1, <3>2
    <3> QED
      BY <2>2, <3>3
  <2> QED
    BY <2>1, <2>2
<1>6. Fits(f)
  <2> HIDE DEF L
  <2> QED
    BY <1>4, <1>5
<1> DEFINE r == CHOOSE g : Fits(g)
<1>7. Fits(r)
  <2> HIDE DEF Fits
  <2> QED
    BY <1>6
<1>8. ReadOn(n, ds, b) = r[L]
  BY DEF ReadOn
<1>9. Reading(r, n, ds, b)
  <2> HIDE DEF r
  <2>1. DOMAIN r = 0 .. L /\ r[0] = n /\ \A i \in 1 .. L : r[i] = b * r[i - 1] + DigitValue(ds[i])
    <3>1. r = [i \in 0 .. L |-> IF i = 0 THEN n ELSE b * r[i - 1] + DigitValue(ds[i])]
      BY <1>7
    <3> HIDE DEF L, Fits
    <3>2. 0 \in 0 .. L /\ \A i \in 1 .. L : i \in 0 .. L /\ i # 0
      BY <1>1
    <3> QED
      BY <3>1, <3>2
  <2> DEFINE S == {i \in 0 .. L : r[i] \in Int}
  <2>2. 0 \in S
    BY <1>1, <2>1
  <2>3. ASSUME NEW i \in 0 .. (L - 1), i \in S PROVE i + 1 \in S
    <3>1. i + 1 \in 1 .. L /\ (i + 1) - 1 = i /\ i + 1 \in 0 .. L
      BY <1>1
    <3>2. r[i + 1] = b * r[i] + DigitValue(ds[i + 1])
      BY <2>1, <3>1
    <3>3. r[i] \in Int /\ DigitValue(ds[i + 1]) \in Int
      BY <1>1, <2>3, <3>1
    <3>4. b * r[i] \in Int
      BY <1>1, <3>3
    <3> QED
      BY <3>1, <3>2, <3>3, <3>4
  <2>4. 0 .. L \subseteq S
    <3> HIDE DEF S, L
    <3> QED
      BY <1>1, <2>2, <2>3, Induction
  <2>5. r = [i \in 0 .. L |-> r[i]]
    BY <1>7
  <2>6. r \in [0 .. L -> Int]
    <3> HIDE DEF L, Fits
    <3> QED
      BY <2>4, <2>5
  <2> QED
    BY <2>1, <2>6 DEF Reading
<1> QED
  <2> HIDE DEF r
  <2> QED
    BY <1>8, <1>9

(* A digit that is read first. *)
LEMMA ReadFirst ==
  ASSUME NEW n \in Int, NEW b \in Bases, NEW ds \in Seq(DigitChars), NEW c \in DigitChars
  PROVE  ReadOn(n, <<c>> \o ds, b) = ReadOn(b * n + DigitValue(c), ds, b)
<1> DEFINE L == Len(ds)
           all == <<c>> \o ds
           m == b * n + DigitValue(c)
<1>1. /\ L \in Nat /\ b \in Int /\ DigitValue(c) \in Int
      /\ all \in Seq(DigitChars) /\ Len(all) = L + 1 /\ all[1] = c
      /\ \A i \in 1 .. L : all[i + 1] = ds[i]
  <2>1. <<c>> \in Seq(DigitChars) /\ Len(<<c>>) = 1 /\ <<c>>[1] = c
    OBVIOUS
  <2>2. b \in Int /\ DigitValue(c) \in Int
    BY DigitReads DEF Bases
  <2> QED
    BY <2>1, <2>2
<1>2. m \in Int
  BY <1>1
<1> HIDE DEF all, L, m
<1>3. PICK r : Reading(r, n, all, b) /\ ReadOn(n, all, b) = r[Len(all)]
  BY <1>1, ReadingIs
<1>4. PICK q : Reading(q, m, ds, b) /\ ReadOn(m, ds, b) = q[Len(ds)]
  BY <1>2, ReadingIs
<1>5. /\ r \in [0 .. (L + 1) -> Int] /\ r[0] = n
      /\ \A i \in 1 .. (L + 1) : r[i] = b * r[i - 1] + DigitValue(all[i])
  BY <1>1, <1>3 DEF Reading
<1>6. /\ q \in [0 .. L -> Int] /\ q[0] = m
      /\ \A i \in 1 .. L : q[i] = b * q[i - 1] + DigitValue(ds[i])
  BY <1>4 DEF Reading, L
<1> DEFINE S == {i \in 0 .. L : r[i + 1] = q[i]}
<1>7. 0 \in S
  <2>1. 1 \in 1 .. (L + 1) /\ 0 \in 0 .. L /\ 0 + 1 = 1 /\ 1 - 1 = 0
    BY <1>1
  <2>2. r[1] = b * n + DigitValue(c)
    BY <1>1, <1>5, <2>1
  <2> QED
    BY <1>6, <2>1, <2>2 DEF m
<1>8. ASSUME NEW i \in 0 .. (L - 1), i \in S PROVE i + 1 \in S
  <2>1. /\ i + 1 \in 1 .. L /\ i + 1 \in 0 .. L /\ (i + 1) - 1 = i
        /\ (i + 1) + 1 \in 1 .. (L + 1) /\ ((i + 1) + 1) - 1 = i + 1
    BY <1>1
  <2>2. all[(i + 1) + 1] = ds[i + 1]
    BY <1>1, <2>1
  <2>3. r[(i + 1) + 1] = b * r[i + 1] + DigitValue(ds[i + 1])
    BY <1>5, <2>1, <2>2
  <2>4. q[i + 1] = b * q[i] + DigitValue(ds[i + 1])
    BY <1>6, <2>1
  <2> QED
    BY <1>8, <2>1, <2>3, <2>4
<1>9. 0 .. L \subseteq S
  <2> HIDE DEF S
  <2> QED
    BY <1>1, <1>7, <1>8, Induction
<1>10. L \in 0 .. L
  BY <1>1
<1>11. r[L + 1] = q[L]
  BY <1>9, <1>10
<1> QED
  BY <1>1, <1>3, <1>4, <1>11 DEF all, L, m

LEMMA ReadNothing ==
  ASSUME NEW n \in Int, NEW b \in Bases, NEW ds \in Seq(DigitChars), Len(ds) = 0
  PROVE  ReadOn(n, ds, b) = n
<1>1. PICK r : Reading(r, n, ds, b) /\ ReadOn(n, ds, b) = r[Len(ds)]
  BY ReadingIs
<1> QED
  BY <1>1 DEF Reading

(* With more digits the number does not become smaller, and at least by a  *)
(* factor of ten with each.                                                *)
LEMMA ReadingGrows ==
  ASSUME NEW n \in Nat, NEW b \in Bases, NEW ds \in Seq(DigitChars)
  PROVE  /\ ReadOn(n, ds, b) \in Nat
         /\ n > 0 => \A zeros \in Seq(DigitChars) :
              Len(zeros) <= Len(ds) /\ (\A i \in 1 .. Len(zeros) : zeros[i] = "0") =>
                ReadOn(n, ds, b) >= ReadOn(1, zeros, 10)
<1> DEFINE L == Len(ds)
           v(i) == DigitValue(ds[i])
<1>1. L \in Nat /\ b \in Int /\ (b = 10 \/ b = 16) /\ \A i \in 1 .. L : v(i) \in Nat
  BY DigitReads DEF Bases
<1>2. PICK r : Reading(r, n, ds, b) /\ ReadOn(n, ds, b) = r[Len(ds)]
  BY ReadingIs
<1> HIDE DEF v, L
<1>3. /\ r \in [0 .. L -> Int] /\ r[0] = n
      /\ \A i \in 1 .. L : r[i] = b * r[i - 1] + v(i)
  BY <1>2 DEF Reading, L, v
<1>4. ASSUME NEW i \in 1 .. L
      PROVE  /\ i - 1 \in 0 .. L /\ i \in 0 .. L /\ r[i] \in Int /\ r[i - 1] \in Int
             /\ r[i - 1] >= 0 => r[i] >= 10 * r[i - 1]
  <2>1. i - 1 \in 0 .. L /\ i \in 0 .. L
    BY <1>1
  <2>2. r[i] = b * r[i - 1] + v(i) /\ v(i) \in Nat /\ r[i - 1] \in Int /\ r[i] \in Int
    BY <1>1, <1>3, <2>1
  <2>3. CASE b = 10
    BY <2>1, <2>2, <2>3
  <2>4. CASE b = 16
    BY <2>1, <2>2, <2>4
  <2> QED
    BY <1>1, <2>3, <2>4
<1> DEFINE P == {i \in 0 .. L : r[i] >= 0}
<1>5. 0 .. L \subseteq P
  <2>1. 0 \in P
    BY <1>1, <1>3
  <2>2. ASSUME NEW i \in 0 .. (L - 1), i \in P PROVE i + 1 \in P
    <3>1. i + 1 \in 1 .. L /\ (i + 1) - 1 = i /\ i + 1 \in 0 .. L
      BY <1>1
    <3> DEFINE x == r[i]
               y == r[i + 1]
    <3>2. x \in Int /\ y \in Int /\ x >= 0 /\ y >= 10 * x
      BY <1>4, <2>2, <3>1
    <3> HIDE DEF x, y
    <3>3. y >= 0
      BY <3>2
    <3> QED
      BY <3>1, <3>3 DEF y
  <2> HIDE DEF P
  <2> QED
    BY <1>1, <2>1, <2>2, Induction
<1>6. r[L] \in Nat
  <2>1. L \in 0 .. L
    BY <1>1
  <2> QED
    BY <1>3, <1>5, <2>1
<1>7. ASSUME n > 0, NEW zeros \in Seq(DigitChars), Len(zeros) <= L,
             \A i \in 1 .. Len(zeros) : zeros[i] = "0"
      PROVE  r[L] >= ReadOn(1, zeros, 10)
  <2> DEFINE K == Len(zeros)
  <2>1. 10 \in Bases /\ 1 \in Int /\ K \in Nat /\ K <= L
    BY <1>7 DEF Bases
  <2>2. PICK q : Reading(q, 1, zeros, 10) /\ ReadOn(1, zeros, 10) = q[Len(zeros)]
    BY <2>1, ReadingIs
  <2>3. /\ q \in [0 .. K -> Int] /\ q[0] = 1
        /\ \A i \in 1 .. K : q[i] = 10 * q[i - 1] + DigitValue(zeros[i])
    BY <2>2 DEF Reading
  <2>4. \A i \in 1 .. K : zeros[i] = "0"
    BY <1>7
  <2> HIDE DEF K
  <2>5. \A i \in 1 .. K : q[i] = 10 * q[i - 1]
    <3>1. ASSUME NEW i \in 1 .. K PROVE q[i] = 10 * q[i - 1]
      <4>1. i - 1 \in 0 .. K
        BY <2>1
      <4>2. q[i - 1] \in Int
        BY <2>3, <4>1
      <4>3. q[i] = 10 * q[i - 1] + 0
        BY <2>3, <2>4, DigitReads
      <4> QED
        BY <4>2, <4>3
    <3> QED
      BY <3>1
  <2> DEFINE S == {i \in 0 .. L : r[i] > 0 /\ r[i] >= q[IF i <= K THEN i ELSE K]}
  <2>6. 0 \in S
    BY <1>1, <1>3, <1>7, <2>1, <2>3
  <2>7. ASSUME NEW i \in 0 .. (L - 1), i \in S PROVE i + 1 \in S
    <3>1. i + 1 \in 1 .. L /\ (i + 1) - 1 = i /\ i + 1 \in 0 .. L
      BY <1>1
    <3> DEFINE x == r[i]
               y == r[i + 1]
    <3>2. x \in Int /\ y \in Int /\ x > 0 /\ y >= 10 * x /\ x >= q[IF i <= K THEN i ELSE K]
      BY <1>4, <2>7, <3>1
    <3>3. CASE i < K
      <4>1. i + 1 \in 1 .. K /\ (i + 1) - 1 = i /\ i \in 0 .. K /\ i + 1 \in 0 .. K
        BY <2>1, <3>3
      <4> DEFINE z == q[i]
                 u == q[i + 1]
      <4>2. z \in Int /\ u \in Int /\ u = 10 * z
        BY <2>3, <2>5, <4>1
      <4>3. x >= z
        <5>1. (IF i <= K THEN i ELSE K) = i
          BY <4>1
        <5> HIDE DEF x
        <5> QED
          BY <3>2, <5>1
      <4> HIDE DEF x, y, z, u
      <4>4. y > 0 /\ y >= u
        BY <3>2, <4>2, <4>3
      <4>5. (IF i + 1 <= K THEN i + 1 ELSE K) = i + 1
        BY <4>1
      <4> QED
        BY <3>1, <4>4, <4>5 DEF y, u
    <3>4. CASE ~ (i < K)
      <4>1. (IF i + 1 <= K THEN i + 1 ELSE K) = K /\ (IF i <= K THEN i ELSE K) = K
        BY <2>1, <3>4
      <4> DEFINE z == q[K]
      <4>2. z \in Int
        BY <2>1, <2>3
      <4>3. x >= z
        BY <3>2, <4>1
      <4> HIDE DEF x, y, z
      <4>4. y > 0 /\ y >= z
        BY <3>2, <4>2, <4>3
      <4> QED
        BY <3>1, <4>1, <4>4 DEF y, z
    <3> QED
      BY <3>3, <3>4
  <2>8. 0 .. L \subseteq S
    <3> HIDE DEF S
    <3> QED
      BY <1>1, <2>6, <2>7, Induction
  <2>9. L \in S
    BY <1>1, <2>8
  <2>10. (IF L <= K THEN L ELSE K) = K
    BY <1>1, <2>1
  <2> QED
    BY <2>2, <2>9, <2>10 DEF K
<1> QED
  BY <1>2, <1>6, <1>7 DEF L

LEMMA ReverseIs ==
  ASSUME NEW S, NEW s \in Seq(S)
  PROVE  /\ Reverse(s) \in Seq(S) /\ Len(Reverse(s)) = Len(s)
         /\ \A i \in 1 .. Len(s) : Reverse(s)[i] = s[(Len(s) - i) + 1]
         /\ \A c \in S : Reverse(Append(s, c)) = <<c>> \o Reverse(s)
<1> DEFINE L == Len(s)
           r == Reverse(s)
<1>1. L \in Nat /\ \A i \in 1 .. L : s[(L - i) + 1] \in S
  OBVIOUS
<1>2. r = [i \in 1 .. L |-> s[(L - i) + 1]]
  BY DEF Reverse
<1>3. r \in Seq(S) /\ Len(r) = L
  <2>1. r \in [1 .. L -> S]
    BY <1>1, <1>2
  <2> HIDE DEF r
  <2> QED
    BY <1>1, <2>1
<1>4. ASSUME NEW c \in S PROVE Reverse(Append(s, c)) = <<c>> \o r
  <2> DEFINE t == Append(s, c)
             u == <<c>> \o r
  <2>1. t \in Seq(S) /\ Len(t) = L + 1 /\ t[L + 1] = c /\ \A i \in 1 .. L : t[i] = s[i]
    OBVIOUS
  <2>2. Reverse(t) = [i \in 1 .. (L + 1) |-> t[((L + 1) - i) + 1]]
    BY <2>1 DEF Reverse
  <2>3. /\ u \in Seq(S) /\ Len(u) = L + 1 /\ u[1] = c
        /\ \A i \in 1 .. L : u[i + 1] = r[i]
    <3> HIDE DEF r
    <3>1. <<c>> \in Seq(S) /\ Len(<<c>>) = 1 /\ <<c>>[1] = c
      OBVIOUS
    <3> QED
      BY <1>1, <1>3, <3>1
  <2> HIDE DEF t, u, r
  <2>4. ASSUME NEW i \in 1 .. (L + 1) PROVE t[((L + 1) - i) + 1] = u[i]
    <3>1. CASE i = 1
      BY <1>1, <2>1, <2>3, <3>1
    <3>2. CASE i # 1
      <4> DEFINE k == i - 1
      <4>1. k \in 1 .. L /\ i = k + 1 /\ ((L + 1) - i) + 1 = (L - k) + 1
            /\ (L - k) + 1 \in 1 .. L
        BY <1>1, <3>2
      <4>2. u[i] = r[k] /\ r[k] = s[(L - k) + 1]
        BY <1>2, <2>3, <4>1
      <4> QED
        BY <2>1, <4>1, <4>2
    <3> QED
      BY <3>1, <3>2
  <2>5. u = [i \in 1 .. (L + 1) |-> u[i]]
    BY <1>1, <2>3
  <2>6. Reverse(t) = u
    BY <2>2, <2>4, <2>5
  <2> QED
    BY <2>6 DEF t, u
<1> QED
  BY <1>2, <1>3, <1>4

-----------------------------------------------------------------------------
(* itoa *)

(* temp has room for the digits of a number that is not larger than Half.  *)
LEMMA RoomForDigits ==
  /\ Half \in Nat \ {0} /\ BufferSize \in Nat /\ BufferSize >= 3
  /\ \A n \in Nat, b \in Bases, ds \in Seq(DigitChars) :
       n > 0 /\ ReadOn(n, ds, b) <= Half => Len(ds) < BufferSize - 2
<1> DEFINE K == BufferSize - 2
           zeros == [i \in 1 .. K |-> "0"]
<1>1. Half \in Nat \ {0} /\ BufferSize \in Nat \ {0} /\ Half < ReadOn(1, zeros, 10)
  BY StdioAssumption
<1>2. "0" \in DigitChars /\ 10 \in Bases
  BY DigitReads DEF Bases
<1>3. zeros \in Seq(DigitChars) /\ Len(zeros) = IF K >= 0 THEN K ELSE 0
  <2>1. CASE K >= 0
    <3>1. zeros \in [1 .. K -> DigitChars] /\ K \in Nat
      BY <1>1, <1>2, <2>1
    <3> HIDE DEF zeros, K
    <3>2. zeros \in Seq(DigitChars)
      BY <3>1
    <3> QED
      BY <2>1, <3>1, <3>2
  <2>2. CASE ~ (K >= 0)
    <3>1. 1 .. K = 1 .. 0
      BY <1>1, <2>2
    <3>2. zeros \in [1 .. 0 -> DigitChars] /\ 0 \in Nat
      BY <3>1
    <3> HIDE DEF zeros, K
    <3>3. zeros \in Seq(DigitChars)
      BY <3>2
    <3> QED
      BY <2>2, <3>2, <3>3
  <2> QED
    BY <2>1, <2>2
<1>a. K \in Int /\ 1 \in Int
  BY <1>1
<1> HIDE DEF zeros, K
<1>4. K >= 1
  <2>1. ASSUME ~ (K >= 1) PROVE FALSE
    <3>1. Len(zeros) = 0
      BY <1>a, <1>3, <2>1
    <3>2. zeros \in Seq(DigitChars) /\ 10 \in Bases
      BY <1>2, <1>3
    <3>3. ReadOn(1, zeros, 10) = 1
      BY <1>a, <3>1, <3>2, ReadNothing
    <3> QED
      BY <1>1, <3>3
  <2> QED
    BY <2>1
<1>5. ASSUME NEW n \in Nat, NEW b \in Bases, NEW ds \in Seq(DigitChars),
             n > 0, ReadOn(n, ds, b) <= Half, ~ (Len(ds) < BufferSize - 2)
      PROVE  FALSE
  <2>1. Len(zeros) <= Len(ds) /\ \A i \in 1 .. Len(zeros) : zeros[i] = "0"
    <3>1. \A i \in 1 .. K : zeros[i] = "0"
      BY DEF zeros
    <3> QED
      BY <1>1, <1>3, <1>4, <1>5, <3>1 DEF K
  <2>2. ReadOn(n, ds, b) >= ReadOn(1, zeros, 10) /\ ReadOn(n, ds, b) \in Nat
    BY <1>3, <1>5, <2>1, ReadingGrows
  <2>3. ReadOn(1, zeros, 10) \in Nat
    BY <1>2, <1>3, ReadingGrows
  <2> QED
    BY <1>1, <1>5, <2>2, <2>3
<1>6. BufferSize >= 3
  BY <1>1, <1>4 DEF K
<1> QED
  BY <1>1, <1>5, <1>6

(* What value may be when the loop begins. *)
Values(n, neg) == IF neg THEN Negated(int32_t(n)) ELSE {int32_t(n)}
Negative(n, b) == b = 10 /\ int32_t(n) < 0

(* v is left of v0, and the digits ds have been put into temp. *)
Partial(v0, ds, b, v) ==
  \/ ds = << >> /\ v = v0
  \/ /\ ds # << >> /\ ds \in Seq(DigitChars) /\ v > 0 /\ v0 > 0
     /\ ReadOn(v, Reverse(ds), b) = v0

(* The digits of v0 are in temp.  A negative one has one digit, or a byte  *)
(* from outside the table.                                                 *)
Numeral(v0, ds, b) ==
  /\ ds # << >> /\ Len(ds) <= BufferSize - 2
  /\ IF v0 >= 0
       THEN /\ ds \in Seq(DigitChars) /\ ReadOn(0, Reverse(ds), b) = v0
            /\ Last(ds) = "0" => Len(ds) = 1
       ELSE ds = <<Digit(Remainder(v0, b))>>

LEMMA WordsAreInts ==
  ASSUME NEW n \in MachineWords
  PROVE  /\ n \in Int /\ int32_t(n) \in INT_MIN .. (Half - 1)
         /\ Half \in Nat \ {0} /\ INT_MIN = - Half
         /\ n < Half => int32_t(n) = n
         /\ n >= Half => int32_t(n) < 0
BY RoomForDigits DEF MachineWords, int32_t, INT_MIN

LEMMA ValuesInRange ==
  ASSUME NEW n \in MachineWords, NEW b \in Bases, NEW v \in Values(n, Negative(n, b))
  PROVE  v \in INT_MIN .. Half
<1>1. /\ int32_t(n) \in INT_MIN .. (Half - 1) /\ Half \in Nat \ {0} /\ INT_MIN = - Half
  BY WordsAreInts
<1> DEFINE w == int32_t(n)
<1>2. v = w \/ v = - w \/ v = INT_MIN \/ v = Half
  BY DEF Values, Negated
<1> HIDE DEF w
<1> QED
  BY <1>1, <1>2 DEF w

(* A round of the loop divides, and what it takes off is a digit unless    *)
(* the number is negative.                                                 *)
LEMMA DivisionStep ==
  ASSUME NEW b \in Bases, NEW v \in Int
  PROVE  /\ Quotient(v, b) \in Int /\ Remainder(v, b) \in Int
         /\ v >= 0 => /\ Remainder(v, b) \in 0 .. 15 /\ Quotient(v, b) >= 0
                      /\ Quotient(v, b) <= v
                      /\ b * Quotient(v, b) + Remainder(v, b) = v
                      /\ v > 0 /\ Quotient(v, b) = 0 => Remainder(v, b) # 0
         /\ v < 0 => /\ Remainder(v, b) <= 0 /\ Quotient(v, b) <= 0 /\ Quotient(v, b) >= v
<1>1. b = 10 \/ b = 16
  BY DEF Bases
<1>2. CASE v >= 0
  <2> DEFINE q == v \div b
  <2>1. v = b * q + (v % b) /\ v % b \in 0 .. (b - 1) /\ q \in Nat
    <3>1. v \in Nat
      BY <1>2
    <3>2. CASE b = 10
      BY <3>1, <3>2
    <3>3. CASE b = 16
      BY <3>1, <3>3
    <3> QED
      BY <1>1, <3>2, <3>3
  <2>2. Quotient(v, b) = q /\ Remainder(v, b) = v - b * q
    BY <1>2 DEF Quotient, Remainder
  <2> HIDE DEF q
  <2> QED
    BY <1>1, <1>2, <2>1, <2>2
<1>3. CASE v < 0
  <2> DEFINE u == - v
             q == u \div b
  <2>1. u \in Nat /\ u > 0
    BY <1>3
  <2>2. u = b * q + (u % b) /\ u % b \in 0 .. (b - 1) /\ q \in Nat
    <3> HIDE DEF u
    <3>1. CASE b = 10
      BY <2>1, <3>1
    <3>2. CASE b = 16
      BY <2>1, <3>2
    <3> QED
      BY <1>1, <3>1, <3>2
  <2>3. Quotient(v, b) = - q /\ Remainder(v, b) = v - b * (- q)
    BY <1>3 DEF Quotient, Remainder
  <2>4. v = - u
    OBVIOUS
  <2> HIDE DEF q, u
  <2> QED
    BY <1>1, <2>1, <2>2, <2>3, <2>4
<1> QED
  BY <1>2, <1>3

LEMMA DigitPut ==
  ASSUME NEW b \in Bases, NEW v0 \in Int, v0 <= Half, NEW ds, NEW v \in Int, Partial(v0, ds, b, v)
  PROVE  LET q == Quotient(v, b)
             put == Append(ds, Digit(Remainder(v, b)))
         IN  IF q > 0 THEN Partial(v0, put, b, q) /\ Len(put) <= BufferSize - 2
             ELSE Numeral(v0, put, b)
<1> DEFINE q == Quotient(v, b)
           r == Remainder(v, b)
           c == Digit(r)
           put == Append(ds, c)
<1>1. /\ q \in Int /\ r \in Int
      /\ v >= 0 => /\ r \in 0 .. 15 /\ q >= 0 /\ q <= v /\ b * q + r = v
                   /\ v > 0 /\ q = 0 => r # 0
      /\ v < 0 => r <= 0 /\ q <= 0
  BY DivisionStep
<1>2. /\ Half \in Nat \ {0} /\ BufferSize \in Nat /\ BufferSize >= 3 /\ b \in Int
      /\ \A n \in Nat, es \in Seq(DigitChars) :
           n > 0 /\ ReadOn(n, es, b) <= Half => Len(es) < BufferSize - 2
  BY RoomForDigits DEF Bases
<1> HIDE DEF q, r
<1>3. CASE v < 0
  <2>1. ds = << >> /\ v0 = v
    BY <1>3 DEF Partial
  <2>2. put = <<c>>
    BY <2>1
  <2>3. Numeral(v0, put, b)
    <3>1. put # << >> /\ Len(put) = 1 /\ put = <<Digit(Remainder(v0, b))>>
      BY <2>1, <2>2 DEF r
    <3> HIDE DEF put
    <3> QED
      BY <1>2, <1>3, <2>1, <3>1 DEF Numeral
  <2>4. ~ (q > 0)
    BY <1>1, <1>3
  <2> QED
    BY <2>3, <2>4 DEF q, r
<1>4. CASE v >= 0
  <2>1. ds \in Seq(DigitChars) /\ v0 >= 0 /\ ReadOn(v, Reverse(ds), b) = v0
        /\ (ds # << >> => v > 0 /\ v0 > 0)
    <3>1. CASE ds = << >> /\ v = v0
      <4>1. ds \in Seq(DigitChars) /\ Len(ds) = 0
        BY <3>1
      <4>2. Reverse(ds) \in Seq(DigitChars) /\ Len(Reverse(ds)) = 0
        BY <4>1, ReverseIs
      <4>3. ReadOn(v, Reverse(ds), b) = v
        BY <4>2, ReadNothing
      <4> QED
        BY <1>4, <3>1, <4>1, <4>3
    <3>2. CASE ~ (ds = << >> /\ v = v0)
      BY <3>2 DEF Partial
    <3> QED
      BY <3>1, <3>2
  <2>2. c \in DigitChars /\ DigitValue(c) = r /\ (c = "0" => r = 0)
    BY <1>1, <1>4, DigitReads
  <2> HIDE DEF c
  <2>3. /\ put \in Seq(DigitChars) /\ Len(put) = Len(ds) + 1 /\ put # << >>
        /\ Last(put) = c
    BY <2>1, <2>2 DEF Last
  <2>4. Reverse(ds) \in Seq(DigitChars) /\ Len(Reverse(ds)) = Len(ds)
        /\ Reverse(put) = <<c>> \o Reverse(ds)
    BY <2>1, <2>2, ReverseIs
  <2> HIDE DEF put
  <2>5. ReadOn(q, Reverse(put), b) = v0
    <3>1. ReadOn(q, <<c>> \o Reverse(ds), b) = ReadOn(b * q + DigitValue(c), Reverse(ds), b)
      BY <1>1, <2>2, <2>4, ReadFirst
    <3>2. b * q + DigitValue(c) = v
      BY <1>1, <1>4, <2>2
    <3> QED
      BY <2>1, <2>4, <3>1, <3>2
  <2>6. Len(ds) + 1 <= BufferSize - 2
    <3>1. CASE ds = << >>
      BY <1>2, <3>1
    <3>2. CASE ds # << >>
      <4>1. v > 0 /\ v \in Nat /\ ReadOn(v, Reverse(ds), b) <= Half
        BY <2>1, <3>2
      <4>2. Len(Reverse(ds)) < BufferSize - 2
        BY <1>2, <2>4, <4>1
      <4> QED
        BY <1>2, <2>1, <2>4, <4>2
    <3> QED
      BY <3>1, <3>2
  <2>7. CASE q > 0
    <3>1. v0 > 0
      <4>1. q \in Nat /\ Reverse(put) \in Seq(DigitChars) /\ Len(Reverse(put)) = Len(put)
        BY <1>1, <2>3, <2>7, ReverseIs
      <4>2. v > 0
        BY <1>1, <1>4, <2>7
      <4>3. ds = << >> => v0 = v
        BY <2>1 DEF Partial
      <4> QED
        BY <2>1, <4>2, <4>3
    <3>2. Partial(v0, put, b, q) /\ Len(put) <= BufferSize - 2
      BY <2>3, <2>5, <2>6, <2>7, <3>1 DEF Partial
    <3> QED
      BY <2>7, <3>2 DEF q, r, c, put
  <2>8. CASE ~ (q > 0)
    <3>1. q = 0
      BY <1>1, <1>4, <2>8
    <3>2. c = "0" => Len(put) = 1
      <4>1. c = "0" => v = 0
        BY <1>1, <1>4, <2>2, <3>1
      <4>2. v = 0 => Len(ds) = 0
        BY <2>1
      <4> QED
        BY <2>3, <4>1, <4>2
    <3>3. Numeral(v0, put, b)
      BY <2>1, <2>3, <2>5, <2>6, <3>1, <3>2 DEF Numeral
    <3> QED
      BY <2>8, <3>3 DEF q, r, c, put
  <2> QED
    BY <2>7, <2>8
<1> QED
  BY <1>3, <1>4

(* All that printf can write. *)
Chars == STRING \cup DigitChars \cup {Percent, FormatEnd, Junk, "-", "0", "x"}

(* What is printed for one number, as NumeralsReadBack demands it. *)
Right(p) ==
  /\ Junk \notin ToSet(p.numeral)
  /\ Reads(p.numeral, p.base) = p.num
  /\ p.numeral[1] = "0" => Len(p.numeral) = 1
NumeralRight(p) ==
  /\ p.num \in (IF p.base = 10 THEN INT_MIN + 1 ELSE 0) .. (Half - 1) => Right(p)
  /\ p.num >= Half => ~ Right(p)

Entry(n, b, numeral) == [num |-> n, base |-> b, numeral |-> numeral]

LEMMA DigitsRead ==
  ASSUME NEW b \in Bases, NEW es \in Seq(DigitChars), es # << >>
  PROVE  /\ Reads(es, b) = ReadOn(0, es, b) /\ Junk \notin ToSet(es)
         /\ Reads(<<"-">> \o es, b) = - ReadOn(0, es, b)
         /\ Junk \notin ToSet(<<"-">> \o es) /\ (<<"-">> \o es)[1] = "-"
<1> DEFINE signed == <<"-">> \o es
<1>1. "-" \in Chars /\ DigitChars \subseteq Chars /\ Junk # "-"
  BY DEF Chars, Junk
<1>2. /\ Len(es) \in Nat /\ Len(es) > 0 /\ es[1] \in DigitChars
      /\ \A i \in 1 .. Len(es) : es[i] \in DigitChars
  OBVIOUS
<1>3. /\ signed \in Seq(Chars) /\ Len(signed) = Len(es) + 1 /\ signed[1] = "-"
      /\ \A i \in 1 .. Len(es) : signed[i + 1] = es[i]
  <2>1. <<"-">> \in Seq(Chars) /\ Len(<<"-">>) = 1 /\ <<"-">>[1] = "-" /\ es \in Seq(Chars)
    BY <1>1
  <2> QED
    BY <1>2, <2>1
<1> HIDE DEF signed
<1>4. Head(es) # "-" /\ Head(signed) = "-"
  <2>1. Head(es) = es[1] /\ Head(signed) = signed[1]
    BY <1>2, <1>3
  <2> QED
    BY <1>2, <1>3, <2>1, DigitsDiffer
<1>5. Tail(signed) = es
  <2>1. Tail(signed) \in Seq(Chars) /\ Len(Tail(signed)) = Len(es)
        /\ \A i \in 1 .. Len(es) : Tail(signed)[i] = signed[i + 1]
    BY <1>2, <1>3
  <2>2. es \in Seq(Chars)
    BY <1>1
  <2> DEFINE t == Tail(signed)
  <2> HIDE DEF t
  <2>3. t \in Seq(Chars) /\ Len(t) = Len(es) /\ \A i \in 1 .. Len(es) : t[i] = es[i]
    BY <1>3, <2>1 DEF t
  <2>4. t = es
    BY <2>2, <2>3
  <2> QED
    BY <2>4 DEF t
<1>6. Junk \notin ToSet(es)
  BY <1>2, DigitsDiffer DEF ToSet
<1>7. Junk \notin ToSet(signed)
  <2>1. ASSUME NEW i \in 1 .. (Len(es) + 1) PROVE signed[i] # Junk
    <3>1. CASE i = 1
      BY <1>1, <1>3, <3>1
    <3>2. CASE i # 1
      <4>1. i - 1 \in 1 .. Len(es) /\ (i - 1) + 1 = i
        BY <1>2, <3>2
      <4>2. signed[i] = es[i - 1]
        BY <1>3, <4>1
      <4> QED
        BY <1>2, <4>1, <4>2, DigitsDiffer
    <3> QED
      BY <3>1, <3>2
  <2> QED
    BY <1>3, <2>1 DEF ToSet
<1>8. Reads(es, b) = ReadOn(0, es, b)
  BY <1>4 DEF Reads
<1>9. Reads(signed, b) = - ReadOn(0, es, b)
  BY <1>4, <1>5 DEF Reads
<1> QED
  BY <1>3, <1>6, <1>7, <1>8, <1>9 DEF signed

(* The numeral of a number that is not negative, with or without a sign. *)
LEMMA NumeralIs ==
  ASSUME NEW b \in Bases, NEW v0 \in Int, NEW ds, Numeral(v0, ds, b), v0 >= 0
  PROVE  LET es == Reverse(ds)
         IN  /\ es \in Seq(DigitChars) /\ es # << >> /\ ReadOn(0, es, b) = v0
             /\ es[1] = "0" => Len(es) = 1
             /\ Reverse(Append(ds, "-")) = <<"-">> \o es
<1> DEFINE es == Reverse(ds)
<1>1. /\ ds \in Seq(DigitChars) /\ Len(ds) > 0 /\ ReadOn(0, es, b) = v0
      /\ ds[Len(ds)] = "0" => Len(ds) = 1
  <2>1. ds \in Seq(DigitChars) /\ ds # << >> /\ ReadOn(0, es, b) = v0
        /\ (Last(ds) = "0" => Len(ds) = 1)
    BY DEF Numeral
  <2> HIDE DEF es
  <2> QED
    BY <2>1 DEF Last
<1>2. es \in Seq(DigitChars) /\ Len(es) = Len(ds)
      /\ \A i \in 1 .. Len(ds) : es[i] = ds[(Len(ds) - i) + 1]
  BY <1>1, ReverseIs
<1>3. es[1] = ds[Len(ds)]
  <2>1. 1 \in 1 .. Len(ds) /\ (Len(ds) - 1) + 1 = Len(ds)
    BY <1>1
  <2> HIDE DEF es
  <2> QED
    BY <1>2, <2>1
<1>4. Reverse(Append(ds, "-")) = <<"-">> \o es
  <2>1. ds \in Seq(Chars) /\ "-" \in Chars
    BY <1>1 DEF Chars
  <2> QED
    BY <2>1, ReverseIs
<1> HIDE DEF es
<1>5. es # << >>
  BY <1>1, <1>2
<1> QED
  BY <1>1, <1>2, <1>3, <1>4, <1>5 DEF es

(* The one digit of a negative number is wrong, or 0. *)
LEMMA OneDigit ==
  ASSUME NEW b \in Bases, NEW v0 \in Int, NEW ds, Numeral(v0, ds, b), v0 < 0
  PROVE  \/ ds = <<Junk>> /\ Reverse(ds) = <<Junk>>
            /\ Reverse(Append(ds, "-")) = <<"-">> \o <<Junk>>
         \/ ds = <<"0">> /\ Reverse(ds) = <<"0">>
            /\ Reverse(Append(ds, "-")) = <<"-">> \o <<"0">>
<1> DEFINE c == Digit(Remainder(v0, b))
<1>1. ds = <<c>>
  BY DEF Numeral
<1>2. c = Junk \/ c = "0"
  <2>1. Remainder(v0, b) \in Int /\ Remainder(v0, b) <= 0
    BY DivisionStep
  <2>2. CASE Remainder(v0, b) = 0
    BY <2>2, DigitReads
  <2>3. CASE Remainder(v0, b) # 0
    <3>1. Remainder(v0, b) \notin 0 .. 15
      BY <2>1, <2>3
    <3> QED
      BY <2>1, <3>1, DigitReads
  <2> QED
    BY <2>2, <2>3
<1> HIDE DEF c
<1>3. c \in Chars /\ "-" \in Chars
  BY <1>2 DEF Chars
<1>4. ds \in Seq(Chars) /\ Len(ds) = 1 /\ ds[1] = c
  BY <1>1, <1>3
<1>5. Reverse(ds) = ds /\ Reverse(Append(ds, "-")) = <<"-">> \o Reverse(ds)
  <2>1. /\ Reverse(ds) \in Seq(Chars) /\ Len(Reverse(ds)) = Len(ds)
        /\ \A i \in 1 .. Len(ds) : Reverse(ds)[i] = ds[(Len(ds) - i) + 1]
        /\ \A e \in Chars : Reverse(Append(ds, e)) = <<e>> \o Reverse(ds)
    BY <1>4, ReverseIs
  <2> DEFINE r == Reverse(ds)
  <2> HIDE DEF r
  <2>2. r \in Seq(Chars) /\ Len(r) = 1 /\ r[1] = c
    <3>1. 1 \in 1 .. Len(ds) /\ (Len(ds) - 1) + 1 = 1
      BY <1>4
    <3> QED
      BY <1>4, <2>1, <3>1 DEF r
  <2>3. r = ds
    BY <1>4, <2>2
  <2>4. Reverse(Append(ds, "-")) = <<"-">> \o r
    BY <1>3, <2>1 DEF r
  <2> QED
    BY <2>3, <2>4 DEF r
<1> QED
  BY <1>1, <1>2, <1>5

(* What is in temp when the loop has ended. *)
Finished(n, b, t) ==
  \E v0 \in Values(n, Negative(n, b)), ds \in Seq(Chars) :
    Numeral(v0, ds, b) /\ t = IF Negative(n, b) THEN Append(ds, "-") ELSE ds

LEMMA NumeralReads ==
  ASSUME NEW n \in MachineWords, NEW b \in Bases, NEW t, Finished(n, b, t)
  PROVE  NumeralRight(Entry(n, b, Reverse(t)))
<1> DEFINE w == int32_t(n)
           neg == Negative(n, b)
           p == Entry(n, b, Reverse(t))
<1>1. /\ n \in Int /\ w \in INT_MIN .. (Half - 1) /\ Half \in Nat \ {0} /\ INT_MIN = - Half
      /\ n < Half => w = n
      /\ n >= Half => w < 0
  BY WordsAreInts
<1>2. PICK v0 \in Values(n, neg), ds \in Seq(Chars) :
        Numeral(v0, ds, b) /\ t = IF neg THEN Append(ds, "-") ELSE ds
  BY DEF Finished
<1>3. v0 \in Int
  BY <1>1, ValuesInRange
<1>4. /\ neg <=> b = 10 /\ w < 0
      /\ neg => v0 = - w \/ (w = INT_MIN /\ v0 \in {INT_MIN, Half})
      /\ ~ neg => v0 = w
  BY <1>2 DEF Values, Negated, Negative
<1>5. p.num = n /\ p.base = b /\ p.numeral = Reverse(t)
  BY DEF Entry
<1>6. b = 10 \/ b = 16
  BY DEF Bases
<1> HIDE DEF w, neg, p
<1>7. CASE v0 >= 0
  <2> DEFINE es == Reverse(ds)
  <2>1. /\ es \in Seq(DigitChars) /\ es # << >> /\ ReadOn(0, es, b) = v0
        /\ es[1] = "0" => Len(es) = 1
        /\ Reverse(Append(ds, "-")) = <<"-">> \o es
    BY <1>2, <1>3, <1>7, NumeralIs
  <2> HIDE DEF es
  <2>2. /\ Reads(es, b) = ReadOn(0, es, b) /\ Junk \notin ToSet(es)
        /\ Reads(<<"-">> \o es, b) = - ReadOn(0, es, b)
        /\ Junk \notin ToSet(<<"-">> \o es) /\ (<<"-">> \o es)[1] = "-"
    BY <2>1, DigitsRead
  <2>3. CASE neg
    <3>1. p.numeral = <<"-">> \o es /\ Reads(p.numeral, p.base) = - v0 /\ p.numeral[1] # "0"
          /\ Junk \notin ToSet(p.numeral)
      <4>1. p.numeral = <<"-">> \o es
        BY <1>2, <1>5, <2>1, <2>3
      <4> QED
        BY <1>5, <2>1, <2>2, <4>1
    <3>2. n < Half /\ n # INT_MIN => - v0 = n
      BY <1>1, <1>3, <1>4, <2>3
    <3>3. Right(p) <=> - v0 = n
      BY <1>5, <3>1 DEF Right
    <3>4. p.num \in (IF p.base = 10 THEN INT_MIN + 1 ELSE 0) .. (Half - 1) => - v0 = n
      BY <1>1, <1>4, <1>5, <2>3, <3>2
    <3>5. p.num >= Half => - v0 # n
      BY <1>1, <1>3, <1>5, <1>7
    <3> QED
      BY <3>3, <3>4, <3>5 DEF NumeralRight, p
  <2>4. CASE ~ neg
    <3>1. p.numeral = es /\ Reads(p.numeral, p.base) = v0 /\ Junk \notin ToSet(p.numeral)
          /\ (p.numeral[1] = "0" => Len(p.numeral) = 1)
      <4>1. p.numeral = es
        BY <1>2, <1>5, <2>4 DEF es
      <4> QED
        BY <1>5, <2>1, <2>2, <4>1
    <3>2. n < Half /\ v0 = n
      BY <1>1, <1>4, <1>7, <2>4
    <3>3. Right(p)
      BY <1>5, <3>1, <3>2 DEF Right
    <3> QED
      BY <1>1, <1>5, <3>2, <3>3 DEF NumeralRight, p
  <2> QED
    BY <2>3, <2>4
<1>8. CASE v0 < 0
  <2>1. \/ ds = <<Junk>> /\ Reverse(ds) = <<Junk>>
           /\ Reverse(Append(ds, "-")) = <<"-">> \o <<Junk>>
        \/ ds = <<"0">> /\ Reverse(ds) = <<"0">>
           /\ Reverse(Append(ds, "-")) = <<"-">> \o <<"0">>
    BY <1>2, <1>3, <1>8, OneDigit
  <2>2. p.numeral \in {<<Junk>>, <<"-">> \o <<Junk>>, <<"0">>, <<"-">> \o <<"0">>}
    BY <1>2, <1>5, <2>1
  <2>3. Junk \in ToSet(p.numeral) \/ (Reads(p.numeral, p.base) \in Int /\ Reads(p.numeral, p.base) <= 0)
    <3>1. Junk \in ToSet(<<Junk>>) /\ Junk \in ToSet(<<"-">> \o <<Junk>>)
      <4>1. <<Junk>>[1] = Junk /\ 1 \in DOMAIN <<Junk>>
        OBVIOUS
      <4>2. (<<"-">> \o <<Junk>>)[2] = Junk /\ 2 \in DOMAIN (<<"-">> \o <<Junk>>)
        <5>1. <<"-">> \in Seq({"-", Junk}) /\ <<Junk>> \in Seq({"-", Junk})
          OBVIOUS
        <5> QED
          BY <5>1
      <4> QED
        BY <4>1, <4>2 DEF ToSet
    <3>2. <<"0">> \in Seq(DigitChars) /\ <<"0">> # << >>
      BY DigitReads
    <3>3. ReadOn(0, <<"0">>, b) \in Nat
      BY <3>2, ReadingGrows
    <3>4. ReadOn(0, <<"0">>, b) = 0
      <4>0. "0" \in DigitChars
        BY DigitReads
      <4>1. << >> \in Seq(DigitChars) /\ Len(<< >>) = 0 /\ <<"0">> \o << >> = <<"0">> /\ 0 \in Int
        BY <3>2
      <4>2. ReadOn(0, <<"0">> \o << >>, b) = ReadOn(b * 0 + DigitValue("0"), << >>, b)
        BY <4>0, <4>1, ReadFirst
      <4>3. b * 0 + DigitValue("0") = 0
        BY <1>6, DigitReads
      <4> QED
        BY <4>1, <4>2, <4>3, ReadNothing
    <3>5. Reads(<<"0">>, b) = 0 /\ Reads(<<"-">> \o <<"0">>, b) = 0
      <4> DEFINE zero == <<"0">>
      <4> HIDE DEF zero
      <4>1. zero \in Seq(DigitChars) /\ zero # << >> /\ ReadOn(0, zero, b) = 0
        BY <3>2, <3>4 DEF zero
      <4>2. Reads(zero, b) = ReadOn(0, zero, b) /\ Reads(<<"-">> \o zero, b) = - ReadOn(0, zero, b)
        BY <4>1, DigitsRead
      <4>3. Reads(zero, b) = 0 /\ Reads(<<"-">> \o zero, b) = 0
        BY <4>1, <4>2
      <4> QED
        BY <4>3 DEF zero
    <3> DEFINE r == Reads(p.numeral, p.base)
    <3>6. Junk \in ToSet(p.numeral) \/ r = 0
      BY <1>5, <2>2, <3>1, <3>5
    <3> HIDE DEF r
    <3>7. Junk \in ToSet(p.numeral) \/ (r \in Int /\ r <= 0)
      BY <3>6
    <3> QED
      BY <3>7 DEF r
  <2>4. p.num >= Half => ~ Right(p)
    BY <1>1, <1>5, <2>3 DEF Right
  <2>5. p.num \notin (IF p.base = 10 THEN INT_MIN + 1 ELSE 0) .. (Half - 1)
    BY <1>1, <1>4, <1>5, <1>6, <1>8
  <2> QED
    BY <2>4, <2>5 DEF NumeralRight, p
<1> QED
  BY <1>3, <1>7, <1>8

-----------------------------------------------------------------------------
(* printf *)

FormatChars == STRING \cup {FormatEnd}

(* What is left of a format: characters, and then the NUL. *)
Tailed(f) ==
  /\ f \in Seq(FormatChars) /\ Len(f) > 0 /\ f[Len(f)] = FormatEnd
  /\ \A i \in 1 .. (Len(f) - 1) : f[i] # FormatEnd

Ended(o) == o # << >> /\ Last(o) = FormatEnd

LEMMA TailedRest ==
  ASSUME NEW f, Tailed(f), NEW k \in 2 .. Len(f)
  PROVE  Tailed(SubSeq(f, k, Len(f)))
<1> DEFINE L == Len(f)
           g == SubSeq(f, k, L)
<1>1. L \in Nat /\ f \in Seq(FormatChars) /\ f[L] = FormatEnd /\ k \in 2 .. L
      /\ \A i \in 1 .. (L - 1) : f[i] # FormatEnd
  BY DEF Tailed
<1>2. /\ g \in Seq(FormatChars) /\ Len(g) = (L - k) + 1
      /\ \A i \in 1 .. ((L - k) + 1) : g[i] = f[(i + k) - 1]
  <2>1. \A i \in k .. L : f[i] \in FormatChars
    BY <1>1
  <2> QED
    BY <1>1, <2>1
<1> HIDE DEF L, g
<1>3. (L - k) + 1 > 0 /\ (L - k) + 1 \in 1 .. ((L - k) + 1) /\ (((L - k) + 1) + k) - 1 = L
  BY <1>1
<1>4. ASSUME NEW i \in 1 .. (Len(g) - 1) PROVE g[i] # FormatEnd
  <2>1. i \in 1 .. ((L - k) + 1) /\ (i + k) - 1 \in 1 .. (L - 1)
    BY <1>1, <1>2
  <2> QED
    BY <1>1, <1>2, <2>1
<1> QED
  BY <1>1, <1>2, <1>3, <1>4 DEF Tailed, g, L

LEMMA TailedAppend ==
  ASSUME NEW s \in Seq(STRING), FormatEnd \notin ToSet(s)
  PROVE  Tailed(Append(s, FormatEnd))
<1> DEFINE f == Append(s, FormatEnd)
<1>1. s \in Seq(FormatChars) /\ FormatEnd \in FormatChars
  BY DEF FormatChars
<1>2. f \in Seq(FormatChars) /\ Len(f) = Len(s) + 1 /\ f[Len(s) + 1] = FormatEnd
      /\ \A i \in 1 .. Len(s) : f[i] = s[i]
  BY <1>1
<1>3. \A i \in 1 .. Len(s) : s[i] # FormatEnd
  BY DEF ToSet
<1> HIDE DEF f
<1> QED
  BY <1>2, <1>3 DEF Tailed, f

(* A format is at its end, or has a character in front of its NUL. *)
LEMMA TailedFront ==
  ASSUME NEW f, Tailed(f), f # <<FormatEnd>>
  PROVE  /\ Len(f) \in Nat /\ Len(f) > 1 /\ Head(f) = f[1]
         /\ f[1] \in FormatChars /\ f[2] \in FormatChars
         /\ f[1] # FormatEnd /\ (Len(f) = 2 <=> f[2] = FormatEnd)
<1>1. /\ f \in Seq(FormatChars) /\ Len(f) > 0 /\ f[Len(f)] = FormatEnd
      /\ \A i \in 1 .. (Len(f) - 1) : f[i] # FormatEnd
  BY DEF Tailed
<1>2. Len(f) # 1
  <2>1. ASSUME Len(f) = 1 PROVE FALSE
    <3>1. f[1] = FormatEnd /\ FormatEnd \in FormatChars
      BY <1>1, <2>1 DEF FormatChars
    <3>2. <<FormatEnd>> \in Seq(FormatChars)
      BY <3>1
    <3>3. f = <<FormatEnd>>
      BY <1>1, <2>1, <3>1, <3>2
    <3> QED
      BY <3>3
  <2> QED
    BY <2>1
<1>3. Len(f) \in Nat /\ Len(f) > 1 /\ Head(f) = f[1]
  <2>1. f \in Seq(FormatChars) /\ Len(f) \in Nat /\ f # << >>
    BY <1>1
  <2>2. Len(f) > 1
    <3> DEFINE L == Len(f)
    <3>1. L \in Nat /\ L > 0 /\ L # 1
      BY <1>1, <1>2, <2>1
    <3> HIDE DEF L
    <3>2. L > 1
      BY <3>1
    <3> QED
      BY <3>2 DEF L
  <2> QED
    BY <2>1, <2>2
<1>4. 1 \in 1 .. (Len(f) - 1) /\ 1 \in 1 .. Len(f) /\ 2 \in 1 .. Len(f)
  BY <1>3
<1>5. f[1] \in FormatChars /\ f[2] \in FormatChars /\ f[1] # FormatEnd
  BY <1>1, <1>4
<1>6. Len(f) = 2 => f[2] = FormatEnd
  BY <1>1
<1>7. Len(f) # 2 => f[2] # FormatEnd
  <2>1. Len(f) # 2 => 2 \in 1 .. (Len(f) - 1)
    <3> DEFINE L == Len(f)
    <3>1. L \in Nat /\ L > 1
      BY <1>3
    <3> HIDE DEF L
    <3>2. L # 2 => 2 \in 1 .. (L - 1)
      BY <3>1
    <3> QED
      BY <3>2 DEF L
  <2> QED
    BY <1>1, <2>1
<1> QED
  BY <1>3, <1>5, <1>6, <1>7

(* The invariant *)

FormatRight(a, f, o) ==
  /\ a \in {"digits", "reverse"} => Tailed(f)
  /\ a = "format" => Tailed(f) \/ (f = << >> /\ Ended(o))
  /\ a = "done" => f = <<FormatEnd>> \/ Ended(o)

StdioTypes ==
  /\ at \in {"idle", "format", "digits", "reverse", "done"}
  /\ out \in Seq(Chars) /\ temp \in Seq(Chars) /\ Len(temp) + 1 <= BufferSize
  /\ base \in Bases /\ is_negative \in BOOLEAN
  /\ value \in INT_MIN .. Half /\ num \in MachineWords

ItoaRight ==
  /\ at \in {"digits", "reverse"} => is_negative = Negative(num, base)
  /\ at = "digits" => \E v0 \in Values(num, is_negative) : Partial(v0, temp, base, value)
  /\ at = "reverse" => Finished(num, base, temp)

PrintedRight ==
  /\ printed \in Seq({Entry(n, b, s) : n \in MachineWords, b \in Bases, s \in Seq(Chars)})
  /\ \A i \in DOMAIN printed : NumeralRight(printed[i])

StdioInv == StdioTypes /\ FormatRight(at, format, out) /\ ItoaRight /\ PrintedRight

LEMMA StdioStarts == StdioInit => StdioInv
<1> SUFFICES ASSUME StdioInit PROVE StdioInv
  OBVIOUS
<1> DEFINE Entries == {Entry(n, b, s) : n \in MachineWords, b \in Bases, s \in Seq(Chars)}
<1>1. Half \in Nat \ {0} /\ BufferSize \in Nat /\ BufferSize >= 3
  BY RoomForDigits
<1>2. /\ at = "idle" /\ out = << >> /\ num = 0 /\ base = 10 /\ value = 0
      /\ is_negative = FALSE /\ temp = << >> /\ printed = << >>
  BY DEF StdioInit
<1>3. 0 \in MachineWords /\ 0 \in INT_MIN .. Half
  BY <1>1 DEF MachineWords, INT_MIN
<1>4. << >> \in Seq(Chars) /\ Len(<< >>) = 0 /\ 0 + 1 <= BufferSize
  BY <1>1
<1>5. StdioTypes
  BY <1>2, <1>3, <1>4 DEF StdioTypes, Bases
<1>6. PrintedRight
  <2>1. << >> \in Seq(Entries) /\ DOMAIN << >> = {}
    <3> HIDE DEF Entries
    <3> QED
      OBVIOUS
  <2> QED
    BY <1>2, <2>1 DEF PrintedRight
<1> QED
  BY <1>2, <1>5, <1>6 DEF StdioInv, FormatRight, ItoaRight

(* The steps that leave the variables of itoa alone. *)
LEMMA ItoaStays ==
  ASSUME StdioInv, ItoaIdle, at' \in {"idle", "format", "done"}, out' \in Seq(Chars),
         FormatRight(at', format', out')
  PROVE  StdioInv'
<1>1. StdioTypes'
  BY DEF StdioInv, StdioTypes, ItoaIdle
<1>2. ItoaRight'
  BY DEF ItoaRight
<1>3. PrintedRight'
  BY DEF StdioInv, PrintedRight, ItoaIdle
<1> QED
  BY <1>1, <1>2, <1>3 DEF StdioInv

(* What a round of the loop of printf that does not return begins with. *)
InFormat == at = "format" /\ format \notin {<< >>, <<FormatEnd>>}

LEMMA InFormatIs ==
  ASSUME StdioInv, InFormat
  PROVE  /\ Tailed(format) /\ Len(format) \in Nat /\ Len(format) > 1
         /\ Head(format) = format[1] /\ format[1] \in FormatChars /\ format[2] \in FormatChars
         /\ format[1] # FormatEnd /\ (Len(format) = 2 <=> format[2] = FormatEnd)
<1>1. Tailed(format) /\ format # <<FormatEnd>>
  BY DEF StdioInv, FormatRight, InFormat
<1> QED
  BY <1>1, TailedFront

LEMMA PutOut ==
  ASSUME NEW o \in Seq(Chars), NEW c \in Chars
  PROVE  /\ Append(o, c) \in Seq(Chars)
         /\ c = FormatEnd => Ended(Append(o, c))
         /\ \A d \in Chars : /\ o \o <<d, c>> \in Seq(Chars)
                             /\ c = FormatEnd => Ended(o \o <<d, c>>)
<1>1. /\ Append(o, c) \in Seq(Chars) /\ Append(o, c) # << >> /\ Len(Append(o, c)) = Len(o) + 1
      /\ Append(o, c)[Len(o) + 1] = c
  OBVIOUS
<1>2. Last(Append(o, c)) = c
  BY <1>1 DEF Last
<1>3. ASSUME NEW d \in Chars
      PROVE  o \o <<d, c>> \in Seq(Chars) /\ (c = FormatEnd => Ended(o \o <<d, c>>))
  <2> DEFINE t == <<d, c>>
             u == o \o t
  <2>1. t \in Seq(Chars) /\ Len(t) = 2 /\ t[2] = c
    OBVIOUS
  <2> HIDE DEF t
  <2>2. u \in Seq(Chars) /\ Len(u) = Len(o) + 2 /\ u[Len(o) + 2] = c
    <3>1. 2 \in 1 .. Len(t) /\ Len(o) \in Nat
      BY <2>1
    <3>2. u \in Seq(Chars) /\ Len(u) = Len(o) + Len(t)
      BY <2>1, ConcatProperties
    <3>3. Len(o) + 2 \in 1 .. (Len(o) + Len(t)) /\ ~ (Len(o) + 2 <= Len(o))
          /\ (Len(o) + 2) - Len(o) = 2
      BY <2>1, <3>1
    <3>4. u[Len(o) + 2] = t[(Len(o) + 2) - Len(o)]
      BY <2>1, <3>3, ConcatProperties
    <3> HIDE DEF u
    <3> QED
      BY <2>1, <3>1, <3>2, <3>3, <3>4
  <2> HIDE DEF u
  <2>3. u # << >> /\ Last(u) = c
    <3>1. Len(o) \in Nat
      OBVIOUS
    <3> QED
      BY <2>2, <3>1 DEF Last
  <2> QED
    BY <2>2, <2>3 DEF t, u, Ended
<1> QED
  BY <1>1, <1>2, <1>3 DEF Ended

LEMMA PrintfStarts ==
  ASSUME StdioInv, printf
  PROVE  StdioInv'
<1>1. PICK c \in Calls : format' = Append(c[1], FormatEnd)
  BY DEF printf
<1>2. Tailed(format')
  <2>1. c[1] \in Seq(STRING) /\ FormatEnd \notin ToSet(c[1])
    BY StdioAssumption
  <2> QED
    BY <1>1, <2>1, TailedAppend
<1>3. at' = "format" /\ out' = out /\ out \in Seq(Chars) /\ ItoaIdle
  BY DEF printf, StdioInv, StdioTypes
<1>4. FormatRight(at', format', out')
  BY <1>2, <1>3 DEF FormatRight
<1> QED
  BY <1>3, <1>4, ItoaStays

LEMMA PrintfReturns ==
  ASSUME StdioInv, at = "format", format \in {<< >>, <<FormatEnd>>}, Return
  PROVE  StdioInv'
<1>1. at' = "done" /\ format' = format /\ out' = out /\ out \in Seq(Chars) /\ ItoaIdle
  BY DEF Return, StdioInv, StdioTypes
<1>2. format = <<FormatEnd>> \/ Ended(out)
  <2>1. Tailed(<< >>) => FALSE
    BY DEF Tailed
  <2> QED
    BY <2>1 DEF StdioInv, FormatRight
<1>3. FormatRight(at', format', out')
  BY <1>1, <1>2 DEF FormatRight
<1> QED
  BY <1>1, <1>3, ItoaStays

LEMMA LiteralKeeps ==
  ASSUME StdioInv, InFormat, Literal
  PROVE  StdioInv'
<1>1. /\ Tailed(format) /\ Len(format) \in Nat /\ Len(format) > 1
      /\ Head(format) = format[1] /\ format[1] \in FormatChars
  BY InFormatIs
<1>2. /\ at' = "format" /\ out' = Append(out, format[1]) /\ format' = Rest(format) /\ ItoaIdle
      /\ out \in Seq(Chars)
  BY <1>1 DEF Literal, InFormat, StdioInv, StdioTypes
<1>3. Tailed(format')
  <2>1. 2 \in 2 .. Len(format)
    BY <1>1
  <2> QED
    BY <1>1, <1>2, <2>1, TailedRest DEF Rest
<1>4. format[1] \in Chars
  BY <1>1 DEF FormatChars, Chars
<1>5. out' \in Seq(Chars)
  BY <1>2, <1>4, PutOut
<1>6. FormatRight(at', format', out')
  BY <1>2, <1>3 DEF FormatRight
<1> QED
  BY <1>2, <1>5, <1>6, ItoaStays

(* Behind a letter that is not the NUL the format goes on. *)
LEMMA ConversionGoesOn ==
  ASSUME StdioInv, InFormat, NEW letters, FormatEnd \notin letters, Conversion(letters)
  PROVE  Tailed(format')
<1>1. /\ Tailed(format) /\ Len(format) \in Nat /\ Len(format) > 1
      /\ (Len(format) = 2 <=> format[2] = FormatEnd)
  BY InFormatIs
<1>2. format' = SubSeq(format, 3, Len(format)) /\ format[2] \in letters
  BY DEF Conversion, AfterConversion
<1>3. 3 \in 2 .. Len(format)
  <2> DEFINE L == Len(format)
  <2>1. L \in Nat /\ L > 1 /\ L # 2
    BY <1>1, <1>2
  <2> HIDE DEF L
  <2>2. 3 \in 2 .. L
    BY <2>1
  <2> QED
    BY <2>2 DEF L
<1> QED
  BY <1>1, <1>2, <1>3, TailedRest

LEMMA PercentKeeps ==
  ASSUME StdioInv, InFormat, PercentSign
  PROVE  StdioInv'
<1>1. /\ at' = "format" /\ out' = Append(out, Percent) /\ ItoaIdle
      /\ out \in Seq(Chars) /\ Conversion({Percent})
  BY DEF PercentSign, InFormat, StdioInv, StdioTypes
<1>2. Tailed(format')
  <2>1. FormatEnd \notin {Percent}
    BY DEF FormatEnd, Percent
  <2> QED
    BY <1>1, <2>1, ConversionGoesOn
<1>3. out' \in Seq(Chars)
  <2>1. Percent \in Chars
    BY DEF Chars
  <2> QED
    BY <1>1, <2>1, PutOut
<1>4. FormatRight(at', format', out')
  BY <1>1, <1>2 DEF FormatRight
<1> QED
  BY <1>1, <1>3, <1>4, ItoaStays

LEMMA TextKeeps ==
  ASSUME StdioInv, ArgumentsFit, InFormat, Text
  PROVE  StdioInv'
<1>1. /\ at' = "format" /\ out' = out \o Head(args) /\ ItoaIdle
      /\ out \in Seq(Chars) /\ Conversion(TextLetters)
  BY DEF Text, InFormat, StdioInv, StdioTypes
<1>2. Tailed(format')
  <2>1. FormatEnd \notin TextLetters
    BY DEF FormatEnd, TextLetters
  <2> QED
    BY <1>1, <2>1, ConversionGoesOn
<1>3. Head(args) \in Seq(STRING)
  <2>1. at = "format" /\ Len(format) > 1 /\ format[1] = Percent /\ format[2] \in TextLetters
    BY <1>1, InFormatIs DEF InFormat, Conversion
  <2> QED
    BY <2>1 DEF ArgumentsFit
<1>4. out' \in Seq(Chars)
  <2>1. Head(args) \in Seq(Chars)
    BY <1>3 DEF Chars
  <2> QED
    BY <1>1, <2>1
<1>5. FormatRight(at', format', out')
  BY <1>1, <1>2 DEF FormatRight
<1> QED
  BY <1>1, <1>4, <1>5, ItoaStays

LEMMA OtherLetterKeeps ==
  ASSUME StdioInv, InFormat, OtherLetter
  PROVE  StdioInv'
<1> DEFINE L == Len(format)
<1>1. /\ Tailed(format) /\ L \in Nat /\ L > 1
      /\ format[2] \in FormatChars /\ (L = 2 <=> format[2] = FormatEnd)
  BY InFormatIs
<1>2. /\ at' = "format" /\ out' = out \o <<Percent, format[2]>> /\ ItoaIdle
      /\ out \in Seq(Chars) /\ format' = SubSeq(format, 3, L)
  BY DEF OtherLetter, AfterConversion, InFormat, StdioInv, StdioTypes
<1>3. format[2] \in Chars /\ Percent \in Chars
  BY <1>1 DEF FormatChars, Chars
<1>4. out' \in Seq(Chars) /\ (L = 2 => Ended(out'))
  BY <1>1, <1>2, <1>3, PutOut
<1>5. L # 2 => Tailed(format')
  <2>1. L # 2 => 3 \in 2 .. L
    <3> HIDE DEF L
    <3> QED
      BY <1>1
  <2> QED
    BY <1>1, <1>2, <2>1, TailedRest
<1>6. L = 2 => format' = << >>
  <2>1. format \in Seq(FormatChars)
    BY <1>1 DEF Tailed
  <2>2. L = 2 => SubSeq(format, 3, 2) = << >>
    BY <2>1
  <2> QED
    BY <1>2, <2>2
<1> HIDE DEF L
<1>7. FormatRight(at', format', out')
  BY <1>2, <1>4, <1>5, <1>6 DEF FormatRight
<1> QED
  BY <1>2, <1>4, <1>7, ItoaStays

LEMMA NumberKeeps ==
  ASSUME StdioInv, ArgumentsFit, InFormat, Number
  PROVE  StdioInv'
<1>1. Conversion(NumberLetters) /\ at' = "digits" /\ out \in Seq(Chars)
  BY DEF Number, StdioInv, StdioTypes
<1>2. Tailed(format')
  <2>1. FormatEnd \notin NumberLetters
    BY DEF FormatEnd, NumberLetters
  <2> QED
    BY <1>1, <2>1, ConversionGoesOn
<1>3. num' \in MachineWords
  <2>1. at = "format" /\ Len(format) > 1 /\ format[1] = Percent /\ format[2] \in NumberLetters
    BY <1>1, InFormatIs DEF InFormat, Conversion
  <2> QED
    BY <2>1 DEF ArgumentsFit, Number
<1>4. base' \in Bases
  BY DEF Number, Bases
<1>5. is_negative' = Negative(num', base') /\ is_negative' \in BOOLEAN
  BY DEF Number, Negative
<1>6. value' \in Values(num', is_negative')
  BY DEF Number, Values
<1>7. value' \in INT_MIN .. Half
  BY <1>3, <1>4, <1>5, <1>6, ValuesInRange
<1>8. temp' = << >> /\ printed' = printed
  BY DEF Number
<1>9. out' \in Seq(Chars)
  <2>1. "0" \in Chars /\ "x" \in Chars
    BY DEF Chars
  <2>2. out \o <<"0", "x">> \in Seq(Chars)
    BY <1>1, <2>1, PutOut
  <2> QED
    BY <1>1, <2>2 DEF Number
<1>10. StdioTypes'
  <2>1. Len(temp') + 1 <= BufferSize /\ temp' \in Seq(Chars)
    BY <1>8, RoomForDigits
  <2> QED
    BY <1>1, <1>3, <1>4, <1>5, <1>7, <1>9, <2>1 DEF StdioTypes
<1>11. ItoaRight'
  <2>1. Partial(value', temp', base', value')
    BY <1>8 DEF Partial
  <2> QED
    BY <1>1, <1>5, <1>6, <2>1 DEF ItoaRight
<1>12. PrintedRight'
  BY <1>8 DEF StdioInv, PrintedRight
<1>13. FormatRight(at', format', out')
  BY <1>1, <1>2 DEF FormatRight
<1> QED
  BY <1>10, <1>11, <1>12, <1>13 DEF StdioInv

LEMMA DigitKeeps ==
  ASSUME StdioInv, itoaDigit
  PROVE  StdioInv'
<1> DEFINE q == Quotient(value, base)
           c == Digit(Remainder(value, base))
           put == Append(temp, c)
<1>1. /\ Half \in Nat \ {0} /\ INT_MIN = - Half /\ BufferSize \in Nat
  BY RoomForDigits DEF INT_MIN
<1>2. /\ at = "digits" /\ value \in Int /\ value \in INT_MIN .. Half /\ base \in Bases
      /\ num \in MachineWords /\ temp \in Seq(Chars) /\ is_negative = Negative(num, base)
      /\ is_negative \in BOOLEAN
  BY <1>1 DEF itoaDigit, StdioInv, StdioTypes, ItoaRight
<1>3. PICK v0 \in Values(num, is_negative) : Partial(v0, temp, base, value)
  BY <1>2 DEF StdioInv, ItoaRight
<1>4. v0 \in Int /\ v0 <= Half
  <2>1. v0 \in INT_MIN .. Half
    BY <1>2, <1>3, ValuesInRange
  <2> QED
    BY <1>1, <2>1
<1>5. IF q > 0 THEN Partial(v0, put, base, q) /\ Len(put) <= BufferSize - 2
      ELSE Numeral(v0, put, base)
  BY <1>2, <1>3, <1>4, DigitPut
<1>6. q \in INT_MIN .. Half /\ Remainder(value, base) \in Int
  <2>1. /\ q \in Int /\ Remainder(value, base) \in Int
        /\ value >= 0 => q >= 0 /\ q <= value
        /\ value < 0 => q <= 0 /\ q >= value
    BY <1>2, DivisionStep
  <2> HIDE DEF q
  <2> QED
    BY <1>1, <1>2, <2>1
<1>7. c \in Chars /\ "-" \in Chars
  BY <1>6, DigitReads DEF Chars
<1>8. put \in Seq(Chars)
  <2> HIDE DEF c
  <2> QED
    BY <1>2, <1>7
<1>9. /\ value' = q
      /\ at' = IF q > 0 THEN "digits" ELSE "reverse"
      /\ temp' = IF ~ (q > 0) /\ is_negative THEN Append(put, "-") ELSE put
      /\ UNCHANGED <<format, args, out, num, base, is_negative, printed>>
  BY DEF itoaDigit, MoreDigits
<1> HIDE DEF q, c, put
<1>10. Len(put) \in Nat /\ Len(put) <= BufferSize - 2
  <2>1. ~ (q > 0) => Len(put) <= BufferSize - 2
    BY <1>5 DEF Numeral
  <2> QED
    BY <1>5, <1>8, <2>1
<1>11. temp' \in Seq(Chars) /\ Len(temp') + 1 <= BufferSize
  <2>1. Append(put, "-") \in Seq(Chars) /\ Len(Append(put, "-")) = Len(put) + 1
    BY <1>7, <1>8
  <2>2. temp' = put \/ temp' = Append(put, "-")
    BY <1>9
  <2>3. CASE temp' = put
    BY <1>1, <1>8, <1>10, <2>3
  <2>4. CASE temp' = Append(put, "-")
    BY <1>1, <1>10, <2>1, <2>4
  <2> QED
    BY <2>2, <2>3, <2>4
<1>12. StdioTypes'
  <2>1. at' \in {"idle", "format", "digits", "reverse", "done"} /\ value' \in INT_MIN .. Half
    BY <1>6, <1>9
  <2>2. out' \in Seq(Chars) /\ base' \in Bases /\ is_negative' \in BOOLEAN /\ num' \in MachineWords
    BY <1>9 DEF StdioInv, StdioTypes
  <2> QED
    BY <1>11, <2>1, <2>2 DEF StdioTypes
<1>13. ItoaRight'
  <2>1. is_negative' = Negative(num', base')
    BY <1>2, <1>9
  <2>2. CASE q > 0
    <3>1. at' = "digits" /\ Partial(v0, temp', base', value') /\ v0 \in Values(num', is_negative')
      BY <1>3, <1>5, <1>9, <2>2
    <3> QED
      BY <2>1, <3>1 DEF ItoaRight
  <2>3. CASE ~ (q > 0)
    <3>1. at' = "reverse" /\ temp' = IF Negative(num, base) THEN Append(put, "-") ELSE put
      BY <1>2, <1>9, <2>3
    <3>2. Finished(num, base, temp')
      BY <1>2, <1>3, <1>5, <1>8, <2>3, <3>1 DEF Finished
    <3>3. Finished(num', base', temp')
      BY <1>9, <3>2
    <3> QED
      BY <2>1, <3>1, <3>3 DEF ItoaRight
  <2> QED
    BY <2>2, <2>3
<1>14. PrintedRight'
  BY <1>9 DEF StdioInv, PrintedRight
<1>15. FormatRight(at', format', out')
  <2>1. Tailed(format')
    BY <1>2, <1>9 DEF StdioInv, FormatRight
  <2> QED
    BY <1>9, <2>1 DEF FormatRight
<1> QED
  BY <1>12, <1>13, <1>14, <1>15 DEF StdioInv

LEMMA ReverseKeeps ==
  ASSUME StdioInv, itoaReverse
  PROVE  StdioInv'
<1> DEFINE Entries == {Entry(n, b, s) : n \in MachineWords, b \in Bases, s \in Seq(Chars)}
           e == Entry(num, base, Reverse(temp))
<1>1. /\ at = "reverse" /\ at' = "format" /\ out' = out \o Reverse(temp)
      /\ printed' = Append(printed, e)
      /\ UNCHANGED <<format, args, num, base, value, is_negative, temp>>
  BY DEF itoaReverse, Entry
<1>2. StdioTypes /\ Finished(num, base, temp) /\ Tailed(format)
      /\ printed \in Seq(Entries) /\ \A i \in DOMAIN printed : NumeralRight(printed[i])
  BY <1>1 DEF StdioInv, ItoaRight, FormatRight, PrintedRight
<1>3. num \in MachineWords /\ base \in Bases /\ temp \in Seq(Chars) /\ out \in Seq(Chars)
  BY <1>2 DEF StdioTypes
<1>4. Reverse(temp) \in Seq(Chars)
  BY <1>3, ReverseIs
<1>5. e \in Entries /\ NumeralRight(e)
  BY <1>2, <1>3, <1>4, NumeralReads
<1> HIDE DEF e
<1>6. StdioTypes'
  <2>1. out' \in Seq(Chars)
    BY <1>1, <1>3, <1>4
  <2> QED
    BY <1>1, <1>2, <2>1 DEF StdioTypes
<1>7. PrintedRight'
  <2> HIDE DEF Entries
  <2>1. /\ printed' \in Seq(Entries) /\ Len(printed') = Len(printed) + 1 /\ Len(printed) \in Nat
        /\ printed'[Len(printed) + 1] = e
        /\ \A i \in 1 .. Len(printed) : printed'[i] = printed[i]
    BY <1>1, <1>2, <1>5
  <2>2. ASSUME NEW i \in DOMAIN printed' PROVE NumeralRight(printed'[i])
    <3>1. CASE i = Len(printed) + 1
      BY <1>5, <2>1, <3>1
    <3>2. CASE i # Len(printed) + 1
      <4>1. i \in 1 .. Len(printed) /\ i \in DOMAIN printed
        BY <1>2, <2>1, <3>2
      <4> QED
        BY <1>2, <2>1, <4>1
    <3> QED
      BY <3>1, <3>2
  <2> QED
    BY <2>1, <2>2 DEF PrintedRight, Entries
<1>8. ItoaRight'
  BY <1>1 DEF ItoaRight
<1>9. FormatRight(at', format', out')
  BY <1>1, <1>2 DEF FormatRight
<1> QED
  BY <1>6, <1>7, <1>8, <1>9 DEF StdioInv

LEMMA LeaveKeeps ==
  ASSUME Leave
  PROVE  StdioInv'
<1>1. StdioInit' => StdioInv'
  BY StdioStarts, PTL
<1>2. StdioInit'
  BY DEF Leave, StdioInit
<1> QED
  BY <1>1, <1>2

LEMMA StdioStep ==
  ASSUME StdioInv, ArgumentsFit, StdioNext
  PROVE  StdioInv'
<1>1. CASE printf
  BY <1>1, PrintfStarts
<1>2. CASE printfRound
  <2>1. CASE format \in {<< >>, <<FormatEnd>>}
    BY <1>2, <2>1, PrintfReturns DEF printfRound
  <2>2. CASE format \notin {<< >>, <<FormatEnd>>}
    <3>1. InFormat /\ (Literal \/ PercentSign \/ Text \/ OtherLetter \/ Number)
      BY <1>2, <2>2 DEF printfRound, InFormat
    <3> QED
      BY <3>1, LiteralKeeps, PercentKeeps, TextKeeps, OtherLetterKeeps, NumberKeeps
  <2> QED
    BY <2>1, <2>2
<1>3. CASE itoaDigit
  BY <1>3, DigitKeeps
<1>4. CASE itoaReverse
  BY <1>4, ReverseKeeps
<1>5. CASE Leave
  BY <1>5, LeaveKeeps
<1> QED
  BY <1>1, <1>2, <1>3, <1>4, <1>5 DEF StdioNext

LEMMA StdioInvHolds == LibrarySpec /\ []ArgumentsFit => []StdioInv
<1>1. LibraryInit => StdioInv
  BY StdioStarts DEF LibraryInit
<1>2. ASSUME StdioInv, ArgumentsFit, [LibraryNext]_libraryVars PROVE StdioInv'
  <2>1. CASE StdioNext
    BY <1>2, <2>1, StdioStep
  <2>2. CASE UNCHANGED stdioVars
    BY <1>2, <2>2 DEF stdioVars, StdioInv, StdioTypes, FormatRight, ItoaRight, PrintedRight
  <2> QED
    BY <1>2, <2>1, <2>2 DEF LibraryNext, libraryVars
<1> QED
  BY <1>1, <1>2, PTL DEF LibrarySpec

(* For callers that pass an argument of its kind for each conversion, what *)
(* printf and itoa touch stays inside temp, the buffer and the format      *)
(* (stdio.cpp:18-45, 58-104).                                              *)
THEOREM PrintfStaysInside == LibrarySpec /\ []ArgumentsFit => []StdioTypeOK
<1>1. StdioInv => StdioTypeOK
  <2>1. ASSUME StdioInv PROVE StdioTypeOK
    <3>1. at = "done" => format = <<FormatEnd>> \/ Ended(out)
      BY <2>1 DEF StdioInv, FormatRight
    <3> QED
      BY <2>1, <3>1 DEF StdioInv, StdioTypes, StdioTypeOK, Ended, Bases
  <2> QED
    BY <2>1
<1> QED
  BY <1>1, StdioInvHolds, PTL

(* What printf prints for a number reads back as that number, for words of *)
(* any width: for INT_MIN and for what an int32_t does not reach it does   *)
(* not (stdio.cpp:18-45).                                                  *)
THEOREM PrintedNumbersReadBack == LibrarySpec /\ []ArgumentsFit => []NumeralsReadBack
<1>1. StdioInv => NumeralsReadBack
  <2>1. ASSUME StdioInv, NEW i \in DOMAIN printed PROVE NumeralRight(printed[i])
    BY <2>1 DEF StdioInv, PrintedRight
  <2> QED
    BY <2>1 DEF NumeralsReadBack, NumeralRight, Right
<1> QED
  BY <1>1, StdioInvHolds, PTL
=============================================================================
