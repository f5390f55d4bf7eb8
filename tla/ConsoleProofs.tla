---------------------------- MODULE ConsoleProofs ----------------------------
(***************************************************************************)
(* Proofs about the console, for every size of the screen and of the line  *)
(* buffer, every set of keys and whatever the commands print.              *)
(***************************************************************************)
EXTENDS Console, SequenceTheorems, DataInduction

-----------------------------------------------------------------------------
(* The cells of the screen *)

W == VGA_WIDTH

LEMMA Sizes ==
  /\ W \in Nat \ {0} /\ LastRow \in Nat \ {0}
  /\ VGA_HEIGHT = LastRow + 1
  /\ \A i : i \in Cells <=> i \in Nat /\ i < LastRow * W + W
<1>1. W \in Nat \ {0} /\ LastRow \in Nat \ {0} /\ VGA_HEIGHT = LastRow + 1
  BY TerminalAssumption DEF W, LastRow
<1>2. W * VGA_HEIGHT = LastRow * W + W
  BY <1>1
<1>3. W * VGA_HEIGHT \in Nat
  BY <1>1
<1>4. Cells = 0 .. (W * VGA_HEIGHT - 1)
  BY DEF Cells, W
<1> HIDE DEF W
<1>5. \A i : i \in 0 .. (W * VGA_HEIGHT - 1) <=> i \in Nat /\ i < W * VGA_HEIGHT
  BY <1>3
<1> QED
  BY <1>1, <1>2, <1>4, <1>5

(* A row and a column make a cell, and the cell gives them back. *)
LEMMA CellOf ==
  ASSUME NEW r \in 0 .. LastRow, NEW c \in 0 .. (W - 1)
  PROVE  /\ r * W + c \in Cells
         /\ (r * W + c) \div W = r /\ (r * W + c) % W = c
<1> DEFINE i == r * W + c
           q == i \div W
<1>0. W \in Nat \ {0} /\ LastRow \in Nat \ {0} /\ r \in Nat /\ c \in Nat /\ r <= LastRow /\ c < W
  BY Sizes
<1>1. r * W \in Nat /\ r * W <= LastRow * W
  BY <1>0
<1>2. i \in Nat /\ i < LastRow * W + W
  BY <1>0, <1>1
<1>3. i \in Cells
  BY <1>2, Sizes
<1> HIDE DEF i
<1>4. i = W * q + (i % W) /\ i % W \in 0 .. (W - 1) /\ q \in Nat
  BY <1>0, <1>2, Division
<1> HIDE DEF q
<1>5. i = r * W + c
  BY DEF i
<1>6. ASSUME q < r PROVE FALSE
  <2>1. q + 1 <= r /\ (q + 1) * W <= r * W
    BY <1>0, <1>4, <1>6
  <2>2. (q + 1) * W = W * q + W
    BY <1>0, <1>4
  <2> QED
    BY <1>0, <1>1, <1>4, <1>5, <2>1, <2>2
<1>7. ASSUME q > r PROVE FALSE
  <2>1. r + 1 <= q /\ W * (r + 1) <= W * q
    BY <1>0, <1>4, <1>7
  <2>2. W * (r + 1) = r * W + W
    BY <1>0
  <2> QED
    BY <1>0, <1>1, <1>4, <1>5, <2>1, <2>2
<1>8. q = r
  BY <1>0, <1>4, <1>6, <1>7
<1>9. i % W = c
  <2>1. W * q = r * W
    BY <1>0, <1>8
  <2> QED
    BY <1>0, <1>1, <1>4, <1>5, <2>1
<1> QED
  BY <1>3, <1>8, <1>9 DEF i, q

(* And every cell is one of them. *)
LEMMA CellPlace ==
  ASSUME NEW i \in Cells
  PROVE  /\ i \div W \in 0 .. LastRow /\ i % W \in 0 .. (W - 1)
         /\ i = (i \div W) * W + (i % W)
<1> DEFINE q == i \div W
<1>0. W \in Nat \ {0} /\ LastRow \in Nat \ {0} /\ i \in Nat /\ i < LastRow * W + W
  BY Sizes
<1>1. i = W * q + (i % W) /\ i % W \in 0 .. (W - 1) /\ q \in Nat
  BY <1>0, Division
<1> HIDE DEF q
<1>2. W * q = q * W
  BY <1>0, <1>1
<1>3. ASSUME q > LastRow PROVE FALSE
  <2>1. (LastRow + 1) * W <= q * W
    BY <1>0, <1>1, <1>3
  <2>2. (LastRow + 1) * W = LastRow * W + W /\ LastRow * W \in Nat /\ q * W \in Nat
    BY <1>0, <1>1
  <2> QED
    BY <1>0, <1>1, <1>2, <2>1, <2>2
<1>4. q \in 0 .. LastRow
  BY <1>0, <1>1, <1>3
<1> QED
  BY <1>1, <1>2, <1>4 DEF q

(* The cell below a cell that is not in the last row. *)
LEMMA CellBelow ==
  ASSUME NEW i \in Cells, i < LastRow * W
  PROVE  /\ i + W \in Cells
         /\ (i + W) \div W = i \div W + 1 /\ (i + W) % W = i % W
<1> DEFINE r == i \div W
           c == i % W
<1>0. W \in Nat \ {0} /\ LastRow \in Nat \ {0} /\ i \in Nat
  BY Sizes
<1>1. r \in 0 .. LastRow /\ c \in 0 .. (W - 1) /\ i = r * W + c
  BY CellPlace
<1> HIDE DEF r, c
<1>2. r # LastRow
  <2>1. r * W \in Nat
    BY <1>0, <1>1
  <2> QED
    BY <1>0, <1>1, <2>1
<1>3. r + 1 \in 0 .. LastRow /\ i + W = (r + 1) * W + c
  <2>1. (r + 1) * W = r * W + W /\ r * W \in Nat
    BY <1>0, <1>1
  <2> QED
    BY <1>0, <1>1, <1>2, <2>1
<1>4. /\ (r + 1) * W + c \in Cells
      /\ ((r + 1) * W + c) \div W = r + 1 /\ ((r + 1) * W + c) % W = c
  BY <1>1, <1>3, CellOf
<1> QED
  BY <1>3, <1>4 DEF r, c

(* The cells of the last row. *)
LEMMA CellLast ==
  ASSUME NEW i \in Cells, ~ (i < LastRow * W)
  PROVE  i \div W = LastRow
<1> DEFINE r == i \div W
           c == i % W
<1>0. W \in Nat \ {0} /\ LastRow \in Nat \ {0} /\ i \in Nat
  BY Sizes
<1>1. r \in 0 .. LastRow /\ c \in 0 .. (W - 1) /\ i = r * W + c
  BY CellPlace
<1> HIDE DEF r, c
<1>2. ASSUME r < LastRow PROVE FALSE
  <2>1. (r + 1) * W <= LastRow * W /\ (r + 1) * W = r * W + W /\ r * W \in Nat /\ LastRow * W \in Nat
    BY <1>0, <1>1, <1>2
  <2> QED
    BY <1>0, <1>1, <1>2, <2>1
<1> QED
  BY <1>0, <1>1, <1>2 DEF r

-----------------------------------------------------------------------------
(* The paper *)

Places == [row : Nat, column : 0 .. (W - 1)]

Before(p, q) == p.row < q.row \/ (p.row = q.row /\ p.column < q.column)

(* How many places are before a place. *)
Flat(p) == p.row * W + p.column

LEMMA PlaceAfterIsPlace ==
  ASSUME NEW p \in Places, NEW c
  PROVE  /\ PlaceAfter(p, c) \in Places /\ Before(p, PlaceAfter(p, c))
         /\ c # LF => Flat(PlaceAfter(p, c)) = Flat(p) + 1
<1>0. W \in Nat \ {0} /\ VGA_WIDTH = W /\ p.row \in Nat /\ p.column \in 0 .. (W - 1)
  BY Sizes DEF Places, W
<1>1. CASE c = LF \/ p.column = W - 1
  <2>1. PlaceAfter(p, c) = [row |-> p.row + 1, column |-> 0]
    BY <1>0, <1>1 DEF PlaceAfter
  <2>2. (p.row + 1) * W = p.row * W + W /\ p.row * W \in Nat
    BY <1>0
  <2>3. [row |-> p.row + 1, column |-> 0] \in Places
    BY <1>0 DEF Places
  <2>4. Before(p, [row |-> p.row + 1, column |-> 0])
    BY <1>0 DEF Before
  <2>5. c # LF => (p.row + 1) * W + 0 = (p.row * W + p.column) + 1
    BY <1>0, <1>1, <2>2
  <2> QED
    BY <2>1, <2>3, <2>4, <2>5 DEF Flat
<1>2. CASE ~ (c = LF \/ p.column = W - 1)
  <2>1. PlaceAfter(p, c) = [row |-> p.row, column |-> p.column + 1]
    BY <1>0, <1>2 DEF PlaceAfter
  <2>2. p.row * W \in Nat
    BY <1>0
  <2>3. [row |-> p.row, column |-> p.column + 1] \in Places
    BY <1>0, <1>2 DEF Places
  <2>4. Before(p, [row |-> p.row, column |-> p.column + 1])
    BY <1>0 DEF Before
  <2>5. p.row * W + (p.column + 1) = (p.row * W + p.column) + 1
    BY <1>0, <2>2
  <2> QED
    BY <2>1, <2>3, <2>4, <2>5 DEF Flat
<1> QED
  BY <1>1, <1>2

LEMMA LayoutUnfolds ==
  ASSUME NEW s, Len(s) \in Nat
  PROVE  /\ Layout(s) \in [0 .. Len(s) -> Places]
         /\ Layout(s)[0] = Corner
         /\ \A i \in 1 .. Len(s) : Layout(s)[i] = PlaceAfter(Layout(s)[i - 1], s[i])
<1> DEFINE n == Len(s)
           step == [i \in 1 .. n |-> [p \in Places |-> PlaceAfter(p, s[i])]]
           Places1(f) == f = [i \in 0 .. n |-> IF i = 0 THEN Corner
                                              ELSE PlaceAfter(f[i - 1], s[i])]
<1>0. Corner \in Places
  BY Sizes DEF Corner, Places
<1>1. step \in [1 .. n -> [Places -> Places]]
  <2>1. \A p \in Places : \A c : PlaceAfter(p, c) \in Places
    BY PlaceAfterIsPlace
  <2> HIDE DEF Places
  <2> QED
    BY <2>1
<1>2. PICK f0 : Iterates(f0, n, Places, Corner, step)
  <2> HIDE DEF step, n
  <2> QED
    BY <1>0, <1>1, Iteration DEF n
<1>3. Places1(f0)
  <2>1. /\ f0 \in [0 .. n -> Places] /\ f0[0] = Corner
        /\ \A i \in 1 .. n : f0[i] = step[i][f0[i - 1]]
    BY <1>2 DEF Iterates
  <2>2. \A i \in 1 .. n : f0[i - 1] \in Places
    BY <2>1
  <2>3. \A i \in 1 .. n : f0[i] = PlaceAfter(f0[i - 1], s[i])
    <3> HIDE DEF Places
    <3> QED
      BY <2>1, <2>2
  <2>4. \A i \in 0 .. n : i = 0 \/ i \in 1 .. n
    OBVIOUS
  <2> HIDE DEF step, n, Places
  <2> QED
    BY <2>1, <2>3, <2>4
<1> DEFINE k == CHOOSE f : Places1(f)
<1>4. Places1(k)
  <2> HIDE DEF Places1
  <2> QED
    BY <1>3
<1>5. Layout(s) = k
  BY DEF Layout
<1> HIDE DEF k
<1>6. /\ k = [i \in 0 .. n |-> k[i]] /\ k[0] = Corner
      /\ \A i \in 1 .. n : k[i] = PlaceAfter(k[i - 1], s[i])
  <2>1. 0 \in 0 .. n /\ \A i \in 1 .. n : i \in 0 .. n /\ i # 0
    OBVIOUS
  <2> HIDE DEF n
  <2> QED
    BY <1>4, <2>1
<1> DEFINE S == {i \in 0 .. n : k[i] \in Places}
<1>7. 0 .. n \subseteq S
  <2>1. 0 \in S
    BY <1>0, <1>6
  <2>2. ASSUME NEW m \in 0 .. (n - 1), m \in S
        PROVE  m + 1 \in S
    <3>1. m + 1 \in 1 .. n /\ m + 1 \in 0 .. n /\ (m + 1) - 1 = m
      OBVIOUS
    <3>2. k[m + 1] = PlaceAfter(k[m], s[m + 1])
      BY <1>6, <3>1
    <3>3. k[m + 1] \in Places
      BY <2>2, <3>2, PlaceAfterIsPlace
    <3> QED
      BY <3>1, <3>3
  <2>3. \A m \in 0 .. (n - 1) : m \in S => m + 1 \in S
    BY <2>2
  <2> HIDE DEF S, n
  <2> QED
    BY <2>1, <2>3, Induction DEF n
<1>8. k \in [0 .. n -> Places]
  <2> HIDE DEF Places, n
  <2> QED
    BY <1>6, <1>7
<1> QED
  BY <1>5, <1>6, <1>8

(* What was printed stays where it is when more is printed. *)
LEMMA LayoutGrows ==
  ASSUME NEW s, NEW u, Len(s) \in Nat, Len(u) \in Nat, Len(s) <= Len(u),
         \A i \in 1 .. Len(s) : u[i] = s[i]
  PROVE  \A i \in 0 .. Len(s) : Layout(u)[i] = Layout(s)[i]
<1> DEFINE n == Len(s)
           S == {i \in 0 .. n : Layout(u)[i] = Layout(s)[i]}
<1>1. 0 \in S
  BY LayoutUnfolds
<1>2. ASSUME NEW m \in 0 .. (n - 1), m \in S
      PROVE  m + 1 \in S
  <2>1. m + 1 \in 1 .. n /\ m + 1 \in 1 .. Len(u) /\ m + 1 \in 0 .. n /\ (m + 1) - 1 = m
    OBVIOUS
  <2>2. /\ Layout(u)[m + 1] = PlaceAfter(Layout(u)[m], u[m + 1])
        /\ Layout(s)[m + 1] = PlaceAfter(Layout(s)[m], s[m + 1])
    BY <2>1, LayoutUnfolds
  <2> QED
    BY <1>2, <2>1, <2>2
<1>3. \A m \in 0 .. (n - 1) : m \in S => m + 1 \in S
  BY <1>2
<1>4. 0 .. n \subseteq S
  <2> HIDE DEF S
  <2> QED
    BY <1>1, <1>3, Induction
<1> QED
  BY <1>4

(* Nothing is printed on a place twice. *)
LEMMA LayoutAdvances ==
  ASSUME NEW s, Len(s) \in Nat, NEW j \in 0 .. Len(s), NEW i \in 0 .. (j - 1)
  PROVE  Before(Layout(s)[i], Layout(s)[j])
<1> DEFINE n == Len(s)
           at == Layout(s)
           S == {m \in 0 .. n : \A h \in 0 .. (m - 1) : Before(at[h], at[m])}
<1>0. at \in [0 .. n -> Places] /\ \A m \in 1 .. n : at[m] = PlaceAfter(at[m - 1], s[m])
  BY LayoutUnfolds
<1> HIDE DEF at
<1>1. 0 \in S
  OBVIOUS
<1>2. ASSUME NEW m \in 0 .. (n - 1), m \in S
      PROVE  m + 1 \in S
  <2>1. m + 1 \in 1 .. n /\ m \in 0 .. n /\ m + 1 \in 0 .. n /\ (m + 1) - 1 = m
    OBVIOUS
  <2>2. at[m + 1] = PlaceAfter(at[m], s[m + 1]) /\ at[m] \in Places /\ at[m + 1] \in Places
    BY <1>0, <2>1
  <2>3. Before(at[m], at[m + 1])
    BY <2>2, PlaceAfterIsPlace
  <2>4. ASSUME NEW h \in 0 .. m
        PROVE  Before(at[h], at[m + 1])
    <3>1. CASE h = m
      BY <2>3, <3>1
    <3>2. CASE h # m
      <4>1. h \in 0 .. (m - 1) /\ h \in 0 .. n
        BY <3>2
      <4>2. Before(at[h], at[m]) /\ at[h] \in Places
        BY <1>0, <1>2, <4>1
      <4> QED
        BY <2>2, <2>3, <4>2 DEF Before, Places
    <3> QED
      BY <3>1, <3>2
  <2>5. \A h \in 0 .. ((m + 1) - 1) : Before(at[h], at[m + 1])
    BY <2>1, <2>4
  <2> QED
    BY <2>1, <2>5
<1>3. \A m \in 0 .. (n - 1) : m \in S => m + 1 \in S
  BY <1>2
<1>4. 0 .. n \subseteq S
  <2> HIDE DEF S
  <2> QED
    BY <1>1, <1>3, Induction
<1> QED
  BY <1>4 DEF at

-----------------------------------------------------------------------------
(* The screen *)

ScreensOf(width) ==
  [row : 0 .. LastRow, column : 0 .. width, buffer : [Cells -> 1 .. 255],
   cursor : Nat, scrolls : Nat]

Screens == ScreensOf(W - 1)

(* While a character is put, the column may be behind the edge. *)
Wide == ScreensOf(W)

CellAt(t) == t.row * W + t.column

LEMMA ScreenIsWide ==
  ASSUME NEW t \in Wide
  PROVE  t \in Screens <=> t.column # W
<1>0. W \in Nat \ {0}
  BY Sizes
<1>1. t.column \in 0 .. W
  BY DEF Wide, ScreensOf
<1>2. t.column \in 0 .. (W - 1) <=> t.column # W
  BY <1>0, <1>1
<1>3. t \in Screens <=> t.column \in 0 .. (W - 1)
  BY DEF Wide, Screens, ScreensOf
<1> QED
  BY <1>2, <1>3

LEMMA ScreensAreWide == Screens \subseteq Wide
<1>1. 0 .. (W - 1) \subseteq 0 .. W
  BY Sizes
<1> QED
  BY <1>1 DEF Screens, Wide, ScreensOf

(* putentry_at *)
LEMMA EntryPut ==
  ASSUME NEW t \in Screens, NEW c \in 1 .. 255
  PROVE  /\ putentry_at(t, c) \in Screens
         /\ putentry_at(t, c).row = t.row /\ putentry_at(t, c).column = t.column
         /\ putentry_at(t, c).scrolls = t.scrolls
         /\ \A i \in Cells : putentry_at(t, c).buffer[i] =
                               IF i = CellAt(t) THEN c ELSE t.buffer[i]
<1> DEFINE i0 == CellAt(t)
           b == [t.buffer EXCEPT ![i0] = c]
           u == [t EXCEPT !.buffer = b]
<1>1. putentry_at(t, c) = u
  BY DEF putentry_at, CellAt, W
<1>2. /\ t.row \in 0 .. LastRow /\ t.column \in 0 .. (W - 1) /\ t.buffer \in [Cells -> 1 .. 255]
  BY DEF Screens, ScreensOf
<1>3. i0 \in Cells
  BY <1>2, CellOf DEF CellAt
<1> HIDE DEF i0
<1>4. b \in [Cells -> 1 .. 255] /\ \A i \in Cells : b[i] = IF i = i0 THEN c ELSE t.buffer[i]
  BY <1>2, <1>3
<1> HIDE DEF b
<1>5. /\ u \in Screens /\ u.row = t.row /\ u.column = t.column /\ u.scrolls = t.scrolls
      /\ u.buffer = b
  BY <1>4 DEF Screens, ScreensOf
<1> QED
  BY <1>1, <1>4, <1>5 DEF i0

(* update_cursor *)
LEMMA CursorUpdated ==
  ASSUME NEW t \in Wide
  PROVE  /\ update_cursor(t) \in Wide
         /\ update_cursor(t).row = t.row /\ update_cursor(t).column = t.column
         /\ update_cursor(t).scrolls = t.scrolls /\ update_cursor(t).buffer = t.buffer
         /\ update_cursor(t).cursor = CellAt(t)
<1>1. t.row \in Nat /\ t.column \in Nat /\ W \in Nat
  BY Sizes DEF Wide, ScreensOf
<1>2. CellAt(t) \in Nat
  <2>1. t.row * W \in Nat
    BY <1>1
  <2> QED
    BY <1>1, <2>1 DEF CellAt
<1>3. update_cursor(t) = [t EXCEPT !.cursor = CellAt(t)]
  BY DEF update_cursor, CellAt, W
<1> HIDE DEF W
<1> QED
  BY <1>2, <1>3 DEF Wide, ScreensOf

(* What new_line makes of a screen. *)
Broken(t, u) ==
  /\ u \in Screens /\ u.column = 0 /\ u.cursor = CellAt(u)
  /\ u.scrolls + u.row = t.scrolls + t.row + 1
  /\ \/ u.scrolls = t.scrolls /\ u.buffer = t.buffer
     \/ /\ u.scrolls = t.scrolls + 1 /\ u.row = LastRow
        /\ \A i \in Cells : u.buffer[i] = IF i < LastRow * W THEN t.buffer[i + W] ELSE SP

LEMMA NewLine ==
  ASSUME NEW t \in Wide
  PROVE  Broken(t, new_line(t))
<1>0. /\ W \in Nat \ {0} /\ LastRow \in Nat \ {0} /\ W = VGA_WIDTH
      /\ t.row \in 0 .. LastRow /\ t.scrolls \in Nat /\ t.buffer \in [Cells -> 1 .. 255]
  BY Sizes DEF Wide, ScreensOf, W
<1>1. CASE t.row = LastRow
  <2> DEFINE b == [i \in Cells |-> IF i < LastRow * VGA_WIDTH THEN t.buffer[i + VGA_WIDTH] ELSE SP]
             v == [t EXCEPT !.buffer = b]
             x == [v EXCEPT !.column = 0, !.scrolls = @ + 1]
  <2>1. new_line(t) = update_cursor(x)
    BY <1>1 DEF new_line, scroll
  <2>2. \A i \in Cells : b[i] = IF i < LastRow * W THEN t.buffer[i + W] ELSE SP
    BY <1>0
  <2>3. b \in [Cells -> 1 .. 255]
    <3>1. \A i \in Cells : b[i] \in 1 .. 255
      BY <1>0, <2>2, CellBelow DEF SP
    <3>2. b = [i \in Cells |-> b[i]]
      OBVIOUS
    <3> HIDE DEF b
    <3> QED
      BY <3>1, <3>2
  <2> HIDE DEF b
  <2>4. v \in Wide /\ v.row = t.row /\ v.scrolls = t.scrolls /\ v.buffer = b
    BY <2>3 DEF Wide, ScreensOf
  <2> HIDE DEF v
  <2>5. x \in Wide /\ x.row = v.row /\ x.column = 0 /\ x.scrolls = v.scrolls + 1 /\ x.buffer = v.buffer
    <3>1. 0 \in 0 .. W
      BY <1>0
    <3> DEFINE y == [v EXCEPT !.column = 0]
    <3>2. y \in Wide /\ y.row = v.row /\ y.column = 0 /\ y.scrolls = v.scrolls /\ y.buffer = v.buffer
      BY <2>4, <3>1 DEF Wide, ScreensOf
    <3>3. x = [y EXCEPT !.scrolls = y.scrolls + 1]
      BY <2>4 DEF Wide, ScreensOf
    <3> HIDE DEF y, x
    <3>4. y.scrolls + 1 \in Nat
      BY <3>2 DEF Wide, ScreensOf
    <3> QED
      BY <3>2, <3>3, <3>4 DEF Wide, ScreensOf
  <2> HIDE DEF x
  <2> DEFINE u == update_cursor(x)
  <2>6. u \in Wide /\ u.row = x.row /\ u.column = x.column /\ u.scrolls = x.scrolls
        /\ u.buffer = x.buffer /\ u.cursor = CellAt(x)
    BY <2>5, CursorUpdated
  <2> HIDE DEF u
  <2>7. u \in Screens
    BY <1>0, <2>5, <2>6, ScreenIsWide
  <2>8. u.scrolls = t.scrolls + 1 /\ u.row = LastRow /\ u.column = 0 /\ u.buffer = b
    BY <1>1, <2>4, <2>5, <2>6
  <2>9. u.scrolls + u.row = t.scrolls + t.row + 1
    BY <1>0, <1>1, <2>8
  <2>10. u.cursor = CellAt(u)
    BY <2>6 DEF CellAt
  <2> QED
    BY <2>1, <2>2, <2>7, <2>8, <2>9, <2>10 DEF Broken, u
<1>2. CASE t.row # LastRow
  <2> DEFINE x == [t EXCEPT !.column = 0, !.row = @ + 1]
  <2>1. new_line(t) = update_cursor(x)
    BY <1>2 DEF new_line
  <2>2. x \in Wide /\ x.row = t.row + 1 /\ x.column = 0 /\ x.scrolls = t.scrolls /\ x.buffer = t.buffer
    <3>1. 0 \in 0 .. W /\ t.row + 1 \in 0 .. LastRow
      BY <1>0, <1>2
    <3> QED
      BY <3>1 DEF Wide, ScreensOf
  <2> HIDE DEF x
  <2> DEFINE u == update_cursor(x)
  <2>3. u \in Wide /\ u.row = x.row /\ u.column = x.column /\ u.scrolls = x.scrolls
        /\ u.buffer = x.buffer /\ u.cursor = CellAt(x)
    BY <2>2, CursorUpdated
  <2> HIDE DEF u
  <2>4. u \in Screens
    BY <1>0, <2>2, <2>3, ScreenIsWide
  <2>5. u.scrolls + u.row = t.scrolls + t.row + 1
    BY <1>0, <2>2, <2>3
  <2>6. u.cursor = CellAt(u)
    BY <2>3 DEF CellAt
  <2> QED
    BY <2>1, <2>2, <2>3, <2>4, <2>5, <2>6 DEF Broken, u
<1> QED
  BY <1>1, <1>2

(* The cursor steps back from a place to the one in front of it. *)
LEMMA SteppedBack ==
  ASSUME NEW t \in Screens
  PROVE  /\ StepBack(t) \in Screens
         /\ StepBack(t).scrolls = t.scrolls /\ StepBack(t).buffer = t.buffer
         /\ t.column > 0 => StepBack(t).row = t.row /\ StepBack(t).column = t.column - 1
         /\ t.column = 0 /\ t.row > 0 =>
              StepBack(t).row = t.row - 1 /\ StepBack(t).column = W - 1
<1>0. /\ W \in Nat \ {0} /\ LastRow \in Nat \ {0} /\ W = VGA_WIDTH
      /\ t.row \in 0 .. LastRow /\ t.column \in 0 .. (W - 1)
  BY Sizes DEF Screens, ScreensOf, W
<1>1. CASE t.column > 0
  <2>1. StepBack(t) = [t EXCEPT !.column = t.column - 1]
    BY <1>1 DEF StepBack, Screens, ScreensOf
  <2>2. t.column - 1 \in 0 .. (W - 1)
    BY <1>0, <1>1
  <2> QED
    BY <1>1, <2>1, <2>2 DEF Screens, ScreensOf
<1>2. CASE t.column = 0 /\ t.row > 0
  <2> DEFINE x == [t EXCEPT !.row = t.row - 1]
  <2>1. t.row - 1 \in 0 .. LastRow /\ VGA_WIDTH - 1 \in 0 .. (W - 1)
    BY <1>0, <1>2
  <2>2. StepBack(t) = [x EXCEPT !.column = VGA_WIDTH - 1]
    BY <1>2 DEF StepBack, Screens, ScreensOf
  <2>3. x \in Screens /\ x.row = t.row - 1 /\ x.scrolls = t.scrolls /\ x.buffer = t.buffer
    BY <2>1 DEF Screens, ScreensOf
  <2> HIDE DEF x
  <2> QED
    BY <1>0, <1>2, <2>1, <2>2, <2>3 DEF Screens, ScreensOf
<1>3. CASE t.column = 0 /\ ~ (t.row > 0)
  <2>1. StepBack(t) = t
    BY <1>3 DEF StepBack
  <2> QED
    BY <1>3, <2>1
<1> QED
  BY <1>0, <1>1, <1>2, <1>3

(* A character on the cell of the cursor, before the edge is looked at.    *)
Inked(t, c) == [putentry_at(t, c) EXCEPT !.column = @ + 1]

LEMMA Inking ==
  ASSUME NEW t \in Screens, NEW c \in 1 .. 255
  PROVE  /\ Inked(t, c) \in Wide
         /\ Inked(t, c).row = t.row /\ Inked(t, c).column = t.column + 1
         /\ Inked(t, c).scrolls = t.scrolls
         /\ \A i \in Cells : Inked(t, c).buffer[i] = IF i = CellAt(t) THEN c ELSE t.buffer[i]
<1> DEFINE p == putentry_at(t, c)
<1>1. /\ p \in Screens /\ p.row = t.row /\ p.column = t.column /\ p.scrolls = t.scrolls
      /\ \A i \in Cells : p.buffer[i] = IF i = CellAt(t) THEN c ELSE t.buffer[i]
  BY EntryPut
<1>2. Inked(t, c) = [p EXCEPT !.column = p.column + 1]
  BY <1>1 DEF Inked, Screens, ScreensOf
<1> HIDE DEF p
<1>3. p \in Wide /\ p.column + 1 \in 0 .. W
  <2>1. p.column \in 0 .. (W - 1) /\ W \in Nat
    BY <1>1, Sizes DEF Screens, ScreensOf
  <2> QED
    BY <1>1, <2>1, ScreensAreWide
<1>4. /\ [p EXCEPT !.column = p.column + 1] \in Wide
      /\ [p EXCEPT !.column = p.column + 1].row = p.row
      /\ [p EXCEPT !.column = p.column + 1].column = p.column + 1
      /\ [p EXCEPT !.column = p.column + 1].scrolls = p.scrolls
      /\ [p EXCEPT !.column = p.column + 1].buffer = p.buffer
  BY <1>3 DEF Wide, ScreensOf
<1> QED
  BY <1>1, <1>2, <1>4

(* putchar, in its three cases. *)
LEMMA PutBack ==
  ASSUME NEW t \in Screens
  PROVE  /\ putchar(t, BS) \in Screens
         /\ putchar(t, BS).cursor = CellAt(putchar(t, BS))
         /\ putchar(t, BS).row = StepBack(t).row /\ putchar(t, BS).column = StepBack(t).column
         /\ putchar(t, BS).scrolls = t.scrolls
         /\ \A i \in Cells : putchar(t, BS).buffer[i] =
                               IF i = CellAt(StepBack(t)) THEN SP ELSE t.buffer[i]
<1> DEFINE b == StepBack(t)
           p == putentry_at(b, SP)
           u == update_cursor(p)
<1>1. b \in Screens /\ b.scrolls = t.scrolls /\ b.buffer = t.buffer
  BY SteppedBack
<1>2. putchar(t, BS) = u
  BY DEF putchar
<1> HIDE DEF b
<1>3. /\ p \in Screens /\ p.row = b.row /\ p.column = b.column /\ p.scrolls = b.scrolls
      /\ \A i \in Cells : p.buffer[i] = IF i = CellAt(b) THEN SP ELSE b.buffer[i]
  <2>1. SP \in 1 .. 255
    BY DEF SP
  <2> QED
    BY <1>1, <2>1, EntryPut
<1> HIDE DEF p
<1>4. /\ u \in Wide /\ u.row = p.row /\ u.column = p.column /\ u.scrolls = p.scrolls
      /\ u.buffer = p.buffer /\ u.cursor = CellAt(p)
  BY <1>3, CursorUpdated, ScreensAreWide
<1> HIDE DEF u
<1>5. u \in Screens
  <2>1. p \in Wide /\ p.column # W
    BY <1>3, ScreensAreWide, ScreenIsWide
  <2> QED
    BY <1>4, <2>1, ScreenIsWide
<1>6. u.cursor = CellAt(u)
  BY <1>4 DEF CellAt
<1> QED
  BY <1>1, <1>2, <1>3, <1>4, <1>5, <1>6 DEF b

(* A character that leaves the cursor on its row. *)
LEMMA PutOnRow ==
  ASSUME NEW t \in Screens, NEW c \in 1 .. 255, c # BS, c # LF, t.column # W - 1
  PROVE  /\ putchar(t, c) \in Screens
         /\ putchar(t, c).cursor = CellAt(putchar(t, c))
         /\ putchar(t, c).row = t.row /\ putchar(t, c).column = t.column + 1
         /\ putchar(t, c).scrolls = t.scrolls
         /\ \A i \in Cells : putchar(t, c).buffer[i] =
                               IF i = CellAt(t) THEN c ELSE t.buffer[i]
<1> DEFINE x == Inked(t, c)
           u == update_cursor(x)
<1>0. W \in Nat \ {0} /\ VGA_WIDTH = W /\ t.column \in 0 .. (W - 1)
  BY Sizes DEF Screens, ScreensOf, W
<1>1. /\ x \in Wide /\ x.row = t.row /\ x.column = t.column + 1 /\ x.scrolls = t.scrolls
      /\ \A i \in Cells : x.buffer[i] = IF i = CellAt(t) THEN c ELSE t.buffer[i]
  BY Inking
<1>2. x.column # VGA_WIDTH
  BY <1>0, <1>1
<1>3. putchar(t, c) = u
  BY <1>2 DEF putchar, AtEdge, Inked
<1> HIDE DEF x
<1>4. /\ u \in Wide /\ u.row = x.row /\ u.column = x.column /\ u.scrolls = x.scrolls
      /\ u.buffer = x.buffer /\ u.cursor = CellAt(x)
  BY <1>1, CursorUpdated
<1> HIDE DEF u
<1>5. u \in Screens
  BY <1>0, <1>2, <1>4, ScreenIsWide
<1>6. u.cursor = CellAt(u)
  BY <1>4 DEF CellAt
<1> QED
  BY <1>1, <1>3, <1>4, <1>5, <1>6

(* A character on the last place of a row. *)
LEMMA PutAtEdge ==
  ASSUME NEW t \in Screens, NEW c \in 1 .. 255, c # BS, c # LF, t.column = W - 1
  PROVE  Broken(Inked(t, c), putchar(t, c))
<1> DEFINE x == Inked(t, c)
           u == new_line(x)
<1>0. W \in Nat \ {0} /\ VGA_WIDTH = W
  BY Sizes DEF W
<1>1. x \in Wide /\ x.column = t.column + 1
  BY Inking
<1>2. x.column = VGA_WIDTH
  BY <1>0, <1>1
<1>3. putchar(t, c) = update_cursor(u)
  BY <1>2 DEF putchar, AtEdge, Inked
<1> HIDE DEF x
<1>4. Broken(x, u)
  BY <1>1, NewLine
<1> HIDE DEF u
<1>5. u \in Wide /\ u \in Screens /\ u.cursor = CellAt(u)
  BY <1>4, ScreensAreWide DEF Broken
<1>6. update_cursor(u) = u
  <2>1. update_cursor(u) = [u EXCEPT !.cursor = CellAt(u)]
    BY DEF update_cursor, CellAt, W
  <2>2. [u EXCEPT !.cursor = u.cursor] = u
    BY <1>5 DEF Screens, ScreensOf
  <2> QED
    BY <1>5, <2>1, <2>2
<1> QED
  BY <1>3, <1>4, <1>6 DEF x

LEMMA PutNewLine ==
  ASSUME NEW t \in Screens
  PROVE  Broken(t, putchar(t, LF))
<1>1. putchar(t, LF) = new_line(t)
  BY DEF putchar, LF, BS
<1> QED
  BY <1>1, NewLine, ScreensAreWide

LEMMA PutIsScreen ==
  ASSUME NEW t \in Screens, NEW c \in 1 .. 255
  PROVE  putchar(t, c) \in Screens
<1>1. CASE c = BS
  BY <1>1, PutBack
<1>2. CASE c = LF
  BY <1>2, PutNewLine DEF Broken
<1>3. CASE c # BS /\ c # LF
  BY <1>3, PutOnRow, PutAtEdge DEF Broken
<1> QED
  BY <1>1, <1>2, <1>3

-----------------------------------------------------------------------------
(* What the paper shows *)

(* Taking the last character. *)
LEMMA FrontOf ==
  ASSUME NEW S, NEW s \in Seq(S), s # << >>
  PROVE  /\ Len(s) \in Nat \ {0} /\ Front(s) \in Seq(S) /\ Len(Front(s)) = Len(s) - 1
         /\ \A i \in 1 .. (Len(s) - 1) : Front(s)[i] = s[i]
         /\ Last(s) \in S
<1> DEFINE n == Len(s)
           u == Front(s)
<1>1. n \in Nat \ {0}
  OBVIOUS
<1>2. u = SubSeq(s, 1, n - 1)
  BY DEF Front
<1>3. Last(s) \in S
  <2>1. n \in 1 .. n
    BY <1>1
  <2> QED
    BY <2>1, ElementOfSeq DEF Last
<1> HIDE DEF n, u
<1>4. n - 1 \in Int /\ \A i \in 1 .. (n - 1) : i \in 1 .. n /\ 1 + i - 1 = i
  BY <1>1
<1>5. \A i \in 1 .. (n - 1) : s[i] \in S
  BY <1>4, ElementOfSeq DEF n
<1>6. /\ SubSeq(s, 1, n - 1) \in Seq(S)
      /\ Len(SubSeq(s, 1, n - 1)) = IF 1 <= n - 1 THEN (n - 1) - 1 + 1 ELSE 0
      /\ \A i \in 1 .. (n - 1) - 1 + 1 : SubSeq(s, 1, n - 1)[i] = s[1 + i - 1]
  BY <1>4, <1>5, SubSeqProperties
<1>7. u \in Seq(S) /\ Len(u) = n - 1 /\ \A i \in 1 .. (n - 1) : u[i] = s[i]
  BY <1>1, <1>2, <1>4, <1>6
<1> QED
  BY <1>1, <1>3, <1>7 DEF n, u

(* A place of the paper with the text s shows v: the character printed     *)
(* there, or a space.                                                      *)
Paper(s, p, v) ==
  /\ \A k \in 1 .. Len(s) : s[k] # LF /\ Layout(s)[k - 1] = p => v = s[k]
  /\ (\A k \in 1 .. Len(s) : s[k] = LF \/ Layout(s)[k - 1] # p) => v = SP

Pen(s) == Layout(s)[Len(s)]

LEMMA PenIsPlace ==
  ASSUME NEW s, Len(s) \in Nat
  PROVE  Pen(s) \in Places
<1>1. Len(s) \in 0 .. Len(s)
  OBVIOUS
<1> QED
  BY <1>1, LayoutUnfolds DEF Pen

(* From the pen on the paper is empty. *)
LEMMA EmptyAhead ==
  ASSUME NEW s, Len(s) \in Nat, NEW p \in Places, ~ Before(p, Pen(s))
  PROVE  Paper(s, p, SP)
<1> DEFINE n == Len(s)
<1>1. ASSUME NEW k \in 1 .. n, Layout(s)[k - 1] = p
      PROVE  FALSE
  <2>1. n \in 0 .. n /\ k - 1 \in 0 .. (n - 1)
    OBVIOUS
  <2>2. Before(Layout(s)[k - 1], Layout(s)[n])
    BY <2>1, LayoutAdvances
  <2> QED
    BY <1>1, <2>2 DEF Pen
<1> QED
  BY <1>1 DEF Paper

(* One character more. *)
LEMMA PaperAppend ==
  ASSUME NEW s \in Seq(Characters), NEW c \in Characters
  PROVE  /\ Append(s, c) \in Seq(Characters)
         /\ Pen(Append(s, c)) = PlaceAfter(Pen(s), c)
         /\ \A p \in Places : \A v : Paper(s, p, v) /\ (c = LF \/ p # Pen(s)) => Paper(Append(s, c), p, v)
         /\ c # LF => Paper(Append(s, c), Pen(s), c)
<1> DEFINE n == Len(s)
           u == Append(s, c)
<1>0. /\ n \in Nat /\ u \in Seq(Characters) /\ Len(u) = n + 1 /\ Len(u) \in Nat /\ n <= Len(u)
      /\ u[n + 1] = c /\ \A i \in 1 .. n : u[i] = s[i]
  OBVIOUS
<1> HIDE DEF u
<1>1. \A i \in 0 .. n : Layout(u)[i] = Layout(s)[i]
  BY <1>0, LayoutGrows
<1>2. Layout(u)[n] = Pen(s)
  <2>1. n \in 0 .. n
    BY <1>0
  <2> QED
    BY <1>1, <2>1 DEF Pen
<1>3. Pen(u) = PlaceAfter(Pen(s), c)
  <2>1. n + 1 \in 1 .. Len(u) /\ (n + 1) - 1 = n
    BY <1>0
  <2>2. Layout(u)[n + 1] = PlaceAfter(Layout(u)[n], u[n + 1])
    BY <1>0, <2>1, LayoutUnfolds
  <2> QED
    BY <1>0, <1>2, <2>2 DEF Pen
<1>4. \A k \in 1 .. Len(u) : k = n + 1 \/ (k \in 1 .. n /\ k - 1 \in 0 .. n)
  BY <1>0
<1>5. \A k \in 1 .. n : k \in 1 .. Len(u) /\ k - 1 \in 0 .. n
  BY <1>0
<1>6. ASSUME NEW p \in Places, NEW v, Paper(s, p, v), c = LF \/ p # Pen(s)
      PROVE  Paper(u, p, v)
  <2>1. ASSUME NEW k \in 1 .. Len(u), u[k] # LF, Layout(u)[k - 1] = p
        PROVE  v = u[k]
    <3>1. k # n + 1
      <4>1. (n + 1) - 1 = n
        BY <1>0
      <4> QED
        BY <1>0, <1>2, <1>6, <2>1, <4>1
    <3>2. k \in 1 .. n /\ k - 1 \in 0 .. n
      BY <1>4, <3>1
    <3>3. u[k] = s[k] /\ Layout(s)[k - 1] = p
      BY <1>0, <1>1, <2>1, <3>2
    <3> QED
      BY <1>6, <2>1, <3>2, <3>3 DEF Paper
  <2>2. ASSUME \A k \in 1 .. Len(u) : u[k] = LF \/ Layout(u)[k - 1] # p
        PROVE  v = SP
    <3>1. \A k \in 1 .. n : s[k] = LF \/ Layout(s)[k - 1] # p
      BY <1>0, <1>1, <1>5, <2>2
    <3> QED
      BY <1>6, <3>1 DEF Paper
  <2> QED
    BY <2>1, <2>2 DEF Paper
<1>7. ASSUME c # LF
      PROVE  Paper(u, Pen(s), c)
  <2>1. ASSUME NEW k \in 1 .. Len(u), Layout(u)[k - 1] = Pen(s)
        PROVE  k = n + 1
    <3>1. CASE k \in 1 .. n
      <4>1. n \in 0 .. n /\ k - 1 \in 0 .. (n - 1) /\ k - 1 \in 0 .. n
        BY <1>0, <3>1
      <4>2. Before(Layout(s)[k - 1], Layout(s)[n])
        BY <1>0, <4>1, LayoutAdvances
      <4>3. Layout(s)[k - 1] = Layout(s)[n]
        BY <1>1, <2>1, <4>1 DEF Pen
      <4>4. Layout(s)[n] \in Places
        BY <1>0, PenIsPlace DEF Pen
      <4> QED
        BY <4>2, <4>3, <4>4 DEF Before, Places
    <3> QED
      BY <1>4, <3>1
  <2>2. n + 1 \in 1 .. Len(u) /\ (n + 1) - 1 = n
    BY <1>0
  <2> QED
    BY <1>0, <1>2, <1>7, <2>1, <2>2 DEF Paper
<1> QED
  BY <1>0, <1>3, <1>6, <1>7 DEF u

(* The last character is taken back. *)
LEMMA PaperFront ==
  ASSUME NEW s \in Seq(Characters), s # << >>, Last(s) # LF
  PROVE  /\ Front(s) \in Seq(Characters)
         /\ Pen(Front(s)) \in Places /\ Pen(s) = PlaceAfter(Pen(Front(s)), Last(s))
         /\ \A p \in Places : \A v : Paper(s, p, v) /\ p # Pen(Front(s)) => Paper(Front(s), p, v)
         /\ Paper(Front(s), Pen(Front(s)), SP)
<1> DEFINE n == Len(s)
           u == Front(s)
<1>0. /\ n \in Nat \ {0} /\ u \in Seq(Characters) /\ Len(u) = n - 1 /\ Len(u) \in Nat /\ Len(u) <= n
      /\ \A i \in 1 .. Len(u) : s[i] = u[i]
  BY FrontOf
<1> HIDE DEF u
<1>1. \A i \in 0 .. Len(u) : Layout(s)[i] = Layout(u)[i]
  BY <1>0, LayoutGrows
<1>2. Layout(s)[n - 1] = Pen(u)
  <2>1. n - 1 \in 0 .. Len(u)
    BY <1>0
  <2> QED
    BY <1>0, <1>1, <2>1 DEF Pen
<1>3. Pen(s) = PlaceAfter(Pen(u), Last(s))
  <2>1. n \in 1 .. n
    BY <1>0
  <2>2. Layout(s)[n] = PlaceAfter(Layout(s)[n - 1], s[n])
    BY <1>0, <2>1, LayoutUnfolds
  <2> QED
    BY <1>2, <2>2 DEF Pen, Last
<1>4. Pen(u) \in Places
  BY <1>0, PenIsPlace
<1>5. ASSUME NEW p \in Places, NEW v, Paper(s, p, v), p # Pen(u)
      PROVE  Paper(u, p, v)
  <2>0. \A k \in 1 .. Len(u) : k \in 1 .. n /\ k - 1 \in 0 .. Len(u)
    BY <1>0
  <2>1. ASSUME NEW k \in 1 .. Len(u), u[k] # LF, Layout(u)[k - 1] = p
        PROVE  v = u[k]
    <3>1. u[k] = s[k] /\ Layout(s)[k - 1] = p /\ k \in 1 .. n
      BY <1>0, <1>1, <2>0, <2>1
    <3> QED
      BY <1>5, <2>1, <3>1 DEF Paper
  <2>2. ASSUME \A k \in 1 .. Len(u) : u[k] = LF \/ Layout(u)[k - 1] # p
        PROVE  v = SP
    <3>1. ASSUME NEW k \in 1 .. n
          PROVE  s[k] = LF \/ Layout(s)[k - 1] # p
      <4>1. CASE k = n
        BY <1>2, <1>5, <4>1
      <4>2. CASE k # n
        <5>1. k \in 1 .. Len(u) /\ k - 1 \in 0 .. Len(u)
          BY <1>0, <4>2
        <5> QED
          BY <1>0, <1>1, <2>2, <5>1
      <4> QED
        BY <4>1, <4>2
    <3> QED
      BY <1>5, <3>1 DEF Paper
  <2> QED
    BY <2>1, <2>2 DEF Paper
<1>6. Paper(u, Pen(u), SP)
  <2>1. ~ Before(Pen(u), Pen(u))
    BY <1>4 DEF Before, Places
  <2> QED
    BY <1>0, <1>4, <2>1, EmptyAhead
<1> QED
  BY <1>0, <1>3, <1>4, <1>5, <1>6 DEF u

-----------------------------------------------------------------------------
(* The screen is a window on the paper *)

Here(t) == [row |-> t.scrolls + t.row, column |-> t.column]

Window(t, s) ==
  /\ s \in Seq(Characters) /\ t \in Screens
  /\ Here(t) = Pen(s) /\ t.cursor = CellAt(t)
  /\ \A i \in Cells : Paper(s, PlaceOf(t, i), t.buffer[i])

LEMMA PlaceOfCell ==
  ASSUME NEW t \in Wide, NEW i \in Cells
  PROVE  /\ PlaceOf(t, i) \in Places
         /\ t \in Screens /\ i = CellAt(t) => PlaceOf(t, i) = Here(t)
         /\ i # CellAt(t) => PlaceOf(t, i) # Here(t)
<1>0. /\ W \in Nat \ {0} /\ VGA_WIDTH = W /\ t.row \in 0 .. LastRow
      /\ t.column \in 0 .. W /\ t.scrolls \in Nat /\ LastRow \in Nat
  BY Sizes DEF Wide, ScreensOf, W
<1>1. i \div W \in 0 .. LastRow /\ i % W \in 0 .. (W - 1) /\ i = (i \div W) * W + (i % W)
  BY CellPlace
<1>2. PlaceOf(t, i) = [row |-> t.scrolls + (i \div W), column |-> i % W]
  BY <1>0 DEF PlaceOf
<1>3. PlaceOf(t, i) \in Places
  BY <1>0, <1>1, <1>2 DEF Places
<1>4. ASSUME t \in Screens, i = CellAt(t)
      PROVE  PlaceOf(t, i) = Here(t)
  <2>1. t.column \in 0 .. (W - 1)
    BY <1>4 DEF Screens, ScreensOf
  <2>2. i \div W = t.row /\ i % W = t.column
    BY <1>0, <1>4, <2>1, CellOf DEF CellAt
  <2> QED
    BY <1>2, <2>2 DEF Here
<1>5. ASSUME PlaceOf(t, i) = Here(t)
      PROVE  i = CellAt(t)
  <2> DEFINE q == i \div W
             c == i % W
  <2>1. t.scrolls + q = t.scrolls + t.row /\ c = t.column
    BY <1>2, <1>5 DEF Here
  <2>2. q \in Nat /\ t.row \in Nat
    BY <1>0, <1>1
  <2> HIDE DEF q
  <2>3. q = t.row
    BY <1>0, <2>1, <2>2
  <2> QED
    BY <1>1, <2>1, <2>3 DEF CellAt, q
<1> QED
  BY <1>3, <1>4, <1>5

(* A new line moves the window or the cursor. *)
LEMMA BreakShows ==
  ASSUME NEW t \in Wide, NEW u, Broken(t, u), NEW s \in Seq(Characters),
         Pen(s) = [row |-> t.scrolls + t.row + 1, column |-> 0],
         \A i \in Cells : Paper(s, PlaceOf(t, i), t.buffer[i])
  PROVE  Window(u, s)
<1>0. /\ W \in Nat \ {0} /\ VGA_WIDTH = W /\ LastRow \in Nat
      /\ t.scrolls \in Nat /\ t.row \in Nat
      /\ u \in Screens /\ u \in Wide /\ u.column = 0 /\ u.cursor = CellAt(u)
      /\ u.scrolls + u.row = t.scrolls + t.row + 1
  BY Sizes, ScreensAreWide DEF Broken, Wide, ScreensOf, W
<1>1. Here(u) = Pen(s)
  BY <1>0 DEF Here
<1>2. ASSUME NEW i \in Cells
      PROVE  Paper(s, PlaceOf(u, i), u.buffer[i])
  <2>1. CASE u.scrolls = t.scrolls /\ u.buffer = t.buffer
    BY <2>1 DEF PlaceOf
  <2>2. CASE /\ u.scrolls = t.scrolls + 1 /\ u.row = LastRow
             /\ \A j \in Cells : u.buffer[j] = IF j < LastRow * W THEN t.buffer[j + W] ELSE SP
    <3>1. CASE i < LastRow * W
      <4>1. i + W \in Cells /\ (i + W) \div W = i \div W + 1 /\ (i + W) % W = i % W
        BY <3>1, CellBelow
      <4>2. t.scrolls + (i \div W + 1) = t.scrolls + 1 + i \div W
        <5> DEFINE q == i \div W
        <5>1. q \in 0 .. LastRow
          BY CellPlace
        <5> HIDE DEF q
        <5>2. t.scrolls + (q + 1) = t.scrolls + 1 + q
          BY <1>0, <5>1
        <5> QED
          BY <5>2 DEF q
      <4>3. PlaceOf(u, i) = PlaceOf(t, i + W)
        BY <1>0, <2>2, <4>1, <4>2 DEF PlaceOf
      <4> QED
        BY <2>2, <3>1, <4>1, <4>3
    <3>2. CASE ~ (i < LastRow * W)
      <4>1. i \div W = LastRow /\ i % W \in 0 .. (W - 1)
        BY <3>2, CellLast, CellPlace
      <4>2. PlaceOf(u, i) \in Places
        BY <1>0, PlaceOfCell
      <4>3. PlaceOf(u, i).row = u.scrolls + LastRow /\ PlaceOf(u, i).column = i % W
        BY <1>0, <4>1 DEF PlaceOf
      <4>4. Pen(s).row = u.scrolls + LastRow /\ Pen(s).column = 0
        BY <1>0, <2>2
      <4>5. ~ Before(PlaceOf(u, i), Pen(s))
        <5>1. u.scrolls + LastRow \in Nat
          BY <1>0, <2>2
        <5> QED
          BY <1>0, <4>1, <4>3, <4>4, <5>1 DEF Before
      <4>6. Paper(s, PlaceOf(u, i), SP)
        BY <4>2, <4>5, EmptyAhead
      <4> QED
        BY <2>2, <3>2, <4>6
    <3> QED
      BY <3>1, <3>2
  <2> QED
    BY <2>1, <2>2 DEF Broken
<1> QED
  BY <1>0, <1>1, <1>2 DEF Window

(* putchar of a character that is no backspace. *)
LEMMA PutShows ==
  ASSUME NEW t, NEW s, Window(t, s), NEW c \in Characters
  PROVE  Window(putchar(t, c), Append(s, c))
<1> DEFINE u == Append(s, c)
           x == Inked(t, c)
<1>0. /\ s \in Seq(Characters) /\ t \in Screens /\ t \in Wide
      /\ c \in 1 .. 255 /\ c # BS /\ VGA_WIDTH = W /\ W \in Nat \ {0}
      /\ Here(t) = Pen(s) /\ Here(t).column = t.column /\ Here(t).row = t.scrolls + t.row
      /\ t.column \in 0 .. (W - 1) /\ t.scrolls \in Nat /\ t.row \in Nat
  <2>1. s \in Seq(Characters) /\ t \in Screens /\ t \in Wide /\ Here(t) = Pen(s)
    BY ScreensAreWide DEF Window
  <2>2. c \in 1 .. 255 /\ c # BS /\ VGA_WIDTH = W /\ W \in Nat \ {0}
    BY Sizes DEF Characters, W
  <2>3. Here(t).column = t.column /\ Here(t).row = t.scrolls + t.row
    BY DEF Here
  <2>4. t.column \in 0 .. (W - 1) /\ t.scrolls \in Nat /\ t.row \in Nat
    BY <2>1, Sizes DEF Screens, ScreensOf
  <2> QED
    BY <2>1, <2>2, <2>3, <2>4
<1>1. /\ u \in Seq(Characters) /\ Pen(u) = PlaceAfter(Pen(s), c)
      /\ \A p \in Places : \A v : Paper(s, p, v) /\ (c = LF \/ p # Pen(s)) => Paper(u, p, v)
      /\ c # LF => Paper(u, Pen(s), c)
  BY <1>0, PaperAppend
<1>2. \A i \in Cells : PlaceOf(t, i) \in Places /\ Paper(s, PlaceOf(t, i), t.buffer[i])
  BY <1>0, PlaceOfCell DEF Window
<1> HIDE DEF u
<1>3. CASE c = LF
  <2>1. Pen(u) = [row |-> t.scrolls + t.row + 1, column |-> 0]
    BY <1>0, <1>1, <1>3 DEF PlaceAfter
  <2>2. \A i \in Cells : Paper(u, PlaceOf(t, i), t.buffer[i])
    BY <1>1, <1>2, <1>3
  <2>3. Broken(t, putchar(t, c))
    BY <1>0, <1>3, PutNewLine
  <2> QED
    BY <1>0, <1>1, <2>1, <2>2, <2>3, BreakShows DEF u
<1>4. CASE c # LF
  <2>1. /\ x \in Wide /\ x.row = t.row /\ x.column = t.column + 1 /\ x.scrolls = t.scrolls
        /\ \A i \in Cells : x.buffer[i] = IF i = CellAt(t) THEN c ELSE t.buffer[i]
    BY <1>0, Inking
  <2>2. ASSUME NEW i \in Cells
        PROVE  Paper(u, PlaceOf(t, i), IF i = CellAt(t) THEN c ELSE t.buffer[i])
    <3>1. CASE i = CellAt(t)
      <4>1. PlaceOf(t, i) = Pen(s)
        BY <1>0, <3>1, PlaceOfCell
      <4> QED
        BY <1>1, <1>4, <3>1, <4>1
    <3>2. CASE i # CellAt(t)
      <4>1. PlaceOf(t, i) # Pen(s)
        BY <1>0, <3>2, PlaceOfCell
      <4> QED
        BY <1>1, <1>2, <3>2, <4>1
    <3> QED
      BY <3>1, <3>2
  <2>3. CASE t.column = W - 1
    <3>1. Broken(x, putchar(t, c))
      BY <1>0, <1>4, <2>3, PutAtEdge
    <3>2. Pen(u) = [row |-> x.scrolls + x.row + 1, column |-> 0]
      BY <1>0, <1>1, <2>1, <2>3 DEF PlaceAfter
    <3>3. \A i \in Cells : Paper(u, PlaceOf(x, i), x.buffer[i])
      BY <2>1, <2>2 DEF PlaceOf
    <3> HIDE DEF x
    <3> QED
      BY <1>1, <2>1, <3>1, <3>2, <3>3, BreakShows DEF u
  <2>4. CASE t.column # W - 1
    <3> DEFINE y == putchar(t, c)
    <3>1. /\ y \in Screens /\ y.cursor = CellAt(y)
          /\ y.row = t.row /\ y.column = t.column + 1 /\ y.scrolls = t.scrolls
          /\ \A i \in Cells : y.buffer[i] = IF i = CellAt(t) THEN c ELSE t.buffer[i]
      BY <1>0, <1>4, <2>4, PutOnRow
    <3> HIDE DEF y
    <3>2. Here(y) = Pen(u)
      BY <1>0, <1>1, <1>4, <2>4, <3>1 DEF Here, PlaceAfter
    <3>3. \A i \in Cells : Paper(u, PlaceOf(y, i), y.buffer[i])
      BY <2>2, <3>1 DEF PlaceOf
    <3> QED
      BY <1>1, <3>1, <3>2, <3>3 DEF Window, u, y
  <2> QED
    BY <2>3, <2>4
<1> QED
  BY <1>3, <1>4

(* The cursor of t stands behind the place in row r and column c. *)
Behind(t, r, c) ==
  \/ c = W - 1 /\ t.row = r + 1 /\ t.column = 0
  \/ c # W - 1 /\ t.row = r /\ t.column = c + 1

LEMMA BackTo ==
  ASSUME NEW t \in Screens, NEW r \in 0 .. LastRow, NEW c \in 0 .. (W - 1), Behind(t, r, c)
  PROVE  /\ putchar(t, BS) \in Screens
         /\ putchar(t, BS).cursor = CellAt(putchar(t, BS))
         /\ putchar(t, BS).row = r /\ putchar(t, BS).column = c
         /\ putchar(t, BS).scrolls = t.scrolls
         /\ \A i \in Cells : putchar(t, BS).buffer[i] = IF i = r * W + c THEN SP ELSE t.buffer[i]
<1>0. W \in Nat \ {0} /\ r \in Nat /\ c \in Nat
  BY Sizes
<1>1. StepBack(t).row = r /\ StepBack(t).column = c
  <2>1. CASE c = W - 1 /\ t.row = r + 1 /\ t.column = 0
    <3>1. t.row > 0 /\ t.row - 1 = r
      BY <1>0, <2>1
    <3> QED
      BY <2>1, <3>1, SteppedBack
  <2>2. CASE c # W - 1 /\ t.row = r /\ t.column = c + 1
    <3>1. t.column > 0 /\ t.column - 1 = c
      BY <1>0, <2>2
    <3> QED
      BY <2>2, <3>1, SteppedBack
  <2> QED
    BY <2>1, <2>2 DEF Behind
<1>2. CellAt(StepBack(t)) = r * W + c
  BY <1>1 DEF CellAt
<1> QED
  BY <1>1, <1>2, PutBack

(* A character that does not scroll leaves the cursor behind it. *)
LEMMA PutBehind ==
  ASSUME NEW t \in Screens, NEW c \in 1 .. 255, c # BS, c # LF,
         t.column = W - 1 => t.row # LastRow
  PROVE  /\ putchar(t, c) \in Screens /\ Behind(putchar(t, c), t.row, t.column)
         /\ putchar(t, c).scrolls = t.scrolls
         /\ \A i \in Cells : putchar(t, c).buffer[i] = IF i = CellAt(t) THEN c ELSE t.buffer[i]
<1> DEFINE u == putchar(t, c)
           x == Inked(t, c)
<1>0. /\ W \in Nat \ {0} /\ LastRow \in Nat /\ t.row \in 0 .. LastRow /\ t.column \in 0 .. (W - 1)
      /\ t.scrolls \in Nat
  BY Sizes DEF Screens, ScreensOf
<1>1. CASE t.column # W - 1
  BY <1>1, PutOnRow DEF Behind
<1>2. CASE t.column = W - 1
  <2>1. /\ x.row = t.row /\ x.scrolls = t.scrolls
        /\ \A i \in Cells : x.buffer[i] = IF i = CellAt(t) THEN c ELSE t.buffer[i]
    BY Inking
  <2>2. Broken(x, u)
    BY <1>2, PutAtEdge
  <2> HIDE DEF x, u
  <2>3. /\ u \in Screens /\ u.column = 0 /\ u.scrolls + u.row = t.scrolls + t.row + 1
        /\ u.row \in Nat /\ u.scrolls \in Nat
    BY <2>1, <2>2 DEF Broken, Screens, ScreensOf
  <2>4. u.scrolls = t.scrolls /\ u.buffer = x.buffer
    <3>1. CASE u.scrolls = t.scrolls + 1 /\ u.row = LastRow
      <4>1. t.row = LastRow
        BY <1>0, <2>3, <3>1
      <4> QED
        BY <1>2, <4>1
    <3> QED
      BY <2>1, <2>2, <3>1 DEF Broken
  <2>5. u.row = t.row + 1
    BY <1>0, <2>3, <2>4
  <2> QED
    BY <1>2, <2>1, <2>3, <2>4, <2>5 DEF Behind, u
<1> QED
  BY <1>1, <1>2

(* Backspace, space, backspace over the last character, while its place is *)
(* still on the screen.                                                    *)
LEMMA EraseShows ==
  ASSUME NEW t, NEW s, Window(t, s), s # << >>, Last(s) # LF,
         Pen(Front(s)).row >= t.scrolls
  PROVE  /\ Window(putchar(putchar(putchar(t, BS), SP), BS), Front(s))
         /\ putchar(putchar(putchar(t, BS), SP), BS).scrolls = t.scrolls
<1> DEFINE u == Front(s)
           r == Pen(u).row - t.scrolls
           c == Pen(u).column
           k == r * W + c
           t1 == putchar(t, BS)
           t2 == putchar(t1, SP)
           t3 == putchar(t2, BS)
<1>0. /\ s \in Seq(Characters) /\ t \in Screens /\ Here(t) = Pen(s)
      /\ W \in Nat \ {0} /\ VGA_WIDTH = W /\ LastRow \in Nat
  BY Sizes DEF Window, W
<1>1. /\ u \in Seq(Characters) /\ Pen(u) \in Places /\ Pen(s) = PlaceAfter(Pen(u), Last(s))
      /\ \A p \in Places : \A v : Paper(s, p, v) /\ p # Pen(u) => Paper(u, p, v)
      /\ Paper(u, Pen(u), SP)
  BY <1>0, PaperFront
<1> HIDE DEF u
<1>2. /\ t.row \in 0 .. LastRow /\ t.column \in 0 .. (W - 1) /\ t.scrolls \in Nat
      /\ Pen(u).row \in Nat /\ Pen(u).column \in 0 .. (W - 1)
  BY <1>0, <1>1 DEF Screens, ScreensOf, Places
<1>3. /\ Behind(t, r, c) /\ r \in 0 .. LastRow /\ c \in 0 .. (W - 1)
      /\ c = W - 1 => r # LastRow
  <2>0. Pen(u).row >= t.scrolls
    BY DEF u
  <2>1. CASE Pen(u).column = W - 1
    <3>1. Here(t) = [row |-> Pen(u).row + 1, column |-> 0]
      BY <1>0, <1>1, <2>1 DEF PlaceAfter
    <3>2. t.scrolls + t.row = Pen(u).row + 1 /\ t.column = 0
      BY <3>1 DEF Here
    <3>3. t.row = r + 1
      BY <1>2, <3>2
    <3>4. r \in 0 .. LastRow /\ r # LastRow
      BY <1>0, <1>2, <2>0, <3>3
    <3> QED
      BY <1>2, <2>1, <3>2, <3>3, <3>4 DEF Behind
  <2>2. CASE Pen(u).column # W - 1
    <3>1. Here(t) = [row |-> Pen(u).row, column |-> Pen(u).column + 1]
      BY <1>0, <1>1, <2>2 DEF PlaceAfter
    <3>2. t.scrolls + t.row = Pen(u).row /\ t.column = Pen(u).column + 1
      BY <3>1 DEF Here
    <3>3. t.row = r
      BY <1>2, <3>2
    <3> QED
      BY <1>2, <2>2, <3>2, <3>3 DEF Behind
  <2> QED
    BY <2>1, <2>2
<1>4. t.scrolls + r = Pen(u).row
  BY <1>2
<1> HIDE DEF r, c
<1>5. /\ t1 \in Screens /\ t1.row = r /\ t1.column = c /\ t1.scrolls = t.scrolls
      /\ \A i \in Cells : t1.buffer[i] = IF i = k THEN SP ELSE t.buffer[i]
  BY <1>0, <1>3, BackTo
<1> HIDE DEF t1
<1>6. /\ t2 \in Screens /\ Behind(t2, r, c) /\ t2.scrolls = t.scrolls
      /\ \A i \in Cells : t2.buffer[i] = IF i = k THEN SP ELSE t.buffer[i]
  <2>1. SP \in 1 .. 255 /\ SP # BS /\ SP # LF
    BY DEF SP, BS, LF
  <2>2. t1.column = W - 1 => t1.row # LastRow
    BY <1>3, <1>5
  <2>3. /\ t2 \in Screens /\ Behind(t2, t1.row, t1.column) /\ t2.scrolls = t1.scrolls
        /\ \A i \in Cells : t2.buffer[i] = IF i = CellAt(t1) THEN SP ELSE t1.buffer[i]
    BY <1>5, <2>1, <2>2, PutBehind
  <2>4. CellAt(t1) = k
    BY <1>5 DEF CellAt
  <2> HIDE DEF t2, k
  <2> QED
    BY <1>5, <2>3, <2>4
<1> HIDE DEF t2
<1>7. /\ t3 \in Screens /\ t3.cursor = CellAt(t3) /\ t3.row = r /\ t3.column = c
      /\ t3.scrolls = t.scrolls
      /\ \A i \in Cells : t3.buffer[i] = IF i = k THEN SP ELSE t.buffer[i]
  <2>1. /\ t3 \in Screens /\ t3.cursor = CellAt(t3) /\ t3.row = r /\ t3.column = c
        /\ t3.scrolls = t2.scrolls
        /\ \A i \in Cells : t3.buffer[i] = IF i = k THEN SP ELSE t2.buffer[i]
    BY <1>3, <1>6, BackTo
  <2> HIDE DEF t3, k
  <2> QED
    BY <1>6, <2>1
<1> HIDE DEF t3
<1>8. Here(t3) = Pen(u)
  <2>1. Pen(u) = [row |-> Pen(u).row, column |-> Pen(u).column]
    BY <1>1 DEF Places
  <2> QED
    BY <1>4, <1>7, <2>1 DEF Here, c
<1>9. ASSUME NEW i \in Cells
      PROVE  Paper(u, PlaceOf(t3, i), t3.buffer[i])
  <2>1. /\ PlaceOf(t3, i) \in Places
        /\ i = CellAt(t3) => PlaceOf(t3, i) = Here(t3)
        /\ i # CellAt(t3) => PlaceOf(t3, i) # Here(t3)
    BY <1>7, ScreensAreWide, PlaceOfCell
  <2>2. CellAt(t3) = k
    BY <1>7 DEF CellAt
  <2> HIDE DEF k
  <2>3. CASE i = k
    BY <1>1, <1>7, <1>8, <2>1, <2>2, <2>3
  <2>4. CASE i # k
    <3>1. PlaceOf(t3, i) = PlaceOf(t, i)
      BY <1>7 DEF PlaceOf
    <3>2. Paper(s, PlaceOf(t3, i), t.buffer[i])
      BY <3>1 DEF Window
    <3> QED
      BY <1>1, <1>7, <1>8, <2>1, <2>2, <2>4, <3>2
  <2> QED
    BY <2>3, <2>4
<1> QED
  BY <1>1, <1>7, <1>8, <1>9 DEF Window, t1, t2, t3, u

-----------------------------------------------------------------------------
(* Strings *)

(* f[i] is the screen after i characters of w. *)
Writes(f, t, w) ==
  /\ f \in [0 .. Len(w) -> Screens] /\ f[0] = t
  /\ \A i \in 1 .. Len(w) : f[i] = putchar(f[i - 1], w[i])
  /\ writestring(t, w) = f[Len(w)]

LEMMA WriteUnfolds ==
  ASSUME NEW t \in Screens, NEW w \in Seq(1 .. 255)
  PROVE  \E f : Writes(f, t, w)
<1> DEFINE n == Len(w)
           step == [i \in 1 .. n |-> [x \in Screens |-> putchar(x, w[i])]]
           Shown1(f) == f = [i \in 0 .. n |-> IF i = 0 THEN t ELSE putchar(f[i - 1], w[i])]
<1>0. n \in Nat /\ \A i \in 1 .. n : w[i] \in 1 .. 255
  BY ElementOfSeq
<1>1. step \in [1 .. n -> [Screens -> Screens]]
  <2>1. \A i \in 1 .. n : \A x \in Screens : putchar(x, w[i]) \in Screens
    BY <1>0, PutIsScreen
  <2> HIDE DEF n
  <2> QED
    BY <2>1
<1>2. PICK f0 : Iterates(f0, n, Screens, t, step)
  <2> HIDE DEF step, n
  <2> QED
    BY <1>0, <1>1, Iteration
<1>3. Shown1(f0)
  <2>1. /\ f0 \in [0 .. n -> Screens] /\ f0[0] = t
        /\ \A i \in 1 .. n : f0[i] = step[i][f0[i - 1]]
    BY <1>2 DEF Iterates
  <2>2. \A i \in 1 .. n : i - 1 \in 0 .. n
    BY <1>0
  <2>3. \A i \in 1 .. n : f0[i] = putchar(f0[i - 1], w[i])
    <3> HIDE DEF n
    <3> QED
      BY <2>1, <2>2
  <2>4. \A i \in 0 .. n : i = 0 \/ i \in 1 .. n
    BY <1>0
  <2> HIDE DEF step, n
  <2> QED
    BY <2>1, <2>3, <2>4
<1> DEFINE k == CHOOSE f : Shown1(f)
<1>4. Shown1(k)
  <2> HIDE DEF Shown1
  <2> QED
    BY <1>3
<1>5. writestring(t, w) = k[n]
  BY DEF writestring
<1> HIDE DEF k
<1>6. /\ k = [i \in 0 .. n |-> k[i]] /\ k[0] = t
      /\ \A i \in 1 .. n : k[i] = putchar(k[i - 1], w[i])
  <2>1. 0 \in 0 .. n /\ \A i \in 1 .. n : i \in 0 .. n /\ i # 0
    BY <1>0
  <2> HIDE DEF n
  <2> QED
    BY <1>4, <2>1
<1> DEFINE S == {i \in 0 .. n : k[i] \in Screens}
<1>7. 0 .. n \subseteq S
  <2>1. 0 \in S
    BY <1>0, <1>6
  <2>2. ASSUME NEW m \in 0 .. (n - 1), m \in S
        PROVE  m + 1 \in S
    <3>1. m + 1 \in 1 .. n /\ m + 1 \in 0 .. n /\ (m + 1) - 1 = m
      BY <1>0
    <3>2. k[m + 1] = putchar(k[m], w[m + 1])
      BY <1>6, <3>1
    <3>3. k[m] \in Screens /\ w[m + 1] \in 1 .. 255
      BY <1>0, <2>2, <3>1
    <3>4. k[m + 1] \in Screens
      BY <3>2, <3>3, PutIsScreen
    <3> QED
      BY <3>1, <3>4
  <2>3. \A m \in 0 .. (n - 1) : m \in S => m + 1 \in S
    BY <2>2
  <2> HIDE DEF S, n
  <2> QED
    BY <1>0, <2>1, <2>3, Induction
<1>8. k \in [0 .. n -> Screens]
  <2> HIDE DEF n
  <2> QED
    BY <1>6, <1>7
<1> QED
  BY <1>5, <1>6, <1>8 DEF Writes

LEMMA WriteShows ==
  ASSUME NEW t, NEW s, Window(t, s), NEW w \in Seq(Characters)
  PROVE  Window(writestring(t, w), s \o w)
<1> DEFINE n == Len(w)
           head(i) == s \o SubSeq(w, 1, i)
<1>0. /\ n \in Nat /\ s \in Seq(Characters) /\ t \in Screens
      /\ \A i \in 1 .. n : w[i] \in Characters
  BY ElementOfSeq DEF Window
<1>1. w \in Seq(1 .. 255)
  <2>1. Characters \subseteq 1 .. 255
    BY DEF Characters
  <2>2. w \in [1 .. n -> Characters]
    BY LenProperties
  <2>3. w \in [1 .. n -> 1 .. 255]
    <3> HIDE DEF n
    <3> QED
      BY <2>1, <2>2
  <2> HIDE DEF n
  <2> QED
    BY <1>0, <2>3
<1>2. PICK f : Writes(f, t, w)
  BY <1>0, <1>1, WriteUnfolds
<1>3. /\ f[0] = t /\ writestring(t, w) = f[n]
      /\ \A i \in 1 .. n : f[i] = putchar(f[i - 1], w[i])
  BY <1>2 DEF Writes
<1>4. head(0) = s
  <2>1. SubSeq(w, 1, 0) = << >>
    OBVIOUS
  <2>2. s \o << >> = s
    BY <1>0
  <2> QED
    BY <2>1, <2>2
<1>5. head(n) = s \o w
  <2>1. SubSeq(w, 1, n) = w
    OBVIOUS
  <2> QED
    BY <2>1
<1>6. ASSUME NEW m \in 0 .. (n - 1)
      PROVE  head(m + 1) = Append(head(m), w[m + 1])
  <2> DEFINE v == SubSeq(w, 1, m)
  <2>0. m \in Nat /\ m + 1 \in 1 .. n
    BY <1>0
  <2>1. v \in Seq(Characters) /\ Len(v) = m /\ \A i \in 1 .. m : v[i] = w[i]
    BY <1>0, <2>0
  <2>2. SubSeq(w, 1, m + 1) = Append(v, w[m + 1])
    <3> DEFINE x == SubSeq(w, 1, m + 1)
               y == Append(v, w[m + 1])
    <3>1. x \in Seq(Characters) /\ Len(x) = m + 1 /\ \A i \in 1 .. (m + 1) : x[i] = w[i]
      BY <1>0, <2>0
    <3>2. w[m + 1] \in Characters
      BY <1>0, <2>0
    <3> HIDE DEF v
    <3>3. y \in Seq(Characters) /\ Len(y) = m + 1 /\ y[m + 1] = w[m + 1]
          /\ \A i \in 1 .. m : y[i] = w[i]
      BY <2>0, <2>1, <3>2
    <3>4. \A i \in 1 .. (m + 1) : i \in 1 .. m \/ i = m + 1
      BY <2>0
    <3> HIDE DEF x, y
    <3>5. x = y
      BY <2>0, <3>1, <3>3, <3>4, SeqEqual
    <3> QED
      BY <3>5 DEF x, y
  <2>3. w[m + 1] \in Characters
    BY <1>0, <2>0
  <2> HIDE DEF v
  <2>4. s \o Append(v, w[m + 1]) = Append(s \o v, w[m + 1])
    BY <1>0, <2>1, <2>3
  <2> QED
    BY <2>2, <2>4 DEF v
<1> HIDE DEF head
<1> DEFINE S == {i \in 0 .. n : Window(f[i], head(i))}
<1>7. 0 \in S
  BY <1>0, <1>3, <1>4
<1>8. ASSUME NEW m \in 0 .. (n - 1), m \in S
      PROVE  m + 1 \in S
  <2>1. m + 1 \in 1 .. n /\ m + 1 \in 0 .. n /\ (m + 1) - 1 = m
    BY <1>0
  <2>2. f[m + 1] = putchar(f[m], w[m + 1]) /\ w[m + 1] \in Characters
    BY <1>0, <1>3, <2>1
  <2>3. Window(f[m + 1], head(m + 1))
    BY <1>6, <1>8, <2>2, PutShows
  <2> QED
    BY <2>1, <2>3
<1>9. \A m \in 0 .. (n - 1) : m \in S => m + 1 \in S
  BY <1>8
<1>10. n \in S
  <2>1. n \in 0 .. n
    BY <1>0
  <2> HIDE DEF S
  <2>2. 0 .. n \subseteq S
    BY <1>0, <1>7, <1>9, Induction
  <2> QED
    BY <2>1, <2>2
<1> QED
  BY <1>3, <1>5, <1>10

(* One character, and the three that erase one. *)
LEMMA WriteOne ==
  ASSUME NEW t \in Screens, NEW c \in 1 .. 255
  PROVE  writestring(t, <<c>>) = putchar(t, c)
<1>1. <<c>> \in Seq(1 .. 255) /\ Len(<<c>>) = 1 /\ <<c>>[1] = c
  OBVIOUS
<1>2. PICK f : Writes(f, t, <<c>>)
  BY <1>1, WriteUnfolds
<1>3. 1 \in 1 .. 1 /\ 1 - 1 = 0
  OBVIOUS
<1> QED
  BY <1>1, <1>2, <1>3 DEF Writes

LEMMA WriteErase ==
  ASSUME NEW t \in Screens
  PROVE  writestring(t, <<BS, SP, BS>>) = putchar(putchar(putchar(t, BS), SP), BS)
<1> DEFINE w == <<BS, SP, BS>>
<1>1. w \in Seq(1 .. 255) /\ Len(w) = 3 /\ w[1] = BS /\ w[2] = SP /\ w[3] = BS
  BY DEF BS, SP
<1> HIDE DEF w
<1>2. PICK f : Writes(f, t, w)
  BY <1>1, WriteUnfolds
<1>3. /\ 1 \in 1 .. 3 /\ 2 \in 1 .. 3 /\ 3 \in 1 .. 3
      /\ 1 - 1 = 0 /\ 2 - 1 = 1 /\ 3 - 1 = 2
  OBVIOUS
<1>4. f[1] = putchar(t, BS) /\ f[2] = putchar(f[1], SP) /\ f[3] = putchar(f[2], BS)
  BY <1>1, <1>2, <1>3 DEF Writes
<1> QED
  BY <1>1, <1>2, <1>4 DEF Writes, w

-----------------------------------------------------------------------------
(* Keys *)

(* The characters a key may have: neither a backspace nor a line feed.     *)
Typed == (1 .. 127) \ {BS, LF}

LEMMA TypedAreCharacters == Typed \subseteq Characters /\ Typed \subseteq 1 .. 127 /\ Typed \subseteq 1 .. 255
  BY DEF Typed, Characters

LEMMA KeyTable ==
  /\ Len(scancode_to_ascii) = 58
  /\ \A i \in 1 .. 58 : scancode_to_ascii[i] \in {0} \cup Typed
<1>1. Len(scancode_to_ascii) = 58
  BY DEF scancode_to_ascii
<1>2. \A i \in 1 .. 58 : scancode_to_ascii[i] \in {0} \cup Typed
  BY DEF scancode_to_ascii, Typed, BS, LF
<1> QED
  BY <1>1, <1>2

LEMMA KeysAreTyped ==
  ASSUME NEW scancode \in Nat, NEW shift \in BOOLEAN, NEW caps \in BOOLEAN
  PROVE  kb_to_ascii(scancode, shift, caps) \in {0} \cup Typed
<1> DEFINE c == IF scancode < Len(scancode_to_ascii) THEN scancode_to_ascii[scancode + 1] ELSE 0
<1>1. c \in {0} \cup Typed
  <2>1. scancode < 58 => scancode + 1 \in 1 .. 58
    OBVIOUS
  <2> QED
    BY <2>1, KeyTable
<1>2. toupper(c) \in {0} \cup Typed
  <2> HIDE DEF c
  <2> QED
    BY <1>1 DEF toupper, Typed, BS, LF
<1>3. kb_to_ascii(scancode, shift, caps) = IF shift \/ caps THEN toupper(c) ELSE c
  BY DEF kb_to_ascii
<1> QED
  BY <1>1, <1>2, <1>3

-----------------------------------------------------------------------------
(* The end of the text *)

LEMMA IsAtTheEnd ==
  ASSUME NEW S, NEW s \in Seq(S), NEW t \in Seq(S), Len(s) <= Len(t),
         \A i \in 1 .. Len(s) : t[(Len(t) - Len(s)) + i] = s[i]
  PROVE  IsSuffix(s, t)
<1> DEFINE m == Len(s)
           n == Len(t)
           x == Reverse(s)
           y == Reverse(t)
<1>0. m \in Nat /\ n \in Nat /\ m <= n
  OBVIOUS
<1>1. /\ x \in Seq(S) /\ Len(x) = m /\ \A i \in 1 .. m : x[i] = s[(m - i) + 1]
  <2>1. x = [i \in 1 .. m |-> s[(m - i) + 1]]
    BY DEF Reverse
  <2>2. \A i \in 1 .. m : (m - i) + 1 \in 1 .. m
    BY <1>0
  <2>3. \A i \in 1 .. m : s[(m - i) + 1] \in S
    BY <2>2, ElementOfSeq
  <2> HIDE DEF m, x
  <2>4. x \in [1 .. m -> S] /\ \A i \in 1 .. m : x[i] = s[(m - i) + 1]
    BY <2>1, <2>3
  <2>5. x \in Seq(S) /\ Len(x) = m
    BY <1>0, <2>4
  <2> QED
    BY <2>4, <2>5
<1>2. /\ y \in Seq(S) /\ Len(y) = n /\ \A i \in 1 .. n : y[i] = t[(n - i) + 1]
  <2>1. y = [i \in 1 .. n |-> t[(n - i) + 1]]
    BY DEF Reverse
  <2>2. \A i \in 1 .. n : (n - i) + 1 \in 1 .. n
    BY <1>0
  <2>3. \A i \in 1 .. n : t[(n - i) + 1] \in S
    BY <2>2, ElementOfSeq
  <2> HIDE DEF n, y
  <2>4. y \in [1 .. n -> S] /\ \A i \in 1 .. n : y[i] = t[(n - i) + 1]
    BY <2>1, <2>3
  <2>5. y \in Seq(S) /\ Len(y) = n
    BY <1>0, <2>4
  <2> QED
    BY <2>4, <2>5
<1> HIDE DEF x, y
<1>3. ASSUME NEW i \in 1 .. m
      PROVE  x[i] = y[i]
  <2>1. i \in 1 .. n /\ (m - i) + 1 \in 1 .. m /\ (n - m) + ((m - i) + 1) = (n - i) + 1
    BY <1>0
  <2>2. t[(n - m) + ((m - i) + 1)] = s[(m - i) + 1]
    BY <2>1
  <2> QED
    BY <1>1, <1>2, <2>1, <2>2
<1>4. SubSeq(x, 1, m) = SubSeq(y, 1, m)
  <2>1. SubSeq(x, 1, m) = [i \in 1 .. m |-> x[i]]
    BY <1>0, <1>1
  <2>2. SubSeq(y, 1, m) = [i \in 1 .. m |-> y[i]]
    BY <1>0, <1>2
  <2> HIDE DEF m
  <2> QED
    BY <1>3, <2>1, <2>2
<1> QED
  BY <1>0, <1>1, <1>2, <1>4 DEF IsSuffix, IsPrefix, x, y

(* The text ends with the prompt and the line. *)
Ends(s, l) ==
  /\ Len(Prompt) + Len(l) <= Len(s)
  /\ \A i \in 1 .. Len(l) : s[(Len(s) - Len(l)) + i] = l[i]
  /\ \A i \in 1 .. Len(Prompt) : s[((Len(s) - Len(l)) - Len(Prompt)) + i] = Prompt[i]

LEMMA PromptIsText == Prompt \in Seq(Characters) /\ Len(Prompt) \in Nat
  BY ConsoleAssumption

LEMMA EndsIsSuffix ==
  ASSUME NEW s \in Seq(Characters), NEW l \in Seq(Typed), Ends(s, l)
  PROVE  IsSuffix(Prompt \o l, s)
<1> DEFINE p == Len(Prompt)
           m == Len(l)
           n == Len(s)
           u == Prompt \o l
<1>0. p \in Nat /\ m \in Nat /\ n \in Nat /\ p + m <= n
  BY PromptIsText DEF Ends
<1>1. l \in Seq(Characters)
  <2>1. l \in [1 .. m -> Typed]
    BY LenProperties
  <2>2. l \in [1 .. m -> Characters]
    <3> HIDE DEF m
    <3> QED
      BY <2>1, TypedAreCharacters
  <2> HIDE DEF m
  <2> QED
    BY <1>0, <2>2
<1>2. /\ u \in Seq(Characters) /\ Len(u) = p + m
      /\ \A i \in 1 .. p : u[i] = Prompt[i]
      /\ \A i \in 1 .. m : u[p + i] = l[i]
  BY <1>1, PromptIsText
<1> HIDE DEF u
<1>3. ASSUME NEW i \in 1 .. (p + m)
      PROVE  s[(n - (p + m)) + i] = u[i]
  <2>1. CASE i <= p
    <3>1. i \in 1 .. p /\ (n - (p + m)) + i = ((n - m) - p) + i
      BY <1>0, <2>1
    <3> QED
      BY <1>2, <3>1 DEF Ends
  <2>2. CASE i > p
    <3>1. i - p \in 1 .. m /\ p + (i - p) = i /\ (n - (p + m)) + i = (n - m) + (i - p)
      BY <1>0, <2>2
    <3>2. u[p + (i - p)] = l[i - p] /\ s[(n - m) + (i - p)] = l[i - p]
      BY <1>2, <3>1 DEF Ends
    <3> QED
      BY <3>1, <3>2
  <2> QED
    BY <1>0, <2>1, <2>2
<1>4. IsSuffix(u, s)
  BY <1>0, <1>2, <1>3, IsAtTheEnd
<1> QED
  BY <1>4 DEF u

LEMMA EndsTyped ==
  ASSUME NEW s \in Seq(Characters), NEW l \in Seq(Typed), Ends(s, l), NEW c
  PROVE  Ends(Append(s, c), Append(l, c))
<1> DEFINE p == Len(Prompt)
           m == Len(l)
           n == Len(s)
           u == Append(s, c)
           k == Append(l, c)
<1>0. p \in Nat /\ m \in Nat /\ n \in Nat /\ p + m <= n
  BY PromptIsText DEF Ends
<1>1. /\ Len(u) = n + 1 /\ u[n + 1] = c /\ \A i \in 1 .. n : u[i] = s[i]
      /\ Len(k) = m + 1 /\ k[m + 1] = c /\ \A i \in 1 .. m : k[i] = l[i]
  OBVIOUS
<1> HIDE DEF u, k
<1>2. (n + 1) - (m + 1) = n - m /\ p + (m + 1) <= n + 1
  BY <1>0
<1>3. ASSUME NEW i \in 1 .. (m + 1)
      PROVE  u[(n - m) + i] = k[i]
  <2>1. CASE i = m + 1
    <3>1. (n - m) + i = n + 1
      BY <1>0, <2>1
    <3> QED
      BY <1>1, <2>1, <3>1
  <2>2. CASE i # m + 1
    <3>1. i \in 1 .. m /\ (n - m) + i \in 1 .. n
      BY <1>0, <2>2
    <3> QED
      BY <1>1, <3>1 DEF Ends
  <2> QED
    BY <2>1, <2>2
<1>4. ASSUME NEW i \in 1 .. p
      PROVE  u[((n - m) - p) + i] = Prompt[i]
  <2>1. ((n - m) - p) + i \in 1 .. n
    BY <1>0
  <2> QED
    BY <1>1, <2>1 DEF Ends
<1> QED
  BY <1>1, <1>2, <1>3, <1>4 DEF Ends, u, k

LEMMA EndsErased ==
  ASSUME NEW s \in Seq(Characters), NEW l \in Seq(Typed), Ends(s, l), l # << >>
  PROVE  Ends(Front(s), Front(l)) /\ s # << >> /\ Last(s) = Last(l)
<1> DEFINE p == Len(Prompt)
           m == Len(l)
           n == Len(s)
           u == Front(s)
           k == Front(l)
<1>0. p \in Nat /\ n \in Nat /\ p + m <= n
  BY PromptIsText DEF Ends
<1>1. m \in Nat \ {0} /\ Len(k) = m - 1 /\ \A i \in 1 .. (m - 1) : k[i] = l[i]
  BY FrontOf
<1>2. s # << >>
  <2>1. n # 0
    BY <1>0, <1>1
  <2> QED
    BY <2>1
<1>3. Len(u) = n - 1 /\ \A i \in 1 .. (n - 1) : u[i] = s[i]
  BY <1>2, FrontOf
<1>4. Last(s) = Last(l)
  <2>1. m \in 1 .. m /\ (n - m) + m = n
    BY <1>0, <1>1
  <2>2. s[(n - m) + m] = l[m]
    BY <2>1 DEF Ends
  <2> QED
    BY <2>1, <2>2 DEF Last
<1> HIDE DEF u, k
<1>5. (n - 1) - (m - 1) = n - m /\ p + (m - 1) <= n - 1
  BY <1>0, <1>1
<1>6. ASSUME NEW i \in 1 .. (m - 1)
      PROVE  u[(n - m) + i] = k[i]
  <2>1. i \in 1 .. m /\ (n - m) + i \in 1 .. (n - 1)
    BY <1>0, <1>1
  <2> QED
    BY <1>1, <1>3, <2>1 DEF Ends
<1>7. ASSUME NEW i \in 1 .. p
      PROVE  u[((n - m) - p) + i] = Prompt[i]
  <2>1. ((n - m) - p) + i \in 1 .. (n - 1)
    BY <1>0, <1>1
  <2> QED
    BY <1>3, <2>1 DEF Ends
<1>8. Ends(u, k)
  BY <1>1, <1>3, <1>5, <1>6, <1>7 DEF Ends
<1> QED
  BY <1>2, <1>4, <1>8 DEF u, k

LEMMA EndsPrompted ==
  ASSUME NEW s \in Seq(Characters)
  PROVE  Ends(s \o Prompt, << >>)
<1> DEFINE p == Len(Prompt)
           n == Len(s)
           u == s \o Prompt
<1>0. p \in Nat /\ n \in Nat
  BY PromptIsText
<1>1. Len(u) = n + p /\ \A i \in 1 .. p : u[n + i] = Prompt[i]
  BY PromptIsText
<1> HIDE DEF u
<1>2. Len(<< >>) = 0
  OBVIOUS
<1>3. p + 0 <= n + p /\ ((n + p) - 0) - p = n /\ 1 .. 0 = {}
  BY <1>0
<1> QED
  BY <1>1, <1>2, <1>3 DEF Ends, u

(* The line starts on the screen, and it is as long as it looks. *)
Room(t, s, l) ==
  /\ Layout(s)[Len(s) - Len(l)].row >= t.scrolls
  /\ Flat(Pen(s)) = Flat(Layout(s)[Len(s) - Len(l)]) + Len(l)

LEMMA RoomPrompted ==
  ASSUME NEW t, NEW s, Window(t, s)
  PROVE  Room(t, s, << >>)
<1>1. s \in Seq(Characters) /\ t \in Screens /\ Here(t) = Pen(s)
  BY DEF Window
<1>2. Len(<< >>) = 0 /\ Len(s) \in Nat /\ Len(s) - 0 = Len(s)
  BY <1>1
<1>3. Pen(s).row >= t.scrolls
  <2>1. t.row \in Nat /\ t.scrolls \in Nat
    BY <1>1, Sizes DEF Screens, ScreensOf
  <2> QED
    BY <1>1, <2>1 DEF Here
<1>4. Flat(Pen(s)) + 0 = Flat(Pen(s))
  <2>1. Pen(s).row \in Nat /\ Pen(s).column \in Nat /\ W \in Nat
    BY <1>2, PenIsPlace, Sizes DEF Places
  <2>2. Pen(s).row * W \in Nat
    BY <2>1
  <2> QED
    BY <2>1, <2>2 DEF Flat
<1> QED
  BY <1>2, <1>3, <1>4 DEF Room, Pen

(* The screen scrolls only when the cursor comes to its last row. *)
LEMMA ScrollsAtTheBottom ==
  ASSUME NEW t \in Screens, NEW c \in 1 .. 255, c # BS, c # LF
  PROVE  \/ putchar(t, c).scrolls = t.scrolls
         \/ putchar(t, c).row = LastRow
<1>1. CASE t.column # W - 1
  BY <1>1, PutOnRow
<1>2. CASE t.column = W - 1
  <2> DEFINE x == Inked(t, c)
             u == putchar(t, c)
  <2>1. Broken(x, u)
    BY <1>2, PutAtEdge
  <2>2. x.scrolls = t.scrolls
    BY Inking
  <2> HIDE DEF x, u
  <2>3. u.scrolls = t.scrolls \/ u.row = LastRow
    BY <2>1, <2>2 DEF Broken
  <2> QED
    BY <2>3 DEF u
<1> QED
  BY <1>1, <1>2

LEMMA RoomTyped ==
  ASSUME NEW t, NEW s, Window(t, s), NEW l \in Seq(Typed), Len(l) <= Len(s), Room(t, s, l),
         Len(l) + 1 <= SHELL_BUFFER_SIZE - 1, NEW c \in Typed
  PROVE  Room(putchar(t, c), Append(s, c), Append(l, c))
<1> DEFINE m == Len(l)
           n == Len(s)
           u == Append(s, c)
           k == Append(l, c)
           y == putchar(t, c)
           start == Layout(s)[n - m]
<1>0. /\ s \in Seq(Characters) /\ t \in Screens /\ m \in Nat /\ n \in Nat /\ m <= n
      /\ c \in Characters /\ c \in 1 .. 255 /\ c # BS /\ c # LF
      /\ W \in Nat \ {0} /\ LastRow \in Nat
  <2>1. s \in Seq(Characters) /\ t \in Screens /\ m \in Nat /\ n \in Nat /\ m <= n
    BY DEF Window
  <2>2. c \in Characters /\ c \in 1 .. 255 /\ c # BS /\ c # LF
    <3>1. c \in Characters /\ c \in 1 .. 255
      BY TypedAreCharacters
    <3>2. c # BS /\ c # LF
      BY DEF Typed
    <3> QED
      BY <3>1, <3>2
  <2> QED
    BY <2>1, <2>2, Sizes
<1>1. Window(y, u) /\ Pen(u) = PlaceAfter(Pen(s), c)
  BY <1>0, PutShows, PaperAppend
<1>2. Len(u) = n + 1 /\ Len(k) = m + 1 /\ (n + 1) - (m + 1) = n - m /\ n - m \in 0 .. n
  BY <1>0
<1>3. Layout(u)[n - m] = start
  <2>1. \A i \in 1 .. n : u[i] = s[i]
    BY <1>0
  <2>2. Len(u) \in Nat /\ n <= Len(u)
    BY <1>0, <1>2
  <2> QED
    BY <1>0, <1>2, <2>1, <2>2, LayoutGrows
<1>4. start \in Places /\ Pen(s) \in Places /\ Pen(u) \in Places
  <2>1. start \in Places
    <3>1. Layout(s) \in [0 .. n -> Places]
      BY <1>0, LayoutUnfolds
    <3> QED
      BY <1>2, <3>1
  <2>2. Pen(s) \in Places
    BY <1>0, PenIsPlace
  <2> HIDE DEF u
  <2>3. Pen(u) \in Places
    BY <1>1, <2>2, PlaceAfterIsPlace
  <2> QED
    BY <2>1, <2>2, <2>3
<1>5. Flat(Pen(u)) = Flat(start) + (m + 1)
  <2>1. Flat(Pen(u)) = Flat(Pen(s)) + 1
    BY <1>0, <1>1, <1>4, PlaceAfterIsPlace
  <2>2. Flat(Pen(s)) = Flat(start) + m
    BY DEF Room
  <2>3. Flat(start) \in Nat
    <3>1. start.row \in Nat /\ start.column \in Nat
      BY <1>0, <1>4 DEF Places
    <3> HIDE DEF start
    <3>2. start.row * W \in Nat
      BY <1>0, <3>1
    <3> QED
      BY <3>1, <3>2 DEF Flat
  <2> HIDE DEF start, u
  <2> QED
    BY <1>0, <2>1, <2>2, <2>3
<1>6. start.row >= y.scrolls
  <2>0. /\ y \in Screens /\ Here(y) = Pen(u) /\ y.scrolls \in Nat /\ y.row \in 0 .. LastRow
        /\ start.row >= t.scrolls
    BY <1>1 DEF Window, Room, Screens, ScreensOf
  <2>1. CASE y.scrolls = t.scrolls
    BY <2>0, <2>1
  <2>2. CASE y.row = LastRow
    <3>1. Pen(u).row = y.scrolls + LastRow /\ Pen(u).column \in Nat
      BY <1>0, <1>4, <2>0, <2>2 DEF Here, Places
    <3>2. m + 1 <= LastRow * W /\ LastRow * W \in Nat
      <4>1. SHELL_BUFFER_SIZE - 1 <= LastRow * W /\ SHELL_BUFFER_SIZE \in Nat
        BY ConsoleAssumption DEF W
      <4>2. LastRow * W \in Nat
        BY <1>0
      <4> QED
        BY <1>0, <4>1, <4>2
    <3>3. start.row \in Nat /\ start.column \in 0 .. (W - 1)
      BY <1>4 DEF Places
    <3> DEFINE a == start.row
               b == y.scrolls
    <3> HIDE DEF start, u, y
    <3>4. (b + LastRow) * W + Pen(u).column = (a * W + start.column) + (m + 1)
      BY <1>5, <3>1 DEF Flat
    <3>5. b \in Nat /\ a \in Nat
      BY <2>0, <3>3
    <3> HIDE DEF a, b
    <3>6. (b + LastRow) * W = b * W + LastRow * W /\ b * W \in Nat /\ a * W \in Nat
      BY <1>0, <3>5
    <3> DEFINE bw == b * W
               aw == a * W
               lw == LastRow * W
    <3>7. bw <= aw + (W - 1)
      <4>1. bw \in Nat /\ aw \in Nat /\ lw \in Nat /\ m + 1 <= lw
        BY <3>2, <3>6
      <4>2. (bw + lw) + Pen(u).column = (aw + start.column) + (m + 1)
        BY <3>4, <3>6
      <4> HIDE DEF bw, aw, lw
      <4> QED
        BY <1>0, <3>1, <3>3, <4>1, <4>2
    <3>8. b <= a
      <4>1. ASSUME b >= a + 1 PROVE FALSE
        <5>1. b * W >= (a + 1) * W /\ (a + 1) * W = a * W + W
          BY <1>0, <3>5, <4>1
        <5> QED
          BY <1>0, <3>6, <3>7, <5>1
      <4> QED
        BY <3>5, <4>1
    <3> QED
      BY <3>5, <3>8 DEF a, b
  <2> QED
    BY <1>0, <2>1, <2>2, ScrollsAtTheBottom
<1> HIDE DEF start, u, k, y
<1> QED
  BY <1>2, <1>3, <1>5, <1>6 DEF Room, u, k, y

(* The last character of the line is taken back. *)
LEMMA RoomErased ==
  ASSUME NEW t, NEW s, Window(t, s), NEW l \in Seq(Typed), l # << >>, Ends(s, l), Room(t, s, l)
  PROVE  /\ Window(writestring(t, <<BS, SP, BS>>), Front(s))
         /\ Room(writestring(t, <<BS, SP, BS>>), Front(s), Front(l))
<1> DEFINE m == Len(l)
           n == Len(s)
           u == Front(s)
           k == Front(l)
           y == putchar(putchar(putchar(t, BS), SP), BS)
           start == Layout(s)[n - m]
<1>0. /\ s \in Seq(Characters) /\ t \in Screens /\ n \in Nat /\ m <= n
      /\ W \in Nat \ {0} /\ t.scrolls \in Nat
  <2>1. s \in Seq(Characters) /\ t \in Screens /\ n \in Nat
    BY DEF Window
  <2>2. m <= n
    BY <2>1, PromptIsText DEF Ends
  <2> QED
    BY <2>1, <2>2, Sizes DEF Screens, ScreensOf
<1>1. s # << >> /\ Last(s) = Last(l) /\ m \in Nat \ {0} /\ Last(l) \in Typed /\ Len(k) = m - 1
  BY <1>0, EndsErased, FrontOf
<1>2. Last(s) # LF
  BY <1>1 DEF Typed
<1>3. Len(u) = n - 1 /\ \A i \in 1 .. Len(u) : s[i] = u[i]
  BY <1>0, <1>1, FrontOf
<1>4. /\ n \in Nat \ {0} /\ (n - 1) - (m - 1) = n - m /\ n - m \in 0 .. (n - 1)
      /\ n - m \in 0 .. n /\ n - 1 \in 0 .. n
  BY <1>0, <1>1
<1>5. /\ Pen(u) \in Places /\ Pen(s) = PlaceAfter(Pen(u), Last(s))
  BY <1>0, <1>1, <1>2, PaperFront
<1>6. /\ Layout(u)[n - m] = start /\ Pen(u) = Layout(s)[n - 1]
  <2>1. Len(u) \in Nat /\ Len(u) <= n /\ n - m \in 0 .. Len(u) /\ n - 1 \in 0 .. Len(u)
    BY <1>3, <1>4
  <2>2. \A i \in 0 .. Len(u) : Layout(s)[i] = Layout(u)[i]
    BY <1>0, <1>3, <2>1, LayoutGrows
  <2> QED
    BY <1>3, <2>1, <2>2 DEF Pen
<1>7. start \in Places
  <2>1. Layout(s) \in [0 .. n -> Places]
    BY <1>0, LayoutUnfolds
  <2> QED
    BY <1>4, <2>1
<1>8. Pen(u).row >= t.scrolls
  <2>1. start.row >= t.scrolls
    BY DEF Room
  <2>2. CASE n - m = n - 1
    BY <1>6, <2>1, <2>2
  <2>3. CASE n - m # n - 1
    <3>1. n - m \in 0 .. ((n - 1) - 1)
      BY <1>4, <2>3
    <3>2. Before(Layout(s)[n - m], Layout(s)[n - 1])
      BY <1>0, <1>4, <3>1, LayoutAdvances
    <3>3. start.row <= Pen(u).row
      <4> HIDE DEF u
      <4>1. Before(start, Pen(u))
        BY <1>6, <3>2
      <4> HIDE DEF start
      <4> QED
        BY <1>5, <1>7, <4>1 DEF Before, Places
    <3> HIDE DEF start, u
    <3> QED
      BY <1>0, <1>5, <1>7, <2>1, <3>3 DEF Places
  <2> QED
    BY <2>2, <2>3
<1>9. Window(y, u) /\ y.scrolls = t.scrolls
  BY <1>1, <1>2, <1>8, EraseShows
<1>10. Flat(Pen(u)) = Flat(start) + (m - 1)
  <2> HIDE DEF u
  <2>1. Flat(Pen(s)) = Flat(Pen(u)) + 1
    BY <1>2, <1>5, PlaceAfterIsPlace
  <2>2. Flat(Pen(s)) = Flat(start) + m
    BY DEF Room
  <2> HIDE DEF start
  <2>3. Flat(start) \in Nat /\ Flat(Pen(u)) \in Nat
    <3>1. /\ start.row \in Nat /\ start.column \in Nat
          /\ Pen(u).row \in Nat /\ Pen(u).column \in Nat
      BY <1>0, <1>5, <1>7 DEF Places
    <3>2. start.row * W \in Nat /\ Pen(u).row * W \in Nat
      BY <1>0, <3>1
    <3>3. start.row * W + start.column \in Nat
      BY <3>1, <3>2
    <3>4. Pen(u).row * W + Pen(u).column \in Nat
      BY <3>1, <3>2
    <3> QED
      BY <3>3, <3>4 DEF Flat
  <2> DEFINE a == Flat(start)
             b == Flat(Pen(u))
  <2>4. b + 1 = a + m
    BY <2>1, <2>2
  <2>5. a \in Nat /\ b \in Nat
    BY <2>3
  <2> HIDE DEF a, b
  <2>6. b = a + (m - 1)
    BY <1>1, <2>4, <2>5
  <2> QED
    BY <2>6 DEF a, b
<1>11. start.row >= y.scrolls
  BY <1>9 DEF Room
<1> HIDE DEF start, u, k, y
<1>12. Room(y, u, k)
  BY <1>1, <1>3, <1>4, <1>6, <1>10, <1>11 DEF Room
<1>13. writestring(t, <<BS, SP, BS>>) = y
  BY <1>0, WriteErase DEF y
<1> QED
  BY <1>9, <1>12, <1>13 DEF u, k

-----------------------------------------------------------------------------
(* The invariant *)

(* The line is in the buffer and on the screen: the text ends with the     *)
(* prompt and the line, and all of the line is still on the screen.  The   *)
(* last is what keeps a backspace from reaching a row that has scrolled    *)
(* away: the cursor would stop at the upper left corner and the screen     *)
(* and the text would part.                                                *)
LineInv ==
  /\ line \in Seq(Typed) /\ Len(line) <= SHELL_BUFFER_SIZE - 1
  /\ lost \in BOOLEAN
  /\ ~ lost => Ends(text, line) /\ Room(term, text, line)

ShiftInv ==
  /\ shift_pressed \in BOOLEAN /\ caps_lock_active \in BOOLEAN
  /\ held \subseteq ShiftKeys
  /\ shift_pressed => held # {}

ConsoleInv == Window(term, text) /\ LineInv /\ ShiftInv

(* The screen of initialize. *)
LEMMA BlankShows == Window(Blank, << >>)
<1>0. W \in Nat \ {0} /\ LastRow \in Nat
  BY Sizes
<1>1. Blank \in Screens /\ Blank.row = 0 /\ Blank.column = 0 /\ Blank.scrolls = 0 /\ Blank.cursor = 0
  <2>1. 0 \in 0 .. LastRow /\ 0 \in 0 .. (W - 1) /\ 0 \in Nat
    BY <1>0
  <2>2. [i \in Cells |-> SP] \in [Cells -> 1 .. 255]
    BY DEF SP
  <2> QED
    BY <2>1, <2>2 DEF Blank, Screens, ScreensOf
<1>2. \A i \in Cells : Blank.buffer[i] = SP
  BY DEF Blank
<1>3. << >> \in Seq(Characters) /\ Len(<< >>) = 0 /\ 1 .. 0 = {}
  OBVIOUS
<1>4. Pen(<< >>) = Corner
  BY <1>3, LayoutUnfolds DEF Pen
<1>5. Here(Blank) = Corner
  BY <1>1 DEF Here, Corner
<1>6. Blank.cursor = CellAt(Blank)
  BY <1>0, <1>1 DEF CellAt
<1>7. \A i \in Cells : Paper(<< >>, PlaceOf(Blank, i), Blank.buffer[i])
  BY <1>2, <1>3 DEF Paper
<1> HIDE DEF Blank
<1> QED
  BY <1>1, <1>3, <1>4, <1>5, <1>6, <1>7 DEF Window

(* A prompt on a line of its own. *)
LEMMA PromptShown ==
  ASSUME NEW t, NEW s, Window(t, s), NEW w \in Seq(Characters)
  PROVE  /\ Window(writestring(t, w \o Prompt), s \o (w \o Prompt))
         /\ Ends(s \o (w \o Prompt), << >>)
         /\ Room(writestring(t, w \o Prompt), s \o (w \o Prompt), << >>)
<1>1. s \in Seq(Characters) /\ Prompt \in Seq(Characters)
  BY PromptIsText DEF Window
<1>2. w \o Prompt \in Seq(Characters) /\ s \o w \in Seq(Characters)
  BY <1>1, ConcatProperties
<1>3. Window(writestring(t, w \o Prompt), s \o (w \o Prompt))
  BY <1>2, WriteShows
<1>4. s \o (w \o Prompt) = (s \o w) \o Prompt
  BY <1>1, ConcatAssociative
<1>5. Ends((s \o w) \o Prompt, << >>)
  BY <1>2, EndsPrompted
<1> QED
  BY <1>3, <1>4, <1>5, RoomPrompted

LEMMA InitEstablishes == Init => ConsoleInv
<1> SUFFICES ASSUME Init PROVE ConsoleInv
  OBVIOUS
<1>1. PICK rows \in 0 .. LastRow : text = [i \in 1 .. rows |-> LF] \o Prompt
  BY DEF Init
<1> DEFINE w == [i \in 1 .. rows |-> LF]
           x == w \o Prompt
<1>2. w \in Seq(Characters)
  <2>1. rows \in Nat
    BY Sizes
  <2>2. LF \in Characters
    BY DEF LF, BS, Characters
  <2> QED
    BY <2>1, <2>2
<1>3. text = x /\ term = writestring(Blank, text)
  BY <1>1 DEF Init
<1> HIDE DEF w
<1>4. << >> \o x = x
  <2>1. x \in Seq(Characters)
    BY <1>2, PromptIsText, ConcatProperties
  <2> HIDE DEF x
  <2> QED
    BY <2>1
<1>5. Window(term, text) /\ Ends(text, << >>) /\ Room(term, text, << >>)
  <2>1. /\ Window(writestring(Blank, w \o Prompt), << >> \o (w \o Prompt))
        /\ Ends(<< >> \o (w \o Prompt), << >>)
        /\ Room(writestring(Blank, w \o Prompt), << >> \o (w \o Prompt), << >>)
    BY <1>2, BlankShows, PromptShown
  <2> QED
    BY <1>3, <1>4, <2>1
<1>6. line = << >> /\ ~ lost /\ lost \in BOOLEAN
  BY DEF Init
<1>7. LineInv
  <2>1. << >> \in Seq(Typed) /\ Len(<< >>) = 0 /\ 0 <= SHELL_BUFFER_SIZE - 1
    BY ConsoleAssumption
  <2> QED
    BY <1>5, <1>6, <2>1 DEF LineInv
<1>8. ShiftInv
  BY DEF Init, ShiftInv
<1> QED
  BY <1>5, <1>7, <1>8 DEF ConsoleInv

-----------------------------------------------------------------------------
(* The line editor *)

LEMMA BackspaceKeeps ==
  ASSUME Window(term, text), LineInv, ~ lost, Backspace
  PROVE  Window(term, text)' /\ LineInv'
<1>0. /\ line \in Seq(Typed) /\ Len(line) <= SHELL_BUFFER_SIZE - 1
      /\ Ends(text, line) /\ Room(term, text, line)
  BY DEF LineInv
<1>1. CASE line # << >>
  <2>1. /\ line' = SubSeq(line, 1, Len(line) - 1)
        /\ term' = writestring(term, <<BS, SP, BS>>) /\ text' = Front(text) /\ lost' = lost
    BY <1>1 DEF Backspace, CanErase, Erased
  <2>2. line' = Front(line)
    BY <2>1 DEF Front
  <2>3. /\ Window(writestring(term, <<BS, SP, BS>>), Front(text))
        /\ Room(writestring(term, <<BS, SP, BS>>), Front(text), Front(line))
    BY <1>0, <1>1, RoomErased
  <2>4. Ends(Front(text), Front(line))
    <3>1. text \in Seq(Characters)
      BY DEF Window
    <3> QED
      BY <1>0, <1>1, <3>1, EndsErased
  <2>5. Front(line) \in Seq(Typed) /\ Len(Front(line)) <= SHELL_BUFFER_SIZE - 1
    <3>1. Len(line) \in Nat /\ Front(line) \in Seq(Typed) /\ Len(Front(line)) = Len(line) - 1
      BY <1>0, <1>1, FrontOf
    <3>2. SHELL_BUFFER_SIZE \in Nat
      BY ConsoleAssumption
    <3> QED
      BY <1>0, <3>1, <3>2
  <2>6. Window(term', text') /\ Ends(text', line') /\ Room(term', text', line')
    BY <2>1, <2>2, <2>3, <2>4
  <2> QED
    BY <2>1, <2>2, <2>5, <2>6 DEF LineInv
<1>2. CASE line = << >>
  BY <1>2 DEF Backspace, CanErase, Quiet, LineInv
<1> QED
  BY <1>1, <1>2

LEMMA OutputsAreText ==
  ASSUME NEW s, NEW out \in Printed(s)
  PROVE  <<LF>> \o out \in Seq(Characters)
<1>1. out \in Seq(Characters)
  BY ConsoleAssumption DEF Printed
<1>2. LF \in Characters
  BY DEF LF, BS, Characters
<1>3. <<LF>> \in Seq(Characters)
  BY <1>2
<1> QED
  BY <1>1, <1>3, ConcatProperties

LEMMA EnterKeeps ==
  ASSUME Window(term, text), LineInv, ~ lost, Enter
  PROVE  Window(term, text)' /\ LineInv'
<1>1. CASE CallsNull(line)
  <2>1. lost' = TRUE /\ term' = writestring(term, <<LF>>) /\ text' = text \o <<LF>> /\ line' = line
    BY <1>1 DEF Enter, Shown
  <2>2. <<LF>> \in Seq(Characters)
    BY DEF LF, BS, Characters
  <2>3. Window(term', text')
    BY <2>1, <2>2, WriteShows
  <2> QED
    BY <2>1, <2>3 DEF LineInv
<1>2. CASE ~ CallsNull(line)
  <2>1. line' = << >> /\ lost' = lost
    BY <1>2 DEF Enter
  <2>2. PICK out \in Printed(line) : /\ term' = writestring(term, <<LF>> \o out \o Prompt)
                                     /\ text' = text \o (<<LF>> \o out \o Prompt)
    BY <1>2 DEF Enter, Shown
  <2> DEFINE w == <<LF>> \o out
  <2>3. w \in Seq(Characters)
    BY OutputsAreText
  <2>4. term' = writestring(term, w \o Prompt) /\ text' = text \o (w \o Prompt)
    BY <2>2
  <2> HIDE DEF w
  <2>5. Window(term', text') /\ Ends(text', << >>) /\ Room(term', text', << >>)
    BY <2>3, <2>4, PromptShown
  <2>6. << >> \in Seq(Typed) /\ Len(<< >>) = 0 /\ 0 <= SHELL_BUFFER_SIZE - 1
    BY ConsoleAssumption
  <2> QED
    BY <2>1, <2>5, <2>6 DEF LineInv
<1> QED
  BY <1>1, <1>2

LEMMA CharacterKeeps ==
  ASSUME Window(term, text), LineInv, ~ lost, NEW c \in {0} \cup Typed, Character(c)
  PROVE  Window(term, text)' /\ LineInv'
<1>0. /\ line \in Seq(Typed) /\ Len(line) \in Nat
      /\ Ends(text, line) /\ Room(term, text, line)
      /\ text \in Seq(Characters) /\ term \in Screens
  BY DEF LineInv, Window
<1>1. CASE c # 0 /\ HasRoom(line)
  <2>1. /\ line' = Append(line, c) /\ lost' = lost
        /\ term' = writestring(term, <<c>>) /\ text' = text \o <<c>>
    BY <1>1 DEF Character, Shown
  <2>2. c \in Typed /\ c \in Characters /\ c \in 1 .. 255
    BY <1>1, TypedAreCharacters
  <2>3. term' = putchar(term, c) /\ text' = Append(text, c)
    <3>1. text \o <<c>> = Append(text, c)
      BY <1>0, <2>2
    <3> QED
      BY <1>0, <2>1, <2>2, <3>1, WriteOne
  <2>4. Len(line) + 1 <= SHELL_BUFFER_SIZE - 1
    <3>1. SHELL_BUFFER_SIZE \in Nat
      BY ConsoleAssumption
    <3> QED
      BY <1>0, <1>1, <3>1 DEF HasRoom
  <2>5. Len(line) <= Len(text)
    <3>1. Len(text) \in Nat
      BY <1>0
    <3> QED
      BY <1>0, <3>1, PromptIsText DEF Ends
  <2>6. Window(putchar(term, c), Append(text, c))
    BY <2>2, PutShows
  <2>7. Room(putchar(term, c), Append(text, c), Append(line, c))
    BY <1>0, <2>2, <2>4, <2>5, RoomTyped
  <2>8. Ends(Append(text, c), Append(line, c))
    BY <1>0, EndsTyped
  <2>9. Append(line, c) \in Seq(Typed) /\ Len(Append(line, c)) = Len(line) + 1
    BY <1>0, <2>2
  <2>10. Window(term', text') /\ Ends(text', line') /\ Room(term', text', line')
    BY <2>1, <2>3, <2>6, <2>7, <2>8
  <2> QED
    BY <2>1, <2>4, <2>9, <2>10 DEF LineInv
<1>2. CASE ~ (c # 0 /\ HasRoom(line))
  <2>1. Quiet
    BY <1>2 DEF Character
  <2> QED
    BY <2>1 DEF Quiet, LineInv
<1> QED
  BY <1>1, <1>2

-----------------------------------------------------------------------------
(* The steps *)

LEMMA KeyKeeps ==
  ASSUME NEW scancode \in Nat, NEW shift \in BOOLEAN, NEW caps \in BOOLEAN,
         Window(term, text), LineInv, ~ lost, shell_handle_key(scancode, shift, caps)
  PROVE  Window(term, text)' /\ LineInv'
<1> DEFINE c == kb_to_ascii(scancode, shift, caps)
<1>1. c \in {0} \cup Typed
  BY KeysAreTyped
<1>2. Backspace \/ Enter \/ Character(c)
  BY DEF shell_handle_key
<1> HIDE DEF c
<1>3. CASE Backspace
  BY <1>3, BackspaceKeeps
<1>4. CASE Enter
  BY <1>4, EnterKeeps
<1>5. CASE Character(c)
  BY <1>1, <1>5, CharacterKeeps
<1> QED
  BY <1>2, <1>3, <1>4, <1>5

LEMMA CallbackKeeps ==
  ASSUME NEW scancode \in Nat, ConsoleInv, ~ lost, keyboard_callback(scancode)
  PROVE  /\ Window(term, text)' /\ LineInv'
         /\ shift_pressed' \in BOOLEAN /\ caps_lock_active' \in BOOLEAN
<1>1. Window(term, text) /\ LineInv /\ ShiftInv
  BY DEF ConsoleInv
<1>2. shift_pressed' \in BOOLEAN
  BY <1>1 DEF keyboard_callback, ShiftAfter, ShiftInv
<1>3. caps_lock_active' \in BOOLEAN
  BY DEF keyboard_callback, CapsAfter
<1>4. shell_handle_key(scancode, shift_pressed', caps_lock_active')
  BY DEF keyboard_callback
<1>5. Window(term, text)' /\ LineInv'
  BY <1>1, <1>2, <1>3, <1>4, KeyKeeps
<1> QED
  BY <1>2, <1>3, <1>5

LEMMA PressKeeps ==
  ASSUME ConsoleInv, NEW k \in Keys, Press(k)
  PROVE  ConsoleInv'
<1>0. k \in Nat /\ k - KBD_SCANCODE_RELEASE \notin ShiftKeys
  BY ConsoleAssumption DEF KBD_SCANCODE_RELEASE, ShiftKeys, KBD_SCANCODE_SHIFT_LEFT,
       KBD_SCANCODE_SHIFT_RIGHT
<1>1. /\ Window(term, text)' /\ LineInv'
      /\ shift_pressed' \in BOOLEAN /\ caps_lock_active' \in BOOLEAN
  BY <1>0, CallbackKeeps DEF Press
<1>2. held \subseteq ShiftKeys /\ (shift_pressed => held # {})
  BY DEF ConsoleInv, ShiftInv
<1>3. held' = held \cup ({k} \cap ShiftKeys)
  BY DEF Press
<1>4. shift_pressed' = IF k \in ShiftKeys THEN TRUE ELSE shift_pressed
  BY <1>0 DEF Press, keyboard_callback, ShiftAfter
<1>5. held' \subseteq ShiftKeys /\ (shift_pressed' => held' # {})
  BY <1>2, <1>3, <1>4
<1> QED
  BY <1>1, <1>5 DEF ConsoleInv, ShiftInv

LEMMA LetGoKeeps ==
  ASSUME ConsoleInv, NEW k \in Keys, LetGo(k)
  PROVE  ConsoleInv'
<1>0. /\ k + KBD_SCANCODE_RELEASE \in Nat /\ k + KBD_SCANCODE_RELEASE \notin ShiftKeys
      /\ (k + KBD_SCANCODE_RELEASE) - KBD_SCANCODE_RELEASE = k
  BY ConsoleAssumption DEF KBD_SCANCODE_RELEASE, ShiftKeys, KBD_SCANCODE_SHIFT_LEFT,
       KBD_SCANCODE_SHIFT_RIGHT
<1>1. /\ Window(term, text)' /\ LineInv'
      /\ shift_pressed' \in BOOLEAN /\ caps_lock_active' \in BOOLEAN
  BY <1>0, CallbackKeeps DEF LetGo
<1>2. held \subseteq ShiftKeys /\ (shift_pressed => held # {})
  BY DEF ConsoleInv, ShiftInv
<1>3. held' = held \ {k}
  BY DEF LetGo
<1>4. shift_pressed' = IF k \in ShiftKeys THEN FALSE ELSE shift_pressed
  BY <1>0 DEF LetGo, keyboard_callback, ShiftAfter
<1>5. held' \subseteq ShiftKeys /\ (shift_pressed' => held' # {})
  BY <1>2, <1>3, <1>4
<1> QED
  BY <1>1, <1>5 DEF ConsoleInv, ShiftInv

LEMMA NextKeeps == ConsoleInv /\ [Next]_consoleVars => ConsoleInv'
<1> SUFFICES ASSUME ConsoleInv, [Next]_consoleVars PROVE ConsoleInv'
  OBVIOUS
<1>1. CASE Next
  <2>1. PICK k \in Keys : Press(k) \/ LetGo(k)
    BY <1>1 DEF Next, Typing
  <2> QED
    BY <2>1, PressKeeps, LetGoKeeps
<1>2. CASE UNCHANGED consoleVars
  BY <1>2 DEF consoleVars, ConsoleInv, LineInv, ShiftInv
<1> QED
  BY <1>1, <1>2

LEMMA ConsoleInvariant == Spec => []ConsoleInv
  BY InitEstablishes, NextKeeps, PTL DEF Spec

-----------------------------------------------------------------------------
(* What follows from the invariant *)

LEMMA InvType == ConsoleInv => TypeOK
<1> SUFFICES ASSUME ConsoleInv PROVE TypeOK
  OBVIOUS
<1>1. /\ term \in Screens /\ line \in Seq(Typed) /\ Len(line) <= SHELL_BUFFER_SIZE - 1
      /\ lost \in BOOLEAN /\ ShiftInv
  BY DEF ConsoleInv, Window, LineInv
<1>2. /\ term.row \in 0 .. LastRow /\ term.column \in 0 .. (VGA_WIDTH - 1)
      /\ DOMAIN term.buffer = Cells
  BY <1>1 DEF Screens, ScreensOf, W
<1>3. line \in Seq(1 .. 127)
  <2> DEFINE n == Len(line)
  <2>1. line \in [1 .. n -> Typed] /\ n \in Nat
    BY <1>1, LenProperties
  <2> HIDE DEF n
  <2>2. ASSUME NEW i \in 1 .. n
        PROVE  line[i] \in 1 .. 127
    <3>1. line[i] \in Typed
      BY <2>1
    <3> QED
      BY <3>1 DEF Typed
  <2>3. line \in [1 .. n -> 1 .. 127]
    BY <2>1, <2>2
  <2> QED
    BY <2>1, <2>3
<1>4. Len(line) + 1 <= SHELL_BUFFER_SIZE
  BY <1>1, ConsoleAssumption
<1> QED
  BY <1>1, <1>2, <1>3, <1>4 DEF TypeOK, ShiftInv

LEMMA WindowShowsText == Window(term, text) => ScreenShowsText
<1> SUFFICES ASSUME Window(term, text) PROVE ScreenShowsText
  OBVIOUS
<1>1. /\ Layout(text)[Len(text)] = [row |-> term.scrolls + term.row, column |-> term.column]
      /\ term.cursor = term.row * VGA_WIDTH + term.column
  BY DEF Window, Here, Pen, CellAt, W
<1>2. DOMAIN text = 1 .. Len(text)
  BY DEF Window
<1>3. ASSUME NEW i \in Cells
      PROVE  term.buffer[i] = IF PrintedAt(term, text, i) = {} THEN SP
                              ELSE text[CHOOSE k \in PrintedAt(term, text, i) : TRUE]
  <2> DEFINE p == PlaceOf(term, i)
             printed == PrintedAt(term, text, i)
             v == term.buffer[i]
  <2>1. Paper(text, p, v)
    BY DEF Window
  <2>2. \A k : k \in printed <=> k \in 1 .. Len(text) /\ text[k] # LF /\ Layout(text)[k - 1] = p
    BY <1>2 DEF PrintedAt
  <2> HIDE DEF p, printed, v
  <2>3. CASE printed = {}
    BY <2>1, <2>2, <2>3 DEF Paper, v, printed
  <2>4. CASE printed # {}
    <3> DEFINE k == CHOOSE j \in printed : TRUE
    <3>1. k \in printed
      BY <2>4
    <3> HIDE DEF k
    <3>2. v = text[k]
      BY <2>1, <2>2, <3>1 DEF Paper
    <3> QED
      BY <2>4, <3>2 DEF k, v, printed
  <2> QED
    BY <2>3, <2>4
<1> QED
  BY <1>1, <1>3 DEF ScreenShowsText

(* Every key leaves the shift and caps lock flags boolean, the cursor on   *)
(* the screen, and the line with room for its NUL in shell_buffer.         *)
THEOREM ConsoleIsTyped == Spec => []TypeOK
  BY ConsoleInvariant, InvType, PTL

(* The screen is a window on the text that was printed and not erased:     *)
(* every cell shows the character that was printed there, or a space,      *)
(* however putchar and its callees wrap, scroll and step back over the     *)
(* edge of a row (vga.cpp:41-84), for a screen of every size on which the  *)
(* longest line fits above the last row.                                   *)
THEOREM ScreenAndTextAgree == Spec => []ScreenShowsText
<1>1. ConsoleInv => ScreenShowsText
  BY WindowShowsText DEF ConsoleInv
<1> QED
  BY <1>1, ConsoleInvariant, PTL

(* The text ends with the prompt and the line in shell_buffer: no keys     *)
(* erase the prompt or put a character on the screen that Enter would not  *)
(* run (shell_handle_key, shell.cpp:186-231).                              *)
THEOREM LineIsSeen == Spec => []LineIsWhatIsSeen
<1>1. ConsoleInv => LineIsWhatIsSeen
  BY EndsIsSuffix DEF ConsoleInv, LineInv, Window, LineIsWhatIsSeen
<1> QED
  BY <1>1, ConsoleInvariant, PTL

(* The flag the two shift keys share is down only while one of them is     *)
(* (keyboard.cpp:106-114).                                                 *)
THEOREM ShiftIsNotStuck == Spec => []ShiftIsHeld
<1>1. ConsoleInv => ShiftIsHeld
  BY DEF ConsoleInv, ShiftInv, ShiftIsHeld
<1> QED
  BY <1>1, ConsoleInvariant, PTL
=============================================================================
