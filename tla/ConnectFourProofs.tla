------------------------- MODULE ConnectFourProofs -------------------------
(***************************************************************************)
(* Proofs about ConnectFour for boards of every size from 4 by 4: pieces   *)
(* stack, the hash is that of the board, and the four local tests of       *)
(* winner(), with their shortcuts, find a line exactly when there is one.  *)
(*                                                                         *)
(* The last is the point of the module.  Before a move there is no line    *)
(* (else the match would be over), so a line after it runs through the new *)
(* piece; along each direction it is there exactly when the runs to both   *)
(* sides add up to four (LineThrough...), and a test that is skipped could *)
(* not have found four because the board ends first.  Vertical() counts    *)
(* only downwards, which is right because nothing lies on the new piece.   *)
(***************************************************************************)
EXTENDS ConnectFour, TLAPS, FiniteSetTheorems, WellFoundedInduction

-----------------------------------------------------------------------------
(* Numbers, players and cells.                                             *)

\* A non-empty set of natural numbers has a least element.
LEMMA LeastNumber ==
    ASSUME NEW S \in SUBSET Nat, S # {}
    PROVE  \E k \in S : \A j \in S : k <= j
<1>1. PICK k \in S : \A j \in S : ~ (<<j, k>> \in OpToRel(<, Nat))
  BY NatLessThanWellFounded, WFMin
<1>2. \A j \in S : ~ (j < k)
  BY <1>1 DEF OpToRel
<1> QED
  BY <1>2

\* The two sides, and the test of the lowest bit.
LEMMA SideFacts ==
    /\ \A p \in Sides : opponent(p) \in Sides /\ opponent(p) # p
    /\ \A p \in Sides : occupied(p) /\ p # vacant /\ p # invalid
    /\ ~ occupied(vacant)
    /\ vacant # invalid
<1>1. Sides \subseteq Int /\ vacant \in Int /\ invalid \in Int
  BY DEF Sides, agent, human, vacant, invalid
<1>2. \A p \in Int : p \in Sides <=> p + 1 = 0 \/ p = 1
  BY DEF Sides, agent, human
<1>3. ASSUME NEW p \in Int, p + 1 = 0 \/ p = 1
      PROVE  /\ -p \in Int /\ ((-p) + 1 = 0 \/ -p = 1) /\ -p # p
             /\ p % 2 = 1 /\ p # 0 /\ p # -2
  BY <1>3
<1>4. ~ (0 % 2 = 1) /\ 0 # -2
  OBVIOUS
<1> QED
  BY <1>1, <1>2, <1>3, <1>4 DEF opponent, occupied, vacant, invalid

\* Cells are pairs of a row and a column, and finitely many.
LEMMA CellFacts ==
    /\ \A r, c : <<r, c>> \in Cells <=> r \in Rows /\ c \in Cols
    /\ \A x \in Cells : x = <<x[1], x[2]>> /\ x[1] \in Rows /\ x[2] \in Cols
    /\ Rows \subseteq Nat /\ Cols \subseteq Nat
    /\ 0 \in Rows
  BY BoardAssumption DEF Cells, Rows, Cols

\* A board has NumRows * NumCols cells.
LEMMA CellsFinite ==
    /\ IsFiniteSet(Cells)
    /\ Cardinality(Cells) = NumRows * NumCols
<1>0. /\ NumRows \in Nat \ {0} /\ NumCols \in Nat \ {0} /\ 0 \in Int
      /\ NumRows - 1 \in Int /\ NumCols - 1 \in Int
      /\ 0 <= NumRows - 1 /\ 0 <= NumCols - 1
      /\ NumRows - 1 - 0 + 1 = NumRows /\ NumCols - 1 - 0 + 1 = NumCols
  BY BoardAssumption
<1>1. IsFiniteSet(Rows) /\ Cardinality(Rows) = NumRows
  <2>1. /\ IsFiniteSet(0..NumRows - 1)
        /\ Cardinality(0..NumRows - 1) =
             IF 0 > NumRows - 1 THEN 0 ELSE NumRows - 1 - 0 + 1
    BY <1>0, FS_Interval
  <2> QED
    BY <1>0, <2>1 DEF Rows
<1>2. IsFiniteSet(Cols) /\ Cardinality(Cols) = NumCols
  <2>1. /\ IsFiniteSet(0..NumCols - 1)
        /\ Cardinality(0..NumCols - 1) =
             IF 0 > NumCols - 1 THEN 0 ELSE NumCols - 1 - 0 + 1
    BY <1>0, FS_Interval
  <2> QED
    BY <1>0, <2>1 DEF Cols
<1> QED
  BY <1>1, <1>2, FS_Product DEF Cells

-----------------------------------------------------------------------------
(* Runs and lines.                                                         *)

Directions == {<<0, 1>>, <<1, 0>>, <<1, 1>>, <<1, -1>>}

\* The cell k steps from <<r, c>> is on the board and holds the same.
Same(b, r, c, dr, dc, k) ==
    /\ <<r + k * dr, c + k * dc>> \in Cells
    /\ b[<<r + k * dr, c + k * dc>>] = b[<<r, c>>]

\* Run() ends on the board: it is the number of steps before the first cell that
\* is not the same.
LEMMA RunFacts ==
    ASSUME NEW b, NEW r \in Rows, NEW c \in Cols,
           NEW dr \in {-1, 0, 1}, NEW dc \in {-1, 0, 1}, dr # 0 \/ dc # 0
    PROVE  LET n == Run(b, r, c, dr, dc)
           IN  /\ n \in Nat
               /\ \A i \in 1 .. n : Same(b, r, c, dr, dc, i)
               /\ ~ Same(b, r, c, dr, dc, n + 1)
<1> DEFINE N == NumRows + NumCols
           S == {k \in Nat : ~ Same(b, r, c, dr, dc, k + 1)}
           Q(k) == /\ \A i \in 1 .. k : Same(b, r, c, dr, dc, i)
                   /\ ~ Same(b, r, c, dr, dc, k + 1)
<1>1. N \in Nat /\ N \in S
  <2>1. N \in Nat
    BY BoardAssumption
  <2>2. r \in 0 .. NumRows - 1 /\ c \in 0 .. NumCols - 1
    BY DEF Rows, Cols
  <2>3. ~ (r + (N + 1) * dr \in 0 .. NumRows - 1 /\ c + (N + 1) * dc \in 0 .. NumCols - 1)
    <3>1. CASE dr = 1
      BY <3>1, <2>2, BoardAssumption
    <3>2. CASE dr = -1
      BY <3>2, <2>2, BoardAssumption
    <3>3. CASE dr = 0 /\ dc = 1
      BY <3>3, <2>2, BoardAssumption
    <3>4. CASE dr = 0 /\ dc = -1
      BY <3>4, <2>2, BoardAssumption
    <3> QED
      BY <3>1, <3>2, <3>3, <3>4
  <2>4. ~ Same(b, r, c, dr, dc, N + 1)
    BY <2>3, CellFacts DEF Same, Rows, Cols
  <2> QED
    BY <2>1, <2>4
<1>2. PICK k \in S : \A j \in S : k <= j
  BY <1>1, LeastNumber
<1>3. k \in 0 .. N
  BY <1>1, <1>2
<1>4. Q(k)
  <2>1. ASSUME NEW i \in 1 .. k PROVE Same(b, r, c, dr, dc, i)
    <3>1. i - 1 \in Nat /\ ~ (k <= i - 1) /\ (i - 1) + 1 = i
      BY <1>2
    <3> QED
      BY <3>1, <1>2
  <2> QED
    BY <2>1, <1>2
<1>5. Run(b, r, c, dr, dc) = CHOOSE j \in 0 .. N : Q(j)
  BY DEF Run, Same
<1> HIDE DEF S, Q
<1>6. Run(b, r, c, dr, dc) \in 0 .. N /\ Q(Run(b, r, c, dr, dc))
  BY <1>3, <1>4, <1>5
<1>7. Run(b, r, c, dr, dc) \in Nat
  BY <1>6, <1>1
<1> QED
  BY <1>6, <1>7 DEF Q

\* Four numbers in a row that hold 0, all in S, are there exactly when the runs
\* of S upwards and downwards from 0 have three more numbers between them.
LEMMA FourInARow ==
    ASSUME NEW S \in SUBSET Int, 0 \in S,
           NEW m \in Nat, NEW n \in Nat,
           \A i \in 1 .. n : i \in S, n + 1 \notin S,
           \A i \in 1 .. m : -i \in S, -(m + 1) \notin S
    PROVE  (\E j \in 0 .. 3 : \A k \in 0 .. 3 : k - j \in S) <=> 1 + m + n > 3
<1>1. ASSUME NEW j \in 0 .. 3, \A k \in 0 .. 3 : k - j \in S
      PROVE  1 + m + n > 3
  <2>1. 3 - j <= n
    <3> SUFFICES ASSUME n + 1 <= 3 - j PROVE FALSE
      OBVIOUS
    <3>1. n + 1 + j \in 0 .. 3 /\ (n + 1 + j) - j = n + 1
      OBVIOUS
    <3> QED
      BY <3>1, <1>1
  <2>2. j <= m
    <3> SUFFICES ASSUME m + 1 <= j PROVE FALSE
      OBVIOUS
    <3>1. j - (m + 1) \in 0 .. 3 /\ (j - (m + 1)) - j = -(m + 1)
      OBVIOUS
    <3> QED
      BY <3>1, <1>1
  <2> QED
    BY <2>1, <2>2
<1>2. ASSUME 1 + m + n > 3
      PROVE  \E j \in 0 .. 3 : \A k \in 0 .. 3 : k - j \in S
  <2> DEFINE j == IF m < 3 THEN m ELSE 3
  <2>1. j \in 0 .. 3 /\ j <= m /\ 3 - j <= n
    BY <1>2
  <2>2. ASSUME NEW k \in 0 .. 3 PROVE k - j \in S
    <3> HIDE DEF j
    <3>1. CASE k > j
      <4>1. k - j \in 1 .. n
        BY <2>1, <3>1
      <4> QED
        BY <4>1
    <3>2. CASE k = j
      <4>1. k - j = 0
        BY <2>1, <3>2
      <4> QED
        BY <4>1
    <3>3. CASE k < j
      <4>1. j - k \in 1 .. m /\ k - j = -(j - k)
        BY <2>1, <3>3
      <4> QED
        BY <4>1
    <3> QED
      BY <3>1, <3>2, <3>3, <2>1
  <2> QED
    BY <2>1, <2>2
<1> QED
  BY <1>1, <1>2

Line(x, d) == {<<x[1] + k * d[1], x[2] + k * d[2]>> : k \in 0 .. 3}

\* A line through <<r, c>> along d that holds only what <<r, c>> holds.
LineThrough(b, r, c, d) ==
    \E x \in Cells : /\ Line(x, d) \subseteq Cells
                     /\ <<r, c>> \in Line(x, d)
                     /\ \A y \in Line(x, d) : b[y] = b[<<r, c>>]

\* It is there exactly when the runs to both sides say so.
LEMMA LineThroughFacts ==
    ASSUME NEW b, NEW r \in Rows, NEW c \in Cols, NEW dr \in {0, 1}, NEW dc \in {-1, 0, 1},
           NEW er \in {-1, 0, 1}, NEW ec \in {-1, 0, 1},
           dr # 0 \/ dc # 0, er + dr = 0, ec + dc = 0
    PROVE  LineThrough(b, r, c, <<dr, dc>>) <=>
               1 + Run(b, r, c, er, ec) + Run(b, r, c, dr, dc) > 3
<1> DEFINE m == Run(b, r, c, er, ec)
           n == Run(b, r, c, dr, dc)
           S == {k \in Int : Same(b, r, c, dr, dc, k)}
           d == <<dr, dc>>
<1>0. r \in Int /\ c \in Int /\ dr \in Int /\ dc \in Int /\ <<r, c>> \in Cells
  BY CellFacts
<1>1. /\ n \in Nat
      /\ \A i \in 1 .. n : Same(b, r, c, dr, dc, i)
      /\ ~ Same(b, r, c, dr, dc, n + 1)
  BY RunFacts
<1>2. /\ m \in Nat
      /\ \A i \in 1 .. m : Same(b, r, c, er, ec, i)
      /\ ~ Same(b, r, c, er, ec, m + 1)
  <2>1. er # 0 \/ ec # 0
    OBVIOUS
  <2> QED
    BY <2>1, RunFacts
<1>3. \A k \in Int : Same(b, r, c, er, ec, k) <=> Same(b, r, c, dr, dc, -k)
  <2>0. er = -dr /\ ec = -dc
    BY <1>0
  <2>1. ASSUME NEW k \in Int PROVE k * er = (-k) * dr /\ k * ec = (-k) * dc
    BY <1>0, <2>0
  <2> QED
    BY <2>1 DEF Same
<1>4. Same(b, r, c, dr, dc, 0)
  <2>1. 0 * dr = 0 /\ 0 * dc = 0 /\ r + 0 = r /\ c + 0 = c
    BY <1>0
  <2> QED
    BY <2>1, <1>0 DEF Same
<1>5. (\E j \in 0 .. 3 : \A k \in 0 .. 3 : k - j \in S) <=> 1 + m + n > 3
  <2> HIDE DEF m, n
  <2>1. /\ S \in SUBSET Int /\ 0 \in S /\ n + 1 \notin S
        /\ \A i \in 1 .. n : i \in S
    BY <1>1, <1>4
  <2>2. -(m + 1) \notin S /\ \A i \in 1 .. m : -i \in S
    BY <1>2, <1>3
  <2> HIDE DEF S
  <2> QED
    BY <2>1, <2>2, <1>1, <1>2, FourInARow
<1>6. ASSUME NEW j \in 0 .. 3, \A k \in 0 .. 3 : k - j \in S
      PROVE  LineThrough(b, r, c, d)
  <2> DEFINE x == <<r - j * dr, c - j * dc>>
  <2>1. ASSUME NEW k \in Int
        PROVE  x[1] + k * d[1] = r + (k - j) * dr /\ x[2] + k * d[2] = c + (k - j) * dc
    BY <1>0
  <2>2. \A k \in 0 .. 3 : /\ <<x[1] + k * d[1], x[2] + k * d[2]>> \in Cells
                          /\ b[<<x[1] + k * d[1], x[2] + k * d[2]>>] = b[<<r, c>>]
    BY <2>1, <1>6 DEF Same
  <2>3. x[1] + 0 * d[1] = x[1] /\ x[2] + 0 * d[2] = x[2] /\ x = <<x[1], x[2]>>
    BY <1>0
  <2>4. x \in Cells
    BY <2>2, <2>3
  <2>5. <<r, c>> = <<x[1] + j * d[1], x[2] + j * d[2]>>
    BY <1>0
  <2> HIDE DEF x
  <2> QED
    BY <2>2, <2>4, <2>5 DEF LineThrough, Line
<1>7. ASSUME LineThrough(b, r, c, d)
      PROVE  \E j \in 0 .. 3 : \A k \in 0 .. 3 : k - j \in S
  <2>1. PICK x \in Cells : /\ Line(x, d) \subseteq Cells
                           /\ <<r, c>> \in Line(x, d)
                           /\ \A y \in Line(x, d) : b[y] = b[<<r, c>>]
    BY <1>7 DEF LineThrough
  <2>2. PICK j \in 0 .. 3 : r = x[1] + j * dr /\ c = x[2] + j * dc
    BY <2>1 DEF Line
  <2>3. x[1] \in Int /\ x[2] \in Int
    BY CellFacts
  <2>4. ASSUME NEW k \in 0 .. 3 PROVE k - j \in S
    <3>1. x[1] + k * dr = r + (k - j) * dr /\ x[2] + k * dc = c + (k - j) * dc
      BY <1>0, <2>2, <2>3
    <3>2. <<x[1] + k * dr, x[2] + k * dc>> \in Line(x, d)
      BY DEF Line
    <3> QED
      BY <3>1, <3>2, <2>1 DEF Same
  <2> QED
    BY <2>4
<1> QED
  BY <1>5, <1>6, <1>7

\* The last cell of a run is on the board.
LEMMA RunEnds ==
    ASSUME NEW b, NEW r \in Rows, NEW c \in Cols,
           NEW dr \in {-1, 0, 1}, NEW dc \in {-1, 0, 1}, dr # 0 \/ dc # 0
    PROVE  LET n == Run(b, r, c, dr, dc)
           IN  n \in Nat /\ r + n * dr \in Rows /\ c + n * dc \in Cols
<1> DEFINE n == Run(b, r, c, dr, dc)
<1>1. n \in Nat /\ \A i \in 1 .. n : Same(b, r, c, dr, dc, i)
  BY RunFacts
<1> HIDE DEF n
<1>2. CASE n = 0
  <2>1. r + 0 * dr = r /\ c + 0 * dc = c
    BY CellFacts
  <2> QED
    BY <1>2, <2>1 DEF n
<1>3. CASE n # 0
  <2>1. n \in 1 .. n
    BY <1>1, <1>3
  <2> QED
    BY <1>1, <2>1, CellFacts DEF Same, n
<1> QED
  BY <1>2, <1>3

\* Each of the four tests of winner(), shortcuts included, finds a line through
\* the last piece exactly when there is one, if nothing like it lies on it.
LEMMA TestsExact ==
    ASSUME NEW b, NEW r \in Rows, NEW c \in Cols,
           \A a \in Rows : a < r => b[<<a, c>>] # b[<<r, c>>]
    PROVE  /\ Horizontal(b, r, c) <=> LineThrough(b, r, c, <<0, 1>>)
           /\ Vertical(b, r, c) <=> LineThrough(b, r, c, <<1, 0>>)
           /\ Diagonal(b, r, c) <=> LineThrough(b, r, c, <<1, 1>>)
           /\ AntiDiagonal(b, r, c) <=> LineThrough(b, r, c, <<1, -1>>)
<1>0. r \in 0 .. NumRows - 1 /\ c \in 0 .. NumCols - 1
  BY DEF Rows, Cols
<1>1. Horizontal(b, r, c) <=> LineThrough(b, r, c, <<0, 1>>)
  <2> DEFINE m == Run(b, r, c, 0, -1)
             n == Run(b, r, c, 0, 1)
  <2>1. LineThrough(b, r, c, <<0, 1>>) <=> 1 + m + n > 3
    BY LineThroughFacts
  <2>2. n \in Nat /\ c + n * 1 \in 0 .. NumCols - 1
    BY RunEnds DEF Cols
  <2>3. m \in Nat
    BY RunEnds
  <2>4. Horizontal(b, r, c) <=> c < NumCols - 4 + (1 + m) /\ (1 + m) + n > 3
    BY DEF Horizontal
  <2> HIDE DEF m, n
  <2> QED
    BY <2>1, <2>2, <2>3, <2>4, <1>0, BoardAssumption
<1>2. Vertical(b, r, c) <=> LineThrough(b, r, c, <<1, 0>>)
  <2> DEFINE m == Run(b, r, c, -1, 0)
             n == Run(b, r, c, 1, 0)
  <2>1. LineThrough(b, r, c, <<1, 0>>) <=> 1 + m + n > 3
    BY LineThroughFacts
  <2>2. n \in Nat /\ r + n * 1 \in 0 .. NumRows - 1
    BY RunEnds DEF Rows
  <2>3. m \in Nat /\ \A i \in 1 .. m : Same(b, r, c, -1, 0, i)
    BY RunFacts
  <2>4. Vertical(b, r, c) <=> r < NumRows - 3 /\ 1 + n > 3
    BY DEF Vertical
  <2> HIDE DEF m, n
  <2>5. m = 0
    <3> SUFFICES ASSUME m # 0 PROVE FALSE
      OBVIOUS
    <3>1. 1 \in 1 .. m
      BY <2>3
    <3>2. Same(b, r, c, -1, 0, 1)
      BY <2>3, <3>1
    <3>3. r + 1 * (-1) = r - 1 /\ c + 1 * 0 = c /\ r - 1 < r
      BY <1>0
    <3> QED
      BY <3>2, <3>3, CellFacts DEF Same
  <2> QED
    BY <2>1, <2>2, <2>4, <2>5, <1>0, BoardAssumption
<1>3. Diagonal(b, r, c) <=> LineThrough(b, r, c, <<1, 1>>)
  <2> DEFINE m == Run(b, r, c, -1, -1)
             n == Run(b, r, c, 1, 1)
  <2>1. LineThrough(b, r, c, <<1, 1>>) <=> 1 + m + n > 3
    BY LineThroughFacts
  <2>2. n \in Nat /\ r + n * 1 \in 0 .. NumRows - 1 /\ c + n * 1 \in 0 .. NumCols - 1
    BY RunEnds DEF Rows, Cols
  <2>3. m \in Nat
    BY RunEnds
  <2>4. Diagonal(b, r, c) <=> /\ r < NumRows - 4 + (1 + m)
                              /\ c < NumCols - 4 + (1 + m) /\ (1 + m) + n > 3
    BY DEF Diagonal
  <2> HIDE DEF m, n
  <2> QED
    BY <2>1, <2>2, <2>3, <2>4, <1>0, BoardAssumption
<1>4. AntiDiagonal(b, r, c) <=> LineThrough(b, r, c, <<1, -1>>)
  <2> DEFINE m == Run(b, r, c, 1, -1)
             n == Run(b, r, c, -1, 1)
  <2>1. LineThrough(b, r, c, <<1, -1>>) <=> 1 + n + m > 3
    BY LineThroughFacts
  <2>2. n \in Nat /\ r + n * (-1) \in 0 .. NumRows - 1 /\ c + n * 1 \in 0 .. NumCols - 1
    BY RunEnds DEF Rows, Cols
  <2>3. m \in Nat
    BY RunEnds
  <2>4. AntiDiagonal(b, r, c) <=> /\ r > 3 - (1 + m)
                                  /\ c < NumCols - 4 + (1 + m) /\ (1 + m) + n > 3
    BY DEF AntiDiagonal
  <2> HIDE DEF m, n
  <2> QED
    BY <2>1, <2>2, <2>3, <2>4, <1>0, BoardAssumption
<1> QED
  BY <1>1, <1>2, <1>3, <1>4

-----------------------------------------------------------------------------
(* The inductive invariant.                                                *)

CTypeOK ==
    /\ m_board \in [Cells -> Sides \cup {vacant}]
    /\ m_no_moves \in Nat
    /\ m_player_just_moved \in Sides
    /\ m_winner \in Sides \cup {vacant, invalid}

\* Nothing floats.
Stacked == \A x \in Pieces : \A r \in Rows : r > x[1] => <<r, x[2]>> \in Pieces

Counted == m_no_moves = Cardinality(Pieces)

CInv == CTypeOK /\ Stacked /\ Counted /\ HashOfBoard /\ WinnerHasLine

\* Complete() on a given board, by start and direction of the line.
CompleteOn(b, p) ==
    \E x \in Cells, d \in Directions : /\ Line(x, d) \subseteq Cells
                                       /\ \A y \in Line(x, d) : b[y] = p

\* A line of Lines is a start and a direction.
LEMMA LinesFacts ==
    \A l : l \in Lines <=> /\ l \subseteq Cells
                           /\ \E x \in Cells, d \in Directions : l = Line(x, d)
  BY DEF Lines, Line, Directions

\* Complete() before and after a step is CompleteOn() of the two boards.
LEMMA CompleteFacts ==
    /\ \A p : Complete(p) <=> CompleteOn(m_board, p)
    /\ \A p : Complete(p)' <=> CompleteOn(m_board', p)
  BY LinesFacts DEF Complete, CompleteOn

\* The piece lands in the lowest vacant cell of its column, and all cells above
\* it are vacant too.
LEMMA LandingFacts ==
    ASSUME CTypeOK, Stacked, NEW c \in Cols, m_board[<<0, c>>] = vacant
    PROVE  LET r == LandingRow(c)
           IN  /\ r \in Rows
               /\ m_board[<<r, c>>] = vacant
               /\ \A a \in Rows : a > r => m_board[<<a, c>>] # vacant
               /\ \A a \in Rows : a < r => m_board[<<a, c>>] = vacant
<1> DEFINE S == {k \in Nat : NumRows - 1 - k \in Rows /\ m_board[<<NumRows - 1 - k, c>>] = vacant}
           Q(r) == /\ r >= 0 => ~ occupied(m_board[<<r, c>>])
                   /\ \A below \in Rows : below > r => occupied(m_board[<<below, c>>])
           r == LandingRow(c)
<1>1. \A a \in Rows : m_board[<<a, c>>] # vacant <=> occupied(m_board[<<a, c>>])
  <2>1. \A a \in Rows : m_board[<<a, c>>] \in Sides \cup {vacant}
    BY CellFacts DEF CTypeOK
  <2> QED
    BY <2>1, SideFacts
<1>2. PICK k \in S : \A j \in S : k <= j
  <2>1. NumRows - 1 \in S
    BY BoardAssumption DEF Rows
  <2> QED
    BY <2>1, LeastNumber
<1>3. \E a \in -1 .. NumRows - 1 : Q(a)
  <2> DEFINE a == NumRows - 1 - k
  <2>1. a \in Rows /\ m_board[<<a, c>>] = vacant /\ a \in -1 .. NumRows - 1
    BY <1>2, BoardAssumption DEF Rows
  <2>2. ASSUME NEW below \in Rows, below > a PROVE m_board[<<below, c>>] # vacant
    <3>1. NumRows - 1 - below \in Nat /\ NumRows - 1 - below < k
          /\ NumRows - 1 - (NumRows - 1 - below) = below
      BY <2>2, <1>2, BoardAssumption DEF Rows
    <3> QED
      BY <3>1, <1>2
  <2> HIDE DEF a
  <2> QED
    BY <2>1, <2>2, <1>1
<1>4. r = CHOOSE a \in -1 .. NumRows - 1 : Q(a)
  BY DEF LandingRow
<1> HIDE DEF r, S
<1>5. r \in -1 .. NumRows - 1 /\ Q(r)
  <2> HIDE DEF Q
  <2> QED
    BY <1>3, <1>4
<1>6. r # -1
  <2>1. 0 \in Rows /\ 0 > -1
    BY BoardAssumption DEF Rows
  <2> QED
    BY <2>1, <1>1, <1>5
<1>7. r \in Rows /\ r >= 0
  BY <1>5, <1>6, BoardAssumption DEF Rows
<1>8. m_board[<<r, c>>] = vacant /\ \A a \in Rows : a > r => m_board[<<a, c>>] # vacant
  BY <1>1, <1>5, <1>7
<1>9. ASSUME NEW a \in Rows, a < r, m_board[<<a, c>>] # vacant PROVE FALSE
  <2>1. <<a, c>> \in Pieces /\ <<a, c>>[1] = a /\ <<a, c>>[2] = c
    BY <1>9, CellFacts DEF Pieces
  <2>2. r > a
    BY <1>9, <1>7, CellFacts
  <2>3. <<r, c>> \in Pieces
    BY <2>1, <2>2, <1>7 DEF Stacked
  <2> QED
    BY <2>3, <1>8 DEF Pieces
<1> QED
  BY <1>7, <1>8, <1>9 DEF r

\* The board is full exactly when it has NumRows * NumCols pieces.
LEMMA PiecesFinite ==
    ASSUME NEW P \in SUBSET Cells
    PROVE  /\ IsFiniteSet(P) /\ Cardinality(P) \in Nat
           /\ P = Cells <=> Cardinality(P) = NumRows * NumCols
<1>1. IsFiniteSet(P) /\ (Cardinality(P) = Cardinality(Cells) <=> P = Cells)
  BY CellsFinite, FS_Subset
<1> QED
  BY <1>1, CellsFinite, FS_CardinalityType

\* A match that is not over offers a column.
LEMMA ColumnFree ==
    ASSUME CInv, m_winner = invalid
    PROVE  moves # {}
<1>1. Pieces # Cells
  BY SideFacts DEF CInv, WinnerHasLine
<1>2. m_no_moves # NumRows * NumCols
  <2>1. Pieces \in SUBSET Cells
    BY DEF Pieces
  <2> QED
    BY <2>1, <1>1, PiecesFinite DEF CInv, Counted
<1>3. PICK x \in Cells : x \notin Pieces
  BY <1>1 DEF Pieces
<1>4. x = <<x[1], x[2]>> /\ x[1] \in Rows /\ x[2] \in Cols
  BY CellFacts
<1>5. m_board[<<0, x[2]>>] = vacant
  <2> SUFFICES ASSUME m_board[<<0, x[2]>>] # vacant PROVE FALSE
    OBVIOUS
  <2>1. <<0, x[2]>> \in Pieces
    BY <1>4, CellFacts DEF Pieces
  <2>2. x[1] = 0 \/ x[1] > 0
    BY <1>4, CellFacts
  <2>3. CASE x[1] = 0
    BY <2>1, <2>3, <1>3, <1>4
  <2>4. CASE x[1] > 0
    <3>1. <<0, x[2]>>[1] = 0 /\ <<0, x[2]>>[2] = x[2]
      OBVIOUS
    <3>2. <<x[1], x[2]>> \in Pieces
      BY <2>1, <2>4, <3>1, <1>4 DEF CInv, Stacked
    <3> QED
      BY <3>2, <1>3, <1>4
  <2> QED
    BY <2>2, <2>3, <2>4
<1> QED
  BY <1>2, <1>4, <1>5 DEF moves

\* What a move does to the set of pieces.
LEMMA NewPiece ==
    ASSUME CInv, NEW c \in moves,
           NEW r, r = LandingRow(c),
           NEW p, p = opponent(m_player_just_moved),
           m_board' = [m_board EXCEPT ![<<r, c>>] = p]
    PROVE  /\ m_winner = invalid /\ c \in Cols /\ r \in Rows /\ p \in Sides
           /\ <<r, c>> \in Cells /\ <<r, c>> \notin Pieces
           /\ Pieces' = Pieces \cup {<<r, c>>}
           /\ m_board' \in [Cells -> Sides \cup {vacant}]
           /\ m_board'[<<r, c>>] = p
           /\ \A x \in Cells : x # <<r, c>> => m_board'[x] = m_board[x]
           /\ \A a \in Rows : a > r => m_board[<<a, c>>] # vacant
           /\ \A a \in Rows : a < r => m_board[<<a, c>>] = vacant
<1>1. m_winner = invalid /\ c \in Cols /\ m_board[<<0, c>>] = vacant
  BY DEF moves
<1>2. /\ r \in Rows
      /\ m_board[<<r, c>>] = vacant
      /\ \A a \in Rows : a > r => m_board[<<a, c>>] # vacant
      /\ \A a \in Rows : a < r => m_board[<<a, c>>] = vacant
  BY <1>1, LandingFacts DEF CInv
<1>3. p \in Sides /\ p # vacant
  BY SideFacts DEF CInv, CTypeOK
<1>4. <<r, c>> \in Cells
  BY <1>1, <1>2, CellFacts
<1>5. /\ m_board' \in [Cells -> Sides \cup {vacant}]
      /\ m_board'[<<r, c>>] = p
      /\ \A x \in Cells : x # <<r, c>> => m_board'[x] = m_board[x]
  BY <1>3, <1>4 DEF CInv, CTypeOK
<1>6. Pieces' = Pieces \cup {<<r, c>>}
  BY <1>3, <1>4, <1>5 DEF Pieces
<1> QED
  BY <1>1, <1>2, <1>3, <1>4, <1>5, <1>6 DEF Pieces

-----------------------------------------------------------------------------
(* A move keeps the invariant.                                             *)

\* After the move a side has a line exactly when it made the move and winner()
\* finds a line through the new piece.
LEMMA FoundExactly ==
    ASSUME NEW b, NEW old, NEW r \in Rows, NEW c \in Cols,
           \A a \in Rows : a < r => b[<<a, c>>] # b[<<r, c>>],
           \A x \in Cells : x # <<r, c>> => b[x] = old[x],
           NEW q, ~ CompleteOn(old, q)
    PROVE  CompleteOn(b, q) <=>
               /\ q = b[<<r, c>>]
               /\ \/ Horizontal(b, r, c) \/ Vertical(b, r, c)
                  \/ Diagonal(b, r, c) \/ AntiDiagonal(b, r, c)
<1>1. (\E d \in Directions : LineThrough(b, r, c, d)) <=>
          \/ Horizontal(b, r, c) \/ Vertical(b, r, c)
          \/ Diagonal(b, r, c) \/ AntiDiagonal(b, r, c)
  BY TestsExact, Zenon DEF Directions
<1>2. ASSUME NEW x \in Cells, NEW d \in Directions,
             Line(x, d) \subseteq Cells, \A y \in Line(x, d) : b[y] = q
      PROVE  q = b[<<r, c>>] /\ LineThrough(b, r, c, d)
  <2>1. <<r, c>> \in Line(x, d)
    <3> SUFFICES ASSUME <<r, c>> \notin Line(x, d) PROVE FALSE
      OBVIOUS
    <3>1. \A y \in Line(x, d) : old[y] = q
      BY <1>2
    <3> QED
      BY <3>1, <1>2 DEF CompleteOn
  <2> QED
    BY <2>1, <1>2 DEF LineThrough
<1>3. ASSUME NEW d \in Directions, LineThrough(b, r, c, d), q = b[<<r, c>>]
      PROVE  CompleteOn(b, q)
  BY <1>3 DEF LineThrough, CompleteOn
<1> QED
  BY <1>1, <1>2, <1>3 DEF CompleteOn

\* move_hash_winner() keeps the invariant: one step per conjunct.
LEMMA PlayKeeps ==
    ASSUME CInv, PlayMove
    PROVE  CInv'
<1> PICK c \in moves :
        LET r == LandingRow(c)
            p == opponent(m_player_just_moved)
            board == [m_board EXCEPT ![<<r, c>>] = p]
        IN  /\ m_player_just_moved' = p
            /\ m_board' = board
            /\ m_no_moves' = m_no_moves + 1
            /\ m_zobrist_hash' = Xor(m_zobrist_hash, {Key(p, r, c)})
            /\ m_winner' = winner(board, r, c, m_no_moves + 1, m_winner)
  BY DEF PlayMove
<1> DEFINE r == LandingRow(c)
           p == opponent(m_player_just_moved)
           board == [m_board EXCEPT ![<<r, c>>] = p]
<1>0. /\ m_player_just_moved' = p
      /\ m_board' = board
      /\ m_no_moves' = m_no_moves + 1
      /\ m_zobrist_hash' = Xor(m_zobrist_hash, {<<p, r, c>>})
      /\ m_winner' = winner(m_board', r, c, m_no_moves + 1, m_winner)
  BY DEF Key
<1> HIDE DEF r, p
<1>1. /\ m_winner = invalid /\ c \in Cols /\ r \in Rows /\ p \in Sides
      /\ <<r, c>> \in Cells /\ <<r, c>> \notin Pieces
      /\ Pieces' = Pieces \cup {<<r, c>>}
      /\ m_board' \in [Cells -> Sides \cup {vacant}]
      /\ m_board'[<<r, c>>] = p
      /\ \A x \in Cells : x # <<r, c>> => m_board'[x] = m_board[x]
      /\ \A a \in Rows : a > r => m_board[<<a, c>>] # vacant
      /\ \A a \in Rows : a < r => m_board[<<a, c>>] = vacant
  BY <1>0, NewPiece DEF r, p
<1> HIDE DEF board
<1> DEFINE found == \/ Horizontal(m_board', r, c) \/ Vertical(m_board', r, c)
                    \/ Diagonal(m_board', r, c) \/ AntiDiagonal(m_board', r, c)
<1>2. m_winner' = IF found THEN p ELSE IF NumRows * NumCols = m_no_moves + 1
                                       THEN vacant ELSE invalid
  BY <1>0, <1>1 DEF winner
<1>3. \A q \in Sides : CompleteOn(m_board', q) <=> q = p /\ found
  <2>1. ASSUME NEW a \in Rows, a < r PROVE m_board'[<<a, c>>] # m_board'[<<r, c>>]
    <3>1. <<a, c>> \in Cells /\ <<a, c>> # <<r, c>>
      BY <2>1, <1>1, CellFacts
    <3> QED
      BY <3>1, <2>1, <1>1, SideFacts
  <2>2. \A q \in Sides : ~ CompleteOn(m_board, q)
    BY <1>1, SideFacts, CompleteFacts DEF CInv, WinnerHasLine
  <2> QED
    <3> DEFINE b == m_board'
    <3> SUFFICES ASSUME NEW q \in Sides PROVE CompleteOn(b, q) <=> q = p /\ found
      OBVIOUS
    <3>1. /\ r \in Rows /\ c \in Cols /\ b[<<r, c>>] = p
          /\ \A a \in Rows : a < r => b[<<a, c>>] # b[<<r, c>>]
          /\ \A x \in Cells : x # <<r, c>> => b[x] = m_board[x]
          /\ ~ CompleteOn(m_board, q)
      BY <2>1, <2>2, <1>1
    <3> HIDE DEF b
    <3>2. CompleteOn(b, q) <=>
               /\ q = b[<<r, c>>]
               /\ \/ Horizontal(b, r, c) \/ Vertical(b, r, c)
                  \/ Diagonal(b, r, c) \/ AntiDiagonal(b, r, c)
      BY <3>1, FoundExactly
    <3> QED
      BY <3>1, <3>2 DEF b
<1> HIDE DEF found
<1>4. CTypeOK'
  BY <1>0, <1>1, <1>2 DEF CInv, CTypeOK
<1>5. Stacked'
  <2> SUFFICES ASSUME NEW x \in Pieces', NEW a \in Rows, a > x[1]
               PROVE  <<a, x[2]>> \in Pieces'
    BY DEF Stacked
  <2>1. CASE x \in Pieces
    BY <2>1, <1>1 DEF CInv, Stacked
  <2>2. CASE x = <<r, c>>
    <3>1. x[1] = r /\ x[2] = c
      BY <2>2
    <3>2. <<a, c>> \in Pieces
      BY <3>1, <1>1, CellFacts DEF Pieces
    <3> QED
      BY <3>1, <3>2, <1>1
  <2> QED
    BY <2>1, <2>2, <1>1
<1>6. Counted'
  <2>1. IsFiniteSet(Pieces)
    <3>1. Pieces \in SUBSET Cells
      BY DEF Pieces
    <3> QED
      BY <3>1, PiecesFinite
  <2>2. Cardinality(Pieces \cup {<<r, c>>}) = Cardinality(Pieces) + 1
    BY <2>1, <1>1, FS_AddElement
  <2> QED
    BY <2>2, <1>0, <1>1 DEF CInv, Counted
<1>7. HashOfBoard'
  <2>1. \A x \in Pieces : m_board'[x] = m_board[x]
    BY <1>1 DEF Pieces
  <2>2. {<<m_board'[x], x[1], x[2]>> : x \in Pieces'}
            = {<<m_board[x], x[1], x[2]>> : x \in Pieces} \cup {<<p, r, c>>}
    <3>1. <<r, c>>[1] = r /\ <<r, c>>[2] = c
      OBVIOUS
    <3> QED
      BY <2>1, <3>1, <1>1
  <2>3. <<p, r, c>> \notin m_zobrist_hash
    <3> SUFFICES ASSUME NEW x \in Pieces, <<p, r, c>> = <<m_board[x], x[1], x[2]>>
                 PROVE  FALSE
      BY DEF CInv, HashOfBoard
    <3>1. x \in Cells /\ r = x[1] /\ c = x[2]
      BY DEF Pieces
    <3>2. x = <<r, c>>
      BY <3>1, CellFacts
    <3> QED
      BY <3>2, <1>1
  <2>4. m_zobrist_hash' = m_zobrist_hash \cup {<<p, r, c>>}
    BY <2>3, <1>0 DEF Xor
  <2> QED
    BY <2>2, <2>4 DEF CInv, HashOfBoard
<1>8. WinnerHasLine'
  <2>1. Pieces' = Cells <=> NumRows * NumCols = m_no_moves + 1
    <3>1. Pieces' = Cells <=> Cardinality(Pieces)' = NumRows * NumCols
      <4>1. Pieces' \in SUBSET Cells
        BY DEF Pieces
      <4> QED
        BY <4>1, PiecesFinite
    <3> QED
      BY <3>1, <1>0, <1>6 DEF Counted
  <2>2. p # vacant /\ p # invalid /\ vacant # invalid /\ vacant \notin Sides /\ invalid \notin Sides
    BY <1>1, SideFacts
  <2>3. \A q \in Sides : m_winner' = q <=> Complete(q)'
    BY <2>2, <1>1, <1>2, <1>3, CompleteFacts
  <2>4. m_winner' = vacant <=> Pieces' = Cells /\ \A q \in Sides : ~ Complete(q)'
    BY <2>1, <2>2, <1>1, <1>2, <1>3, CompleteFacts
  <2> QED
    BY <2>3, <2>4 DEF WinnerHasLine
<1> QED
  BY <1>4, <1>5, <1>6, <1>7, <1>8 DEF CInv

\* An empty board satisfies the invariant.
LEMMA EmptyBoard ==
    ASSUME m_board = [x \in Cells |-> vacant], m_no_moves = 0,
           m_player_just_moved \in Sides, m_winner = invalid, m_zobrist_hash = {}
    PROVE  CInv
<1>1. Pieces = {}
  BY DEF Pieces
<1>2. \A q \in Sides : ~ Complete(q)
  <2> SUFFICES ASSUME NEW q \in Sides, NEW x \in Cells, NEW d \in Directions,
                      Line(x, d) \subseteq Cells, \A y \in Line(x, d) : m_board[y] = q
               PROVE  FALSE
    BY CompleteFacts DEF CompleteOn
  <2>1. <<x[1] + 0 * d[1], x[2] + 0 * d[2]>> \in Line(x, d)
    BY DEF Line
  <2> QED
    BY <2>1, SideFacts
<1>3. Pieces # Cells
  <2>1. 0 \in Rows /\ 0 \in Cols
    BY BoardAssumption DEF Rows, Cols
  <2> QED
    BY <2>1, <1>1, CellFacts
<1>4. CTypeOK
  BY DEF CTypeOK
<1>5. Counted
  BY <1>1, FS_EmptySet DEF Counted
<1>6. WinnerHasLine
  BY <1>2, <1>3, SideFacts DEF WinnerHasLine
<1> QED
  BY <1>1, <1>4, <1>5, <1>6 DEF CInv, Stacked, HashOfBoard

\* The invariant holds throughout every match: a move keeps it, and the next match
\* starts from the empty board.
THEOREM CInvHolds == Spec => []CInv
<1>1. Init => CInv
  BY EmptyBoard DEF Init
<1>2. NextMatch => CInv'
  <2>1. NextMatch => Init'
    BY DEF NextMatch, Init
  <2> QED
    BY <1>1, <2>1, PTL
<1>3. CInv /\ [Next]_vars => CInv'
  <2> SUFFICES ASSUME CInv, [Next]_vars PROVE CInv'
    OBVIOUS
  <2>1. CASE PlayMove
    BY <2>1, PlayKeeps
  <2>2. CASE NextMatch
    BY <2>2, <1>2
  <2>3. CASE UNCHANGED vars
    BY <2>3 DEF vars, CInv, CTypeOK, Stacked, Counted, HashOfBoard, WinnerHasLine,
                Pieces, Complete
  <2> QED
    BY <2>1, <2>2, <2>3 DEF Next
<1> QED
  BY <1>1, <1>3, PTL DEF Spec

-----------------------------------------------------------------------------
(* The theorems about the game.                                            *)

\* winner() is right on every board from 4 by 4: its four local tests with their
\* shortcuts find the winner a search of the whole board would (connect_four.hpp
\* winner()), and a draw is declared exactly on a full board without a line.
THEOREM WinnerHasLineHolds == Spec => []WinnerHasLine
<1>1. CInv => WinnerHasLine
  BY DEF CInv
<1> QED
  BY <1>1, CInvHolds, PTL

\* The hash that move_hash() updates is the hash of the board on every board and
\* after every sequence of moves, so no key is ever XORed in twice.
THEOREM HashOfBoardHolds == Spec => []HashOfBoard
<1>1. CInv => HashOfBoard
  BY DEF CInv
<1> QED
  BY <1>1, CInvHolds, PTL

\* Pieces stack without gaps, m_no_moves counts them, and a match that is not over
\* offers a column, so moves() never leaves the search without a move.
THEOREM PiecesStackedHolds == Spec => []PiecesStacked
<1>1. CInv => PiecesStacked
  BY ColumnFree DEF CInv, Stacked, Counted, PiecesStacked
<1> QED
  BY <1>1, CInvHolds, PTL
=============================================================================
