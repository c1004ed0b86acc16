----------------------------- MODULE OskaProofs -----------------------------
(***************************************************************************)
(* Proofs about Oska for boards of every size S >= 3.                      *)
(*                                                                         *)
(* Everything rests on the ids.  The board has NO_HEXAGONS cells (they are *)
(* counted row by row, UpperSize and Hexagons), so the ids are exactly the *)
(* ranks of the cells in reading order, and since mirroring reverses that  *)
(* order, NO_HEXAGONS - 1 - id is the id of the mirrored cell: at_r() and  *)
(* the human's ids are right.  The inductive invariant Good then says that *)
(* the boards are mirror images with a border around the cells and that    *)
(* the id lists and counters are those of the boards; a move changes one   *)
(* stone, and the captured one, in all of them alike (MovedFields,         *)
(* MovedStones).  The hash, the end of a match, the human's and the random *)
(* moves, the finiteness of play and the refinement of OskaRules are read  *)
(* off the boards from there.                                              *)
(***************************************************************************)
EXTENDS Oska, TLAPS, FiniteSetTheorems, WellFoundedInduction

-----------------------------------------------------------------------------
(* Sides and numbers.                                                      *)

\* A non-empty set of natural numbers has a least element.
LEMMA LeastNumber ==
    ASSUME NEW T \in SUBSET Nat, T # {}
    PROVE  \E k \in T : \A j \in T : k <= j
<1>1. PICK k \in T : \A j \in T : ~ (<<j, k>> \in OpToRel(<, Nat))
  BY NatLessThanWellFounded, WFMin
<1>2. \A j \in T : ~ (j < k)
  BY <1>1 DEF OpToRel
<1> QED
  BY <1>2

\* The two sides are each other's opponents; what else a cell may hold is no
\* side.
LEMMA SideFacts ==
    /\ agent \in Sides /\ human \in Sides /\ agent # human
    /\ opponent(agent) = human /\ opponent(human) = agent
    /\ \A p \in Sides : p = agent \/ p = human
    /\ \A p \in Sides : /\ opponent(p) \in Sides /\ opponent(p) # p
                        /\ opponent(opponent(p)) = p
                        /\ \A q \in Sides : q = p \/ q = opponent(p)
                        /\ occupied(p) /\ p # vacant /\ p # invalid
                        /\ p \in Players
    /\ ~ occupied(vacant) /\ ~ occupied(invalid) /\ vacant # invalid
    /\ vacant \in Players /\ invalid \in Players
<1>1. ASSUME NEW m \in Int, m + 1 = 0, NEW i \in Int, i + 2 = 0
      PROVE  /\ -m = 1 /\ -1 = m /\ m # 1 /\ m # 0 /\ m # i /\ i # 0 /\ i # 1
             /\ m % 2 = 1 /\ 1 % 2 = 1 /\ 0 % 2 = 0 /\ i % 2 = 0
  BY <1>1
<1>2. /\ agent \in Int /\ agent + 1 = 0 /\ invalid \in Int /\ invalid + 2 = 0
      /\ human = 1 /\ vacant = 0
  BY DEF agent, human, vacant, invalid
<1>3. \A p : p \in Sides <=> p = agent \/ p = human
  BY DEF Sides
<1>4. /\ opponent(agent) = human /\ opponent(human) = agent /\ agent # human
      /\ occupied(agent) /\ occupied(human) /\ ~ occupied(vacant) /\ ~ occupied(invalid)
  BY <1>1, <1>2 DEF opponent, occupied
<1>5. /\ agent # vacant /\ agent # invalid /\ human # vacant /\ human # invalid
      /\ vacant # invalid
  BY <1>1, <1>2
<1>6. /\ agent \in Players /\ human \in Players /\ vacant \in Players
      /\ invalid \in Players
  BY DEF Players
<1> QED
  BY <1>3, <1>4, <1>5, <1>6

-----------------------------------------------------------------------------
(* The geometry of the board.                                              *)

\* The dimensions in terms of the size.
LEMMA Dimensions ==
    /\ S \in Nat /\ S >= 3
    /\ OB_COLS = 2 * S + 1 /\ OB_ROWS = 2 * S - 1 /\ OB_HOME_ROW = 2 * S - 3
    /\ OB_ROWS \div 2 = S - 1
    /\ \A r \in Int : FirstColumn(r) = IF r <= S - 1 THEN r ELSE 2 * S - 2 - r
<1>1. S \in Nat /\ S >= 3
  BY SizeAssumption
<1>2. OB_COLS = 2 * S + 1 /\ OB_ROWS = 2 * S - 1 /\ OB_HOME_ROW = 2 * S - 3
  BY <1>1 DEF OB_COLS, OB_ROWS, OB_HOME_ROW
<1>3. (2 * S - 1) \div 2 = S - 1
  BY <1>1
<1>4. \A r \in Int : (2 * S - 1) - 1 - r = 2 * S - 2 - r
  BY <1>1
<1> QED
  BY <1>1, <1>2, <1>3, <1>4 DEF FirstColumn

\* Cells and the matrix, as pairs.
LEMMA CellFacts ==
    /\ \A c, r : <<c, r>> \in Grid <=> c \in 0 .. 2 * S /\ r \in 0 .. 2 * S - 2
    /\ \A l \in Grid : l = <<l[1], l[2]>> /\ l[1] \in 0 .. 2 * S /\ l[2] \in 0 .. 2 * S - 2
    /\ \A c, r \in Int :
          <<c, r>> \in Cells <=>
             LET f == IF r <= S - 1 THEN r ELSE 2 * S - 2 - r
             IN  /\ r \in 1 .. 2 * S - 3
                 /\ c \in f .. 2 * S - f
                 /\ (c - f) % 2 = 0
    /\ Cells \subseteq Grid
    /\ \A c, r \in Int : IsCell(<<c, r>>) <=> <<c, r>> \in Cells
<1>1. /\ \A c, r : <<c, r>> \in Grid <=> c \in 0 .. 2 * S /\ r \in 0 .. 2 * S - 2
      /\ \A l \in Grid : l = <<l[1], l[2]>> /\ l[1] \in 0 .. 2 * S /\ l[2] \in 0 .. 2 * S - 2
  <2>1. OB_COLS - 1 = 2 * S /\ OB_ROWS - 1 = 2 * S - 2
    BY Dimensions
  <2> QED
    BY <2>1 DEF Grid
<1>2. ASSUME NEW c \in Int, NEW r \in Int
      PROVE  /\ <<c, r>> \in Cells <=>
                  LET f == IF r <= S - 1 THEN r ELSE 2 * S - 2 - r
                  IN  /\ r \in 1 .. 2 * S - 3
                      /\ c \in f .. 2 * S - f
                      /\ (c - f) % 2 = 0
             /\ IsCell(<<c, r>>) <=> <<c, r>> \in Cells
  <2> DEFINE f == FirstColumn(r)
  <2>1. f = IF r <= S - 1 THEN r ELSE 2 * S - 2 - r
    BY Dimensions
  <2>2. f \in Int /\ OB_COLS - 1 - f = 2 * S - f /\ OB_ROWS - 2 = 2 * S - 3
    BY <2>1, Dimensions
  <2>3. IsCell(<<c, r>>) <=> r \in 1 .. 2 * S - 3 /\ c \in f .. 2 * S - f /\ (c - f) % 2 = 0
    BY <2>2 DEF IsCell
  <2>4. IsCell(<<c, r>>) => <<c, r>> \in Grid
    <3> SUFFICES ASSUME IsCell(<<c, r>>) PROVE <<c, r>> \in Grid
      OBVIOUS
    <3>1. r \in 1 .. 2 * S - 3 /\ c \in f .. 2 * S - f
      BY <2>3
    <3>2. f >= 0
      BY <3>1, <2>1, Dimensions
    <3>3. c \in 0 .. 2 * S /\ r \in 0 .. 2 * S - 2
      BY <3>1, <3>2, <2>2, Dimensions
    <3> QED
      BY <3>3, <1>1
  <2> QED
    BY <2>1, <2>3, <2>4 DEF Cells
<1>3. Cells \subseteq Grid
  BY DEF Cells
<1> QED
  BY <1>1, <1>2, <1>3

\* Both sides see the same board: a mirrored cell is a cell, and mirroring twice
\* changes nothing.
LEMMA MirrorFacts ==
    /\ \A c, r \in Int : Mirror(<<c, r>>) = <<2 * S - c, 2 * S - 2 - r>>
    /\ \A c, r \in Int : <<2 * S - c, 2 * S - 2 - r>> \in Cells <=> <<c, r>> \in Cells
    /\ \A l \in Grid : Mirror(l) \in Grid /\ Mirror(Mirror(l)) = l
    /\ \A l \in Grid : Mirror(l) \in Cells <=> l \in Cells
    /\ \A l, k \in Grid : Mirror(l) = Mirror(k) => l = k
<1>1. \A c, r \in Int : Mirror(<<c, r>>) = <<2 * S - c, 2 * S - 2 - r>>
  <2>1. OB_COLS - 1 = 2 * S /\ OB_ROWS - 1 = 2 * S - 2
    BY Dimensions
  <2> QED
    BY <2>1 DEF Mirror
<1>2. ASSUME NEW c \in Int, NEW r \in Int
      PROVE  <<2 * S - c, 2 * S - 2 - r>> \in Cells <=> <<c, r>> \in Cells
  <2> DEFINE f == IF r <= S - 1 THEN r ELSE 2 * S - 2 - r
             g == IF 2 * S - 2 - r <= S - 1 THEN 2 * S - 2 - r ELSE 2 * S - 2 - (2 * S - 2 - r)
  <2>1. f = g /\ f \in Int
    BY Dimensions
  <2>2. 2 * S - c \in Int /\ 2 * S - 2 - r \in Int
    BY Dimensions
  <2>3. <<c, r>> \in Cells <=> r \in 1 .. 2 * S - 3 /\ c \in f .. 2 * S - f /\ (c - f) % 2 = 0
    BY CellFacts
  <2>4. <<2 * S - c, 2 * S - 2 - r>> \in Cells <=>
           /\ 2 * S - 2 - r \in 1 .. 2 * S - 3
           /\ 2 * S - c \in g .. 2 * S - g
           /\ (2 * S - c - g) % 2 = 0
    BY <2>2, CellFacts
  <2> HIDE DEF f, g
  <2>5. 2 * S - 2 - r \in 1 .. 2 * S - 3 <=> r \in 1 .. 2 * S - 3
    BY Dimensions
  <2>6. 2 * S - c \in f .. 2 * S - f <=> c \in f .. 2 * S - f
    BY <2>1, Dimensions
  <2>7. (2 * S - c - f) % 2 = 0 <=> (c - f) % 2 = 0
    BY <2>1, Dimensions
  <2> QED
    BY <2>1, <2>3, <2>4, <2>5, <2>6, <2>7
<1>3. ASSUME NEW l \in Grid
      PROVE  /\ Mirror(l) \in Grid /\ Mirror(Mirror(l)) = l
             /\ Mirror(l) \in Cells <=> l \in Cells
  <2>1. /\ l = <<l[1], l[2]>> /\ l[1] \in 0 .. 2 * S /\ l[2] \in 0 .. 2 * S - 2
        /\ l[1] \in Int /\ l[2] \in Int
    BY CellFacts, Dimensions
  <2>2. Mirror(l) = <<2 * S - l[1], 2 * S - 2 - l[2]>>
    BY <1>1, <2>1
  <2>3. /\ 2 * S - l[1] \in 0 .. 2 * S /\ 2 * S - 2 - l[2] \in 0 .. 2 * S - 2
        /\ 2 * S - l[1] \in Int /\ 2 * S - 2 - l[2] \in Int
        /\ 2 * S - (2 * S - l[1]) = l[1] /\ 2 * S - 2 - (2 * S - 2 - l[2]) = l[2]
    BY <2>1, Dimensions
  <2>4. Mirror(Mirror(l)) = l
    BY <1>1, <2>1, <2>2, <2>3
  <2>5. Mirror(l) \in Cells <=> l \in Cells
    BY <1>2, <2>1, <2>2
  <2> QED
    BY <2>2, <2>3, <2>4, <2>5, CellFacts
<1>4. \A l, k \in Grid : Mirror(l) = Mirror(k) => l = k
  BY <1>3
<1> QED
  BY <1>1, <1>2, <1>3, <1>4

-----------------------------------------------------------------------------
(* How many cells there are, and their ids.                                *)

\* The matrix is finite, and so is every set of cells.
LEMMA CellsFinite ==
    /\ IsFiniteSet(Grid)
    /\ \A T \in SUBSET Cells : IsFiniteSet(T) /\ Cardinality(T) \in Nat
<1>1. IsFiniteSet(0 .. OB_COLS - 1) /\ IsFiniteSet(0 .. OB_ROWS - 1)
  <2>1. OB_COLS - 1 \in Int /\ OB_ROWS - 1 \in Int /\ 0 \in Int
    BY Dimensions
  <2> QED
    BY <2>1, FS_Interval
<1>2. IsFiniteSet(Grid)
  BY <1>1, FS_Product DEF Grid
<1>3. ASSUME NEW T \in SUBSET Cells PROVE IsFiniteSet(T) /\ Cardinality(T) \in Nat
  <2>1. T \in SUBSET Grid
    BY CellFacts
  <2>2. IsFiniteSet(T)
    BY <2>1, <1>2, FS_Subset
  <2> QED
    BY <2>2, FS_CardinalityType
<1> QED
  BY <1>2, <1>3

\* A one-to-one image has as many elements.
LEMMA SameSize ==
    ASSUME NEW A, NEW B, IsFiniteSet(A), NEW f \in [A -> B],
           \A x, y \in A : f[x] = f[y] => x = y,
           \A z \in B : \E x \in A : f[x] = z
    PROVE  IsFiniteSet(B) /\ Cardinality(B) = Cardinality(A)
<1>1. f \in Bijection(A, B)
  BY DEF Bijection, Injection, Surjection, IsInjective
<1>2. ExistsBijection(A, B)
  BY <1>1 DEF ExistsBijection
<1> QED
  BY <1>2, FS_Bijection

Row(r)  == {l \in Cells : l[2] = r}
UpTo(r) == {l \in Cells : l[2] <= r}

\* Down to the middle every row has one cell less than the one above it.
LEMMA RowSize ==
    ASSUME NEW r \in 1 .. S - 1
    PROVE  Cardinality(Row(r)) = S - r + 1
<1> DEFINE A == 0 .. S - r
           f == [i \in A |-> <<r + 2 * i, r>>]
<1>0. S \in Nat /\ r \in Int
  BY Dimensions
<1>1. IsFiniteSet(A) /\ Cardinality(A) = S - r + 1
  <2>1. 0 \in Int /\ S - r \in Int /\ ~ (0 > S - r) /\ S - r - 0 + 1 = S - r + 1
    BY <1>0
  <2> QED
    BY <2>1, FS_Interval
<1>2. \A c \in Int : <<c, r>> \in Cells <=> c \in r .. 2 * S - r /\ (c - r) % 2 = 0
  <2>1. r <= S - 1 /\ r \in 1 .. 2 * S - 3
    BY Dimensions
  <2> QED
    BY <2>1, <1>0, CellFacts
<1>3. f \in [A -> Row(r)]
  <2> SUFFICES ASSUME NEW i \in A PROVE <<r + 2 * i, r>> \in Row(r)
    OBVIOUS
  <2>1. r + 2 * i \in r .. 2 * S - r /\ (r + 2 * i - r) % 2 = 0 /\ r + 2 * i \in Int
    BY <1>0
  <2> QED
    BY <2>1, <1>2 DEF Row
<1>4. \A i, j \in A : f[i] = f[j] => i = j
  <2> SUFFICES ASSUME NEW i \in A, NEW j \in A, f[i] = f[j] PROVE i = j
    OBVIOUS
  <2>1. r + 2 * i = r + 2 * j
    OBVIOUS
  <2> QED
    BY <2>1, <1>0
<1>5. ASSUME NEW l \in Row(r) PROVE \E i \in A : f[i] = l
  <2>1. l \in Cells /\ l \in Grid /\ l[2] = r /\ l = <<l[1], r>> /\ l[1] \in Int
    BY CellFacts, Dimensions DEF Row
  <2>2. l[1] \in r .. 2 * S - r /\ (l[1] - r) % 2 = 0
    BY <2>1, <1>2
  <2>3. \E i \in A : l[1] = r + 2 * i
    <3>1. l[1] = r + 2 * ((l[1] - r) \div 2)
      BY <2>2, <1>0
    <3>2. (l[1] - r) \div 2 \in A
      BY <2>2, <1>0
    <3> QED
      BY <3>1, <3>2
  <2> QED
    BY <2>1, <2>3
<1> HIDE DEF A, f
<1> QED
  BY <1>1, <1>3, <1>4, <1>5, SameSize

\* The cells of the first rows.
LEMMA UpperSize ==
    ASSUME NEW r \in 0 .. S - 1
    PROVE  2 * Cardinality(UpTo(r)) = r * (2 * S + 1 - r)
<1> DEFINE P(k) == 2 * Cardinality(UpTo(k)) = k * (2 * S + 1 - k)
           T == {k \in 0 .. S - 1 : ~ P(k)}
<1>0. S \in Nat /\ S >= 3
  BY Dimensions
<1>1. SUFFICES ASSUME T # {} PROVE FALSE
  OBVIOUS
<1>2. PICK k \in T : \A j \in T : k <= j
  <2>1. T \in SUBSET Nat
    BY <1>0
  <2> QED
    BY <2>1, <1>1, LeastNumber
<1>3. CASE k = 0
  <2>1. UpTo(0) = {}
    <3> SUFFICES ASSUME NEW l \in Cells, l[2] <= 0 PROVE FALSE
      BY DEF UpTo
    <3>1. l = <<l[1], l[2]>> /\ l[1] \in Int /\ l[2] \in Int
      BY CellFacts, Dimensions
    <3>2. l[2] \in 1 .. 2 * S - 3
      BY <3>1, CellFacts
    <3> QED
      BY <3>1, <3>2
  <2>2. Cardinality(UpTo(0)) = 0
    BY <2>1, FS_EmptySet
  <2>3. P(0)
    BY <2>2, <1>0
  <2> QED
    BY <2>3, <1>3, <1>2
<1>4. CASE k # 0
  <2>1. k \in 1 .. S - 1 /\ k - 1 \in 0 .. S - 1 /\ ~ (k <= k - 1)
    BY <1>2, <1>4, <1>0
  <2>2. P(k - 1)
    BY <2>1, <1>2
  <2>3. UpTo(k) = UpTo(k - 1) \cup Row(k) /\ UpTo(k - 1) \cap Row(k) = {}
    <3>1. \A l \in Cells : l[2] \in Int
      BY CellFacts, Dimensions
    <3>2. \A x \in Int : (x <= k <=> x <= k - 1 \/ x = k) /\ ~ (x <= k - 1 /\ x = k)
      BY <2>1
    <3> QED
      BY <3>1, <3>2 DEF UpTo, Row
  <2>4. /\ IsFiniteSet(UpTo(k - 1)) /\ IsFiniteSet(Row(k))
        /\ Cardinality(UpTo(k - 1)) \in Nat
    BY CellsFinite DEF UpTo, Row
  <2>5. Cardinality(UpTo(k)) = Cardinality(UpTo(k - 1)) + (S - k + 1)
    <3>1. Cardinality({}) = 0
      BY FS_EmptySet
    <3>2. Cardinality(UpTo(k)) =
             Cardinality(UpTo(k - 1)) + Cardinality(Row(k)) - Cardinality({})
      BY <2>3, <2>4, FS_Union
    <3>3. Cardinality(Row(k)) = S - k + 1
      BY <2>1, RowSize
    <3> QED
      BY <3>1, <3>2, <3>3, <2>4, <2>1, <1>0
  <2>6. P(k)
    <3>1. ASSUME NEW n \in Nat, 2 * n = (k - 1) * (2 * S + 1 - (k - 1))
          PROVE  2 * (n + (S - k + 1)) = k * (2 * S + 1 - k)
      <4>1. (k - 1) * (2 * S + 1 - (k - 1)) + 2 * (S - k + 1) = k * (2 * S + 1 - k)
        BY <2>1, <1>0
      <4> QED
        BY <3>1, <4>1, <2>1, <1>0
    <3> QED
      BY <3>1, <2>2, <2>4, <2>5
  <2> QED
    BY <2>6, <1>2
<1> QED
  BY <1>3, <1>4

\* NO_HEXAGONS is the number of cells: the rows below the middle mirror those
\* above it.
LEMMA Hexagons ==
    /\ NO_HEXAGONS \in Nat
    /\ Cardinality(Cells) = NO_HEXAGONS
<1> DEFINE Lower == Cells \ UpTo(S - 1)
           f == [l \in UpTo(S - 2) |-> Mirror(l)]
<1>0. S \in Nat /\ S >= 3
  BY Dimensions
<1>1. /\ IsFiniteSet(UpTo(S - 2)) /\ Cardinality(UpTo(S - 2)) \in Nat
      /\ IsFiniteSet(UpTo(S - 1)) /\ Cardinality(UpTo(S - 1)) \in Nat
      /\ IsFiniteSet(Lower)
  BY CellsFinite DEF UpTo
<1>2. ASSUME NEW l \in Cells
      PROVE  /\ l \in Grid /\ Mirror(l) \in Cells /\ Mirror(Mirror(l)) = l
             /\ Mirror(l) \in Lower <=> l \in UpTo(S - 2)
  <2>1. /\ l \in Grid /\ Mirror(l) \in Cells /\ Mirror(Mirror(l)) = l
    BY CellFacts, MirrorFacts
  <2>2. l = <<l[1], l[2]>> /\ l[1] \in Int /\ l[2] \in Int
    BY <2>1, CellFacts, Dimensions
  <2>3. Mirror(l)[2] = 2 * S - 2 - l[2]
    BY <2>2, MirrorFacts
  <2>4. ~ (2 * S - 2 - l[2] <= S - 1) <=> l[2] <= S - 2
    BY <2>2, <1>0
  <2> QED
    BY <2>1, <2>3, <2>4 DEF UpTo
<1>3. f \in [UpTo(S - 2) -> Lower]
  BY <1>2 DEF UpTo
<1>4. \A x, y \in UpTo(S - 2) : f[x] = f[y] => x = y
  BY <1>2 DEF UpTo
<1>5. \A z \in Lower : \E x \in UpTo(S - 2) : f[x] = z
  <2> SUFFICES ASSUME NEW z \in Lower PROVE Mirror(z) \in UpTo(S - 2) /\ Mirror(Mirror(z)) = z
    OBVIOUS
  <2>1. z \in Cells /\ Mirror(z) \in Cells /\ Mirror(Mirror(z)) = z
    BY <1>2
  <2>2. Mirror(Mirror(z)) \in Lower <=> Mirror(z) \in UpTo(S - 2)
    BY <2>1, <1>2
  <2> QED
    BY <2>1, <2>2
<1>6. Cardinality(Lower) = Cardinality(UpTo(S - 2))
  <2> HIDE DEF f, Lower
  <2> QED
    BY <1>1, <1>3, <1>4, <1>5, SameSize
<1>7. Cardinality(Cells) = Cardinality(UpTo(S - 1)) + Cardinality(UpTo(S - 2))
  <2>1. Cells = UpTo(S - 1) \cup Lower /\ UpTo(S - 1) \cap Lower = {}
    BY DEF UpTo
  <2>2. Cardinality({}) = 0
    BY FS_EmptySet
  <2> HIDE DEF Lower
  <2>3. Cardinality(Cells) = Cardinality(UpTo(S - 1)) + Cardinality(Lower) - Cardinality({})
    BY <2>1, <1>1, FS_Union
  <2> QED
    BY <2>2, <2>3, <1>1, <1>6
<1>8. /\ 2 * Cardinality(UpTo(S - 1)) = (S - 1) * (2 * S + 1 - (S - 1))
      /\ 2 * Cardinality(UpTo(S - 2)) = (S - 2) * (2 * S + 1 - (S - 2))
  <2>1. S - 1 \in 0 .. S - 1 /\ S - 2 \in 0 .. S - 1
    BY <1>0
  <2> QED
    BY <2>1, UpperSize
<1>9. ASSUME NEW m \in Nat, NEW n \in Nat,
             2 * m = (S - 1) * (2 * S + 1 - (S - 1)), 2 * n = (S - 2) * (2 * S + 1 - (S - 2))
      PROVE  m + n = S * (S + 1) - 4
  <2>1. (S - 1) * (2 * S + 1 - (S - 1)) + (S - 2) * (2 * S + 1 - (S - 2))
           = 2 * (S * (S + 1) - 4)
    BY <1>0
  <2> QED
    BY <1>9, <2>1, <1>0
<1> QED
  BY <1>1, <1>7, <1>8, <1>9 DEF NO_HEXAGONS

\* Cell k comes before cell l in the numbering.
Earlier(k, l) == k[2] < l[2] \/ (k[2] = l[2] /\ k[1] < l[1])

\* Cells are numbered along a strict total order, which mirroring reverses.
LEMMA EarlierFacts ==
    /\ \A l \in Cells : l \in Grid /\ l[1] \in Int /\ l[2] \in Int
    /\ \A k, l \in Cells : k # l => Earlier(k, l) \/ Earlier(l, k)
    /\ \A k, l \in Cells : ~ (Earlier(k, l) /\ Earlier(l, k))
    /\ \A l \in Cells : ~ Earlier(l, l)
    /\ \A j, k, l \in Cells : Earlier(j, k) /\ Earlier(k, l) => Earlier(j, l)
    /\ \A k, l \in Cells : Earlier(Mirror(k), Mirror(l)) <=> Earlier(l, k)
<1>1. \A l \in Cells : /\ l \in Grid /\ l[1] \in Int /\ l[2] \in Int
                       /\ l = <<l[1], l[2]>>
  BY CellFacts, Dimensions
<1>2. \A k, l \in Cells : k # l => k[1] # l[1] \/ k[2] # l[2]
  BY <1>1
<1>3. ASSUME NEW k \in Cells, NEW l \in Cells
      PROVE  Earlier(Mirror(k), Mirror(l)) <=> Earlier(l, k)
  <2>1. /\ Mirror(k)[1] = 2 * S - k[1] /\ Mirror(k)[2] = 2 * S - 2 - k[2]
        /\ Mirror(l)[1] = 2 * S - l[1] /\ Mirror(l)[2] = 2 * S - 2 - l[2]
    BY <1>1, MirrorFacts
  <2> QED
    BY <2>1, <1>1, Dimensions DEF Earlier
<1> QED
  BY <1>1, <1>2, <1>3 DEF Earlier

Before(l) == {k \in Cells : Earlier(k, l)}
After(l)  == {k \in Cells : Earlier(l, k)}

\* Cells have different ids below NO_HEXAGONS, and mirroring reverses their order.
LEMMA IdFacts ==
    /\ \A l \in Cells : IdOf[l] \in Ids
    /\ \A k, l \in Cells : IdOf[k] = IdOf[l] => k = l
    /\ \A l \in Cells : IdOf[Mirror(l)] = NO_HEXAGONS - 1 - IdOf[l]
<1>1. \A l \in Cells : IdOf[l] = Cardinality(Before(l))
  BY CellFacts DEF IdOf, Before, Earlier
<1>2. \A l \in Cells : /\ IsFiniteSet(Before(l)) /\ Cardinality(Before(l)) \in Nat
                       /\ IsFiniteSet(After(l)) /\ Cardinality(After(l)) \in Nat
  BY CellsFinite DEF Before, After
<1>3. ASSUME NEW l \in Cells
      PROVE  Cardinality(Before(l)) + Cardinality(After(l)) = NO_HEXAGONS - 1
  <2>1. Before(l) \cup After(l) = Cells \ {l} /\ Before(l) \cap After(l) = {}
    BY EarlierFacts DEF Before, After
  <2>2. Cardinality(Cells \ {l}) = NO_HEXAGONS - 1
    BY CellsFinite, Hexagons, FS_RemoveElement
  <2>3. Cardinality({}) = 0
    BY FS_EmptySet
  <2>4. Cardinality(Before(l) \cup After(l)) =
           Cardinality(Before(l)) + Cardinality(After(l)) - Cardinality({})
    BY <1>2, <2>1, FS_Union
  <2>5. Cardinality(Before(l)) \in Nat /\ Cardinality(After(l)) \in Nat
    BY <1>2
  <2>6. Cardinality(Before(l) \cup After(l)) = NO_HEXAGONS - 1
    BY <2>1, <2>2
  <2> QED
    BY <2>3, <2>4, <2>5, <2>6
<1>4. ASSUME NEW k \in Cells, NEW l \in Cells, Earlier(k, l)
      PROVE  Cardinality(Before(k)) < Cardinality(Before(l))
  <2>1. Before(k) \cup {k} \in SUBSET Before(l) /\ k \notin Before(k)
    BY <1>4, EarlierFacts DEF Before
  <2>2. Cardinality(Before(k) \cup {k}) = Cardinality(Before(k)) + 1
    BY <2>1, <1>2, FS_AddElement
  <2>3. Cardinality(Before(k) \cup {k}) <= Cardinality(Before(l))
    BY <2>1, <1>2, FS_Subset
  <2>4. Cardinality(Before(k)) \in Nat /\ Cardinality(Before(l)) \in Nat
    BY <1>2
  <2> QED
    BY <2>2, <2>3, <2>4
<1>5. ASSUME NEW l \in Cells
      PROVE  Cardinality(Before(Mirror(l))) = Cardinality(After(l))
  <2> DEFINE f == [k \in After(l) |-> Mirror(k)]
  <2>1. \A k \in Cells : Mirror(k) \in Cells /\ Mirror(Mirror(k)) = k
    BY MirrorFacts, CellFacts
  <2>2. f \in [After(l) -> Before(Mirror(l))]
    BY <2>1, EarlierFacts DEF After, Before
  <2>3. \A x, y \in After(l) : f[x] = f[y] => x = y
    BY <2>1 DEF After
  <2>4. ASSUME NEW z \in Before(Mirror(l)) PROVE \E x \in After(l) : f[x] = z
    <3>1. z \in Cells /\ Mirror(z) \in Cells /\ z = Mirror(Mirror(z))
      BY <2>1 DEF Before
    <3>2. Earlier(Mirror(Mirror(z)), Mirror(l))
      BY <3>1 DEF Before
    <3>3. Earlier(l, Mirror(z))
      BY <3>1, <3>2, EarlierFacts
    <3> QED
      BY <3>1, <3>3 DEF After
  <2> HIDE DEF f
  <2> QED
    BY <1>2, <2>2, <2>3, <2>4, SameSize
<1>6. \A l \in Cells : IdOf[l] \in Ids
  <2> SUFFICES ASSUME NEW l \in Cells PROVE IdOf[l] \in Ids
    OBVIOUS
  <2> QED
    BY <1>1, <1>2, <1>3, Hexagons DEF Ids
<1>7. \A k, l \in Cells : IdOf[k] = IdOf[l] => k = l
  <2> SUFFICES ASSUME NEW k \in Cells, NEW l \in Cells, IdOf[k] = IdOf[l], k # l PROVE FALSE
    OBVIOUS
  <2>1. Earlier(k, l) \/ Earlier(l, k)
    BY EarlierFacts
  <2> QED
    BY <2>1, <1>1, <1>2, <1>4
<1>8. \A l \in Cells : IdOf[Mirror(l)] = NO_HEXAGONS - 1 - IdOf[l]
  <2> SUFFICES ASSUME NEW l \in Cells PROVE IdOf[Mirror(l)] = NO_HEXAGONS - 1 - IdOf[l]
    OBVIOUS
  <2>1. Mirror(l) \in Cells
    BY MirrorFacts, CellFacts
  <2> QED
    BY <2>1, <1>1, <1>2, <1>3, <1>5, Hexagons
<1> QED
  BY <1>6, <1>7, <1>8

\* Ids and locations are inverse to each other for both sides, and both sides
\* name a cell by the same id.
LEMMA LocFacts ==
    /\ \A l \in Cells : LocationOf[IdOf[l]] = l
    /\ \A p \in Sides : \A l \in Cells :
          /\ Id(p, l) \in Ids
          /\ Loc(p, Id(p, l)) = l
          /\ Id(opponent(p), Mirror(l)) = Id(p, l)
    /\ \A p \in Sides : \A k, l \in Cells : Id(p, k) = Id(p, l) => k = l
<1>1. \A l \in Cells : LocationOf[IdOf[l]] = l
  <2> SUFFICES ASSUME NEW l \in Cells PROVE LocationOf[IdOf[l]] = l
    OBVIOUS
  <2>1. IdOf[l] \in Ids
    BY IdFacts
  <2>2. LocationOf[IdOf[l]] = CHOOSE k \in Cells : IdOf[k] = IdOf[l]
    BY <2>1 DEF LocationOf, Ids
  <2>3. \A k \in Cells : IdOf[k] = IdOf[l] => k = l
    BY IdFacts
  <2> QED
    BY <2>2, <2>3
<1>2. \A l \in Cells : Mirror(l) \in Cells /\ Mirror(Mirror(l)) = l
  BY MirrorFacts, CellFacts
<1>3. ASSUME NEW p \in Sides, NEW l \in Cells
      PROVE  /\ Id(p, l) \in Ids
             /\ Loc(p, Id(p, l)) = l
             /\ Id(opponent(p), Mirror(l)) = Id(p, l)
  <2>1. CASE p = agent
    BY <2>1, <1>1, <1>2, IdFacts, SideFacts DEF Id, Loc
  <2>2. CASE p = human
    <3>1. Id(p, l) = IdOf[Mirror(l)] /\ human # agent
      BY <2>2, SideFacts DEF Id
    <3>2. IdOf[Mirror(l)] \in Ids /\ NO_HEXAGONS - 1 - IdOf[Mirror(l)] = IdOf[l]
      <4>1. IdOf[Mirror(l)] \in Ids /\ IdOf[Mirror(Mirror(l))] = NO_HEXAGONS - 1 - IdOf[Mirror(l)]
        BY <1>2, IdFacts
      <4> QED
        BY <4>1, <1>2
    <3>3. Loc(p, Id(p, l)) = LocationOf[IdOf[l]]
      BY <3>1, <3>2, <2>2 DEF Loc
    <3>4. Id(opponent(p), Mirror(l)) = IdOf[Mirror(l)]
      BY <2>2, SideFacts DEF Id
    <3> QED
      BY <3>1, <3>2, <3>3, <3>4, <1>1
  <2> QED
    BY <2>1, <2>2, SideFacts
<1>4. \A p \in Sides : \A k, l \in Cells : Id(p, k) = Id(p, l) => k = l
  BY <1>3
<1> QED
  BY <1>1, <1>3, <1>4

-----------------------------------------------------------------------------
(* The State.                                                              *)

StateType(st) ==
    st \in [m_board          : [Sides -> [Grid -> Players]],
            m_stone_id       : [Sides -> SUBSET Ids],
            m_no_home        : [Sides -> Nat],
            m_player_to_move : Sides,
            m_winner         : Players,
            m_zobrist_hash   : SUBSET ({0, 1} \X Cells)]

\* ViewsAgree, and the border around the board.
Views(st) ==
    /\ \A l \in Grid : st.m_board[agent][l] = invalid <=> l \notin Cells
    /\ \A l \in Grid : st.m_board[human][l] = st.m_board[agent][Mirror(l)]
    /\ \A p \in Sides :
          /\ st.m_stone_id[p] = {Id(p, l) : l \in OwnCells(st, p)}
          /\ st.m_no_home[p] =
                Cardinality({l \in OwnCells(st, p) : l[2] = OB_HOME_ROW})

Good(st) == StateType(st) /\ Views(st)

\* Either side's board has the border and is the mirror image of the other's.
LEMMA BoardFacts ==
    ASSUME NEW st, Good(st), NEW p \in Sides
    PROVE  /\ st.m_board[p] \in [Grid -> Players]
           /\ \A l \in Grid : st.m_board[p][l] = invalid <=> l \notin Cells
           /\ \A l \in Grid : st.m_board[opponent(p)][Mirror(l)] = st.m_board[p][l]
           /\ \A l \in Grid : st.m_board[opponent(p)][l] = st.m_board[p][Mirror(l)]
<1>1. /\ st.m_board[agent] \in [Grid -> Players] /\ st.m_board[human] \in [Grid -> Players]
  BY SideFacts DEF Good, StateType
<1>2. /\ \A l \in Grid : st.m_board[agent][l] = invalid <=> l \notin Cells
      /\ \A l \in Grid : st.m_board[human][l] = st.m_board[agent][Mirror(l)]
  BY DEF Good, Views
<1>3. /\ \A l \in Grid : Mirror(l) \in Grid /\ Mirror(Mirror(l)) = l
      /\ \A l \in Grid : Mirror(l) \in Cells <=> l \in Cells
  BY MirrorFacts
<1>4. p = agent \/ p = human
  BY SideFacts
<1>5. opponent(agent) = human /\ opponent(human) = agent
  BY SideFacts
<1> QED
  BY <1>1, <1>2, <1>3, <1>4, <1>5

One(l, dc) == <<l[1] + dc, l[2] + 1>>
Two(l, dc) == <<l[1] + 2 * dc, l[2] + 2>>

\* The cells one and two steps ahead of a cell are in the matrix as far as they
\* are looked at, and a jump captures what lies between.
LEMMA AheadFacts ==
    ASSUME NEW l \in Cells, NEW dc \in {1, -1}
    PROVE  /\ One(l, dc) \in Grid
           /\ One(l, dc) \in Cells => Two(l, dc) \in Grid
           /\ ~ isCapture(<<l, One(l, dc)>>) /\ isCapture(<<l, Two(l, dc)>>)
           /\ captured(<<l, Two(l, dc)>>) = One(l, dc)
           /\ One(l, dc)[2] = l[2] + 1 /\ Two(l, dc)[2] = l[2] + 2
           /\ l[2] \in 1 .. 2 * S - 3 /\ l[1] \in Int
           /\ One(l, dc)[1] = l[1] + dc /\ Two(l, dc)[1] = l[1] + 2 * dc
<1>0. S \in Nat /\ S >= 3
  BY Dimensions
<1>1. l = <<l[1], l[2]>> /\ l[1] \in Int /\ l[2] \in Int
  BY CellFacts, <1>0
<1>2. PICK f \in Int : /\ f = IF l[2] <= S - 1 THEN l[2] ELSE 2 * S - 2 - l[2]
                       /\ l[2] \in 1 .. 2 * S - 3 /\ l[1] \in f .. 2 * S - f
  BY <1>0, <1>1, CellFacts
<1>3. l[1] + dc \in Int /\ l[2] + 1 \in Int /\ dc \in Int
  BY <1>1
<1>4. l[1] + dc \in 0 .. 2 * S /\ l[2] + 1 \in 0 .. 2 * S - 2
  BY <1>0, <1>1, <1>2
<1>5. One(l, dc) \in Grid
  BY <1>4, CellFacts DEF One
<1>6. ASSUME One(l, dc) \in Cells PROVE Two(l, dc) \in Grid
  <2>1. PICK g \in Int : /\ g = IF l[2] + 1 <= S - 1 THEN l[2] + 1 ELSE 2 * S - 2 - (l[2] + 1)
                         /\ l[2] + 1 \in 1 .. 2 * S - 3 /\ l[1] + dc \in g .. 2 * S - g
    BY <1>0, <1>3, <1>6, CellFacts DEF One
  <2>2. l[1] + 2 * dc \in 0 .. 2 * S /\ l[2] + 2 \in 0 .. 2 * S - 2
    <3>1. CASE dc = 1
      BY <3>1, <1>0, <1>1, <1>2, <2>1
    <3>2. CASE dc = -1
      BY <3>2, <1>0, <1>1, <1>2, <2>1
    <3> QED
      BY <3>1, <3>2
  <2> QED
    BY <2>2, CellFacts DEF Two
<1>7. ~ isCapture(<<l, One(l, dc)>>) /\ isCapture(<<l, Two(l, dc)>>)
  BY <1>1 DEF isCapture, One, Two
<1>8. captured(<<l, Two(l, dc)>>) = One(l, dc)
  <2>1. /\ (l[1] + (l[1] + 2 * dc)) \div 2 = l[1] + dc
        /\ (l[2] + (l[2] + 2)) \div 2 = l[2] + 1
    BY <1>1, <1>3
  <2> QED
    BY <2>1 DEF captured, One, Two
<1> QED
  BY <1>1, <1>2, <1>5, <1>6, <1>7, <1>8 DEF One, Two

StepMove(b, l, dc, m) ==
    /\ One(l, dc) \in Cells /\ b[One(l, dc)] = vacant
    /\ m = <<l, One(l, dc)>>
JumpMove(b, p, l, dc, m) ==
    /\ One(l, dc) \in Cells /\ b[One(l, dc)] = opponent(p)
    /\ Two(l, dc) \in Cells /\ b[Two(l, dc)] = vacant
    /\ m = <<l, Two(l, dc)>>

\* The moves of a side, by the stones on its board.
LEMMA MovesAre ==
    ASSUME NEW st, Good(st), NEW p \in Sides
    PROVE  /\ \A l \in OwnCells(st, p), dc \in {1, -1} : \A m :
                 m \in ForwardMove(st.m_board[p], l, dc) <=>
                    \/ StepMove(st.m_board[p], l, dc, m)
                    \/ JumpMove(st.m_board[p], p, l, dc, m)
           /\ \A m : m \in SideMoves(st, p) <=>
                 \E l \in OwnCells(st, p), dc \in {1, -1} :
                    \/ StepMove(st.m_board[p], l, dc, m)
                    \/ JumpMove(st.m_board[p], p, l, dc, m)
<1> DEFINE b == st.m_board[p]
<1>1. /\ b \in [Grid -> Players]
      /\ \A l \in Grid : b[l] = invalid <=> l \notin Cells
  BY BoardFacts
<1>2. /\ opponent(p) # invalid /\ vacant # invalid /\ opponent(p) # vacant
  BY SideFacts
<1>3. ASSUME NEW l \in OwnCells(st, p), NEW dc \in {1, -1}, NEW m
      PROVE  m \in ForwardMove(b, l, dc) <=> StepMove(b, l, dc, m) \/ JumpMove(b, p, l, dc, m)
  <2>1. l \in Cells /\ b[l] = p
    BY DEF OwnCells
  <2>2. One(l, dc) \in Grid /\ (One(l, dc) \in Cells => Two(l, dc) \in Grid)
    BY <2>1, AheadFacts
  <2>3. ForwardMove(b, l, dc) =
          CASE b[One(l, dc)] = vacant -> {<<l, One(l, dc)>>}
            [] b[One(l, dc)] = opponent(p) /\ b[Two(l, dc)] = vacant -> {<<l, Two(l, dc)>>}
            [] OTHER -> {}
    BY <2>1 DEF ForwardMove, One, Two
  <2> HIDE DEF b
  <2>4. CASE b[One(l, dc)] = vacant
    <3>1. ForwardMove(b, l, dc) = {<<l, One(l, dc)>>}
      BY <2>3, <2>4, <1>2
    <3> QED
      BY <3>1, <2>2, <2>4, <1>1, <1>2 DEF StepMove, JumpMove
  <2>5. CASE b[One(l, dc)] = opponent(p) /\ b[Two(l, dc)] = vacant
    <3>1. ForwardMove(b, l, dc) = {<<l, Two(l, dc)>>}
      BY <2>3, <2>5, <1>2
    <3>2. One(l, dc) \in Cells
      BY <2>2, <2>5, <1>1, <1>2
    <3>3. Two(l, dc) \in Cells
      BY <3>2, <2>2, <2>5, <1>1, <1>2
    <3> QED
      BY <3>1, <3>2, <3>3, <2>5, <1>2 DEF StepMove, JumpMove
  <2>6. CASE b[One(l, dc)] # vacant /\ ~ (b[One(l, dc)] = opponent(p) /\ b[Two(l, dc)] = vacant)
    <3>1. ForwardMove(b, l, dc) = {}
      BY <2>3, <2>6
    <3> QED
      BY <3>1, <2>6 DEF StepMove, JumpMove
  <2> QED
    BY <2>4, <2>5, <2>6
<1>4. ASSUME NEW m
      PROVE  m \in SideMoves(st, p) <=>
                \E l \in OwnCells(st, p), dc \in {1, -1} : m \in ForwardMove(b, l, dc)
  <2>1. m \in SideMoves(st, p) <=>
           \E s \in st.m_stone_id[p], dc \in {1, -1} : m \in ForwardMove(b, Loc(p, s), dc)
    BY DEF SideMoves
  <2>2. st.m_stone_id[p] = {Id(p, l) : l \in OwnCells(st, p)}
    BY DEF Good, Views
  <2>3. \A l \in OwnCells(st, p) : Loc(p, Id(p, l)) = l
    BY LocFacts DEF OwnCells
  <2> QED
    BY <2>1, <2>2, <2>3
<1> QED
  BY <1>3, <1>4

\* What is used of a move: where it starts and ends and what it captures.
MoveShape(st, p, m) ==
    /\ m = <<m[1], m[2]>>
    /\ m[1] \in Cells /\ st.m_board[p][m[1]] = p
    /\ m[2] \in Cells /\ st.m_board[p][m[2]] = vacant
    /\ ~ isCapture(m) => m[2][2] = m[1][2] + 1
    /\ isCapture(m) =>
          /\ m[2][2] = m[1][2] + 2
          /\ captured(m) \in Cells /\ st.m_board[p][captured(m)] = opponent(p)
          /\ captured(m)[2] = m[1][2] + 1

\* Every move that is listed has this shape.
LEMMA MovesHaveShape ==
    ASSUME NEW st, Good(st), NEW p \in Sides, NEW m \in SideMoves(st, p)
    PROVE  MoveShape(st, p, m)
<1> DEFINE b == st.m_board[p]
<1>1. PICK l \in OwnCells(st, p), dc \in {1, -1} :
         StepMove(b, l, dc, m) \/ JumpMove(b, p, l, dc, m)
  BY MovesAre
<1>2. l \in Cells /\ b[l] = p
  BY DEF OwnCells
<1>3. /\ ~ isCapture(<<l, One(l, dc)>>) /\ isCapture(<<l, Two(l, dc)>>)
      /\ captured(<<l, Two(l, dc)>>) = One(l, dc)
      /\ One(l, dc)[2] = l[2] + 1 /\ Two(l, dc)[2] = l[2] + 2
  BY <1>2, AheadFacts
<1> HIDE DEF b
<1>4. CASE StepMove(b, l, dc, m)
  <2>1. m = <<l, One(l, dc)>> /\ m[1] = l /\ m[2] = One(l, dc)
    BY <1>4 DEF StepMove
  <2> QED
    BY <2>1, <1>4, <1>2, <1>3 DEF StepMove, MoveShape, b
<1>5. CASE JumpMove(b, p, l, dc, m)
  <2>1. m = <<l, Two(l, dc)>> /\ m[1] = l /\ m[2] = Two(l, dc)
    BY <1>5 DEF JumpMove
  <2> QED
    BY <2>1, <1>5, <1>2, <1>3 DEF JumpMove, MoveShape, b
<1> QED
  BY <1>1, <1>4, <1>5

-----------------------------------------------------------------------------
(* moveStone() and captureStone().                                         *)

\* The boards bb are the boards b with x where side p sees l.
IsPut(b, bb, p, l, x) ==
    /\ bb \in [Sides -> [Grid -> Players]]
    /\ \A k \in Grid : bb[p][k] = IF k = l THEN x ELSE b[p][k]
    /\ \A k \in Grid : bb[opponent(p)][k] =
                           IF k = Mirror(l) THEN x ELSE b[opponent(p)][k]

\* Put() changes both boards in the same cell.
LEMMA PutFacts ==
    ASSUME NEW st, st.m_board \in [Sides -> [Grid -> Players]],
           NEW p \in Sides, NEW l \in Grid, NEW x \in Players
    PROVE  IsPut(st.m_board, Put(st, p, l, x), p, l, x)
<1>1. Mirror(l) \in Grid
  BY MirrorFacts
<1>2. opponent(p) \in Sides /\ opponent(p) # p
  BY SideFacts
<1> QED
  BY <1>1, <1>2 DEF Put, IsPut

Prey(m) == IF isCapture(m) THEN {captured(m)} ELSE {}

\* The boards and lists after a move.
LEMMA MovedFields ==
    ASSUME NEW st, Good(st), NEW p, p = st.m_player_to_move, NEW m, MoveShape(st, p, m)
    PROVE  LET st2 == moved(st, m)
               q   == opponent(p)
           IN  /\ StateType(st2)
               /\ \A k \in Grid : st2.m_board[p][k] =
                     IF k = m[2] THEN p
                     ELSE IF k = m[1] \/ k \in Prey(m) THEN vacant ELSE st.m_board[p][k]
               /\ \A k \in Grid : st2.m_board[q][k] = st2.m_board[p][Mirror(k)]
               /\ st2.m_stone_id[p] = (st.m_stone_id[p] \ {Id(p, m[1])}) \cup {Id(p, m[2])}
               /\ st2.m_stone_id[q] = st.m_stone_id[q] \ {Id(p, l) : l \in Prey(m)}
               /\ st2.m_no_home[p] = st.m_no_home[p] + NewHome(m)
               /\ st2.m_no_home[q] = st.m_no_home[q]
               /\ st2.m_player_to_move = p
               /\ st2.m_winner = st.m_winner
               /\ st2.m_zobrist_hash = st.m_zobrist_hash
<1> DEFINE q == opponent(p)
           lifted == [st EXCEPT !.m_board = Put(st, p, m[1], vacant)]
           ms  == moveStone(st, m)
           ids == (st.m_stone_id[p] \ {Id(p, m[1])}) \cup {Id(p, m[2])}
           st2 == moved(st, m)
<1>0. p \in Sides /\ q \in Sides /\ q # p /\ p \in Players /\ vacant \in Players
  BY SideFacts DEF Good, StateType
<1>1. /\ m[1] \in Cells /\ m[2] \in Cells /\ m[1] \in Grid /\ m[2] \in Grid
      /\ Mirror(m[1]) \in Grid /\ Mirror(m[2]) \in Grid
      /\ m[1] # m[2]
  BY CellFacts, MirrorFacts, SideFacts, <1>0 DEF MoveShape
<1>2. /\ st.m_board \in [Sides -> [Grid -> Players]]
      /\ st.m_stone_id \in [Sides -> SUBSET Ids]
      /\ st.m_no_home \in [Sides -> Nat]
  BY DEF Good, StateType
<1>3. lifted.m_board = Put(st, p, m[1], vacant) /\ StateType(lifted)
  BY <1>0, <1>1, <1>2, PutFacts DEF Good, StateType, IsPut
<1>4. ms = [lifted EXCEPT !.m_board = Put(lifted, p, m[2], p),
                          !.m_stone_id[p] = ids,
                          !.m_no_home[p] = st.m_no_home[p] + NewHome(m)]
  BY DEF moveStone, Good, StateType
<1>5. ids \in SUBSET Ids /\ Id(p, m[1]) \in Ids /\ Id(p, m[2]) \in Ids
  BY <1>0, <1>1, <1>2, LocFacts
<1>6. NewHome(m) \in {0, 1} /\ st.m_no_home[p] + NewHome(m) \in Nat
  BY <1>0, <1>2 DEF NewHome
<1>7. Put(lifted, p, m[2], p) \in [Sides -> [Grid -> Players]]
  BY <1>0, <1>1, <1>3, PutFacts DEF StateType, IsPut
<1>8. /\ StateType(ms)
      /\ ms.m_board = Put(lifted, p, m[2], p)
      /\ ms.m_stone_id = [st.m_stone_id EXCEPT ![p] = ids]
      /\ ms.m_no_home = [st.m_no_home EXCEPT ![p] = st.m_no_home[p] + NewHome(m)]
      /\ ms.m_player_to_move = p /\ ms.m_winner = st.m_winner
      /\ ms.m_zobrist_hash = st.m_zobrist_hash
  <2> HIDE DEF ids, ms
  <2>1. /\ lifted.m_stone_id = st.m_stone_id /\ lifted.m_no_home = st.m_no_home
        /\ lifted.m_player_to_move = p /\ lifted.m_winner = st.m_winner
        /\ lifted.m_zobrist_hash = st.m_zobrist_hash
    BY <1>3 DEF Good, StateType
  <2> HIDE DEF lifted
  <2> QED
    BY <1>0, <1>2, <1>3, <1>4, <1>5, <1>6, <1>7, <2>1 DEF StateType
<1>9. /\ \A k \in Grid : ms.m_board[p][k] =
            IF k = m[2] THEN p ELSE IF k = m[1] THEN vacant ELSE st.m_board[p][k]
      /\ \A k \in Grid : ms.m_board[q][k] =
            IF k = Mirror(m[2]) THEN p
            ELSE IF k = Mirror(m[1]) THEN vacant ELSE st.m_board[q][k]
  <2> DEFINE b1 == Put(st, p, m[1], vacant)
             b2 == Put(lifted, p, m[2], p)
  <2>1. /\ \A k \in Grid : b1[p][k] = IF k = m[1] THEN vacant ELSE st.m_board[p][k]
        /\ \A k \in Grid : b1[opponent(p)][k] =
              IF k = Mirror(m[1]) THEN vacant ELSE st.m_board[opponent(p)][k]
        /\ b1 \in [Sides -> [Grid -> Players]]
    <3> HIDE DEF lifted, ms
    <3> QED
      <4>1. IsPut(st.m_board, b1, p, m[1], vacant)
        BY <1>0, <1>1, <1>2, PutFacts
      <4> HIDE DEF b1
      <4> QED
        BY <4>1 DEF IsPut
  <2>2. lifted.m_board = b1
    BY <1>3
  <2> HIDE DEF lifted, ms, b1
  <2>3. /\ \A k \in Grid : b2[p][k] = IF k = m[2] THEN p ELSE b1[p][k]
        /\ \A k \in Grid : b2[opponent(p)][k] =
              IF k = Mirror(m[2]) THEN p ELSE b1[opponent(p)][k]
    <3>1. lifted.m_board \in [Sides -> [Grid -> Players]]
      BY <2>1, <2>2
    <3>2. /\ \A k \in Grid : b2[p][k] = IF k = m[2] THEN p ELSE lifted.m_board[p][k]
          /\ \A k \in Grid : b2[opponent(p)][k] =
                IF k = Mirror(m[2]) THEN p ELSE lifted.m_board[opponent(p)][k]
      <4>1. IsPut(lifted.m_board, b2, p, m[2], p)
        BY <1>0, <1>1, <3>1, PutFacts
      <4> HIDE DEF b2
      <4> QED
        BY <4>1 DEF IsPut
    <3> QED
      BY <3>2, <2>2
  <2>4. ms.m_board = b2
    BY <1>8
  <2> HIDE DEF b2
  <2> QED
    BY <2>1, <2>3, <2>4
<1>10. /\ \A l \in Grid : Mirror(l) \in Grid /\ Mirror(Mirror(l)) = l
       /\ \A l \in Grid : st.m_board[q][l] = st.m_board[p][Mirror(l)]
  BY <1>0, BoardFacts, MirrorFacts
<1>11. \A k \in Grid : ms.m_board[q][k] = ms.m_board[p][Mirror(k)]
  <2> HIDE DEF ms
  <2> QED
    BY <1>1, <1>9, <1>10
<1>12. CASE ~ isCapture(m)
  <2>1. st2 = ms /\ Prey(m) = {}
    BY <1>12 DEF moved, Prey
  <2> HIDE DEF st2, ms
  <2>2. st2.m_stone_id[q] = st.m_stone_id[q] /\ st2.m_stone_id[p] = ids
    BY <1>0, <1>2, <1>8, <2>1
  <2>3. st2.m_no_home[q] = st.m_no_home[q] /\ st2.m_no_home[p] = st.m_no_home[p] + NewHome(m)
    BY <1>0, <1>2, <1>8, <2>1
  <2>4. st.m_stone_id[q] = st.m_stone_id[q] \ {Id(p, l) : l \in Prey(m)}
    BY <2>1
  <2> QED
    BY <1>8, <1>9, <1>11, <2>1, <2>2, <2>3, <2>4 DEF st2
<1>13. CASE isCapture(m)
  <2> DEFINE c == captured(m)
  <2>0. Prey(m) = {c}
    BY <1>13 DEF Prey
  <2>1. /\ c \in Cells /\ c \in Grid /\ Mirror(c) \in Grid
        /\ c # m[1] /\ c # m[2]
    BY <1>13, <1>0, CellFacts, MirrorFacts, SideFacts DEF MoveShape
  <2>2. st2 = [ms EXCEPT !.m_board = Put(ms, p, c, vacant),
                         !.m_stone_id[q] = ms.m_stone_id[q] \ {Id(p, c)}]
    <3>1. st2 = captureStone(ms, m)
      BY <1>13 DEF moved
    <3> HIDE DEF ms, st2
    <3> QED
      BY <3>1, <1>8 DEF captureStone, StateType
  <2> HIDE DEF st2, ms, c
  <2>3. Put(ms, p, c, vacant) \in [Sides -> [Grid -> Players]]
    BY <1>0, <1>8, <2>1, PutFacts DEF StateType, IsPut
  <2>4. /\ StateType(st2)
        /\ st2.m_board = Put(ms, p, c, vacant)
        /\ st2.m_stone_id = [ms.m_stone_id EXCEPT ![q] = ms.m_stone_id[q] \ {Id(p, c)}]
        /\ st2.m_no_home = ms.m_no_home
        /\ st2.m_player_to_move = p /\ st2.m_winner = st.m_winner
        /\ st2.m_zobrist_hash = st.m_zobrist_hash
    BY <1>0, <1>8, <2>2, <2>3 DEF StateType
  <2>5. /\ st2.m_stone_id[q] = st.m_stone_id[q] \ {Id(p, c)} /\ st2.m_stone_id[p] = ids
        /\ st2.m_no_home[q] = st.m_no_home[q]
        /\ st2.m_no_home[p] = st.m_no_home[p] + NewHome(m)
    BY <1>0, <1>2, <1>8, <2>4
  <2>6. /\ \A k \in Grid : st2.m_board[p][k] = IF k = c THEN vacant ELSE ms.m_board[p][k]
        /\ \A k \in Grid : st2.m_board[q][k] = IF k = Mirror(c) THEN vacant ELSE ms.m_board[q][k]
    <3> DEFINE b3 == Put(ms, p, c, vacant)
    <3>1. ms.m_board \in [Sides -> [Grid -> Players]]
      BY <1>8 DEF StateType
    <3>2. /\ \A k \in Grid : b3[p][k] = IF k = c THEN vacant ELSE ms.m_board[p][k]
          /\ \A k \in Grid : b3[opponent(p)][k] =
                IF k = Mirror(c) THEN vacant ELSE ms.m_board[opponent(p)][k]
      <4>1. IsPut(ms.m_board, b3, p, c, vacant)
        BY <1>0, <2>1, <3>1, PutFacts
      <4> HIDE DEF b3
      <4> QED
        BY <4>1 DEF IsPut
    <3>3. st2.m_board = b3
      BY <2>4
    <3> HIDE DEF b3
    <3> QED
      BY <3>2, <3>3
  <2>7. \A k \in Grid : st2.m_board[q][k] = st2.m_board[p][Mirror(k)]
    BY <2>1, <2>6, <1>10, <1>11
  <2>8. {Id(p, l) : l \in Prey(m)} = {Id(p, c)}
    BY <2>0
  <2>9. \A k \in Grid : st2.m_board[p][k] =
            IF k = m[2] THEN p
            ELSE IF k = m[1] \/ k \in Prey(m) THEN vacant ELSE st.m_board[p][k]
    BY <2>0, <2>1, <2>6, <1>9
  <2> QED
    BY <2>4, <2>5, <2>7, <2>8, <2>9 DEF st2
<1> QED
  BY <1>12, <1>13

\* The stones after a move, as each side sees them.
LEMMA MovedStones ==
    ASSUME NEW st, Good(st), NEW p, p = st.m_player_to_move, NEW m, MoveShape(st, p, m)
    PROVE  /\ OwnCells(moved(st, m), p) = (OwnCells(st, p) \ {m[1]}) \cup {m[2]}
           /\ OwnCells(moved(st, m), opponent(p)) =
                 OwnCells(st, opponent(p)) \ {Mirror(l) : l \in Prey(m)}
           /\ m[1] \in OwnCells(st, p) /\ m[2] \in Cells \ OwnCells(st, p)
           /\ \A l \in Prey(m) : l \in Cells /\ Mirror(l) \in OwnCells(st, opponent(p))
<1> DEFINE q == opponent(p)
           st2 == moved(st, m)
<1>0. /\ p \in Sides /\ q \in Sides /\ q # p /\ vacant # p /\ vacant # q
  BY SideFacts DEF Good, StateType
<1>1. /\ m[1] \in Cells /\ m[2] \in Cells /\ st.m_board[p][m[1]] = p
      /\ st.m_board[p][m[2]] = vacant
      /\ \A l \in Prey(m) : l \in Cells /\ st.m_board[p][l] = q
  BY DEF MoveShape, Prey
<1>2. /\ \A k \in Grid : st2.m_board[p][k] =
            IF k = m[2] THEN p
            ELSE IF k = m[1] \/ k \in Prey(m) THEN vacant ELSE st.m_board[p][k]
      /\ \A k \in Grid : st2.m_board[q][k] = st2.m_board[p][Mirror(k)]
  BY MovedFields
<1>3. \A k \in Grid : st.m_board[q][k] = st.m_board[p][Mirror(k)]
  BY <1>0, BoardFacts
<1>4. /\ Cells \subseteq Grid
      /\ \A l \in Cells : Mirror(l) \in Cells /\ Mirror(Mirror(l)) = l
  BY CellFacts, MirrorFacts
<1> HIDE DEF st2, q
<1>5. OwnCells(st2, p) = (OwnCells(st, p) \ {m[1]}) \cup {m[2]}
  <2>1. ASSUME NEW k \in Cells
        PROVE  st2.m_board[p][k] = p <=> (st.m_board[p][k] = p /\ k # m[1]) \/ k = m[2]
    BY <1>0, <1>1, <1>2, <1>4
  <2> QED
    BY <2>1, <1>1 DEF OwnCells
<1>6. OwnCells(st2, q) = OwnCells(st, q) \ {Mirror(l) : l \in Prey(m)}
  <2>1. ASSUME NEW k \in Cells
        PROVE  st2.m_board[q][k] = q <=>
                  st.m_board[q][k] = q /\ k \notin {Mirror(l) : l \in Prey(m)}
    <3>1. Mirror(k) \in Cells /\ Mirror(k) \in Grid /\ k \in Grid
      BY <1>4
    <3>2. st2.m_board[q][k] = q <=> st.m_board[p][Mirror(k)] = q /\ Mirror(k) \notin Prey(m)
      BY <3>1, <1>0, <1>1, <1>2
    <3>3. Mirror(k) \in Prey(m) <=> k \in {Mirror(l) : l \in Prey(m)}
      BY <1>1, <1>4, <3>1
    <3> QED
      BY <3>1, <3>2, <3>3, <1>3
  <2> QED
    BY <2>1 DEF OwnCells
<1>7. \A l \in Prey(m) : l \in Cells /\ Mirror(l) \in OwnCells(st, q)
  <2> SUFFICES ASSUME NEW l \in Prey(m) PROVE l \in Cells /\ Mirror(l) \in OwnCells(st, q)
    OBVIOUS
  <2>1. l \in Cells /\ Mirror(l) \in Cells /\ Mirror(l) \in Grid /\ Mirror(Mirror(l)) = l
    BY <1>1, <1>4
  <2> QED
    BY <2>1, <1>1, <1>3 DEF OwnCells
<1>8. m[1] \in OwnCells(st, p) /\ m[2] \in Cells \ OwnCells(st, p)
  BY <1>0, <1>1 DEF OwnCells
<1> QED
  BY <1>5, <1>6, <1>7, <1>8 DEF st2, q

\* A move keeps the views of a position in agreement.
LEMMA MovedGood ==
    ASSUME NEW st, Good(st), NEW p, p = st.m_player_to_move, NEW m, MoveShape(st, p, m)
    PROVE  Good(moved(st, m))
<1> DEFINE q == opponent(p)
           st2 == moved(st, m)
           own(s, x) == OwnCells(s, x)
           homes(s, x) == {l \in OwnCells(s, x) : l[2] = OB_HOME_ROW}
<1>0. /\ p \in Sides /\ q \in Sides /\ q # p /\ vacant # p /\ vacant # q
      /\ \A x \in Sides : x = p \/ x = q
      /\ p # invalid /\ q # invalid /\ vacant # invalid
  BY SideFacts DEF Good, StateType
<1>1. /\ StateType(st2)
      /\ \A k \in Grid : st2.m_board[p][k] =
            IF k = m[2] THEN p
            ELSE IF k = m[1] \/ k \in Prey(m) THEN vacant ELSE st.m_board[p][k]
      /\ \A k \in Grid : st2.m_board[q][k] = st2.m_board[p][Mirror(k)]
      /\ st2.m_stone_id[p] = (st.m_stone_id[p] \ {Id(p, m[1])}) \cup {Id(p, m[2])}
      /\ st2.m_stone_id[q] = st.m_stone_id[q] \ {Id(p, l) : l \in Prey(m)}
      /\ st2.m_no_home[p] = st.m_no_home[p] + NewHome(m)
      /\ st2.m_no_home[q] = st.m_no_home[q]
  BY MovedFields
<1>2. /\ own(st2, p) = (own(st, p) \ {m[1]}) \cup {m[2]}
      /\ own(st2, q) = own(st, q) \ {Mirror(l) : l \in Prey(m)}
      /\ m[1] \in own(st, p) /\ m[2] \in Cells \ own(st, p)
      /\ \A l \in Prey(m) : l \in Cells /\ Mirror(l) \in own(st, q)
  BY MovedStones
<1>3. /\ \A x \in Sides : st.m_stone_id[x] = {Id(x, l) : l \in own(st, x)}
      /\ \A x \in Sides : st.m_no_home[x] = Cardinality(homes(st, x))
      /\ \A x \in Sides : own(st, x) \subseteq Cells
  BY DEF Good, Views, OwnCells
<1>4. /\ Cells \subseteq Grid
      /\ \A l \in Grid : Mirror(l) \in Grid /\ Mirror(Mirror(l)) = l
      /\ \A l \in Grid : Mirror(l) \in Cells <=> l \in Cells
  BY CellFacts, MirrorFacts
<1>5. /\ \A x \in Sides : \A k, l \in Cells : Id(x, k) = Id(x, l) => k = l
      /\ \A l \in Cells : Id(q, Mirror(l)) = Id(p, l)
  BY <1>0, LocFacts
<1>6. \A l \in Grid : st2.m_board[human][l] = st2.m_board[agent][Mirror(l)]
  <2> HIDE DEF st2
  <2>1. CASE p = agent
    BY <2>1, <1>1, SideFacts
  <2>2. CASE p = human
    <3>1. q = agent
      BY <2>2, SideFacts
    <3> HIDE DEF q
    <3> QED
      BY <3>1, <2>2, <1>1, <1>4
  <2> QED
    BY <2>1, <2>2, <1>0, SideFacts
<1>7. \A l \in Grid : st2.m_board[agent][l] = invalid <=> l \notin Cells
  <2>1. \A l \in Grid : st.m_board[p][l] = invalid <=> l \notin Cells
    BY <1>0, BoardFacts
  <2>2. m[1] \in Cells /\ m[2] \in Cells /\ \A l \in Prey(m) : l \in Cells
    BY <1>2, <1>3, <1>0
  <2> HIDE DEF st2, q
  <2>3. \A l \in Grid : st2.m_board[p][l] = invalid <=> l \notin Cells
    BY <2>1, <2>2, <1>0, <1>1
  <2>4. agent = p \/ agent = q
    BY <1>0, SideFacts
  <2> QED
    BY <2>3, <2>4, <1>1, <1>4
<1> HIDE DEF st2, q, own
<1>8. st2.m_stone_id[p] = {Id(p, l) : l \in own(st2, p)}
  <2>1. st.m_stone_id[p] \ {Id(p, m[1])} = {Id(p, l) : l \in own(st, p) \ {m[1]}}
    <3>1. \A k \in own(st, p) : Id(p, k) = Id(p, m[1]) => k = m[1]
      BY <1>0, <1>2, <1>3, <1>5
    <3>2. st.m_stone_id[p] = {Id(p, l) : l \in own(st, p)}
      BY <1>0, <1>3
    <3> QED
      BY <3>1, <3>2
  <2> QED
    BY <2>1, <1>1, <1>2
<1>9. st2.m_stone_id[q] = {Id(q, l) : l \in own(st2, q)}
  <2>1. \A l \in Prey(m) : Id(p, l) = Id(q, Mirror(l))
    BY <1>2, <1>5
  <2>2. \A k \in own(st, q) : \A l \in Prey(m) : Id(q, k) = Id(q, Mirror(l)) => k = Mirror(l)
    BY <1>0, <1>2, <1>3, <1>5
  <2>3. st.m_stone_id[q] = {Id(q, l) : l \in own(st, q)}
    BY <1>0, <1>3
  <2>4. {Id(q, l) : l \in own(st, q)} \ {Id(p, l) : l \in Prey(m)}
           = {Id(q, l) : l \in own(st, q) \ {Mirror(l) : l \in Prey(m)}}
    <3> SUFFICES ASSUME NEW i
                 PROVE  i \in {Id(q, l) : l \in own(st, q)} \ {Id(p, l) : l \in Prey(m)} <=>
                        i \in {Id(q, l) : l \in own(st, q) \ {Mirror(l) : l \in Prey(m)}}
      OBVIOUS
    <3> QED
      BY <2>1, <2>2
  <2> QED
    BY <2>3, <2>4, <1>1, <1>2
<1>10. /\ st2.m_no_home[p] = Cardinality(homes(st2, p))
       /\ st2.m_no_home[q] = Cardinality(homes(st2, q))
  <2>0. /\ m[1] \in Cells /\ m[2] \in Cells
        /\ m[2][2] = m[1][2] + 1 \/ m[2][2] = m[1][2] + 2
        /\ \A l \in Prey(m) : l[2] = m[1][2] + 1 /\ m[2][2] = m[1][2] + 2
    BY DEF MoveShape, Prey
  <2>1. \A l \in Cells : /\ l = <<l[1], l[2]>> /\ l[1] \in Int /\ l[2] \in 1 .. 2 * S - 3
                         /\ Mirror(l)[2] = 2 * S - 2 - l[2]
    <3> SUFFICES ASSUME NEW l \in Cells
                 PROVE  /\ l = <<l[1], l[2]>> /\ l[1] \in Int /\ l[2] \in 1 .. 2 * S - 3
                        /\ Mirror(l)[2] = 2 * S - 2 - l[2]
      OBVIOUS
    <3>1. l = <<l[1], l[2]>> /\ l[1] \in Int /\ l[2] \in Int
      BY CellFacts, Dimensions
    <3> QED
      BY <3>1, CellFacts, MirrorFacts
  <2>2. m[1][2] # OB_HOME_ROW
    BY <2>0, <2>1, Dimensions
  <2>3. \A l \in Prey(m) : Mirror(l)[2] # OB_HOME_ROW
    <3> SUFFICES ASSUME NEW l \in Prey(m) PROVE Mirror(l)[2] # OB_HOME_ROW
      OBVIOUS
    <3>1. l \in Cells /\ l[2] = m[1][2] + 1 /\ Mirror(l)[2] = 2 * S - 2 - l[2]
      BY <1>2, <2>0, <2>1
    <3> QED
      BY <3>1, <2>0, <2>1, Dimensions
  <2>4. homes(st2, q) = homes(st, q)
    <3>1. \A l \in homes(st, q) : l \notin {Mirror(k) : k \in Prey(m)}
      BY <2>3
    <3> QED
      BY <3>1, <1>2 DEF own
  <2>5. homes(st2, p) = homes(st, p) \cup (IF m[2][2] = OB_HOME_ROW THEN {m[2]} ELSE {})
    BY <1>2, <2>2 DEF own
  <2>6. /\ m[2] \notin homes(st, p) /\ homes(st, p) \in SUBSET Cells
    BY <1>2 DEF own, OwnCells
  <2>7. IsFiniteSet(homes(st, p)) /\ Cardinality(homes(st, p)) \in Nat
    BY <2>6, CellsFinite
  <2>8. st.m_no_home[p] = Cardinality(homes(st, p)) /\ st.m_no_home[q] = Cardinality(homes(st, q))
    BY <1>0, <1>3
  <2> HIDE DEF homes
  <2>9. CASE m[2][2] = OB_HOME_ROW
    <3>1. Cardinality(homes(st, p) \cup {m[2]}) = Cardinality(homes(st, p)) + 1
      BY <2>6, <2>7, FS_AddElement
    <3>2. NewHome(m) = 1 /\ homes(st2, p) = homes(st, p) \cup {m[2]}
      BY <2>9, <2>5 DEF NewHome
    <3> QED
      BY <3>1, <3>2, <2>4, <2>8, <1>1
  <2>10. CASE m[2][2] # OB_HOME_ROW
    <3>1. NewHome(m) = 0 /\ homes(st2, p) = homes(st, p)
      BY <2>10, <2>5 DEF NewHome
    <3> QED
      BY <3>1, <2>4, <2>7, <2>8, <1>1
  <2> QED
    BY <2>9, <2>10
<1>11. ASSUME NEW x \in Sides
       PROVE  /\ st2.m_stone_id[x] = {Id(x, l) : l \in own(st2, x)}
              /\ st2.m_no_home[x] = Cardinality(homes(st2, x))
  <2> HIDE DEF homes
  <2> QED
    BY <1>0, <1>8, <1>9, <1>10
<1> QED
  BY <1>1, <1>6, <1>7, <1>11 DEF Good, Views, own, st2

-----------------------------------------------------------------------------
(* The hash.                                                               *)

\* The keys of the stones on the boards.
KeysOf(st) == UNION {{<<as_01index(p), l>> : l \in OwnCells(st, p)} : p \in Sides}

HashOK(st) == st.m_zobrist_hash = Xor(HashOffset, KeysOf(st))

\* The key of side p on l is among the keys exactly if there is such a stone.
LEMMA KeyFacts ==
    ASSUME NEW st
    PROVE  /\ as_01index(agent) = 0 /\ as_01index(human) = 1
           /\ \A p, q \in Sides : as_01index(p) = as_01index(q) => p = q
           /\ \A p \in Sides : as_01index(p) \in {0, 1}
           /\ \A p \in Sides : \A l : <<as_01index(p), l>> \in KeysOf(st) <=> l \in OwnCells(st, p)
           /\ \A x \in KeysOf(st) : \E p \in Sides, l \in Cells : x = <<as_01index(p), l>>
<1>1. /\ as_01index(agent) = 0 /\ as_01index(human) = 1
      /\ \A p, q \in Sides : as_01index(p) = as_01index(q) => p = q
      /\ \A p \in Sides : as_01index(p) \in {0, 1}
  BY SideFacts DEF as_01index
<1>2. \A x : x \in KeysOf(st) <=> \E p \in Sides : \E l \in OwnCells(st, p) : x = <<as_01index(p), l>>
  BY DEF KeysOf
<1>3. \A p \in Sides : \A l : <<as_01index(p), l>> \in KeysOf(st) <=> l \in OwnCells(st, p)
  BY <1>1, <1>2
<1>4. \A x \in KeysOf(st) : \E p \in Sides, l \in Cells : x = <<as_01index(p), l>>
  BY <1>2 DEF OwnCells
<1> QED
  BY <1>1, <1>3, <1>4

\* The keys that a move XORs into the hash are those of the stones that change.
LEMMA MovedKeys ==
    ASSUME NEW st, Good(st), NEW p, p = st.m_player_to_move, NEW m, MoveShape(st, p, m)
    PROVE  /\ KeysOf(moved(st, m)) = Xor(KeysOf(st), MoveKeys(p, m))
           /\ MoveKeys(p, m) \in SUBSET ({0, 1} \X Cells)
<1> DEFINE q == opponent(p)
           st2 == moved(st, m)
           K == KeysOf(st)
           K2 == KeysOf(st2)
           D == MoveKeys(p, m)
           i == as_01index(p)
           j == as_01index(q)
<1>0. /\ p \in Sides /\ q \in Sides /\ q # p
      /\ \A x \in Sides : x = p \/ x = q
  BY SideFacts DEF Good, StateType
<1>1. i \in {0, 1} /\ j \in {0, 1} /\ i # j
  BY <1>0, KeyFacts
<1>2. /\ OwnCells(st2, p) = (OwnCells(st, p) \ {m[1]}) \cup {m[2]}
      /\ OwnCells(st2, q) = OwnCells(st, q) \ {Mirror(l) : l \in Prey(m)}
      /\ m[1] \in OwnCells(st, p) /\ m[2] \in Cells \ OwnCells(st, p)
      /\ \A l \in Prey(m) : l \in Cells /\ Mirror(l) \in OwnCells(st, q)
  BY MovedStones
<1>3. D = {<<i, m[1]>>, <<i, m[2]>>} \cup {<<j, Mirror(l)>> : l \in Prey(m)}
  BY DEF MoveKeys, Prey
<1>4. /\ \A l : <<i, l>> \in K <=> l \in OwnCells(st, p)
      /\ \A l : <<j, l>> \in K <=> l \in OwnCells(st, q)
      /\ \A l : <<i, l>> \in K2 <=> l \in OwnCells(st2, p)
      /\ \A l : <<j, l>> \in K2 <=> l \in OwnCells(st2, q)
  BY <1>0, KeyFacts
<1>5. \A x \in K \cup K2 : \E l : x = <<i, l>> \/ x = <<j, l>>
  BY <1>0, KeyFacts
<1> HIDE DEF K, K2, D, i, j, st2, q
<1>6. /\ \A l : <<i, l>> \in D <=> l = m[1] \/ l = m[2]
      /\ \A l : <<j, l>> \in D <=> l \in {Mirror(k) : k \in Prey(m)}
      /\ \A x \in D : \E l : x = <<i, l>> \/ x = <<j, l>>
  BY <1>1, <1>3
<1>7. ASSUME NEW l PROVE <<i, l>> \in K2 <=> <<i, l>> \in Xor(K, D)
  BY <1>2, <1>4, <1>6 DEF Xor
<1>8. ASSUME NEW l PROVE <<j, l>> \in K2 <=> <<j, l>> \in Xor(K, D)
  BY <1>2, <1>4, <1>6 DEF Xor
<1>9. \A x \in Xor(K, D) : \E l : x = <<i, l>> \/ x = <<j, l>>
  BY <1>5, <1>6 DEF Xor
<1>10. K2 = Xor(K, D)
  <2> SUFFICES ASSUME NEW x PROVE x \in K2 <=> x \in Xor(K, D)
    OBVIOUS
  <2>1. CASE \E l : x = <<i, l>> \/ x = <<j, l>>
    BY <2>1, <1>7, <1>8
  <2>2. CASE ~ \E l : x = <<i, l>> \/ x = <<j, l>>
    BY <2>2, <1>5, <1>9
  <2> QED
    BY <2>1, <2>2
<1>11. D \in SUBSET ({0, 1} \X Cells)
  BY <1>1, <1>2, <1>3 DEF OwnCells
<1> QED
  BY <1>10, <1>11 DEF K, K2, D, st2

-----------------------------------------------------------------------------
(* winner(), next() and whole moves.                                       *)

\* States that differ in the player, the winner or the hash only.
LEMMA GoodFrame ==
    ASSUME NEW st, Good(st), NEW st2, StateType(st2),
           st2.m_board = st.m_board, st2.m_stone_id = st.m_stone_id,
           st2.m_no_home = st.m_no_home
    PROVE  /\ Good(st2)
           /\ \A p : OwnCells(st2, p) = OwnCells(st, p)
           /\ \A p : SideMoves(st2, p) = SideMoves(st, p)
           /\ KeysOf(st2) = KeysOf(st)
<1>1. \A p : OwnCells(st2, p) = OwnCells(st, p)
  BY DEF OwnCells
<1>2. \A p : SideMoves(st2, p) = SideMoves(st, p)
  BY DEF SideMoves
<1>3. KeysOf(st2) = KeysOf(st)
  BY <1>1 DEF KeysOf
<1>4. Views(st2)
  BY <1>1 DEF Good, Views
<1> QED
  BY <1>1, <1>2, <1>3, <1>4 DEF Good

\* winner() sets the winner and nothing else.
LEMMA WinnerFields ==
    ASSUME NEW st, StateType(st)
    PROVE  /\ StateType(winner(st))
           /\ winner(st).m_board = st.m_board /\ winner(st).m_stone_id = st.m_stone_id
           /\ winner(st).m_no_home = st.m_no_home
           /\ winner(st).m_player_to_move = st.m_player_to_move
           /\ winner(st).m_zobrist_hash = st.m_zobrist_hash
<1> DEFINE p == st.m_player_to_move
           q == opponent(p)
           Set(w) == [st EXCEPT !.m_winner = w]
<1>1. p \in Sides /\ q \in Sides /\ p \in Players /\ q \in Players /\ vacant \in Players
  BY SideFacts DEF StateType
<1>2. ASSUME NEW w \in Players
      PROVE  /\ StateType(Set(w)) /\ Set(w).m_board = st.m_board
             /\ Set(w).m_stone_id = st.m_stone_id /\ Set(w).m_no_home = st.m_no_home
             /\ Set(w).m_player_to_move = p /\ Set(w).m_zobrist_hash = st.m_zobrist_hash
  BY DEF StateType
<1>3. playerMostHomeStones(st) \in Players
  BY SideFacts DEF playerMostHomeStones
<1>4. winner(st) = st \/ \E w \in Players : winner(st) = Set(w)
  <2>1. CASE haveRemainingHome(st, p)
    <3>1. winner(st) = Set(IF haveRemainingHome(st, q) THEN playerMostHomeStones(st) ELSE p)
      BY <2>1 DEF winner
    <3> QED
      BY <3>1, <1>1, <1>3
  <2>2. CASE ~ haveRemainingHome(st, p) /\ notHaveStones(st, q)
    <3>1. winner(st) = Set(p)
      BY <2>2 DEF winner
    <3> QED
      BY <3>1, <1>1
  <2>3. CASE ~ haveRemainingHome(st, p) /\ ~ notHaveStones(st, q) /\ ~ hasMoves(st, q)
    <3>1. winner(st) = Set(q)
      BY <2>3 DEF winner
    <3> QED
      BY <3>1, <1>1
  <2>4. CASE ~ haveRemainingHome(st, p) /\ ~ notHaveStones(st, q) /\ hasMoves(st, q)
    <3>1. winner(st) = st
      BY <2>4 DEF winner
    <3> QED
      BY <3>1
  <2> QED
    BY <2>1, <2>2, <2>3, <2>4
<1> HIDE DEF Set
<1> QED
  BY <1>2, <1>4

\* What the three kinds of moves have in common: the stones of moved(), then the
\* other side's turn; with the hash of the new stones when it is updated.
Follows(st, m, st2) ==
    /\ StateType(st2)
    /\ st2.m_board = moved(st, m).m_board
    /\ st2.m_stone_id = moved(st, m).m_stone_id
    /\ st2.m_no_home = moved(st, m).m_no_home
    /\ st2.m_player_to_move = opponent(st.m_player_to_move)

\* The three kinds of move change the stones alike; the two that hash keep the hash.
LEMMA WholeMoves ==
    ASSUME NEW st, Good(st), NEW m \in SideMoves(st, st.m_player_to_move)
    PROVE  /\ Follows(st, m, move_hash(st, m))
           /\ Follows(st, m, move_hash_winner(st, m))
           /\ Follows(st, m, move_winner(st, m))
           /\ HashOK(st) => HashOK(move_hash(st, m)) /\ HashOK(move_hash_winner(st, m))
           /\ move_hash(st, m).m_winner = st.m_winner
<1> DEFINE p  == st.m_player_to_move
           s1 == moved(st, m)
           s2 == hashed(s1, m)
<1>0. p \in Sides /\ opponent(p) \in Sides
  BY SideFacts DEF Good, StateType
<1>1. MoveShape(st, p, m)
  BY <1>0, MovesHaveShape
<1>2. /\ StateType(s1) /\ s1.m_player_to_move = p /\ s1.m_winner = st.m_winner
      /\ s1.m_zobrist_hash = st.m_zobrist_hash
  BY <1>1, MovedFields
<1>3. Good(s1)
  BY <1>1, MovedGood
<1>4. /\ KeysOf(s1) = Xor(KeysOf(st), MoveKeys(p, m))
      /\ MoveKeys(p, m) \in SUBSET ({0, 1} \X Cells)
  BY <1>1, MovedKeys
<1> HIDE DEF s1, p
<1>5. s2 = [s1 EXCEPT !.m_zobrist_hash = Xor(s1.m_zobrist_hash, MoveKeys(p, m))]
  BY <1>2 DEF hashed
<1>6. /\ StateType(s2) /\ s2.m_board = s1.m_board /\ s2.m_stone_id = s1.m_stone_id
      /\ s2.m_no_home = s1.m_no_home /\ s2.m_player_to_move = p
      /\ s2.m_winner = st.m_winner
      /\ s2.m_zobrist_hash = Xor(st.m_zobrist_hash, MoveKeys(p, m))
  <2>1. Xor(s1.m_zobrist_hash, MoveKeys(p, m)) \in SUBSET ({0, 1} \X Cells)
    BY <1>2, <1>4 DEF StateType, Xor
  <2> HIDE DEF s2
  <2> QED
    BY <2>1, <1>2, <1>5 DEF StateType
<1>7. HashOK(st) => s2.m_zobrist_hash = Xor(HashOffset, KeysOf(s1))
  <2>1. \A o, h, k : Xor(Xor(o, h), k) = Xor(o, Xor(h, k))
    BY DEF Xor
  <2> QED
    BY <2>1, <1>4, <1>6 DEF HashOK
<1> HIDE DEF s2
<1>8. ASSUME NEW s, StateType(s), s.m_player_to_move = p
      PROVE  LET n == next(s)
             IN  /\ StateType(n) /\ n.m_board = s.m_board /\ n.m_stone_id = s.m_stone_id
                 /\ n.m_no_home = s.m_no_home /\ n.m_player_to_move = opponent(p)
                 /\ n.m_winner = s.m_winner /\ n.m_zobrist_hash = s.m_zobrist_hash
  BY <1>0, <1>8 DEF next, StateType
<1>9. /\ move_hash(st, m) = next(s2) /\ move_hash_winner(st, m) = next(winner(s2))
      /\ move_winner(st, m) = next(winner(s1))
  BY DEF move_hash, move_hash_winner, move_winner, s1, s2
<1>10. /\ Follows(st, m, next(s2)) /\ next(s2).m_winner = st.m_winner
       /\ next(s2).m_zobrist_hash = s2.m_zobrist_hash
  BY <1>6, <1>8 DEF Follows, s1, p
<1>11. /\ Follows(st, m, next(winner(s2)))
       /\ next(winner(s2)).m_zobrist_hash = s2.m_zobrist_hash
  <2>1. /\ StateType(winner(s2))
        /\ winner(s2).m_board = s2.m_board /\ winner(s2).m_stone_id = s2.m_stone_id
        /\ winner(s2).m_no_home = s2.m_no_home
        /\ winner(s2).m_player_to_move = p
        /\ winner(s2).m_zobrist_hash = s2.m_zobrist_hash
    BY <1>6, WinnerFields
  <2> QED
    BY <2>1, <1>6, <1>8 DEF Follows, s1, p
<1>12. Follows(st, m, next(winner(s1)))
  <2>1. /\ StateType(winner(s1))
        /\ winner(s1).m_board = s1.m_board /\ winner(s1).m_stone_id = s1.m_stone_id
        /\ winner(s1).m_no_home = s1.m_no_home
        /\ winner(s1).m_player_to_move = p
    BY <1>2, WinnerFields
  <2> QED
    BY <2>1, <1>8 DEF Follows, s1, p
<1>13. \A s : Follows(st, m, s) => KeysOf(s) = KeysOf(s1)
  BY <1>3, GoodFrame DEF Follows, s1
<1>14. HashOK(st) => HashOK(next(s2)) /\ HashOK(next(winner(s2)))
  BY <1>7, <1>10, <1>11, <1>13 DEF HashOK
<1> QED
  BY <1>9, <1>10, <1>11, <1>12, <1>14

\* A move leads from agreeing views to agreeing views.
LEMMA FollowsGood ==
    ASSUME NEW st, Good(st), NEW m \in SideMoves(st, st.m_player_to_move),
           NEW st2, Follows(st, m, st2)
    PROVE  /\ Good(st2)
           /\ \A p : OwnCells(st2, p) = OwnCells(moved(st, m), p)
           /\ \A p : SideMoves(st2, p) = SideMoves(moved(st, m), p)
<1>0. st.m_player_to_move \in Sides
  BY DEF Good, StateType
<1>1. Good(moved(st, m))
  BY <1>0, MovesHaveShape, MovedGood
<1> QED
  BY <1>1, GoodFrame DEF Follows

-----------------------------------------------------------------------------
(* initialize().                                                           *)

\* A new State: either side sees its stones in its first row.
LEMMA StartGood ==
    ASSUME NEW st \in StartState
    PROVE  /\ Good(st) /\ HashOK(st)
           /\ st.m_winner = invalid
           /\ \A p \in Sides : OwnCells(st, p) = Row(1)
           /\ \A p \in Sides : \A l \in Cells :
                 st.m_board[p][l] = vacant <=> l[2] # 1 /\ l[2] # OB_HOME_ROW
<1> DEFINE sb == StartBoard
           hb == [l \in Grid |-> sb[Mirror(l)]]
           ids(p) == {IdOf[l] : l \in {k \in Cells : sb[k] = p}}
<1>0. PICK p0 \in Sides :
         st = [m_board |-> [p \in Sides |-> IF p = agent THEN sb ELSE hb],
               m_stone_id |-> [p \in Sides |-> ids(p)],
               m_no_home |-> [p \in Sides |-> 0],
               m_player_to_move |-> p0, m_winner |-> invalid,
               m_zobrist_hash |-> StartHash]
  BY DEF StartState
<1>1. /\ agent \in Sides /\ human \in Sides /\ agent # human
      /\ \A p \in Sides : p = agent \/ p = human
      /\ agent # vacant /\ human # vacant /\ agent # invalid /\ human # invalid
      /\ vacant # invalid
      /\ agent \in Players /\ human \in Players /\ vacant \in Players /\ invalid \in Players
  BY SideFacts
<1>2. \A l \in Cells : /\ l \in Grid /\ l[2] \in 1 .. 2 * S - 3
                       /\ Mirror(l) \in Cells /\ Mirror(Mirror(l)) = l
                       /\ Mirror(l)[2] = 2 * S - 2 - l[2]
  <2> SUFFICES ASSUME NEW l \in Cells
               PROVE  /\ l \in Grid /\ l[2] \in 1 .. 2 * S - 3
                      /\ Mirror(l) \in Cells /\ Mirror(Mirror(l)) = l
                      /\ Mirror(l)[2] = 2 * S - 2 - l[2]
    OBVIOUS
  <2>1. l \in Grid /\ l = <<l[1], l[2]>> /\ l[1] \in Int /\ l[2] \in Int
    BY CellFacts, Dimensions
  <2> QED
    BY <2>1, CellFacts, MirrorFacts
<1>3. \A l \in Cells : /\ l[2] = 1 <=> Mirror(l)[2] = OB_HOME_ROW
                       /\ l[2] = OB_HOME_ROW <=> Mirror(l)[2] = 1
                       /\ ~ (l[2] = 1 /\ l[2] = OB_HOME_ROW)
  BY <1>2, Dimensions
<1>4. /\ sb \in [Grid -> Players]
      /\ \A l \in Grid : sb[l] = invalid <=> l \notin Cells
      /\ \A l \in Cells : /\ sb[l] = agent <=> l[2] = 1
                          /\ sb[l] = human <=> l[2] = OB_HOME_ROW
                          /\ sb[l] = vacant <=> l[2] # 1 /\ l[2] # OB_HOME_ROW
  BY <1>1, <1>2, <1>3 DEF StartBoard
<1> HIDE DEF sb
<1>5. hb \in [Grid -> Players] /\ \A l \in Grid : hb[l] = sb[Mirror(l)]
  BY <1>4, MirrorFacts
<1> HIDE DEF hb
<1>6. /\ st.m_board[agent] = sb /\ st.m_board[human] = hb
      /\ \A p \in Sides : st.m_stone_id[p] = ids(p) /\ st.m_no_home[p] = 0
      /\ st.m_zobrist_hash = StartHash /\ st.m_winner = invalid
  BY <1>0, <1>1
<1>7. \A p \in Sides : ids(p) \in SUBSET Ids
  BY IdFacts
<1>8. StartHash \in SUBSET ({0, 1} \X Cells)
  BY DEF StartHash
<1>9. StateType(st)
  <2> HIDE DEF ids
  <2> QED
    BY <1>0, <1>1, <1>4, <1>5, <1>7, <1>8 DEF StateType
<1>10. OwnCells(st, agent) = Row(1) /\ OwnCells(st, human) = Row(1)
  <2>1. \A l \in Cells : hb[l] = human <=> l[2] = 1
    BY <1>2, <1>3, <1>4, <1>5
  <2> QED
    BY <2>1, <1>4, <1>6 DEF OwnCells, Row
<1>11. ids(agent) = {Id(agent, l) : l \in Row(1)}
  BY <1>4 DEF Id, Row
<1>12. ids(human) = {Id(human, l) : l \in Row(1)}
  <2>1. \A l : Id(human, l) = IdOf[Mirror(l)]
    BY <1>1 DEF Id
  <2>2. \A k \in Cells : sb[k] = human <=> Mirror(k) \in Row(1)
    BY <1>2, <1>3, <1>4 DEF Row
  <2>3. ASSUME NEW i PROVE i \in ids(human) <=> i \in {IdOf[Mirror(l)] : l \in Row(1)}
    <3>1. ASSUME i \in ids(human) PROVE i \in {IdOf[Mirror(l)] : l \in Row(1)}
      <4>1. PICK k \in Cells : sb[k] = human /\ i = IdOf[k]
        BY <3>1
      <4>2. Mirror(k) \in Row(1) /\ Mirror(Mirror(k)) = k
        BY <4>1, <2>2, <1>2
      <4> QED
        BY <4>1, <4>2
    <3>2. ASSUME NEW l \in Row(1), i = IdOf[Mirror(l)] PROVE i \in ids(human)
      <4>1. l \in Cells /\ Mirror(l) \in Cells /\ Mirror(Mirror(l)) \in Row(1)
        BY <1>2 DEF Row
      <4> QED
        BY <4>1, <3>2, <2>2
    <3> QED
      BY <3>1, <3>2
  <2> HIDE DEF ids
  <2> QED
    BY <2>1, <2>3
<1>13. Cardinality({l \in Row(1) : l[2] = OB_HOME_ROW}) = 0
  <2>1. {l \in Row(1) : l[2] = OB_HOME_ROW} = {}
    BY <1>3 DEF Row
  <2> QED
    BY <2>1, FS_EmptySet
<1>14. Views(st)
  <2> HIDE DEF ids
  <2>1. ASSUME NEW p \in Sides
        PROVE  /\ st.m_stone_id[p] = {Id(p, l) : l \in OwnCells(st, p)}
               /\ st.m_no_home[p] = Cardinality({l \in OwnCells(st, p) : l[2] = OB_HOME_ROW})
    <3>1. OwnCells(st, p) = Row(1)
      BY <1>1, <1>10
    <3>2. st.m_stone_id[p] = {Id(p, l) : l \in Row(1)}
      BY <1>1, <1>6, <1>11, <1>12
    <3> QED
      BY <3>1, <3>2, <1>6, <1>13
  <2> QED
    BY <2>1, <1>4, <1>5, <1>6 DEF Views
<1>15. HashOK(st)
  <2> DEFINE A == {<<0, l>> : l \in Row(1)}
             B == {<<1, l>> : l \in Row(1)}
             C == {<<1, l>> : l \in Row(OB_HOME_ROW)}
  <2>1. StartHash = A \cup C /\ HashOffset = Xor(C, B)
    BY DEF StartHash, HashOffset, Row
  <2>2. KeysOf(st) = A \cup B
    <3>1. KeysOf(st) = {<<as_01index(agent), l>> : l \in Row(1)}
                       \cup {<<as_01index(human), l>> : l \in Row(1)}
      BY <1>10 DEF KeysOf, Sides
    <3> QED
      BY <3>1, KeyFacts
  <2>3. A \cap B = {} /\ A \cap C = {} /\ B \cap C = {}
    <3>1. Row(1) \cap Row(OB_HOME_ROW) = {}
      BY <1>3 DEF Row
    <3> QED
      BY <3>1
  <2> HIDE DEF A, B, C
  <2>4. A \cup C = Xor(Xor(C, B), A \cup B)
    BY <2>3 DEF Xor
  <2> QED
    BY <2>1, <2>2, <2>4, <1>6 DEF HashOK
<1>16. \A p \in Sides : \A l \in Cells :
          st.m_board[p][l] = vacant <=> l[2] # 1 /\ l[2] # OB_HOME_ROW
  <2>1. \A l \in Cells : hb[l] = vacant <=> l[2] # 1 /\ l[2] # OB_HOME_ROW
    BY <1>2, <1>3, <1>4, <1>5
  <2> QED
    BY <2>1, <1>1, <1>4, <1>6
<1> QED
  BY <1>1, <1>6, <1>9, <1>10, <1>14, <1>15, <1>16 DEF Good

-----------------------------------------------------------------------------
(* The views agree and the hash is that of the board.                      *)

\* The inductive invariant.
OInv ==
    /\ phase \in {"match", "select", "leaf", "playout"}
    /\ Good(state)
    /\ phase # "playout" => HashOK(state)

\* Every step is a new State, a copy, or a move of the side whose turn it is.
LEMMA OInvStep ==
    ASSUME OInv, SearchNext
    PROVE  OInv'
<1>1. ASSUME NEW m \in moves(state)
      PROVE  m \in SideMoves(state, state.m_player_to_move)
  BY DEF moves
<1>2. ASSUME NEW m \in moves(state)
      PROVE  /\ Good(move_hash(state, m)) /\ Good(move_hash_winner(state, m))
             /\ Good(move_winner(state, m))
             /\ HashOK(state) => /\ HashOK(move_hash(state, m))
                                 /\ HashOK(move_hash_winner(state, m))
  <2>1. Good(state) /\ m \in SideMoves(state, state.m_player_to_move)
    BY <1>1 DEF OInv
  <2> QED
    BY <2>1, WholeMoves, FollowsGood
<1>3. CASE PlayMove
  BY <1>2, <1>3 DEF PlayMove, OInv
<1>4. CASE NextMatch
  BY <1>4, StartGood DEF NextMatch, OInv
<1>5. CASE CopyState
  BY <1>5 DEF CopyState, OInv
<1>6. CASE SelectMove
  BY <1>2, <1>6 DEF SelectMove, OInv
<1>7. CASE ExpandMove
  BY <1>2, <1>7 DEF ExpandMove, OInv
<1>8. CASE NoExpansion
  BY <1>8 DEF NoExpansion, OInv
<1>9. CASE SimulateMove
  BY <1>2, <1>9 DEF SimulateMove, OInv
<1>10. CASE Discard
  BY <1>10, StartGood DEF Discard, OInv
<1> QED
  BY <1>3, <1>4, <1>5, <1>6, <1>7, <1>8, <1>9, <1>10 DEF SearchNext, MatchNext

\* The views of the position in main's State and in every copy that a search
\* makes agree, for boards of every size.
THEOREM OInvHolds == SearchSpec => []OInv
<1>1. Init => OInv
  BY StartGood DEF Init, OInv
<1>2. OInv /\ [SearchNext]_vars => OInv'
  <2> SUFFICES ASSUME OInv, [SearchNext]_vars PROVE OInv'
    OBVIOUS
  <2>1. CASE SearchNext
    BY <2>1, OInvStep
  <2>2. CASE UNCHANGED vars
    BY <2>2 DEF vars, OInv
  <2> QED
    BY <2>1, <2>2
<1> QED
  BY <1>1, <1>2, PTL DEF SearchSpec

\* ViewsAgree: the boards are mirror images, the lists of ids are the stones on
\* them, and m_no_home counts the stones that have come home.
THEOREM ViewsAgreeHolds == SearchSpec => []ViewsAgree
<1>1. OInv => ViewsAgree
  BY DEF OInv, Good, Views, ViewsAgree
<1> QED
  BY <1>1, OInvHolds, PTL

\* HashOfBoard: wherever the transposition table reads it, the hash is that of
\* the stones on the boards.
THEOREM HashOfBoardHolds == SearchSpec => []HashOfBoard
<1>1. OInv => HashOfBoard
  BY DEF OInv, HashOK, KeysOf, HashOfBoard
<1> QED
  BY <1>1, OInvHolds, PTL

-----------------------------------------------------------------------------
(* The end of a match.                                                     *)

\* All stones of side p, and there are some, have come home.
AllAtHome(st, p) ==
    OwnCells(st, p) # {} /\ \A l \in OwnCells(st, p) : l[2] = OB_HOME_ROW

\* What winner() finds, in terms of the stones on the boards.
Found(st, p) ==
    LET q == opponent(p)
        n(x) == Cardinality(OwnCells(st, x))
    IN  IF AllAtHome(st, p)
        THEN IF AllAtHome(st, q)
             THEN IF n(p) = n(q) THEN vacant ELSE IF n(p) > n(q) THEN p ELSE q
             ELSE p
        ELSE IF OwnCells(st, q) = {} THEN p
        ELSE IF SideMoves(st, q) = {} THEN q
        ELSE invalid

\* The tests of winner() count what is on the boards.
LEMMA HomeFacts ==
    ASSUME NEW st, Good(st), NEW p \in Sides
    PROVE  /\ Cardinality(OwnCells(st, p)) \in Nat
           /\ haveRemainingHome(st, p) <=> AllAtHome(st, p)
           /\ AllAtHome(st, p) => st.m_no_home[p] = Cardinality(OwnCells(st, p))
           /\ notHaveStones(st, p) <=> OwnCells(st, p) = {}
           /\ OwnCells(st, p) = {} => SideMoves(st, p) = {}
<1> DEFINE own == OwnCells(st, p)
           homes == {l \in own : l[2] = OB_HOME_ROW}
           ids == {Id(p, l) : l \in own}
           f == [l \in own |-> Id(p, l)]
<1>1. own \in SUBSET Cells
  BY DEF OwnCells
<1>2. st.m_stone_id[p] = ids /\ st.m_no_home[p] = Cardinality(homes)
  BY DEF Good, Views
<1>3. IsFiniteSet(own) /\ Cardinality(own) \in Nat
  BY <1>1, CellsFinite
<1>4. Cardinality(ids) = Cardinality(own)
  <2>1. f \in [own -> ids] /\ \A z \in ids : \E x \in own : f[x] = z
    OBVIOUS
  <2>2. \A x, y \in own : f[x] = f[y] => x = y
    BY <1>1, LocFacts
  <2> HIDE DEF f, own, ids
  <2> QED
    BY <1>3, <2>1, <2>2, SameSize
<1>5. homes \in SUBSET own /\ IsFiniteSet(homes) /\ Cardinality(homes) \in Nat
  BY <1>1, CellsFinite
<1>6. Cardinality(homes) = Cardinality(own) <=> \A l \in own : l[2] = OB_HOME_ROW
  <2>1. Cardinality(own) = Cardinality(homes) => own = homes
    <3> HIDE DEF own, homes
    <3> QED
      BY <1>3, <1>5, FS_Subset
  <2>2. own = homes <=> \A l \in own : l[2] = OB_HOME_ROW
    OBVIOUS
  <2> HIDE DEF own, homes
  <2> QED
    BY <2>1, <2>2
<1>7. Cardinality(own) = 0 <=> own = {}
  <2> HIDE DEF own
  <2> QED
    BY <1>3, FS_EmptySet
<1>8. haveRemainingHome(st, p) <=> AllAtHome(st, p)
  <2>1. haveRemainingHome(st, p) <=> Cardinality(homes) # 0 /\ Cardinality(homes) = Cardinality(own)
    BY <1>2, <1>4 DEF haveRemainingHome
  <2> QED
    BY <2>1, <1>6, <1>7 DEF AllAtHome
<1>9. notHaveStones(st, p) <=> own = {}
  BY <1>2 DEF notHaveStones
<1>10. own = {} => SideMoves(st, p) = {}
  BY MovesAre
<1> QED
  BY <1>2, <1>3, <1>6, <1>8, <1>9, <1>10 DEF AllAtHome

\* winner() on a State that has none.
LEMMA WinnerFound ==
    ASSUME NEW st, Good(st), st.m_winner = invalid
    PROVE  winner(st).m_winner = Found(st, st.m_player_to_move)
<1> DEFINE p == st.m_player_to_move
           q == opponent(p)
           n(x) == Cardinality(OwnCells(st, x))
           Set(w) == [st EXCEPT !.m_winner = w]
<1>1. p \in Sides /\ q \in Sides /\ StateType(st)
  BY SideFacts DEF Good, StateType
<1>2. \A w : Set(w).m_winner = w
  BY <1>1 DEF StateType
<1>3. \A x \in Sides : /\ haveRemainingHome(st, x) <=> AllAtHome(st, x)
                       /\ AllAtHome(st, x) => st.m_no_home[x] = n(x)
                       /\ notHaveStones(st, x) <=> OwnCells(st, x) = {}
                       /\ n(x) \in Nat
  BY HomeFacts
<1>4. hasMoves(st, q) <=> SideMoves(st, q) # {}
  BY DEF hasMoves
<1> HIDE DEF Set, n
<1>5. CASE AllAtHome(st, p)
  <2>1. winner(st) = Set(IF haveRemainingHome(st, q) THEN playerMostHomeStones(st) ELSE p)
    BY <1>1, <1>3, <1>5 DEF winner, Set
  <2>2. CASE AllAtHome(st, q)
    <3>1. winner(st).m_winner = playerMostHomeStones(st)
      BY <2>1, <2>2, <1>1, <1>2, <1>3
    <3>2. st.m_no_home[p] = n(p) /\ st.m_no_home[q] = n(q) /\ n(p) \in Nat /\ n(q) \in Nat
      BY <1>1, <1>3, <1>5, <2>2
    <3>3. playerMostHomeStones(st) =
             IF n(p) = n(q) THEN vacant ELSE IF n(p) > n(q) THEN p ELSE q
      <4>1. CASE p = agent
        <5>1. q = human
          BY <4>1, SideFacts
        <5> HIDE DEF p, q
        <5> QED
          BY <3>2, <4>1, <5>1 DEF playerMostHomeStones
      <4>2. CASE p = human
        <5>1. q = agent
          BY <4>2, SideFacts
        <5> HIDE DEF p, q
        <5> QED
          BY <3>2, <4>2, <5>1 DEF playerMostHomeStones
      <4> QED
        BY <4>1, <4>2, <1>1, SideFacts
    <3> QED
      BY <3>1, <3>3, <1>5, <2>2 DEF Found, n
  <2>3. CASE ~ AllAtHome(st, q)
    <3>1. winner(st).m_winner = p
      BY <2>1, <2>3, <1>1, <1>2, <1>3
    <3> QED
      BY <3>1, <1>5, <2>3 DEF Found
  <2> QED
    BY <2>2, <2>3
<1>6. CASE ~ AllAtHome(st, p) /\ OwnCells(st, q) = {}
  <2>1. winner(st) = Set(p)
    BY <1>1, <1>3, <1>6 DEF winner, Set
  <2> QED
    BY <2>1, <1>2, <1>6 DEF Found
<1>7. CASE ~ AllAtHome(st, p) /\ OwnCells(st, q) # {} /\ SideMoves(st, q) = {}
  <2>1. winner(st) = Set(q)
    BY <1>1, <1>3, <1>4, <1>7 DEF winner, Set
  <2> QED
    BY <2>1, <1>2, <1>7 DEF Found
<1>8. CASE ~ AllAtHome(st, p) /\ OwnCells(st, q) # {} /\ SideMoves(st, q) # {}
  <2>1. winner(st) = st
    BY <1>1, <1>3, <1>4, <1>8 DEF winner
  <2> QED
    BY <2>1, <1>8 DEF Found
<1> QED
  BY <1>5, <1>6, <1>7, <1>8

\* The winner that a move of main's State leaves.
LEMMA MoveWinner ==
    ASSUME NEW st, Good(st), st.m_winner = invalid,
           NEW m \in SideMoves(st, st.m_player_to_move)
    PROVE  /\ move_hash_winner(st, m).m_winner =
                 Found(move_hash_winner(st, m), st.m_player_to_move)
           /\ OwnCells(move_hash_winner(st, m), st.m_player_to_move) # {}
<1> DEFINE p  == st.m_player_to_move
           s1 == moved(st, m)
           s2 == hashed(s1, m)
           s3 == winner(s2)
           s4 == next(s3)
<1>0. p \in Sides
  BY DEF Good, StateType
<1>1. MoveShape(st, p, m)
  BY <1>0, MovesHaveShape
<1>2. /\ StateType(s1) /\ s1.m_player_to_move = p /\ s1.m_winner = invalid
      /\ Good(s1)
  BY <1>1, MovedFields, MovedGood
<1>3. m[2] \in OwnCells(s1, p)
  BY <1>1, MovedStones
<1>4. MoveKeys(p, m) \in SUBSET ({0, 1} \X Cells)
  BY <1>1, MovedKeys
<1>5. s4 = move_hash_winner(st, m)
  BY DEF move_hash_winner
<1> HIDE DEF s1, p
<1>6. /\ StateType(s2) /\ s2.m_board = s1.m_board /\ s2.m_stone_id = s1.m_stone_id
      /\ s2.m_no_home = s1.m_no_home /\ s2.m_player_to_move = p /\ s2.m_winner = invalid
  <2>1. s2 = [s1 EXCEPT !.m_zobrist_hash = Xor(s1.m_zobrist_hash, MoveKeys(p, m))]
    BY <1>2 DEF hashed
  <2>2. Xor(s1.m_zobrist_hash, MoveKeys(p, m)) \in SUBSET ({0, 1} \X Cells)
    BY <1>2, <1>4 DEF StateType, Xor
  <2> HIDE DEF s2
  <2> QED
    BY <2>1, <2>2, <1>2 DEF StateType
<1> HIDE DEF s2
<1>7. Good(s2) /\ \A x : OwnCells(s2, x) = OwnCells(s1, x)
  BY <1>2, <1>6, GoodFrame
<1>8. s3.m_winner = Found(s2, p)
  BY <1>6, <1>7, WinnerFound
<1>9. /\ StateType(s3) /\ s3.m_board = s2.m_board /\ s3.m_stone_id = s2.m_stone_id
      /\ s3.m_no_home = s2.m_no_home /\ s3.m_player_to_move = p
  BY <1>6, WinnerFields
<1> HIDE DEF s3
<1>10. /\ StateType(s4) /\ s4.m_board = s2.m_board /\ s4.m_stone_id = s2.m_stone_id
       /\ s4.m_no_home = s2.m_no_home /\ s4.m_winner = s3.m_winner
  <2>1. opponent(p) \in Sides
    BY <1>0, SideFacts DEF p
  <2> QED
    BY <2>1, <1>9 DEF next, StateType
<1> HIDE DEF s4
<1>11. /\ \A x : OwnCells(s4, x) = OwnCells(s2, x)
       /\ \A x : SideMoves(s4, x) = SideMoves(s2, x)
  BY <1>7, <1>10, GoodFrame
<1>12. Found(s4, p) = Found(s2, p)
  BY <1>11 DEF Found, AllAtHome
<1> QED
  BY <1>3, <1>5, <1>7, <1>8, <1>10, <1>11, <1>12 DEF p

\* The documented end is when winner() has found someone.
LEMMA FoundAtEnd ==
    ASSUME NEW st, Good(st), NEW p \in Sides, OwnCells(st, p) # {}
    PROVE  Found(st, p) # invalid <=>
              \/ \A l \in OwnCells(st, p) : l[2] = OB_HOME_ROW
              \/ SideMoves(st, opponent(p)) = {}
<1>1. opponent(p) \in Sides /\ p # invalid /\ opponent(p) # invalid /\ vacant # invalid
  BY SideFacts
<1>2. OwnCells(st, opponent(p)) = {} => SideMoves(st, opponent(p)) = {}
  BY <1>1, HomeFacts
<1> QED
  BY <1>1, <1>2 DEF Found, AllAtHome

\* Nobody has won at the start, and the side to move can move.
LEMMA StartOpen ==
    ASSUME NEW st \in StartState, NEW p \in Sides
    PROVE  SideMoves(st, p) # {} /\ ~ \A l \in OwnCells(st, p) : l[2] = OB_HOME_ROW
<1>0. S \in Nat /\ S >= 3 /\ OB_HOME_ROW = 2 * S - 3
  BY Dimensions
<1>1. <<1, 1>> \in Cells
  <2>1. 1 <= S - 1 /\ 1 \in 1 .. 2 * S - 3 /\ 1 \in 1 .. 2 * S - 1 /\ (1 - 1) % 2 = 0
    BY <1>0
  <2> QED
    BY <2>1, CellFacts
<1>2. <<2, 2>> \in Cells
  <2>1. 2 <= S - 1 /\ 2 \in 1 .. 2 * S - 3 /\ 2 \in 2 .. 2 * S - 2 /\ (2 - 2) % 2 = 0
    BY <1>0
  <2> QED
    BY <2>1, CellFacts
<1>3. /\ Good(st) /\ <<1, 1>> \in OwnCells(st, p) /\ st.m_board[p][<<2, 2>>] = vacant
  <2>1. 2 # 1 /\ 2 # OB_HOME_ROW
    BY <1>0
  <2> QED
    BY <1>1, <1>2, <2>1, StartGood DEF Row
<1>4. One(<<1, 1>>, 1) = <<2, 2>>
  BY DEF One
<1>5. StepMove(st.m_board[p], <<1, 1>>, 1, <<<<1, 1>>, <<2, 2>>>>)
  BY <1>2, <1>3, <1>4 DEF StepMove
<1>6. SideMoves(st, p) # {}
  <2> DEFINE l == <<1, 1>>
             m == <<<<1, 1>>, <<2, 2>>>>
  <2>1. l \in OwnCells(st, p) /\ 1 \in {1, -1} /\ StepMove(st.m_board[p], l, 1, m)
    BY <1>3, <1>5
  <2> HIDE DEF l, m
  <2>2. m \in SideMoves(st, p)
    BY <2>1, <1>3, MovesAre
  <2> QED
    BY <2>2
<1>7. <<1, 1>>[2] # OB_HOME_ROW
  BY <1>0
<1> QED
  BY <1>3, <1>6, <1>7

\* Every step of a match leaves it ended exactly as documented.
LEMMA EndStep ==
    ASSUME OInv, EndsAsDocumented, SearchNext
    PROVE  EndsAsDocumented'
<1> DEFINE At(st) == LET q == st.m_player_to_move
                         cells == OwnCells(st, opponent(q))
                     IN  st.m_winner # invalid <=>
                           \/ \A l \in cells : l[2] = OB_HOME_ROW
                           \/ SideMoves(st, q) = {}
<1>0. /\ EndsAsDocumented <=> (phase = "match" => At(state))
      /\ EndsAsDocumented' <=> (phase' = "match" => At(state'))
  BY DEF EndsAsDocumented
<1>1. ASSUME NEW st \in StartState PROVE At(st)
  <2>1. Good(st) /\ st.m_player_to_move \in Sides /\ opponent(st.m_player_to_move) \in Sides
    BY StartGood, SideFacts DEF Good, StateType
  <2>2. st.m_winner = invalid
    BY StartGood
  <2> QED
    BY <2>1, <2>2, StartOpen
<1>2. CASE PlayMove
  <2>1. PICK m \in moves(state) : state' = move_hash_winner(state, m)
    BY <1>2 DEF PlayMove
  <2> DEFINE p == state.m_player_to_move
             st2 == move_hash_winner(state, m)
  <2>2. /\ Good(state) /\ state.m_winner = invalid /\ p \in Sides
        /\ m \in SideMoves(state, p)
    BY <1>2 DEF PlayMove, OInv, moves, Good, StateType
  <2>3. Follows(state, m, st2)
    BY <2>2, WholeMoves
  <2>4. Good(st2) /\ st2.m_player_to_move = opponent(p)
    BY <2>2, <2>3, FollowsGood DEF Follows
  <2>5. st2.m_winner = Found(st2, p) /\ OwnCells(st2, p) # {}
    BY <2>2, MoveWinner
  <2>6. opponent(opponent(p)) = p
    BY <2>2, SideFacts
  <2> HIDE DEF st2, p
  <2>7. At(st2)
    <3>1. p \in Sides
      BY <2>2 DEF p
    <3> QED
      BY <3>1, <2>4, <2>5, <2>6, FoundAtEnd
  <2> HIDE DEF At
  <2> QED
    BY <1>0, <2>1, <2>7 DEF st2
<1> HIDE DEF At
<1>3. CASE NextMatch
  BY <1>0, <1>1, <1>3 DEF NextMatch
<1>4. CASE CopyState
  BY <1>0, <1>4 DEF CopyState
<1>5. CASE SelectMove
  BY <1>0, <1>5 DEF SelectMove
<1>6. CASE ExpandMove
  BY <1>0, <1>6 DEF ExpandMove
<1>7. CASE NoExpansion
  BY <1>0, <1>7 DEF NoExpansion
<1>8. CASE SimulateMove
  BY <1>0, <1>8 DEF SimulateMove
<1>9. CASE Discard
  BY <1>0, <1>1, <1>9 DEF Discard
<1> QED
  BY <1>2, <1>3, <1>4, <1>5, <1>6, <1>7, <1>8, <1>9 DEF SearchNext, MatchNext

EInv == OInv /\ EndsAsDocumented

\* Both invariants hold while main plays, whether or not a search is followed.
LEMMA EInvAlways ==
    /\ SearchSpec => []EInv
    /\ MatchSpec => []EInv
<1>1. Init => EInv
  <2> SUFFICES ASSUME Init PROVE EInv
    OBVIOUS
  <2>1. state \in StartState /\ phase = "match"
    BY DEF Init
  <2>2. /\ Good(state) /\ HashOK(state) /\ state.m_winner = invalid
        /\ state.m_player_to_move \in Sides /\ opponent(state.m_player_to_move) \in Sides
    BY <2>1, StartGood, SideFacts DEF Good, StateType
  <2> QED
    BY <2>1, <2>2, StartOpen DEF EInv, OInv, EndsAsDocumented
<1>2. EInv /\ [SearchNext]_vars => EInv'
  <2> SUFFICES ASSUME EInv, [SearchNext]_vars PROVE EInv'
    OBVIOUS
  <2>1. CASE SearchNext
    BY <2>1, OInvStep, EndStep DEF EInv
  <2>2. CASE UNCHANGED vars
    BY <2>2 DEF vars, EInv, OInv, EndsAsDocumented
  <2> QED
    BY <2>1, <2>2
<1>3. [MatchNext]_vars => [SearchNext]_vars
  BY DEF SearchNext
<1>4. SearchSpec => []EInv
  BY <1>1, <1>2, PTL DEF SearchSpec
<1>5. MatchSpec => []EInv
  BY <1>1, <1>2, <1>3, PTL DEF MatchSpec
<1> QED
  BY <1>4, <1>5

\* EndsAsDocumented: a match is over exactly when the side that moved has all its
\* stones home or the side to move has no move, for boards of every size.
THEOREM EndsAsDocumentedHolds == MatchSpec => []EndsAsDocumented
<1>1. EInv => EndsAsDocumented
  BY DEF EInv
<1> QED
  BY <1>1, EInvAlways, PTL

-----------------------------------------------------------------------------
(* humanMove() and randomMove().                                           *)

\* The human, who points at hexagons that are numbered as the agent sees them,
\* can make every move.
LEMMA HumanCan ==
    ASSUME NEW st, Good(st), NEW m \in SideMoves(st, human)
    PROVE  humanMove(st, Id(human, m[1]), Id(human, m[2])) = {m}
<1> DEFINE b == st.m_board[human]
           f == Id(human, m[1])
           t == Id(human, m[2])
<1>0. human \in Sides /\ human # agent /\ opponent(human) = agent
  BY SideFacts
<1>1. MoveShape(st, human, m)
  BY <1>0, MovesHaveShape
<1>2. m[1] \in Cells /\ m[2] \in Cells /\ m = <<m[1], m[2]>>
  BY <1>1 DEF MoveShape
<1>3. \A l \in Cells : /\ Mirror(l) \in Cells /\ Mirror(Mirror(l)) = l
                       /\ Id(human, l) = IdOf[Mirror(l)]
                       /\ LocationOf[Id(human, l)] = Mirror(l)
  BY <1>0, CellFacts, MirrorFacts, LocFacts DEF Id
<1>4. \A l \in Cells : /\ l[1] \in Int /\ l[2] \in Int
                       /\ Mirror(l)[1] = 2 * S - l[1] /\ Mirror(l)[2] = 2 * S - 2 - l[2]
  <2>1. \A l \in Cells : l = <<l[1], l[2]>> /\ l[1] \in Int /\ l[2] \in Int
    BY CellFacts, Dimensions
  <2> QED
    BY <2>1, MirrorFacts
<1>5. PICK d \in {1, 2} : /\ m[2][2] = m[1][2] + d
                          /\ m[2][1] = m[1][1] + d \/ m[2][1] = m[1][1] - d
  <2>1. PICK l \in OwnCells(st, human), dc \in {1, -1} :
           StepMove(b, l, dc, m) \/ JumpMove(b, human, l, dc, m)
    BY <1>0, MovesAre
  <2>2. l \in Cells
    BY DEF OwnCells
  <2>3. /\ One(l, dc)[2] = l[2] + 1 /\ Two(l, dc)[2] = l[2] + 2
        /\ One(l, dc)[1] = l[1] + dc /\ Two(l, dc)[1] = l[1] + 2 * dc
        /\ l[1] \in Int
    BY <2>2, AheadFacts
  <2>4. m[1] = l /\ (m[2] = One(l, dc) \/ m[2] = Two(l, dc))
    BY <2>1 DEF StepMove, JumpMove
  <2>5. dc = 1 \/ dc = -1
    OBVIOUS
  <2>6. CASE m[2] = One(l, dc)
    <3>1. m[2][2] = m[1][2] + 1 /\ (m[2][1] = m[1][1] + 1 \/ m[2][1] = m[1][1] - 1)
      BY <2>3, <2>4, <2>5, <2>6
    <3> QED
      BY <3>1
  <2>7. CASE m[2] = Two(l, dc)
    <3>1. m[2][2] = m[1][2] + 2 /\ (m[2][1] = m[1][1] + 2 \/ m[2][1] = m[1][1] - 2)
      BY <2>3, <2>4, <2>5, <2>7
    <3> QED
      BY <3>1
  <2> QED
    BY <2>4, <2>6, <2>7
<1>6. validator(f, t)
  <2>1. /\ LocationOf[f] = Mirror(m[1]) /\ LocationOf[t] = Mirror(m[2])
    BY <1>2, <1>3
  <2>2. /\ m[1][1] \in Int /\ m[1][2] \in Int /\ m[2][1] \in Int /\ m[2][2] \in Int
        /\ Mirror(m[1])[1] = 2 * S - m[1][1] /\ Mirror(m[1])[2] = 2 * S - 2 - m[1][2]
        /\ Mirror(m[2])[1] = 2 * S - m[2][1] /\ Mirror(m[2])[2] = 2 * S - 2 - m[2][2]
    BY <1>2, <1>4
  <2> DEFINE x == LocationOf[f][1] - LocationOf[t][1]
             y == LocationOf[f][2] - LocationOf[t][2]
  <2>3. x = m[2][1] - m[1][1] /\ y = m[2][2] - m[1][2]
    BY <2>1, <2>2, Dimensions
  <2>4. y = d /\ (x = d \/ x = -d)
    BY <2>2, <2>3, <1>5
  <2>5. validator(f, t) <=> /\ (IF x < 0 THEN -x ELSE x) \in {1, 2}
                            /\ (IF y < 0 THEN -y ELSE y) = (IF x < 0 THEN -x ELSE x)
    BY DEF validator
  <2> HIDE DEF x, y
  <2> QED
    BY <2>4, <2>5
<1>7. <<Mirror(LocationOf[f]), Mirror(LocationOf[t])>> = m
  BY <1>2, <1>3
<1>8. /\ b[m[1]] = human /\ b[m[2]] = vacant
      /\ m[2][2] - m[1][2] = 2 => b[captured(m)] = agent
  BY <1>0, <1>1 DEF MoveShape, isCapture
<1> HIDE DEF f, t, b
<1>9. humanMove(st, f, t) = {m}
  BY <1>6, <1>7, <1>8 DEF humanMove, b
<1> QED
  BY <1>9 DEF f, t

\* HumanMovesComplete: whatever moves() lists for the human, humanMove() lets
\* through, for boards of every size.
THEOREM HumanMovesCompleteHolds == MatchSpec => []HumanMovesComplete
<1>1. EInv => HumanMovesComplete
  <2> SUFFICES ASSUME EInv, state.m_player_to_move = human, NEW m \in moves(state)
               PROVE  humanMove(state, Id(human, m[1]), Id(human, m[2])) = {m}
    BY DEF HumanMovesComplete
  <2>1. Good(state) /\ m \in SideMoves(state, human)
    BY DEF EInv, OInv, moves
  <2> QED
    BY <2>1, HumanCan
<1> QED
  BY <1>1, EInvAlways, PTL

\* The moves of the stone with this id, and of several stones.
MovesOf(st, p, id) ==
    ForwardMove(st.m_board[p], Loc(p, id), 1) \cup ForwardMove(st.m_board[p], Loc(p, id), -1)
MovesOfAll(st, p, ids) == UNION {MovesOf(st, p, id) : id \in ids}

\* What randomMove() should return when only these stones are left to draw.
Drawable(st, p, ids) ==
    IF MovesOfAll(st, p, ids) = {} THEN {{}} ELSE {{m} : m \in MovesOfAll(st, p, ids)}

\* A drawn stone gives each of its moves, by one of the two tosses, or none if it
\* has none.
LEMMA StoneMoves ==
    ASSUME NEW st, NEW p, NEW id
    PROVE  /\ MovesOf(st, p, id) = {} => StoneMove(st, p, id) = {{}}
           /\ MovesOf(st, p, id) # {} => StoneMove(st, p, id) = {{m} : m \in MovesOf(st, p, id)}
<1> DEFINE to(dc) == ForwardMove(st.m_board[p], Loc(p, id), dc)
           x == to(1)
           y == to(-1)
<1>1. StoneMove(st, p, id) = {IF x # {} THEN x ELSE y, IF y # {} THEN y ELSE x}
  <2>1. StoneMove(st, p, id) = {IF to(dc) # {} THEN to(dc) ELSE to(-dc) : dc \in {1, -1}}
    BY DEF StoneMove
  <2>2. -(-1) = 1
    <3>1. \A i \in Int : i + 1 = 0 => -i = 1
      OBVIOUS
    <3>2. -1 \in Int /\ -1 + 1 = 0
      OBVIOUS
    <3> QED
      BY <3>1, <3>2
  <2> HIDE DEF to
  <2> QED
    BY <2>1, <2>2
<1>2. /\ x = {} \/ \E a : x = {a}
      /\ y = {} \/ \E a : y = {a}
  <2>1. \A dc : to(dc) = {} \/ \E a : to(dc) = {a}
    BY DEF ForwardMove
  <2> HIDE DEF to
  <2> QED
    BY <2>1
<1>3. MovesOf(st, p, id) = x \cup y
  BY DEF MovesOf
<1> HIDE DEF x, y
<1>4. CASE x = {} /\ y = {}
  BY <1>1, <1>3, <1>4
<1>5. CASE x # {} /\ y = {}
  <2>1. PICK a : x = {a}
    BY <1>2, <1>5
  <2>2. StoneMove(st, p, id) = {{a}} /\ MovesOf(st, p, id) = {a}
    BY <2>1, <1>1, <1>3, <1>5
  <2> QED
    BY <2>2
<1>6. CASE x = {} /\ y # {}
  <2>1. PICK a : y = {a}
    BY <1>2, <1>6
  <2>2. StoneMove(st, p, id) = {{a}} /\ MovesOf(st, p, id) = {a}
    BY <2>1, <1>1, <1>3, <1>6
  <2> QED
    BY <2>2
<1>7. CASE x # {} /\ y # {}
  <2>1. PICK a, c : x = {a} /\ y = {c}
    BY <1>2, <1>7
  <2>2. StoneMove(st, p, id) = {{a}, {c}} /\ MovesOf(st, p, id) = {a, c}
    BY <2>1, <1>1, <1>3
  <2> QED
    BY <2>2
<1> QED
  BY <1>4, <1>5, <1>6, <1>7

\* One turn of randomMove()'s loop, with the rest of the loop in f.
Draw(st, p, f, ids) ==
    IF ids = {} THEN {{}}
    ELSE UNION {UNION {IF m # {} THEN {m} ELSE f[ids \ {id}] :
                          m \in StoneMove(st, p, id)} : id \in ids}

\* One draw: if the draws without any one stone can end as they should, so can this one.
LEMMA DrawFacts ==
    ASSUME NEW st, NEW p, NEW ids, NEW f,
           \A id \in ids : f[ids \ {id}] = Drawable(st, p, ids \ {id})
    PROVE  Draw(st, p, f, ids) = Drawable(st, p, ids)
<1> DEFINE M(id) == MovesOf(st, p, id)
           All == MovesOfAll(st, p, ids)
<1>1. \A m : m \in All <=> \E id \in ids : m \in M(id)
  BY DEF MovesOfAll
<1>2. CASE ids = {}
  BY <1>1, <1>2 DEF Draw, Drawable
<1>3. CASE ids # {}
  <2>1. ASSUME NEW id \in ids, M(id) = {} PROVE f[ids \ {id}] = Drawable(st, p, ids)
    <3>1. MovesOfAll(st, p, ids \ {id}) = All
      BY <2>1 DEF MovesOfAll
    <3> QED
      BY <3>1 DEF Drawable
  <2> DEFINE Turn(id) == UNION {IF m # {} THEN {m} ELSE f[ids \ {id}] : m \in StoneMove(st, p, id)}
  <2>2. ASSUME NEW id \in ids, M(id) = {} PROVE Turn(id) = Drawable(st, p, ids)
    <3>1. StoneMove(st, p, id) = {{}}
      BY <2>2, StoneMoves
    <3>2. Turn(id) = f[ids \ {id}]
      BY <3>1
    <3> QED
      BY <3>2, <2>1, <2>2
  <2>3. ASSUME NEW id \in ids, M(id) # {} PROVE Turn(id) = {{m} : m \in M(id)}
    <3>1. StoneMove(st, p, id) = {{m} : m \in M(id)}
      BY <2>3, StoneMoves
    <3> HIDE DEF M
    <3>2. \A s \in StoneMove(st, p, id) : s # {}
      BY <3>1
    <3>3. Turn(id) = UNION {{s} : s \in StoneMove(st, p, id)}
      BY <3>2
    <3>4. Turn(id) = StoneMove(st, p, id)
      BY <3>3
    <3> QED
      BY <3>1, <3>4
  <2>4. Draw(st, p, f, ids) = UNION {Turn(id) : id \in ids}
    BY <1>3 DEF Draw
  <2> HIDE DEF Turn, M
  <2>5. CASE All = {}
    <3>1. \A id \in ids : Turn(id) = {{}}
      BY <2>2, <2>5, <1>1 DEF Drawable, M
    <3>2. UNION {Turn(id) : id \in ids} = {{}}
      BY <3>1, <1>3
    <3> QED
      BY <3>2, <2>4, <2>5 DEF Drawable
  <2>6. CASE All # {}
    <3>1. Drawable(st, p, ids) = {{m} : m \in All}
      BY <2>6 DEF Drawable
    <3> HIDE DEF All
    <3>2. ASSUME NEW x \in UNION {Turn(id) : id \in ids} PROVE x \in {{m} : m \in All}
      <4>1. PICK id \in ids : x \in Turn(id)
        OBVIOUS
      <4>2. CASE M(id) = {}
        BY <4>1, <4>2, <2>2, <3>1
      <4>3. CASE M(id) # {}
        <5>1. PICK m \in M(id) : x = {m}
          BY <4>1, <4>3, <2>3
        <5>2. m \in All
          BY <5>1, <1>1
        <5> QED
          BY <5>1, <5>2
      <4> QED
        BY <4>2, <4>3
    <3>3. ASSUME NEW m \in All PROVE {m} \in UNION {Turn(id) : id \in ids}
      <4>1. PICK id \in ids : m \in M(id)
        BY <1>1
      <4>2. {m} \in Turn(id)
        BY <4>1, <2>3
      <4> QED
        BY <4>1, <4>2
    <3> QED
      BY <3>1, <3>2, <3>3, <2>4
  <2> QED
    BY <2>5, <2>6
<1> QED
  BY <1>2, <1>3

\* The whole loop.
LEMMA RandomMoveIs ==
    ASSUME NEW st, Good(st)
    PROVE  randomMove(st) = Drawable(st, st.m_player_to_move,
                                     st.m_stone_id[st.m_player_to_move])
<1> DEFINE p == st.m_player_to_move
           X == st.m_stone_id[p]
           F(f) == f = [ids \in SUBSET X |-> Draw(st, p, f, ids)]
           g == [ids \in SUBSET X |-> Drawable(st, p, ids)]
           from == CHOOSE f : F(f)
<1>1. randomMove(st) = from[X]
  BY DEF randomMove, Draw
<1>2. F(g)
  <2>1. ASSUME NEW ids \in SUBSET X PROVE g[ids] = Draw(st, p, g, ids)
    <3>1. \A id \in ids : g[ids \ {id}] = Drawable(st, p, ids \ {id})
      OBVIOUS
    <3>2. g[ids] = Drawable(st, p, ids)
      OBVIOUS
    <3> HIDE DEF g
    <3> QED
      BY <3>1, <3>2, DrawFacts
  <2>2. g = [ids \in SUBSET X |-> g[ids]]
    OBVIOUS
  <2> HIDE DEF g
  <2> QED
    BY <2>1, <2>2
<1>3. F(from)
  <2> HIDE DEF F, g
  <2> QED
    BY <1>2
<1> HIDE DEF from
<1>4. IsFiniteSet(X)
  <2>1. X \in SUBSET Ids
    BY DEF Good, StateType
  <2>2. IsFiniteSet(Ids)
    BY Hexagons, FS_Interval DEF Ids
  <2> QED
    BY <2>1, <2>2, FS_Subset
<1>5. \A ids \in SUBSET X : IsFiniteSet(ids) /\ Cardinality(ids) \in Nat
  BY <1>4, FS_Subset, FS_CardinalityType
<1> HIDE DEF X
<1>6. \A ids \in SUBSET X : from[ids] = Drawable(st, p, ids)
  <2> DEFINE Bad == {ids \in SUBSET X : from[ids] # Drawable(st, p, ids)}
             N == {Cardinality(ids) : ids \in Bad}
  <2> SUFFICES ASSUME Bad # {} PROVE FALSE
    OBVIOUS
  <2>1. N \in SUBSET Nat /\ N # {}
    BY <1>5
  <2>2. PICK n \in N : \A j \in N : n <= j
    BY <2>1, LeastNumber
  <2>3. PICK ids \in Bad : Cardinality(ids) = n
    BY <2>2
  <2>4. ASSUME NEW id \in ids PROVE from[ids \ {id}] = Drawable(st, p, ids \ {id})
    <3>1. IsFiniteSet(ids) /\ Cardinality(ids) \in Nat
      BY <1>5, <2>3
    <3>2. Cardinality(ids \ {id}) = Cardinality(ids) - 1
      BY <3>1, FS_RemoveElement
    <3>3. ids \ {id} \notin Bad
      <4> SUFFICES ASSUME ids \ {id} \in Bad PROVE FALSE
        OBVIOUS
      <4>1. n <= Cardinality(ids \ {id})
        BY <2>2
      <4> QED
        BY <4>1, <3>1, <3>2, <2>3
    <3> QED
      BY <3>3, <2>3
  <2>5. from[ids] = Draw(st, p, from, ids)
    BY <1>3, <2>3
  <2>6. from[ids] = Drawable(st, p, ids)
    BY <2>4, <2>5, DrawFacts
  <2> QED
    BY <2>3, <2>6
<1> QED
  BY <1>1, <1>6 DEF X

\* RandomMoveExact: randomMove() can return every move of the side to move and
\* nothing else, for boards of every size.
THEOREM RandomMoveExactHolds == MatchSpec => []RandomMoveExact
<1>1. EInv => RandomMoveExact
  <2> SUFFICES ASSUME EInv, phase = "match", state.m_winner = invalid
               PROVE  randomMove(state) = {{m} : m \in moves(state)}
    BY DEF RandomMoveExact
  <2> DEFINE p == state.m_player_to_move
  <2>1. Good(state)
    BY DEF EInv, OInv
  <2>2. moves(state) = SideMoves(state, p)
    BY SideFacts DEF moves
  <2>3. SideMoves(state, p) # {}
    BY DEF EInv, EndsAsDocumented
  <2>4. MovesOfAll(state, p, state.m_stone_id[p]) = SideMoves(state, p)
    BY DEF MovesOfAll, MovesOf, SideMoves
  <2>5. randomMove(state) = Drawable(state, p, state.m_stone_id[p])
    BY <2>1, RandomMoveIs
  <2> QED
    BY <2>2, <2>3, <2>4, <2>5 DEF Drawable
<1> QED
  BY <1>1, EInvAlways, PTL

-----------------------------------------------------------------------------
(* Matches end: every move lowers the rows that are left to go.            *)

\* The stones of side p in its first r rows.
FirstRows(st, p, r) == {l \in OwnCells(st, p) : l[2] <= r}
InRows(st, p, r)    == Cardinality(FirstRows(st, p, r))

\* f sums up the stones in the first rows as RowsToGo() does.
SumsRows(st, f) ==
    /\ f[0] = 0
    /\ \A r \in 0 .. OB_HOME_ROW - 1 : f[r] \in Nat
    /\ \A r \in 1 .. OB_HOME_ROW - 1 :
          f[r] = f[r - 1] + InRows(st, agent, r) + InRows(st, human, r)

\* The stones in the first rows can be counted.
LEMMA RowFacts ==
    ASSUME NEW st, NEW p, NEW r
    PROVE  /\ IsFiniteSet(FirstRows(st, p, r)) /\ InRows(st, p, r) \in Nat
           /\ FirstRows(st, p, r) \subseteq Cells
<1>1. FirstRows(st, p, r) \in SUBSET Cells
  BY DEF FirstRows, OwnCells
<1> QED
  BY <1>1, CellsFinite DEF InRows

\* RowsToGo() is such a sum: that of the sizes of sets of stones and rows.
LEMMA RowsToGoSums ==
    ASSUME NEW st
    PROVE  \E f : SumsRows(st, f) /\ RowsToGo(st) = f[OB_HOME_ROW - 1]
<1> DEFINE H == OB_HOME_ROW - 1
           rows(p, r) == InRows(st, p, r)
           E(f, r) == IF r = 0 THEN 0 ELSE f[r - 1] + rows(agent, r) + rows(human, r)
           F(f) == f = [r \in 0 .. H |-> E(f, r)]
           A(p, r) == {x \in Cells \X (1 .. r) : x[1] \in OwnCells(st, p) /\ x[1][2] <= x[2]}
           g == [r \in 0 .. H |-> Cardinality(A(agent, r)) + Cardinality(A(human, r))]
           sum == CHOOSE f : F(f)
<1>0. H \in Nat /\ H >= 2
  BY Dimensions
<1>1. \A r \in 0 .. H, p \in Sides : IsFiniteSet(A(p, r)) /\ Cardinality(A(p, r)) \in Nat
  <2> SUFFICES ASSUME NEW r \in 0 .. H, NEW p \in Sides
               PROVE  IsFiniteSet(A(p, r)) /\ Cardinality(A(p, r)) \in Nat
    OBVIOUS
  <2>1. IsFiniteSet(Cells) /\ IsFiniteSet(1 .. r)
    BY <1>0, CellsFinite, FS_Interval
  <2>2. IsFiniteSet(Cells \X (1 .. r))
    BY <2>1, FS_Product
  <2>3. A(p, r) \in SUBSET (Cells \X (1 .. r))
    OBVIOUS
  <2> HIDE DEF A
  <2>4. IsFiniteSet(A(p, r))
    BY <2>2, <2>3, FS_Subset
  <2> QED
    BY <2>4, FS_CardinalityType
<1>2. \A p \in Sides : Cardinality(A(p, 0)) = 0
  <2>1. \A p \in Sides : A(p, 0) = {}
    OBVIOUS
  <2> HIDE DEF A
  <2> QED
    BY <2>1, FS_EmptySet
<1>3. ASSUME NEW p \in Sides, NEW r \in 1 .. H
      PROVE  Cardinality(A(p, r)) = Cardinality(A(p, r - 1)) + rows(p, r)
  <2> DEFINE D == {x \in Cells \X {r} : x[1] \in OwnCells(st, p) /\ x[1][2] <= r}
             h == [l \in FirstRows(st, p, r) |-> <<l, r>>]
  <2>0. r \in Int /\ r - 1 \in 0 .. H /\ r \in 0 .. H
    BY <1>0
  <2>1. A(p, r) = A(p, r - 1) \cup D /\ A(p, r - 1) \cap D = {}
    <3>1. /\ \A k : k \in 1 .. r <=> k \in 1 .. r - 1 \/ k = r
          /\ r \notin 1 .. r - 1
      BY <2>0, <1>0
    <3> QED
      BY <3>1
  <2>2. /\ h \in [FirstRows(st, p, r) -> D]
        /\ \A x, y \in FirstRows(st, p, r) : h[x] = h[y] => x = y
    BY RowFacts DEF FirstRows
  <2>3. \A z \in D : \E x \in FirstRows(st, p, r) : h[x] = z
    <3> SUFFICES ASSUME NEW z \in D PROVE z[1] \in FirstRows(st, p, r) /\ <<z[1], r>> = z
      OBVIOUS
    <3> QED
      BY DEF FirstRows
  <2> HIDE DEF h, D, A
  <2>4. IsFiniteSet(D) /\ Cardinality(D) = rows(p, r)
    BY <2>2, <2>3, RowFacts, SameSize DEF InRows
  <2>5. Cardinality({}) = 0
    BY FS_EmptySet
  <2>6. /\ IsFiniteSet(A(p, r - 1)) /\ Cardinality(A(p, r - 1)) \in Nat
        /\ rows(p, r) \in Nat
    BY <1>1, <2>0, RowFacts
  <2>7. Cardinality(A(p, r)) = Cardinality(A(p, r - 1)) + Cardinality(D) - Cardinality({})
    BY <2>1, <2>4, <2>6, FS_Union
  <2> QED
    BY <2>4, <2>5, <2>6, <2>7
<1> HIDE DEF A
<1>4. agent \in Sides /\ human \in Sides
  BY SideFacts
<1>5. F(g)
  <2>1. ASSUME NEW r \in 0 .. H PROVE g[r] = E(g, r)
    <3>1. CASE r = 0
      BY <3>1, <1>0, <1>2, <1>4
    <3>2. CASE r # 0
      <4>1. r \in 1 .. H /\ r - 1 \in 0 .. H
        BY <3>2, <1>0
      <4>2. /\ g[r] = Cardinality(A(agent, r)) + Cardinality(A(human, r))
            /\ g[r - 1] = Cardinality(A(agent, r - 1)) + Cardinality(A(human, r - 1))
        BY <4>1
      <4>3. /\ Cardinality(A(agent, r)) = Cardinality(A(agent, r - 1)) + rows(agent, r)
            /\ Cardinality(A(human, r)) = Cardinality(A(human, r - 1)) + rows(human, r)
        BY <4>1, <1>3, <1>4
      <4>4. /\ Cardinality(A(agent, r - 1)) \in Nat /\ Cardinality(A(human, r - 1)) \in Nat
            /\ rows(agent, r) \in Nat /\ rows(human, r) \in Nat
        BY <4>1, <1>1, <1>4, RowFacts
      <4> HIDE DEF g, rows
      <4>5. g[r] = g[r - 1] + rows(agent, r) + rows(human, r)
        BY <4>2, <4>3, <4>4
      <4> QED
        BY <3>2, <4>5
    <3> QED
      BY <3>1, <3>2
  <2>2. g = [r \in 0 .. H |-> g[r]]
    OBVIOUS
  <2> HIDE DEF g, E
  <2> QED
    BY <2>1, <2>2
<1>6. F(sum)
  <2> HIDE DEF F, g
  <2> QED
    BY <1>5
<1>7. RowsToGo(st) = sum[H]
  BY DEF RowsToGo, InRows, FirstRows
<1> HIDE DEF sum, g
<1>8. \A r \in 0 .. H : sum[r] = E(sum, r)
  BY <1>6
<1>9. \A r \in 0 .. H : sum[r] \in Nat
  <2> DEFINE T == {r \in 0 .. H : sum[r] \notin Nat}
  <2> SUFFICES ASSUME T # {} PROVE FALSE
    OBVIOUS
  <2>1. PICK r \in T : \A j \in T : r <= j
    <3>1. T \in SUBSET Nat
      BY <1>0
    <3> QED
      BY <3>1, LeastNumber
  <2>2. CASE r = 0
    BY <2>1, <2>2, <1>8
  <2>3. CASE r # 0
    <3>1. r - 1 \in 0 .. H /\ ~ (r <= r - 1)
      BY <2>1, <2>3, <1>0
    <3>2. sum[r - 1] \in Nat /\ rows(agent, r) \in Nat /\ rows(human, r) \in Nat
      BY <3>1, <2>1, RowFacts
    <3> HIDE DEF rows
    <3>3. sum[r] = sum[r - 1] + rows(agent, r) + rows(human, r)
      BY <2>1, <2>3, <1>8
    <3> QED
      BY <3>2, <3>3, <2>1
  <2> QED
    BY <2>2, <2>3
<1>10. SumsRows(st, sum)
  <2>1. sum[0] = 0
    <3>1. 0 \in 0 .. H
      BY <1>0
    <3> QED
      BY <3>1, <1>8
  <2>2. \A r \in 1 .. H : sum[r] = sum[r - 1] + rows(agent, r) + rows(human, r)
    <3> SUFFICES ASSUME NEW r \in 1 .. H
                 PROVE  sum[r] = sum[r - 1] + rows(agent, r) + rows(human, r)
      OBVIOUS
    <3>1. r \in 0 .. H /\ r # 0
      BY <1>0
    <3> QED
      BY <3>1, <1>8
  <2> QED
    BY <2>1, <2>2, <1>9 DEF SumsRows
<1> QED
  BY <1>7, <1>10

\* If no row has more stones and row r0 has fewer, there is less to go.
LEMMA LessToGo ==
    ASSUME NEW st, NEW st2,
           \A p \in Sides : \A r \in Int : InRows(st2, p, r) <= InRows(st, p, r),
           NEW p0 \in Sides, NEW r0 \in 1 .. OB_HOME_ROW - 1,
           InRows(st2, p0, r0) < InRows(st, p0, r0)
    PROVE  RowsToGo(st2) < RowsToGo(st)
<1> DEFINE H == OB_HOME_ROW - 1
<1>0. H \in Nat /\ r0 \in 1 .. H
  BY Dimensions
<1>1. PICK f : SumsRows(st, f) /\ RowsToGo(st) = f[H]
  BY RowsToGoSums
<1>2. PICK f2 : SumsRows(st2, f2) /\ RowsToGo(st2) = f2[H]
  BY RowsToGoSums
<1> DEFINE c(r)  == InRows(st, agent, r) + InRows(st, human, r)
           c2(r) == InRows(st2, agent, r) + InRows(st2, human, r)
           Less(r) == f2[r] <= f[r] /\ (r >= r0 => f2[r] < f[r])
           T == {r \in 0 .. H : ~ Less(r)}
<1>3. /\ \A r \in 1 .. H : c2(r) \in Nat /\ c(r) \in Nat /\ c2(r) <= c(r)
      /\ c2(r0) < c(r0)
  <2>1. /\ agent \in Sides /\ human \in Sides /\ (p0 = agent \/ p0 = human)
    BY SideFacts
  <2>2. ASSUME NEW r \in 1 .. H
        PROVE  /\ InRows(st, agent, r) \in Nat /\ InRows(st, human, r) \in Nat
               /\ InRows(st2, agent, r) \in Nat /\ InRows(st2, human, r) \in Nat
               /\ InRows(st2, agent, r) <= InRows(st, agent, r)
               /\ InRows(st2, human, r) <= InRows(st, human, r)
    <3>1. r \in Int
      BY <1>0
    <3> QED
      BY <3>1, <2>1, RowFacts
  <2>3. \A r \in 1 .. H : c2(r) \in Nat /\ c(r) \in Nat /\ c2(r) <= c(r)
    BY <2>2
  <2>4. c2(r0) < c(r0)
    BY <1>0, <2>1, <2>2
  <2> QED
    BY <2>3, <2>4
<1>4. /\ f[0] = 0 /\ f2[0] = 0
      /\ \A r \in 0 .. H : f[r] \in Nat /\ f2[r] \in Nat
  BY <1>1, <1>2 DEF SumsRows
<1>5. ASSUME NEW r \in 1 .. H
      PROVE  f[r] = f[r - 1] + c(r) /\ f2[r] = f2[r - 1] + c2(r)
  <2>1. /\ f[r] = f[r - 1] + InRows(st, agent, r) + InRows(st, human, r)
        /\ f2[r] = f2[r - 1] + InRows(st2, agent, r) + InRows(st2, human, r)
    BY <1>1, <1>2 DEF SumsRows
  <2>2. r - 1 \in 0 .. H
    BY <1>0
  <2>3. /\ InRows(st, agent, r) \in Nat /\ InRows(st, human, r) \in Nat
        /\ InRows(st2, agent, r) \in Nat /\ InRows(st2, human, r) \in Nat
        /\ f[r - 1] \in Nat /\ f2[r - 1] \in Nat
    BY <1>4, <2>2, RowFacts
  <2> QED
    BY <2>1, <2>3
<1> HIDE DEF c, c2
<1>6. T = {}
  <2> SUFFICES ASSUME T # {} PROVE FALSE
    OBVIOUS
  <2>1. PICK r \in T : \A j \in T : r <= j
    <3>1. T \in SUBSET Nat
      BY <1>0
    <3> HIDE DEF T
    <3> QED
      BY <3>1, LeastNumber
  <2>2. CASE r = 0
    BY <2>1, <2>2, <1>0, <1>4
  <2>3. CASE r # 0
    <3>1. r - 1 \in 0 .. H /\ r \in 1 .. H /\ r \in 0 .. H /\ ~ (r <= r - 1)
      BY <2>1, <2>3, <1>0
    <3>2. Less(r - 1)
      BY <3>1, <2>1
    <3>3. /\ f[r] = f[r - 1] + c(r) /\ f2[r] = f2[r - 1] + c2(r)
          /\ c2(r) \in Nat /\ c(r) \in Nat /\ c2(r) <= c(r)
          /\ f[r - 1] \in Nat /\ f2[r - 1] \in Nat
          /\ r = r0 => c2(r) < c(r)
      BY <3>1, <1>3, <1>4, <1>5
    <3>4. r >= r0 => r - 1 >= r0 \/ r = r0
      BY <3>1, <1>0
    <3>5. Less(r)
      BY <3>2, <3>3, <3>4, <3>1
    <3> QED
      BY <3>5, <2>1
  <2> QED
    BY <2>2, <2>3
<1>7. f2[H] < f[H]
  <2>1. H \in 0 .. H /\ H >= r0
    BY <1>0
  <2>2. Less(H)
    BY <2>1, <1>6
  <2> QED
    BY <2>1, <2>2
<1> QED
  BY <1>1, <1>2, <1>7

\* A move takes one stone forwards, and no stone back.
LEMMA MoveNearer ==
    ASSUME NEW st, Good(st), NEW m \in SideMoves(st, st.m_player_to_move),
           NEW st2, Follows(st, m, st2)
    PROVE  RowsToGo(st2) < RowsToGo(st)
<1> DEFINE p == st.m_player_to_move
           q == opponent(p)
<1>0. /\ p \in Sides /\ q \in Sides /\ \A x \in Sides : x = p \/ x = q
  BY SideFacts DEF Good, StateType
<1>1. MoveShape(st, p, m)
  BY <1>0, MovesHaveShape
<1>2. /\ OwnCells(st2, p) = (OwnCells(st, p) \ {m[1]}) \cup {m[2]}
      /\ OwnCells(st2, q) = OwnCells(st, q) \ {Mirror(l) : l \in Prey(m)}
      /\ m[1] \in OwnCells(st, p) /\ m[2] \in Cells \ OwnCells(st, p)
  <2>1. /\ OwnCells(moved(st, m), p) = (OwnCells(st, p) \ {m[1]}) \cup {m[2]}
        /\ OwnCells(moved(st, m), q) = OwnCells(st, q) \ {Mirror(l) : l \in Prey(m)}
        /\ m[1] \in OwnCells(st, p) /\ m[2] \in Cells \ OwnCells(st, p)
    BY <1>1, MovedStones
  <2>2. \A x : OwnCells(st2, x) = OwnCells(moved(st, m), x)
    BY FollowsGood
  <2> HIDE DEF p, q
  <2> QED
    BY <2>1, <2>2
<1>3. /\ m[1][2] \in 1 .. 2 * S - 3 /\ m[2][2] \in 1 .. 2 * S - 3
      /\ m[1][2] < m[2][2]
  <2>1. m[1] \in Cells /\ m[2] \in Cells /\ (m[2][2] = m[1][2] + 1 \/ m[2][2] = m[1][2] + 2)
    BY <1>1 DEF MoveShape
  <2>2. \A l \in Cells : l[2] \in 1 .. 2 * S - 3
    <3>1. \A l \in Cells : l = <<l[1], l[2]>> /\ l[1] \in Int /\ l[2] \in Int
      BY CellFacts, Dimensions
    <3> QED
      BY <3>1, CellFacts
  <2> QED
    BY <2>1, <2>2, Dimensions
<1> HIDE DEF p, q
<1>4. ASSUME NEW r \in Int
      PROVE  InRows(st2, q, r) <= InRows(st, q, r)
  <2>1. FirstRows(st2, q, r) \in SUBSET FirstRows(st, q, r)
    BY <1>2 DEF FirstRows
  <2> QED
    BY <2>1, RowFacts, FS_Subset DEF InRows
<1>5. ASSUME NEW r \in Int
      PROVE  /\ InRows(st2, p, r) <= InRows(st, p, r)
             /\ r = m[1][2] => InRows(st2, p, r) < InRows(st, p, r)
  <2> DEFINE A == FirstRows(st, p, r)
             B == FirstRows(st2, p, r)
  <2>1. IsFiniteSet(A) /\ Cardinality(A) \in Nat /\ Cardinality(B) \in Nat
    BY RowFacts DEF InRows
  <2>2. CASE m[2][2] <= r
    <3>1. m[1] \in A /\ m[2] \notin A /\ B = (A \ {m[1]}) \cup {m[2]} /\ r # m[1][2]
      BY <1>2, <1>3, <2>2, Dimensions DEF FirstRows
    <3> HIDE DEF A, B
    <3>2. IsFiniteSet(A \ {m[1]}) /\ Cardinality(A \ {m[1]}) = Cardinality(A) - 1
      BY <3>1, <2>1, FS_RemoveElement
    <3>3. Cardinality(B) = Cardinality(A \ {m[1]}) + 1
      BY <3>1, <3>2, FS_AddElement
    <3> QED
      BY <3>1, <3>2, <3>3, <2>1 DEF InRows, A, B
  <2>3. CASE ~ (m[2][2] <= r)
    <3>1. B = A \ {m[1]}
      BY <1>2, <2>3 DEF FirstRows
    <3>2. r = m[1][2] => m[1] \in A
      BY <1>2, <1>3, Dimensions DEF FirstRows
    <3> HIDE DEF A, B
    <3>3. Cardinality(B) = IF m[1] \in A THEN Cardinality(A) - 1 ELSE Cardinality(A)
      BY <3>1, <2>1, FS_RemoveElement
    <3> QED
      BY <3>2, <3>3, <2>1 DEF InRows, A, B
  <2> QED
    BY <2>2, <2>3
<1>6. m[1][2] \in 1 .. OB_HOME_ROW - 1 /\ m[1][2] \in Int
  BY <1>3, Dimensions
<1>7. \A x \in Sides : \A r \in Int : InRows(st2, x, r) <= InRows(st, x, r)
  BY <1>0, <1>4, <1>5
<1> QED
  BY <1>0, <1>5, <1>6, <1>7, LessToGo

\* MovesBringEndNearer: every move of a match, a selection or a playout lowers the
\* rows left to go, so all of them are finite, for boards of every size.
THEOREM MovesBringEndNearerHolds == SearchSpec => MovesBringEndNearer
<1> DEFINE Nearer == \/ RowsToGo(state') < RowsToGo(state)
                     \/ state' = state
                     \/ phase' = "match" /\ state' \in StartState
<1>1. OInv /\ [SearchNext]_vars => [Nearer]_vars
  <2> SUFFICES ASSUME OInv, SearchNext PROVE Nearer
    OBVIOUS
  <2>1. ASSUME NEW m \in moves(state)
        PROVE  /\ RowsToGo(move_hash(state, m)) < RowsToGo(state)
               /\ RowsToGo(move_hash_winner(state, m)) < RowsToGo(state)
               /\ RowsToGo(move_winner(state, m)) < RowsToGo(state)
    <3>1. Good(state) /\ m \in SideMoves(state, state.m_player_to_move)
      BY DEF OInv, moves
    <3> QED
      BY <3>1, WholeMoves, MoveNearer
  <2>2. CASE PlayMove
    BY <2>1, <2>2 DEF PlayMove
  <2>3. CASE NextMatch
    BY <2>3 DEF NextMatch
  <2>4. CASE CopyState \/ NoExpansion
    BY <2>4 DEF CopyState, NoExpansion
  <2>5. CASE SelectMove
    BY <2>1, <2>5 DEF SelectMove
  <2>6. CASE ExpandMove
    BY <2>1, <2>6 DEF ExpandMove
  <2>7. CASE SimulateMove
    BY <2>1, <2>7 DEF SimulateMove
  <2>8. CASE Discard
    BY <2>8 DEF Discard
  <2> QED
    BY <2>2, <2>3, <2>4, <2>5, <2>6, <2>7, <2>8 DEF SearchNext, MatchNext
<1>2. [][Nearer]_vars => MovesBringEndNearer
  BY PTL DEF MovesBringEndNearer
<1> HIDE DEF Nearer
<1> QED
  BY <1>1, <1>2, OInvHolds, PTL DEF SearchSpec

-----------------------------------------------------------------------------
(* The match of the State is a match of OskaRules.                         *)

\* Where the agent sees the cell that side p sees at l, and the stones of a State
\* as the agent sees them.
Seen(p, l) == IF p = agent THEN l ELSE Mirror(l)
AgentView(st) == [p \in Sides |-> {LocationOf[id] : id \in st.m_stone_id[p]}]

\* The definitions that OskaRules shares with Oska mean the same in the instance.
LEMMA RulesNames ==
    /\ Rules!agent = agent /\ Rules!human = human /\ Rules!vacant = vacant
    /\ Rules!invalid = invalid /\ Rules!Sides = Sides
    /\ \A p : Rules!opponent(p) = opponent(p)
    /\ Rules!OB_HOME_ROW = OB_HOME_ROW
    /\ \A l : Rules!IsCell(l) <=> IsCell(l)
    /\ Rules!Cells = Cells
<1>1. /\ Rules!agent = agent /\ Rules!human = human /\ Rules!vacant = vacant
      /\ Rules!invalid = invalid /\ Rules!Sides = Sides
      /\ \A p : Rules!opponent(p) = opponent(p)
  BY DEF Rules!agent, agent, Rules!human, human, Rules!vacant, vacant,
     Rules!invalid, invalid, Rules!Sides, Sides, Rules!opponent, opponent
<1>2. /\ Rules!OB_COLS = OB_COLS /\ Rules!OB_ROWS = OB_ROWS
      /\ Rules!OB_HOME_ROW = OB_HOME_ROW
  BY DEF Rules!OB_COLS, OB_COLS, Rules!OB_ROWS, OB_ROWS, Rules!OB_HOME_ROW, OB_HOME_ROW
<1>3. \A r : Rules!FirstColumn(r) = FirstColumn(r)
  BY <1>2 DEF Rules!FirstColumn, FirstColumn
<1>4. \A l : Rules!IsCell(l) <=> IsCell(l)
  BY <1>2, <1>3 DEF Rules!IsCell, IsCell
<1>5. Rules!Grid = Grid
  BY <1>2 DEF Rules!Grid, Grid
<1>6. Rules!Cells = Cells
  BY <1>4, <1>5 DEF Rules!Cells, Cells
<1> QED
  BY <1>1, <1>2, <1>4, <1>6

\* Seeing is one to one between the cells, and the sides see mirror images.
LEMMA SeenFacts ==
    ASSUME NEW p \in Sides
    PROVE  /\ \A l \in Grid : Seen(p, l) \in Grid /\ Seen(p, Seen(p, l)) = l
           /\ \A l \in Grid : Seen(p, l) \in Cells <=> l \in Cells
           /\ \A l, k \in Grid : Seen(p, l) = Seen(p, k) => l = k
           /\ \A l \in Grid : Seen(opponent(p), Mirror(l)) = Seen(p, l)
           /\ Cells \subseteq Grid
<1>1. Cells \subseteq Grid
  BY CellFacts
<1>2. CASE p = agent
  BY <1>1, <1>2, SideFacts, MirrorFacts DEF Seen
<1>3. CASE p = human
  BY <1>1, <1>3, SideFacts, MirrorFacts DEF Seen
<1> QED
  BY <1>2, <1>3, SideFacts

\* The stones that the agent sees are those on the boards.
LEMMA AgentSees ==
    ASSUME NEW st, Good(st), NEW p \in Sides
    PROVE  /\ AgentView(st)[p] = {Seen(p, l) : l \in OwnCells(st, p)}
           /\ \A l \in Grid : Seen(p, l) \in AgentView(st)[p] <=>
                                l \in Cells /\ st.m_board[p][l] = p
           /\ \A l \in Grid : Seen(p, l) \in AgentView(st)[opponent(p)] <=>
                                l \in Cells /\ st.m_board[p][l] = opponent(p)
           /\ AgentView(st)[p] \subseteq Cells
           /\ Cardinality(AgentView(st)[p]) = Cardinality(OwnCells(st, p))
<1> DEFINE q == opponent(p)
<1>0. q \in Sides /\ opponent(q) = p
  BY SideFacts
<1>1. ASSUME NEW x \in Sides
      PROVE  AgentView(st)[x] = {Seen(x, l) : l \in OwnCells(st, x)}
  <2>1. st.m_stone_id[x] = {Id(x, l) : l \in OwnCells(st, x)}
    BY DEF Good, Views
  <2>2. \A l \in Cells : LocationOf[Id(x, l)] = Seen(x, l)
    <3>1. \A l \in Cells : Mirror(l) \in Cells
      BY MirrorFacts, CellFacts
    <3> QED
      BY <3>1, LocFacts DEF Id, Seen
  <2>3. AgentView(st)[x] = {LocationOf[id] : id \in st.m_stone_id[x]}
    BY DEF AgentView
  <2>4. OwnCells(st, x) \subseteq Cells
    BY DEF OwnCells
  <2> QED
    BY <2>1, <2>2, <2>3, <2>4
<1>2. ASSUME NEW x \in Sides, NEW l \in Grid
      PROVE  Seen(x, l) \in AgentView(st)[x] <=> l \in Cells /\ st.m_board[x][l] = x
  BY <1>1, SeenFacts DEF OwnCells
<1>3. ASSUME NEW l \in Grid
      PROVE  Seen(p, l) \in AgentView(st)[q] <=> l \in Cells /\ st.m_board[p][l] = q
  <2>1. Mirror(l) \in Grid /\ (Mirror(l) \in Cells <=> l \in Cells)
    BY MirrorFacts
  <2>2. st.m_board[q][Mirror(l)] = st.m_board[p][l]
    BY BoardFacts
  <2>3. Seen(q, Mirror(l)) = Seen(p, l)
    BY SeenFacts
  <2> HIDE DEF q
  <2> QED
    BY <2>1, <2>2, <2>3, <1>2, <1>0
<1>4. AgentView(st)[p] \subseteq Cells
  BY <1>1, SeenFacts DEF OwnCells
<1>5. Cardinality(AgentView(st)[p]) = Cardinality(OwnCells(st, p))
  <2> DEFINE own == OwnCells(st, p)
             img == {Seen(p, l) : l \in own}
             f == [l \in own |-> Seen(p, l)]
  <2>1. own \in SUBSET Cells /\ own \subseteq Grid
    BY SeenFacts DEF OwnCells
  <2>2. IsFiniteSet(own)
    BY <2>1, CellsFinite
  <2>3. \A x, y \in own : Seen(p, x) = Seen(p, y) => x = y
    BY <2>1, SeenFacts
  <2> HIDE DEF own
  <2>4. /\ f \in [own -> img]
        /\ \A x, y \in own : f[x] = f[y] => x = y
        /\ \A z \in img : \E x \in own : f[x] = z
    BY <2>3
  <2> HIDE DEF f, img
  <2>5. Cardinality(img) = Cardinality(own)
    BY <2>2, <2>4, SameSize
  <2> QED
    BY <2>5, <1>1 DEF own, img
<1> QED
  BY <1>1, <1>2, <1>3, <1>4, <1>5

\* A column step as side p takes it, when the agent sees it.
Turned(p, dc) == IF p = agent THEN dc ELSE -dc

\* What is diagonally ahead for a side is diagonally ahead for the agent's eye.
LEMMA AheadSeen ==
    ASSUME NEW p \in Sides, NEW l \in Cells, NEW dc \in {1, -1}
    PROVE  /\ Turned(p, dc) \in {-1, 1} /\ Turned(p, Turned(p, dc)) = dc
           /\ Rules!Ahead(p, Seen(p, l), Turned(p, dc), 1) = Seen(p, One(l, dc))
           /\ Rules!Ahead(p, Seen(p, l), Turned(p, dc), 2) = Seen(p, Two(l, dc))
<1>0. /\ S \in Nat /\ l = <<l[1], l[2]>> /\ l[1] \in Int /\ l[2] \in Int
  BY Dimensions, CellFacts
<1>1. /\ dc \in Int /\ -dc \in {1, -1} /\ -dc \in Int /\ -(-dc) = dc
  <2>1. \A i \in Int : i + 1 = 0 => -i = 1
    OBVIOUS
  <2> QED
    BY <2>1
<1>2. CASE p = agent
  <2>1. Rules!Forward(p) = 1
    BY <1>2, RulesNames DEF Rules!Forward
  <2> QED
    BY <2>1, <1>0, <1>1, <1>2 DEF Rules!Ahead, Seen, Turned, One, Two
<1>3. CASE p = human
  <2>1. Rules!Forward(p) + 1 = 0 /\ Rules!Forward(p) \in Int /\ p # agent
    BY <1>3, RulesNames, SideFacts DEF Rules!Forward
  <2>2. Seen(p, l) = <<2 * S - l[1], 2 * S - 2 - l[2]>>
    BY <2>1, <1>0, MirrorFacts DEF Seen
  <2>3. /\ Seen(p, One(l, dc)) = <<2 * S - (l[1] + dc), 2 * S - 2 - (l[2] + 1)>>
        /\ Seen(p, Two(l, dc)) = <<2 * S - (l[1] + 2 * dc), 2 * S - 2 - (l[2] + 2)>>
    BY <2>1, <1>0, <1>1, MirrorFacts DEF Seen, One, Two
  <2>4. Turned(p, dc) = -dc /\ Turned(p, -dc) = -(-dc)
    BY <2>1 DEF Turned
  <2>5. ASSUME NEW n \in {1, 2}
        PROVE  /\ 2 * S - l[1] + n * (-dc) = 2 * S - (l[1] + n * dc)
               /\ 2 * S - 2 - l[2] + n * Rules!Forward(p) = 2 * S - 2 - (l[2] + n)
    BY <2>1, <1>0, <1>1
  <2>6. ASSUME NEW n \in {1, 2}
        PROVE  Rules!Ahead(p, Seen(p, l), -dc, n) =
                  <<2 * S - (l[1] + n * dc), 2 * S - 2 - (l[2] + n)>>
    BY <2>2, <2>5 DEF Rules!Ahead
  <2> QED
    BY <2>3, <2>4, <2>6, <1>0, <1>1
<1> QED
  BY <1>2, <1>3, SideFacts

\* The stones v after a step, or a jump, of the stone on l of side p.
StepResult(v, p, l, dc) == [v EXCEPT ![p] = (@ \ {l}) \cup {Rules!Ahead(p, l, dc, 1)}]
JumpResult(v, p, l, dc) == [v EXCEPT ![p] = (@ \ {l}) \cup {Rules!Ahead(p, l, dc, 2)},
                                     ![opponent(p)] = @ \ {Rules!Ahead(p, l, dc, 1)}]

\* Results() one move at a time.
LEMMA ResultsAre ==
    ASSUME NEW v, NEW p, NEW w
    PROVE  w \in Rules!Results(v, p) <=>
             \E l \in v[p], dc \in {-1, 1} :
                \/ /\ Rules!Vacant(v, Rules!Ahead(p, l, dc, 1))
                   /\ w = StepResult(v, p, l, dc)
                \/ /\ Rules!Ahead(p, l, dc, 1) \in v[opponent(p)]
                   /\ Rules!Vacant(v, Rules!Ahead(p, l, dc, 2))
                   /\ w = JumpResult(v, p, l, dc)
<1> DEFINE q == opponent(p)
           CanStep(l, dc) == Rules!Vacant(v, Rules!Ahead(p, l, dc, 1))
           CanJump(l, dc) == /\ Rules!Ahead(p, l, dc, 1) \in v[q]
                             /\ Rules!Vacant(v, Rules!Ahead(p, l, dc, 2))
           ways == v[p] \X {-1, 1}
           steps == {StepResult(v, p, x[1], x[2]) : x \in {y \in ways : CanStep(y[1], y[2])}}
           jumps == {JumpResult(v, p, x[1], x[2]) : x \in {y \in ways : CanJump(y[1], y[2])}}
<1>1. Rules!Results(v, p) = steps \cup jumps
  BY RulesNames DEF Rules!Results, StepResult, JumpResult
<1>2. \A l \in v[p], dc \in {-1, 1} : <<l, dc>> \in ways /\ <<l, dc>>[1] = l /\ <<l, dc>>[2] = dc
  OBVIOUS
<1>3. \A x \in ways : x[1] \in v[p] /\ x[2] \in {-1, 1}
  OBVIOUS
<1>4. w \in steps <=> \E l \in v[p], dc \in {-1, 1} : CanStep(l, dc) /\ w = StepResult(v, p, l, dc)
  <2> HIDE DEF ways, CanStep
  <2> QED
    BY <1>2, <1>3
<1>5. w \in jumps <=> \E l \in v[p], dc \in {-1, 1} : CanJump(l, dc) /\ w = JumpResult(v, p, l, dc)
  <2> HIDE DEF ways, CanJump
  <2> QED
    BY <1>2, <1>3
<1> HIDE DEF steps, jumps
<1> QED
  BY <1>1, <1>4, <1>5

\* A cell is vacant by the rules when it is vacant on a side's board.
LEMMA VacantSeen ==
    ASSUME NEW st, Good(st), NEW p \in Sides, NEW l \in Grid
    PROVE  Rules!Vacant(AgentView(st), Seen(p, l)) <=>
              l \in Cells /\ st.m_board[p][l] = vacant
<1> DEFINE v == AgentView(st)
           q == opponent(p)
<1>1. v[agent] \cup v[human] = v[p] \cup v[q]
  BY SideFacts
<1>2. Rules!IsCell(Seen(p, l)) <=> l \in Cells
  <2>1. Seen(p, l) \in Grid /\ (Seen(p, l) \in Cells <=> l \in Cells)
    BY SeenFacts
  <2> QED
    BY <2>1, RulesNames DEF Cells
<1>3. /\ Seen(p, l) \in v[p] <=> l \in Cells /\ st.m_board[p][l] = p
      /\ Seen(p, l) \in v[q] <=> l \in Cells /\ st.m_board[p][l] = q
  BY AgentSees
<1>4. l \in Cells => st.m_board[p][l] \in {p, q, vacant}
  <2>1. st.m_board[p][l] \in Players /\ (st.m_board[p][l] = invalid <=> l \notin Cells)
    BY BoardFacts
  <2>2. Players = {p, q, vacant, invalid}
    BY SideFacts DEF Players
  <2> QED
    BY <2>1, <2>2
<1>5. p # vacant /\ q # vacant
  BY SideFacts
<1>6. Rules!Vacant(v, Seen(p, l)) <=>
         Rules!IsCell(Seen(p, l)) /\ Seen(p, l) \notin v[agent] \cup v[human]
  BY RulesNames DEF Rules!Vacant
<1> HIDE DEF v, q
<1> QED
  BY <1>1, <1>2, <1>3, <1>4, <1>5, <1>6 DEF v

\* A stone can step, or jump, by the rules when its side's board says so.
LEMMA WaySeen ==
    ASSUME NEW st, Good(st), NEW p \in Sides, NEW l \in OwnCells(st, p), NEW dc \in {1, -1}
    PROVE  LET v  == AgentView(st)
               to(n) == Rules!Ahead(p, Seen(p, l), Turned(p, dc), n)
           IN  /\ Rules!Vacant(v, to(1)) <=>
                     One(l, dc) \in Cells /\ st.m_board[p][One(l, dc)] = vacant
               /\ to(1) \in v[opponent(p)] /\ Rules!Vacant(v, to(2)) <=>
                     /\ One(l, dc) \in Cells /\ st.m_board[p][One(l, dc)] = opponent(p)
                     /\ Two(l, dc) \in Cells /\ st.m_board[p][Two(l, dc)] = vacant
<1>0. l \in Cells
  BY DEF OwnCells
<1>1. One(l, dc) \in Grid /\ (One(l, dc) \in Cells => Two(l, dc) \in Grid)
  BY <1>0, AheadFacts
<1>2. /\ Rules!Ahead(p, Seen(p, l), Turned(p, dc), 1) = Seen(p, One(l, dc))
      /\ Rules!Ahead(p, Seen(p, l), Turned(p, dc), 2) = Seen(p, Two(l, dc))
  BY <1>0, AheadSeen
<1>3. Rules!Vacant(AgentView(st), Seen(p, One(l, dc))) <=>
         One(l, dc) \in Cells /\ st.m_board[p][One(l, dc)] = vacant
  BY <1>1, VacantSeen
<1>4. Seen(p, One(l, dc)) \in AgentView(st)[opponent(p)] <=>
         One(l, dc) \in Cells /\ st.m_board[p][One(l, dc)] = opponent(p)
  BY <1>1, AgentSees
<1>5. One(l, dc) \in Cells =>
         (Rules!Vacant(AgentView(st), Seen(p, Two(l, dc))) <=>
            Two(l, dc) \in Cells /\ st.m_board[p][Two(l, dc)] = vacant)
  BY <1>1, VacantSeen
<1> QED
  BY <1>2, <1>3, <1>4, <1>5

\* A side can move by the rules exactly when SideMoves() lists a move for it.
LEMMA CanMoveSeen ==
    ASSUME NEW st, Good(st), NEW p \in Sides
    PROVE  Rules!Results(AgentView(st), p) = {} <=> SideMoves(st, p) = {}
<1> DEFINE v == AgentView(st)
           own == OwnCells(st, p)
           Steps(l, dc) == One(l, dc) \in Cells /\ st.m_board[p][One(l, dc)] = vacant
           Jumps(l, dc) == /\ One(l, dc) \in Cells /\ st.m_board[p][One(l, dc)] = opponent(p)
                           /\ Two(l, dc) \in Cells /\ st.m_board[p][Two(l, dc)] = vacant
           to(l, dc, n) == Rules!Ahead(p, l, dc, n)
           Way(l, dc) == \/ Rules!Vacant(v, to(l, dc, 1))
                         \/ to(l, dc, 1) \in v[opponent(p)] /\ Rules!Vacant(v, to(l, dc, 2))
<1>1. SideMoves(st, p) # {} <=> \E l \in own, dc \in {1, -1} : Steps(l, dc) \/ Jumps(l, dc)
  <2>1. \A m : m \in SideMoves(st, p) <=>
           \E l \in own, dc \in {1, -1} :
              (Steps(l, dc) /\ m = <<l, One(l, dc)>>) \/ (Jumps(l, dc) /\ m = <<l, Two(l, dc)>>)
    BY MovesAre DEF StepMove, JumpMove
  <2> DEFINE M == SideMoves(st, p)
  <2> HIDE DEF Steps, Jumps, own, M
  <2>2. ASSUME NEW l \in own, NEW dc \in {1, -1}, Steps(l, dc) \/ Jumps(l, dc) PROVE M # {}
    <3>1. <<l, One(l, dc)>> \in M \/ <<l, Two(l, dc)>> \in M
      BY <2>1, <2>2 DEF M
    <3> QED
      BY <3>1
  <2>3. ASSUME NEW m \in M
        PROVE  \E l \in own, dc \in {1, -1} : Steps(l, dc) \/ Jumps(l, dc)
    BY <2>1 DEF M
  <2> QED
    BY <2>2, <2>3 DEF M
<1>2. Rules!Results(v, p) # {} <=> \E k \in v[p], e \in {-1, 1} : Way(k, e)
  <2>1. \A w : w \in Rules!Results(v, p) <=>
           \E k \in v[p], e \in {-1, 1} :
              \/ Rules!Vacant(v, to(k, e, 1)) /\ w = StepResult(v, p, k, e)
              \/ /\ to(k, e, 1) \in v[opponent(p)] /\ Rules!Vacant(v, to(k, e, 2))
                 /\ w = JumpResult(v, p, k, e)
    BY ResultsAre
  <2> HIDE DEF v, to
  <2> QED
    BY <2>1
<1>3. \A l \in own, dc \in {1, -1} :
         Way(Seen(p, l), Turned(p, dc)) <=> Steps(l, dc) \/ Jumps(l, dc)
  BY WaySeen
<1>4. \A k : k \in v[p] <=> \E l \in own : k = Seen(p, l)
  BY AgentSees
<1>5. \A e \in {-1, 1} : \E dc \in {1, -1} : e = Turned(p, dc)
  <2> SUFFICES ASSUME NEW e \in {-1, 1} PROVE \E dc \in {1, -1} : e = Turned(p, dc)
    OBVIOUS
  <2>1. \A i \in Int : i + 1 = 0 => -i = 1
    OBVIOUS
  <2>2. Turned(p, 1) = e \/ Turned(p, -1) = e
    BY <2>1 DEF Turned
  <2> QED
    BY <2>2
<1>6. \A l \in own, dc \in {1, -1} : Turned(p, dc) \in {-1, 1}
  BY AheadSeen DEF OwnCells
<1> HIDE DEF v, own, Steps, Jumps, Way
<1> QED
  BY <1>1, <1>2, <1>3, <1>4, <1>5, <1>6 DEF v

\* The stones after a move, as the agent sees them, are a result by the rules.
LEMMA MoveSeen ==
    ASSUME NEW st, Good(st), NEW p, p = st.m_player_to_move, NEW m \in SideMoves(st, p)
    PROVE  AgentView(moved(st, m)) \in Rules!Results(AgentView(st), p)
<1> DEFINE q  == opponent(p)
           v  == AgentView(st)
           w  == AgentView(moved(st, m))
<1>0. p \in Sides /\ q \in Sides /\ q # p /\ \A x \in Sides : x = p \/ x = q
  BY SideFacts DEF Good, StateType
<1>1. MoveShape(st, p, m)
  BY <1>0, MovesHaveShape
<1>2. Good(moved(st, m))
  BY <1>1, MovedGood
<1>3. PICK l \in OwnCells(st, p), dc \in {1, -1} :
         StepMove(st.m_board[p], l, dc, m) \/ JumpMove(st.m_board[p], p, l, dc, m)
  BY <1>0, MovesAre
<1> DEFINE e == Turned(p, dc)
           k == Seen(p, l)
<1>4. l \in Cells /\ l \in Grid /\ k \in v[p] /\ e \in {-1, 1}
  BY <1>0, <1>3, AgentSees, AheadSeen, SeenFacts DEF OwnCells
<1>5. /\ w[p] = (v[p] \ {Seen(p, m[1])}) \cup {Seen(p, m[2])}
      /\ w[q] = v[q] \ {Seen(p, x) : x \in Prey(m)}
  <2>1. /\ OwnCells(moved(st, m), p) = (OwnCells(st, p) \ {m[1]}) \cup {m[2]}
        /\ OwnCells(moved(st, m), q) = OwnCells(st, q) \ {Mirror(x) : x \in Prey(m)}
        /\ m[1] \in OwnCells(st, p) /\ m[2] \in Cells
        /\ \A x \in Prey(m) : x \in Cells
    BY <1>1, MovedStones
  <2>2. /\ w[p] = {Seen(p, x) : x \in OwnCells(moved(st, m), p)}
        /\ w[q] = {Seen(q, x) : x \in OwnCells(moved(st, m), q)}
        /\ v[p] = {Seen(p, x) : x \in OwnCells(st, p)}
        /\ v[q] = {Seen(q, x) : x \in OwnCells(st, q)}
    BY <1>0, <1>2, AgentSees
  <2>3. \A x \in Sides : OwnCells(st, x) \subseteq Cells
    BY DEF OwnCells
  <2>4. /\ Cells \subseteq Grid
        /\ \A x, y \in Grid : Seen(p, x) = Seen(p, y) => x = y
        /\ \A x, y \in Grid : Seen(q, x) = Seen(q, y) => x = y
        /\ \A x \in Grid : Seen(q, Mirror(x)) = Seen(p, x) /\ Mirror(x) \in Grid
    BY <1>0, SeenFacts, MirrorFacts
  <2> HIDE DEF v, w, q
  <2>5. w[p] = (v[p] \ {Seen(p, m[1])}) \cup {Seen(p, m[2])}
    BY <2>1, <2>2, <2>3, <2>4, <1>0
  <2>6. ASSUME NEW y \in OwnCells(st, q)
        PROVE  y \in {Mirror(x) : x \in Prey(m)} <=> Seen(q, y) \in {Seen(p, x) : x \in Prey(m)}
    <3>1. y \in Grid
      BY <2>3, <2>4, <1>0
    <3> QED
      BY <3>1, <2>1, <2>4
  <2>7. w[q] = v[q] \ {Seen(p, x) : x \in Prey(m)}
    BY <2>1, <2>2, <2>6
  <2> QED
    BY <2>5, <2>7
<1>6. v = [x \in Sides |-> v[x]] /\ w = [x \in Sides |-> w[x]]
  BY DEF AgentView
<1>7. CASE StepMove(st.m_board[p], l, dc, m)
  <2>1. m[1] = l /\ m[2] = One(l, dc) /\ Prey(m) = {}
    <3>1. ~ isCapture(<<l, One(l, dc)>>)
      BY <1>4, AheadFacts
    <3> QED
      BY <3>1, <1>7 DEF StepMove, Prey
  <2>2. Rules!Ahead(p, k, e, 1) = Seen(p, One(l, dc))
    BY <1>0, <1>4, AheadSeen
  <2>3. Rules!Vacant(v, Rules!Ahead(p, k, e, 1))
    BY <1>0, <1>3, <1>7, WaySeen DEF StepMove
  <2>4. w = StepResult(v, p, k, e)
    <3> HIDE DEF v, w, k, e, q
    <3>1. w[p] = (v[p] \ {k}) \cup {Rules!Ahead(p, k, e, 1)} /\ w[q] = v[q]
      BY <1>5, <2>1, <2>2 DEF k
    <3> QED
      BY <3>1, <1>0, <1>6 DEF StepResult
  <2> HIDE DEF v, w, k, e, q
  <2> QED
    BY <2>3, <2>4, <1>4, ResultsAre DEF v, w
<1>8. CASE JumpMove(st.m_board[p], p, l, dc, m)
  <2>1. m[1] = l /\ m[2] = Two(l, dc) /\ Prey(m) = {One(l, dc)}
    <3>1. isCapture(<<l, Two(l, dc)>>) /\ captured(<<l, Two(l, dc)>>) = One(l, dc)
      BY <1>4, AheadFacts
    <3> QED
      BY <3>1, <1>8 DEF JumpMove, Prey
  <2>2. /\ Rules!Ahead(p, k, e, 1) = Seen(p, One(l, dc))
        /\ Rules!Ahead(p, k, e, 2) = Seen(p, Two(l, dc))
    BY <1>0, <1>4, AheadSeen
  <2>3. /\ Rules!Ahead(p, k, e, 1) \in v[q]
        /\ Rules!Vacant(v, Rules!Ahead(p, k, e, 2))
    BY <1>0, <1>3, <1>8, WaySeen DEF JumpMove
  <2>4. w = JumpResult(v, p, k, e)
    <3> HIDE DEF v, w, k, e
    <3>1. /\ w[p] = (v[p] \ {k}) \cup {Rules!Ahead(p, k, e, 2)}
          /\ w[q] = v[q] \ {Rules!Ahead(p, k, e, 1)}
      BY <1>5, <2>1, <2>2 DEF k
    <3> QED
      BY <3>1, <1>0, <1>6 DEF JumpResult
  <2> HIDE DEF v, w, k, e
  <2> QED
    BY <2>3, <2>4, <1>4, ResultsAre DEF v, w
<1> QED
  BY <1>3, <1>7, <1>8

\* The rules' verdict is what winner() finds.
LEMMA VerdictSeen ==
    ASSUME NEW st, Good(st), NEW p \in Sides
    PROVE  Rules!Verdict(AgentView(st), p) = Found(st, p)
<1> DEFINE v == AgentView(st)
           q == opponent(p)
           n(x) == Cardinality(OwnCells(st, x))
<1>0. q \in Sides /\ p # q
  BY SideFacts
<1>1. ASSUME NEW x \in Sides
      PROVE  /\ Rules!AllHome(v, x) <=> AllAtHome(st, x)
             /\ v[x] = {} <=> OwnCells(st, x) = {}
             /\ Cardinality(v[x]) = n(x) /\ n(x) \in Nat
             /\ Rules!Results(v, x) = {} <=> SideMoves(st, x) = {}
  <2>1. \A k : k \in v[x] <=> \E l \in OwnCells(st, x) : k = Seen(x, l)
    BY AgentSees
  <2>2. ASSUME NEW l \in OwnCells(st, x)
        PROVE  Seen(x, l)[2] = Rules!HomeRow(x) <=> l[2] = OB_HOME_ROW
    <3>1. /\ l = <<l[1], l[2]>> /\ l[1] \in Int /\ l[2] \in Int /\ S \in Nat
          /\ OB_HOME_ROW = 2 * S - 3
      BY CellFacts, Dimensions DEF OwnCells
    <3>2. CASE x = agent
      BY <3>2, RulesNames DEF Seen, Rules!HomeRow
    <3>3. CASE x = human
      <4>1. Rules!HomeRow(x) = 1 /\ Seen(x, l) = Mirror(l)
        BY <3>3, RulesNames, SideFacts DEF Seen, Rules!HomeRow
      <4>2. Mirror(l)[2] = 2 * S - 2 - l[2]
        BY <3>1, MirrorFacts
      <4> QED
        BY <3>1, <4>1, <4>2
    <3> QED
      BY <3>2, <3>3, SideFacts
  <2>3. v[x] = {} <=> OwnCells(st, x) = {}
    BY <2>1
  <2>4. Rules!AllHome(v, x) <=> AllAtHome(st, x)
    <3>1. Rules!AllHome(v, x) <=> v[x] # {} /\ \A k \in v[x] : k[2] = Rules!HomeRow(x)
      BY DEF Rules!AllHome
    <3> HIDE DEF v
    <3> QED
      BY <2>1, <2>2, <2>3, <3>1 DEF AllAtHome
  <2>5. Cardinality(v[x]) = n(x) /\ n(x) \in Nat
    BY AgentSees, HomeFacts
  <2>6. Rules!Results(v, x) = {} <=> SideMoves(st, x) = {}
    BY CanMoveSeen
  <2> QED
    BY <2>3, <2>4, <2>5, <2>6
<1>2. Rules!Verdict(v, p) =
         CASE Rules!AllHome(v, p) /\ Rules!AllHome(v, q) ->
                 IF Cardinality(v[p]) = Cardinality(v[q]) THEN vacant
                 ELSE IF Cardinality(v[p]) > Cardinality(v[q]) THEN p ELSE q
           [] Rules!AllHome(v, p) /\ ~ Rules!AllHome(v, q) -> p
           [] ~ Rules!AllHome(v, p) /\ v[q] = {} -> p
           [] ~ Rules!AllHome(v, p) /\ v[q] # {} /\ Rules!Results(v, q) = {} -> q
           [] OTHER -> invalid
  <2>1. \A T : Rules!Cardinality(T) = Cardinality(T)
    BY DEF Rules!Cardinality, Cardinality, Rules!IsFiniteSet, IsFiniteSet
  <2> HIDE DEF v
  <2> QED
    BY <2>1, RulesNames DEF Rules!Verdict
<1>3. Found(st, p) =
        IF AllAtHome(st, p)
        THEN IF AllAtHome(st, q)
             THEN IF n(p) = n(q) THEN vacant ELSE IF n(p) > n(q) THEN p ELSE q
             ELSE p
        ELSE IF OwnCells(st, q) = {} THEN p
        ELSE IF SideMoves(st, q) = {} THEN q
        ELSE invalid
  BY DEF Found
<1> HIDE DEF v, q, n
<1>4. CASE AllAtHome(st, p)
  BY <1>0, <1>1, <1>2, <1>3, <1>4 DEF v
<1>5. CASE ~ AllAtHome(st, p)
  BY <1>0, <1>1, <1>2, <1>3, <1>5 DEF v
<1> QED
  BY <1>4, <1>5

\* initialize() sets up the start of the rules.
LEMMA StartSeen ==
    ASSUME NEW st \in StartState
    PROVE  AgentView(st) = Rules!StartStones
<1> DEFINE v == AgentView(st)
           H(p) == {l \in Cells : l[2] = Rules!HomeRow(opponent(p))}
<1>0. /\ S \in Nat /\ S >= 3 /\ OB_HOME_ROW = 2 * S - 3
      /\ agent \in Sides /\ human \in Sides /\ agent # human
      /\ opponent(agent) = human /\ opponent(human) = agent
  BY Dimensions, SideFacts
<1>1. \A p \in Sides : v[p] = {Seen(p, l) : l \in Row(1)}
  BY StartGood, AgentSees
<1>2. Rules!HomeRow(agent) = 2 * S - 3 /\ Rules!HomeRow(human) = 1
  BY <1>0, RulesNames DEF Rules!HomeRow
<1>3. v[agent] = H(agent)
  BY <1>0, <1>1, <1>2 DEF Seen, Row
<1>4. v[human] = H(human)
  <2>1. \A l \in Cells : /\ Mirror(l) \in Cells /\ Mirror(Mirror(l)) = l
                         /\ l[2] \in Int /\ Mirror(l)[2] = 2 * S - 2 - l[2]
    <3>1. \A l \in Cells : /\ l \in Grid /\ l = <<l[1], l[2]>> /\ l[1] \in Int /\ l[2] \in Int
      BY CellFacts, <1>0
    <3>2. \A l \in Cells : Mirror(l)[2] = 2 * S - 2 - l[2]
      BY <3>1, MirrorFacts
    <3> QED
      BY <3>1, <3>2, MirrorFacts
  <2>2. \A l \in Cells : l[2] = 1 <=> Mirror(l)[2] = 2 * S - 3
    BY <2>1, <1>0
  <2>3. v[human] = {Mirror(l) : l \in Row(1)}
    BY <1>0, <1>1 DEF Seen
  <2>4. H(human) = {l \in Cells : l[2] = 2 * S - 3}
    BY <1>0, <1>2
  <2> HIDE DEF v, H
  <2> QED
    BY <2>1, <2>2, <2>3, <2>4 DEF Row
<1>5. v = [p \in Sides |-> v[p]]
  BY DEF AgentView
<1>6. Rules!StartStones = [p \in Sides |-> H(p)]
  BY RulesNames DEF Rules!StartStones
<1>7. \A p \in Sides : v[p] = H(p)
  BY <1>3, <1>4, SideFacts
<1> HIDE DEF H, v
<1> QED
  BY <1>5, <1>6, <1>7 DEF v

\* PlaysOska: whatever the size of the board, the match that the State plays with
\* its two boards, id lists and counters is a match of the rules, move by move,
\* with the verdict the rules give.
THEOREM PlaysOskaHolds == MatchSpec => PlaysOska
<1>0. /\ StonesSeenByAgent = AgentView(state)
      /\ StonesSeenByAgent' = AgentView(state')
  BY DEF StonesSeenByAgent, AgentView
<1>1. Init => Rules!Init
  <2> SUFFICES ASSUME Init PROVE Rules!Init
    OBVIOUS
  <2>1. state \in StartState
    BY DEF Init
  <2>2. state.m_winner = invalid /\ state.m_player_to_move \in Sides
    BY <2>1, StartGood DEF Good, StateType
  <2>3. AgentView(state) = Rules!StartStones
    BY <2>1, StartSeen
  <2> QED
    BY <2>2, <2>3, <1>0, RulesNames DEF Rules!Init
<1>2. EInv /\ [MatchNext]_vars => [Rules!Next]_Rules!rules
  <2> SUFFICES ASSUME EInv, [MatchNext]_vars PROVE [Rules!Next]_Rules!rules
    OBVIOUS
  <2>1. CASE PlayMove
    <3> DEFINE p == state.m_player_to_move
    <3>1. Good(state) /\ state.m_winner = invalid
      BY <2>1 DEF EInv, OInv, PlayMove
    <3>2. PICK m \in SideMoves(state, p) : state' = move_hash_winner(state, m)
      BY <2>1 DEF PlayMove, moves
    <3>3. p \in Sides
      BY <3>1 DEF Good, StateType
    <3>4. Follows(state, m, state')
      BY <3>1, <3>2, WholeMoves
    <3>5. Good(state')
      BY <3>1, <3>4, FollowsGood
    <3>6. state'.m_winner = Found(state', p)
      BY <3>1, <3>2, MoveWinner
    <3>7. AgentView(state') = AgentView(moved(state, m))
      BY <3>4 DEF Follows, AgentView
    <3>8. AgentView(state') \in Rules!Results(AgentView(state), p)
      BY <3>1, <3>7, MoveSeen
    <3>9. state'.m_winner = Rules!Verdict(AgentView(state'), p)
      BY <3>3, <3>5, <3>6, VerdictSeen
    <3>10. state'.m_player_to_move = opponent(p)
      BY <3>4 DEF Follows
    <3> QED
      BY <3>1, <3>8, <3>9, <3>10, <1>0, RulesNames DEF Rules!Next, Rules!MakeMove
  <2>2. CASE NextMatch
    <3>1. state' \in StartState /\ state.m_winner # invalid
      BY <2>2 DEF NextMatch
    <3>2. state'.m_winner = invalid /\ state'.m_player_to_move \in Sides
      BY <3>1, StartGood DEF Good, StateType
    <3>3. AgentView(state') = Rules!StartStones
      BY <3>1, StartSeen
    <3> QED
      BY <3>1, <3>2, <3>3, <1>0, RulesNames DEF Rules!Next, Rules!NewMatch
  <2>3. CASE UNCHANGED vars
    BY <2>3, <1>0 DEF vars, Rules!rules
  <2> QED
    BY <2>1, <2>2, <2>3 DEF MatchNext
<1>3. MatchSpec => []EInv
  BY EInvAlways
<1> QED
  BY <1>1, <1>2, <1>3, PTL DEF MatchSpec, PlaysOska, Rules!Spec
=============================================================================
