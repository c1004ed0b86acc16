----------------------------- MODULE OskaBoard -----------------------------
(***************************************************************************)
(* The geometry of the Oska board (oska.hpp): hexagons in rows of S cells  *)
(* narrowing to 2 in the middle and widening to S again, held in a matrix  *)
(* with a border.  A location is <<c, r>>.                                 *)
(***************************************************************************)
EXTENDS Player, FiniteSets

CONSTANT S  \* the size of the board, the template parameter (5 in main)

ASSUME SizeAssumption == S \in Nat /\ S >= 3

OB_COLS     == 2 * S + 1
OB_ROWS     == 2 * (S - 2) + 3
OB_HOME_ROW == OB_ROWS - 2
NO_HEXAGONS == S * (S + 1) - 4

\* The matrix, border included.
Grid == (0 .. OB_COLS - 1) \X (0 .. OB_ROWS - 1)

\* li, the first column of row r: up by one per row to the middle, then down.
FirstColumn(r) == IF r <= OB_ROWS \div 2 THEN r ELSE OB_ROWS - 1 - r

\* The cells of the board: every second column of a row.
IsCell(l) == /\ l[2] \in 1 .. OB_ROWS - 2
             /\ l[1] \in FirstColumn(l[2]) .. OB_COLS - 1 - FirstColumn(l[2])
             /\ (l[1] - FirstColumn(l[2])) % 2 = 0

Cells == {l \in Grid : IsCell(l)}

\* other() and MatrixRM::at_r: the location seen from the other side.
Mirror(l) == <<OB_COLS - 1 - l[1], OB_ROWS - 1 - l[2]>>

\* m_location_to_id: cells are numbered row by row from the top; the border
\* has id -1.
IdOf == [l \in Grid |->
    IF l \in Cells
    THEN Cardinality({k \in Cells : k[2] < l[2] \/ (k[2] = l[2] /\ k[1] < l[1])})
    ELSE -1]

\* m_id_to_location.
LocationOf == [id \in 0 .. NO_HEXAGONS - 1 |-> CHOOSE l \in Cells : IdOf[l] = id]
=============================================================================
