---------------------------- MODULE ConnectFour ----------------------------
(***************************************************************************)
(* ConnectFour<NumRows, NumCols> (connect_four.hpp), the game that main    *)
(* plays when built with CF 1, as main's State: a match is played with     *)
(* move_hash_winner().  Row 0 is the top.  Operators named ..._mutant      *)
(* change the definition that follows them the way a slip in the code      *)
(* would; no definition uses them.                                         *)
(***************************************************************************)
EXTENDS Player, FiniteSets

CONSTANTS NumRows, NumCols  \* 6 and 7 by default

ASSUME BoardAssumption ==
    /\ NumRows \in Nat /\ NumCols \in Nat
    /\ NumRows >= 4 /\ NumCols >= 4

VARIABLES m_board, m_no_moves, m_player_just_moved, m_winner, m_zobrist_hash

vars == <<m_board, m_no_moves, m_player_just_moved, m_winner, m_zobrist_hash>>

Rows  == 0 .. NumRows - 1
Cols  == 0 .. NumCols - 1
Cells == Rows \X Cols

\* The hash is the set of the keys XORed into it an odd number of times.
Xor(h, keys) == (h \ keys) \cup (keys \ h)

-----------------------------------------------------------------------------
(* winner(): only the lines through the last piece are looked at.          *)

\* How many pieces like the one at <<r, c>> follow it in direction <<dr, dc>>.
Run(b, r, c, dr, dc) ==
    LET same(k) == /\ <<r + k * dr, c + k * dc>> \in Cells
                   /\ b[<<r + k * dr, c + k * dc>>] = b[<<r, c>>]
    IN  CHOOSE k \in 0 .. NumRows + NumCols :
            (\A i \in 1 .. k : same(i)) /\ ~ same(k + 1)

Horizontal(b, r, c) ==
    LET counter == 1 + Run(b, r, c, 0, -1)
    IN  c < NumCols - 4 + counter /\ counter + Run(b, r, c, 0, 1) > 3

Vertical(b, r, c) == r < NumRows - 3 /\ 1 + Run(b, r, c, 1, 0) > 3

\* Nw to se.
Diagonal(b, r, c) ==
    LET counter == 1 + Run(b, r, c, -1, -1)
    IN  /\ r < NumRows - 4 + counter
        /\ c < NumCols - 4 + counter
        /\ counter + Run(b, r, c, 1, 1) > 3

\* Mutant: off by one in the test that leaves out the upper half.
AntiDiagonal_mutant(b, r, c) ==
    LET counter == 1 + Run(b, r, c, 1, -1)
    IN  /\ r > 4 - counter
        /\ c < NumCols - 4 + counter
        /\ counter + Run(b, r, c, -1, 1) > 3

\* Sw to ne.
AntiDiagonal(b, r, c) ==
    LET counter == 1 + Run(b, r, c, 1, -1)
    IN  /\ r > 3 - counter
        /\ c < NumCols - 4 + counter
        /\ counter + Run(b, r, c, -1, 1) > 3

\* m_winner after n pieces, the last of them at <<r, c>>.
winner(b, r, c, n, before) ==
    IF \/ Horizontal(b, r, c) \/ Vertical(b, r, c)
       \/ Diagonal(b, r, c) \/ AntiDiagonal(b, r, c)
    THEN b[<<r, c>>]
    ELSE IF NumRows * NumCols = n THEN vacant ELSE before

-----------------------------------------------------------------------------
\* moves(): the columns whose top cell is vacant, while the match goes on.
moves == IF NumRows * NumCols = m_no_moves \/ m_winner # invalid
         THEN {} ELSE {c \in Cols : m_board[<<0, c>>] = vacant}

\* Mutant: the piece stays in the topmost vacant cell.
LandingRow_mutant(c) == 0

\* move(): the piece falls to the lowest row that is not occupied (row -1,
\* outside of the board, when there is none).
LandingRow(c) ==
    CHOOSE r \in -1 .. NumRows - 1 :
        /\ r >= 0 => ~ occupied(m_board[<<r, c>>])
        /\ \A below \in Rows : below > r => occupied(m_board[<<below, c>>])

\* Mutant: the key of what the cell held before the move.
Key_mutant(p, r, c) == <<m_board[<<r, c>>], r, c>>

Key(p, r, c) == <<p, r, c>>

Init ==
    /\ m_board = [x \in Cells |-> vacant]
    /\ m_no_moves = 0
    /\ m_player_just_moved \in Sides
    /\ m_winner = invalid
    /\ m_zobrist_hash = {}

\* move_hash_winner() with a move from moves().
PlayMove ==
    \E c \in moves :
        LET r     == LandingRow(c)
            p     == opponent(m_player_just_moved)
            board == [m_board EXCEPT ![<<r, c>>] = p]
        IN  /\ m_player_just_moved' = p
            /\ m_board' = board
            /\ m_no_moves' = m_no_moves + 1
            /\ m_zobrist_hash' = Xor(m_zobrist_hash, {Key(p, r, c)})
            /\ m_winner' = winner(board, r, c, m_no_moves + 1, m_winner)

\* The next match: main creates a new object.
NextMatch ==
    /\ m_winner # invalid
    /\ m_board' = [x \in Cells |-> vacant]
    /\ m_no_moves' = 0
    /\ m_player_just_moved' \in Sides
    /\ m_winner' = invalid
    /\ m_zobrist_hash' = {}

Next == PlayMove \/ NextMatch

\* One thread that plays match after match.
Spec == Init /\ [][Next]_vars

-----------------------------------------------------------------------------
(* Properties.                                                             *)

Pieces == {x \in Cells : m_board[x] # vacant}

\* All lines of four cells.
Lines == {l \in {{<<x[1] + k * d[1], x[2] + k * d[2]>> : k \in 0 .. 3} :
                    x \in Cells, d \in {<<0, 1>>, <<1, 0>>, <<1, 1>>, <<1, -1>>}} :
            l \subseteq Cells}

Complete(p) == \E l \in Lines : \A x \in l : m_board[x] = p

\* The local search of winner(), with its shortcuts, finds the winner that a
\* search of the whole board for four in a row does: a side has won when it has
\* a line, nobody when the board is full without one.
WinnerHasLine ==
    /\ \A p \in Sides : m_winner = p <=> Complete(p)
    /\ m_winner = vacant <=> /\ Pieces = Cells
                             /\ \A p \in Sides : ~ Complete(p)

\* The "Hash of the current m_board" (connect_four.hpp:106): the keys of the
\* pieces on the board, so positions with equal hashes have equal boards.
HashOfBoard == m_zobrist_hash = {<<m_board[x], x[1], x[2]>> : x \in Pieces}

\* Pieces never float and m_no_moves counts them, so the board is full exactly
\* when the count says so, and a match that is not over offers a column.
PiecesStacked ==
    /\ \A x \in Pieces : \A r \in Rows : r > x[1] => <<r, x[2]>> \in Pieces
    /\ m_no_moves = Cardinality(Pieces)
    /\ m_winner = invalid => moves # {}
=============================================================================
