-------------------------------- MODULE Game --------------------------------
(***************************************************************************)
(* What mcts.hpp asks of its State template parameter (OskaStateTemplate   *)
(* or ConnectFour): a position that zobrist() identifies, the moves a      *)
(* position offers, where a move leads, and the winner that winner()       *)
(* records after a move.  A State is a record [pos, winner]; winner is the *)
(* member m_winner, which only the operations that call winner() assign.   *)
(***************************************************************************)
EXTENDS Player

CONSTANTS
    Positions,   \* board and player to move, as zobrist() tells them apart
    Starts,      \* the positions initialize() can leave
    legal,       \* legal[p]: the moves moves() lists while no side has won
    play,        \* play[<<p, m>>]: the position after move m in p
    outcome,     \* outcome[p]: what winner() stores on arrival in p
    justMoved,   \* justMoved[p]: playerJustMoved() in p
    depth        \* depth[p]: bounds the number of moves that can follow p

Move == UNION {legal[p] : p \in Positions}

PlayedMoves == {pm \in Positions \X Move : pm[2] \in legal[pm[1]]}

\* The types of the functions above.
ASSUME GameTypes ==
    /\ Starts \subseteq Positions
    /\ DOMAIN legal = Positions
    /\ play \in [PlayedMoves -> Positions]
    /\ outcome \in [Positions -> Players]
    /\ justMoved \in [Positions -> Sides]
    /\ depth \in [Positions -> Nat]

\* The rules both games satisfy: sides alternate, a match is finite, nobody
\* has won at the start, and a position that winner() leaves undecided offers
\* a move (EndsAsDocumented of Oska, PiecesStacked of ConnectFour).
ASSUME GameRules ==
    /\ \A pm \in PlayedMoves :
          /\ justMoved[play[pm]] = opponent(justMoved[pm[1]])
          /\ depth[play[pm]] < depth[pm[1]]
    /\ \A p \in Positions : outcome[p] = invalid => legal[p] # {}
    /\ \A p \in Starts : outcome[p] = invalid

States == [pos : Positions, winner : Players]

\* moves(): nothing once a side has won, else what the position offers.
moves(st) == IF occupied(st.winner) THEN {} ELSE legal[st.pos]

playerToMove(st)    == opponent(justMoved[st.pos])
playerJustMoved(st) == justMoved[st.pos]

\* Mutant: the copy of the State is not moved along.
move_hash_mutant(st, m) == st

\* move_hash(): make the move, leave m_winner alone.
move_hash(st, m) == [st EXCEPT !.pos = play[<<st.pos, m>>]]

\* move_hash_winner() and move_winner(): make the move, then call winner(),
\* which assigns m_winner only when the match has ended.
move_hash_winner(st, m) ==
    LET to == play[<<st.pos, m>>]
    IN  [pos |-> to, winner |-> IF outcome[to] = invalid THEN st.winner
                                                         ELSE outcome[to]]

\* result(): the value of a finished match for the side that just moved.
result(st, just_moved) ==
    CASE st.winner = vacant     -> 0
      [] st.winner = just_moved -> 1
      [] OTHER                  -> -1
=============================================================================
