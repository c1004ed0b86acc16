------------------------------ MODULE LegalPlay ------------------------------
(***************************************************************************)
(* What the program promises about a match, whatever chooses the moves:    *)
(* it starts in a starting position, every step makes a legal move of an   *)
(* unfinished match, and a new match starts only when one is over.         *)
(***************************************************************************)
EXTENDS Game

VARIABLE state

NewMatch == {[pos |-> p, winner |-> invalid] : p \in Starts}

Init == state \in NewMatch

MakeMove ==
    /\ state.winner = invalid
    /\ \E m \in moves(state) : state' = move_hash_winner(state, m)

StartAgain ==
    /\ state.winner # invalid
    /\ state' \in NewMatch

Next == MakeMove \/ StartAgain

Spec == Init /\ [][Next]_state /\ WF_state(Next)
=============================================================================
