------------------------------- MODULE MCMcts -------------------------------
(***************************************************************************)
(* A game of thirteen positions for Mcts, with everything that the search  *)
(* must cope with in Oska: moves that transpose (a4 and e1 are reached by  *)
(* several paths), forced moves (b0, g1), a draw (e2), a side that has won *)
(* while the other could still move (a5, e1) and one that has won because  *)
(* the other cannot (e3).  A move is named after the position it leads to. *)
(* The restriction of the game to MCDiamond has one transposition that     *)
(* prune() finds below the new root, and is narrow enough for searches of  *)
(* many iterations.                                                        *)
(***************************************************************************)
EXTENDS MctsInvariant

MCAgentToMove == {"b0", "a0", "a3", "a4", "a5", "a6"}
MCHumanToMove == {"h0", "g1", "h1", "h2", "e1", "e2", "e3"}
MCPositions   == MCAgentToMove \cup MCHumanToMove
MCStarts      == {"b0", "h0"}
MCDiamond     == {"b0", "g1", "a0", "h1", "h2", "a4", "e3"}
MCSelf        == agent

MClegal ==
    [p \in MCPositions |->
        CASE p = "b0" -> {"g1"}       [] p = "g1" -> {"a0"}
          [] p = "a0" -> {"h1", "h2"} [] p = "h0" -> {"a3", "a4"}
          [] p = "h1" -> {"a3", "a4"} [] p = "h2" -> {"a4", "a5"}
          [] p = "a3" -> {"e1", "e2"} [] p = "a4" -> {"e1", "e3"}
          [] p = "a5" -> {"e3"}       [] p = "e1" -> {"a6"}
          [] OTHER -> {}]

MCplay == [pm \in {<<p, m>> \in MCPositions \X MCPositions : m \in MClegal[p]} |->
              pm[2]]

MCDiamondStarts == {"b0"}
MCDiamondLegal  == [p \in MCDiamond |-> MClegal[p] \cap MCDiamond]
MCDiamondPlay   == [pm \in {<<p, m>> \in MCDiamond \X MCDiamond :
                               m \in MCDiamondLegal[p]} |-> pm[2]]

MCoutcome == [p \in MCPositions |-> CASE p = "e1" -> agent
                                      [] p = "e2" -> vacant
                                      [] p \in {"a5", "a6", "e3"} -> human
                                      [] OTHER -> invalid]

MCjustMoved == [p \in MCPositions |-> IF p \in MCAgentToMove THEN human ELSE agent]

MCdepth == [p \in MCPositions |-> CASE p = "b0" -> 6
                                    [] p = "g1" -> 5
                                    [] p = "a0" -> 4
                                    [] p \in {"h0", "h1", "h2"} -> 3
                                    [] p \in {"a3", "a4", "a5"} -> 2
                                    [] p = "e1" -> 1
                                    [] OTHER -> 0]

MCDiamondOutcome   == [p \in MCDiamond |-> MCoutcome[p]]
MCDiamondJustMoved == [p \in MCDiamond |-> MCjustMoved[p]]
MCDiamondDepth     == [p \in MCDiamond |-> MCdepth[p]]
=============================================================================
