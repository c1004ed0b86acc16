------------------------------ MODULE MCMerge ------------------------------
(***************************************************************************)
(* A game for Merge in which two short searches can find the same position *)
(* along different moves: c and d are each reached from both a and b, and  *)
(* e from both of them.                                                    *)
(***************************************************************************)
EXTENDS Merge

MCPositions == {"r", "a", "b", "c", "d", "e"}
MCStarts    == {"r"}
MClegal     == [p \in MCPositions |-> CASE p = "r" -> {"a", "b"}
                                        [] p \in {"a", "b"} -> {"c", "d"}
                                        [] p \in {"c", "d"} -> {"e"}
                                        [] p = "e" -> {}]
MCplay      == [pm \in {<<p, m>> \in MCPositions \X MCPositions : m \in MClegal[p]} |->
                   pm[2]]
MCoutcome   == [p \in MCPositions |-> IF p = "e" THEN human ELSE invalid]
MCjustMoved == [p \in MCPositions |-> IF p \in {"a", "b", "e"} THEN agent ELSE human]
MCdepth     == [p \in MCPositions |-> CASE p = "r" -> 3
                                        [] p \in {"a", "b"} -> 2
                                        [] p \in {"c", "d"} -> 1
                                        [] p = "e" -> 0]
=============================================================================
