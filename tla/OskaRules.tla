----------------------------- MODULE OskaRules -----------------------------
(***************************************************************************)
(* The rules of Oska as moves of stones on one board, seen by the agent:   *)
(* the agent's stones move down, the human's up; a stone steps diagonally  *)
(* forward to a vacant cell or jumps over an adjacent stone of the other   *)
(* side, which is captured, to the vacant cell behind it.                  *)
(***************************************************************************)
EXTENDS OskaBoard

VARIABLES stones,  \* stones[p]: the cells with a stone of side p
          mover,   \* the side to move
          victor   \* invalid until the match is over

rules == <<stones, mover, victor>>

Forward(p) == IF p = agent THEN 1 ELSE -1
HomeRow(p) == IF p = agent THEN OB_HOME_ROW ELSE 1

Vacant(st, l) == IsCell(l) /\ l \notin st[agent] \cup st[human]

\* The cell n diagonal steps from l, to the side dc, for side p.
Ahead(p, l, dc, n) == <<l[1] + n * dc, l[2] + n * Forward(p)>>

\* The stones after each move side p can make.
Results(st, p) ==
    LET q == opponent(p)
        CanStep(l, dc) == Vacant(st, Ahead(p, l, dc, 1))
        CanJump(l, dc) == /\ Ahead(p, l, dc, 1) \in st[q]
                          /\ Vacant(st, Ahead(p, l, dc, 2))
        Step(l, dc) == [st EXCEPT ![p] = (@ \ {l}) \cup {Ahead(p, l, dc, 1)}]
        Jump(l, dc) == [st EXCEPT ![p] = (@ \ {l}) \cup {Ahead(p, l, dc, 2)},
                                  ![q] = @ \ {Ahead(p, l, dc, 1)}]
        ways == st[p] \X {-1, 1}
    IN  {Step(x[1], x[2]) : x \in {y \in ways : CanStep(y[1], y[2])}} \cup
        {Jump(x[1], x[2]) : x \in {y \in ways : CanJump(y[1], y[2])}}

AllHome(st, p) == st[p] # {} /\ \A l \in st[p] : l[2] = HomeRow(p)

\* Who has won after side p moved: a side with all its stones home, the one
\* with more of them if both have; else the side that captured the last stone;
\* else the side that is to move and cannot.
Verdict(st, p) ==
    LET q == opponent(p)
        n(s) == Cardinality(st[s])
    IN  CASE AllHome(st, p) /\ AllHome(st, q) ->
                 IF n(p) = n(q) THEN vacant ELSE IF n(p) > n(q) THEN p ELSE q
          [] AllHome(st, p) /\ ~ AllHome(st, q) -> p
          [] ~ AllHome(st, p) /\ st[q] = {} -> p
          [] ~ AllHome(st, p) /\ st[q] # {} /\ Results(st, q) = {} -> q
          [] OTHER -> invalid

StartStones == [p \in Sides |-> {l \in Cells : l[2] = HomeRow(opponent(p))}]

Init ==
    /\ stones = StartStones
    /\ mover \in Sides
    /\ victor = invalid

MakeMove ==
    /\ victor = invalid
    /\ \E st \in Results(stones, mover) :
          /\ stones' = st
          /\ victor' = Verdict(st, mover)
    /\ mover' = opponent(mover)

NewMatch ==
    /\ victor # invalid
    /\ stones' = StartStones
    /\ mover' \in Sides
    /\ victor' = invalid

Next == MakeMove \/ NewMatch

Spec == Init /\ [][Next]_rules
=============================================================================
