---------------------------- MODULE UntriedMoves ----------------------------
(***************************************************************************)
(* What NodeData promises about the moves that a node has not tried: every *)
(* object has a set of moves of its own, from which moves are drawn one at *)
(* a time.  There are no pointers, arrays or pools here.                   *)
(***************************************************************************)
CONSTANTS Objects, Move, NoMove

VARIABLES
    alive,      \* objects that have been constructed and not destroyed
    untried,    \* the moves of each object
    returned    \* the move that was drawn last

Init ==
    /\ alive = {}
    /\ untried = [o \in Objects |-> {}]
    /\ returned = NoMove

\* A new object has the moves of a position, or none.
Create(o, ms) ==
    /\ o \notin alive
    /\ alive' = alive \cup {o}
    /\ untried' = [untried EXCEPT ![o] = ms]
    /\ UNCHANGED returned

\* A copy has the same moves; the two sets are drawn from independently.
Copy(o, src) ==
    /\ src \in alive
    /\ Create(o, untried[src])

\* A new object takes the moves of another one, which is left with none.
Take(o, src) ==
    /\ src \in alive
    /\ o \notin alive
    /\ alive' = alive \cup {o}
    /\ untried' = [untried EXCEPT ![o] = untried[src], ![src] = {}]
    /\ UNCHANGED returned

Swap(o, src) ==
    /\ {o, src} \subseteq alive
    /\ untried' = [untried EXCEPT ![o] = untried[src], ![src] = untried[o]]
    /\ UNCHANGED <<alive, returned>>

\* A draw returns a move that the object has, and removes that one only.
Draw(o, m) ==
    /\ o \in alive
    /\ m \in untried[o]
    /\ untried' = [untried EXCEPT ![o] = @ \ {m}]
    /\ returned' = m
    /\ UNCHANGED alive

Discard(o) ==
    /\ o \in alive
    /\ alive' = alive \ {o}
    /\ untried' = [untried EXCEPT ![o] = {}]
    /\ UNCHANGED returned

Next ==
    \E o \in Objects :
        \/ \E ms \in SUBSET Move : Create(o, ms)
        \/ \E src \in Objects : Copy(o, src) \/ Take(o, src) \/ Swap(o, src)
        \/ \E m \in Move : Draw(o, m)
        \/ Discard(o)

Spec == Init /\ [][Next]_<<alive, untried, returned>>
=============================================================================
