-------------------------------- MODULE Oska --------------------------------
(***************************************************************************)
(* OskaStateTemplate<S> (oska.hpp).  The State holds the position four     *)
(* times over: a board as the agent sees it, its mirror image as the human *)
(* sees it, a list of stone ids per side, and an incrementally updated     *)
(* Zobrist hash; and it counts the stones that have come home.             *)
(*                                                                         *)
(* One object's life is followed: main's State, which plays a match with   *)
(* move_hash_winner(), and, from any point of a match, the copies that     *)
(* Mcts::compute() makes of it, which select moves with move_hash(),       *)
(* expand with move_hash_winner() and simulate() with move_winner().       *)
(* Operators named ..._mutant change the definition that follows them the  *)
(* way a slip in the code would; no definition uses them.                  *)
(***************************************************************************)
EXTENDS OskaBoard

VARIABLES
    state,  \* the object
    phase   \* "match": main's State; "select", "leaf", "playout": a copy in
            \* compute() while selecting, when expanded, while simulating

vars == <<state, phase>>

Ids == 0 .. NO_HEXAGONS - 1

-----------------------------------------------------------------------------
(* Locations and ids by side.  The code writes every operation once per    *)
(* side, with at() for the agent and at_r() for the human.                 *)

\* The id of the cell that side p sees at l.
Id(p, l) == IF p = agent THEN IdOf[l] ELSE IdOf[Mirror(l)]

\* Where side p sees the cell with this id.
Loc(p, id) == IF p = agent THEN LocationOf[id] ELSE LocationOf[NO_HEXAGONS - 1 - id]

\* as_01index(): the index of a side's Zobrist keys.
as_01index(p) == IF p = agent THEN 0 ELSE 1

\* The hash is the set of the keys that were XORed into it an odd number of
\* times: distinct sets of random keys have distinct hashes but for chance.
Xor(h, keys) == (h \ keys) \cup (keys \ h)

-----------------------------------------------------------------------------
(* initialize().                                                           *)

StartBoard ==
    [l \in Grid |-> IF l \notin Cells THEN invalid
                    ELSE IF l[2] = 1 THEN agent
                    ELSE IF l[2] = OB_HOME_ROW THEN human
                    ELSE vacant]

\* The human's stones are hashed where the agent sees them, although every
\* later update hashes them where the human does.
StartHash == {<<0, l>> : l \in {k \in Cells : k[2] = 1}}
             \cup {<<1, l>> : l \in {k \in Cells : k[2] = OB_HOME_ROW}}

StartState ==
    {[m_board          |-> [p \in Sides |-> IF p = agent THEN StartBoard
                                ELSE [l \in Grid |-> StartBoard[Mirror(l)]]],
      m_stone_id       |-> [p \in Sides |->
                              {IdOf[l] : l \in {k \in Cells : StartBoard[k] = p}}],
      m_no_home        |-> [p \in Sides |-> 0],
      m_player_to_move |-> p0,
      m_winner         |-> invalid,
      m_zobrist_hash   |-> StartHash] : p0 \in Sides}

-----------------------------------------------------------------------------
(* Moves.  A move is <<from, to>> as the side that makes it sees the board. *)

isCapture(m) == m[2][2] - m[1][2] = 2
captured(m)  == <<(m[1][1] + m[2][1]) \div 2, (m[1][2] + m[2][2]) \div 2>>

\* leftMove() (dc = 1) and rightMove() (dc = -1); no move is Move::invalid.
ForwardMove(b, l, dc) ==
    LET one == <<l[1] + dc, l[2] + 1>>
        two == <<l[1] + 2 * dc, l[2] + 2>>
    IN  CASE b[one] = vacant -> {<<l, one>>}
          [] b[one] = opponent(b[l]) /\ b[two] = vacant -> {<<l, two>>}
          [] OTHER -> {}

SideMoves(st, p) ==
    UNION {ForwardMove(st.m_board[p], Loc(p, s), dc) :
              s \in st.m_stone_id[p], dc \in {1, -1}}

moves(st) == IF occupied(st.m_winner) THEN {} ELSE SideMoves(st, st.m_player_to_move)

hasMoves(st, p) == SideMoves(st, p) # {}

\* Mutant: a stone is given up when it cannot go the way that was tossed first.
StoneMove_mutant(st, p, id) ==
    {ForwardMove(st.m_board[p], Loc(p, id), dc) : dc \in {1, -1}}

\* What a stone that randomMove() has drawn can do: bernoulli() says which of left
\* and right is tried first, the other one when there is no such move.
StoneMove(st, p, id) ==
    LET to(dc) == ForwardMove(st.m_board[p], Loc(p, id), dc)
    IN  {IF to(dc) # {} THEN to(dc) ELSE to(-dc) : dc \in {1, -1}}

\* randomMove(), the moves it may return ({} for none): stones are drawn, and
\* those that cannot move put aside, until one can.
randomMove(st) ==
    LET p == st.m_player_to_move
        from[ids \in SUBSET st.m_stone_id[p]] ==
            IF ids = {} THEN {{}}
            ELSE UNION {UNION {IF m # {} THEN {m} ELSE from[ids \ {id}] :
                                  m \in StoneMove(st, p, id)} : id \in ids}
    IN  from[st.m_stone_id[p]]

\* buildMoveValidator(): one or two diagonal steps apart, in any direction.
validator(f, t) ==
    LET apart(i) == LET d == LocationOf[f][i] - LocationOf[t][i]
                    IN  IF d < 0 THEN -d ELSE d
    IN  apart(1) \in {1, 2} /\ apart(2) = apart(1)

\* Mutant: the ids are taken for the human's own.
humanMove_mutant(st, f, t) ==
    LET m == <<LocationOf[f], LocationOf[t]>>
        b == st.m_board[human]
    IN  IF /\ validator(f, t)
           /\ b[m[1]] = human /\ b[m[2]] = vacant
           /\ m[2][2] - m[1][2] = 2 => b[captured(m)] = agent
        THEN {m} ELSE {}

\* humanMove(): the move between the hexagons the human points at, if it is
\* let through (neither Move::none nor Move::invalid).
humanMove(st, f, t) ==
    LET m == <<Mirror(LocationOf[f]), Mirror(LocationOf[t])>>
        b == st.m_board[human]
    IN  IF /\ validator(f, t)
           /\ b[m[1]] = human /\ b[m[2]] = vacant
           /\ m[2][2] - m[1][2] = 2 => b[captured(m)] = agent
        THEN {m} ELSE {}

\* Both boards with x where side p sees l.
Put(st, p, l, x) ==
    [q \in Sides |-> [st.m_board[q] EXCEPT ![IF q = p THEN l ELSE Mirror(l)] = x]]

\* Mutant: the counter is only kept for plain moves.
NewHome_mutant(m) == IF m[2][2] = OB_HOME_ROW /\ ~ isCapture(m) THEN 1 ELSE 0

NewHome(m) == IF m[2][2] = OB_HOME_ROW THEN 1 ELSE 0

\* Mutant: the stone stays on the boards where it was.
moveStone_mutant(st, m) ==
    LET p == st.m_player_to_move
    IN  [st EXCEPT
           !.m_board       = Put(st, p, m[2], p),
           !.m_stone_id[p] = (@ \ {Id(p, m[1])}) \cup {Id(p, m[2])},
           !.m_no_home[p]  = @ + NewHome(m)]

\* moveStone().
moveStone(st, m) ==
    LET p == st.m_player_to_move
        lifted == [st EXCEPT !.m_board = Put(st, p, m[1], vacant)]
    IN  [lifted EXCEPT
           !.m_board       = Put(lifted, p, m[2], p),
           !.m_stone_id[p] = (@ \ {Id(p, m[1])}) \cup {Id(p, m[2])},
           !.m_no_home[p]  = @ + NewHome(m)]

\* Mutant: the id of the captured stone as its owner would compute it.
captureStone_mutant(st, m) ==
    LET p == st.m_player_to_move
    IN  [st EXCEPT !.m_board = Put(st, p, captured(m), vacant),
                   !.m_stone_id[opponent(p)] = @ \ {Id(opponent(p), captured(m))}]

\* captureStone().
captureStone(st, m) ==
    LET p == st.m_player_to_move
    IN  [st EXCEPT !.m_board = Put(st, p, captured(m), vacant),
                   !.m_stone_id[opponent(p)] = @ \ {Id(p, captured(m))}]

\* Mutant: the captured stone's key where the capturing side sees it.
MoveKeys_mutant(p, m) ==
    {<<as_01index(p), m[1]>>, <<as_01index(p), m[2]>>}
    \cup (IF isCapture(m) THEN {<<as_01index(opponent(p)), captured(m)>>} ELSE {})

\* The keys moveStoneHash() and captureStoneHash() XOR into the hash.
MoveKeys(p, m) ==
    {<<as_01index(p), m[1]>>, <<as_01index(p), m[2]>>}
    \cup (IF isCapture(m) THEN {<<as_01index(opponent(p)), Mirror(captured(m))>>}
                          ELSE {})

hashed(st, m) ==
    [st EXCEPT !.m_zobrist_hash = Xor(@, MoveKeys(st.m_player_to_move, m))]

\* The stones after a move, captured one included.
moved(st, m) == IF isCapture(m) THEN captureStone(moveStone(st, m), m)
                                ELSE moveStone(st, m)

\* m_player_to_move.next().
next(st) == [st EXCEPT !.m_player_to_move = opponent(@)]

-----------------------------------------------------------------------------
(* winner().                                                               *)

notHaveStones(st, p) == st.m_stone_id[p] = {}

haveRemainingHome(st, p) ==
    /\ st.m_no_home[p] # 0
    /\ st.m_no_home[p] = Cardinality(st.m_stone_id[p])

playerMostHomeStones(st) ==
    CASE st.m_no_home[agent] > st.m_no_home[human] -> agent
      [] st.m_no_home[agent] < st.m_no_home[human] -> human
      [] OTHER -> vacant

\* Mutant: the mover is asked whether it can move again.
winner_mutant(st) ==
    LET p == st.m_player_to_move
        q == opponent(p)
    IN  CASE haveRemainingHome(st, p) ->
               [st EXCEPT !.m_winner =
                  IF haveRemainingHome(st, q) THEN playerMostHomeStones(st) ELSE p]
          [] ~ haveRemainingHome(st, p) /\ notHaveStones(st, q) ->
               [st EXCEPT !.m_winner = p]
          [] ~ haveRemainingHome(st, p) /\ ~ notHaveStones(st, q) /\ ~ hasMoves(st, p) ->
               [st EXCEPT !.m_winner = q]
          [] OTHER -> st

\* winner(): called before the sides are swapped.
winner(st) ==
    LET p == st.m_player_to_move
        q == opponent(p)
    IN  CASE haveRemainingHome(st, p) ->
               [st EXCEPT !.m_winner =
                  IF haveRemainingHome(st, q) THEN playerMostHomeStones(st) ELSE p]
          [] ~ haveRemainingHome(st, p) /\ notHaveStones(st, q) ->
               [st EXCEPT !.m_winner = p]
          [] ~ haveRemainingHome(st, p) /\ ~ notHaveStones(st, q) /\ ~ hasMoves(st, q) ->
               [st EXCEPT !.m_winner = q]
          [] OTHER -> st

move_hash(st, m)        == next(hashed(moved(st, m), m))
move_hash_winner(st, m) == next(winner(hashed(moved(st, m), m)))
move_winner(st, m)      == next(winner(moved(st, m)))

-----------------------------------------------------------------------------
(* main's State plays a match.                                             *)

Init == state \in StartState /\ phase = "match"

PlayMove ==
    /\ phase = "match"
    /\ state.m_winner = invalid
    /\ \E m \in moves(state) : state' = move_hash_winner(state, m)
    /\ UNCHANGED phase

\* The next match has a new State.
NextMatch ==
    /\ phase = "match"
    /\ state.m_winner # invalid
    /\ state' \in StartState
    /\ UNCHANGED phase

MatchNext == PlayMove \/ NextMatch

MatchSpec == Init /\ [][MatchNext]_vars /\ WF_vars(MatchNext)

-----------------------------------------------------------------------------
(* compute()'s copy of it.                                                 *)

CopyState ==
    /\ phase = "match"
    /\ state.m_winner = invalid
    /\ phase' = "select"
    /\ UNCHANGED state

\* Whether a State that knew its winner would still offer moves: the tree has
\* arcs only from such positions.
StillOpen(st) ==
    LET arrived == [st EXCEPT !.m_player_to_move = opponent(@)]
    IN  winner(arrived).m_winner = invalid

\* A move along an arc of the tree: winner() is not called.
SelectMove ==
    /\ phase = "select"
    /\ StillOpen(state)
    /\ \E m \in moves(state) : state' = move_hash(state, m)
    /\ UNCHANGED phase

\* The selected node has an untried move, or it is a leaf without any.
ExpandMove ==
    /\ phase = "select"
    /\ StillOpen(state)
    /\ \E m \in moves(state) : state' = move_hash_winner(state, m)
    /\ phase' = "leaf"

NoExpansion ==
    /\ phase = "select"
    /\ ~ StillOpen(state)
    /\ phase' = "leaf"
    /\ UNCHANGED state

\* A turn of simulate().
SimulateMove ==
    /\ phase \in {"leaf", "playout"}
    /\ \E m \in moves(state) : state' = move_winner(state, m)
    /\ phase' = "playout"

\* The copy is scored and destroyed; another match is followed.
Discard ==
    /\ phase \in {"leaf", "playout"}
    /\ moves(state) = {}
    /\ state' \in StartState
    /\ phase' = "match"

SearchNext ==
    \/ MatchNext \/ CopyState \/ SelectMove \/ ExpandMove \/ NoExpansion
    \/ SimulateMove \/ Discard

SearchSpec == Init /\ [][SearchNext]_vars /\ WF_vars(SearchNext)

-----------------------------------------------------------------------------
(* Properties.                                                             *)

\* The cells where side p sees its own stones.
OwnCells(st, p) == {l \in Cells : st.m_board[p][l] = p}

\* The redundant views of a position agree after every sequence of move_hash(),
\* move_hash_winner() and move_winner(): the two boards are mirror images; the
\* lists of stone ids are exactly the stones on the boards, so moveStone() and
\* captureStone() never miss the entry they search for; and m_no_home, which is
\* only ever incremented, counts the stones on the home row.
ViewsAgree ==
    /\ \A l \in Grid : state.m_board[human][l] = state.m_board[agent][Mirror(l)]
    /\ \A p \in Sides :
          /\ state.m_stone_id[p] = {Id(p, l) : l \in OwnCells(state, p)}
          /\ state.m_no_home[p] =
                Cardinality({l \in OwnCells(state, p) : l[2] = OB_HOME_ROW})

\* What initialize() put into the hash and no later update takes out.
HashOffset == Xor({<<1, l>> : l \in {k \in Cells : k[2] = OB_HOME_ROW}},
                  {<<1, l>> : l \in {k \in Cells : k[2] = 1}})

\* The "Hash of the current m_board" (oska.hpp:354): wherever the transposition
\* table reads it, the hash is the keys of the stones on the boards, up to a
\* constant, so positions with equal hashes have equal boards.
HashOfBoard ==
    phase # "playout" =>
      state.m_zobrist_hash =
        Xor(HashOffset, UNION {{<<as_01index(p), l>> : l \in OwnCells(state, p)} :
                                  p \in Sides})

\* The documented end of a match (oska.hpp:885-888): it is over exactly when
\* the side that moved has all its stones in the end row or the side to move
\* cannot move.
EndsAsDocumented ==
    phase = "match" =>
      LET q == state.m_player_to_move
          p == opponent(q)
          cells == OwnCells(state, p)
      IN  state.m_winner # invalid <=>
            \/ \A l \in cells : l[2] = OB_HOME_ROW
            \/ SideMoves(state, q) = {}

\* The rows that the stones of both sides still have to go.
RowsToGo(st) ==
    LET rows(p, r) == Cardinality({l \in OwnCells(st, p) : l[2] <= r})
        sum[r \in 0 .. OB_HOME_ROW - 1] ==
            IF r = 0 THEN 0 ELSE sum[r - 1] + rows(agent, r) + rows(human, r)
    IN  sum[OB_HOME_ROW - 1]

\* Every move brings the end nearer, so matches and playouts are finite: the
\* rows left to go bound the moves that can follow.
MovesBringEndNearer ==
    [][ \/ RowsToGo(state') < RowsToGo(state)
        \/ state' = state
        \/ phase' = "match" /\ state' \in StartState ]_vars

\* The match that the redundant State plays is a match of OskaRules.
StonesSeenByAgent == [p \in Sides |-> {LocationOf[id] : id \in state.m_stone_id[p]}]

Rules == INSTANCE OskaRules WITH stones <- StonesSeenByAgent,
                                 mover  <- state.m_player_to_move,
                                 victor <- state.m_winner
PlaysOska == Rules!Spec

\* The moves that humanMove() lets through when it is the human's turn.
HumanMoves ==
    IF phase = "match" /\ state.m_winner = invalid /\ state.m_player_to_move = human
    THEN UNION {humanMove(state, f, t) : f \in Ids, t \in Ids} ELSE {}

\* The human can make every move of the game: whenever moves() lists a move for
\* the human, humanMove() with the ids of the two hexagons returns that move,
\* although ids are numbered as the agent sees the board.
HumanMovesComplete ==
    phase = "match" /\ state.m_player_to_move = human =>
        \A m \in moves(state) :
            humanMove(state, Id(human, m[1]), Id(human, m[2])) = {m}

\* randomMove() finds every move of the side to move, whatever the generator draws,
\* and returns none only when moves() lists none: it gives up on no stone early
\* and draws none twice.
RandomMoveExact ==
    phase = "match" /\ state.m_winner = invalid =>
        randomMove(state) = {{m} : m \in moves(state)}

\* "You take a piece by jumping it, so this can only be done forwards"
\* (oska.hpp:72-73): a jump that humanMove() lets through goes forwards.
HumanJumpsForwards ==
    \A m \in HumanMoves :
        m[2][2] - m[1][2] \in {-2, 2} => m[2][2] > m[1][2]

\* main's switch over the winner has cases for agent and human and aborts
\* otherwise (main.cpp:89-93): every match is won by a side.
EveryMatchHasAWinner ==
    phase = "match" => state.m_winner \in Sides \cup {invalid}
=============================================================================
