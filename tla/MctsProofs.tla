----------------------------- MODULE MctsProofs -----------------------------
(***************************************************************************)
(* Proofs about Mcts for every game that satisfies GameTypes and GameRules *)
(* and all iteration and playout counts.  The safety properties follow     *)
(* from one inductive invariant, IInv of MctsInvariant.                    *)
(*                                                                         *)
(* The module goes from the game (what moves and winners are) and the tree *)
(* (what node data is, when an arc maximal in visits exists) to one lemma  *)
(* per action, each of the form IInv /\ Action => IInv' and split by the   *)
(* conjuncts that the action disturbs.  SameTree and PathExtended cover    *)
(* the many steps that leave the tree alone or only push on the path;      *)
(* OldTreeKept and CopiesDiffer cover the loop of prune_impl(), of which   *)
(* the state halfway through is the hard part of the invariant.            *)
(***************************************************************************)
EXTENDS MctsInvariant, TLAPS, SequenceTheorems, FiniteSetTheorems,
        WellFoundedInduction

-----------------------------------------------------------------------------
(* Lemmas about the game.                                                  *)

\* Player values: the code's tests tell the two sides from the rest.
LEMMA PlayerFacts ==
    /\ \A p \in Sides : opponent(p) \in Sides /\ opponent(p) # p
    /\ \A p \in Sides : opponent(opponent(p)) = p
    /\ Sides \subseteq Players
    /\ invalid \in Players
    /\ ~ occupied(invalid)
<1>1. ~ occupied(invalid)
  BY DEF occupied, invalid
<1>2. \A p \in Int : p \in Sides <=> p + 1 = 0 \/ p = 1
  BY DEF Sides, agent, human
<1>3. Sides \subseteq Int
  BY DEF Sides, agent, human
<1>4. Sides \subseteq Players /\ invalid \in Players
  BY DEF Players, Sides
<1>5. ASSUME NEW p \in Int, p + 1 = 0 \/ p = 1
      PROVE  /\ -p \in Int /\ ((-p) + 1 = 0 \/ -p = 1)
             /\ -p # p /\ -(-p) = p
  BY <1>5
<1> QED
  BY <1>1, <1>2, <1>3, <1>4, <1>5 DEF opponent

\* A move of a position leads to a position where the other side has moved.
LEMMA PlayFacts ==
    ASSUME NEW p \in Positions, NEW m \in legal[p]
    PROVE  /\ m \in Move
           /\ play[<<p, m>>] \in Positions
           /\ justMoved[play[<<p, m>>]] = opponent(justMoved[p])
<1>1. m \in Move
  BY DEF Move
<1>2. <<p, m>> \in PlayedMoves
  BY <1>1 DEF PlayedMoves
<1> QED
  BY <1>1, <1>2, GameTypes, GameRules

\* moves() offers legal moves only, and all of them when nobody has won.
LEMMA MovesFacts ==
    ASSUME NEW st \in States
    PROVE  /\ moves(st) \subseteq legal[st.pos]
           /\ moves(st) \subseteq Move
           /\ st.winner = invalid => moves(st) = legal[st.pos]
  BY PlayerFacts DEF moves, Move, States

\* move_hash() keeps the winner and follows the game.
LEMMA MoveHashFacts ==
    ASSUME NEW st \in States, NEW m \in legal[st.pos]
    PROVE  /\ move_hash(st, m) \in States
           /\ move_hash(st, m).pos = play[<<st.pos, m>>]
           /\ move_hash(st, m).winner = st.winner
  BY PlayFacts DEF move_hash, States

\* move_hash_winner() knows the winner of a match that was undecided.
LEMMA MoveHashWinnerFacts ==
    ASSUME NEW st \in States, NEW m \in legal[st.pos]
    PROVE  /\ move_hash_winner(st, m) \in States
           /\ move_hash_winner(st, m).pos = play[<<st.pos, m>>]
           /\ st.winner = invalid =>
                move_hash_winner(st, m).winner = outcome[play[<<st.pos, m>>]]
           /\ playerToMove(move_hash_winner(st, m)) = opponent(playerToMove(st))
<1>1. play[<<st.pos, m>>] \in Positions
  BY PlayFacts DEF States
<1>2. outcome[play[<<st.pos, m>>]] \in Players
  BY <1>1, GameTypes
<1>3. justMoved[play[<<st.pos, m>>]] = opponent(justMoved[st.pos])
  BY PlayFacts DEF States
<1> QED
  BY <1>1, <1>2, <1>3 DEF move_hash_winner, States, playerToMove

-----------------------------------------------------------------------------
\* An undecided state's node has moves: a finished position is the only one
\* without.
LEMMA UndecidedOffers ==
    ASSUME NEW st \in States, st.winner = invalid,
           outcome[st.pos] = invalid
    PROVE  /\ moves(st) = Offered(st.pos)
           /\ Offered(st.pos) # {}
  BY PlayerFacts, GameRules DEF moves, Offered, States

\* The data of a node made for a state that knows its winner.
LEMMA NodeDataFacts ==
    ASSUME NEW st \in States, st.winner = outcome[st.pos]
    PROVE  /\ NodeData(st) \in NodeRecords
           /\ NodeData(st).pos = st.pos
           /\ NodeData(st).m_moves = Offered(st.pos)
<1>1. moves(st) = Offered(st.pos)
  BY DEF moves, Offered
<1>2. playerJustMoved(st) \in Sides
  BY GameTypes DEF playerJustMoved, States
<1>3. moves(st) \subseteq Move
  BY MovesFacts
<1>4. st.pos \in Positions
  BY DEF States
<1> QED
  BY <1>1, <1>2, <1>3, <1>4 DEF NodeData, NodeRecords

\* Among finitely many numbers one is the largest (by the least n for which
\* 1..n would have a subset without a largest f).
LEMMA MaximumExists ==
    ASSUME NEW f, NEW n \in Nat, NEW S \in SUBSET (1..n), S # {},
           \A x \in S : f[x] \in Nat
    PROVE  \E x \in S : \A y \in S : f[x] >= f[y]
<1> DEFINE Without(k, T) == /\ T \subseteq 1..k /\ T # {}
                            /\ \A x \in T : f[x] \in Nat
                            /\ \A x \in T : \E y \in T : ~ (f[x] >= f[y])
           Bad == {k \in Nat : \E T \in SUBSET (1..k) : Without(k, T)}
<1> SUFFICES ASSUME Bad # {} PROVE FALSE
  <2>1. Bad = {}
    OBVIOUS
  <2>2. ~ Without(n, S)
    BY <2>1
  <2> QED
    BY <2>2
<1>1. PICK k \in Bad : \A j \in Bad : ~ (<<j, k>> \in OpToRel(<, Nat))
  <2>1. IsWellFoundedOn(OpToRel(<, Nat), Nat)
    BY NatLessThanWellFounded
  <2>2. Bad \subseteq Nat
    OBVIOUS
  <2> HIDE DEF Bad
  <2> QED
    BY <2>1, <2>2, WFMin
<1>2. k \in Nat
  OBVIOUS
<1>3. \A j \in Nat : j < k => j \notin Bad
  <2> HIDE DEF Bad
  <2> QED
    BY <1>1, <1>2 DEF OpToRel
<1>4. PICK T \in SUBSET (1..k) : Without(k, T)
  OBVIOUS
<1>5. k # 0
  <2>1. PICK x : x \in 1..k
    BY <1>4
  <2> QED
    BY <2>1, <1>2
<1>6. k - 1 \in Nat /\ k - 1 < k
  BY <1>2, <1>5
<1>7. \A U \in SUBSET (1..k - 1) : ~ Without(k - 1, U)
  BY <1>3, <1>6
<1>8. k \in T
  <2>1. \A x \in 1..k : x = k \/ x \in 1..k - 1
    BY <1>2
  <2>2. k \notin T => T \subseteq 1..k - 1
    BY <1>4, <2>1
  <2> QED
    BY <2>2, <1>4, <1>7
<1>9. T \ {k} \subseteq 1..k - 1
  BY <1>2, <1>4
<1>10. T \ {k} # {}
  <2>1. PICK y \in T : ~ (f[k] >= f[y])
    BY <1>4, <1>8
  <2>2. f[k] \in Nat
    BY <1>4, <1>8
  <2>3. y # k
    BY <2>1, <2>2
  <2> QED
    BY <2>3
<1>11. PICK x \in T \ {k} : \A y \in T \ {k} : f[x] >= f[y]
  <2>1. ~ Without(k - 1, T \ {k})
    BY <1>7, <1>9
  <2> QED
    BY <2>1, <1>4, <1>9, <1>10
<1>12. CASE f[x] >= f[k]
  BY <1>4, <1>11, <1>12
<1>13. CASE ~ (f[x] >= f[k])
  <2>1. \A y \in T : f[k] >= f[y]
    BY <1>4, <1>8, <1>11, <1>13
  <2> QED
    BY <2>1, <1>4, <1>8
<1> QED
  BY <1>12, <1>13
-----------------------------------------------------------------------------
(* The inductive invariant.                                                *)

\* What the types say of the tree's ids.
LEMMA TreeFacts ==
    ASSUME TypeOK
    PROVE  /\ Len(m_nodes) \in Nat /\ NodeIds = 1..Len(m_nodes)
           /\ Len(m_arcs) \in Nat /\ ArcIds = 1..Len(m_arcs)
           /\ Len(m_path) \in Nat /\ DOMAIN m_path = 1..Len(m_path)
           /\ NoNode \notin NodeIds
           /\ \A n \in NodeIds :
                /\ m_nodes[n] \in NodeRecords
                /\ m_nodes[n].pos \in Positions
                /\ m_nodes[n].m_visits \in Nat
           /\ \A a \in ArcIds : /\ m_arcs[a].source \in NodeIds
                                /\ m_arcs[a].target \in NodeIds
                                /\ m_arcs[a].m_move \in Move
           /\ \A i \in 1..Len(m_path) : m_path[i].target \in NodeIds
<1>1. /\ m_nodes \in Seq(NodeRecords) /\ m_arcs \in Seq(ArcRecords(NodeIds))
      /\ m_path \in Seq(Links)
  BY DEF TypeOK
<1>2. /\ Len(m_nodes) \in Nat /\ NodeIds = 1..Len(m_nodes)
      /\ \A n \in NodeIds : m_nodes[n] \in NodeRecords
  BY <1>1 DEF NodeIds
<1>3. /\ Len(m_arcs) \in Nat /\ ArcIds = 1..Len(m_arcs)
      /\ \A a \in ArcIds : m_arcs[a] \in ArcRecords(NodeIds)
  BY <1>1 DEF ArcIds
<1>4. /\ Len(m_path) \in Nat /\ DOMAIN m_path = 1..Len(m_path)
      /\ \A i \in 1..Len(m_path) : m_path[i] \in Links
  BY <1>1
<1>5. NoNode \notin NodeIds
  BY <1>2 DEF NoNode
<1>6. \A n \in NodeIds : m_nodes[n].pos \in Positions /\ m_nodes[n].m_visits \in Nat
  BY <1>2 DEF NodeRecords
<1>7. \A a \in ArcIds : /\ m_arcs[a].source \in NodeIds
                        /\ m_arcs[a].target \in NodeIds
                        /\ m_arcs[a].m_move \in Move
  BY <1>3 DEF ArcRecords
<1>8. \A i \in 1..Len(m_path) : m_path[i].target \in NodeIds
  BY <1>4 DEF Links
<1> QED
  BY <1>2, <1>3, <1>4, <1>5, <1>6, <1>7, <1>8

\* The initial states satisfy the invariant.
LEMMA InitInv == Init => IInv
<1> SUFFICES ASSUME Init PROVE IInv
  OBVIOUS
<1>1. /\ state \in States /\ state.winner = invalid
      /\ outcome[state.pos] = invalid
  BY GameTypes, GameRules, PlayerFacts DEF Init, NewMatch, States
<1>2. TypeOK
  BY <1>1, SearchAssumption DEF Init, TypeOK, NodeIds, ArcIds, Links, NoNode, NoMove
<1> QED
  BY <1>1, <1>2 DEF Init, IInv, WinnerKnown, ObjectShape, Phases, Locals,
     TableExact, ArcsFollowGame, Accounting, RootIsState, InSync, RootTried,
     TargetsVisited, PathFromRoot, BestMoveLegal, CopyInv, NodeIds, ArcIds

\* The root is the state's node throughout compute(), and offers a move.
LEMMA RootFacts ==
    ASSUME IInv, pc \in {"search", "select", "playout", "play"}
    PROVE  /\ root_node \in NodeIds
           /\ getNode(state.pos) = root_node
           /\ state.pos = m_nodes[root_node].pos
           /\ moves(state) = Offered(state.pos)
           /\ moves(state) # {}
<1>1. root_node \in NodeIds
  BY DEF IInv, ObjectShape, Phases
<1>2. getNode(state.pos) = root_node
  BY DEF IInv, RootIsState, Phases
<1>3. state.pos = m_nodes[root_node].pos
  BY <1>1, <1>2, TreeFacts DEF IInv, getNode, TableExact
<1>4. state \in States /\ state.winner = invalid /\ outcome[state.pos] = invalid
  BY DEF IInv, Phases, WinnerKnown, TypeOK
<1> QED
  BY <1>1, <1>2, <1>3, <1>4, UndecidedOffers

\* What a step that leaves the tree alone preserves, outside of prune_impl().
LEMMA SameTree ==
    ASSUME IInv, pc # "copy", pc' # "copy",
           UNCHANGED <<m_nodes, m_arcs, m_transposition_table>>
    PROVE  /\ NodeIds' = NodeIds /\ ArcIds' = ArcIds
           /\ TableExact' /\ ArcsFollowGame' /\ Accounting' /\ CopyInv'
<1>1. NodeIds' = NodeIds /\ ArcIds' = ArcIds
  BY DEF NodeIds, ArcIds
<1>2. TableExact' /\ ArcsFollowGame'
  BY <1>1 DEF IInv, TableExact, ArcsFollowGame
<1>3. Accounting'
  BY <1>1 DEF IInv, Accounting, Accounted, Tried, OutArcs
<1> QED
  BY <1>1, <1>2, <1>3 DEF CopyInv

\* Iterate: the search starts at the root, which is the state's node.
LEMMA IterateStep == IInv /\ Iterate => IInv'
<1> SUFFICES ASSUME IInv, Iterate PROVE IInv'
  OBVIOUS
<1>0. /\ pc = "search" /\ pc' = "select" /\ max_iterations \in Nat \ {0}
      /\ max_iterations' = max_iterations - 1 /\ node' = root_node
      /\ search' = state
      /\ UNCHANGED <<state, m_nodes, m_arcs, root_node, m_transposition_table,
                     m_not_initialized, m_path, m_path_size, sim_state,
                     playouts, best_move, new_nodes, new_arcs, visited, stack,
                     parent, out_arcs>>
  BY DEF IInv, Iterate, TypeOK, tree, path, pruning
<1>1. NodeIds' = NodeIds /\ ArcIds' = ArcIds /\ root_node \in NodeIds
  BY <1>0, SameTree, RootFacts
<1>2. TypeOK'
  BY <1>0, <1>1, SearchAssumption, SMTT(30) DEF IInv, TypeOK, Links
<1>3. WinnerKnown' /\ ObjectShape' /\ Phases' /\ Locals'
  BY <1>0, <1>1 DEF IInv, WinnerKnown, ObjectShape, Phases, Locals
<1>4. TableExact' /\ ArcsFollowGame' /\ Accounting' /\ CopyInv'
  BY <1>0, SameTree
<1>5. RootIsState' /\ RootTried' /\ TargetsVisited'
  BY <1>0, <1>1 DEF IInv, RootIsState, getNode, RootTried, hasChildren, OutArcs,
     TargetsVisited
<1>6. InSync'
  BY <1>0, <1>1, RootFacts DEF InSync
<1>7. PathFromRoot' /\ BestMoveLegal'
  BY <1>0, <1>1 DEF IInv, PathFromRoot, BestMoveLegal
<1> QED
  BY <1>2, <1>3, <1>4, <1>5, <1>6, <1>7 DEF IInv

\* Selection and expansion extend the chain of arcs by one.
LEMMA PathExtended ==
    ASSUME IInv, pc = "select", pc' \in {"select", "playout"},
           UNCHANGED <<root_node, m_path_size>>,
           NodeIds \subseteq NodeIds', ArcIds \subseteq ArcIds',
           \A b \in ArcIds : m_arcs'[b] = m_arcs[b],
           NEW a \in ArcIds', m_arcs'[a].source = node,
           m_arcs'[a].target = node', node' \in NodeIds',
           m_path' = Append(m_path, [arc |-> a, target |-> node'])
    PROVE  m_path' \in Seq(Links') /\ m_path' # << >> /\ PathFromRoot'
<1>1. /\ m_path_size \in 1..Len(m_path) /\ Len(m_path) \in Nat
      /\ m_path[m_path_size].target = root_node
      /\ m_path[Len(m_path)].target = node
      /\ \A i \in m_path_size + 1 .. Len(m_path) :
            /\ m_path[i].arc \in ArcIds
            /\ m_arcs[m_path[i].arc].source = m_path[i - 1].target
            /\ m_arcs[m_path[i].arc].target = m_path[i].target
  BY TreeFacts DEF IInv, PathFromRoot
<1>2. m_path \in Seq(Links')
  <2>1. Links \subseteq Links'
    BY DEF Links
  <2>2. m_path \in Seq(Links)
    BY DEF IInv, TypeOK
  <2> QED
    BY <2>1, <2>2, SeqMonotonic
<1>3. [arc |-> a, target |-> node'] \in Links'
  BY DEF Links
<1>4. /\ m_path' \in Seq(Links')
      /\ Len(m_path') = Len(m_path) + 1
      /\ \A i \in 1..Len(m_path) : m_path'[i] = m_path[i]
      /\ m_path'[Len(m_path) + 1] = [arc |-> a, target |-> node']
  BY <1>2, <1>3
<1>5. ASSUME NEW i \in m_path_size' + 1 .. Len(m_path')
      PROVE  /\ m_path'[i].arc \in ArcIds'
             /\ m_arcs'[m_path'[i].arc].source = m_path'[i - 1].target
             /\ m_arcs'[m_path'[i].arc].target = m_path'[i].target
  <2>1. CASE i \in m_path_size + 1 .. Len(m_path)
    <3>1. i \in 1..Len(m_path) /\ i - 1 \in 1..Len(m_path)
      BY <1>1, <2>1
    <3> QED
      BY <1>1, <1>4, <2>1, <3>1
  <2>2. CASE i = Len(m_path) + 1
    <3>1. m_path'[i - 1] = m_path[Len(m_path)]
      BY <1>1, <1>4, <2>2
    <3> QED
      BY <1>1, <1>4, <2>2, <3>1
  <2> QED
    BY <1>1, <1>4, <2>1, <2>2
<1>6. m_path' # << >>
  BY <1>1, <1>4
<1>7. /\ m_path_size' \in 1..Len(m_path')
      /\ m_path'[m_path_size'].target = root_node'
      /\ m_path'[Len(m_path')].target = node'
  BY <1>1, <1>4
<1> QED
  BY <1>4, <1>5, <1>6, <1>7 DEF PathFromRoot

\* Select: an arc of the tree is a move of the game.
LEMMA SelectStep == IInv /\ Select => IInv'
<1> SUFFICES ASSUME IInv, Select PROVE IInv'
  OBVIOUS
<1>0. /\ pc = "select" /\ pc' = "select"
      /\ UNCHANGED <<state, m_nodes, m_arcs, root_node, m_transposition_table,
                     m_not_initialized, m_path_size, max_iterations, sim_state,
                     playouts, best_move, new_nodes, new_arcs, visited, stack,
                     parent, out_arcs>>
  BY DEF Select, tree, pruning
<1>1. PICK a \in OutArcs(node) :
          /\ search' = move_hash(search, m_arcs[a].m_move)
          /\ m_path' = Append(m_path, [arc |-> a, target |-> m_arcs[a].target])
          /\ node' = m_arcs[a].target
  BY DEF Select
<1>2. NodeIds' = NodeIds /\ ArcIds' = ArcIds /\ root_node \in NodeIds
  BY <1>0, SameTree, RootFacts
<1>3. a \in ArcIds /\ m_arcs[a].source = node /\ m_arcs[a].target \in NodeIds
  BY <1>1, TreeFacts DEF IInv, OutArcs
<1>4. /\ search' \in States /\ search'.winner = invalid
      /\ search'.pos = m_nodes[node'].pos
  <2>1. /\ search \in States /\ search.winner = invalid
        /\ search.pos = m_nodes[node].pos
    BY <1>0 DEF IInv, TypeOK, Phases, InSync
  <2>2. /\ m_arcs[a].m_move \in Offered(search.pos)
        /\ play[<<search.pos, m_arcs[a].m_move>>] = m_nodes[node'].pos
    BY <1>1, <1>3, <2>1 DEF IInv, ArcsFollowGame
  <2>3. m_arcs[a].m_move \in legal[search.pos]
    BY <2>2 DEF Offered, moves
  <2> QED
    BY <1>1, <2>1, <2>2, <2>3, MoveHashFacts
<1>5. m_path' \in Seq(Links') /\ m_path' # << >> /\ PathFromRoot'
  BY <1>0, <1>1, <1>2, <1>3, PathExtended
<1>6. TypeOK'
  BY <1>0, <1>1, <1>2, <1>3, <1>4, <1>5 DEF IInv, TypeOK
<1>7. WinnerKnown' /\ ObjectShape' /\ Phases' /\ Locals'
  BY <1>0, <1>2, <1>4, <1>5, TreeFacts
     DEF IInv, WinnerKnown, ObjectShape, Phases, Locals
<1>8. TableExact' /\ ArcsFollowGame' /\ Accounting' /\ CopyInv'
  BY <1>0, SameTree
<1>9. RootIsState' /\ TargetsVisited' /\ BestMoveLegal'
  BY <1>0, <1>2 DEF IInv, RootIsState, getNode, TargetsVisited, BestMoveLegal
<1>10. InSync'
  BY <1>0, <1>1, <1>2, <1>3, <1>4 DEF InSync
<1>11. RootTried'
  BY <1>0, <1>1, <1>2 DEF IInv, RootTried, hasChildren, OutArcs
<1> QED
  BY <1>5, <1>6, <1>7, <1>8, <1>9, <1>10, <1>11 DEF IInv

\* Leaf: the root is never one, because its position offers a move.
LEMMA LeafStep == IInv /\ Leaf => IInv'
<1> SUFFICES ASSUME IInv, Leaf PROVE IInv'
  OBVIOUS
<1>0. /\ pc = "select" /\ pc' = "playout"
      /\ ~ hasUntriedMoves(node) /\ ~ hasChildren(node)
      /\ sim_state' = search /\ playouts' = Playouts
      /\ UNCHANGED <<state, m_nodes, m_arcs, root_node, m_transposition_table,
                     m_not_initialized, m_path, m_path_size, max_iterations,
                     node, search, best_move, new_nodes, new_arcs, visited,
                     stack, parent, out_arcs>>
  BY DEF Leaf, StartPlayouts, tree, path, pruning
<1>1. NodeIds' = NodeIds /\ ArcIds' = ArcIds /\ root_node \in NodeIds
  BY <1>0, SameTree, RootFacts
<1>2. TypeOK'
  BY <1>0, <1>1, SearchAssumption DEF IInv, TypeOK, Links
<1>3. WinnerKnown' /\ ObjectShape' /\ Phases' /\ Locals'
  BY <1>0, <1>1, SearchAssumption
     DEF IInv, WinnerKnown, ObjectShape, Phases, Locals, InSync
<1>4. TableExact' /\ ArcsFollowGame' /\ Accounting' /\ CopyInv'
  BY <1>0, SameTree
<1>5. RootIsState' /\ TargetsVisited' /\ BestMoveLegal' /\ InSync'
  BY <1>0, <1>1 DEF IInv, RootIsState, getNode, TargetsVisited, BestMoveLegal,
     InSync
<1>6. RootTried'
  <2>1. node # root_node
    <3>1. Accounted(root_node) /\ Offered(m_nodes[root_node].pos) # {}
      BY <1>0, RootFacts DEF IInv, Accounting
    <3> QED
      BY <1>0, <3>1 DEF Accounted, Tried, hasUntriedMoves, hasChildren
  <2> QED
    BY <1>0, <1>1, <2>1 DEF IInv, RootTried, hasChildren, OutArcs
<1>7. PathFromRoot'
  BY <1>0, <1>1 DEF IInv, PathFromRoot
<1> QED
  BY <1>2, <1>3, <1>4, <1>5, <1>6, <1>7 DEF IInv

\* Simulate: a random game touches nothing but its own State.
LEMMA SimulateStep == IInv /\ Simulate => IInv'
<1> SUFFICES ASSUME IInv, Simulate PROVE IInv'
  OBVIOUS
<1>0. /\ pc = "playout"
      /\ UNCHANGED <<pc, state, m_nodes, m_arcs, root_node,
                     m_transposition_table, m_not_initialized, m_path,
                     m_path_size, max_iterations, node, search, playouts,
                     best_move, new_nodes, new_arcs, visited, stack, parent,
                     out_arcs>>
  BY DEF Simulate, tree, path, pruning
<1>1. sim_state' \in States
  <2>1. PICK m \in moves(sim_state) : sim_state' = move_hash_winner(sim_state, m)
    BY DEF Simulate
  <2>2. sim_state \in States
    BY DEF IInv, TypeOK
  <2>3. m \in legal[sim_state.pos]
    BY <2>1, <2>2, MovesFacts
  <2> QED
    BY <2>1, <2>2, <2>3, MoveHashWinnerFacts
<1>2. NodeIds' = NodeIds /\ ArcIds' = ArcIds
  BY <1>0, SameTree
<1>3. TypeOK'
  BY <1>0, <1>1, <1>2 DEF IInv, TypeOK, Links
<1>4. WinnerKnown' /\ ObjectShape' /\ Phases' /\ Locals'
  BY <1>0, <1>2 DEF IInv, WinnerKnown, ObjectShape, Phases, Locals
<1>5. TableExact' /\ ArcsFollowGame' /\ Accounting' /\ CopyInv'
  BY <1>0, SameTree
<1>6. RootIsState' /\ TargetsVisited' /\ BestMoveLegal' /\ InSync' /\ RootTried'
  BY <1>0, <1>2 DEF IInv, RootIsState, getNode, TargetsVisited, BestMoveLegal,
     InSync, RootTried, hasChildren, OutArcs
<1>7. PathFromRoot'
  BY <1>0, <1>2 DEF IInv, PathFromRoot
<1> QED
  BY <1>3, <1>4, <1>5, <1>6, <1>7 DEF IInv

\* Every node is updated a number of times, the node reached at least once.
LEMMA OccurrencesFacts ==
    ASSUME TypeOK
    PROVE  \A n : /\ Occurrences(n) \in Nat
                  /\ (\E i \in 1..Len(m_path) : m_path[i].target = n) =>
                        Occurrences(n) > 0
<1> SUFFICES ASSUME NEW n
             PROVE  /\ Occurrences(n) \in Nat
                    /\ (\E i \in 1..Len(m_path) : m_path[i].target = n) =>
                          Occurrences(n) > 0
  OBVIOUS
<1> DEFINE Hits == {i \in 1..Len(m_path) : m_path[i].target = n}
<1>1. IsFiniteSet(Hits)
  <2>1. 1 \in Int /\ Len(m_path) \in Int
    BY TreeFacts
  <2>2. IsFiniteSet(1..Len(m_path))
    BY <2>1, FS_Interval
  <2> QED
    BY <2>2, FS_Subset
<1>2. Cardinality(Hits) \in Nat
  BY <1>1, FS_CardinalityType
<1>3. Hits # {} => Cardinality(Hits) # 0
  BY <1>1, FS_EmptySet
<1>4. Occurrences(n) = Cardinality(Hits)
  BY DEF Occurrences
<1>5. (\E i \in 1..Len(m_path) : m_path[i].target = n) => Hits # {}
  OBVIOUS
<1> HIDE DEF Hits
<1> QED
  BY <1>2, <1>3, <1>4, <1>5

\* Backpropagation changes visits and scores only, and visits the node that
\* the iteration has reached.
LEMMA UpdatedNodesFacts ==
    ASSUME IInv, pc = "playout"
    PROVE  /\ UpdatedNodes \in Seq(NodeRecords)
           /\ DOMAIN UpdatedNodes = NodeIds
           /\ \A n \in NodeIds :
                 /\ UpdatedNodes[n].pos = m_nodes[n].pos
                 /\ UpdatedNodes[n].m_moves = m_nodes[n].m_moves
                 /\ UpdatedNodes[n].m_visits \in Nat
                 /\ UpdatedNodes[n].m_visits >= m_nodes[n].m_visits
           /\ UpdatedNodes[node].m_visits > 0
<1>1. /\ NodeIds = 1..Len(m_nodes) /\ Len(m_nodes) \in Nat
      /\ \A n \in NodeIds : m_nodes[n] \in NodeRecords
  BY TreeFacts DEF IInv
<1>2. /\ \A n : Occurrences(n) \in Nat
      /\ node \in NodeIds /\ Occurrences(node) > 0
  BY TreeFacts, OccurrencesFacts DEF IInv, PathFromRoot, Phases
<1>3. ASSUME NEW n \in NodeIds
      PROVE  /\ UpdatedNodes[n] \in NodeRecords
             /\ UpdatedNodes[n].pos = m_nodes[n].pos
             /\ UpdatedNodes[n].m_moves = m_nodes[n].m_moves
             /\ UpdatedNodes[n].m_visits = m_nodes[n].m_visits + Occurrences(n)
  <2> DEFINE r == result(sim_state, m_nodes[n].m_player_just_moved)
  <2>1. r \in Int
    BY DEF result
  <2>2. Occurrences(n) * r \in Int
    BY <1>2, <2>1
  <2> DEFINE gain == Occurrences(n) * r
  <2>3. UpdatedNodes[n] = [m_nodes[n] EXCEPT !.m_visits = @ + Occurrences(n),
                                             !.m_score = @ + gain]
    BY DEF UpdatedNodes
  <2>4. gain \in Int
    BY <2>2
  <2>5. /\ m_nodes[n].m_visits \in Nat /\ m_nodes[n].m_score \in Int
        /\ m_nodes[n] \in NodeRecords
    BY <1>1 DEF NodeRecords
  <2>6. /\ m_nodes[n].m_visits + Occurrences(n) \in Nat
        /\ m_nodes[n].m_score + gain \in Int
    BY <1>2, <2>4, <2>5
  <2> HIDE DEF gain
  <2> QED
    BY <2>3, <2>5, <2>6 DEF NodeRecords
<1>4. UpdatedNodes \in [1..Len(m_nodes) -> NodeRecords]
  BY <1>1, <1>3 DEF UpdatedNodes
<1>5. UpdatedNodes \in Seq(NodeRecords) /\ DOMAIN UpdatedNodes = NodeIds
  BY <1>1, <1>4
<1>6. \A n \in NodeIds : m_nodes[n].m_visits \in Nat
  BY TreeFacts DEF IInv
<1> QED
  BY <1>2, <1>3, <1>5, <1>6, SMTT(30)

\* Backpropagate: the node that was reached has been visited when the scratch
\* part of the path is dropped.
LEMMA BackpropagateStep == IInv /\ Backpropagate => IInv'
<1> SUFFICES ASSUME IInv, Backpropagate PROVE IInv'
  OBVIOUS
<1>0. /\ pc = "playout" /\ m_nodes' = UpdatedNodes /\ playouts' = playouts - 1
      /\ UNCHANGED <<state, m_arcs, root_node, m_transposition_table,
                     m_not_initialized, m_path_size, max_iterations, best_move,
                     new_nodes, new_arcs, visited, stack, parent, out_arcs>>
  BY DEF Backpropagate, pruning
<1>1. \/ /\ playouts = 1 /\ pc' = "search" /\ m_path' = KeptPath
         /\ node' = NoNode /\ search' = state /\ sim_state' = state
      \/ /\ playouts # 1 /\ sim_state' = search
         /\ UNCHANGED <<pc, m_path, node, search>>
  BY DEF Backpropagate
<1>2. /\ NodeIds' = NodeIds /\ ArcIds' = ArcIds /\ root_node \in NodeIds
      /\ node \in NodeIds /\ Links' = Links
  BY <1>0, UpdatedNodesFacts, RootFacts
     DEF IInv, NodeIds, ArcIds, Phases, Links
<1>3. /\ m_path' \in Seq(Links) /\ m_path' # << >>
      /\ PathFromRoot'
      /\ pc' = "search" => Len(m_path') = m_path_size
  <2>1. /\ m_path_size \in 1..Len(m_path) /\ Len(m_path) \in Nat
        /\ m_path[m_path_size].target = root_node
        /\ m_path \in Seq(Links)
    BY <1>0, TreeFacts DEF IInv, PathFromRoot, TypeOK
  <2>2. CASE playouts # 1
    BY <1>0, <1>1, <1>2, <2>1, <2>2 DEF IInv, PathFromRoot
  <2>3. CASE playouts = 1
    <3>1. /\ KeptPath \in Seq(Links)
          /\ Len(KeptPath) = m_path_size
          /\ KeptPath[m_path_size] = m_path[m_path_size]
      BY <2>1 DEF KeptPath
    <3>2. m_path' = KeptPath /\ pc' = "search"
      BY <1>1, <2>3
    <3> QED
      BY <1>0, <2>1, <3>1, <3>2 DEF PathFromRoot
  <2> QED
    BY <2>2, <2>3
<1>4. TypeOK'
  <2>1. playouts' \in 0..Playouts
    BY <1>0, SearchAssumption DEF IInv, TypeOK, Phases
  <2>2. m_nodes' \in Seq(NodeRecords)
    BY <1>0, UpdatedNodesFacts
  <2> QED
    BY <1>0, <1>1, <1>2, <1>3, <2>1, <2>2 DEF IInv, TypeOK
<1>5. WinnerKnown' /\ ObjectShape' /\ Phases' /\ Locals'
  BY <1>0, <1>1, <1>2, <1>3
     DEF IInv, WinnerKnown, ObjectShape, Phases, Locals, TypeOK
<1>6. \A n \in NodeIds : /\ m_nodes'[n].pos = m_nodes[n].pos
                         /\ m_nodes'[n].m_moves = m_nodes[n].m_moves
  BY <1>0, UpdatedNodesFacts
<1>7. TableExact' /\ ArcsFollowGame'
  <2>1. {m_nodes'[n].pos : n \in NodeIds} = {m_nodes[n].pos : n \in NodeIds}
    BY <1>6
  <2>2. TableExact'
    BY <1>0, <1>2, <1>6, <2>1 DEF IInv, TableExact
  <2>3. ArcsFollowGame'
    BY <1>0, <1>2, <1>6, TreeFacts, ZenonT(30) DEF IInv, ArcsFollowGame
  <2> QED
    BY <2>2, <2>3
<1>8. Accounting' /\ CopyInv'
  <2>1. pc' # "copy"
    BY <1>0, <1>1
  <2>2. \A n : Tried(n)' = Tried(n)
    BY <1>0, <1>2 DEF Tried, OutArcs
  <2>3. \A n \in NodeIds : Accounted(n)'
    BY <1>0, <1>6, <2>2 DEF IInv, Accounting, Accounted
  <2> QED
    BY <1>0, <1>2, <2>1, <2>3 DEF IInv, Accounting, CopyInv
<1>9. RootIsState' /\ BestMoveLegal' /\ InSync' /\ RootTried'
  BY <1>0, <1>1, <1>2 DEF IInv, RootIsState, getNode, BestMoveLegal, InSync,
     RootTried, hasChildren, OutArcs
<1>10. TargetsVisited'
  <2>1. \A n \in NodeIds : /\ m_nodes[n].m_visits \in Nat
                           /\ m_nodes'[n].m_visits >= m_nodes[n].m_visits
    BY <1>0, UpdatedNodesFacts, TreeFacts DEF IInv
  <2>2. m_nodes'[node].m_visits > 0
    BY <1>0, UpdatedNodesFacts
  <2>3. \A a \in ArcIds : m_arcs[a].target \in NodeIds
    BY TreeFacts DEF IInv
  <2>4. \A n \in NodeIds : m_nodes'[n].m_visits \in Nat
    BY <1>0, UpdatedNodesFacts
  <2> QED
    BY <1>0, <1>2, <2>1, <2>2, <2>3, <2>4 DEF IInv, TargetsVisited
<1> QED
  BY <1>3, <1>4, <1>5, <1>7, <1>8, <1>9, <1>10 DEF IInv

\* After an iteration the root has a most visited child.
LEMMA BestArcsFacts ==
    ASSUME IInv, hasChildren(root_node)
    PROVE  BestArcs # {} /\ BestArcs \subseteq OutArcs(root_node)
<1> DEFINE f == [a \in ArcIds |-> m_nodes[m_arcs[a].target].m_visits]
<1>1. /\ Len(m_arcs) \in Nat /\ ArcIds = 1..Len(m_arcs)
      /\ \A a \in ArcIds : f[a] \in Nat
  BY TreeFacts DEF IInv
<1>2. OutArcs(root_node) \in SUBSET (1..Len(m_arcs)) /\ OutArcs(root_node) # {}
  BY <1>1 DEF hasChildren, OutArcs
<1>3. \A a \in OutArcs(root_node) : f[a] \in Nat
  BY <1>1, <1>2
<1>4. \E a \in OutArcs(root_node) : \A b \in OutArcs(root_node) : f[a] >= f[b]
  <2> HIDE DEF f
  <2> QED
    BY <1>1, <1>2, <1>3, MaximumExists
<1> QED
  BY <1>1, <1>2, <1>4 DEF BestArcs

\* GetBestMove: the move of an arc of the root is a move of the state.
LEMMA GetBestMoveStep == IInv /\ GetBestMove => IInv'
<1> SUFFICES ASSUME IInv, GetBestMove PROVE IInv'
  OBVIOUS
<1>0. /\ pc = "search" /\ pc' = "play" /\ max_iterations = 0
      /\ m_path_size' = m_path_size + 1
      /\ UNCHANGED <<state, m_nodes, m_arcs, root_node, m_transposition_table,
                     m_not_initialized, max_iterations, node, search, sim_state,
                     playouts, new_nodes, new_arcs, visited, stack, parent,
                     out_arcs>>
  BY DEF GetBestMove, tree, pruning
<1>1. BestArcs # {} /\ BestArcs \subseteq OutArcs(root_node)
  <2>1. hasChildren(root_node)
    BY <1>0, SearchAssumption DEF IInv, RootTried
  <2> QED
    BY <2>1, BestArcsFacts
<1>2. PICK a \in BestArcs :
         /\ best_move' = IF a = NoArc THEN NoMove ELSE m_arcs[a].m_move
         /\ m_path' = Append(m_path, [arc |-> a, target |->
                         IF a = NoArc THEN NoNode ELSE m_arcs[a].target])
  BY <1>1 DEF GetBestMove
<1>3. /\ a \in ArcIds /\ a # NoArc /\ m_arcs[a].source = root_node
      /\ m_arcs[a].target \in NodeIds /\ m_arcs[a].m_move \in Move
  BY <1>1, <1>2, TreeFacts DEF IInv, OutArcs, NoArc
<1>4. best_move' \in moves(state)
  BY <1>0, <1>2, <1>3, RootFacts DEF IInv, ArcsFollowGame
<1>5. NodeIds' = NodeIds /\ ArcIds' = ArcIds /\ Links' = Links
  BY <1>0, SameTree DEF Links
<1>6. m_path' \in Seq(Links) /\ m_path' # << >> /\ Len(m_path') = m_path_size'
  <2>1. [arc |-> a, target |-> m_arcs[a].target] \in Links
    BY <1>3 DEF Links
  <2>2. m_path \in Seq(Links) /\ Len(m_path) = m_path_size
    BY <1>0 DEF IInv, TypeOK, Locals
  <2>3. m_path' = Append(m_path, [arc |-> a, target |-> m_arcs[a].target])
    BY <1>2, <1>3
  <2> QED
    BY <1>0, <2>1, <2>2, <2>3
<1>7. TypeOK'
  <2>1. m_path_size' \in Nat
    BY <1>0 DEF IInv, TypeOK
  <2> QED
    BY <1>0, <1>2, <1>3, <1>5, <1>6, <2>1 DEF IInv, TypeOK
<1>8. WinnerKnown' /\ ObjectShape' /\ Phases' /\ Locals'
  BY <1>0, <1>5, <1>6 DEF IInv, WinnerKnown, ObjectShape, Phases, Locals
<1>9. TableExact' /\ ArcsFollowGame' /\ Accounting' /\ CopyInv'
  BY <1>0, SameTree
<1>10. /\ RootIsState' /\ TargetsVisited' /\ BestMoveLegal' /\ InSync'
       /\ RootTried' /\ PathFromRoot'
  BY <1>0, <1>4, <1>5 DEF IInv, RootIsState, getNode, TargetsVisited,
     BestMoveLegal, InSync, RootTried, PathFromRoot
<1> QED
  BY <1>7, <1>8, <1>9, <1>10 DEF IInv

\* What Expand leaves behind: m has gone from the untried moves of the node to
\* a new arc; the table, the nodes and the ids have grown together.
LEMMA ExpandFacts ==
    ASSUME IInv, pc = "select", NEW m \in m_nodes[node].m_moves,
           NEW to, to = move_hash_winner(search, m),
           AddChild(node, m, to, Drawn(node, m))
    PROVE  /\ node \in NodeIds /\ to \in States
           /\ m \in Offered(m_nodes[node].pos) /\ m \in Move
           /\ m \notin Tried(node)
           /\ m_nodes' \in Seq(NodeRecords)
           /\ NodeIds' = NodeIds \cup {node'}
           /\ \A n \in NodeIds :
                 /\ m_nodes'[n].pos = m_nodes[n].pos
                 /\ m_nodes'[n].m_visits = m_nodes[n].m_visits
                 /\ m_nodes'[n].m_moves = IF n = node
                                          THEN m_nodes[n].m_moves \ {m}
                                          ELSE m_nodes[n].m_moves
           /\ m_nodes'[node'].pos = to.pos
           /\ to.pos = play[<<m_nodes[node].pos, m>>]
           /\ node' \notin NodeIds => m_nodes'[node'].m_moves = Offered(to.pos)
           /\ ArcIds' = ArcIds \cup {Len(m_arcs) + 1}
           /\ Len(m_arcs) + 1 \notin ArcIds
           /\ \A b \in ArcIds : m_arcs'[b] = m_arcs[b]
           /\ m_arcs'[Len(m_arcs) + 1] =
                 [source |-> node, target |-> node', m_move |-> m]
           /\ m_transposition_table' =
                 emplace(m_transposition_table, to.pos, node')
           /\ to.pos \in DOMAIN m_transposition_table <=> node' \in NodeIds
           /\ node' \in NodeIds => m_transposition_table[to.pos] = node'
           /\ m_path' = Append(m_path, [arc |-> Len(m_arcs) + 1,
                                        target |-> node'])
<1>1. /\ search \in States /\ search.winner = invalid
      /\ node \in NodeIds /\ search.pos = m_nodes[node].pos
  BY DEF IInv, TypeOK, Phases, InSync
<1>2. m \in Offered(m_nodes[node].pos) /\ m \notin Tried(node)
  BY <1>1 DEF IInv, Accounting, Accounted
<1>3. m \in legal[search.pos] /\ m \in Move
  <2>1. m \in legal[search.pos]
    BY <1>1, <1>2 DEF Offered, moves
  <2> QED
    BY <1>1, <2>1, PlayFacts DEF States
<1>4. /\ to \in States /\ to.winner = outcome[to.pos]
      /\ to.pos = play[<<m_nodes[node].pos, m>>]
  BY <1>1, <1>3, MoveHashWinnerFacts
<1>5. /\ m_nodes \in Seq(NodeRecords) /\ NodeIds = 1..Len(m_nodes)
      /\ Len(m_nodes) \in Nat /\ \A n \in NodeIds : m_nodes[n] \in NodeRecords
  BY TreeFacts DEF IInv, TypeOK
<1> DEFINE drawn == Drawn(node, m)
<1>6. /\ drawn \in Seq(NodeRecords) /\ Len(drawn) = Len(m_nodes)
      /\ \A n \in NodeIds :
            /\ drawn[n].pos = m_nodes[n].pos
            /\ drawn[n].m_visits = m_nodes[n].m_visits
            /\ drawn[n].m_moves = IF n = node THEN m_nodes[n].m_moves \ {m}
                                              ELSE m_nodes[n].m_moves
  <2> DEFINE r == [m_nodes[node] EXCEPT !.m_moves = @ \ {m}]
  <2>1. r \in NodeRecords /\ r.pos = m_nodes[node].pos
        /\ r.m_visits = m_nodes[node].m_visits
        /\ r.m_moves = m_nodes[node].m_moves \ {m}
    BY <1>1, <1>5 DEF NodeRecords
  <2>2. drawn = [m_nodes EXCEPT ![node] = r]
    BY DEF Drawn
  <2> HIDE DEF r, drawn
  <2> QED
    <3>1. node \in 1..Len(m_nodes)
      BY <1>1, <1>5
    <3>2. /\ drawn \in Seq(NodeRecords) /\ Len(drawn) = Len(m_nodes)
          /\ \A n \in 1..Len(m_nodes) :
                drawn[n] = IF n = node THEN r ELSE m_nodes[n]
      BY <1>5, <2>1, <2>2, <3>1, ExceptSeq
    <3> QED
      BY <1>5, <2>1, <3>2
<1> DEFINE known == getNode(to.pos)
<1>7. /\ node' = IF known = NoNode THEN Len(drawn) + 1 ELSE known
      /\ m_nodes' = IF known = NoNode THEN Append(drawn, NodeData(to)) ELSE drawn
      /\ m_arcs' = Append(m_arcs, [source |-> node, target |-> node', m_move |-> m])
      /\ m_transposition_table' = emplace(m_transposition_table, to.pos, node')
      /\ m_path' = Append(m_path, [arc |-> Len(m_arcs) + 1, target |-> node'])
  BY DEF AddChild
<1>8. /\ known # NoNode => /\ to.pos \in DOMAIN m_transposition_table
                           /\ known = m_transposition_table[to.pos]
                           /\ known \in NodeIds
                           /\ m_nodes[known].pos = to.pos
      /\ known = NoNode => to.pos \notin DOMAIN m_transposition_table
  BY TreeFacts DEF IInv, getNode, TableExact
<1>9. /\ NodeData(to) \in NodeRecords /\ NodeData(to).pos = to.pos
      /\ NodeData(to).m_moves = Offered(to.pos)
  BY <1>4, NodeDataFacts
<1> HIDE DEF drawn, known
<1>10. /\ m_nodes' \in Seq(NodeRecords)
       /\ NodeIds' = NodeIds \cup {node'}
       /\ \A n \in NodeIds : m_nodes'[n] = drawn[n]
       /\ m_nodes'[node'].pos = to.pos
       /\ node' \notin NodeIds => m_nodes'[node'].m_moves = Offered(to.pos)
  <2>1. CASE known = NoNode
    <3>1. m_nodes' = Append(drawn, NodeData(to)) /\ node' = Len(m_nodes) + 1
      BY <1>6, <1>7, <2>1
    <3>2. /\ m_nodes' \in Seq(NodeRecords) /\ DOMAIN m_nodes' = 1..Len(m_nodes) + 1
          /\ \A n \in 1..Len(m_nodes) : m_nodes'[n] = drawn[n]
          /\ m_nodes'[Len(m_nodes) + 1] = NodeData(to)
      BY <1>5, <1>6, <1>9, <3>1
    <3> QED
      BY <1>5, <1>9, <3>1, <3>2 DEF NodeIds
  <2>2. CASE known # NoNode
    <3>1. m_nodes' = drawn /\ node' = known
      BY <1>7, <2>2
    <3>2. DOMAIN drawn = 1..Len(m_nodes)
      BY <1>5, <1>6
    <3> QED
      BY <1>5, <1>6, <1>8, <2>2, <3>1, <3>2 DEF NodeIds
  <2> QED
    BY <2>1, <2>2
<1>11. to.pos \in DOMAIN m_transposition_table <=> node' \in NodeIds
  BY <1>5, <1>6, <1>7, <1>8
<1>12. node' \in NodeIds => m_transposition_table[to.pos] = node'
  BY <1>5, <1>6, <1>7, <1>8
<1>13. /\ ArcIds' = ArcIds \cup {Len(m_arcs) + 1}
       /\ Len(m_arcs) + 1 \notin ArcIds
       /\ \A b \in ArcIds : m_arcs'[b] = m_arcs[b]
       /\ m_arcs'[Len(m_arcs) + 1] =
             [source |-> node, target |-> node', m_move |-> m]
  <2>1. /\ m_arcs \in Seq(ArcRecords(NodeIds)) /\ ArcIds = 1..Len(m_arcs)
        /\ Len(m_arcs) \in Nat
    BY TreeFacts DEF IInv, TypeOK
  <2>2. m_arcs \in [1..Len(m_arcs) -> ArcRecords(NodeIds)]
    BY <2>1
  <2> DEFINE e == [source |-> node, target |-> node', m_move |-> m]
  <2>3. m_arcs' = Append(m_arcs, e)
    BY <1>7
  <2> HIDE DEF e
  <2>4. /\ DOMAIN m_arcs' = 1..Len(m_arcs) + 1
        /\ \A b \in 1..Len(m_arcs) : m_arcs'[b] = m_arcs[b]
        /\ m_arcs'[Len(m_arcs) + 1] = e
    BY <2>1, <2>2, <2>3
  <2> QED
    BY <2>1, <2>4 DEF ArcIds, e
<1>14. \A n \in NodeIds :
          /\ m_nodes'[n].pos = m_nodes[n].pos
          /\ m_nodes'[n].m_visits = m_nodes[n].m_visits
          /\ m_nodes'[n].m_moves = IF n = node THEN m_nodes[n].m_moves \ {m}
                                               ELSE m_nodes[n].m_moves
  BY <1>6, <1>10
<1> QED
  BY <1>1, <1>2, <1>3, <1>4, <1>7, <1>10, <1>11, <1>12, <1>13, <1>14, Zenon

\* Expand: a move is drawn once, and its arc ends in the position's only node.
LEMMA ExpandStep == IInv /\ Expand => IInv'
<1> SUFFICES ASSUME IInv, Expand PROVE IInv'
  OBVIOUS
<1>0. /\ pc = "select" /\ pc' = "playout" /\ playouts' = Playouts
      /\ UNCHANGED <<state, root_node, m_not_initialized, m_path_size,
                     max_iterations, best_move, new_nodes, new_arcs, visited,
                     stack, parent, out_arcs>>
  BY DEF Expand, StartPlayouts, pruning
<1>1. PICK m \in m_nodes[node].m_moves :
         /\ AddChild(node, m, move_hash_winner(search, m), Drawn(node, m))
         /\ search' = move_hash_winner(search, m)
         /\ sim_state' = search'
  BY DEF Expand, StartPlayouts
<1> DEFINE to == move_hash_winner(search, m)
           new == Len(m_arcs) + 1
<1>2. /\ node \in NodeIds /\ to \in States
      /\ m \in Offered(m_nodes[node].pos) /\ m \in Move
      /\ m \notin Tried(node)
      /\ m_nodes' \in Seq(NodeRecords)
      /\ NodeIds' = NodeIds \cup {node'}
  BY <1>0, <1>1, ExpandFacts
<1>3. \A n \in NodeIds :
         /\ m_nodes'[n].pos = m_nodes[n].pos
         /\ m_nodes'[n].m_visits = m_nodes[n].m_visits
         /\ m_nodes'[n].m_moves = IF n = node THEN m_nodes[n].m_moves \ {m}
                                              ELSE m_nodes[n].m_moves
  BY <1>0, <1>1, ExpandFacts
<1>4. /\ m_nodes'[node'].pos = to.pos
      /\ to.pos = play[<<m_nodes[node].pos, m>>]
      /\ node' \notin NodeIds => m_nodes'[node'].m_moves = Offered(to.pos)
  BY <1>0, <1>1, ExpandFacts, ZenonT(30)
<1>5. /\ ArcIds' = ArcIds \cup {new} /\ new \notin ArcIds
      /\ \A b \in ArcIds : m_arcs'[b] = m_arcs[b]
      /\ m_arcs'[new] = [source |-> node, target |-> node', m_move |-> m]
      /\ m_path' = Append(m_path, [arc |-> new, target |-> node'])
  BY <1>0, <1>1, ExpandFacts
<1>6. /\ m_transposition_table' = emplace(m_transposition_table, to.pos, node')
      /\ to.pos \in DOMAIN m_transposition_table <=> node' \in NodeIds
      /\ node' \in NodeIds => m_transposition_table[to.pos] = node'
  BY <1>0, <1>1, ExpandFacts
<1>7. search' = to /\ sim_state' = to
  BY <1>1
<1>8. /\ m_arcs'[new].source = node /\ m_arcs'[new].target = node'
      /\ m_arcs'[new].m_move = m
  BY <1>5
<1>9. \A a \in ArcIds : m_arcs[a].source \in NodeIds /\ m_arcs[a].target \in NodeIds
  BY TreeFacts DEF IInv
<1> HIDE DEF to, new
<1>10. m_path' \in Seq(Links') /\ m_path' # << >> /\ PathFromRoot'
  BY <1>0, <1>2, <1>5, <1>8, PathExtended
<1>11. m_arcs' \in Seq(ArcRecords(NodeIds'))
  <2>1. m_arcs \in Seq(ArcRecords(NodeIds'))
    <3>1. ArcRecords(NodeIds) \subseteq ArcRecords(NodeIds')
      BY <1>2 DEF ArcRecords
    <3>2. m_arcs \in Seq(ArcRecords(NodeIds))
      BY DEF IInv, TypeOK
    <3> QED
      BY <3>1, <3>2, SeqMonotonic
  <2>2. [source |-> node, target |-> node', m_move |-> m] \in ArcRecords(NodeIds')
    BY <1>2 DEF ArcRecords
  <2>3. m_arcs' = Append(m_arcs, [source |-> node, target |-> node', m_move |-> m])
    BY <1>1 DEF AddChild
  <2> QED
    BY <2>1, <2>2, <2>3
<1>12. /\ DOMAIN m_transposition_table' = DOMAIN m_transposition_table \cup {to.pos}
       /\ \A q \in DOMAIN m_transposition_table :
             m_transposition_table'[q] = m_transposition_table[q]
       /\ m_transposition_table'[to.pos] = node'
  BY <1>6 DEF emplace
<1>13. /\ DOMAIN m_transposition_table' \subseteq Positions
       /\ m_transposition_table' \in [DOMAIN m_transposition_table' -> NodeIds']
  <2>1. /\ DOMAIN m_transposition_table \subseteq Positions
        /\ m_transposition_table \in [DOMAIN m_transposition_table -> NodeIds]
    BY DEF IInv, TypeOK
  <2>2. to.pos \in Positions
    BY <1>2 DEF States
  <2> QED
    BY <1>2, <1>6, <1>12, <2>1, <2>2 DEF emplace
<1>14. TypeOK'
  <2>1. stack \in Seq(NodeIds')
    BY <1>0, EmptySeq DEF IInv, Locals
  <2>2. /\ playouts' \in 0..Playouts /\ parent = NoNode /\ out_arcs = {}
    BY <1>0, SearchAssumption DEF IInv, Locals
  <2> QED
    BY <1>0, <1>2, <1>7, <1>10, <1>11, <1>13, <2>1, <2>2 DEF IInv, TypeOK
<1>15. WinnerKnown' /\ ObjectShape' /\ Phases' /\ Locals'
  <2>1. ~ m_not_initialized /\ root_node \in NodeIds
    BY <1>0 DEF IInv, Phases, ObjectShape
  <2> QED
    BY <1>0, <1>2, <1>10, <2>1, SearchAssumption
       DEF IInv, WinnerKnown, ObjectShape, Phases, Locals
<1>16. TableExact'
  <2>1. DOMAIN m_transposition_table = {m_nodes[n].pos : n \in NodeIds}
    BY DEF IInv, TableExact
  <2>2. {m_nodes'[n].pos : n \in NodeIds'} =
          {m_nodes[n].pos : n \in NodeIds} \cup {to.pos}
    <3>1. ASSUME NEW n \in NodeIds'
          PROVE  m_nodes'[n].pos \in {m_nodes[k].pos : k \in NodeIds} \cup {to.pos}
      BY <1>2, <1>3, <1>4
    <3>2. ASSUME NEW n \in NodeIds
          PROVE  m_nodes[n].pos \in {m_nodes'[k].pos : k \in NodeIds'}
      BY <1>2, <1>3
    <3>3. to.pos \in {m_nodes'[k].pos : k \in NodeIds'}
      BY <1>2, <1>4
    <3> QED
      BY <3>1, <3>2, <3>3
  <2>3. ASSUME NEW n \in NodeIds'
        PROVE  m_transposition_table'[m_nodes'[n].pos] = n
    <3>1. CASE n \in NodeIds
      <4>1. /\ m_transposition_table[m_nodes[n].pos] = n
            /\ m_nodes[n].pos \in DOMAIN m_transposition_table
        BY <2>1, <3>1 DEF IInv, TableExact
      <4> QED
        BY <1>3, <1>12, <3>1, <4>1
    <3>2. CASE n = node'
      BY <1>4, <1>12, <3>2
    <3> QED
      BY <1>2, <3>1, <3>2
  <2> QED
    BY <1>12, <2>1, <2>2, <2>3 DEF TableExact
<1>17. ArcsFollowGame'
  <2>1. ASSUME NEW a \in ArcIds'
        PROVE  LET from == m_nodes'[m_arcs'[a].source].pos
               IN  /\ m_arcs'[a].m_move \in Offered(from)
                   /\ play[<<from, m_arcs'[a].m_move>>] =
                         m_nodes'[m_arcs'[a].target].pos
    <3>1. CASE a \in ArcIds
      <4>1. /\ m_arcs'[a] = m_arcs[a]
            /\ m_nodes'[m_arcs[a].source].pos = m_nodes[m_arcs[a].source].pos
            /\ m_nodes'[m_arcs[a].target].pos = m_nodes[m_arcs[a].target].pos
        BY <1>3, <1>5, <1>9, <3>1
      <4> QED
        BY <3>1, <4>1 DEF IInv, ArcsFollowGame
    <3>2. CASE a = new
      BY <1>2, <1>3, <1>4, <1>8, <3>2
    <3> QED
      BY <1>5, <3>1, <3>2
  <2> QED
    BY <2>1 DEF ArcsFollowGame
<1>18. \A n : OutArcs(n)' = IF n = node THEN OutArcs(n) \cup {new} ELSE OutArcs(n)
  BY <1>5, <1>8 DEF OutArcs
<1>19. Accounting'
  <2>1. ASSUME NEW n \in NodeIds' PROVE Accounted(n)'
    <3>1. CASE n = node
      <4>1. Tried(n)' = Tried(n) \cup {m}
        BY <1>5, <1>8, <1>18, <3>1 DEF Tried, OutArcs
      <4>2. Accounted(n)
        BY <1>0, <1>2, <3>1 DEF IInv, Accounting
      <4> QED
        BY <1>1, <1>2, <1>3, <3>1, <4>1, <4>2, ZenonT(30) DEF Accounted
    <3>2. CASE n \in NodeIds /\ n # node
      <4>1. Tried(n)' = Tried(n)
        BY <1>5, <1>18, <3>2 DEF Tried, OutArcs
      <4>2. Accounted(n)
        BY <1>0, <3>2 DEF IInv, Accounting
      <4> QED
        BY <1>3, <3>2, <4>1, <4>2 DEF Accounted
    <3>3. CASE n = node' /\ n \notin NodeIds
      <4>1. Tried(n)' = {}
        <5>1. OutArcs(n) = {} /\ n # node
          BY <1>2, <1>9, <3>3 DEF OutArcs
        <5>2. OutArcs(n)' = {}
          BY <1>18, <5>1
        <5> QED
          BY <5>2 DEF Tried
      <4> QED
        BY <1>4, <3>3, <4>1 DEF Accounted
    <3> QED
      BY <1>2, <3>1, <3>2, <3>3
  <2>2. ASSUME NEW a \in ArcIds', NEW b \in ArcIds',
               m_arcs'[a].source = m_arcs'[b].source,
               m_arcs'[a].m_move = m_arcs'[b].m_move
        PROVE  a = b
    <3>1. \A c \in ArcIds : ~ (m_arcs[c].source = node /\ m_arcs[c].m_move = m)
      BY <1>2 DEF Tried, OutArcs
    <3>2. CASE a \in ArcIds /\ b \in ArcIds
      BY <1>5, <2>2, <3>2 DEF IInv, Accounting
    <3>3. CASE a = new /\ b \in ArcIds
      BY <1>5, <1>8, <2>2, <3>1, <3>3
    <3>4. CASE a \in ArcIds /\ b = new
      BY <1>5, <1>8, <2>2, <3>1, <3>4
    <3> QED
      BY <1>5, <3>2, <3>3, <3>4
  <2> QED
    BY <2>1, <2>2 DEF Accounting
<1>20. RootIsState'
  <2>1. getNode(state.pos) = root_node /\ root_node \in NodeIds
    BY <1>0, RootFacts
  <2>2. /\ state.pos \in DOMAIN m_transposition_table
        /\ m_transposition_table[state.pos] = root_node
    BY <2>1, TreeFacts DEF IInv, getNode
  <2> QED
    BY <1>0, <1>12, <2>2 DEF RootIsState, getNode
<1>21. RootTried'
  <2>1. hasChildren(root_node)'
    BY <1>0, <1>18 DEF IInv, RootTried, hasChildren
  <2> QED
    BY <1>0, <2>1 DEF RootTried
<1>22. TargetsVisited'
  <2>1. ASSUME NEW a \in ArcIds
        PROVE  m_nodes'[m_arcs'[a].target].m_visits > 0
    <3>1. m_nodes[m_arcs[a].target].m_visits > 0
      BY <1>0 DEF IInv, TargetsVisited
    <3> QED
      BY <1>3, <1>5, <1>9, <3>1
  <2> QED
    BY <1>0, <1>5, <1>8, <2>1 DEF TargetsVisited
<1>23. InSync' /\ BestMoveLegal' /\ CopyInv'
  BY <1>0 DEF InSync, BestMoveLegal, CopyInv
<1> QED
  BY <1>10, <1>14, <1>15, <1>16, <1>17, <1>19, <1>20, <1>21, <1>22, <1>23
     DEF IInv

\* initialize() builds a tree of one node.
LEMMA InitializedFacts ==
    ASSUME state \in States, WinnerKnown, InitializedWith(state), pc' # "copy",
           UNCHANGED state
    PROVE  /\ NodeIds' = {1} /\ ArcIds' = {} /\ root_node' = 1
           /\ m_nodes' \in Seq(NodeRecords)
           /\ m_arcs' \in Seq(ArcRecords(NodeIds'))
           /\ m_transposition_table' = [p \in {state.pos} |-> 1]
           /\ ~ m_not_initialized'
           /\ m_path' \in Seq(Links') /\ m_path' # << >>
           /\ Len(m_path') = 1 /\ m_path_size' = 1 /\ m_path'[1].target = 1
           /\ TableExact' /\ ArcsFollowGame' /\ Accounting' /\ TargetsVisited'
           /\ CopyInv' /\ RootIsState'
<1>1. /\ m_nodes' = << NodeData(state) >> /\ m_arcs' = << >> /\ root_node' = 1
      /\ m_transposition_table' = [p \in {state.pos} |-> 1]
      /\ m_not_initialized' = FALSE
      /\ m_path' = << [arc |-> NoArc, target |-> 1] >> /\ m_path_size' = 1
  BY DEF InitializedWith, emplace
<1>2. /\ NodeData(state) \in NodeRecords /\ NodeData(state).pos = state.pos
      /\ NodeData(state).m_moves = Offered(state.pos)
  BY NodeDataFacts DEF WinnerKnown
<1>3. /\ m_nodes' \in Seq(NodeRecords) /\ NodeIds' = {1} /\ ArcIds' = {}
      /\ m_nodes'[1] = NodeData(state)
  BY <1>1, <1>2 DEF NodeIds, ArcIds
<1>4. m_arcs' \in Seq(ArcRecords(NodeIds'))
  BY <1>1, EmptySeq
<1>5. /\ m_path' \in Seq(Links') /\ m_path' # << >>
      /\ Len(m_path') = 1 /\ m_path'[1].target = 1
  <2>1. [arc |-> NoArc, target |-> 1] \in Links'
    BY <1>3 DEF Links
  <2> QED
    BY <1>1, <2>1
<1>6. TableExact'
  BY <1>1, <1>2, <1>3 DEF TableExact
<1>7. Accounting'
  <2>1. Accounted(1)'
    BY <1>2, <1>3 DEF Accounted, Tried, OutArcs
  <2> QED
    BY <1>3, <2>1 DEF Accounting
<1>8. ArcsFollowGame' /\ TargetsVisited' /\ CopyInv'
  BY <1>3 DEF ArcsFollowGame, TargetsVisited, CopyInv
<1>9. RootIsState'
  BY <1>1 DEF RootIsState, getNode
<1> QED
  BY <1>1, <1>3, <1>4, <1>5, <1>6, <1>7, <1>8, <1>9

\* A new object is blank.
LEMMA FreshFacts ==
    ASSUME FreshObject, pc' = "main"
    PROVE  /\ NodeIds' = {} /\ ArcIds' = {} /\ root_node' = 1
           /\ m_nodes' = << >> /\ m_nodes' \in Seq(NodeRecords)
           /\ m_arcs' \in Seq(ArcRecords(NodeIds'))
           /\ DOMAIN m_transposition_table' = {}
           /\ m_transposition_table' \in [DOMAIN m_transposition_table' -> NodeIds']
           /\ m_not_initialized'
           /\ m_path' \in Seq(Links') /\ Len(m_path') = 0 /\ m_path_size' = 0
           /\ TableExact' /\ ArcsFollowGame' /\ Accounting' /\ TargetsVisited'
           /\ CopyInv' /\ RootIsState' /\ RootTried' /\ InSync' /\ PathFromRoot'
           /\ BestMoveLegal'
<1>1. /\ m_nodes' = << >> /\ m_arcs' = << >> /\ root_node' = 1
      /\ m_transposition_table' = << >> /\ m_not_initialized' = TRUE
      /\ m_path' = << >> /\ m_path_size' = 0
  BY DEF FreshObject
<1>2. NodeIds' = {} /\ ArcIds' = {}
  BY <1>1 DEF NodeIds, ArcIds
<1>3. /\ m_nodes' \in Seq(NodeRecords) /\ m_arcs' \in Seq(ArcRecords(NodeIds'))
      /\ m_path' \in Seq(Links') /\ Len(m_path') = 0
  BY <1>1, EmptySeq
<1>4. /\ DOMAIN m_transposition_table' = {}
      /\ m_transposition_table' \in [DOMAIN m_transposition_table' -> NodeIds']
  BY <1>1
<1>5. /\ TableExact' /\ ArcsFollowGame' /\ Accounting' /\ TargetsVisited'
      /\ CopyInv' /\ RootIsState' /\ RootTried' /\ InSync' /\ PathFromRoot'
      /\ BestMoveLegal'
  BY <1>1, <1>2, <1>4 DEF TableExact, ArcsFollowGame, Accounting, TargetsVisited,
     CopyInv, RootIsState, RootTried, InSync, PathFromRoot, BestMoveLegal
<1> QED
  BY <1>1, <1>2, <1>3, <1>4, <1>5

\* Compute: the root of the tree, new or inherited, is the state's node.
LEMMA ComputeStep == IInv /\ Compute => IInv'
<1> SUFFICES ASSUME IInv, Compute PROVE IInv'
  OBVIOUS
<1>0. /\ pc = "main" /\ pc' = "search" /\ max_iterations' = MaxIterations
      /\ state.winner = invalid /\ playerToMove(state) = Self
      /\ UNCHANGED <<state, node, search, sim_state, playouts, best_move,
                     new_nodes, new_arcs, visited, stack, parent, out_arcs>>
  BY DEF Compute, pruning
<1>1. /\ {state, search, sim_state} \subseteq States /\ WinnerKnown
      /\ playouts \in 0..Playouts /\ best_move \in {NoMove} \cup Move
      /\ node = NoNode /\ new_nodes = << >> /\ new_arcs = << >>
      /\ stack = << >> /\ parent = NoNode /\ out_arcs = {}
  BY <1>0 DEF IInv, TypeOK, Locals
<1>2. \A S : << >> \in Seq(S)
  BY EmptySeq
<1>3. CASE m_not_initialized
  <2>1. InitializedWith(state)
    BY <1>3 DEF Compute
  <2>2. /\ NodeIds' = {1} /\ ArcIds' = {} /\ root_node' = 1
        /\ m_nodes' \in Seq(NodeRecords)
        /\ m_arcs' \in Seq(ArcRecords(NodeIds'))
        /\ m_transposition_table' = [p \in {state.pos} |-> 1]
        /\ ~ m_not_initialized'
        /\ m_path' \in Seq(Links') /\ m_path' # << >>
        /\ Len(m_path') = 1 /\ m_path_size' = 1 /\ m_path'[1].target = 1
    BY <1>0, <1>1, <2>1, InitializedFacts
  <2>3. /\ TableExact' /\ ArcsFollowGame' /\ Accounting' /\ TargetsVisited'
        /\ CopyInv' /\ RootIsState'
    BY <1>0, <1>1, <2>1, InitializedFacts
  <2>4. TypeOK'
    <3>1. /\ DOMAIN m_transposition_table' \subseteq Positions
          /\ m_transposition_table' \in [DOMAIN m_transposition_table' -> NodeIds']
      BY <1>1, <2>2 DEF States
    <3>2. m_not_initialized' \in BOOLEAN
      BY <2>1 DEF InitializedWith
    <3> QED
      BY <1>0, <1>1, <1>2, <2>2, <3>1, <3>2, SearchAssumption DEF TypeOK
  <2>5. WinnerKnown' /\ ObjectShape' /\ Phases' /\ Locals'
    BY <1>0, <1>1, <2>2 DEF WinnerKnown, ObjectShape, Phases, Locals,
       playerToMove
  <2>6. RootTried' /\ InSync' /\ PathFromRoot' /\ BestMoveLegal'
    BY <1>0, <2>2, SearchAssumption DEF RootTried, InSync, PathFromRoot,
       BestMoveLegal
  <2> QED
    BY <2>3, <2>4, <2>5, <2>6 DEF IInv
<1>4. CASE ~ m_not_initialized
  <2>1. /\ \E link \in LinksTo(m_path[Len(m_path)].target, getNode(state.pos)) :
              m_path' = Append(m_path, link)
        /\ m_path_size' = m_path_size + 1
        /\ UNCHANGED <<m_nodes, m_arcs, root_node, m_transposition_table,
                       m_not_initialized>>
    BY <1>4 DEF Compute, ConnectStatesPath, tree
  <2>2. NodeIds' = NodeIds /\ ArcIds' = ArcIds /\ Links' = Links
    BY <2>1 DEF NodeIds, ArcIds, Links
  <2>3. getNode(state.pos) = root_node /\ root_node \in NodeIds
    BY <1>0, <1>4 DEF IInv, RootIsState, ObjectShape
  <2>4. PICK link : link \in Links /\ link.target = root_node
                    /\ m_path' = Append(m_path, link)
    BY <2>1, <2>3 DEF LinksTo, OutArcs, Links
  <2>5. /\ m_path' \in Seq(Links) /\ m_path' # << >> /\ m_path_size' \in Nat
        /\ Len(m_path') = m_path_size' /\ m_path_size' >= 1
        /\ m_path'[m_path_size'].target = root_node
    <3>1. m_path \in Seq(Links) /\ Len(m_path) = m_path_size
      BY <1>0 DEF IInv, TypeOK, Locals
    <3> QED
      BY <2>1, <2>4, <3>1
  <2>6. TypeOK'
    BY <1>0, <2>1, <2>2, <2>5, SearchAssumption, SMTT(30) DEF IInv, TypeOK
  <2>7. WinnerKnown' /\ ObjectShape' /\ Phases' /\ Locals'
    BY <1>0, <1>1, <1>4, <2>1, <2>2, <2>3, <2>5
       DEF WinnerKnown, ObjectShape, Phases, Locals, playerToMove
  <2>8. TableExact' /\ ArcsFollowGame' /\ Accounting' /\ CopyInv'
    BY <1>0, <2>1, SameTree
  <2>9. RootIsState' /\ TargetsVisited'
    BY <1>0, <2>1, <2>2, <2>3 DEF IInv, RootIsState, getNode, TargetsVisited
  <2>10. RootTried' /\ InSync' /\ PathFromRoot' /\ BestMoveLegal'
    BY <1>0, <2>1, <2>5, SearchAssumption DEF RootTried, InSync, PathFromRoot,
       BestMoveLegal
  <2> QED
    BY <2>6, <2>7, <2>8, <2>9, <2>10 DEF IInv
<1> QED
  BY <1>3, <1>4

\* A move of the match: main's State knows its winner and the turn passes.
LEMMA MatchMoveFacts ==
    ASSUME IInv, state.winner = invalid, NEW m \in moves(state),
           state' = move_hash_winner(state, m)
    PROVE  /\ state' \in States /\ WinnerKnown'
           /\ playerToMove(state)' = opponent(playerToMove(state))
<1>1. state \in States
  BY DEF IInv, TypeOK
<1>2. m \in legal[state.pos]
  BY <1>1, MovesFacts
<1>3. /\ state' \in States /\ state'.pos = play[<<state.pos, m>>]
      /\ state'.winner = outcome[play[<<state.pos, m>>]]
  BY <1>1, <1>2, MoveHashWinnerFacts
<1>4. playerToMove(move_hash_winner(state, m)) = opponent(playerToMove(state))
  BY <1>1, <1>2, MoveHashWinnerFacts
<1>5. playerToMove(state)' = playerToMove(move_hash_winner(state, m))
  BY DEF playerToMove
<1> QED
  BY <1>3, <1>4, <1>5 DEF WinnerKnown

\* The move that main makes untested is legal, because compute() returned it.
LEMMA BestMovePlayed ==
    ASSUME IInv, PlayBestMove
    PROVE  /\ state.winner = invalid
           /\ best_move \in moves(state)
           /\ state' = move_hash_winner(state, best_move)
<1>1. pc = "play"
  BY DEF PlayBestMove
<1>2. state.winner = invalid
  BY <1>1 DEF IInv, Phases
<1>3. best_move \in moves(state)
  BY <1>1 DEF IInv, BestMoveLegal
<1>4. state' = move_hash_winner(state, best_move)
  BY <1>3 DEF PlayBestMove
<1> QED
  BY <1>2, <1>3, <1>4

\* PlayBestMove: then it is the other player's turn.
LEMMA PlayBestMoveStep == IInv /\ PlayBestMove => IInv'
<1> SUFFICES ASSUME IInv, PlayBestMove PROVE IInv'
  OBVIOUS
<1>0. /\ pc = "play" /\ pc' = "main" /\ best_move \in moves(state)
      /\ state' = move_hash_winner(state, best_move)
      /\ search' = state' /\ sim_state' = state' /\ best_move' = NoMove
      /\ UNCHANGED <<m_nodes, m_arcs, root_node, m_transposition_table,
                     m_not_initialized, m_path, m_path_size, max_iterations,
                     node, playouts, new_nodes, new_arcs, visited, stack,
                     parent, out_arcs>>
  BY BestMovePlayed DEF PlayBestMove, tree, path, pruning
<1>1. state.winner = invalid /\ playerToMove(state) = Self
  BY <1>0 DEF IInv, Phases
<1>2. /\ state' \in States /\ WinnerKnown'
      /\ playerToMove(state)' = opponent(Self)
  BY <1>0, <1>1, MatchMoveFacts
<1>3. NodeIds' = NodeIds /\ ArcIds' = ArcIds /\ Links' = Links
  BY <1>0, SameTree DEF Links
<1>4. TypeOK'
  BY <1>0, <1>2, <1>3 DEF IInv, TypeOK
<1>5. ObjectShape' /\ Phases' /\ Locals'
  BY <1>0, <1>3 DEF IInv, ObjectShape, Phases, Locals
<1>6. TableExact' /\ ArcsFollowGame' /\ Accounting' /\ CopyInv'
  BY <1>0, SameTree
<1>7. RootIsState'
  BY <1>0, <1>2, PlayerFacts, SearchAssumption DEF RootIsState
<1>8. RootTried' /\ InSync' /\ PathFromRoot' /\ BestMoveLegal' /\ TargetsVisited'
  BY <1>0, <1>3 DEF IInv, RootTried, InSync, PathFromRoot, BestMoveLegal,
     TargetsVisited
<1> QED
  BY <1>2, <1>4, <1>5, <1>6, <1>7, <1>8 DEF IInv

\* OpponentMove: prune() or reset() is due.
LEMMA OpponentMoveStep == IInv /\ OpponentMove => IInv'
<1> SUFFICES ASSUME IInv, OpponentMove PROVE IInv'
  OBVIOUS
<1>0. /\ pc = "main" /\ pc' \in Upkeep /\ state.winner = invalid
      /\ \E m \in moves(state) : state' = move_hash_winner(state, m)
      /\ search' = state' /\ sim_state' = state'
      /\ UNCHANGED <<m_nodes, m_arcs, root_node, m_transposition_table,
                     m_not_initialized, m_path, m_path_size, max_iterations,
                     node, playouts, best_move, new_nodes, new_arcs, visited,
                     stack, parent, out_arcs>>
  BY DEF OpponentMove, tree, path, pruning
<1>1. pc' \in {"prune", "reset"}
  BY <1>0, SearchAssumption
<1>2. state' \in States /\ WinnerKnown'
  BY <1>0, MatchMoveFacts
<1>3. NodeIds' = NodeIds /\ ArcIds' = ArcIds /\ Links' = Links
  BY <1>0, <1>1, SameTree DEF Links
<1>4. TypeOK'
  BY <1>0, <1>1, <1>2, <1>3 DEF IInv, TypeOK
<1>5. ObjectShape' /\ Phases' /\ Locals'
  BY <1>0, <1>1, <1>3 DEF IInv, ObjectShape, Phases, Locals
<1>6. TableExact' /\ ArcsFollowGame' /\ Accounting' /\ CopyInv'
  BY <1>0, <1>1, SameTree
<1>7. /\ RootIsState' /\ RootTried' /\ InSync' /\ PathFromRoot' /\ BestMoveLegal'
      /\ TargetsVisited'
  BY <1>0, <1>1, <1>3 DEF IInv, RootIsState, RootTried, InSync, PathFromRoot,
     BestMoveLegal, TargetsVisited
<1> QED
  BY <1>2, <1>4, <1>5, <1>6, <1>7 DEF IInv

\* NextMatch: new objects for a new match.
LEMMA NextMatchStep == IInv /\ NextMatch => IInv'
<1> SUFFICES ASSUME IInv, NextMatch PROVE IInv'
  OBVIOUS
<1>0. /\ pc = "main" /\ pc' = "main" /\ state' \in NewMatch
      /\ search' = state' /\ sim_state' = state' /\ FreshObject
      /\ UNCHANGED <<max_iterations, node, playouts, best_move, new_nodes,
                     new_arcs, visited, stack, parent, out_arcs>>
  BY DEF NextMatch, pruning
<1>1. state' \in States /\ WinnerKnown'
  BY <1>0, GameTypes, GameRules, PlayerFacts DEF NewMatch, States, WinnerKnown
<1>2. TypeOK' /\ ObjectShape' /\ Phases' /\ Locals'
  <2>1. /\ new_nodes = << >> /\ new_arcs = << >> /\ stack = << >>
        /\ parent = NoNode /\ out_arcs = {} /\ node = NoNode
    BY <1>0 DEF IInv, Locals
  <2>2. \A S : << >> \in Seq(S)
    BY EmptySeq
  <2>3. /\ NodeIds' = {} /\ ArcIds' = {} /\ root_node' = 1
        /\ m_nodes' = << >> /\ m_nodes' \in Seq(NodeRecords)
        /\ m_arcs' \in Seq(ArcRecords(NodeIds'))
        /\ DOMAIN m_transposition_table' = {}
        /\ m_transposition_table' \in [DOMAIN m_transposition_table' -> NodeIds']
        /\ m_not_initialized' = TRUE
        /\ m_path' \in Seq(Links') /\ Len(m_path') = 0 /\ m_path_size' = 0
    BY <1>0, FreshFacts DEF FreshObject
  <2>4. TypeOK'
    BY <1>0, <1>1, <2>1, <2>2, <2>3 DEF IInv, TypeOK
  <2> QED
    BY <1>0, <2>1, <2>3, <2>4 DEF ObjectShape, Phases, Locals
<1> QED
  BY <1>0, <1>1, <1>2, FreshFacts DEF IInv

\* PruneUnknown: the object starts over.
LEMMA PruneUnknownStep == IInv /\ PruneUnknown => IInv'
<1> SUFFICES ASSUME IInv, PruneUnknown PROVE IInv'
  OBVIOUS
<1>0. /\ pc = "prune" /\ pc' = "main" /\ FreshObject
      /\ UNCHANGED <<state, max_iterations, node, search, sim_state, playouts,
                     best_move, new_nodes, new_arcs, visited, stack, parent,
                     out_arcs>>
  BY DEF PruneUnknown, computing, pruning
<1>1. WinnerKnown'
  BY <1>0 DEF IInv, WinnerKnown
<1>2. TypeOK' /\ ObjectShape' /\ Phases' /\ Locals'
  <2>1. /\ new_nodes = << >> /\ new_arcs = << >> /\ stack = << >>
        /\ parent = NoNode /\ out_arcs = {} /\ node = NoNode
    BY <1>0 DEF IInv, Locals
  <2>2. \A S : << >> \in Seq(S)
    BY EmptySeq
  <2>3. /\ NodeIds' = {} /\ ArcIds' = {} /\ root_node' = 1
        /\ m_nodes' = << >> /\ m_nodes' \in Seq(NodeRecords)
        /\ m_arcs' \in Seq(ArcRecords(NodeIds'))
        /\ DOMAIN m_transposition_table' = {}
        /\ m_transposition_table' \in [DOMAIN m_transposition_table' -> NodeIds']
        /\ m_not_initialized' = TRUE
        /\ m_path' \in Seq(Links') /\ Len(m_path') = 0 /\ m_path_size' = 0
    BY <1>0, FreshFacts DEF FreshObject
  <2>4. TypeOK'
    BY <1>0, <2>1, <2>2, <2>3 DEF IInv, TypeOK
  <2> QED
    BY <1>0, <2>1, <2>3, <2>4 DEF ObjectShape, Phases, Locals
<1> QED
  BY <1>0, <1>1, <1>2, FreshFacts DEF IInv

\* Reset: the state's node becomes the root, or the tree starts over.
LEMMA ResetStep == IInv /\ Reset => IInv'
<1> SUFFICES ASSUME IInv, Reset PROVE IInv'
  OBVIOUS
<1>0. /\ pc = "reset" /\ pc' = "main"
      /\ UNCHANGED <<state, max_iterations, node, search, sim_state, playouts,
                     best_move, new_nodes, new_arcs, visited, stack, parent,
                     out_arcs>>
  BY DEF Reset, computing, pruning
<1>1. /\ state \in States /\ WinnerKnown /\ WinnerKnown'
      /\ node = NoNode /\ new_nodes = << >> /\ new_arcs = << >>
      /\ stack = << >> /\ parent = NoNode /\ out_arcs = {}
  BY <1>0 DEF IInv, TypeOK, Locals, WinnerKnown
<1>2. CASE /\ UNCHANGED <<m_nodes, m_arcs, m_transposition_table,
                          m_not_initialized, m_path, m_path_size>>
           /\ \/ Known /\ root_node' = getNode(state.pos)
              \/ m_not_initialized /\ root_node' = root_node
  <2>1. NodeIds' = NodeIds /\ ArcIds' = ArcIds /\ Links' = Links
    BY <1>2 DEF NodeIds, ArcIds, Links
  <2>2. /\ ~ m_not_initialized => /\ root_node' \in NodeIds
                                  /\ getNode(state.pos) = root_node'
        /\ root_node' \in Nat \ {0}
    <3>1. NodeIds \subseteq Nat \ {0}
      BY TreeFacts DEF IInv
    <3>2. Known => getNode(state.pos) \in NodeIds
      BY DEF IInv, TypeOK, getNode, Known
    <3>3. root_node \in Nat \ {0}
      BY DEF IInv, TypeOK
    <3> QED
      BY <1>2, <3>1, <3>2, <3>3 DEF Known
  <2>3. TypeOK'
    BY <1>0, <1>2, <2>1, <2>2 DEF IInv, TypeOK
  <2>4. ObjectShape' /\ Phases' /\ Locals'
    BY <1>0, <1>2, <2>1, <2>2 DEF IInv, ObjectShape, Phases, Locals
  <2>5. TableExact' /\ ArcsFollowGame' /\ Accounting' /\ CopyInv'
    BY <1>0, <1>2, SameTree
  <2>6. RootIsState' /\ TargetsVisited'
    BY <1>0, <1>2, <2>1, <2>2 DEF IInv, RootIsState, getNode, TargetsVisited
  <2>7. RootTried' /\ InSync' /\ PathFromRoot' /\ BestMoveLegal'
    BY <1>0 DEF RootTried, InSync, PathFromRoot, BestMoveLegal
  <2> QED
    BY <1>1, <2>3, <2>4, <2>5, <2>6, <2>7 DEF IInv
<1>3. CASE InitializedWith(state)
  <2>1. /\ NodeIds' = {1} /\ ArcIds' = {} /\ root_node' = 1
        /\ m_nodes' \in Seq(NodeRecords)
        /\ m_arcs' \in Seq(ArcRecords(NodeIds'))
        /\ m_transposition_table' = [p \in {state.pos} |-> 1]
        /\ ~ m_not_initialized'
        /\ m_path' \in Seq(Links') /\ m_path' # << >>
        /\ Len(m_path') = 1 /\ m_path_size' = 1
    BY <1>0, <1>1, <1>3, InitializedFacts
  <2>2. /\ TableExact' /\ ArcsFollowGame' /\ Accounting' /\ TargetsVisited'
        /\ CopyInv' /\ RootIsState'
    BY <1>0, <1>1, <1>3, InitializedFacts
  <2>3. TypeOK'
    <3>1. /\ DOMAIN m_transposition_table' \subseteq Positions
          /\ m_transposition_table' \in [DOMAIN m_transposition_table' -> NodeIds']
      BY <1>1, <2>1 DEF States
    <3>2. m_not_initialized' \in BOOLEAN
      BY <1>3 DEF InitializedWith
    <3>3. \A S : << >> \in Seq(S)
      BY EmptySeq
    <3> QED
      BY <1>0, <1>1, <2>1, <3>1, <3>2, <3>3 DEF IInv, TypeOK
  <2>4. ObjectShape' /\ Phases' /\ Locals'
    BY <1>0, <1>1, <2>1 DEF ObjectShape, Phases, Locals
  <2>5. RootTried' /\ InSync' /\ PathFromRoot' /\ BestMoveLegal'
    BY <1>0 DEF RootTried, InSync, PathFromRoot, BestMoveLegal
  <2> QED
    BY <1>1, <2>2, <2>3, <2>4, <2>5 DEF IInv
<1> QED
  BY <1>2, <1>3 DEF Reset, tree, path

-----------------------------------------------------------------------------
(* prune_impl().                                                           *)

\* A moved-from NodeData has lost its moves and nothing else.
LEMMA MovedFromFacts ==
    ASSUME IInv, NEW o \in NodeIds
    PROVE  /\ MovedFrom(o) \in Seq(NodeRecords)
           /\ DOMAIN MovedFrom(o) = NodeIds
           /\ \A n \in NodeIds :
                 /\ MovedFrom(o)[n].pos = m_nodes[n].pos
                 /\ MovedFrom(o)[n].m_visits = m_nodes[n].m_visits
                 /\ Statistics(MovedFrom(o)[n]) = Statistics(m_nodes[n])
                 /\ n # o => MovedFrom(o)[n] = m_nodes[n]
<1>1. /\ m_nodes \in Seq(NodeRecords) /\ NodeIds = 1..Len(m_nodes)
      /\ Len(m_nodes) \in Nat /\ \A n \in NodeIds : m_nodes[n] \in NodeRecords
  BY TreeFacts DEF IInv, TypeOK
<1> DEFINE r == [m_nodes[o] EXCEPT !.m_moves = {}]
<1>2. /\ r \in NodeRecords /\ r.pos = m_nodes[o].pos
      /\ r.m_visits = m_nodes[o].m_visits /\ Statistics(r) = Statistics(m_nodes[o])
  BY <1>1 DEF NodeRecords, Statistics
<1>3. MovedFrom(o) = [m_nodes EXCEPT ![o] = r]
  BY DEF MovedFrom
<1> HIDE DEF r
<1>4. /\ MovedFrom(o) \in Seq(NodeRecords) /\ Len(MovedFrom(o)) = Len(m_nodes)
      /\ \A n \in 1..Len(m_nodes) :
            MovedFrom(o)[n] = IF n = o THEN r ELSE m_nodes[n]
  <2>1. o \in 1..Len(m_nodes)
    BY <1>1
  <2> QED
    BY <1>1, <1>2, <1>3, <2>1, ExceptSeq
<1> QED
  BY <1>1, <1>2, <1>4

\* What a step of prune_impl() preserves of the old tree, whose nodes lose
\* their moves when they are copied.
LEMMA OldTreeKept ==
    ASSUME IInv, pc \in {"prune", "copy"}, pc' = "copy",
           UNCHANGED <<state, m_arcs, root_node, m_transposition_table,
                       m_not_initialized, m_path, m_path_size, max_iterations,
                       node, search, sim_state, playouts, best_move>>,
           m_nodes' \in Seq(NodeRecords), NodeIds' = NodeIds,
           \A n \in NodeIds : /\ m_nodes'[n].pos = m_nodes[n].pos
                              /\ m_nodes'[n].m_visits = m_nodes[n].m_visits
                              /\ visited'[n] = NoNode =>
                                    /\ m_nodes'[n] = m_nodes[n]
                                    /\ pc = "copy" => visited[n] = NoNode
    PROVE  /\ ArcIds' = ArcIds /\ Links' = Links
           /\ WinnerKnown' /\ ObjectShape' /\ Phases' /\ Locals'
           /\ TableExact' /\ ArcsFollowGame' /\ Accounting'
           /\ RootIsState' /\ InSync' /\ RootTried' /\ TargetsVisited'
           /\ PathFromRoot' /\ BestMoveLegal'
<1>1. ArcIds' = ArcIds /\ Links' = Links
  BY DEF ArcIds, Links
<1>2. \A a \in ArcIds : m_arcs[a].source \in NodeIds /\ m_arcs[a].target \in NodeIds
  BY TreeFacts DEF IInv
<1>3. WinnerKnown' /\ ObjectShape' /\ Phases' /\ Locals'
  <2>1. m_nodes = << >> => m_nodes' = << >>
    BY DEF NodeIds
  <2> QED
    BY <1>1, <2>1 DEF IInv, WinnerKnown, ObjectShape, Phases, Locals
<1>4. TableExact'
  <2>1. {m_nodes'[n].pos : n \in NodeIds} = {m_nodes[n].pos : n \in NodeIds}
    OBVIOUS
  <2> QED
    BY <2>1 DEF IInv, TableExact
<1>5. ArcsFollowGame'
  BY <1>1, <1>2 DEF IInv, ArcsFollowGame
<1>6. Accounting'
  <2>1. \A n : Tried(n)' = Tried(n)
    BY <1>1 DEF Tried, OutArcs
  <2>2. ASSUME NEW n \in NodeIds, visited'[n] = NoNode PROVE Accounted(n)'
    <3>1. Accounted(n) /\ m_nodes'[n] = m_nodes[n]
      BY <2>2 DEF IInv, Accounting
    <3> QED
      BY <2>1, <3>1 DEF Accounted
  <2> QED
    BY <1>1, <2>2 DEF IInv, Accounting
<1>7. TargetsVisited'
  BY <1>1, <1>2 DEF IInv, TargetsVisited
<1>8. RootIsState' /\ InSync' /\ RootTried' /\ PathFromRoot' /\ BestMoveLegal'
  BY DEF RootIsState, InSync, RootTried, PathFromRoot, BestMoveLegal
<1> QED
  BY <1>1, <1>3, <1>4, <1>5, <1>6, <1>7, <1>8

\* PruneRoot: the new tree has its root, a copy of the state's node.
LEMMA PruneRootStep == IInv /\ PruneRoot => IInv'
<1> SUFFICES ASSUME IInv, PruneRoot PROVE IInv'
  OBVIOUS
<1>a. PICK old : old = getNode(state.pos)
  OBVIOUS
<1>0. /\ pc = "prune" /\ pc' = "copy" /\ Known
      /\ new_nodes' = << m_nodes[old] >>
      /\ m_nodes' = MovedFrom(old)
      /\ visited' = [n \in NodeIds |-> IF n = old THEN 1 ELSE NoNode]
      /\ stack' = << old >> /\ new_arcs' = << >>
      /\ parent' = NoNode /\ out_arcs' = {}
      /\ UNCHANGED <<state, m_arcs, root_node, m_transposition_table,
                     m_not_initialized, m_path, m_path_size, max_iterations,
                     node, search, sim_state, playouts, best_move>>
  BY <1>a DEF PruneRoot, path, computing
<1>1. old \in NodeIds /\ old # NoNode /\ ~ m_not_initialized
  BY <1>0, <1>a DEF IInv, TypeOK, getNode, Known
<1>2. getNode(state.pos)' = old
  BY <1>0, <1>a DEF getNode
<1>3. /\ m_nodes' \in Seq(NodeRecords) /\ NodeIds' = NodeIds
      /\ \A n \in NodeIds : /\ m_nodes'[n].pos = m_nodes[n].pos
                            /\ m_nodes'[n].m_visits = m_nodes[n].m_visits
                            /\ n # old => m_nodes'[n] = m_nodes[n]
  <2>1. NodeIds' = DOMAIN m_nodes'
    BY DEF NodeIds
  <2> QED
    BY <1>0, <1>1, <2>1, MovedFromFacts
<1>4. \A n \in NodeIds : visited'[n] = NoNode => n # old
  BY <1>0 DEF NoNode
<1>5. /\ ArcIds' = ArcIds /\ Links' = Links
      /\ WinnerKnown' /\ ObjectShape' /\ Phases' /\ Locals'
      /\ TableExact' /\ ArcsFollowGame' /\ Accounting'
      /\ RootIsState' /\ InSync' /\ RootTried' /\ TargetsVisited'
      /\ PathFromRoot' /\ BestMoveLegal'
  BY <1>0, <1>3, <1>4, OldTreeKept
<1>6. /\ new_nodes' \in Seq(NodeRecords) /\ DOMAIN new_nodes' = {1}
      /\ new_nodes'[1] = m_nodes[old]
  BY <1>0, <1>1, TreeFacts DEF IInv
<1>7. TypeOK'
  <2>1. new_arcs' \in Seq(ArcRecords(DOMAIN new_nodes'))
    BY <1>0, EmptySeq
  <2>2. visited' \in [NodeIds -> {NoNode} \cup DOMAIN new_nodes']
    BY <1>0, <1>6
  <2>3. stack' \in Seq(NodeIds)
    BY <1>0, <1>1
  <2> QED
    BY <1>0, <1>3, <1>5, <1>6, <2>1, <2>2, <2>3 DEF IInv, TypeOK
<1>8. CopyStack'
  BY <1>0, <1>1 DEF CopyStack, NoNode
<1>9. CopyNodes'
  <2>1. /\ new_nodes'[1].m_moves \cap Tried(old) = {}
        /\ new_nodes'[1].m_moves \cup Tried(old) = Offered(m_nodes[old].pos)
    BY <1>0, <1>1, <1>6 DEF IInv, Accounting, Accounted
  <2>2. Tried(old)' = Tried(old)
    BY <1>0, <1>5 DEF Tried, OutArcs
  <2>3. \A o \in NodeIds : visited'[o] # NoNode => o = old /\ visited'[o] = 1
    BY <1>0
  <2>4. visited'[old] = 1
    BY <1>0, <1>1
  <2> QED
    BY <1>1, <1>3, <1>6, <2>1, <2>2, <2>3, <2>4 DEF CopyNodes
<1>10. CopyArcs'
  <2>1. \A a \in ArcIds : ~ Copied(a)'
    <3>1. \A o \in NodeIds : visited'[o] # NoNode => o = old
      BY <1>0
    <3>2. stack'[1] = old /\ 1 \in 1..Len(stack')
      BY <1>0
    <3>3. \A a \in ArcIds : m_arcs'[a].source \in NodeIds
      BY <1>0, TreeFacts DEF IInv
    <3> QED
      BY <3>1, <3>2, <3>3 DEF Copied
  <2> QED
    BY <1>0, <1>5, <2>1 DEF CopyArcs
<1>11. CopyInv'
  <2>1. visited'[getNode(state.pos)'] = 1 /\ ~ m_not_initialized'
    BY <1>0, <1>1, <1>2
  <2> QED
    BY <1>1, <1>2, <1>8, <1>9, <1>10, <2>1 DEF CopyInv
<1> QED
  BY <1>5, <1>7, <1>11 DEF IInv

\* No two nodes share a copy, because no two nodes share a position.
LEMMA CopiesDiffer ==
    ASSUME IInv, pc = "copy", NEW o \in NodeIds, NEW q \in NodeIds,
           visited[o] # NoNode, visited[o] = visited[q]
    PROVE  o = q
<1>1. m_nodes[o].pos = m_nodes[q].pos
  BY DEF IInv, CopyInv, CopyNodes
<1> QED
  BY <1>1 DEF IInv, TableExact

\* PrunePop: the arcs of the node on top of the stack are still to be copied.
LEMMA PrunePopStep == IInv /\ PrunePop => IInv'
<1> SUFFICES ASSUME IInv, PrunePop PROVE IInv'
  OBVIOUS
<1>0. /\ pc = "copy" /\ pc' = "copy" /\ out_arcs = {} /\ stack # << >>
      /\ parent' = stack[Len(stack)]
      /\ stack' = SubSeq(stack, 1, Len(stack) - 1)
      /\ out_arcs' = {a \in ArcIds : m_arcs[a].source = parent'}
      /\ UNCHANGED <<state, m_nodes, m_arcs, root_node, m_transposition_table,
                     m_not_initialized, m_path, m_path_size, max_iterations,
                     node, search, sim_state, playouts, best_move, new_nodes,
                     new_arcs, visited>>
  BY DEF PrunePop, OutArcs, tree, path, computing
<1>1. /\ stack \in Seq(NodeIds) /\ Len(stack) \in Nat /\ Len(stack) > 0
      /\ \A i \in 1..Len(stack) : stack[i] \in NodeIds
  BY <1>0 DEF IInv, TypeOK
<1>2. /\ stack' \in Seq(NodeIds) /\ Len(stack') = Len(stack) - 1
      /\ \A i \in 1..Len(stack') : i \in 1..Len(stack) /\ stack'[i] = stack[i]
      /\ parent' \in NodeIds
  <2>1. 1 \in Int /\ Len(stack) - 1 \in Int /\ Len(stack) - 1 \in Nat
    BY <1>1
  <2>2. \A i \in 1..Len(stack) - 1 : i \in 1..Len(stack) /\ stack[i] \in NodeIds
    BY <1>1
  <2> DEFINE n == Len(stack) - 1
  <2> HIDE DEF n
  <2>3. /\ SubSeq(stack, 1, n) \in Seq(NodeIds)
        /\ Len(SubSeq(stack, 1, n)) = IF 1 <= n THEN n - 1 + 1 ELSE 0
        /\ \A i \in 1..n - 1 + 1 : SubSeq(stack, 1, n)[i] = stack[1 + i - 1]
    BY <2>1, <2>2, SubSeqProperties DEF n
  <2>4. n \in Nat
    BY <2>1 DEF n
  <2>5. n - 1 + 1 = n /\ \A i \in 1..n : 1 + i - 1 = i
    BY <2>4
  <2>6. /\ Len(SubSeq(stack, 1, n)) = n
        /\ \A i \in 1..n : SubSeq(stack, 1, n)[i] = stack[i]
    BY <2>3, <2>4, <2>5
  <2> QED
    BY <1>0, <1>1, <2>2, <2>3, <2>6 DEF n
<1>3. /\ CopyStack /\ CopyNodes /\ CopyArcs /\ ~ m_not_initialized
      /\ getNode(state.pos) # NoNode /\ visited[getNode(state.pos)] = 1
  BY <1>0 DEF IInv, CopyInv
<1>4. /\ NodeIds' = NodeIds /\ m_nodes' \in Seq(NodeRecords)
  BY <1>0 DEF IInv, TypeOK, NodeIds
<1>5. /\ ArcIds' = ArcIds /\ Links' = Links
      /\ WinnerKnown' /\ ObjectShape' /\ Phases' /\ Locals'
      /\ TableExact' /\ ArcsFollowGame' /\ Accounting'
      /\ RootIsState' /\ InSync' /\ RootTried' /\ TargetsVisited'
      /\ PathFromRoot' /\ BestMoveLegal'
  BY <1>0, <1>4, OldTreeKept
<1>6. TypeOK'
  BY <1>0, <1>2, <1>4, <1>5 DEF IInv, TypeOK
<1>7. CopyStack'
  <2>1. \A i, j \in 1..Len(stack) : stack[i] = stack[j] => i = j
    BY <1>3 DEF CopyStack
  <2>2. \A i \in 1..Len(stack') : visited'[stack'[i]] # NoNode /\ stack'[i] # parent'
    BY <1>0, <1>1, <1>2, <1>3, <2>1 DEF CopyStack
  <2>3. visited'[parent'] # NoNode
    BY <1>0, <1>1, <1>3 DEF CopyStack
  <2>4. \A a \in out_arcs' : m_arcs'[a].source = parent'
    BY <1>0
  <2>5. \A i, j \in 1..Len(stack') : stack'[i] = stack'[j] => i = j
    BY <1>2, <2>1
  <2> QED
    BY <2>2, <2>3, <2>4, <2>5 DEF CopyStack
<1>8. CopyNodes'
  <2>1. \A n : Tried(n)' = Tried(n)
    BY <1>0, <1>5 DEF Tried, OutArcs
  <2> QED
    BY <1>0, <1>3, <1>4, <2>1 DEF CopyNodes
<1>9. \A a \in ArcIds : Copied(a)' <=> Copied(a)
  <2> SUFFICES ASSUME NEW a \in ArcIds PROVE Copied(a)' <=> Copied(a)
    OBVIOUS
  <2> DEFINE o == m_arcs[a].source
  <2>1. (\A i \in 1..Len(stack) : stack[i] # o) <=>
          (\A i \in 1..Len(stack') : stack'[i] # o) /\ o # parent'
    <3>1. \A i \in 1..Len(stack) : i = Len(stack) \/ i \in 1..Len(stack')
      BY <1>1, <1>2
    <3> QED
      BY <1>0, <1>1, <1>2, <3>1, SMTT(30)
  <2>2. Copied(a) <=> visited[o] # NoNode /\ \A i \in 1..Len(stack) : stack[i] # o
    BY <1>0 DEF Copied
  <2>3. Copied(a)' <=> /\ visited[o] # NoNode
                       /\ \A i \in 1..Len(stack') : stack'[i] # o
                       /\ o # parent'
    BY <1>0 DEF Copied
  <2> QED
    BY <2>1, <2>2, <2>3
<1>10. CopyArcs'
  <2>1. \A a, b : CopyOf(a, b)' <=> CopyOf(a, b)
    BY <1>0 DEF CopyOf
  <2> QED
    BY <1>0, <1>3, <1>5, <1>9, <2>1 DEF CopyArcs
<1>11. CopyInv'
  <2>1. getNode(state.pos)' = getNode(state.pos)
    BY <1>0 DEF getNode
  <2>2. visited'[getNode(state.pos)'] = 1
    BY <1>0, <1>3, <2>1
  <2> QED
    BY <1>0, <1>3, <1>7, <1>8, <1>10, <2>1, <2>2 DEF CopyInv
<1> QED
  BY <1>5, <1>6, <1>11 DEF IInv

\* PruneSwap: when the stack and the arcs are used up the copy is complete, and
\* takes the place of the old tree.
LEMMA PruneSwapStep == IInv /\ PruneSwap => IInv'
<1> SUFFICES ASSUME IInv, PruneSwap PROVE IInv'
  OBVIOUS
<1>0. /\ pc = "copy" /\ pc' = "main" /\ out_arcs = {} /\ stack = << >>
      /\ m_nodes' = new_nodes /\ m_arcs' = new_arcs /\ root_node' = 1
      /\ m_transposition_table' = Purged(m_transposition_table)
      /\ m_not_initialized' = FALSE
      /\ m_path' = << [arc |-> RootArc, target |-> 1] >> /\ m_path_size' = 1
      /\ new_nodes' = << >> /\ new_arcs' = << >> /\ parent' = NoNode
      /\ UNCHANGED <<state, max_iterations, node, search, sim_state, playouts,
                     best_move, stack, out_arcs>>
  BY DEF PruneSwap, computing
<1>1. /\ CopyNodes /\ CopyArcs /\ getNode(state.pos) # NoNode
      /\ visited[getNode(state.pos)] = 1
  BY <1>0 DEF IInv, CopyInv
<1>2. /\ new_nodes \in Seq(NodeRecords)
      /\ new_arcs \in Seq(ArcRecords(DOMAIN new_nodes))
      /\ visited \in [NodeIds -> {NoNode} \cup DOMAIN new_nodes]
      /\ NoNode \notin DOMAIN new_nodes
  BY <1>0 DEF IInv, TypeOK, NoNode
<1>3. NodeIds' = DOMAIN new_nodes /\ ArcIds' = DOMAIN new_arcs
  BY <1>0 DEF NodeIds, ArcIds
<1>4. \A b \in DOMAIN new_arcs : /\ new_arcs[b].source \in DOMAIN new_nodes
                                 /\ new_arcs[b].target \in DOMAIN new_nodes
  <2>1. \A b \in DOMAIN new_arcs : new_arcs[b] \in ArcRecords(DOMAIN new_nodes)
    BY <1>2
  <2> QED
    BY <2>1 DEF ArcRecords
<1>5. \A a \in ArcIds : /\ m_arcs[a].source \in NodeIds
                        /\ m_arcs[a].target \in NodeIds
                        /\ Copied(a) <=> visited[m_arcs[a].source] # NoNode
  BY <1>0, TreeFacts DEF IInv, Copied
<1>6. \A o \in NodeIds : visited[o] # NoNode =>
         /\ visited[o] \in DOMAIN new_nodes
         /\ new_nodes[visited[o]].pos = m_nodes[o].pos
         /\ new_nodes[visited[o]].m_visits = m_nodes[o].m_visits
         /\ m_transposition_table[m_nodes[o].pos] = o
         /\ m_nodes[o].pos \in DOMAIN m_transposition_table
  BY <1>1, <1>2 DEF IInv, CopyNodes, TableExact
<1>7. \A q \in DOMAIN m_transposition_table :
         /\ m_transposition_table[q] \in NodeIds
         /\ m_nodes[m_transposition_table[q]].pos = q
  BY DEF IInv, TableExact
<1>8. /\ DOMAIN m_transposition_table' =
            {q \in DOMAIN m_transposition_table :
                visited[m_transposition_table[q]] # NoNode}
      /\ \A q \in DOMAIN m_transposition_table' :
            m_transposition_table'[q] = visited[m_transposition_table[q]]
      /\ m_transposition_table' \in [DOMAIN m_transposition_table' -> NodeIds']
  <2>1. m_transposition_table' =
          [q \in {p \in DOMAIN m_transposition_table :
                     visited[m_transposition_table[p]] # NoNode} |->
             visited[m_transposition_table[q]]]
    BY <1>0 DEF Purged
  <2> QED
    BY <1>2, <1>3, <1>7, <2>1
<1>9. TableExact'
  <2>1. ASSUME NEW k \in NodeIds'
        PROVE  /\ m_nodes'[k].pos \in DOMAIN m_transposition_table'
               /\ m_transposition_table'[m_nodes'[k].pos] = k
    <3>1. PICK o \in NodeIds : visited[o] = k
      BY <1>1, <1>3 DEF CopyNodes
    <3>2. visited[o] # NoNode
      BY <1>2, <1>3, <3>1
    <3> QED
      BY <1>0, <1>6, <1>8, <3>1, <3>2
  <2>2. ASSUME NEW q \in DOMAIN m_transposition_table'
        PROVE  \E k \in NodeIds' : m_nodes'[k].pos = q
    <3>1. /\ m_transposition_table[q] \in NodeIds
          /\ visited[m_transposition_table[q]] # NoNode
          /\ m_nodes[m_transposition_table[q]].pos = q
      BY <1>7, <1>8
    <3> QED
      BY <1>0, <1>3, <1>6, <3>1
  <2> QED
    BY <2>1, <2>2 DEF TableExact
<1>10. ASSUME NEW b \in DOMAIN new_arcs
       PROVE  \E a \in ArcIds :
                 /\ CopyOf(a, b)
                 /\ visited[m_arcs[a].source] # NoNode
                 /\ visited[m_arcs[a].target] # NoNode
  <2>1. PICK a \in ArcIds : CopyOf(a, b)
    BY <1>1 DEF CopyArcs
  <2>2. /\ visited[m_arcs[a].source] \in DOMAIN new_nodes
        /\ visited[m_arcs[a].target] \in DOMAIN new_nodes
    BY <1>4, <2>1 DEF CopyOf
  <2> QED
    BY <1>2, <2>1, <2>2
<1>11. ArcsFollowGame' /\ TargetsVisited'
  <2>1. ASSUME NEW b \in ArcIds'
        PROVE  /\ m_arcs'[b].m_move \in Offered(m_nodes'[m_arcs'[b].source].pos)
               /\ play[<<m_nodes'[m_arcs'[b].source].pos, m_arcs'[b].m_move>>] =
                     m_nodes'[m_arcs'[b].target].pos
               /\ m_nodes'[m_arcs'[b].target].m_visits > 0
    <3>1. PICK a \in ArcIds : /\ CopyOf(a, b)
                              /\ visited[m_arcs[a].source] # NoNode
                              /\ visited[m_arcs[a].target] # NoNode
      BY <1>3, <1>10
    <3>2. /\ m_nodes'[m_arcs'[b].source].pos = m_nodes[m_arcs[a].source].pos
          /\ m_nodes'[m_arcs'[b].target].pos = m_nodes[m_arcs[a].target].pos
          /\ m_nodes'[m_arcs'[b].target].m_visits =
                m_nodes[m_arcs[a].target].m_visits
          /\ m_arcs'[b].m_move = m_arcs[a].m_move
      BY <1>0, <1>5, <1>6, <3>1 DEF CopyOf
    <3>3. /\ m_arcs[a].m_move \in Offered(m_nodes[m_arcs[a].source].pos)
          /\ play[<<m_nodes[m_arcs[a].source].pos, m_arcs[a].m_move>>] =
                m_nodes[m_arcs[a].target].pos
          /\ m_nodes[m_arcs[a].target].m_visits > 0
      BY <1>0 DEF IInv, ArcsFollowGame, TargetsVisited
    <3> QED
      BY <3>2, <3>3
  <2> QED
    BY <2>1 DEF ArcsFollowGame, TargetsVisited
<1>12. Accounting'
  <2>1. ASSUME NEW k \in NodeIds' PROVE Accounted(k)'
    <3>1. PICK o \in NodeIds : visited[o] = k
      BY <1>1, <1>3 DEF CopyNodes
    <3>2. visited[o] # NoNode
      BY <1>2, <1>3, <3>1
    <3>3. Tried(k)' = Tried(o)
      <4>1. ASSUME NEW b \in DOMAIN new_arcs, new_arcs[b].source = k
            PROVE  \E a \in ArcIds : /\ m_arcs[a].source = o
                                     /\ m_arcs[a].m_move = new_arcs[b].m_move
        <5>1. PICK a \in ArcIds : CopyOf(a, b) /\ visited[m_arcs[a].source] # NoNode
          BY <1>10
        <5>2. visited[m_arcs[a].source] = visited[o]
          BY <3>1, <4>1, <5>1 DEF CopyOf
        <5>3. m_arcs[a].source = o
          BY <1>0, <1>5, <5>1, <5>2, CopiesDiffer
        <5> QED
          BY <5>1, <5>3 DEF CopyOf
      <4>2. ASSUME NEW a \in ArcIds, m_arcs[a].source = o
            PROVE  \E b \in DOMAIN new_arcs : /\ new_arcs[b].source = k
                                              /\ new_arcs[b].m_move = m_arcs[a].m_move
        BY <1>1, <1>5, <3>1, <3>2, <4>2 DEF CopyArcs, CopyOf
      <4>3. Tried(k)' = {new_arcs[b].m_move :
                            b \in {c \in DOMAIN new_arcs : new_arcs[c].source = k}}
        BY <1>0, <1>3 DEF Tried, OutArcs
      <4>4. Tried(o) = {m_arcs[a].m_move :
                            a \in {c \in ArcIds : m_arcs[c].source = o}}
        BY DEF Tried, OutArcs
      <4> QED
        BY <4>1, <4>2, <4>3, <4>4
    <3> QED
      BY <1>0, <1>1, <1>6, <3>1, <3>2, <3>3 DEF CopyNodes, Accounted
  <2>2. \A b, c \in ArcIds' : /\ m_arcs'[b].source = m_arcs'[c].source
                              /\ m_arcs'[b].m_move = m_arcs'[c].m_move
                              => b = c
    BY <1>0, <1>1, <1>3 DEF CopyArcs
  <2> QED
    BY <2>1, <2>2 DEF Accounting
<1>13. 1 \in NodeIds'
  <2>1. getNode(state.pos) \in NodeIds
    BY <1>1 DEF IInv, TypeOK, getNode
  <2> QED
    BY <1>1, <1>3, <1>6, <2>1 DEF NoNode
<1>14. RootIsState'
  <2>1. /\ state.pos \in DOMAIN m_transposition_table
        /\ visited[m_transposition_table[state.pos]] = 1
    BY <1>1 DEF getNode
  <2> QED
    BY <1>0, <1>8, <2>1 DEF RootIsState, getNode, NoNode
<1>15. /\ m_path' \in Seq(Links') /\ m_path' # << >> /\ Len(m_path') = 1
  <2>1. [arc |-> RootArc, target |-> 1] \in Links'
    BY <1>13 DEF Links
  <2> QED
    BY <1>0, <2>1
<1>16. TypeOK'
  <2>1. DOMAIN m_transposition_table' \subseteq Positions
    BY <1>8 DEF IInv, TypeOK
  <2>2. \A S : << >> \in Seq(S)
    BY EmptySeq
  <2>3. m_nodes' \in Seq(NodeRecords) /\ m_arcs' \in Seq(ArcRecords(NodeIds'))
    BY <1>0, <1>2, <1>3
  <2>4. node = NoNode
    BY <1>0 DEF IInv, Locals
  <2>5. /\ new_nodes' \in Seq(NodeRecords)
        /\ new_arcs' \in Seq(ArcRecords(DOMAIN new_nodes'))
        /\ stack' \in Seq(NodeIds') /\ out_arcs' \subseteq ArcIds'
        /\ parent' \in {NoNode} \cup NodeIds' /\ node' \in {NoNode} \cup NodeIds'
    BY <1>0, <2>2, <2>4
  <2>6. /\ root_node' \in Nat \ {0} /\ m_path_size' \in Nat
        /\ m_not_initialized' \in BOOLEAN
    <3>1. root_node' = 1 /\ m_path_size' = 1
      BY <1>0
    <3>2. m_not_initialized' = FALSE
      BY <1>0
    <3>3. m_not_initialized' \in BOOLEAN
      BY <3>2, Zenon
    <3> QED
      BY <3>1, <3>3
  <2>7. m_transposition_table' \in [DOMAIN m_transposition_table' -> NodeIds']
    BY <1>8
  <2>8. /\ {state, search, sim_state}' \subseteq States
        /\ max_iterations' \in 0..MaxIterations /\ playouts' \in 0..Playouts
        /\ best_move' \in {NoMove} \cup Move /\ pc' = "main"
    BY <1>0 DEF IInv, TypeOK
  <2>9. m_path' \in Seq(Links')
    BY <1>15
  <2> QED
    BY <2>1, <2>3, <2>5, <2>6, <2>7, <2>8, <2>9 DEF TypeOK
<1>17. WinnerKnown' /\ ObjectShape' /\ Phases' /\ Locals'
  BY <1>0, <1>13, <1>15 DEF IInv, WinnerKnown, ObjectShape, Phases, Locals
<1>18. InSync' /\ RootTried' /\ PathFromRoot' /\ BestMoveLegal' /\ CopyInv'
  BY <1>0 DEF InSync, RootTried, PathFromRoot, BestMoveLegal, CopyInv
<1> QED
  BY <1>9, <1>11, <1>12, <1>14, <1>16, <1>17, <1>18 DEF IInv

\* PruneArc: one more arc is copied, after the node it leads to.
LEMMA PruneArcStep == IInv /\ PruneArc => IInv'
<1> SUFFICES ASSUME IInv, PruneArc PROVE IInv'
  OBVIOUS
<1>0. /\ pc = "copy" /\ pc' = "copy"
      /\ UNCHANGED <<state, m_arcs, root_node, m_transposition_table,
                     m_not_initialized, m_path, m_path_size, max_iterations,
                     node, search, sim_state, playouts, best_move, parent>>
  BY DEF PruneArc, path, computing
<1>1. PICK a \in out_arcs :
         LET child == m_arcs[a].target
             fresh == visited[child] = NoNode
             copy  == IF fresh THEN Len(new_nodes) + 1 ELSE visited[child]
         IN  /\ new_nodes' = IF fresh THEN Append(new_nodes, m_nodes[child])
                                      ELSE new_nodes
             /\ m_nodes' = IF fresh THEN MovedFrom(child) ELSE m_nodes
             /\ visited' = [visited EXCEPT ![child] = copy]
             /\ stack' = IF fresh THEN Append(stack, child) ELSE stack
             /\ new_arcs' = WithArc(a, copy)
             /\ out_arcs' = out_arcs \ {a}
  BY DEF PruneArc
<1>2. PICK child, copy, from, new :
                               /\ child = m_arcs[a].target
                               /\ copy = IF visited[child] = NoNode
                                         THEN Len(new_nodes) + 1
                                         ELSE visited[child]
                               /\ from = visited[parent]
                               /\ new = Len(new_arcs) + 1
  OBVIOUS
<1>3. /\ CopyStack /\ CopyNodes /\ CopyArcs /\ ~ m_not_initialized
      /\ getNode(state.pos) # NoNode /\ visited[getNode(state.pos)] = 1
  BY <1>0 DEF IInv, CopyInv
<1>4. /\ a \in ArcIds /\ m_arcs[a].source = parent /\ parent \in NodeIds
      /\ child \in NodeIds /\ m_arcs[a].m_move \in Move
      /\ parent # NoNode /\ from # NoNode
  <2>1. a \in ArcIds /\ m_arcs[a].source = parent
    BY <1>1, <1>3 DEF IInv, TypeOK, CopyStack
  <2>2. parent \in NodeIds /\ child \in NodeIds /\ m_arcs[a].m_move \in Move
        /\ parent # NoNode
    BY <1>2, <2>1, TreeFacts DEF IInv
  <2> QED
    BY <1>2, <1>3, <2>1, <2>2 DEF CopyStack
<1>5. /\ new_nodes \in Seq(NodeRecords)
      /\ Len(new_nodes) \in Nat /\ DOMAIN new_nodes = 1..Len(new_nodes)
      /\ new_arcs \in Seq(ArcRecords(DOMAIN new_nodes))
      /\ visited \in [NodeIds -> {NoNode} \cup DOMAIN new_nodes]
      /\ stack \in Seq(NodeIds)
  BY <1>0 DEF IInv, TypeOK
<1>6. /\ copy # NoNode
      /\ visited' = [visited EXCEPT ![child] = copy]
      /\ visited'[child] = copy
      /\ \A n \in NodeIds : visited[n] # NoNode => visited'[n] = visited[n]
      /\ \A n \in NodeIds : n # child => visited'[n] = visited[n]
  BY <1>1, <1>2, <1>4, <1>5 DEF NoNode
<1>7. /\ new_nodes' \in Seq(NodeRecords)
      /\ DOMAIN new_nodes' = DOMAIN new_nodes \cup {copy}
      /\ \A k \in DOMAIN new_nodes : new_nodes'[k] = new_nodes[k]
      /\ visited[child] = NoNode => /\ new_nodes'[copy] = m_nodes[child]
                                    /\ copy \notin DOMAIN new_nodes
      /\ visited[child] # NoNode => copy \in DOMAIN new_nodes
  <2>1. CASE visited[child] = NoNode
    <3>1. new_nodes' = Append(new_nodes, m_nodes[child]) /\ copy = Len(new_nodes) + 1
      BY <1>1, <1>2, <2>1
    <3>2. m_nodes[child] \in NodeRecords
      BY <1>4, TreeFacts DEF IInv
    <3> QED
      BY <1>5, <2>1, <3>1, <3>2
  <2>2. CASE visited[child] # NoNode
    BY <1>1, <1>2, <1>4, <1>5, <2>2
  <2> QED
    BY <2>1, <2>2
<1>8. /\ m_nodes' \in Seq(NodeRecords) /\ NodeIds' = NodeIds
      /\ \A n \in NodeIds : /\ m_nodes'[n].pos = m_nodes[n].pos
                            /\ m_nodes'[n].m_visits = m_nodes[n].m_visits
                            /\ visited'[n] = NoNode =>
                                  /\ m_nodes'[n] = m_nodes[n]
                                  /\ visited[n] = NoNode
  <2>1. \A n \in NodeIds : visited'[n] = NoNode => n # child /\ visited[n] = NoNode
    BY <1>6
  <2>2. CASE visited[child] = NoNode
    <3>1. m_nodes' = MovedFrom(child) /\ NodeIds' = DOMAIN m_nodes'
      BY <1>1, <1>2, <2>2 DEF NodeIds
    <3> QED
      BY <1>4, <2>1, <3>1, MovedFromFacts
  <2>3. CASE visited[child] # NoNode
    <3>1. m_nodes' = m_nodes
      BY <1>1, <1>2, <2>3
    <3> QED
      BY <2>1, <3>1 DEF IInv, TypeOK, NodeIds
  <2> QED
    BY <2>2, <2>3
<1>9. /\ ArcIds' = ArcIds /\ Links' = Links
      /\ WinnerKnown' /\ ObjectShape' /\ Phases' /\ Locals'
      /\ TableExact' /\ ArcsFollowGame' /\ Accounting'
      /\ RootIsState' /\ InSync' /\ RootTried' /\ TargetsVisited'
      /\ PathFromRoot' /\ BestMoveLegal'
  BY <1>0, <1>8, OldTreeKept
<1>10. from \in DOMAIN new_nodes
  BY <1>2, <1>4, <1>5
<1> DEFINE arc == [source |-> from, target |-> copy, m_move |-> m_arcs[a].m_move]
<1>11. /\ new_arcs' \in Seq(ArcRecords(DOMAIN new_nodes'))
       /\ DOMAIN new_arcs' = DOMAIN new_arcs \cup {new}
       /\ new \notin DOMAIN new_arcs
       /\ \A b \in DOMAIN new_arcs : new_arcs'[b] = new_arcs[b]
       /\ new_arcs'[new] = arc
  <2>1. arc \in ArcRecords(DOMAIN new_nodes')
    BY <1>4, <1>7, <1>10 DEF ArcRecords
  <2>2. new_arcs \in Seq(ArcRecords(DOMAIN new_nodes'))
    <3>1. ArcRecords(DOMAIN new_nodes) \subseteq ArcRecords(DOMAIN new_nodes')
      BY <1>7 DEF ArcRecords
    <3> QED
      BY <1>5, <3>1, SeqMonotonic
  <2>3. new_arcs' = Append(new_arcs, arc)
    BY <1>1, <1>2 DEF WithArc
  <2> HIDE DEF arc
  <2> QED
    BY <1>2, <1>5, <2>1, <2>2, <2>3
<1>12. /\ new_arcs'[new].source = from /\ new_arcs'[new].target = copy
       /\ new_arcs'[new].m_move = m_arcs[a].m_move
  BY <1>11
<1> HIDE DEF arc
<1>13. /\ stack' \in Seq(NodeIds) /\ Len(stack) \in Nat
       /\ \A i \in 1..Len(stack) : stack[i] \in NodeIds /\ stack'[i] = stack[i]
       /\ visited[child] = NoNode => /\ Len(stack') = Len(stack) + 1
                                     /\ stack'[Len(stack) + 1] = child
       /\ visited[child] # NoNode => stack' = stack
  <2>1. CASE visited[child] = NoNode
    <3>1. stack' = Append(stack, child)
      BY <1>1, <1>2, <2>1
    <3> QED
      BY <1>4, <1>5, <2>1, <3>1
  <2>2. CASE visited[child] # NoNode
    BY <1>1, <1>2, <1>5, <2>2
  <2> QED
    BY <2>1, <2>2
<1>14. out_arcs' = out_arcs \ {a} /\ out_arcs \subseteq ArcIds
  BY <1>1 DEF IInv, TypeOK
<1>15. TypeOK'
  <2>1. visited' \in [NodeIds -> {NoNode} \cup DOMAIN new_nodes']
    BY <1>4, <1>5, <1>6, <1>7
  <2> QED
    BY <1>0, <1>7, <1>8, <1>9, <1>11, <1>13, <1>14, <2>1 DEF IInv, TypeOK
<1>16. CopyStack'
  <2>1. \A i \in 1..Len(stack) : visited[stack[i]] # NoNode /\ stack[i] # parent
    BY <1>3 DEF CopyStack
  <2>2. \A i, j \in 1..Len(stack) : stack[i] = stack[j] => i = j
    BY <1>3 DEF CopyStack
  <2>3. visited'[parent] # NoNode
    BY <1>2, <1>4, <1>6
  <2>4. \A b \in out_arcs' : m_arcs'[b].source = parent'
    BY <1>0, <1>3, <1>14 DEF CopyStack
  <2>5. CASE visited[child] # NoNode
    BY <1>0, <1>6, <1>13, <2>1, <2>2, <2>3, <2>4, <2>5 DEF CopyStack
  <2>6. CASE visited[child] = NoNode
    <3>1. child # parent /\ \A i \in 1..Len(stack) : stack[i] # child
      BY <1>2, <1>4, <2>1, <2>6
    <3>2. \A i \in 1..Len(stack') : i \in 1..Len(stack) \/ i = Len(stack) + 1
      BY <1>13, <2>6
    <3>3. \A i \in 1..Len(stack') : visited'[stack'[i]] # NoNode /\ stack'[i] # parent'
      BY <1>0, <1>6, <1>13, <2>1, <2>6, <3>1, <3>2
    <3>4. \A i, j \in 1..Len(stack') : stack'[i] = stack'[j] => i = j
      BY <1>13, <2>2, <2>6, <3>1, <3>2
    <3> QED
      BY <1>0, <2>3, <2>4, <3>3, <3>4 DEF CopyStack
  <2> QED
    BY <2>5, <2>6
<1>17. CopyNodes'
  <2>1. \A n : Tried(n)' = Tried(n)
    BY <1>0, <1>9 DEF Tried, OutArcs
  <2>2. \A k \in DOMAIN new_nodes' : \E o \in NodeIds : visited'[o] = k
    <3>1. ASSUME NEW k \in DOMAIN new_nodes
          PROVE  \E o \in NodeIds : visited'[o] = k
      <4>1. PICK o \in NodeIds : visited[o] = k
        BY <1>3 DEF CopyNodes
      <4> QED
        BY <1>5, <1>6, <4>1 DEF NoNode
    <3> QED
      BY <1>4, <1>6, <1>7, <3>1
  <2>3. ASSUME NEW o \in NodeIds, visited'[o] # NoNode
        PROVE  /\ new_nodes'[visited'[o]].pos = m_nodes'[o].pos
               /\ new_nodes'[visited'[o]].m_visits = m_nodes'[o].m_visits
               /\ new_nodes'[visited'[o]].m_moves \cap Tried(o) = {}
               /\ new_nodes'[visited'[o]].m_moves \cup Tried(o) =
                     Offered(m_nodes'[o].pos)
    <3>1. CASE visited[o] # NoNode
      <4>1. /\ visited'[o] = visited[o] /\ visited[o] \in DOMAIN new_nodes
            /\ new_nodes'[visited'[o]] = new_nodes[visited[o]]
        BY <1>5, <1>6, <1>7, <3>1
      <4> QED
        BY <1>3, <1>8, <3>1, <4>1 DEF CopyNodes
    <3>2. CASE visited[o] = NoNode
      <4>1. o = child /\ visited'[o] = copy /\ new_nodes'[copy] = m_nodes[o]
        BY <1>6, <1>7, <2>3, <3>2
      <4>2. Accounted(o)
        BY <3>2 DEF IInv, Accounting
      <4> QED
        BY <1>8, <4>1, <4>2 DEF Accounted
    <3> QED
      BY <3>1, <3>2
  <2> QED
    BY <1>8, <2>1, <2>2, <2>3 DEF CopyNodes
<1>18. \A b \in ArcIds : m_arcs[b].source \in NodeIds /\ m_arcs[b].target \in NodeIds
  BY TreeFacts DEF IInv
<1>19. ASSUME NEW b \in ArcIds
       PROVE  Copied(b)' <=> b = a \/ Copied(b)
  <2>1. PICK o : o = m_arcs[b].source
    OBVIOUS
  <2>2. o \in NodeIds
    BY <1>18, <2>1
  <2>3. Copied(b) <=> /\ visited[o] # NoNode
                      /\ \A i \in 1..Len(stack) : stack[i] # o
                      /\ o = parent => b \notin out_arcs
    BY <2>1 DEF Copied
  <2>4. Copied(b)' <=> /\ visited'[o] # NoNode
                       /\ \A i \in 1..Len(stack') : stack'[i] # o
                       /\ o = parent => b \notin out_arcs \/ b = a
    BY <1>0, <1>14, <2>1 DEF Copied
  <2>5. (/\ visited'[o] # NoNode /\ \A i \in 1..Len(stack') : stack'[i] # o) <=>
        (/\ visited[o] # NoNode /\ \A i \in 1..Len(stack) : stack[i] # o)
    <3>1. CASE visited[child] # NoNode
      <4>1. stack' = stack
        BY <1>13, <3>1
      <4>2. visited'[o] = visited[o]
        BY <1>6, <2>2, <3>1
      <4> QED
        BY <4>1, <4>2
    <3>2. CASE visited[child] = NoNode /\ o = child
      <4>1. Len(stack) + 1 \in 1..Len(stack') /\ stack'[Len(stack) + 1] = o
        BY <1>13, <3>2
      <4> QED
        BY <3>2, <4>1
    <3>3. CASE visited[child] = NoNode /\ o # child
      <4>1. visited'[o] = visited[o]
        BY <1>6, <2>2, <3>3
      <4>2. \A i \in 1..Len(stack') : i \in 1..Len(stack) \/ i = Len(stack) + 1
        BY <1>13, <3>3
      <4>3. 1..Len(stack) \subseteq 1..Len(stack')
        BY <1>13, <3>3
      <4>4. stack'[Len(stack) + 1] # o
        BY <1>13, <3>3
      <4> QED
        BY <1>13, <4>1, <4>2, <4>3, <4>4
    <3> QED
      BY <3>1, <3>2, <3>3
  <2>6. b = a => /\ o = parent /\ visited[o] # NoNode
                 /\ \A i \in 1..Len(stack) : stack[i] # o
    BY <1>2, <1>3, <1>4, <2>1 DEF CopyStack
  <2> QED
    BY <2>3, <2>4, <2>5, <2>6
<1>20. ~ Copied(a)
  BY <1>1, <1>4 DEF Copied
<1>21. ASSUME NEW b \in ArcIds, NEW c \in DOMAIN new_arcs, CopyOf(b, c)
       PROVE  CopyOf(b, c)'
  <2>1. \A d \in DOMAIN new_arcs : /\ new_arcs[d].source \in DOMAIN new_nodes
                                   /\ new_arcs[d].target \in DOMAIN new_nodes
    <3>1. \A d \in DOMAIN new_arcs : new_arcs[d] \in ArcRecords(DOMAIN new_nodes)
      BY <1>5
    <3> QED
      BY <3>1 DEF ArcRecords
  <2>2. /\ visited[m_arcs[b].source] # NoNode /\ visited[m_arcs[b].target] # NoNode
    BY <1>5, <1>21, <2>1 DEF CopyOf, NoNode
  <2>3. /\ visited'[m_arcs[b].source] = visited[m_arcs[b].source]
        /\ visited'[m_arcs[b].target] = visited[m_arcs[b].target]
    BY <1>6, <1>18, <2>2
  <2> QED
    BY <1>0, <1>11, <1>21, <2>3 DEF CopyOf
<1>22. CopyOf(a, new)'
  <2>1. visited'[parent] = from /\ visited'[child] = copy
    BY <1>2, <1>4, <1>6
  <2> QED
    BY <1>0, <1>2, <1>4, <1>12, <2>1 DEF CopyOf
<1>23. CopyArcs'
  <2>1. ASSUME NEW b \in ArcIds', Copied(b)'
        PROVE  \E c \in DOMAIN new_arcs' : CopyOf(b, c)'
    BY <1>3, <1>9, <1>11, <1>19, <1>21, <1>22, <2>1 DEF CopyArcs
  <2>2. ASSUME NEW c \in DOMAIN new_arcs'
        PROVE  \E b \in ArcIds' : Copied(b)' /\ CopyOf(b, c)'
    <3>1. CASE c = new
      BY <1>4, <1>9, <1>19, <1>22, <3>1
    <3>2. CASE c \in DOMAIN new_arcs
      BY <1>3, <1>9, <1>19, <1>21, <3>2 DEF CopyArcs
    <3> QED
      BY <1>11, <3>1, <3>2
  <2>3. ASSUME NEW c \in DOMAIN new_arcs, new_arcs[c].source = from,
               new_arcs[c].m_move = m_arcs[a].m_move
        PROVE  FALSE
    <3>1. PICK b \in ArcIds : Copied(b) /\ CopyOf(b, c)
      BY <1>3 DEF CopyArcs
    <3>2. m_arcs[b].source = parent
      <4>1. visited[m_arcs[b].source] = visited[parent]
        BY <1>2, <2>3, <3>1 DEF CopyOf
      <4> QED
        BY <1>0, <1>2, <1>4, <1>18, <4>1, CopiesDiffer
    <3>3. m_arcs[b].m_move = m_arcs[a].m_move
      BY <2>3, <3>1 DEF CopyOf
    <3>4. b = a
      BY <1>4, <3>2, <3>3 DEF IInv, Accounting
    <3> QED
      BY <1>20, <3>1, <3>4
  <2>4. ASSUME NEW b \in DOMAIN new_arcs', NEW c \in DOMAIN new_arcs',
               new_arcs'[b].source = new_arcs'[c].source,
               new_arcs'[b].m_move = new_arcs'[c].m_move
        PROVE  b = c
    <3>1. CASE b \in DOMAIN new_arcs /\ c \in DOMAIN new_arcs
      BY <1>3, <1>11, <2>4, <3>1 DEF CopyArcs
    <3>2. CASE b \in DOMAIN new_arcs /\ c = new
      BY <1>11, <1>12, <2>3, <2>4, <3>2
    <3>3. CASE b = new /\ c \in DOMAIN new_arcs
      BY <1>11, <1>12, <2>3, <2>4, <3>3
    <3> QED
      BY <1>11, <3>1, <3>2, <3>3
  <2> QED
    BY <2>1, <2>2, <2>4 DEF CopyArcs
<1>24. CopyInv'
  <2>1. getNode(state.pos)' = getNode(state.pos)
    BY <1>0 DEF getNode
  <2>2. getNode(state.pos) \in NodeIds
    BY <1>3 DEF IInv, TypeOK, getNode
  <2>3. visited'[getNode(state.pos)'] = 1
    BY <1>3, <1>6, <2>1, <2>2 DEF NoNode
  <2> QED
    BY <1>0, <1>3, <1>16, <1>17, <1>23, <2>1, <2>3 DEF CopyInv
<1> QED
  BY <1>9, <1>15, <1>24 DEF IInv

\* Steps that change nothing.
LEMMA StutterStep == IInv /\ UNCHANGED vars => IInv'
<1> SUFFICES ASSUME IInv, UNCHANGED vars PROVE IInv'
  OBVIOUS
<1>0. UNCHANGED <<pc, state, m_nodes, m_arcs, root_node, m_transposition_table,
                  m_not_initialized, m_path, m_path_size, max_iterations, node,
                  search, sim_state, playouts, best_move, new_nodes, new_arcs,
                  visited, stack, parent, out_arcs>>
  BY DEF vars, tree, path, computing, pruning
<1>1. NodeIds' = NodeIds /\ ArcIds' = ArcIds /\ Links' = Links
  BY <1>0 DEF NodeIds, ArcIds, Links
<1>2. \A n : OutArcs(n)' = OutArcs(n) /\ Tried(n)' = Tried(n)
  BY <1>0, <1>1 DEF OutArcs, Tried
<1>3. TypeOK'
  BY <1>0, <1>1 DEF IInv, TypeOK
<1>4. WinnerKnown' /\ ObjectShape' /\ Phases' /\ Locals'
  BY <1>0, <1>1 DEF IInv, WinnerKnown, ObjectShape, Phases, Locals
<1>5. TableExact' /\ ArcsFollowGame'
  BY <1>0, <1>1 DEF IInv, TableExact, ArcsFollowGame
<1>6. Accounting'
  BY <1>0, <1>1, <1>2 DEF IInv, Accounting, Accounted
<1>7. RootIsState' /\ InSync' /\ RootTried' /\ TargetsVisited'
  BY <1>0, <1>1, <1>2 DEF IInv, RootIsState, getNode, InSync, RootTried,
     hasChildren, TargetsVisited
<1>8. PathFromRoot' /\ BestMoveLegal'
  BY <1>0, <1>1 DEF IInv, PathFromRoot, BestMoveLegal
<1>9. CopyInv'
  <2>1. getNode(state.pos)' = getNode(state.pos)
    BY <1>0 DEF getNode
  <2>2. CopyStack' <=> CopyStack
    BY <1>0, <1>1 DEF CopyStack
  <2>3. CopyNodes' <=> CopyNodes
    BY <1>0, <1>1, <1>2 DEF CopyNodes
  <2>4. CopyArcs' <=> CopyArcs
    BY <1>0, <1>1 DEF CopyArcs, Copied, CopyOf
  <2> QED
    BY <1>0, <2>1, <2>2, <2>3, <2>4 DEF IInv, CopyInv
<1> QED
  BY <1>3, <1>4, <1>5, <1>6, <1>7, <1>8, <1>9 DEF IInv

\* IInv is an invariant: every step of compute(), of the match loop, of prune()
\* and of reset() preserves it, for every game, number of iterations and number
\* of playouts.
THEOREM InductiveInvariant == Spec => []IInv
<1>1. Init => IInv
  BY InitInv
<1>2. IInv /\ [Next]_vars => IInv'
  BY ComputeStep, IterateStep, SelectStep, ExpandStep, LeafStep, SimulateStep,
     BackpropagateStep, GetBestMoveStep, PlayBestMoveStep, OpponentMoveStep,
     NextMatchStep, PruneUnknownStep, PruneRootStep, PrunePopStep, PruneArcStep,
     PruneSwapStep, ResetStep, StutterStep DEF Next
<1> QED
  BY <1>1, <1>2, PTL DEF Spec

-----------------------------------------------------------------------------
(* What follows from it.                                                   *)

\* Ids never dangle: whatever compute(), prune() and reset() do, those that the
\* arcs, the table, the path and prune_impl()'s scratch data hold are in range.
THEOREM TypeCorrect == Spec => []TypeOK
<1>1. IInv => TypeOK
  BY DEF IInv
<1> QED
  BY <1>1, InductiveInvariant, PTL

\* The transposition table is a bijection between the positions it holds and
\* the nodes of the tree, before, during and after a prune() and a reset().
THEOREM TableStaysExact == Spec => []TableExact
<1>1. IInv => TableExact
  BY DEF IInv
<1> QED
  BY <1>1, InductiveInvariant, PTL

\* Every arc of the tree is a move of the game, also after addChild() has linked
\* a transposition and prune_impl() has renumbered the nodes.
THEOREM TreeFollowsGame == Spec => []ArcsFollowGame
<1>1. IInv => ArcsFollowGame
  BY DEF IInv
<1> QED
  BY <1>1, InductiveInvariant, PTL

\* No move of a node is lost or tried twice, across searches and prunes.
THEOREM MovesAccounted == Spec => []MoveAccounting
<1>1. IInv => MoveAccounting
  BY DEF IInv, Accounting, Accounted, MoveAccounting, OutArcs
<1> QED
  BY <1>1, InductiveInvariant, PTL

\* The State copy and the node of the selection loop stay in step.
THEOREM SelectionInSync == Spec => []InSync
<1>1. IInv => InSync
  BY DEF IInv
<1> QED
  BY <1>1, InductiveInvariant, PTL

\* compute() on an initialized object starts where the match is.
THEOREM SearchStartsAtState == Spec => []RootIsState
<1>1. IInv => RootIsState
  BY DEF IInv
<1> QED
  BY <1>1, InductiveInvariant, PTL

\* getUCTFromNode() never divides by zero visits.
THEOREM UCTDefined == Spec => []ChildrenVisited
<1>1. IInv => ChildrenVisited
  BY DEF IInv, TargetsVisited, ChildrenVisited, OutArcs
<1> QED
  BY <1>1, InductiveInvariant, PTL

\* What backpropagation scores is the chain of arcs from the root to the node
\* that the iteration has reached.
THEOREM PathIsChain == Spec => []PathFromRoot
<1>1. IInv => PathFromRoot
  BY DEF IInv
<1> QED
  BY <1>1, InductiveInvariant, PTL

\* compute() returns a move the match offers, never Move::none.
THEOREM MoveIsLegal == Spec => []BestMoveLegal
<1>1. IInv => BestMoveLegal
  BY DEF IInv
<1> QED
  BY <1>1, InductiveInvariant, PTL

\* The safety part of PlaysLegally: main's State makes the steps of LegalPlay (a
\* legal move of an unfinished match, a new match after a finished one) and no
\* other.  main makes compute()'s move without a test (main.cpp:66-67); that it
\* is legal is BestMovePlayed, the invariant's account of the inherited tree.
THEOREM MatchRefinesLegalPlay ==
    Spec => LegalMatch!Init /\ [][LegalMatch!Next]_state
<1>0. /\ LegalMatch!invalid = invalid
      /\ \A st : LegalMatch!moves(st) = moves(st)
      /\ \A st, m : LegalMatch!move_hash_winner(st, m) = move_hash_winner(st, m)
  BY DEF LegalMatch!invalid, invalid, LegalMatch!moves, moves,
     LegalMatch!occupied, occupied, LegalMatch!move_hash_winner, move_hash_winner
<1>1. Init => LegalMatch!Init
  BY <1>0 DEF Init, LegalMatch!Init, NewMatch, LegalMatch!NewMatch
<1>2. IInv /\ [Next]_vars => [LegalMatch!Next]_state
  <2> SUFFICES ASSUME IInv, [Next]_vars PROVE [LegalMatch!Next]_state
    OBVIOUS
  <2>1. CASE PlayBestMove
    BY <1>0, <2>1, BestMovePlayed DEF LegalMatch!Next, LegalMatch!MakeMove
  <2>2. CASE OpponentMove
    BY <1>0, <2>2 DEF OpponentMove, LegalMatch!Next, LegalMatch!MakeMove
  <2>3. CASE NextMatch
    BY <1>0, <2>3 DEF NextMatch, ended, NewMatch, LegalMatch!Next,
       LegalMatch!StartAgain, LegalMatch!NewMatch
  <2>4. CASE UNCHANGED state
    BY <2>4
  <2>5. \/ PlayBestMove \/ OpponentMove \/ NextMatch \/ UNCHANGED state
    BY DEF Next, Compute, Iterate, Select, Expand, Leaf, Simulate, Backpropagate,
       GetBestMove, PruneUnknown, PruneRoot, PrunePop, PruneArc, PruneSwap,
       Reset, vars
  <2> QED
    BY <2>1, <2>2, <2>3, <2>4, <2>5
<1> QED
  BY <1>1, <1>2, InductiveInvariant, PTL DEF Spec


-----------------------------------------------------------------------------
(* A playout counts once: the path goes down in depth.                     *)

\* A legal move lowers the depth.
LEMMA DepthFalls ==
    ASSUME NEW p \in Positions, NEW m \in legal[p]
    PROVE  /\ depth[p] \in Nat /\ depth[play[<<p, m>>]] \in Nat
           /\ depth[play[<<p, m>>]] < depth[p]
<1>1. play[<<p, m>>] \in Positions /\ <<p, m>> \in PlayedMoves
  BY PlayFacts DEF PlayedMoves
<1> QED
  BY <1>1, GameTypes, GameRules

\* So does an arc of the tree.
LEMMA ArcFalls ==
    ASSUME IInv, NEW a \in ArcIds
    PROVE  depth[m_nodes[m_arcs[a].target].pos] < depth[m_nodes[m_arcs[a].source].pos]
<1> DEFINE from == m_nodes[m_arcs[a].source].pos
<1>1. from \in Positions
  BY TreeFacts DEF IInv
<1>2. /\ m_arcs[a].m_move \in Offered(from)
      /\ play[<<from, m_arcs[a].m_move>>] = m_nodes[m_arcs[a].target].pos
  BY DEF IInv, ArcsFollowGame
<1>3. m_arcs[a].m_move \in legal[from]
  BY <1>2 DEF Offered, moves
<1> QED
  BY <1>1, <1>2, <1>3, DepthFalls

\* The depths along the path are numbers.
LEMMA LineFacts ==
    ASSUME TypeOK
    PROVE  /\ Line \in [1..Len(m_path) -> Nat] /\ Len(m_path) \in Nat
           /\ \A i \in 1..Len(m_path) : /\ m_path[i].target \in NodeIds
                                        /\ Line[i] = depth[m_nodes[m_path[i].target].pos]
<1>1. \A i \in 1..Len(m_path) : /\ m_path[i].target \in NodeIds
                                /\ depth[m_nodes[m_path[i].target].pos] \in Nat
  BY TreeFacts, GameTypes
<1> QED
  BY <1>1, TreeFacts DEF Line

\* No node of the tree changes its position.
SamePositions ==
    \A n \in NodeIds : m_nodes'[n].pos = m_nodes[n].pos

\* Every variable that the path depends on is left alone.
LEMMA LineKept ==
    ASSUME IInv, SamePositions, UNCHANGED m_path
    PROVE  Line' = Line /\ Len(m_path') = Len(m_path)
BY LineFacts DEF IInv, SamePositions, Line

\* Nothing is said of a path of one link.
LEMMA ShortLine ==
    ASSUME Len(m_path') \in {0, 1}
    PROVE  LineInv'
<1>1. \A k \in {0, 1} : ~ (k >= 2) /\ \A i : i \notin 2..k
  OBVIOUS
<1>2. ~ (Len(m_path') >= 2) /\ \A i : i \notin 2..Len(m_path')
  BY <1>1
<1> QED
  BY <1>2 DEF LineInv

\* A link to a deeper position may be pushed on the path.
LEMMA LineExtended ==
    ASSUME IInv, LineInv, SamePositions, NEW n, NEW a,
           m_path' = Append(m_path, [arc |-> a, target |-> n]),
           depth[m_nodes'[n].pos] \in Nat,
           Len(m_path) >= 2 => depth[m_nodes'[n].pos] < Line[Len(m_path)]
    PROVE  /\ \A i, j \in 2..Len(m_path') : i < j => Line'[i] > Line'[j]
           /\ Len(m_path') = Len(m_path) + 1
           /\ Line'[Len(m_path')] = depth[m_nodes'[n].pos]
<1> DEFINE k == Len(m_path)
           d == depth[m_nodes'[n].pos]
<1>1. /\ k \in Nat /\ m_path \in Seq(Links) /\ Line \in [1..k -> Nat]
      /\ \A i \in 1..k : /\ m_path[i].target \in NodeIds
                         /\ Line[i] = depth[m_nodes[m_path[i].target].pos]
  BY LineFacts DEF IInv, TypeOK
<1>2. /\ Len(m_path') = k + 1 /\ m_path'[k + 1].target = n
      /\ \A i \in 1..k : m_path'[i] = m_path[i]
  BY <1>1
<1>3. \A i \in 1..(k + 1) : Line'[i] = IF i = k + 1 THEN d ELSE Line[i]
  <2>1. \A i \in 1..(k + 1) : Line'[i] = depth[m_nodes'[m_path'[i].target].pos]
    BY <1>2 DEF Line
  <2>2. \A i \in 1..(k + 1) : i = k + 1 \/ i \in 1..k
    BY <1>1
  <2> QED
    BY <1>1, <1>2, <2>1, <2>2 DEF SamePositions
<1>4. \A i, j \in 2..k : i < j => Line[i] > Line[j]
  BY DEF LineInv
<1>5. d \in Nat /\ (k >= 2 => d < Line[k])
  OBVIOUS
<1> HIDE DEF k, d
<1>6. ASSUME NEW i \in 2..(k + 1), NEW j \in 2..(k + 1), i < j
      PROVE  Line'[i] > Line'[j]
  <2>1. i \in 2..k /\ i \in 1..k /\ Line[i] \in Nat /\ Line'[i] = Line[i]
    BY <1>1, <1>3, <1>6
  <2>2. CASE j = k + 1
    <3>1. k \in 2..k /\ k \in 1..k /\ Line[k] \in Nat
      BY <1>1, <2>1
    <3>2. Line[i] >= Line[k]
      BY <1>1, <1>4, <2>1, <3>1, SMTT(30)
    <3> QED
      BY <1>3, <1>5, <2>1, <2>2, <3>1, <3>2
  <2>3. CASE j # k + 1
    <3>1. j \in 2..k /\ Line'[j] = Line[j]
      BY <1>1, <1>3, <2>3
    <3> QED
      BY <1>4, <1>6, <2>1, <3>1
  <2> QED
    BY <2>2, <2>3
<1> QED
  BY <1>1, <1>2, <1>3, <1>6 DEF k, d

\* In the middle of compute() only the path itself matters.
LEMMA SearchLine ==
    ASSUME \A i, j \in 2..Len(m_path') : i < j => Line'[i] > Line'[j],
           pc' \in {"search", "select", "playout"}
    PROVE  LineInv'
BY DEF LineInv

\* Backpropagation leaves the positions alone, and the path or its beginning.
LEMMA BackpropagateLine ==
    ASSUME IInv, LineInv, Backpropagate
    PROVE  LineInv'
<1>1. /\ pc = "playout" /\ pc' \in {"playout", "search"} /\ m_nodes' = UpdatedNodes
      /\ m_path' = m_path \/ m_path' = SubSeq(m_path, 1, m_path_size)
  BY DEF Backpropagate, KeptPath
<1>2. SamePositions
  BY <1>1, UpdatedNodesFacts DEF SamePositions
<1>3. CASE m_path' = m_path
  BY <1>1, <1>2, <1>3, LineKept, SearchLine DEF LineInv
<1>4. CASE m_path' = SubSeq(m_path, 1, m_path_size)
  <2> DEFINE k == m_path_size
  <2>1. k \in 1..Len(m_path) /\ Len(m_path) \in Nat /\ m_path \in Seq(Links)
    BY <1>1, TreeFacts DEF IInv, PathFromRoot, TypeOK
  <2>2. Len(m_path') = k /\ \A i \in 1..k : m_path'[i] = m_path[i]
    BY <1>4, <2>1, SubSeqProperties
  <2>3. \A i \in 1..k : i \in 1..Len(m_path) /\ m_path[i].target \in NodeIds
                        /\ Line[i] = depth[m_nodes[m_path[i].target].pos]
    BY <2>1, LineFacts DEF IInv
  <2>4. \A i \in 1..k : Line'[i] = Line[i]
    BY <1>2, <2>2, <2>3, ZenonT(30) DEF Line, SamePositions
  <2>5. \A i, j \in 2..k : /\ i \in 1..k /\ j \in 1..k
                           /\ i \in 2..Len(m_path) /\ j \in 2..Len(m_path)
    BY <2>1
  <2> HIDE DEF k
  <2>6. \A i, j \in 2..Len(m_path') : i < j => Line'[i] > Line'[j]
    BY <2>2, <2>4, <2>5 DEF LineInv
  <2> QED
    BY <1>1, <2>6, SearchLine
<1> QED
  BY <1>1, <1>3, <1>4

\* Selection and expansion push the end of an arc out of the last node.
LEMMA SelectLine ==
    ASSUME IInv, LineInv, Select \/ Expand
    PROVE  LineInv'
<1>1. /\ pc = "select" /\ pc' \in {"select", "playout"} /\ node \in NodeIds
      /\ m_path[Len(m_path)].target = node /\ Len(m_path) \in Nat \ {0}
  BY TreeFacts DEF IInv, InSync, PathFromRoot, Select, Expand, StartPlayouts
<1>2. Line[Len(m_path)] = depth[m_nodes[node].pos]
  BY <1>1, LineFacts DEF IInv
<1>3. CASE Select
  <2>1. PICK a \in OutArcs(node) :
           m_path' = Append(m_path, [arc |-> a, target |-> m_arcs[a].target])
    BY <1>3 DEF Select
  <2>2. m_nodes' = m_nodes
    BY <1>3 DEF Select, tree
  <2>3. /\ a \in ArcIds /\ m_arcs[a].source = node /\ m_arcs[a].target \in NodeIds
        /\ m_nodes[m_arcs[a].target].pos \in Positions
    BY <2>1, TreeFacts DEF IInv, OutArcs
  <2>4. /\ depth[m_nodes'[m_arcs[a].target].pos] \in Nat
        /\ depth[m_nodes'[m_arcs[a].target].pos] < Line[Len(m_path)]
    BY <1>2, <2>2, <2>3, ArcFalls, GameTypes
  <2>5. SamePositions
    BY <2>2 DEF SamePositions
  <2> QED
    BY <1>1, <2>1, <2>4, <2>5, LineExtended, SearchLine
<1>4. CASE Expand
  <2>1. PICK m \in m_nodes[node].m_moves :
           AddChild(node, m, move_hash_winner(search, m), Drawn(node, m))
    BY <1>4 DEF Expand
  <2> PICK to : to = move_hash_winner(search, m)
    OBVIOUS
  <2>a. pc = "select" /\ AddChild(node, m, to, Drawn(node, m))
    BY <1>1, <2>1
  <2>2. /\ to.pos = play[<<m_nodes[node].pos, m>>] /\ m_nodes'[node'].pos = to.pos
        /\ m \in Offered(m_nodes[node].pos)
        /\ m_path' = Append(m_path, [arc |-> Len(m_arcs) + 1, target |-> node'])
        /\ \A n \in NodeIds : m_nodes'[n].pos = m_nodes[n].pos
    BY <2>a, ExpandFacts
  <2>3. m \in legal[m_nodes[node].pos] /\ m_nodes[node].pos \in Positions
    BY <1>1, <2>2, TreeFacts DEF IInv, Offered, moves
  <2>4. /\ depth[m_nodes'[node'].pos] \in Nat
        /\ depth[m_nodes'[node'].pos] < Line[Len(m_path)]
    BY <1>2, <2>2, <2>3, DepthFalls
  <2>5. SamePositions
    BY <2>2 DEF SamePositions
  <2> QED
    BY <1>1, <2>2, <2>4, <2>5, LineExtended, SearchLine
<1> QED
  BY <1>3, <1>4

\* compute() pushes the root, which is below the end of the path.
LEMMA ComputeLine ==
    ASSUME IInv, LineInv, Compute
    PROVE  LineInv'
<1>1. /\ pc = "main" /\ pc' = "search" /\ playerToMove(state) = Self
      /\ state.winner = invalid /\ state \in States /\ WinnerKnown /\ state' = state
  BY DEF Compute, IInv, TypeOK
<1>2. CASE m_not_initialized
  <2>1. InitializedWith(state)
    BY <1>2 DEF Compute
  <2>2. Len(m_path') = 1
    BY <1>1, <2>1, InitializedFacts
  <2> QED
    BY <2>2, ShortLine
<1>3. CASE ~ m_not_initialized
  <2>1. /\ \E link \in LinksTo(m_path[Len(m_path)].target, getNode(state.pos)) :
              m_path' = Append(m_path, link)
        /\ m_nodes' = m_nodes
    BY <1>3 DEF Compute, ConnectStatesPath, tree
  <2>2. getNode(state.pos) = root_node /\ root_node \in NodeIds
    BY <1>1, <1>3 DEF IInv, RootIsState, ObjectShape
  <2>3. m_nodes[root_node].pos = state.pos
    BY <2>2, TreeFacts, SMTT(30) DEF IInv, getNode, TableExact
  <2>4. PICK a : m_path' = Append(m_path, [arc |-> a, target |-> root_node])
    BY <2>1, <2>2 DEF LinksTo
  <2>5. /\ depth[m_nodes'[root_node].pos] \in Nat
        /\ Len(m_path) >= 2 => depth[m_nodes'[root_node].pos] < Line[Len(m_path)]
    <3>1. depth[state.pos] \in Nat
      BY <1>1, GameTypes DEF States
    <3>2. Len(m_path) >= 2 => Line[Len(m_path)] > depth[state.pos]
      BY <1>1 DEF LineInv
    <3>3. Len(m_path) >= 2 => Line[Len(m_path)] \in Nat
      BY LineFacts DEF IInv
    <3> QED
      BY <2>1, <2>3, <3>1, <3>2, <3>3
  <2>6. SamePositions
    BY <2>1 DEF SamePositions
  <2> QED
    BY <1>1, <2>4, <2>5, <2>6, LineExtended, SearchLine
<1> QED
  BY <1>2, <1>3

\* getBestMove() pushes the child to which the match will move.
LEMMA BestMoveLine ==
    ASSUME IInv, LineInv, GetBestMove
    PROVE  LineInv'
<1>1. /\ pc = "search" /\ pc' = "play" /\ max_iterations = 0 /\ state' = state
      /\ m_nodes' = m_nodes
  BY DEF GetBestMove, tree
<1>2. BestArcs # {} /\ BestArcs \subseteq OutArcs(root_node)
  <2>1. hasChildren(root_node)
    BY <1>1, SearchAssumption DEF IInv, RootTried
  <2> QED
    BY <2>1, BestArcsFacts
<1>3. PICK a \in BestArcs :
         /\ best_move' = IF a = NoArc THEN NoMove ELSE m_arcs[a].m_move
         /\ m_path' = Append(m_path, [arc |-> a, target |->
                         IF a = NoArc THEN NoNode ELSE m_arcs[a].target])
  BY <1>2 DEF GetBestMove
<1>4. /\ a \in ArcIds /\ a # NoArc /\ m_arcs[a].source = root_node
      /\ m_arcs[a].target \in NodeIds /\ m_nodes[m_arcs[a].target].pos \in Positions
  BY <1>2, <1>3, TreeFacts DEF IInv, OutArcs, NoArc
<1>5. /\ m_path' = Append(m_path, [arc |-> a, target |-> m_arcs[a].target])
      /\ best_move' = m_arcs[a].m_move
  BY <1>3, <1>4
<1>6. /\ Len(m_path) \in Nat \ {0} /\ m_path[Len(m_path)].target = root_node
      /\ m_nodes[root_node].pos = state.pos
  BY <1>1, TreeFacts, RootFacts DEF IInv, PathFromRoot
<1>7. Line[Len(m_path)] = depth[m_nodes[root_node].pos]
  BY <1>6, LineFacts DEF IInv
<1>8. /\ depth[m_nodes'[m_arcs[a].target].pos] \in Nat
      /\ depth[m_nodes'[m_arcs[a].target].pos] < Line[Len(m_path)]
  BY <1>1, <1>4, <1>7, ArcFalls, GameTypes
<1>9. SamePositions
  BY <1>1 DEF SamePositions
<1>10. /\ \A i, j \in 2..Len(m_path') : i < j => Line'[i] > Line'[j]
       /\ Line'[Len(m_path')] = depth[m_nodes'[m_arcs[a].target].pos]
  BY <1>5, <1>8, <1>9, LineExtended
<1>11. m_nodes[m_arcs[a].target].pos = play[<<state.pos, best_move'>>]
  BY <1>4, <1>5, <1>6 DEF IInv, ArcsFollowGame
<1> QED
  BY <1>1, <1>8, <1>10, <1>11 DEF LineInv

\* The match goes on below the end of the path.
LEMMA MatchLine ==
    ASSUME IInv, LineInv, PlayBestMove \/ OpponentMove
    PROVE  LineInv'
<1>1. /\ m_nodes' = m_nodes /\ m_path' = m_path /\ pc' \in {"main", "prune", "reset"}
      /\ state.winner = invalid /\ state \in States /\ state.pos \in Positions
  <2>1. /\ m_nodes' = m_nodes /\ m_path' = m_path /\ state.winner = invalid
        /\ pc' \in {"main", "prune", "reset"}
    BY BestMovePlayed, SearchAssumption DEF PlayBestMove, OpponentMove, tree, path
  <2> QED
    BY <2>1 DEF IInv, TypeOK, States
<1>2. PICK m \in moves(state) :
         /\ state' = move_hash_winner(state, m)
         /\ pc = "play" => m = best_move
         /\ \/ pc = "play" /\ playerToMove(state) = Self
            \/ pc = "main" /\ playerToMove(state) # Self
  <2>1. CASE PlayBestMove
    BY <2>1, BestMovePlayed DEF PlayBestMove, IInv, Phases
  <2>2. CASE OpponentMove
    BY <2>2 DEF OpponentMove
  <2> QED
    BY <2>1, <2>2
<1>3. /\ state' \in States /\ playerToMove(state)' = opponent(playerToMove(state))
  BY <1>1, <1>2, MatchMoveFacts
<1>4. m \in legal[state.pos] /\ state'.pos = play[<<state.pos, m>>]
  BY <1>1, <1>2, MovesFacts, MoveHashWinnerFacts
<1>5. /\ depth[state.pos] \in Nat /\ depth[state'.pos] \in Nat
      /\ depth[state'.pos] < depth[state.pos]
  BY <1>1, <1>4, DepthFalls
<1>6. Line' = Line /\ Len(m_path') = Len(m_path)
  BY <1>1, LineKept DEF SamePositions
<1>7. Len(m_path) >= 2 => Line[Len(m_path)] \in Nat
  BY LineFacts DEF IInv
<1>8. \A i, j \in 2..Len(m_path') : i < j => Line'[i] > Line'[j]
  BY <1>6 DEF LineInv
<1>9. ASSUME Len(m_path') >= 2
      PROVE  /\ Line'[Len(m_path')] >= depth[state'.pos]
             /\ playerToMove(state)' = Self => Line'[Len(m_path')] > depth[state'.pos]
  <2>1. CASE pc = "play"
    <3>1. Line[Len(m_path)] >= depth[state'.pos]
      BY <1>2, <1>4, <1>6, <1>9, <2>1 DEF LineInv
    <3>2. playerToMove(state)' # Self
      BY <1>2, <1>3, <2>1, PlayerFacts, SearchAssumption
    <3> QED
      BY <1>6, <3>1, <3>2
  <2>2. CASE pc = "main"
    BY <1>2, <1>5, <1>6, <1>7, <1>9, <2>2 DEF LineInv
  <2> QED
    BY <1>2, <2>1, <2>2
<1> QED
  BY <1>1, <1>8, <1>9 DEF LineInv

\* prune() and reset() keep the path or begin a new one.
LEMMA UpkeepLine ==
    ASSUME IInv, LineInv,
           \/ PruneUnknown \/ PruneRoot \/ PrunePop \/ PruneArc \/ PruneSwap
           \/ Reset \/ NextMatch
    PROVE  LineInv'
<1>1. ASSUME UNCHANGED <<state, m_path>>, SamePositions,
             pc \in {"prune", "copy", "reset"}, pc' \in {"main", "copy"}
      PROVE  LineInv'
  <2>1. Line' = Line /\ Len(m_path') = Len(m_path)
    BY <1>1, LineKept
  <2> QED
    BY <1>1, <2>1 DEF LineInv, playerToMove
<1>2. CASE PruneUnknown \/ NextMatch
  <2>1. Len(m_path') = 0
    BY <1>2 DEF PruneUnknown, NextMatch, FreshObject
  <2> QED
    BY <2>1, ShortLine
<1>3. CASE PruneSwap
  <2>1. Len(m_path') = 1
    BY <1>3 DEF PruneSwap
  <2> QED
    BY <2>1, ShortLine
<1>4. CASE PruneRoot
  <2>1. /\ pc = "prune" /\ pc' = "copy" /\ UNCHANGED <<state, m_path>>
        /\ m_nodes' = MovedFrom(getNode(state.pos)) /\ getNode(state.pos) \in NodeIds
    BY <1>4 DEF PruneRoot, path, Known, IInv, TypeOK, getNode
  <2>2. SamePositions
    BY <2>1, MovedFromFacts DEF SamePositions
  <2> QED
    BY <1>1, <2>1, <2>2
<1>5. CASE PrunePop
  <2>1. pc = "copy" /\ pc' = "copy" /\ UNCHANGED <<state, m_path, m_nodes>>
    BY <1>5 DEF PrunePop, tree, path
  <2> QED
    BY <1>1, <2>1 DEF SamePositions
<1>6. CASE PruneArc
  <2>1. PICK a \in out_arcs :
           m_nodes' = MovedFrom(m_arcs[a].target) \/ m_nodes' = m_nodes
    BY <1>6 DEF PruneArc
  <2>2. m_arcs[a].target \in NodeIds
    BY <2>1, TreeFacts DEF IInv, TypeOK
  <2>3. SamePositions
    BY <2>1, <2>2, MovedFromFacts DEF SamePositions
  <2>4. pc = "copy" /\ pc' = "copy" /\ UNCHANGED <<state, m_path>>
    BY <1>6 DEF PruneArc, path
  <2> QED
    BY <1>1, <2>3, <2>4
<1>7. CASE Reset
  <2>1. /\ pc = "reset" /\ pc' = "main" /\ state' = state
        /\ InitializedWith(state) \/ UNCHANGED <<m_nodes, m_path>>
    BY <1>7 DEF Reset, tree, path
  <2>2. CASE InitializedWith(state)
    <3>1. Len(m_path') = 1
      BY <2>2 DEF InitializedWith
    <3> QED
      BY <3>1, ShortLine
  <2>3. CASE UNCHANGED <<m_nodes, m_path>>
    BY <1>1, <2>1, <2>3 DEF SamePositions
  <2> QED
    BY <2>1, <2>2, <2>3
<1> QED
  BY <1>2, <1>3, <1>4, <1>5, <1>6, <1>7

\* Every step keeps the path going down.
LEMMA LineStepped == IInv /\ LineInv /\ [Next]_vars => LineInv'
<1> SUFFICES ASSUME IInv, LineInv, [Next]_vars PROVE LineInv'
  OBVIOUS
<1>1. CASE Iterate \/ Leaf \/ Simulate
  <2>1. m_nodes' = m_nodes /\ m_path' = m_path /\ pc' \in {"search", "select", "playout"}
    BY <1>1 DEF Iterate, Leaf, Simulate, StartPlayouts, tree, path
  <2>2. Line' = Line /\ Len(m_path') = Len(m_path)
    BY <2>1, LineKept DEF SamePositions
  <2>3. \A i, j \in 2..Len(m_path') : i < j => Line'[i] > Line'[j]
    BY <2>2 DEF LineInv
  <2> QED
    BY <2>1, <2>3, SearchLine
<1>2. CASE UNCHANGED vars
  <2>1. UNCHANGED <<pc, state, m_nodes, m_path, best_move>>
    BY <1>2 DEF vars, tree, path, computing
  <2>2. Line' = Line
    BY <2>1, LineKept DEF SamePositions
  <2> QED
    BY <2>1, <2>2 DEF LineInv, playerToMove
<1> QED
  BY <1>1, <1>2, BackpropagateLine, SelectLine, ComputeLine, BestMoveLine, MatchLine,
     UpkeepLine DEF Next

\* A set without two elements.
LEMMA AtMostOne ==
    ASSUME NEW S, \A i, j \in S : i = j
    PROVE  IsFiniteSet(S) /\ Cardinality(S) \in {0, 1}
<1>1. CASE S = {}
  BY <1>1, FS_EmptySet
<1>2. CASE S # {}
  <2>1. PICK x : S = {x}
    BY <1>2
  <2> QED
    BY <2>1, FS_Singleton
<1> QED
  BY <1>1, <1>2

\* A playout counts once in every node of the line that was played and searched,
\* and at most twice in the first (connectStatesPath() after prune()), however
\* long the match and whichever of prune() and reset() keeps the object.
THEOREM PlayoutsCountOnce == Spec => []PlayoutCounts
<1>1. Init => LineInv
  BY DEF Init, LineInv
<1>2. ASSUME IInv, LineInv PROVE PlayoutCounts
  <2> SUFFICES ASSUME NEW n \in NodeIds
               PROVE  Occurrences(n) <= IF n = m_path[1].target THEN 2 ELSE 1
    BY DEF PlayoutCounts
  <2> DEFINE Hits == {i \in 1..Len(m_path) : m_path[i].target = n}
             Later == Hits \ {1}
  <2>1. \A i, j \in Later : i = j
    <3> SUFFICES ASSUME NEW i \in Later, NEW j \in Later, i < j PROVE FALSE
      BY LineFacts DEF IInv
    <3>1. /\ i \in 2..Len(m_path) /\ j \in 2..Len(m_path)
          /\ Line[i] = Line[j] /\ Line[i] \in Nat
      BY <1>2, LineFacts DEF IInv
    <3> QED
      BY <1>2, <3>1 DEF LineInv
  <2>2. Occurrences(n) = Cardinality(Hits)
    BY DEF Occurrences
  <2>3. Hits = Later \/ Hits = Later \cup {1}
    OBVIOUS
  <2>4. n # m_path[1].target => Hits = Later
    OBVIOUS
  <2> HIDE DEF Hits, Later
  <2>5. IsFiniteSet(Later) /\ Cardinality(Later) \in {0, 1}
    BY <2>1, AtMostOne
  <2>6. Cardinality(Later \cup {1}) <= 2
    BY <2>5, FS_AddElement
  <2> QED
    BY <2>2, <2>3, <2>4, <2>5, <2>6
<1> QED
  BY <1>1, <1>2, LineStepped, InductiveInvariant, PTL DEF Spec

-----------------------------------------------------------------------------
(* prune() keeps exactly what follows the state's position.                *)

\* The step that copies an arc: a node has its data and a way to it as soon as
\* it is copied.
LEMMA PruneArcKeeps ==
    ASSUME IInv, KeepInv, PruneArc
    PROVE  KeepInv'
<1>1. PICK a \in out_arcs :
        LET child == m_arcs[a].target
            fresh == visited[child] = NoNode
            copy  == IF fresh THEN Len(new_nodes) + 1 ELSE visited[child]
        IN  /\ new_nodes' = IF fresh THEN Append(new_nodes, m_nodes[child]) ELSE new_nodes
            /\ m_nodes' = IF fresh THEN MovedFrom(child) ELSE m_nodes
            /\ visited' = [visited EXCEPT ![child] = copy]
  BY DEF PruneArc
<1> DEFINE child == m_arcs[a].target
           fresh == visited[child] = NoNode
           copy  == IF fresh THEN Len(new_nodes) + 1 ELSE visited[child]
<1>2. /\ new_nodes' = IF fresh THEN Append(new_nodes, m_nodes[child]) ELSE new_nodes
      /\ m_nodes' = IF fresh THEN MovedFrom(child) ELSE m_nodes
      /\ visited' = [visited EXCEPT ![child] = copy]
  BY <1>1, Zenon
<1>3. /\ pc = "copy" /\ pc' = "copy" /\ m_arcs' = m_arcs /\ state' = state
      /\ m_transposition_table' = m_transposition_table
  BY DEF PruneArc
<1>4. /\ a \in ArcIds /\ child \in NodeIds /\ m_arcs[a].source = parent
      /\ parent \in NodeIds /\ visited[parent] # NoNode
  <2>1. /\ a \in ArcIds /\ child \in NodeIds /\ m_arcs[a].source \in NodeIds
        /\ m_arcs[a].source = parent /\ NoNode \notin NodeIds
    BY <1>1, <1>3, TreeFacts DEF IInv, TypeOK, CopyInv, CopyStack
  <2> QED
    BY <1>3, <2>1 DEF IInv, CopyInv, CopyStack
<1>5. /\ visited \in [NodeIds -> {NoNode} \cup DOMAIN new_nodes]
      /\ new_nodes \in Seq(NodeRecords) /\ m_nodes[child] \in NodeRecords
  BY <1>3, <1>4, TreeFacts DEF IInv, TypeOK
<1>6. /\ Len(new_nodes) \in Nat /\ DOMAIN new_nodes = 1..Len(new_nodes)
      /\ copy # NoNode
  BY <1>5 DEF NoNode
<1>7. /\ \A k \in DOMAIN new_nodes : new_nodes'[k] = new_nodes[k]
      /\ fresh => new_nodes'[copy] = m_nodes[child]
  BY <1>2, <1>5, <1>6
<1> HIDE DEF copy, child, fresh
<1>8. \A o \in NodeIds : visited'[o] = IF o = child THEN copy ELSE visited[o]
  BY <1>2, <1>4, <1>5
<1>9. /\ NodeIds' = NodeIds
      /\ \A o \in NodeIds : Statistics(m_nodes'[o]) = Statistics(m_nodes[o])
  BY <1>2, <1>4, MovedFromFacts DEF NodeIds
<1>10. ASSUME NEW o \in NodeIds, visited'[o] # NoNode
       PROVE  /\ Statistics(new_nodes'[visited'[o]]) = Statistics(m_nodes'[o])
              /\ \/ o = getNode(state.pos)
                 \/ \E b \in ArcIds : m_arcs[b].target = o /\ visited'[m_arcs[b].source] # NoNode
  <2>1. CASE o = child /\ fresh
    <3>1. Statistics(new_nodes'[visited'[o]]) = Statistics(m_nodes'[o])
      BY <1>7, <1>8, <1>9, <2>1
    <3>2. m_arcs[a].target = o /\ visited'[m_arcs[a].source] # NoNode
      BY <1>4, <1>6, <1>8, <2>1 DEF child
    <3> QED
      BY <1>4, <3>1, <3>2
  <2>2. CASE ~ (o = child /\ fresh)
    <3>1. visited'[o] = visited[o] /\ visited[o] \in DOMAIN new_nodes
      BY <1>5, <1>8, <1>10, <2>2 DEF copy
    <3>2. /\ Statistics(new_nodes[visited[o]]) = Statistics(m_nodes[o])
          /\ \/ o = getNode(state.pos)
             \/ \E b \in ArcIds : m_arcs[b].target = o /\ visited[m_arcs[b].source] # NoNode
      BY <1>3, <1>10, <3>1 DEF KeepInv
    <3>3. \A b \in ArcIds : visited[m_arcs[b].source] # NoNode
                            => visited'[m_arcs[b].source] # NoNode
      BY <1>6, <1>8, TreeFacts DEF IInv
    <3>4. Statistics(new_nodes'[visited'[o]]) = Statistics(m_nodes'[o])
      BY <1>7, <1>9, <3>1, <3>2
    <3> QED
      BY <3>2, <3>3, <3>4
  <2> QED
    BY <2>1, <2>2
<1>11. ArcIds' = ArcIds /\ getNode(state.pos)' = getNode(state.pos)
  BY <1>3 DEF ArcIds, getNode
<1> QED
  BY <1>3, <1>9, <1>10, <1>11 DEF KeepInv

\* So do the other steps: only the new root is copied before the loop.
LEMMA KeepStepped == IInv /\ KeepInv /\ [Next]_vars => KeepInv'
<1> SUFFICES ASSUME IInv, KeepInv, [Next]_vars PROVE KeepInv'
  OBVIOUS
<1>1. CASE pc' # "copy"
  BY <1>1 DEF KeepInv
<1>2. CASE PruneRoot
  <2> DEFINE old == getNode(state.pos)
  <2>1. /\ new_nodes' = << m_nodes[old] >> /\ m_nodes' = MovedFrom(old)
        /\ visited' = [n \in NodeIds |-> IF n = old THEN 1 ELSE NoNode]
        /\ old \in NodeIds /\ state' = state
        /\ m_transposition_table' = m_transposition_table
    BY <1>2 DEF PruneRoot, Known, IInv, TypeOK, getNode
  <2>2. getNode(state.pos)' = old
    BY <2>1 DEF getNode
  <2> HIDE DEF old
  <2>3. NodeIds' = NodeIds /\ Statistics(m_nodes'[old]) = Statistics(m_nodes[old])
    BY <2>1, MovedFromFacts DEF NodeIds
  <2>4. \A o \in NodeIds : visited'[o] # NoNode => o = old /\ visited'[o] = 1
    BY <2>1
  <2>5. new_nodes'[1] = m_nodes[old]
    BY <2>1
  <2> QED
    BY <2>2, <2>3, <2>4, <2>5 DEF KeepInv
<1>3. CASE PrunePop
  <2>1. UNCHANGED <<pc, state, m_nodes, m_arcs, m_transposition_table, new_nodes, visited>>
    BY <1>3 DEF PrunePop, tree
  <2> QED
    BY <2>1 DEF KeepInv, NodeIds, ArcIds, getNode
<1>4. CASE UNCHANGED vars
  <2>1. UNCHANGED <<pc, state, m_nodes, m_arcs, m_transposition_table, new_nodes, visited>>
    BY <1>4 DEF vars, tree, pruning
  <2> QED
    BY <2>1 DEF KeepInv, NodeIds, ArcIds, getNode
<1>5. PruneRoot \/ PrunePop \/ PruneArc \/ UNCHANGED vars \/ pc' # "copy"
  BY SearchAssumption DEF Next, Compute, Iterate, Select, Expand, Leaf, Simulate,
     Backpropagate, GetBestMove, PlayBestMove, OpponentMove, NextMatch, PruneUnknown,
     PruneSwap, Reset, StartPlayouts
<1> QED
  BY <1>1, <1>2, <1>3, <1>4, <1>5, PruneArcKeeps

\* When the loop is done, the copied nodes are closed under the arcs.
LEMMA SwapKeeps ==
    ASSUME IInv, KeepInv, PruneSwap
    PROVE  KeepsWhatFollows
<1> DEFINE T == m_transposition_table
           kept == DOMAIN T'
           e(a) == <<m_nodes[m_arcs[a].source].pos, m_arcs[a].m_move,
                     m_nodes[m_arcs[a].target].pos>>
           f(b) == <<new_nodes[new_arcs[b].source].pos, new_arcs[b].m_move,
                     new_nodes[new_arcs[b].target].pos>>
           old == GameArcs(m_nodes, m_arcs)
<1>1. /\ pc = "copy" /\ stack = << >> /\ out_arcs = {} /\ m_nodes' = new_nodes
      /\ m_arcs' = new_arcs
      /\ T' = [p \in {q \in DOMAIN T : visited[T[q]] # NoNode} |-> visited[T[p]]]
  BY DEF PruneSwap, Purged
<1>2. /\ visited \in [NodeIds -> {NoNode} \cup DOMAIN new_nodes]
      /\ NoNode \notin DOMAIN new_nodes
      /\ \A b \in DOMAIN new_arcs : new_arcs[b].target \in DOMAIN new_nodes
  <2>1. /\ new_nodes \in Seq(NodeRecords) /\ new_arcs \in Seq(ArcRecords(DOMAIN new_nodes))
        /\ visited \in [NodeIds -> {NoNode} \cup DOMAIN new_nodes]
    BY <1>1 DEF IInv, TypeOK
  <2>2. \A b \in DOMAIN new_arcs : new_arcs[b] \in ArcRecords(DOMAIN new_nodes)
    BY <2>1
  <2>3. NoNode \notin DOMAIN new_nodes
    BY <2>1 DEF NoNode
  <2> QED
    BY <2>1, <2>2, <2>3 DEF ArcRecords
<1>3. /\ DOMAIN T = {m_nodes[n].pos : n \in NodeIds}
      /\ \A n \in NodeIds : T[m_nodes[n].pos] = n
  BY DEF IInv, TableExact
<1>4. /\ kept = {p \in DOMAIN T : visited[T[p]] # NoNode}
      /\ \A p \in kept : T'[p] = visited[T[p]]
  BY <1>1
<1>5. /\ \A n \in NodeIds : m_nodes[n].pos \in kept <=> visited[n] # NoNode
      /\ \A p \in kept : \E n \in NodeIds : p = m_nodes[n].pos /\ T[p] = n
  BY <1>3, <1>4
<1>6. \A a \in ArcIds : /\ m_arcs[a].source \in NodeIds /\ m_arcs[a].target \in NodeIds
                        /\ Copied(a) <=> visited[m_arcs[a].source] # NoNode
  <2>1. \A i : i \notin 1..Len(stack)
    BY <1>1
  <2> QED
    BY <1>1, <2>1, TreeFacts DEF IInv, Copied
<1>7. \A o \in NodeIds : visited[o] # NoNode =>
         /\ new_nodes[visited[o]].pos = m_nodes[o].pos
         /\ Statistics(new_nodes[visited[o]]) = Statistics(m_nodes[o])
  BY <1>1 DEF IInv, CopyInv, CopyNodes, KeepInv
<1>8. ASSUME NEW a \in ArcIds, NEW b \in DOMAIN new_arcs, Copied(a), CopyOf(a, b)
      PROVE  visited[m_arcs[a].target] # NoNode /\ f(b) = e(a)
  <2>1. visited[m_arcs[a].target] # NoNode
    BY <1>2, <1>8 DEF CopyOf
  <2> QED
    BY <1>6, <1>7, <1>8, <2>1 DEF CopyOf
<1>9. /\ old = {e(a) : a \in ArcIds}
      /\ GameArcs(m_nodes', m_arcs') = {f(b) : b \in DOMAIN new_arcs}
  BY <1>1 DEF GameArcs, ArcIds
<1>10. \A a \in ArcIds : e(a)[1] = m_nodes[m_arcs[a].source].pos
                         /\ e(a)[3] = m_nodes[m_arcs[a].target].pos
  OBVIOUS
<1> HIDE DEF e, f, old, kept, T
<1>11. ASSUME NEW a \in ArcIds, e(a)[1] \in kept
       PROVE  /\ e(a)[3] \in kept
              /\ \E b \in DOMAIN new_arcs : f(b) = e(a)
  <2>1. Copied(a)
    BY <1>5, <1>6, <1>10, <1>11
  <2>2. PICK b \in DOMAIN new_arcs : CopyOf(a, b)
    BY <1>1, <2>1 DEF IInv, CopyInv, CopyArcs
  <2> QED
    BY <1>5, <1>6, <1>8, <1>10, <2>1, <2>2
<1>12. ASSUME NEW b \in DOMAIN new_arcs
       PROVE  \E a \in ArcIds : f(b) = e(a) /\ e(a)[1] \in kept
  <2>1. PICK a \in ArcIds : Copied(a) /\ CopyOf(a, b)
    BY <1>1 DEF IInv, CopyInv, CopyArcs
  <2> QED
    BY <1>5, <1>6, <1>8, <1>10, <2>1
<1>13. GameArcs(m_nodes', m_arcs') = {x \in old : x[1] \in kept}
  BY <1>9, <1>11, <1>12
<1>14. \A x \in old : x[1] \in kept => x[3] \in kept
  BY <1>9, <1>11
<1>15. state.pos \in kept /\ getNode(state.pos) = T[state.pos]
  <2>1. visited[getNode(state.pos)] = 1 /\ getNode(state.pos) # NoNode
    BY <1>1 DEF IInv, CopyInv
  <2> QED
    BY <1>4, <2>1 DEF getNode, NoNode, T
<1>16. ASSUME NEW p \in kept, p # state.pos
       PROVE  \E x \in old : x[1] \in kept /\ x[3] = p
  <2>1. PICK o \in NodeIds : p = m_nodes[o].pos /\ T[p] = o
    BY <1>5
  <2>2. visited[o] # NoNode
    BY <1>5, <2>1
  <2>3. o # getNode(state.pos)
    BY <1>3, <1>5, <1>15, <1>16, <2>1
  <2>4. PICK a \in ArcIds : m_arcs[a].target = o /\ visited[m_arcs[a].source] # NoNode
    BY <1>1, <2>2, <2>3 DEF KeepInv
  <2> QED
    BY <1>5, <1>6, <1>9, <1>10, <2>1, <2>4
<1>17. ASSUME NEW p \in kept
       PROVE  Statistics(m_nodes'[T'[p]]) = Statistics(m_nodes[T[p]])
  BY <1>1, <1>4, <1>5, <1>7
<1> QED
  BY <1>13, <1>14, <1>15, <1>16, <1>17 DEF KeepsWhatFollows, old, kept, T

\* prune() keeps the state's position and all that follows it in the tree, with
\* every arc and all statistics, and nothing else.
THEOREM PruneKeepsWhatFollows == Spec => PruneExact
<1>1. Init => KeepInv
  BY DEF Init, KeepInv
<1>2. IInv /\ KeepInv /\ [Next]_vars
      => [pc = "copy" /\ pc' = "main" => KeepsWhatFollows]_vars
  <2> SUFFICES ASSUME IInv, KeepInv, Next, pc = "copy", pc' = "main"
               PROVE  KeepsWhatFollows
    OBVIOUS
  <2>1. PruneSwap
    BY DEF Next, Compute, Iterate, Select, Expand, Leaf, Simulate, Backpropagate,
       GetBestMove, PlayBestMove, OpponentMove, NextMatch, PruneUnknown, PruneRoot,
       PrunePop, PruneArc, Reset
  <2> QED
    BY <2>1, SwapKeeps
<1> QED
  BY <1>1, <1>2, KeepStepped, InductiveInvariant, PTL DEF Spec, PruneExact
=============================================================================
