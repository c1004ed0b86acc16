-------------------------------- MODULE Mcts --------------------------------
(***************************************************************************)
(* One player's Mcts object (mcts.hpp) inside the match loop of main.cpp:  *)
(* compute() grows a search tree with a transposition table, plays random  *)
(* games from its leaves and returns the most visited move of the root;    *)
(* after the other player's answer the loop calls prune() (or its          *)
(* alternative reset()) on the object before the next compute().           *)
(*                                                                         *)
(* The code runs on one thread: pc says where in that thread it is.        *)
(* Operators named ..._mutant change the definition that follows them the  *)
(* way a slip in the code would; no definition uses them.                  *)
(***************************************************************************)
EXTENDS Game, Sequences, FiniteSets

CONSTANTS
    Self,           \* the side this object plays for
    MaxIterations,  \* compute()'s max_iterations_ (20000 and 2000 in main)
    Playouts,       \* random games per iteration (3 in the code)
    Upkeep          \* what main calls after an answer: "prune", or "reset" too

ASSUME SearchAssumption ==
    /\ Self \in Sides
    /\ MaxIterations \in Nat \ {0}
    /\ Playouts \in Nat \ {0}
    /\ Upkeep # {} /\ Upkeep \subseteq {"prune", "reset"}

VARIABLES
    pc,
    state,                  \* main's State
    \* The Mcts object.
    m_nodes, m_arcs,        \* m_tree: node data and arcs, by id from 1
    root_node,
    m_transposition_table,  \* position |-> node id
    m_not_initialized,
    m_path, m_path_size,
    \* compute()'s locals.
    max_iterations, node, search, sim_state, playouts, best_move,
    \* prune_impl()'s locals.
    new_nodes, new_arcs, visited, stack, parent, out_arcs

tree     == <<m_nodes, m_arcs, root_node, m_transposition_table,
              m_not_initialized>>
path     == <<m_path, m_path_size>>
computing == <<max_iterations, node, search, sim_state, playouts, best_move>>
pruning  == <<new_nodes, new_arcs, visited, stack, parent, out_arcs>>
vars     == <<pc, state, tree, path, computing, pruning>>

NoNode  == 0    \* NodeID::invalid
NoArc   == -1   \* ArcID::invalid
RootArc == 0    \* the tree's root_arc, which no node owns
NoMove  == "none"  \* Move::none

NodeIds == DOMAIN m_nodes
ArcIds  == DOMAIN m_arcs

-----------------------------------------------------------------------------
(* The tree (fst::SearchTree) and the operations compute() is built from.  *)

\* NodeData(state): the untried moves, no visits, no score.  An empty m_moves
\* is the code's nullptr.  pos is a history field: the position the data was
\* built from, which no step reads.
NodeData(st) ==
    [pos |-> st.pos, m_moves |-> moves(st), m_visits |-> 0, m_score |-> 0,
     m_player_just_moved |-> playerJustMoved(st)]

OutArcs(n) == {a \in ArcIds : m_arcs[a].source = n}

hasUntriedMoves(n) == m_nodes[n].m_moves # {}
hasChildren(n)     == OutArcs(n) # {}

\* getNode(): the table lookup.
getNode(p) == IF p \in DOMAIN m_transposition_table
              THEN m_transposition_table[p] ELSE NoNode

\* unordered_map::emplace keeps an entry that is already there.
emplace(table, p, n) ==
    [q \in DOMAIN table \cup {p} |-> IF q \in DOMAIN table THEN table[q] ELSE n]

\* m_tree.link(s, t): some arc from s to t, or the invalid arc with target t.
LinksTo(s, t) ==
    LET between == {a \in OutArcs(s) : m_arcs[a].target = t}
    IN  {[arc |-> a, target |-> t] :
            a \in IF between = {} THEN {NoArc} ELSE between}

\* A new object: a tree with a blank root, no table, nothing in the path.
FreshObject ==
    /\ m_nodes' = << >> /\ m_arcs' = << >> /\ root_node' = 1
    /\ m_transposition_table' = << >>
    /\ m_not_initialized' = TRUE
    /\ m_path' = << >> /\ m_path_size' = 0

\* initialize(state_) on a new object.
InitializedWith(st) ==
    /\ m_nodes' = << NodeData(st) >> /\ m_arcs' = << >> /\ root_node' = 1
    /\ m_transposition_table' = emplace(<< >>, st.pos, 1)
    /\ m_not_initialized' = FALSE
    /\ m_path' = << [arc |-> NoArc, target |-> 1] >> /\ m_path_size' = 1

\* Mutant: the move stays untried.
Drawn_mutant(n, m) == m_nodes

\* getUntriedMove() has drawn m from node n.
Drawn(n, m) == [m_nodes EXCEPT ![n].m_moves = @ \ {m}]

\* addChild(): the node of the position if the table has one, else a new one;
\* either way a new arc.  nodes is m_nodes as the caller has left it.
AddChild(from, m, st, nodes) ==
    LET known == getNode(st.pos)
        child == IF known = NoNode THEN Len(nodes) + 1 ELSE known
    IN  /\ m_nodes' = IF known = NoNode THEN Append(nodes, NodeData(st))
                                        ELSE nodes
        /\ m_arcs' = Append(m_arcs, [source |-> from, target |-> child,
                                     m_move |-> m])
        /\ m_transposition_table' = emplace(m_transposition_table, st.pos, child)
        /\ m_path' = Append(m_path, [arc |-> Len(m_arcs) + 1, target |-> child])
        /\ node' = child

-----------------------------------------------------------------------------
(* compute().                                                              *)

\* Mutant: the node is pushed twice.
ConnectStatesPath_mutant ==
    /\ \E link \in LinksTo(m_path[Len(m_path)].target, getNode(state.pos)) :
          m_path' = Append(Append(m_path, link), link)
    /\ m_path_size' = m_path_size + 2
    /\ UNCHANGED tree

\* connectStatesPath(): push the node of the given state on the path.  The
\* match loop has just pruned or reset the object with this state, so the
\* table knows it and the branch that adds a node is never taken.
ConnectStatesPath ==
    /\ \E link \in LinksTo(m_path[Len(m_path)].target, getNode(state.pos)) :
          m_path' = Append(m_path, link)
    /\ m_path_size' = m_path_size + 1
    /\ UNCHANGED tree

Compute ==
    /\ pc = "main"
    /\ state.winner = invalid
    /\ playerToMove(state) = Self
    /\ IF m_not_initialized THEN InitializedWith(state) ELSE ConnectStatesPath
    /\ max_iterations' = MaxIterations
    /\ pc' = "search"
    /\ UNCHANGED <<state, node, search, sim_state, playouts, best_move, pruning>>

\* The head of the while loop: start at the root with a copy of the state.
Iterate ==
    /\ pc = "search"
    /\ max_iterations > 0
    /\ max_iterations' = max_iterations - 1
    /\ node' = root_node
    /\ search' = state
    /\ pc' = "select"
    /\ UNCHANGED <<state, tree, path, sim_state, playouts, best_move, pruning>>

\* One turn of the selection loop.  Which child has the best UCT value depends
\* on floating point scores: any child may be it.
Select ==
    /\ pc = "select"
    /\ ~ hasUntriedMoves(node)
    /\ \E a \in OutArcs(node) :
          /\ search' = move_hash(search, m_arcs[a].m_move)
          /\ m_path' = Append(m_path, [arc |-> a, target |-> m_arcs[a].target])
          /\ node' = m_arcs[a].target
    /\ UNCHANGED <<pc, state, tree, m_path_size, max_iterations, sim_state,
                   playouts, best_move, pruning>>

StartPlayouts(st) ==
    /\ sim_state' = st
    /\ playouts' = Playouts
    /\ pc' = "playout"

\* Expansion: draw an untried move, make it, add the child.
Expand ==
    /\ pc = "select"
    /\ \E m \in m_nodes[node].m_moves :
          LET to == move_hash_winner(search, m)
          IN  /\ AddChild(node, m, to, Drawn(node, m))
              /\ search' = to
              /\ StartPlayouts(to)
    /\ UNCHANGED <<state, root_node, m_not_initialized, m_path_size,
                   max_iterations, best_move, pruning>>

\* A leaf without moves: nothing to expand.
Leaf ==
    /\ pc = "select"
    /\ ~ hasUntriedMoves(node) /\ ~ hasChildren(node)
    /\ StartPlayouts(search)
    /\ UNCHANGED <<state, tree, path, max_iterations, node, search, best_move,
                   pruning>>

\* Mutant: the random move is made on a copy.
Simulate_mutant ==
    /\ pc = "playout"
    /\ moves(sim_state) # {}
    /\ UNCHANGED vars

\* One turn of simulate()'s loop.
Simulate ==
    /\ pc = "playout"
    /\ \E m \in moves(sim_state) : sim_state' = move_hash_winner(sim_state, m)
    /\ UNCHANGED <<pc, state, tree, path, max_iterations, node, search,
                   playouts, best_move, pruning>>

\* Mutant: the last link, the node just reached, is left out.
Occurrences_mutant(n) ==
    Cardinality({i \in 1..Len(m_path) - 1 : m_path[i].target = n})

\* updateData() on every link of the path, once per occurrence.
Occurrences(n) == Cardinality({i \in 1..Len(m_path) : m_path[i].target = n})

UpdatedNodes ==
    [n \in NodeIds |->
       [m_nodes[n] EXCEPT
          !.m_visits = @ + Occurrences(n),
          !.m_score  = @ + Occurrences(n) *
                             result(sim_state, m_nodes[n].m_player_just_moved)]]

\* Mutant: the path is not cut back.
KeptPath_mutant == m_path

KeptPath == SubSeq(m_path, 1, m_path_size)

\* simulate() has stopped: backpropagate; after the last playout drop what
\* this iteration put on the path.
Backpropagate ==
    /\ pc = "playout"
    /\ moves(sim_state) = {}
    /\ m_nodes' = UpdatedNodes
    /\ playouts' = playouts - 1
    /\ IF playouts = 1
       THEN /\ pc' = "search"
            /\ m_path' = KeptPath
            /\ node' = NoNode /\ search' = state /\ sim_state' = state
       ELSE /\ sim_state' = search
            /\ UNCHANGED <<pc, m_path, node, search>>
    /\ UNCHANGED <<state, m_arcs, root_node, m_transposition_table,
                   m_not_initialized, m_path_size, max_iterations, best_move,
                   pruning>>

\* Mutant: the most visited child of any node.
BestArcs_mutant ==
    {a \in ArcIds : \A b \in ArcIds :
        m_nodes[m_arcs[a].target].m_visits >= m_nodes[m_arcs[b].target].m_visits}

\* The out-arcs of the root whose target has the most visits.
BestArcs ==
    {a \in OutArcs(root_node) : \A b \in OutArcs(root_node) :
        m_nodes[m_arcs[a].target].m_visits >= m_nodes[m_arcs[b].target].m_visits}

\* getBestMove(): Move::none and an invalid link when the root has no child.
GetBestMove ==
    /\ pc = "search"
    /\ max_iterations = 0
    /\ \E a \in IF BestArcs = {} THEN {NoArc} ELSE BestArcs :
          /\ best_move' = IF a = NoArc THEN NoMove ELSE m_arcs[a].m_move
          /\ m_path' = Append(m_path, [arc |-> a, target |->
                          IF a = NoArc THEN NoNode ELSE m_arcs[a].target])
    /\ m_path_size' = m_path_size + 1
    /\ pc' = "play"
    /\ UNCHANGED <<state, tree, max_iterations, node, search, sim_state,
                   playouts, pruning>>

-----------------------------------------------------------------------------
(* The match loop of main().                                               *)

\* main makes the move compute() returned and does not test it: what becomes of
\* the State after a move that the position does not offer is undefined.
PlayBestMove ==
    /\ pc = "play"
    /\ state' \in IF best_move \in moves(state)
                  THEN {move_hash_winner(state, best_move)} ELSE States
    /\ search' = state' /\ sim_state' = state' /\ best_move' = NoMove
    /\ pc' = "main"
    /\ UNCHANGED <<tree, path, max_iterations, node, playouts, pruning>>

\* The other player moves; main then prunes (or resets) this object.
OpponentMove ==
    /\ pc = "main"
    /\ state.winner = invalid
    /\ playerToMove(state) # Self
    /\ \E m \in moves(state) : state' = move_hash_winner(state, m)
    /\ search' = state' /\ sim_state' = state'
    /\ pc' \in Upkeep
    /\ UNCHANGED <<tree, path, max_iterations, node, playouts, best_move, pruning>>

NewMatch == {[pos |-> p, winner |-> invalid] : p \in Starts}

\* ended() holds a value once m_winner has been assigned.
ended == state.winner # invalid

\* The match is over: both objects are deleted, the next match has new ones.
NextMatch ==
    /\ pc = "main"
    /\ ended
    /\ state' \in NewMatch
    /\ search' = state' /\ sim_state' = state'
    /\ FreshObject
    /\ UNCHANGED <<pc, max_iterations, node, playouts, best_move, pruning>>

-----------------------------------------------------------------------------
(* prune() and reset().                                                    *)

Known == ~ m_not_initialized /\ getNode(state.pos) # NoNode

\* Mutant: the old object is kept, with its old root.
PruneUnknown_mutant ==
    /\ pc = "prune"
    /\ ~ Known
    /\ pc' = "main"
    /\ UNCHANGED <<state, tree, path, computing, pruning>>

\* prune(), else-branch: initialize() runs on the object that is deleted after
\* the swap, so what the caller keeps is the new, uninitialized one.
PruneUnknown ==
    /\ pc = "prune"
    /\ ~ Known
    /\ FreshObject
    /\ pc' = "main"
    /\ UNCHANGED <<state, computing, pruning>>

\* The nodes after NodeData's move assignment from node o: the moved-from data
\* keeps its counters and loses its moves.
MovedFrom(o) == [m_nodes EXCEPT ![o].m_moves = {}]

\* prune_impl(), up to the loop: move the node's data into the new root.
PruneRoot ==
    /\ pc = "prune"
    /\ Known
    /\ LET old == getNode(state.pos)
       IN  /\ new_nodes' = << m_nodes[old] >>
           /\ m_nodes' = MovedFrom(old)
           /\ visited' = [n \in NodeIds |-> IF n = old THEN 1 ELSE NoNode]
           /\ stack' = << old >>
    /\ new_arcs' = << >>
    /\ parent' = NoNode /\ out_arcs' = {}
    /\ pc' = "copy"
    /\ UNCHANGED <<state, m_arcs, root_node, m_transposition_table,
                   m_not_initialized, path, computing>>

\* Take the next node off the stack.
PrunePop ==
    /\ pc = "copy"
    /\ out_arcs = {}
    /\ stack # << >>
    /\ parent' = stack[Len(stack)]
    /\ stack' = SubSeq(stack, 1, Len(stack) - 1)
    /\ out_arcs' = OutArcs(parent')
    /\ UNCHANGED <<pc, state, tree, path, computing, new_nodes, new_arcs, visited>>

\* Mutant: an arc to a node that was copied before is dropped.
WithArc_mutant(a, copy) ==
    IF visited[m_arcs[a].target] # NoNode THEN new_arcs
    ELSE Append(new_arcs, [source |-> visited[parent], target |-> copy,
                           m_move |-> m_arcs[a].m_move])

\* Mutant: source and target are exchanged.
WithArc_swap_mutant(a, copy) ==
    Append(new_arcs, [source |-> copy, target |-> visited[parent],
                      m_move |-> m_arcs[a].m_move])

\* new_tree.addArc(): the copy of arc a.
WithArc(a, copy) ==
    Append(new_arcs, [source |-> visited[parent], target |-> copy,
                      m_move |-> m_arcs[a].m_move])

\* One turn of the loop over its out-arcs: copy the child if it is new, then
\* the arc.
PruneArc ==
    /\ pc = "copy"
    /\ \E a \in out_arcs :
          LET child == m_arcs[a].target
              fresh == visited[child] = NoNode
              copy  == IF fresh THEN Len(new_nodes) + 1 ELSE visited[child]
          IN  /\ new_nodes' = IF fresh THEN Append(new_nodes, m_nodes[child])
                                       ELSE new_nodes
              /\ m_nodes' = IF fresh THEN MovedFrom(child) ELSE m_nodes
              /\ visited' = [visited EXCEPT ![child] = copy]
              /\ stack' = IF fresh THEN Append(stack, child) ELSE stack
              /\ new_arcs' = WithArc(a, copy)
              /\ out_arcs' = out_arcs \ {a}
    /\ UNCHANGED <<pc, state, m_arcs, root_node, m_transposition_table,
                   m_not_initialized, path, computing, parent>>

\* Mutant: the entries keep the ids of the old tree.
Purged_mutant(table) ==
    [p \in {q \in DOMAIN table : visited[table[q]] # NoNode} |-> table[p]]

\* The purged table: entries of nodes that were copied, with their new ids.
Purged(table) ==
    [p \in {q \in DOMAIN table : visited[table[q]] # NoNode} |-> visited[table[p]]]

\* Purge the table, hand it over, reset the path, swap, delete the old object.
PruneSwap ==
    /\ pc = "copy"
    /\ out_arcs = {}
    /\ stack = << >>
    /\ m_nodes' = new_nodes
    /\ m_arcs' = new_arcs
    /\ root_node' = 1
    /\ m_transposition_table' = Purged(m_transposition_table)
    /\ m_not_initialized' = FALSE
    /\ m_path' = << [arc |-> RootArc, target |-> 1] >>
    /\ m_path_size' = 1
    /\ pc' = "main"
    /\ new_nodes' = << >> /\ new_arcs' = << >> /\ visited' = << >>
    /\ parent' = NoNode
    /\ UNCHANGED <<state, computing, stack, out_arcs>>

\* reset(): re-hang the tree at the state's node, or start a new tree; an
\* object that was never initialized stays as it is.
Reset ==
    /\ pc = "reset"
    /\ \/ /\ Known
          /\ root_node' = getNode(state.pos)
          /\ UNCHANGED <<m_nodes, m_arcs, m_transposition_table,
                         m_not_initialized, path>>
       \/ /\ ~ m_not_initialized /\ ~ Known
          /\ InitializedWith(state)
       \/ /\ m_not_initialized
          /\ UNCHANGED <<tree, path>>
    /\ pc' = "main"
    /\ UNCHANGED <<state, computing, pruning>>

-----------------------------------------------------------------------------
Init ==
    /\ pc = "main"
    /\ state \in NewMatch
    /\ m_nodes = << >> /\ m_arcs = << >> /\ root_node = 1
    /\ m_transposition_table = << >>
    /\ m_not_initialized = TRUE
    /\ m_path = << >> /\ m_path_size = 0
    /\ max_iterations = 0 /\ node = NoNode
    /\ search = state /\ sim_state = state
    /\ playouts = 0 /\ best_move = NoMove
    /\ new_nodes = << >> /\ new_arcs = << >> /\ visited = << >>
    /\ stack = << >> /\ parent = NoNode /\ out_arcs = {}

Next ==
    \/ Compute \/ Iterate \/ Select \/ Expand \/ Leaf \/ Simulate
    \/ Backpropagate \/ GetBestMove
    \/ PlayBestMove \/ OpponentMove \/ NextMatch
    \/ PruneUnknown \/ PruneRoot \/ PrunePop \/ PruneArc \/ PruneSwap
    \/ Reset

\* The program is one thread that never blocks: it always takes its next step.
Spec == Init /\ [][Next]_vars /\ WF_vars(Next)
-----------------------------------------------------------------------------
(* Properties.                                                             *)

NodeRecords == [pos : Positions, m_moves : SUBSET Move, m_visits : Nat,
                m_score : Int, m_player_just_moved : Sides]
ArcRecords(ids) == [source : ids, target : ids, m_move : Move]
Links == [arc : {NoArc, RootArc} \cup ArcIds, target : NodeIds]

\* Every variable has its type; ids that the tree, the table, the path and the
\* two copies hold all name nodes that exist.
TypeOK ==
    /\ pc \in {"main", "search", "select", "playout", "play", "prune", "copy",
               "reset"}
    /\ {state, search, sim_state} \subseteq States
    /\ m_nodes \in Seq(NodeRecords)
    /\ m_arcs \in Seq(ArcRecords(NodeIds))
    /\ root_node \in Nat \ {0}
    /\ DOMAIN m_transposition_table \subseteq Positions
    /\ m_transposition_table \in [DOMAIN m_transposition_table -> NodeIds]
    /\ m_not_initialized \in BOOLEAN
    /\ m_path \in Seq(Links)
    /\ m_path_size \in Nat
    /\ max_iterations \in 0..MaxIterations
    /\ playouts \in 0..Playouts
    /\ node \in {NoNode} \cup NodeIds
    /\ best_move \in {NoMove} \cup Move
    /\ new_nodes \in Seq(NodeRecords)
    /\ new_arcs \in Seq(ArcRecords(DOMAIN new_nodes))
    /\ pc = "copy" => visited \in [NodeIds -> {NoNode} \cup DOMAIN new_nodes]
    /\ stack \in Seq(NodeIds)
    /\ parent \in {NoNode} \cup NodeIds
    /\ out_arcs \subseteq ArcIds

\* The moves a position offers to a State that knows whether it has a winner.
Offered(p) == moves([pos |-> p, winner |-> outcome[p]])

Tried(n) == {m_arcs[a].m_move : a \in OutArcs(n)}

\* The transposition table and the tree agree exactly: every node has one
\* entry, under the position it was built for, and no entry names a position
\* without a node - also while nodes, table and ids are being rebuilt by
\* prune_impl() and after initialize() and addNode() have added to both.
TableExact ==
    /\ DOMAIN m_transposition_table = {m_nodes[n].pos : n \in NodeIds}
    /\ \A n \in NodeIds : m_transposition_table[m_nodes[n].pos] = n

\* An arc of the tree is a move of the game: its move is one the position of
\* its source offers, and leads to the position of its target, also when
\* addChild() links a node that another path created.
ArcsFollowGame ==
    \A a \in ArcIds :
        LET from == m_nodes[m_arcs[a].source].pos
        IN  /\ m_arcs[a].m_move \in Offered(from)
            /\ play[<<from, m_arcs[a].m_move>>] = m_nodes[m_arcs[a].target].pos

\* No move of a node is lost or tried twice: the untried moves and the moves
\* of its out-arcs are disjoint and together are what its position offers, and
\* no two out-arcs have the same move (so selectChildUCT's static_vector of
\* max_no_moves links cannot overflow).  Holds outside prune_impl(), which
\* moves the untried moves from one tree to the other.
MoveAccounting ==
    pc # "copy" =>
      \A n \in NodeIds :
        /\ m_nodes[n].m_moves \cap Tried(n) = {}
        /\ m_nodes[n].m_moves \cup Tried(n) = Offered(m_nodes[n].pos)
        /\ \A a, b \in OutArcs(n) : m_arcs[a].m_move = m_arcs[b].m_move => a = b

\* During selection the State copy that compute() moves along the tree is in
\* the position of the node it has reached (the check compute() has commented
\* out, mcts.hpp:563-574).
InSync ==
    pc = "select" => /\ node \in NodeIds
                     /\ search.pos = m_nodes[node].pos

\* When compute() starts on an initialized object the table knows the state,
\* and its node is the root (so connectStatesPath() never adds a node and the
\* search starts where the match is).
RootIsState ==
    \/ m_not_initialized
    \/ pc = "main" /\ (playerToMove(state) # Self \/ state.winner # invalid)
    \/ pc \in {"prune", "copy", "reset"}
    \/ getNode(state.pos) = root_node

\* getUCTFromNode() divides by the child's visits: whenever selection is at a
\* node, every child it has was scored by a playout before.
ChildrenVisited ==
    pc = "select" => \A a \in OutArcs(node) : m_nodes[m_arcs[a].target].m_visits > 0

\* The path that is scored starts at the root and follows the arcs that were
\* selected: the part kept between iterations ends in the root, the scratch
\* part is a chain of arcs from it, and its end is the node reached.
PathFromRoot ==
    pc \in {"search", "select", "playout"} =>
      /\ m_path_size \in 1..Len(m_path)
      /\ m_path[m_path_size].target = root_node
      /\ \A i \in m_path_size + 1 .. Len(m_path) :
            /\ m_path[i].arc \in ArcIds
            /\ m_arcs[m_path[i].arc].source = m_path[i - 1].target
            /\ m_arcs[m_path[i].arc].target = m_path[i].target
      /\ pc = "search" => Len(m_path) = m_path_size
      /\ pc # "search" => m_path[Len(m_path)].target = node

\* compute() never returns Move::none, and never a move that the position does
\* not offer, whatever the tree it inherited from prune() or reset().
BestMoveLegal == pc = "play" => best_move \in moves(state)

\* How often one playout counts: once in every node of the line that was played
\* and searched, also when a transposition leads there, and at most twice in the
\* node that was the root when prune() last ran or the object was initialized,
\* which connectStatesPath() pushes again after prune() has put it first.
PlayoutCounts ==
    pc = "playout" =>
        \A n \in NodeIds : Occurrences(n) <= IF n = m_path[1].target THEN 2 ELSE 1

\* The arcs of a tree, named by positions instead of ids.
GameArcs(nodes, arcs) ==
    {<<nodes[arcs[a].source].pos, arcs[a].m_move, nodes[arcs[a].target].pos>> :
        a \in DOMAIN arcs}

Statistics(data) == <<data.m_visits, data.m_score, data.m_player_just_moved>>

\* The step's new tree is what the old one has from the state's position on.
KeepsWhatFollows ==
    LET old  == GameArcs(m_nodes, m_arcs)
        kept == DOMAIN m_transposition_table'
    IN  /\ state.pos \in kept
        /\ GameArcs(m_nodes', m_arcs') = {e \in old : e[1] \in kept}
        /\ \A e \in old : e[1] \in kept => e[3] \in kept
        /\ \A p \in kept \ {state.pos} : \E e \in old : e[1] \in kept /\ e[3] = p
        /\ \A p \in kept : Statistics(m_nodes'[m_transposition_table'[p]]) =
                           Statistics(m_nodes[m_transposition_table[p]])

\* What prune() keeps: the state's position, closed under the arcs of the old
\* tree and nothing that no kept node leads to; with all the arcs between kept
\* nodes; and each kept node with its visits and its score.
PruneExact == [][pc = "copy" /\ pc' = "main" => KeepsWhatFollows]_vars

\* Every search ends: the loops of compute(), of its selection and of
\* simulate() all terminate, and main gets its move.
ComputeReturns == pc = "search" ~> pc = "play"

\* The match loop plays legal moves until the match ends, then starts again: it
\* makes what compute() returns without a test (main.cpp:66-67), so this depends
\* on what every search finds in the tree it inherits.
LegalMatch == INSTANCE LegalPlay
PlaysLegally == LegalMatch!Spec

\* compute() says "We have now reached a final state. Backpropagate the result"
\* (mcts.hpp:605): what is backpropagated is a finished match.
FinalStateScored ==
    pc = "playout" /\ moves(sim_state) = {} => sim_state.winner # invalid
=============================================================================
