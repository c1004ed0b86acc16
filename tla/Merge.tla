------------------------------- MODULE Merge -------------------------------
(***************************************************************************)
(* Mcts::merge() of mcts.hpp: two Mcts objects have searched the same      *)
(* position (the members of a parallel search), and the smaller tree is    *)
(* merged into the larger one, breadth first, node by node, with their     *)
(* transposition tables to tell which nodes are the same position.         *)
(*                                                                         *)
(* The searches are those of Mcts, an iteration of compute() in one step.  *)
(* m_visits stands for m_visits and m_score, which merge() treats alike.   *)
(***************************************************************************)
EXTENDS Game, Sequences, FiniteSets

CONSTANT MaxIterations  \* iterations of the two searches together

ASSUME MergeAssumption == MaxIterations \in Nat

\* Two moves never lead to one position: in both games the pieces that are on the
\* board after a move, but not before it, and the other way round, tell the move.
ASSUME MovesDiffer ==
    \A p \in Positions : \A m, n \in legal[p] :
        play[<<p, m>>] = play[<<p, n>>] => m = n

VARIABLES
    pc,
    mcts,           \* the two objects
    iterations,     \* iterations left
    t_mcts, s_mcts, \* merge()'s parameters: target and source
    \* Locals of merge(); before is not in the code: both objects at its start.
    s_itt, s_visited, s_queue, s_source, t_source, soi, before

merging == <<t_mcts, s_mcts, s_itt, s_visited, s_queue, s_source, t_source, soi,
             before>>
vars    == <<pc, mcts, iterations, merging>>

NoNode == 0     \* NodeID::invalid; the end of the table
Root   == 1
Objects == {1, 2}
nullptr == 0

-----------------------------------------------------------------------------
(* The objects.                                                            *)

NodeData(st) == [pos |-> st.pos, m_moves |-> moves(st), m_visits |-> 0]

\* initialize(state_) on a new object; the path as a sequence of nodes.
Initialized(st) ==
    [m_nodes |-> << NodeData(st) >>, m_arcs |-> << >>,
     m_transposition_table |-> [p \in {st.pos} |-> Root], m_path |-> << Root >>]

find(table, p) == IF p \in DOMAIN table THEN table[p] ELSE NoNode

OutArcs(o, n) == {a \in DOMAIN o.m_arcs : o.m_arcs[a].source = n}

\* addArc() and addNode() of the tree.
addArc(o, n, t, m) ==
    [o EXCEPT !.m_arcs = Append(@, [source |-> n, target |-> t, m_move |-> m])]
addNode(o, n, data, m) ==
    addArc([o EXCEPT !.m_nodes = Append(@, data)], n, Len(o.m_nodes) + 1, m)

emplace(o, p, n) ==
    [o EXCEPT !.m_transposition_table =
        [q \in DOMAIN @ \cup {p} |-> IF q \in DOMAIN @ THEN @[q] ELSE n]]

\* The walks from the root that selectChildUCT() can take: down through nodes
\* without untried moves, to a node with some or without children.
Walks(o) ==
    LET more(w) == o.m_nodes[w[Len(w)]].m_moves = {} /\ OutArcs(o, w[Len(w)]) # {}
        walk[k \in 0 .. Len(o.m_nodes)] ==
            IF k = 0 THEN {<< Root >>}
            ELSE UNION {{Append(w, o.m_arcs[a].target) : a \in OutArcs(o, w[Len(w)])} :
                           w \in {v \in walk[k - 1] : more(v)}}
    IN  {w \in UNION {walk[k] : k \in 0 .. Len(o.m_nodes)} : ~more(w)}

\* addChild() after move m from node n of object o.
addChild(o, n, m) ==
    LET st    == move_hash_winner([pos |-> o.m_nodes[n].pos, winner |-> invalid], m)
        known == find(o.m_transposition_table, st.pos)
        drawn == [o EXCEPT !.m_nodes[n].m_moves = @ \ {m}]
    IN  IF known # NoNode THEN addArc(drawn, n, known, m)
        ELSE emplace(addNode(drawn, n, NodeData(st), m), st.pos, Len(o.m_nodes) + 1)

\* updateData() on every node of the path.
Scored(o, path) ==
    LET times(n) == Cardinality({i \in DOMAIN path : path[i] = n})
    IN  [o EXCEPT !.m_nodes = [n \in DOMAIN o.m_nodes |->
                                  [o.m_nodes[n] EXCEPT !.m_visits = @ + times(n)]]]

\* One iteration of compute(): selection, expansion if there is a move to try,
\* playout and backpropagation.
Iterate(i) ==
    /\ pc = "search"
    /\ iterations > 0
    /\ mcts[i].m_path = << Root >>
    /\ \E w \in Walks(mcts[i]) :
          LET o == mcts[i]
              n == w[Len(w)]
          IN  \/ /\ o.m_nodes[n].m_moves = {}
                 /\ mcts' = [mcts EXCEPT ![i] = Scored(o, w)]
              \/ \E m \in o.m_nodes[n].m_moves :
                    LET with == addChild(o, n, m)
                        to   == with.m_arcs[Len(with.m_arcs)].target
                    IN  mcts' = [mcts EXCEPT ![i] = Scored(with, Append(w, to))]
    /\ iterations' = iterations - 1
    /\ UNCHANGED <<pc, merging>>

\* The search ends: getBestMove() pushes the most visited child on the path.
EndSearch(i) ==
    /\ pc = "search"
    /\ mcts[i].m_path = << Root >>
    /\ LET o == mcts[i]
           visits(a) == o.m_nodes[o.m_arcs[a].target].m_visits
           out == OutArcs(o, Root)
       IN  \E a \in out :
              /\ \A b \in out : visits(a) >= visits(b)
              /\ mcts' = [mcts EXCEPT ![i].m_path = Append(@, o.m_arcs[a].target)]
    /\ UNCHANGED <<pc, iterations, merging>>

-----------------------------------------------------------------------------
(* merge().                                                                *)

invertTranspositionTable(o) ==
    [n \in DOMAIN o.m_nodes |-> CHOOSE p \in DOMAIN o.m_transposition_table :
                                    o.m_transposition_table[p] = n]

\* Up to the loop: the pointers are exchanged if need be, so that the source is
\* the smaller tree.  (With one pointer passed twice merge() does nothing.)
StartMerge ==
    /\ pc = "search"
    /\ \A i \in Objects : Len(mcts[i].m_path) = 2
    /\ \E t \in Objects :
          LET s == CHOOSE i \in Objects : i # t
              swap == Len(mcts[t].m_nodes) < Len(mcts[s].m_nodes)
          IN  /\ t_mcts' = IF swap THEN s ELSE t
              /\ s_mcts' = IF swap THEN t ELSE s
    /\ before' = mcts
    /\ s_itt' = invertTranspositionTable(mcts[s_mcts'])
    /\ s_visited' = {Root} /\ s_queue' = << Root >>
    /\ s_source' = NoNode /\ t_source' = NoNode /\ soi' = {}
    /\ pc' = "merge"
    /\ UNCHANGED <<mcts, iterations>>

\* Mutant: the front of the queue is read and stays.
Popped_mutant(queue) == queue

Popped(queue) == Tail(queue)

\* The next node of the source, and the node of its position in the target.
MergePop ==
    /\ pc = "merge"
    /\ soi = {} /\ s_queue # << >>
    /\ s_source' = Head(s_queue)
    /\ s_queue' = Popped(s_queue)
    /\ t_source' = find(mcts[t_mcts].m_transposition_table, s_itt[s_source'])
    /\ soi' = OutArcs(mcts[s_mcts], s_source')
    /\ UNCHANGED <<pc, mcts, iterations, t_mcts, s_mcts, s_itt, s_visited, before>>

\* Mutant: the values of the child are not added.
MergedChild_mutant(t, child, a, data) ==
    IF \E b \in OutArcs(t, t_source) : t.m_arcs[b].target = child THEN t
    ELSE addArc(t, t_source, child, a.m_move)

\* The child exists in the target: add an arc if there is none (an arc has no
\* values to add), and the values of the child.
MergedChild(t, child, a, data) ==
    LET with == IF \E b \in OutArcs(t, t_source) : t.m_arcs[b].target = child THEN t
                ELSE addArc(t, t_source, child, a.m_move)
    IN  [with EXCEPT !.m_nodes[child].m_visits = @ + data.m_visits]

\* Mutant: the table does not learn of the new node.
AddedChild_mutant(t, p, a, data) == addNode(t, t_source, data, a.m_move)

\* It does not: the node is moved there, with its arc and an entry in the table.
AddedChild(t, p, a, data) ==
    emplace(addNode(t, t_source, data, a.m_move), p, Len(t.m_nodes) + 1)

\* One turn of the loop over the arcs out of s_source: an arc to a node that was
\* met before is passed over.
MergeArc ==
    /\ pc = "merge"
    /\ \E x \in soi :
          LET t     == mcts[t_mcts]
              s     == mcts[s_mcts]
              a     == s.m_arcs[x]
              data  == s.m_nodes[a.target]
              child == find(t.m_transposition_table, s_itt[a.target])
          IN  /\ soi' = soi \ {x}
              /\ \/ a.target \in s_visited /\ UNCHANGED <<mcts, s_visited, s_queue>>
                 \/ /\ a.target \notin s_visited
                    /\ s_visited' = s_visited \cup {a.target}
                    /\ s_queue' = Append(s_queue, a.target)
                    /\ \/ /\ child # NoNode
                          /\ mcts' = [mcts EXCEPT ![t_mcts] = MergedChild(t, child, a, data)]
                       \/ /\ child = NoNode
                          /\ mcts' = [mcts EXCEPT
                                ![t_mcts] = AddedChild(t, s_itt[a.target], a, data),
                                ![s_mcts].m_nodes[a.target].m_moves = {}]
    /\ UNCHANGED <<pc, iterations, t_mcts, s_mcts, s_itt, s_source, t_source, before>>

\* The target's path is cut back to the root; the source is deleted.
EndMerge ==
    /\ pc = "merge"
    /\ soi = {} /\ s_queue = << >>
    /\ mcts' = [mcts EXCEPT ![t_mcts].m_path = SubSeq(@, 1, 1),
                            ![s_mcts] = nullptr]
    /\ pc' = "merged"
    /\ UNCHANGED <<iterations, merging>>

-----------------------------------------------------------------------------
Init ==
    /\ pc = "search"
    /\ \E p \in Starts :
          mcts = [i \in Objects |-> Initialized([pos |-> p, winner |-> invalid])]
    /\ iterations = MaxIterations
    /\ t_mcts = nullptr /\ s_mcts = nullptr /\ before = << >>
    /\ s_itt = << >> /\ s_visited = {} /\ s_queue = << >>
    /\ s_source = NoNode /\ t_source = NoNode /\ soi = {}

MergeStep == MergePop \/ MergeArc \/ EndMerge

Next ==
    \/ \E i \in Objects : Iterate(i) \/ EndSearch(i)
    \/ StartMerge
    \/ MergeStep

\* merge() is one thread's call: once started it keeps running.
Spec == Init /\ [][Next]_vars /\ WF_vars(MergeStep)

-----------------------------------------------------------------------------
(* Properties.                                                             *)

\* "The t_source (target parent) does always exist, as we are going at it
\* breadth first" (mcts.hpp:735): the table of the target knows the parent, and
\* under its own position, so find() is never dereferenced at the end.
ParentExists ==
    pc = "merge" /\ s_source # NoNode =>
        /\ t_source # NoNode
        /\ mcts[t_mcts].m_nodes[t_source].pos = mcts[s_mcts].m_nodes[s_source].pos

\* What merge() leaves: one node for each position that either tree had, with an
\* exact table; the visits of both in every node but the root, which keeps those
\* of the target; all arcs of the target, and of the source's at least one into
\* each node; no arc that neither had, and none twice.
MergedExact ==
    pc = "merged" =>
      LET m == mcts[t_mcts]
          t == before[t_mcts]
          s == before[s_mcts]
          positions(o) == {o.m_nodes[n].pos : n \in DOMAIN o.m_nodes}
          visits(o, p) == LET n == find(o.m_transposition_table, p)
                          IN  IF n = NoNode THEN 0 ELSE o.m_nodes[n].m_visits
          edges(o) == {<<o.m_nodes[a.source].pos, a.m_move, o.m_nodes[a.target].pos>> :
                          a \in {o.m_arcs[x] : x \in DOMAIN o.m_arcs}}
          root == t.m_nodes[Root].pos
      IN  /\ positions(m) = positions(t) \cup positions(s)
          /\ DOMAIN m.m_transposition_table = positions(m)
          /\ \A n \in DOMAIN m.m_nodes :
                m.m_transposition_table[m.m_nodes[n].pos] = n
          /\ visits(m, root) = visits(t, root)
          /\ \A p \in positions(m) \ {root} : visits(m, p) = visits(t, p) + visits(s, p)
          /\ edges(t) \subseteq edges(m) /\ edges(m) \subseteq edges(t) \cup edges(s)
          /\ \A p \in positions(s) \ {root} : \E e \in edges(s) \cap edges(m) : e[3] = p
          /\ Cardinality(edges(m)) = Len(m.m_arcs)
          /\ m.m_path = << Root >>

\* merge() ends, and leaves one object.
MergeReturns == pc = "merge" ~> pc = "merged"
=============================================================================
