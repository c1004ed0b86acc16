--------------------------- MODULE RootedDigraph ---------------------------
(***************************************************************************)
(* rt::Tree of old/stable_rooted_digraph-1.1.hpp, the tree that prune() of *)
(* mcts.hpp was written after, and rt::Tree < ArcData, NodeData, false >   *)
(* of version 1.2.  Their locks are SRWLock<false> and lock nothing, so    *)
(* addNode() and addArc() are addNodeUnsafe() and addArcUnsafe(): one      *)
(* client owns the tree.  It adds nodes and arcs (also back to an          *)
(* ancestor: it is a digraph), moves the root, clears the tree, and cuts   *)
(* out the part below a node, depth first or breadth first, to go on with  *)
(* either tree.                                                            *)
(***************************************************************************)
EXTENDS ArcLists

CONSTANTS
    MaxNodes,   \* bounds of the arenas of the first tree
    MaxArcs

ASSUME DigraphAssumption ==
    /\ MaxNodes \in Nat \ {0}
    /\ MaxArcs \in Nat \ {0}

VARIABLES
    pc,         \* "client", "slice" inside sliceDF() or sliceBF(), "sliced"
    tree,       \* m_arcs and m_nodes
    root_node,
    \* Parameters and locals of sliceDF() and sliceBF().
    new_srd, old_node, order, visited, work, parent, a,
    \* The data that the arcs and nodes of new_srd hold: all that matters is
    \* whose data it is, so it is the id of an arc or node of tree (or 0, as
    \* constructed).
    arc_data, node_data

new     == <<new_srd, arc_data, node_data>>
slicing == <<new, old_node, order, visited, work, parent, a>>
vars    == <<pc, tree, root_node, slicing>>

\* Tree(): the root and the arc that leads to it from nowhere.
Tree == [m_arcs  |-> << NewArc(invalid_node, 1) >>,
         m_nodes |-> << NewNode(root_arc) >>]

NodeIds == DOMAIN tree.m_nodes

-----------------------------------------------------------------------------
(* Adding.                                                                 *)

\* Mutant: the tail is not moved on.
AppendOut_mutant(tr, s, arc) ==
    IF tr.m_nodes[s].head_out = invalid_arc
    THEN [tr EXCEPT !.m_nodes[s].head_out = arc, !.m_nodes[s].tail_out = arc]
    ELSE [tr EXCEPT !.m_arcs[tr.m_nodes[s].tail_out].next_out = arc]

\* The arc becomes the last one out of s.
AppendOut(tr, s, arc) ==
    IF tr.m_nodes[s].head_out = invalid_arc
    THEN [tr EXCEPT !.m_nodes[s].head_out = arc, !.m_nodes[s].tail_out = arc]
    ELSE [tr EXCEPT !.m_arcs[tr.m_nodes[s].tail_out].next_out = arc,
                    !.m_nodes[s].tail_out = arc]

\* addNodeUnsafe().
addNode(tr, s) ==
    LET arc == Len(tr.m_arcs) + 1
        t   == Len(tr.m_nodes) + 1
    IN  AppendOut([m_arcs  |-> Append(tr.m_arcs, NewArc(s, t)),
                   m_nodes |-> Append(tr.m_nodes, NewNode(arc))], s, arc)

\* addArcUnsafe().
addArc(tr, s, t) ==
    LET arc   == Len(tr.m_arcs) + 1
        added == [tr EXCEPT !.m_arcs = Append(@, NewArc(s, t))]
    IN  AppendOut([added EXCEPT !.m_arcs[tr.m_nodes[t].tail_in].next_in = arc,
                                !.m_nodes[t].tail_in = arc], s, arc)

AddNode ==
    /\ pc = "client"
    /\ Len(tree.m_nodes) < MaxNodes /\ Len(tree.m_arcs) < MaxArcs
    /\ \E s \in NodeIds : tree' = addNode(tree, s)
    /\ UNCHANGED <<pc, root_node, slicing>>

AddArc ==
    /\ pc = "client"
    /\ Len(tree.m_arcs) < MaxArcs
    /\ \E s, t \in NodeIds : tree' = addArc(tree, s, t)
    /\ UNCHANGED <<pc, root_node, slicing>>

\* setRoot(), and resetRoot() when n is the first node: the root arc gets a new
\* target and stays in the list of the first node.
SetRoot ==
    /\ pc = "client"
    /\ \E n \in NodeIds :
          /\ root_node' = n
          /\ tree' = [tree EXCEPT !.m_arcs[root_arc].source = invalid_node,
                                  !.m_arcs[root_arc].target = n]
    /\ UNCHANGED <<pc, slicing>>

\* clearUnsafe().
Clear ==
    /\ pc = "client"
    /\ tree' = Tree
    /\ root_node' = 1
    /\ UNCHANGED <<pc, slicing>>

-----------------------------------------------------------------------------
(* sliceDF() and sliceBF().                                                *)

\* An old_node that does not exist leaves the new tree as it was constructed.
\* The root_node of this tree serves as that of the new one, which has only its
\* first node: the client has to call resetRoot() before it slices.
Slice ==
    /\ pc = "client"
    /\ root_node = 1
    /\ order' \in {"DF", "BF"}
    /\ old_node' \in NodeIds \cup {invalid_node}
    /\ new_srd' = Tree /\ arc_data' = << 0 >>
    /\ node_data' = [<< 0 >> EXCEPT ![root_node] = old_node']
    /\ visited' = [n \in NodeIds |-> IF n = old_node' THEN root_node
                                                      ELSE invalid_node]
    /\ work' = IF old_node' = invalid_node THEN << >> ELSE << old_node' >>
    /\ parent' = invalid_node /\ a' = invalid_arc
    /\ pc' = "slice"
    /\ UNCHANGED <<tree, root_node>>

\* Mutant: a node without arcs out is skipped before it is taken off.
SlicePop_mutant ==
    /\ pc = "slice"
    /\ a = invalid_arc
    /\ work # << >>
    /\ parent' = IF order = "DF" THEN work[Len(work)] ELSE Head(work)
    /\ a' = tree.m_nodes[parent'].head_out
    /\ work' = CASE a' = invalid_arc -> work
                 [] order = "DF" -> SubSeq(work, 1, Len(work) - 1)
                 [] OTHER -> Tail(work)
    /\ UNCHANGED <<pc, tree, root_node, new, old_node, order, visited>>

\* Take a node: sliceDF() from the back, sliceBF() from the front.
SlicePop ==
    /\ pc = "slice"
    /\ a = invalid_arc
    /\ work # << >>
    /\ parent' = IF order = "DF" THEN work[Len(work)] ELSE Head(work)
    /\ work' = IF order = "DF" THEN SubSeq(work, 1, Len(work) - 1) ELSE Tail(work)
    /\ a' = tree.m_nodes[parent'].head_out
    /\ UNCHANGED <<pc, tree, root_node, new, old_node, order, visited>>

\* Copy the child that arc a leads to, and the arc.
CopyChild(child) ==
    /\ new_srd' = addNode(new_srd, visited[parent])
    /\ visited' = [visited EXCEPT ![child] = Len(new_srd.m_nodes) + 1]
    /\ work' = Append(work, child)
    /\ node_data' = Append(node_data, child)

\* Mutant: the arc is copied in the wrong direction.
CopyArc_mutant(child) ==
    /\ new_srd' = addArc(new_srd, visited[child], visited[parent])
    /\ UNCHANGED <<visited, work, node_data>>

\* Copy an arc to a child that the new tree has.
CopyArc(child) ==
    /\ new_srd' = addArc(new_srd, visited[parent], visited[child])
    /\ UNCHANGED <<visited, work, node_data>>

\* One turn of the loop over the arcs out of parent.
SliceArc ==
    /\ pc = "slice"
    /\ a # invalid_arc
    /\ LET child == tree.m_arcs[a].target
       IN  \/ visited[child] = invalid_node /\ CopyChild(child)
           \/ visited[child] # invalid_node /\ CopyArc(child)
    /\ arc_data' = Append(arc_data, a)
    /\ a' = tree.m_arcs[a].next_out
    /\ UNCHANGED <<pc, tree, root_node, old_node, order, parent>>

SliceReturn ==
    /\ pc = "slice"
    /\ a = invalid_arc
    /\ work = << >>
    /\ pc' = "sliced"
    /\ UNCHANGED <<tree, root_node, slicing>>

\* The client goes on with the old or with the new tree.
Adopt ==
    /\ pc = "sliced"
    /\ pc' = "client"
    /\ tree' \in {tree, new_srd}
    /\ new_srd' = Tree /\ arc_data' = << 0 >> /\ node_data' = << 0 >>
    /\ old_node' = invalid_node
    /\ order' = "DF" /\ visited' = << >> /\ parent' = invalid_node
    /\ UNCHANGED <<root_node, work, a>>

-----------------------------------------------------------------------------
Init ==
    /\ pc = "client"
    /\ tree = Tree
    /\ new_srd = Tree /\ arc_data = << 0 >> /\ node_data = << 0 >>
    /\ root_node = 1
    /\ old_node = invalid_node /\ order = "DF"
    /\ visited = << >> /\ work = << >> /\ parent = invalid_node /\ a = invalid_arc

SliceStep == SlicePop \/ SliceArc \/ SliceReturn

Next == AddNode \/ AddArc \/ SetRoot \/ Clear \/ Slice \/ SliceStep \/ Adopt

\* A slice that has started keeps running; the client need not do anything.
Spec == Init /\ [][Next]_vars /\ WF_vars(SliceStep)

-----------------------------------------------------------------------------
(* Properties.                                                             *)

\* The lists of a tree hold its arcs: each list out of a node, from head to
\* tail, is exactly the arcs that have the node as source, and each list in the
\* arcs that have it as target, in the order in which they were added, none
\* twice; the root arc is in the list of the first node wherever setRoot() has
\* made it point.
Listed(tr) ==
    LET inc(list) == \A j, k \in DOMAIN list : j < k => list[j] < list[k]
        arcs == DOMAIN tr.m_arcs \ {root_arc}
    IN  \A n \in DOMAIN tr.m_nodes :
          LET in  == InArcs(tr.m_arcs, tr.m_nodes, n)
              out == OutArcs(tr.m_arcs, tr.m_nodes, n)
          IN  /\ inc(in) /\ inc(out)
              /\ ElementsOf(out) = {x \in arcs : tr.m_arcs[x].source = n}
              /\ ElementsOf(in) = {x \in arcs : tr.m_arcs[x].target = n}
                                  \cup (IF n = 1 THEN {root_arc} ELSE {})
              /\ tr.m_nodes[n].tail_in = LastOf(in)
              /\ tr.m_nodes[n].tail_out = LastOf(out)

\* After every addNode(), addArc(), setRoot() and at every turn of a slice the
\* linked lists of both trees are exact, so no arc is lost to an iterator.
ListsExact == Listed(tree) /\ Listed(new_srd)

\* The nodes of the tree that old_node leads to: those in every set of nodes that
\* has old_node and that no arc leads out of.
Below ==
    LET closed(ns) == \A x \in DOMAIN tree.m_arcs :
                         tree.m_arcs[x].source \in ns => tree.m_arcs[x].target \in ns
    IN  {n \in NodeIds : \A ns \in SUBSET NodeIds :
                             old_node \in ns /\ closed(ns) => n \in ns}

\* sliceDF() and sliceBF() copy exactly what old_node leads to, cycles and nodes
\* with several arcs in included: one new node for each node, with its data and
\* with the same arcs out, in their order and with their data.
SliceExact ==
    pc = "sliced" /\ old_node # invalid_node =>
      LET copied == {n \in NodeIds : visited[n] # invalid_node}
          out(n)    == OutArcs(tree.m_arcs, tree.m_nodes, n)
          newOut(n) == OutArcs(new_srd.m_arcs, new_srd.m_nodes, visited[n])
      IN  /\ copied = Below
          /\ visited[old_node] = 1
          /\ {visited[n] : n \in copied} = DOMAIN new_srd.m_nodes
          /\ Cardinality(copied) = Len(new_srd.m_nodes)
          /\ \A n \in copied :
                /\ node_data[visited[n]] = n
                /\ Len(newOut(n)) = Len(out(n))
                /\ \A k \in DOMAIN out(n) :
                      /\ arc_data[newOut(n)[k]] = out(n)[k]
                      /\ new_srd.m_arcs[newOut(n)[k]].target =
                            visited[tree.m_arcs[out(n)[k]].target]

\* A slice ends, also of a tree with cycles.
SliceReturns == pc = "slice" ~> pc = "sliced"
=============================================================================
