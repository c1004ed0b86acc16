------------------------------ MODULE ArcLists ------------------------------
(***************************************************************************)
(* How rt::Tree (old/stable_rooted_digraph-1.1.hpp) stores a digraph: arcs *)
(* and nodes in two arenas that only grow, and threaded through the arcs   *)
(* two singly linked lists per node, of its arcs in and of its arcs out.   *)
(* Ids are positions in the arenas; the code counts from 0, here from 1,   *)
(* and 0 is invalid_arc and invalid_node.                                  *)
(***************************************************************************)
EXTENDS Integers, Sequences, FiniteSets

invalid_arc  == 0
invalid_node == 0
root_arc     == 1

\* UnpaddedArcType and UnpaddedNodeType as constructed.
NewArc(s, t) == [source |-> s, target |-> t,
                 next_in |-> invalid_arc, next_out |-> invalid_arc]
NewNode(a)   == [head_in |-> a, tail_in |-> a,
                 head_out |-> invalid_arc, tail_out |-> invalid_arc]

\* The arcs that a loop from head along next meets before invalid_arc: with a
\* plain iterator, or with one that locks while nobody else holds a lock.  A loop
\* that runs in a circle meets more arcs than there are.
ListFrom(head, next) ==
    LET at[k \in 1 .. Len(next) + 1] ==
            IF k = 1 THEN head
            ELSE LET prev == at[k - 1]
                 IN  IF prev = invalid_arc THEN invalid_arc ELSE next[prev]
    IN  [k \in 1 .. Cardinality({i \in DOMAIN at : at[i] # invalid_arc}) |-> at[k]]

\* What InIt and OutIt step through at node n.
InArcs(arcs, nodes, n) ==
    ListFrom(nodes[n].head_in, [a \in DOMAIN arcs |-> arcs[a].next_in])
OutArcs(arcs, nodes, n) ==
    ListFrom(nodes[n].head_out, [a \in DOMAIN arcs |-> arcs[a].next_out])

LastOf(list) == IF list = << >> THEN invalid_arc ELSE list[Len(list)]
ElementsOf(list) == {list[k] : k \in DOMAIN list}
=============================================================================
