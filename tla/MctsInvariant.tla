--------------------------- MODULE MctsInvariant ---------------------------
(***************************************************************************)
(* The inductive invariant from which MctsProofs derives the safety        *)
(* properties of Mcts.  The properties are not inductive by themselves:    *)
(* that a node's moves are accounted for after prune_impl() depends on     *)
(* what has been copied at every turn of its loop, and that the best move  *)
(* is legal depends on the root having been expanded by some iteration.    *)
(***************************************************************************)
EXTENDS Mcts

\* main's State always knows its winner.
WinnerKnown == state.winner = outcome[state.pos]

\* An object that was never initialized is blank; any other has a root and a
\* path.
ObjectShape ==
    /\ m_not_initialized => m_nodes = << >>
    /\ ~ m_not_initialized => root_node \in NodeIds /\ m_path # << >>

\* compute() runs on an initialized object, in an unfinished match, when it is
\* this player's turn.
Phases ==
    /\ pc \in {"search", "select", "playout", "play"} =>
          /\ ~ m_not_initialized
          /\ state.winner = invalid
          /\ playerToMove(state) = Self
    /\ pc = "select" => search.winner = invalid
    /\ pc = "playout" => node \in NodeIds /\ playouts # 0

\* Locals are blank where they are out of scope, and outside of an iteration
\* the path has nothing but its permanent part.
Locals ==
    /\ pc \notin {"select", "playout"} =>
          node = NoNode /\ Len(m_path) = m_path_size
    /\ pc # "copy" =>
          /\ new_nodes = << >> /\ new_arcs = << >>
          /\ stack = << >> /\ parent = NoNode /\ out_arcs = {}

Accounted(n) ==
    /\ m_nodes[n].m_moves \cap Tried(n) = {}
    /\ m_nodes[n].m_moves \cup Tried(n) = Offered(m_nodes[n].pos)

\* MoveAccounting, with what is left of it during prune_impl(): a node that
\* has not been copied still has its moves.
Accounting ==
    /\ \A n \in NodeIds : (pc = "copy" => visited[n] = NoNode) => Accounted(n)
    /\ \A a, b \in ArcIds :
          /\ m_arcs[a].source = m_arcs[b].source
          /\ m_arcs[a].m_move = m_arcs[b].m_move
          => a = b

\* The first iteration of compute() leaves the root with a child.
RootTried ==
    \/ pc = "playout"
    \/ pc = "search" /\ max_iterations < MaxIterations
    \/ pc = "select" /\ node # root_node
    => hasChildren(root_node)

\* The target of an arc has been visited, unless its first playout is running.
TargetsVisited ==
    \A a \in ArcIds : \/ m_nodes[m_arcs[a].target].m_visits > 0
                      \/ pc = "playout" /\ m_arcs[a].target = node

\* Arc a has been copied by prune_impl(): its source has been taken off the
\* stack and a is not one of the arcs the inner loop still has to look at.
Copied(a) ==
    LET o == m_arcs[a].source
    IN  /\ visited[o] # NoNode
        /\ \A i \in 1..Len(stack) : stack[i] # o
        /\ o = parent => a \notin out_arcs

\* Arc b of the new tree is the copy of arc a.
CopyOf(a, b) ==
    /\ new_arcs[b].source = visited[m_arcs[a].source]
    /\ new_arcs[b].target = visited[m_arcs[a].target]
    /\ new_arcs[b].m_move = m_arcs[a].m_move

CopyStack ==
    /\ \A i, j \in 1..Len(stack) : stack[i] = stack[j] => i = j
    /\ \A i \in 1..Len(stack) : visited[stack[i]] # NoNode /\ stack[i] # parent
    /\ parent # NoNode => visited[parent] # NoNode
    /\ \A a \in out_arcs : m_arcs[a].source = parent

\* Every copied node is in the new tree with its data, and nothing else is.
CopyNodes ==
    /\ \A k \in DOMAIN new_nodes : \E o \in NodeIds : visited[o] = k
    /\ \A o \in NodeIds : visited[o] # NoNode =>
          LET k == visited[o]
          IN  /\ new_nodes[k].pos = m_nodes[o].pos
              /\ new_nodes[k].m_visits = m_nodes[o].m_visits
              /\ new_nodes[k].m_moves \cap Tried(o) = {}
              /\ new_nodes[k].m_moves \cup Tried(o) = Offered(m_nodes[o].pos)

\* The arcs of the new tree are the copies of the arcs copied so far, one each.
CopyArcs ==
    /\ \A a \in ArcIds : Copied(a) => \E b \in DOMAIN new_arcs : CopyOf(a, b)
    /\ \A b \in DOMAIN new_arcs : \E a \in ArcIds : Copied(a) /\ CopyOf(a, b)
    /\ \A b, c \in DOMAIN new_arcs :
          /\ new_arcs[b].source = new_arcs[c].source
          /\ new_arcs[b].m_move = new_arcs[c].m_move
          => b = c

CopyInv ==
    pc = "copy" =>
      /\ ~ m_not_initialized
      /\ getNode(state.pos) # NoNode
      /\ visited[getNode(state.pos)] = 1
      /\ CopyStack
      /\ CopyNodes
      /\ CopyArcs

\* The inductive invariant of Mcts: every step of compute(), the match loop,
\* prune() and reset() preserves it, and it implies the safety properties.
IInv ==
    /\ TypeOK
    /\ WinnerKnown
    /\ ObjectShape
    /\ Phases
    /\ Locals
    /\ TableExact
    /\ ArcsFollowGame
    /\ Accounting
    /\ RootIsState
    /\ InSync
    /\ RootTried
    /\ TargetsVisited
    /\ PathFromRoot
    /\ BestMoveLegal
    /\ CopyInv

-----------------------------------------------------------------------------
(* Two more invariants, on top of IInv: LineInv for PlayoutCounts and      *)
(* KeepInv for PruneExact.                                                 *)

\* The depths of the positions along the path.
Line == [i \in 1..Len(m_path) |-> depth[m_nodes[m_path[i].target].pos]]

\* From its second link on the path goes down in depth, and between searches it
\* ends above what the match has reached: what compute() pushes next, the
\* state's node, is a new position also if reset() has kept the old path.
LineInv ==
    /\ \A i, j \in 2..Len(m_path) : i < j => Line[i] > Line[j]
    /\ Len(m_path) >= 2 =>
          /\ pc = "play" => Line[Len(m_path)] >= depth[play[<<state.pos, best_move>>]]
          /\ pc \in {"main", "prune", "copy", "reset"} =>
                /\ Line[Len(m_path)] >= depth[state.pos]
                /\ playerToMove(state) = Self => Line[Len(m_path)] > depth[state.pos]

\* What prune_impl() has copied so far: the rest of a node's data, and nothing
\* but the new root that no copied node leads to.
KeepInv ==
    pc = "copy" =>
      \A o \in NodeIds : visited[o] # NoNode =>
        /\ Statistics(new_nodes[visited[o]]) = Statistics(m_nodes[o])
        /\ \/ o = getNode(state.pos)
           \/ \E a \in ArcIds : m_arcs[a].target = o /\ visited[m_arcs[a].source] # NoNode
=============================================================================
