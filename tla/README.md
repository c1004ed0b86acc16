# A verification of MCTSConnectFour

The program plays 1000 matches of Oska (or, built with `CF 1`, of Connect Four)
between two Monte Carlo tree searches and prints how often each side wins. This
directory holds TLA+ models of its search, its match loop, its two games and the
two older versions of its search tree, the TLC configurations that check them on small
instances, and TLAPS proofs that hold for every instance: of the search and its pruning and
merging, for every game and any number of iterations; of the pool in which nodes keep their
moves; of Oska and Connect Four, for every board size; and of the older trees, for any
number of nodes, arcs and threads.

## The system

| component | source | state | operations |
|---|---|---|---|
| match loop | `main.cpp` | one `State`, two `Mcts` objects | create, move, prune, end, delete |
| search | `mcts.hpp` `Mcts` | tree, transposition table, path | `compute`, and in it `initialize`, `connectStatesPath`, `selectChildUCT`, `addChild`, `updateData`, `getBestMove` |
| tree upkeep | `mcts.hpp` `Mcts` | the same, and a second object while pruning | `prune`, `prune_impl`, `reset` |
| tree merging, statistics | `mcts.hpp` | two objects | `merge`, `invertTranspositionTable`, `numTranspositions` (never called) |
| node data | `mcts.hpp` `NodeData`, `pool_allocator.*`, `owningptr.hpp`, `moves.hpp` | untried moves in a pooled block, visits, score | draw a move, move, copy, destroy |
| Oska | `oska.hpp`, `multi_array.hpp` | two mirrored boards, two lists of stones, home counters, hash, player to move, winner | `initialize`, `moves`, `move_hash`, `move_hash_winner`, `move_winner`, `winner`, `simulate`, `humanMove`, `randomMove` |
| Connect Four | `connect_four.hpp` | board, number of moves, hash, player who moved, winner | `initialize`, `moves`, `move`, `hash`, `winner`, `simulate` |
| player | `player.hpp` | a signed byte | `opponent`, `next`, `occupied` |
| search tree | `fst::SearchTree`, in another repository | nodes and arcs | used through `addNode`, `addArc`, `link`, iterators |
| older tree | `old/stable_rooted_digraph-1.1.hpp`, `-1.2.hpp` | two arenas, two linked lists of arcs per node, a reader-writer lock per arc and node | `addNode`, `addArc`, `setRoot`, `clearUnsafe`, iterators, `sliceDF`, `sliceBF` |
| tic-tac-toe | `old/tictactoe.*` | | no longer built |
| serialization, random numbers, timers, pixels | `globals.*`, `splitmix.hpp`, `autotimer.hpp`, `resourcedata.hpp` | | |

How they interact: the match loop asks the side to move for a move
(`compute(state, n)`), makes it on its `State` (`move_hash_winner`), and then
prunes the object of the side that is now to move, so each object is pruned with
the position in which it will be asked next. A search copies the `State`, walks
the copy down the tree (`move_hash`, which hashes and does not look for
a winner), adds one node (`move_hash_winner`), and plays three random games on
further copies (`move_winner`, which looks for a winner and does not hash). Nodes
are found again through the hash of the position, so the tree is a directed
acyclic graph. The program has one thread and persists nothing. What it prepares for
several threads is in two places: `merge`, which joins the trees that independent
searches of one position have grown, and the locking tree of `old/`, which several
threads may grow together.

What is hard, and so what the properties are about:

* `prune_impl` rebuilds tree, ids, table and path in a loop that moves data out of
  one tree while arcs of that tree still lead there; transpositions make it meet
  nodes twice.
* `prune` of an unknown position initializes the object that it then deletes.
* One path serves as record of the match and as scratch pad of an iteration.
* Transpositions: a node is linked under parents that never scored it, and its
  table entry must be that of its position.
* The search divides by visits, fills a vector of fixed capacity, and returns
  `Move::none` if the root of an inherited tree has no child.
* An Oska `State` holds its position four times over, in two perspectives, and
  updates each incrementally.
* The untried moves of a node are an array in a pool shared by all trees, passed from
  object to object by pointer swaps; a free slot's link overlays the array.
* `merge` walks one tree and writes another that has other ids, and relies on finding
  every parent there.
* The locking tree takes its locks one by one and reads list heads and links without
  them; its iterators hold the lock of an arc from one step to the next.
* `winner` of Connect Four only looks at lines through the last piece and skips
  the halves of lines in which four cannot fit.

`PROJECT.json` lists these hazards at their lines with the properties that cover
them.

## Modules

| module | models |
|---|---|
| `Player` | `player.hpp` |
| `Game` | what `mcts.hpp` asks of its `State` parameter: positions, moves, winners, as CONSTANTS with the assumptions `GameTypes` and `GameRules` |
| `LegalPlay` | abstract: what the match loop promises about a match |
| `Mcts` | one player's `Mcts` object inside the match loop, with its properties |
| `MctsInvariant` | the inductive invariant `IInv`, and `LineInv` and `KeepInv` on top of it |
| `MctsProofs` | the theorems about them |
| `MCMcts` | the games on which TLC checks `Mcts` |
| `OskaBoard` | the geometry and numbering of the hexagons |
| `OskaRules` | abstract: the rules of Oska, as stones on one board |
| `Oska` | `OskaStateTemplate`, its use by the match loop and by a search |
| `OskaProofs` | the theorems about it |
| `UntriedMoves` | abstract: one set of untried moves per node |
| `MovesPool` | `NodeData`'s pointer, the array `Moves`, the pool and its destructor |
| `MovesPoolProofs` | the theorems about them |
| `MCMovesPool` | the symmetries of TLC's instance |
| `ConnectFour` | `ConnectFour<NumRows, NumCols>` and its use by the match loop |
| `ConnectFourProofs` | the theorems about it |
| `Merge` | `merge` and the two searches before it |
| `MergeProofs` | the theorems about it |
| `MCMerge` | the game on which TLC checks it |
| `ArcLists` | how the older tree stores arcs and nodes, shared by the two trees |
| `ArcListProofs` | lemmas about its linked lists |
| `RootedDigraph` | the older tree without locks, and its slices |
| `RootedDigraphProofs` | the theorems about it |
| `LockedTree` | the older tree with its locks, shared by threads |
| `LockedTreeProofs` | the theorems about it |

Operators whose names end in `_mutant` are the changed definitions that the
mutants of `PROJECT.json` put in place of the definition that follows them; no
definition uses them.

### Mcts

The variables are the members of the object (`m_nodes` and `m_arcs` for
`m_tree`, `root_node`, `m_transposition_table`, `m_not_initialized`, `m_path`,
`m_path_size`), main's `state`, and the locals of `compute` and `prune_impl`.
`pc` is where the thread is:

| `pc` | actions | code |
|---|---|---|
| `main` | `Compute`, `OpponentMove`, `NextMatch` | `main.cpp` 60-86, head of `compute` |
| `search` | `Iterate`, `GetBestMove` | head of the `while` loop, `getBestMove` |
| `select` | `Select`, `Expand`, `Leaf` | selection loop and expansion |
| `playout` | `Simulate`, `Backpropagate` | `simulate`, `updateData`, `m_path.resize` |
| `play` | `PlayBestMove` | `main.cpp` 67 |
| `prune`, `copy` | `PruneUnknown`, `PruneRoot`, `PrunePop`, `PruneArc`, `PruneSwap` | `prune`, `prune_impl` |
| `reset` | `Reset` | `reset` |

The other player is any legal answer (`OpponentMove`): its own object has no
influence on this one but through the `state`. The CONSTANT `Upkeep` says which of
`prune`, as main calls it, and `reset`, which has the same purpose and the same calling
convention, may be called after an answer; with both, each turn of the match may use
either on the object that the other has left.

main makes the move of `compute` without a test. `PlayBestMove` has none either: a move
that the position does not offer leaves any `state` at all. That matches are legal play
(`PlaysLegally`) is so a consequence of what the search returns (`BestMoveLegal`).

Abstractions. The position stands for its 64-bit hash: `HashOfBoard` of the two
games shows that the hash is a function of the position with all keys accounted
for; collisions by chance are left out. Which child has the best UCT value
depends on floating point scores: `Select` takes any child, so what is shown holds
for every formula. `getBestMove` takes one of the most visited children (the order
in which the tree iterates over arcs is not in the repository). Scores are
integers; a result is -1, 0 or 1. `NodeData` has a history variable `pos`, the
position it was built from, which no step reads. `LinksTo`, `OutArcs` and `emplace`
are external: the tree class and the hash map, as the code uses them.

### Oska

`phase` says what the one `State` object that the model follows is: main's State
(`match`), or the copy that a search makes of it at any point of a match and then
moves down the tree (`select`), expands (`leaf`) and plays out (`playout`). A
search can only walk along arcs, and the tree has arcs only from positions
that were undecided when their node was built: `StillOpen`. The operations are
operators on the State, each translated once for both sides (the code writes
`at` for the agent and `at_r` for the human; `Id`, `Loc` and `Put` choose). The
hash is the set of keys XORed an odd number of times. `randomMove` is the set of its
possible results over all draws of stones and coins.

`OskaRules` is written from the rules and not from the code: one board, no ids, no
counters. `PlaysOska` shows that the match which the redundant State plays is a match
of those rules.

### MovesPool

What lies under the set of moves that `Mcts` gives a node. `m_moves` is the pointer
of each `NodeData`, `pool` the members of the one `pool_allocator` with its memory
(`mem`) and the headers of its blocks (`block_next`), `alive` which objects are
between constructor and destructor. The tree class that constructs, copies, moves and
destroys them is not in the repository, so objects do so in any order; an action is one
special member function, `getUntriedMove`, or the destruction of the pool at the end of
the program. A slot is a union: writing the link of the free list destroys the array.
`allocate_block` sets `m_last_slot` one chunk after the first slot, so a block yields
one array although `MinAlloc` (8) would fit; the model keeps this. A pointer is a pair
of block and index, because the code compares pointers only inside a block.
`VirtualAlloc` is external and always succeeds. `committed` and `returned` record what
the operating system and the caller see.

### ConnectFour

main's State playing matches. `Run` is the counting loop that `winner` has eight
times; the four tests with their shortcuts are translated one by one.

### Merge

Two objects search one position, an iteration of `compute` in one step (its middle is
the subject of `Mcts`), stop after any number of iterations, and are merged; a step of
the merge is one node taken from the queue or one arc. `merge` is a template that nothing
instantiates: it writes `t_t [ link.target.value ]` where the tree is indexed by ids,
and is modelled with the arc or node that each number stands for. `m_visits` stands for
visits and score, which are added alike.

What `MergedExact` pins down includes what a caller may not expect: the root keeps the
statistics of the target only; of several arcs of the source into one node only the
first that the walk meets is taken over; the move of an arc that is added to a node of the target
stays among that node's untried moves.

### ArcLists, RootedDigraph

Ids count from 1, and 0 stands for both invalid ids. Arcs and nodes carry their data only
where a slice copies it (`arc_data`, `node_data`), as the id of the element whose data it
is. In version 1.1 all locks are `SRWLock<false>`, and in version 1.2 with
`Locking = false`, so there `addNode` and `addNodeUnsafe` are the same. A slice is one step
per node taken and per arc copied. It numbers the new root by this tree's `root_node`,
which the new tree has only if that is the first node, so the model's client slices only
with the root reset.

### LockedTree

A thread makes one call at a time; `pc` and `call` hold its place and its locals. A step
ends where another thread can see a difference: at a lock that is taken, an element that
is emplaced, a field that others read without a lock. `SRWLock` is external, any number of
readers or one writer, as is `tbb::concurrent_vector`, whose elements stay where they are.
`setSourceTarget` has not run when the arc of a new node can already be reached, so its
ends are `Uninitialized` there. A loop over arcs is a `call` of one of the kinds
`ArcIt_`, `QueingArcIt_` (each over arcs in or out, locking to read or write) and the plain
`InIt`, `OutIt`; it may be left early after the tree's `unlock`. The loops and additions of
one thread do not nest: adding from the body of a loop would wait for the lock that the
thread's own iterator may hold, which the locks do not support.

`LoopsExact` records what `QueingArcIt_` does: its constructor puts `invalid_arc` in front of
the queue, so at the end of the list the iterator takes that and stops. The arcs it found
busy stay in the queue and are not visited. No property rejects that: nothing says what a
queueing loop promises, and nothing calls it. Two fields of a loop's `call` are not in the
code: `due`, the arcs in the list when the loop starts, and `seen`, those its body was given.

## Runs

| run | instance | checks |
|---|---|---|
| `mcts_prune` | 13 positions, 3 iterations, 1 playout, prune and reset | `TypeOK`, `TableExact`, `InSync`, `RootIsState`, `ChildrenVisited`, `PathFromRoot`, `BestMoveLegal`, `PlayoutCounts`, `ComputeReturns`, `PlaysLegally` |
| `mcts_diamond` | 7 positions, 10 iterations, 3 playouts, prune | `IInv`, `ArcsFollowGame`, `MoveAccounting`, `PruneExact` |
| `mcts_final_state` | 13 positions, prune | violated: `FinalStateScored` |
| `oska_match` | size 3, all matches | `EndsAsDocumented`, `HumanMovesComplete`, `RandomMoveExact`, `PlaysOska` |
| `oska_search` | size 3, all matches and all copies a search can make | `ViewsAgree`, `HashOfBoard`, `MovesBringEndNearer` |
| `oska_draw` | size 4 | violated: `EveryMatchHasAWinner` |
| `oska_human` | size 3 | violated: `HumanJumpsForwards` |
| `moves_pool` | 3 objects, arrays of up to 3 moves | `TypeOK`, `SoleOwner`, `FreeListExact`, `MovesIntact`, `MemoryBounded`, `ImplementsSets` |
| `connect_four_match` | 4 by 4, all matches | `WinnerHasLine`, `HashOfBoard`, `PiecesStacked` |
| `mcts_merge` | 6 positions, 8 iterations between two searches | `ParentExists`, `MergedExact`, `MergeReturns` |
| `tree_slice` | 4 nodes, 5 arcs | `ListsExact`, `SliceExact`, `SliceReturns` |
| `tree_threads` | 2 threads, 3 nodes, 4 arcs, 4 calls | `NoArcLost`, `WholeArcs`, `LoopsExact`, `CallsReturn` |

What each run shows:

* `mcts_prune`: over a whole match with a prune or a reset after every answer, no id dangles, the
  table and the tree correspond one to one, the State copy of a selection is in the
  position of its node, a search starts at the node of the match's position, no
  division by zero visits, the path that is scored is a chain from the root, the
  returned move is legal, a playout counts once in every node of its line (twice only in
  the root that `prune` has put first in the path and `connectStatesPath` pushes again),
  every search returns, and the match refines `LegalPlay`.
* `mcts_diamond`: prune keeps exactly what can be reached from the new root, with all
  arcs and statistics; untried moves and arcs of every node partition its moves.
* `oska_match`, `oska_search`: the four views of a position agree, the hash is
  determined by the board, the end of a match is the documented one, matches are
  finite, the code plays the rules, and a human and `randomMove` have exactly the moves
  that there are (a human also the backward jumps of the findings).
* `moves_pool`: arrays have one owner, no slot is lost or freed twice, the pool grows only
  with the number of live nodes, all blocks are returned, and the whole refines
  `UntriedMoves`.
* `connect_four_match`: the local line search agrees with a search of all lines.
* `mcts_merge`: `merge` finds every parent, and leaves one node per position of either
  tree, with an exact table and the visits of both (but for the root).
* `tree_slice`: after any additions the lists hold each arc once and in order; a slice is
  a copy of what the node leads to, and ends on cyclic graphs too.
* `tree_threads`: concurrent additions lose no arc, an arc is whole before a loop that
  locks it, or goes over arcs out, is given it (the plain `InIt` takes no lock and may show
  one without its ends), a loop meets all arcs that were there when it started (but those
  that `QueingArcIt_` found busy), and there is no deadlock.

### Bounds

`MaxIterations` (20000 and 2000 in main) is 3 on the game of 13 positions and 10 on
that of 7; `Playouts` (3 in the code) is 1 or 3. Three iterations per search expand
the root and one of its children, reach a node through a second path, and leave
trees in which the answer of the other side is known and ones in which it is not:
all actions are taken. Ten iterations expand the game of 7 positions completely, so
prune meets a node through two arcs. The games have the shapes that matter:
transpositions, forced moves, a draw, a win with moves left and one without.
The proofs have none of these bounds.

Oska of size 3 is checked completely. On it there are captures, stones that
get stuck, sides that come home first, and sides that lose all stones. The matches of
size 4 have over a million positions, which takes longer than the runs are meant to; the
violation of `oska_draw` is found there. Connect Four is checked completely on 4 by 4,
the smallest board with lines in all four directions; each shortcut of `winner` depends
on the size only through `NumRows - 4` and `NumCols - 4`. Searches use its `State` as
they use Oska's, but the copies of all of them are too many states.

`mcts_merge`: eight iterations let both searches expand the root and one child, reach a
node along different moves, or one of them grow past the other. The searches may end
early, and so may the program: deadlock is not checked.

`tree_slice`: four nodes and five arcs (one of them the root arc) have cycles, self-loops, parallel
arcs and nodes with several arcs in; the adopted slices of slices are covered as well.

`tree_threads`: a conflict over a lock is between two threads, one of which holds it;
three nodes and three added arcs put the head and the tail of a list, source and target, and one node
in both roles into play; four calls between two threads let each make one call while
the other makes several. The calls run out, so deadlock is not checked as such:
`CallsReturn` says that nobody is left waiting.

`moves_pool`: three objects are enough for a source, a target and a bystander of every
operation and for free lists of up to three slots in every order; arrays of three moves
are drawn from at both ends and in the middle. The program may end, so deadlock is not
checked there.

The proofs about Oska and Connect Four are for boards of every size, main's size 5 and
7 by 6 included.

Symmetry is used in `moves_pool` only, where objects and moves are interchangeable and
all properties are safety properties; positions of a game are not interchangeable.

### Fairness

The program is one thread that waits for nothing: `WF_vars(Next)`, weak fairness of
the whole next-state relation, says only that it keeps running. No choice is
assumed to be fair: `ComputeReturns` and the fairness half of `PlaysLegally` hold
whatever the random numbers are, because every move lowers `depth` (in `Mcts`) or the rows to go (in
Oska, `MovesBringEndNearer`) or fills a cell (in Connect Four).

In `RootedDigraph` and `Merge` only a slice or merge that has started is fair
(`WF_vars(SliceStep)`, `WF_vars(MergeStep)`); nobody need start one. In `LockedTree` every
thread that is inside a call is scheduled again and again (weak fairness of the steps of
each thread). That a thread which waits for a lock is not overtaken for ever is not
assumed, `SRWLock` does not promise it: the number of calls is bounded, so `CallsReturn`
shows the absence of deadlock and not of starvation.

## Findings

* `mcts_final_state`: selection uses `move_hash`, which never calls `winner`. If it
  ends in a node of a finished match, the State that is played out and scored does
  not know that the match is over (`mcts.hpp` 558; the comment at 605 says a final state
  has been reached).
* `oska_draw`: `winner` can store `vacant`, for which main's switch aborts
  (`main.cpp` 89-93).
* `oska_human`: `humanMove` lets a stone jump two rows backwards (`oska.hpp` 653; the
  rules at 72-73 say forwards only).

## Proofs

`MctsProofs` proves, for all values of the constants that satisfy `GameTypes`,
`GameRules` and `SearchAssumption`:

| theorem | states |
|---|---|
| `InductiveInvariant` | `Spec => []IInv` |
| `TypeCorrect` | `Spec => []TypeOK` |
| `TableStaysExact` | `Spec => []TableExact` |
| `TreeFollowsGame` | `Spec => []ArcsFollowGame` |
| `MovesAccounted` | `Spec => []MoveAccounting` |
| `SelectionInSync` | `Spec => []InSync` |
| `SearchStartsAtState` | `Spec => []RootIsState` |
| `UCTDefined` | `Spec => []ChildrenVisited` |
| `PathIsChain` | `Spec => []PathFromRoot` |
| `MoveIsLegal` | `Spec => []BestMoveLegal` |
| `PlayoutsCountOnce` | `Spec => []PlayoutCounts` |
| `PruneKeepsWhatFollows` | `Spec => PruneExact` |
| `MatchRefinesLegalPlay` | `Spec => LegalMatch!Init /\ [][LegalMatch!Next]_state`, the safety half of `PlaysLegally`, from `BestMovePlayed`: the move made untested is legal |

The assumptions about a game are its types, that sides alternate, that nobody has won at
the start, that every move lowers `depth`, and that an undecided position offers
a move. The last three are what `EndsAsDocumented` and `MovesBringEndNearer` of Oska
and `PiecesStacked` of Connect Four say of the real games, and what is proved of them
below. TLC evaluates the assumptions on its instances.

The argument. That the returned move is legal needs more than that arcs are moves:
the root must have a child. It has one after the first iteration (`RootTried`),
because an undecided position offers a move (`GameRules`), untried moves and arcs
together are the moves offered (`Accounting`), and so the first iteration either
finds a child or makes one. That the best move belongs to the match's position needs
`RootIsState`, which after a prune depends on what was copied. Hence the part of the
invariant about the middle of `prune_impl` (`CopyInv`): the stack holds copied nodes
without repetition, the new nodes are exactly the copied ones, with data and
with the moves that the old tree's node had, and the new arcs are exactly the copies of
the arcs out of nodes that have left the stack. When stack and inner loop are
empty this says that the new tree is closed and accounted for, which is what the step
that swaps the objects needs. `TargetsVisited` says that only the node whose first
playout is running may have no visits; with it `ChildrenVisited` follows, also for
children that were linked as transpositions.

`PlayoutCounts` needs `LineInv`: from its second link on the path goes down in depth, so it
holds no node twice, and between searches it ends above the match's position, so the root
that `connectStatesPath` pushes next is a new one, also on the path that `reset` keeps.
`PruneExact` needs `KeepInv`: copies have the statistics of their originals, and every
copied node but the first has an arc from a copied one, so nothing is copied that does not
follow; with `CopyArcs`, nothing that follows is left out.

`MaximumExists` (a non-empty set of arcs has one with the most visits) is proved by
descent along the well-founded order of the naturals.

`MovesPoolProofs` proves, for all sets of objects and moves and all sizes
(`PoolAssumption`):

| theorem | states |
|---|---|
| `PoolInductive` | `Spec => []IInv`, with `IInv` defined there |
| `PoolTypeCorrect` | `Spec => []TypeOK` |
| `SlotsHaveOneOwner` | `Spec => []SoleOwner` |
| `ArraysIntact` | `Spec => []MovesIntact` |
| `FreeListStaysExact` | `Spec => []FreeListExact` |
| `PoolIsBounded` | `Spec => []MemoryBounded` |
| `PoolImplementsSets` | `Spec => ImplementsSets` |

Its invariant says that there is a sequence of slots that the links from
`m_free_slots` run through, without repetition, and that this sequence and the slots
that objects own partition the first slots of all blocks. The sequence is existentially
quantified because the program holds it only as links: allocation takes its tail,
deallocation puts a slot in front. Without it neither the absence of sharing
(a slot on the list twice would be handed out twice) nor the refinement is inductive.
Pool and objects meet in two lemmas, `Gain` and `Lose`, for an object that gets an
array or gives one back; the steps that only swap pointers need `Handed`. `FreeListExact`
is about the walk that `pointer_vector` does: `WalkIsList` shows that the walk meets exactly
the sequence of the invariant. `MemoryBounded` needs `BInv`: a block is added only when
every first slot has an owner, and the object it is added for owns none, so there are never
more blocks than objects (`PoolAssumption` says that these are finitely many).

`ConnectFourProofs`, for all boards of at least 4 by 4:

| theorem | states |
|---|---|
| `CInvHolds` | `Spec => []CInv`, the inductive invariant |
| `WinnerHasLineHolds` | `Spec => []WinnerHasLine` |
| `HashOfBoardHolds` | `Spec => []HashOfBoard` |
| `PiecesStackedHolds` | `Spec => []PiecesStacked` |

While a match is undecided there is no line of four, so a line after the next move runs
through the new piece, and lies along one of four directions. It is there exactly when the
two runs that `winner` counts add up to four; a test that is skipped because of the row or
column could not have counted to four. `Vertical` looks only downwards, which is enough
because pieces stack.

`OskaProofs`, for all boards of size 3 and more (`SizeAssumption`; on a board of size 2
the two home rows would be one):

| theorem | states |
|---|---|
| `OInvHolds` | `SearchSpec => []OInv`, the inductive invariant |
| `ViewsAgreeHolds` | `SearchSpec => []ViewsAgree` |
| `HashOfBoardHolds` | `SearchSpec => []HashOfBoard` |
| `MovesBringEndNearerHolds` | `SearchSpec => MovesBringEndNearer` |
| `EndsAsDocumentedHolds` | `MatchSpec => []EndsAsDocumented` |
| `HumanMovesCompleteHolds` | `MatchSpec => []HumanMovesComplete` |
| `RandomMoveExactHolds` | `MatchSpec => []RandomMoveExact` |
| `PlaysOskaHolds` | `MatchSpec => PlaysOska` |

The code computes the other side's view of an id as `NO_HEXAGONS - 1 - id`. That this is
right for every size rests on counting: the upper half of the board has rows of
S, S - 1, ..., 2 cells, the lower half is its mirror image, and so there are
S (S + 1) - 4 cells (`UpperSize`, `Hexagons`). Ids are the ranks of the cells in reading
order, which mirroring reverses, so the ranks of a cell and of its mirror image add up to
the number of the other cells (`IdFacts`).

The invariant is `ViewsAgree` with the types and with the border: a cell of the matrix
holds `invalid` exactly if it is not on the board. The border is needed because
`ForwardMove` looks two cells ahead without a test; `AheadFacts` shows that it stays
within the matrix. A step of `moveStone`, then of `captureStone`, changes the boards in
three places, and lists, counter and hash at the same cells. The counter needs that a
stone which moves was not at home and that a captured one was not either, else
`m_no_home`, which nothing ever decrements, would count it for ever: behind a stone that is
captured there is another row.

`EndsAsDocumented` says less than `winner` decides; `WinnerFound` says exactly what it does
in terms of stones. `RandomMoveIs` is an induction over the stones not yet put aside, done
with a smallest counterexample. `RowsToGo` is a recursive function, so it is first shown
to be a sum of the sizes of sets. For `PlaysOska` the human's cells are turned round: what
is ahead for the human is below for the agent (`AheadSeen`), so the results of the
rules are the stones after the listed moves (`MoveSeen`, `CanMoveSeen`), and the rules'
verdict is what `winner` finds (`VerdictSeen`).

`ArcListProofs` defines what it means that a sequence is what a linked list holds (`Chain`)
and proves that a loop along the list then meets that sequence, and how appending an arc
changes it. On it rest two modules. `RootedDigraphProofs`, for trees of every size:

| theorem | states |
|---|---|
| `DInvHolds` | `Spec => []DInv`, the inductive invariant |
| `ListsExactHolds` | `Spec => []ListsExact` |
| `SInvHolds` | `Spec => []SInv`, the inductive invariant of a slice |
| `SliceExactHolds` | `Spec => []SliceExact` |

An addition writes to the `next` of one arc, the tail of a list; an arc is only in the lists
of its own ends, so every other list stays as it is. A slice in progress has copied nodes
one to one, and of each copied node a beginning of its list of arcs: nothing while it waits
in the stack or queue, up to `a` for `parent`, all of it otherwise (`Pending`). When nothing
waits, no arc leads out of what is copied, so all that is below `old_node` is; and nothing
else is, since a first copied node outside a closed set would have been met from an earlier
one inside it (`Entered`, `CopiedIsBelow`).

`LockedTreeProofs`, for any number of threads, nodes, arcs and calls:

| theorem | states |
|---|---|
| `LInvHolds` | `Spec => []LInv`, the inductive invariant |
| `WholeArcsHolds` | `Spec => []WholeArcs`, which exempts the plain `InIt` |
| `NoArcLostHolds` | `Spec => []NoArcLost` |
| `ListsOnlyGrowHolds` | `Spec => ListsOnlyGrow`, an action property that only the proofs state |
| `VInvHolds` | `Spec => []VInv`, the inductive invariant of the loops |
| `LoopsExactHolds` | `Spec => []LoopsExact` |

The lists are chains of all arcs but those whose call has not linked them yet; the invariant
says for every place in the code which these are and which locks the thread holds. The
lock on the source keeps the test for an empty list true until the head is written, and the
lock on the arc that `addNode` has emplaced keeps loops away from it until it has its ends.

A loop takes no lock on its node: it reads the head of the list and each next arc while
others append. What it can rely on is that no step writes a head or a link that is not
`invalid_arc` (`StepWritesOnce`): the arc that a tail names has no next one (`TailIsLast`),
and a first arc is only written while the list is known to be empty. A list whose links are
written once is continued at its end (`ChainContinues`), which is `ListsOnlyGrow`. So what a
loop has met, the arcs given to its body and those in its queue, stays the beginning of its
list while other threads move (`OtherVisits`), and its own steps take the next arc of it
(`NextArc`, `MetSeen`, `MetSkipped`). `VInv` says this of every loop at each of its labels.
It needs that `m_not_all_touched` stays true until the end of the list: then the pop there
returns the `invalid_arc` that the constructor put in front, and nothing that was put
aside is ever met again.

`MergeProofs`, for every game:

| theorem | states |
|---|---|
| `MInvHolds` | `Spec => []MInv`, the inductive invariant |
| `ParentExistsHolds` | `Spec => []ParentExists` |
| `MergedExactHolds` | `Spec => []MergedExact` |

Each object is well formed: its table is exact, its arcs are moves, and every node but the
root was entered from an older one. The walk of `merge` is breadth first: the nodes it has
met are closed under arcs but for the queue and the arcs of the current node that are left,
and the positions of all of them are in the target. So the parent of the next node is
there. When the queue is empty a node that was not met would have a least id, and the
older node it was entered from would have been met: so all were. The assumption
`MovesDiffer`, that two moves of one position lead to two positions, is needed for the arcs
and holds in both games: different moves leave different cells occupied.

All invariants and action properties that the runs check are theorems. Only model-checked
is liveness, which is out of the prover's reach: `ComputeReturns`, `SliceReturns`,
`MergeReturns`, `CallsReturn` and the fairness half of `PlaysLegally`.

## Not modelled

`NodeData`'s copy assignment, which would leak an array and is never called;
`numTranspositions`; searches after a merge; the re-drawing of Oska's static keys by every
new State; several State objects at once; Connect Four as a search uses it (see Bounds);
serialization (not called; its library is not in the repository); the win statistics and
all printing; pixel geometry; random number generators and timers (a random choice is a
nondeterministic one). Of the older tree: `Link`, `Path` and the maps, which are containers,
the queries on arcs and nodes, `ArcIt` and `NodeIt`, `randomNode`, the locks that a client
may take on nodes, and the locking transposition table, whose members are private and unused.
Tic-tac-toe and `python.py`, which the program does not use.

## Plan

Modelled: the search with prune, reset and merge, the match loop, both games, the moves
pool and the older tree in both versions. Proved: the safety properties of the search, of
merging, of the pool, of both games, of the lists and slices of the older trees and of the
loops of several threads over them. No safety property is left to prove. What could still be
added is in the previous section: searches after a merge first.
