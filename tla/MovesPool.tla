----------------------------- MODULE MovesPool ------------------------------
(***************************************************************************)
(* The moves a node has not tried, as mcts.hpp keeps them: every NodeData  *)
(* points to an array of moves (moves.hpp) in a slot of one pool that all  *)
(* nodes of all trees share (pool_allocator.inl).  The objects are what    *)
(* the tree and its callers construct, copy, move, draw from and destroy,  *)
(* in any order; statistics of a node are left to Mcts.                    *)
(*                                                                         *)
(* A pointer to a slot is <<block, index>>.  Pointers are only compared    *)
(* inside one block.  A slot is a union of an array and a link of the list *)
(* of free slots: writing one destroys the other.                          *)
(***************************************************************************)
EXTENDS Integers, Sequences, FiniteSets

CONSTANTS
    Objects,    \* places in which a NodeData can be constructed
    Move,
    NoMove,
    Capacity,   \* S of Moves<T, S>
    MinAlloc    \* slots that fit in a block, at least

ASSUME PoolAssumption ==
    /\ IsFiniteSet(Objects)
    /\ NoMove \notin Move
    /\ Capacity \in Nat
    /\ MinAlloc \in Nat \ {0}

VARIABLES
    alive,      \* objects between constructor and destructor
    m_moves,    \* of each object
    pool,       \* * m_moves_pool
    returned,   \* the last result of getUntriedMove()
    committed,  \* blocks that VirtualAlloc gave and VirtualFree did not take
    exited      \* static objects have been destroyed

vars == <<alive, m_moves, pool, returned, committed, exited>>

ChunkCount == 1

nullptr == <<0, 0>>

-----------------------------------------------------------------------------
(* Moves: an array and a size.                                             *)

NoRepeats(s) == \A i, j \in DOMAIN s : s[i] = s[j] => i = j

Elements(s) == {s[i] : i \in DOMAIN s}

\* What moves() of a state can fill an array with: no move twice.
MoveLists ==
    UNION {{s \in [1..n -> Move] : NoRepeats(s)} : n \in 0..Capacity}

\* The array after drawing the move at i: the last one takes its place.
draw_mutant(s, i) == SubSeq(s, 1, Len(s) - 1)

draw(s, i) == SubSeq([s EXCEPT ![i] = s[Len(s)]], 1, Len(s) - 1)

-----------------------------------------------------------------------------
(* The pool.                                                               *)

Link(p)    == [kind |-> "next", next |-> p, element |-> <<>>]
Element(s) == [kind |-> "element", next |-> nullptr, element |-> s]
Zero       == [kind |-> "zero", next |-> nullptr, element |-> <<>>]

EmptyPool ==
    [m_current_block |-> 0, m_current_slot |-> nullptr,
     m_last_slot |-> nullptr, m_free_slots |-> nullptr,
     block_next |-> <<>>, mem |-> <<>>]

BlockSlots(b) == {b} \X (0..(MinAlloc - 1))

\* VirtualAlloc: a block that was not given before.
virtual_alloc(p) == Len(p.block_next) + 1

\* m_last_slot is one chunk after the first slot, whatever the block holds.
allocate_block(p) ==
    LET b == virtual_alloc(p)
    IN  [p EXCEPT !.block_next = Append(@, p.m_current_block),
                  !.m_current_block = b,
                  !.m_current_slot = <<b, 0>>,
                  !.m_last_slot = <<b, ChunkCount>>,
                  !.mem = [a \in DOMAIN p.mem \cup BlockSlots(b) |->
                             IF a \in DOMAIN p.mem THEN p.mem[a] ELSE Zero]]

\* The pool with a fresh slot at m_current_slot.
HasRoom_mutant(p) ==
    IF p.m_current_block = 0 THEN allocate_block(p) ELSE p

HasRoom(p) ==
    IF p.m_current_slot[2] >= p.m_last_slot[2] THEN allocate_block(p) ELSE p

\* The slot that allocate() returns, and the pool it leaves.
allocate_mutant(p) ==
    LET q == HasRoom(p)
    IN  [slot |-> q.m_current_slot,
         pool |-> [q EXCEPT !.m_current_slot = <<@[1], @[2] + ChunkCount>>]]

allocate(p) ==
    IF p.m_free_slots # nullptr
    THEN [slot |-> p.m_free_slots,
          pool |-> [p EXCEPT !.m_free_slots = p.mem[p.m_free_slots].next]]
    ELSE LET q == HasRoom(p)
         IN  [slot |-> q.m_current_slot,
              pool |-> [q EXCEPT !.m_current_slot =
                                     <<@[1], @[2] + ChunkCount>>]]

deallocate(p, a) ==
    [p EXCEPT !.mem[a] = Link(p.m_free_slots), !.m_free_slots = a]

\* Moves has a trivial destructor.
delete_element(p, a) == IF a = nullptr THEN p ELSE deallocate(p, a)

new_element(p, s) ==
    LET r == allocate(p)
    IN  [slot |-> r.slot, pool |-> [r.pool EXCEPT !.mem[r.slot] = Element(s)]]

\* The pointers met on the way from p to the end of a list, in order; a list
\* of more than limit pointers is cut off.
pointer_vector(next, p, null, limit) ==
    LET at[n \in 1..limit + 1] ==
            IF n = 1 THEN p
            ELSE LET prev == at[n - 1]
                 IN  IF prev = null THEN null ELSE next[prev]
    IN  [n \in 1..Cardinality({i \in DOMAIN at : at[i] # null}) |-> at[n]]

-----------------------------------------------------------------------------
(* NodeData.                                                               *)

Init ==
    /\ alive = {}
    /\ m_moves = [o \in Objects |-> nullptr]
    /\ pool = EmptyPool
    /\ returned = NoMove
    /\ committed = {}
    /\ exited = FALSE

\* The pool becomes p; blocks that are new are committed.
UsePool(p) ==
    /\ pool' = p
    /\ committed' = committed \cup (DOMAIN p.block_next \ DOMAIN pool.block_next)

NodeData(o) ==
    /\ o \notin alive
    /\ alive' = alive \cup {o}
    /\ m_moves' = [m_moves EXCEPT ![o] = nullptr]
    /\ UNCHANGED <<pool, returned, committed>>

\* new_element(), and delete_element() again if moves() finds none.
NodeDataFromState_mutant(o, ms) ==
    LET r == new_element(pool, ms)
    IN  /\ o \notin alive
        /\ alive' = alive \cup {o}
        /\ UsePool(r.pool)
        /\ m_moves' = [m_moves EXCEPT ![o] = r.slot]
        /\ UNCHANGED returned

NodeDataFromState(o, ms) ==
    LET r == new_element(pool, ms)
    IN  /\ o \notin alive
        /\ alive' = alive \cup {o}
        /\ IF ms = <<>>
           THEN /\ UsePool(delete_element(r.pool, r.slot))
                /\ m_moves' = [m_moves EXCEPT ![o] = nullptr]
           ELSE /\ UsePool(r.pool)
                /\ m_moves' = [m_moves EXCEPT ![o] = r.slot]
        /\ UNCHANGED returned

NodeDataCopy(o, nd) ==
    /\ o \notin alive
    /\ nd \in alive
    /\ alive' = alive \cup {o}
    /\ IF m_moves[nd] # nullptr
       THEN LET r == new_element(pool, pool.mem[m_moves[nd]].element)
            IN  /\ UsePool(r.pool)
                /\ m_moves' = [m_moves EXCEPT ![o] = r.slot]
       ELSE /\ m_moves' = [m_moves EXCEPT ![o] = nullptr]
            /\ UNCHANGED <<pool, committed>>
    /\ UNCHANGED returned

NodeDataMove_mutant(o, nd) ==
    /\ o \notin alive
    /\ nd \in alive
    /\ alive' = alive \cup {o}
    /\ m_moves' = [m_moves EXCEPT ![o] = m_moves[nd]]
    /\ UNCHANGED <<pool, returned, committed>>

\* The new object's null pointer is swapped for the pointer of the old one.
NodeDataMove(o, nd) ==
    /\ o \notin alive
    /\ nd \in alive
    /\ alive' = alive \cup {o}
    /\ m_moves' = [m_moves EXCEPT ![o] = m_moves[nd], ![nd] = nullptr]
    /\ UNCHANGED <<pool, returned, committed>>

MoveAssign(o, nd) ==
    /\ {o, nd} \subseteq alive
    /\ m_moves' = [m_moves EXCEPT ![o] = m_moves[nd], ![nd] = m_moves[o]]
    /\ UNCHANGED <<alive, pool, returned, committed>>

\* Only called for a node with untried moves.
getUntriedMove_mutant(o, i) ==
    LET s == pool.mem[m_moves[o]].element
    IN  /\ o \in alive
        /\ m_moves[o] # nullptr
        /\ i \in DOMAIN s
        /\ returned' = s[i]
        /\ IF Len(s) = 1
           THEN /\ m_moves' = [m_moves EXCEPT ![o] = nullptr]
                /\ UNCHANGED <<pool, committed>>
           ELSE /\ UsePool([pool EXCEPT !.mem[m_moves[o]] = Element(draw(s, i))])
                /\ UNCHANGED m_moves
        /\ UNCHANGED alive

getUntriedMove(o, i) ==
    LET s == pool.mem[m_moves[o]].element
    IN  /\ o \in alive
        /\ m_moves[o] # nullptr
        /\ i \in DOMAIN s
        /\ returned' = s[i]
        /\ IF Len(s) = 1
           THEN /\ UsePool(delete_element(pool, m_moves[o]))
                /\ m_moves' = [m_moves EXCEPT ![o] = nullptr]
           ELSE /\ UsePool([pool EXCEPT !.mem[m_moves[o]] = Element(draw(s, i))])
                /\ UNCHANGED m_moves
        /\ UNCHANGED alive

\* The pointer of a destroyed object is never read again.
DestroyNodeData(o) ==
    /\ o \in alive
    /\ alive' = alive \ {o}
    /\ UsePool(delete_element(pool, m_moves[o]))
    /\ m_moves' = [m_moves EXCEPT ![o] = nullptr]
    /\ UNCHANGED returned

\* main has returned: the OwningPtr deletes the pool, of which the destructor
\* frees one block after the other from m_current_block on.
DestroyPool ==
    /\ alive = {}
    /\ committed' = committed \ Elements(pointer_vector(pool.block_next,
                        pool.m_current_block, 0, Len(pool.block_next)))
    /\ pool' = EmptyPool
    /\ exited' = TRUE
    /\ UNCHANGED <<alive, m_moves, returned>>

Next ==
    /\ ~ exited
    /\ \/ /\ \E o \in Objects :
               \/ NodeData(o)
               \/ \E ms \in MoveLists : NodeDataFromState(o, ms)
               \/ \E nd \in Objects :
                      NodeDataCopy(o, nd) \/ NodeDataMove(o, nd) \/ MoveAssign(o, nd)
               \/ \E i \in 1..Capacity : getUntriedMove(o, i)
               \/ DestroyNodeData(o)
          /\ UNCHANGED exited
       \/ DestroyPool

Spec == Init /\ [][Next]_vars

-----------------------------------------------------------------------------
(* Properties.                                                             *)

Addresses == UNION {BlockSlots(b) : b \in DOMAIN pool.block_next}

Pointers == Addresses \cup {nullptr}

\* Types; in particular every pointer is null or leads into a block that the
\* pool has, also the ones that are written in slots (pool_allocator.inl 209).
TypeOK ==
    /\ alive \subseteq Objects
    /\ m_moves \in [Objects -> Pointers]
    /\ pool.m_current_block \in {0} \cup DOMAIN pool.block_next
    /\ pool.m_free_slots \in Pointers
    /\ DOMAIN pool.mem = Addresses
    /\ \A a \in Addresses : /\ pool.mem[a].next \in Pointers
                            /\ pool.mem[a].element \in Seq(Move)
    /\ returned \in Move \cup {NoMove}

Owned == {m_moves[o] : o \in alive} \ {nullptr}

\* The array that a node draws from is its own, and no slot of a node is in
\* the list of free slots (mcts.hpp 202-258: copies, moves, assignments).
SoleOwner ==
    \A o \in alive :
        m_moves[o] # nullptr =>
            /\ pool.mem[m_moves[o]].kind = "element"
            /\ \A q \in alive : m_moves[q] = m_moves[o] => q = o

\* No slot is lost or freed twice: the list of free slots has every slot that
\* was ever used and that no object owns, once (pool_allocator.inl 215-250).
FreeListExact ==
    LET used == {a \in Addresses : pool.mem[a].kind # "zero"}
        free == pointer_vector([a \in Addresses |-> pool.mem[a].next],
                    pool.m_free_slots, nullptr, Cardinality(Addresses))
    IN  /\ NoRepeats(free)
        /\ Elements(free) = used \ Owned

\* A node that points to an array has a move to draw, and no move twice: the
\* search takes a non-null pointer for untried moves (mcts.hpp 412) and draws.
MovesIntact ==
    \A o \in alive :
        m_moves[o] # nullptr =>
            LET s == pool.mem[m_moves[o]].element
            IN  s # <<>> /\ NoRepeats(s)

\* The pool grows with the number of nodes at a time, not with the number of
\* allocations: freed slots are used before a block is added; and at the end of
\* the program the chain of blocks that the destructor follows has been all of them.
MemoryBounded ==
    /\ Len(pool.block_next) <= Cardinality(Objects)
    /\ exited => committed = {}

\* The moves of a live object, as a set.
Untried == [o \in Objects |->
                IF o \in alive /\ m_moves[o] # nullptr
                THEN Elements(pool.mem[m_moves[o]].element) ELSE {}]

Sets == INSTANCE UntriedMoves WITH untried <- Untried

\* Arrays in shared slots implement one set of moves per node (mcts.hpp
\* 174-258): nothing done to an object changes the moves of another, and a
\* draw removes the move that it returns.
ImplementsSets == Sets!Spec
=============================================================================
