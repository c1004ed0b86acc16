----------------------------- MODULE LockedTree -----------------------------
(***************************************************************************)
(* rt::Tree < ArcData, NodeData, true > of                                 *)
(* old/stable_rooted_digraph-1.2.hpp: threads that share a tree add nodes  *)
(* and arcs and iterate over the arcs of a node.  Every arc and every node *)
(* has a reader-writer lock; the arenas are tbb::concurrent_vectors, whose *)
(* emplace_back() is one step and moves nothing.                           *)
(*                                                                         *)
(* A step ends where another thread can tell the difference: at a lock     *)
(* that is taken, at an element that is emplaced, at a write to a field    *)
(* that is read without a lock.  Locks are released together with the last *)
(* write they protect.  A thread makes one call at a time and does not     *)
(* call addNode() or addArc() from the body of a loop over arcs, where it  *)
(* holds a lock that is not recursive.                                     *)
(***************************************************************************)
EXTENDS ArcLists

CONSTANTS
    Threads,
    MaxNodes,   \* bounds of the arenas
    MaxArcs,
    MaxCalls    \* how many calls and loops the threads start between them

ASSUME LockedTreeAssumption ==
    MaxNodes \in Nat \ {0} /\ MaxArcs \in Nat \ {0} /\ MaxCalls \in Nat

VARIABLES
    m_arcs, m_nodes,
    lock,       \* the locks held: of which arc or node, by whom, in which mode
    pc, call,   \* per thread: the next step of its call, and the call's locals
    loops       \* the number of loops over arcs started

vars == <<m_arcs, m_nodes, lock, pc, call, loops>>

\* What an arc holds until setSourceTarget(): Node() leaves its value as it is.
Uninitialized == -1

ItTypes   == {"in", "out"}
LockTypes == {"read", "write"}
Kinds     == {"ArcIt_", "QueingArcIt_", "InIt_OutIt"}

ArcLock(x)  == <<"arc", x>>
NodeLock(n) == <<"node", n>>
NodeIds     == DOMAIN m_nodes

In(n)  == InArcs(m_arcs, m_nodes, n)
Out(n) == OutArcs(m_arcs, m_nodes, n)

-----------------------------------------------------------------------------
(* SRWLock: any number of readers, or one writer.                          *)

Holders(l) == {h \in lock : h.of = l}

CanLock(l, mode) ==
    \A h \in Holders(l) : mode = "read" /\ h.mode = "read"

\* lock() and lockRead() wait until they can.
Lock(p, l, mode) ==
    /\ CanLock(l, mode)
    /\ lock' = lock \cup {[of |-> l, by |-> p, mode |-> mode]}

\* unlock(), unlockRead() and the destructors of ScopedLock.
Unlock(p, ls) == lock' = {h \in lock : h.by = p => h.of \notin ls}

-----------------------------------------------------------------------------
(* addArc() and addNode().                                                 *)

MoreCalls == Len(m_arcs) - 1 + loops < MaxCalls

\* Arena::emplace_back() of tbb::concurrent_vector.
emplace_back(arena, x) == Append(arena, x)

NoCall == [op |-> "none"]

Return(p) ==
    /\ pc' = [pc EXCEPT ![p] = "idle"]
    /\ call' = [call EXCEPT ![p] = NoCall]

Goto(p, label) == pc' = [pc EXCEPT ![p] = label] /\ UNCHANGED call

\* addArc(): the arc is emplaced with its ends, unlocked, in no list.
AddArc(p) ==
    /\ pc[p] = "idle"
    /\ Len(m_arcs) < MaxArcs /\ MoreCalls
    /\ \E s, t \in NodeIds :
          /\ m_arcs' = emplace_back(m_arcs, NewArc(s, t))
          /\ call' = [call EXCEPT ![p] =
                        [op |-> "addArc", s |-> s, t |-> t, a |-> Len(m_arcs) + 1]]
    /\ pc' = [pc EXCEPT ![p] = "lock_target"]
    /\ UNCHANGED <<m_nodes, lock, loops>>

LockTarget(p) ==
    /\ pc[p] = "lock_target"
    /\ Lock(p, NodeLock(call[p].t), "write")
    /\ Goto(p, "lock_tail_in")
    /\ UNCHANGED <<m_arcs, m_nodes, loops>>

LockTailIn(p) ==
    /\ pc[p] = "lock_tail_in"
    /\ Lock(p, ArcLock(m_nodes[call[p].t].tail_in), "write")
    /\ Goto(p, "append_in")
    /\ UNCHANGED <<m_arcs, m_nodes, loops>>

AppendIn(p) ==
    /\ pc[p] = "append_in"
    /\ LET t    == call[p].t
           tail == m_nodes[t].tail_in
       IN  /\ m_arcs' = [m_arcs EXCEPT ![tail].next_in = call[p].a]
           /\ m_nodes' = [m_nodes EXCEPT ![t].tail_in = call[p].a]
           /\ Unlock(p, {ArcLock(tail), NodeLock(t)})
    /\ Goto(p, "lock_source")
    /\ UNCHANGED loops

\* Mutant: the arc is emplaced without the lock.
EmplaceLocked_mutant(p, x) == UNCHANGED lock

\* LockAndDataType ( true, ... ): the arc is locked before anyone can reach it.
EmplaceLocked(p, x) == Lock(p, ArcLock(x), "write")

\* addNode(): first the arc, whose ends are not known yet.
AddNode(p) ==
    /\ pc[p] = "idle"
    /\ Len(m_arcs) < MaxArcs /\ MoreCalls
    /\ Cardinality({q \in Threads : pc[q] = "emplace_node"}) + Len(m_nodes) < MaxNodes
    /\ \E s \in NodeIds :
          call' = [call EXCEPT ![p] = [op |-> "addNode", s |-> s, t |-> invalid_node,
                                       a |-> Len(m_arcs) + 1]]
    /\ m_arcs' = emplace_back(m_arcs, NewArc(Uninitialized, Uninitialized))
    /\ EmplaceLocked(p, Len(m_arcs) + 1)
    /\ pc' = [pc EXCEPT ![p] = "emplace_node"]
    /\ UNCHANGED <<m_nodes, loops>>

\* Then the node, which has the arc in its list at once.
EmplaceNode(p) ==
    /\ pc[p] = "emplace_node"
    /\ m_nodes' = emplace_back(m_nodes, NewNode(call[p].a))
    /\ call' = [call EXCEPT ![p].t = Len(m_nodes) + 1]
    /\ pc' = [pc EXCEPT ![p] = "set_ends"]
    /\ UNCHANGED <<m_arcs, lock, loops>>

\* setSourceTarget() and unlock().
SetSourceTarget(p) ==
    /\ pc[p] = "set_ends"
    /\ m_arcs' = [m_arcs EXCEPT ![call[p].a].source = call[p].s,
                                ![call[p].a].target = call[p].t]
    /\ Unlock(p, {ArcLock(call[p].a)})
    /\ Goto(p, "lock_source")
    /\ UNCHANGED <<m_nodes, loops>>

\* Mutant: the list of the source is changed without its lock.
LockSource_mutant(p) ==
    /\ pc[p] = "lock_source"
    /\ UNCHANGED lock
    /\ Goto(p, IF m_nodes[call[p].s].head_out = invalid_arc
               THEN "append_first" ELSE "lock_tail_out")
    /\ UNCHANGED <<m_arcs, m_nodes, loops>>

\* The second half of both: the arc goes to the end of the list of the source.
LockSource(p) ==
    /\ pc[p] = "lock_source"
    /\ Lock(p, NodeLock(call[p].s), "write")
    /\ Goto(p, IF m_nodes[call[p].s].head_out = invalid_arc
               THEN "append_first" ELSE "lock_tail_out")
    /\ UNCHANGED <<m_arcs, m_nodes, loops>>

AppendFirst(p) ==
    /\ pc[p] = "append_first"
    /\ m_nodes' = [m_nodes EXCEPT ![call[p].s].head_out = call[p].a,
                                  ![call[p].s].tail_out = call[p].a]
    /\ Unlock(p, {NodeLock(call[p].s)})
    /\ Return(p)
    /\ UNCHANGED <<m_arcs, loops>>

LockTailOut(p) ==
    /\ pc[p] = "lock_tail_out"
    /\ Lock(p, ArcLock(m_nodes[call[p].s].tail_out), "write")
    /\ Goto(p, "append_out")
    /\ UNCHANGED <<m_arcs, m_nodes, loops>>

AppendOut(p) ==
    /\ pc[p] = "append_out"
    /\ LET s    == call[p].s
           tail == m_nodes[s].tail_out
       IN  /\ m_arcs' = [m_arcs EXCEPT ![tail].next_out = call[p].a]
           /\ m_nodes' = [m_nodes EXCEPT ![s].tail_out = call[p].a]
           /\ Unlock(p, {ArcLock(tail), NodeLock(s)})
    /\ Return(p)
    /\ UNCHANGED loops

-----------------------------------------------------------------------------
(* The iterators.                                                          *)

head(it, n)    == IF it = "in" THEN m_nodes[n].head_in ELSE m_nodes[n].head_out
getNext(it, x) == IF it = "in" THEN m_arcs[x].next_in ELSE m_arcs[x].next_out

\* The iterator's constructor reads the head of a list, without a lock.  due is
\* not in the code: the arcs in the list when the loop starts; nor is seen: the
\* arcs that the body of the loop was given.
StartLoop(p) ==
    /\ pc[p] = "idle"
    /\ MoreCalls
    /\ loops' = loops + 1
    /\ \E n \in NodeIds, kind \in Kinds, it \in ItTypes, mode \in LockTypes :
          /\ kind = "InIt_OutIt" => mode = "read"
          /\ head(it, n) # invalid_arc
          /\ call' = [call EXCEPT ![p] =
                [op |-> kind, n |-> n, it |-> it, mode |-> mode,
                 arc |-> head(it, n), m_queue |-> <<invalid_arc>>,
                 m_not_all_touched |-> TRUE,
                 due |-> IF it = "in" THEN In(n) ELSE Out(n), seen |-> << >>]]
          /\ pc' = [pc EXCEPT ![p] = IF kind = "InIt_OutIt" THEN "body" ELSE "lock"]
    /\ UNCHANGED <<m_arcs, m_nodes, lock>>

\* lock() of the constructors and of ArcIt_'s operator ++.
LockArc(p) ==
    /\ pc[p] = "lock"
    /\ Lock(p, ArcLock(call[p].arc), call[p].mode)
    /\ Goto(p, "body")
    /\ UNCHANGED <<m_arcs, m_nodes, loops>>

\* The end of the loop's body and operator ++: the next arc is read, then the
\* lock on this one is released.
Step(p) ==
    /\ pc[p] = "body"
    /\ LET c    == call[p]
           next == getNext(c.it, c.arc)
       IN  /\ call' = [call EXCEPT ![p].arc = next,
                                   ![p].seen = Append(c.seen, c.arc)]
           /\ Unlock(p, {ArcLock(c.arc)})
           /\ pc' = [pc EXCEPT ![p] =
                        IF next = invalid_arc THEN "end"
                        ELSE CASE c.op = "ArcIt_" -> "lock"
                               [] c.op = "QueingArcIt_" -> "try"
                               [] c.op = "InIt_OutIt" -> "body"]
    /\ UNCHANGED <<m_arcs, m_nodes, loops>>

\* Mutant: the arc that is busy is not remembered.
Queued_mutant(c) == c.m_queue

Queued(c) == Append(c.m_queue, c.arc)

\* The loop of QueingArcIt_'s operator ++: an arc that is busy is put at the end
\* of the queue.  queuePop() at the end of the list returns what the constructor
\* put in front, invalid_arc, so the loop ends and busy arcs are left out.
TryLock(p) ==
    /\ pc[p] = "try"
    /\ LET c      == call[p]
           next   == getNext(c.it, c.arc)
           queue  == Queued(c)
           pop    == c.m_not_all_touched => next = invalid_arc
           locked == CanLock(ArcLock(c.arc), c.mode)
       IN  \/ /\ locked
              /\ Lock(p, ArcLock(c.arc), c.mode)
              /\ Goto(p, "body")
           \/ /\ ~locked
              /\ UNCHANGED lock
              /\ call' = [call EXCEPT
                    ![p].m_queue = IF pop THEN Tail(queue) ELSE queue,
                    ![p].m_not_all_touched = c.m_not_all_touched /\ ~pop,
                    ![p].arc = IF pop THEN Head(queue) ELSE next]
              /\ pc' = [pc EXCEPT ![p] = IF call'[p].arc = invalid_arc
                                         THEN "end" ELSE "try"]
    /\ UNCHANGED <<m_arcs, m_nodes, loops>>

\* The iterator is compared with end() and the loop is left.
EndLoop(p) ==
    /\ pc[p] = "end"
    /\ Return(p)
    /\ UNCHANGED <<m_arcs, m_nodes, lock, loops>>

\* Mutant: the loop is left with the arc still locked: an iterator's destructor
\* does not unlock.
BreakLoop_mutant(p) ==
    /\ pc[p] = "body"
    /\ Return(p)
    /\ UNCHANGED <<m_arcs, m_nodes, lock, loops>>

\* The body breaks out of the loop after unlock() or unLockRead() of the tree.
BreakLoop(p) ==
    /\ pc[p] = "body"
    /\ Unlock(p, {ArcLock(call[p].arc)})
    /\ Return(p)
    /\ UNCHANGED <<m_arcs, m_nodes, loops>>

-----------------------------------------------------------------------------
\* Tree(): the root node, numbered 1, and the arc that leads to it.
Init ==
    /\ m_arcs = << NewArc(invalid_node, 1) >>
    /\ m_nodes = << NewNode(root_arc) >>
    /\ lock = {}
    /\ pc = [p \in Threads |-> "idle"]
    /\ call = [p \in Threads |-> NoCall]
    /\ loops = 0

AddStep(p) ==
    \/ LockTarget(p) \/ LockTailIn(p) \/ AppendIn(p)
    \/ EmplaceNode(p) \/ SetSourceTarget(p)
    \/ LockSource(p) \/ AppendFirst(p) \/ LockTailOut(p) \/ AppendOut(p)

LoopStep(p) == LockArc(p) \/ Step(p) \/ TryLock(p) \/ EndLoop(p) \/ BreakLoop(p)

Next == \E p \in Threads :
    AddArc(p) \/ AddNode(p) \/ StartLoop(p) \/ AddStep(p) \/ LoopStep(p)

\* A thread inside a call is scheduled again and again.  SRWLock promises no
\* order among those who wait; the bounds on calls make up for it.
Spec == Init /\ [][Next]_vars
             /\ \A p \in Threads : WF_vars(AddStep(p) \/ LoopStep(p))

-----------------------------------------------------------------------------
(* Properties.                                                             *)

\* The arcs whose call has not yet put them into the list in (out) of a node.
Adding(labels) == {call[p].a : p \in {q \in Threads : pc[q] \in labels}}
InPending  == Adding({"lock_target", "lock_tail_in", "append_in", "emplace_node"})
OutPending == InPending \cup
    Adding({"set_ends", "lock_source", "append_first", "lock_tail_out", "append_out"})

\* No arc is lost when threads add arcs to the same nodes at once: at every step
\* each arc is in the list out of its source and the list in of its target, once,
\* or the call that adds it has still to put it there; an arc whose node is just
\* emplaced is in that node's list before it has ends.
NoArcLost ==
    /\ \A n \in NodeIds :
          LET arcs == DOMAIN m_arcs
              ends(x) == IF \E p \in Threads : pc[p] = "set_ends" /\ call[p].a = x
                         THEN (CHOOSE c \in {call[p] : p \in Threads} :
                                  c.op = "addNode" /\ c.a = x).t
                         ELSE m_arcs[x].target
          IN  /\ ElementsOf(Out(n)) = {x \in arcs \ OutPending : m_arcs[x].source = n}
              /\ ElementsOf(In(n)) = {x \in arcs \ InPending : ends(x) = n}
              /\ Len(Out(n)) = Cardinality(ElementsOf(Out(n)))
              /\ Len(In(n)) = Cardinality(ElementsOf(In(n)))

\* An arc that the body of a loop is given is whole: whoever has locked it, or has
\* met it in a list out, sees both its ends, although addNode() puts it into the
\* list of its node before it sets them.  The plain InIt, which takes no lock, is
\* exempt: it may show an arc whose ends are not set yet.
WholeArcs ==
    \A p \in Threads :
        pc[p] = "body" /\ ~(call[p].op = "InIt_OutIt" /\ call[p].it = "in") =>
            LET x == m_arcs[call[p].arc]
            IN  IF call[p].it = "in" THEN x.target = call[p].n /\ x.source # Uninitialized
                                     ELSE x.source = call[p].n /\ x.target \in NodeIds

\* The arcs seen are arcs of the list, in its order.
InOrder(seen, list) ==
    \A i, j \in DOMAIN seen : i < j =>
        \E m, n \in DOMAIN list : m < n /\ list[m] = seen[i] /\ list[n] = seen[j]

\* A loop that runs to its end has been given every arc that was in the list when
\* it started, in the order of the list and none twice, whatever was added
\* meanwhile; only a queueing iterator leaves arcs out, those it found busy, and
\* they are still in its queue.  (The list holds no arc twice, NoArcLost, and an
\* arc that comes before another one there is not that arc.)
LoopsExact ==
    \A p \in Threads : pc[p] = "end" =>
        LET c == call[p]
            list    == IF c.it = "in" THEN In(c.n) ELSE Out(c.n)
            skipped == ElementsOf(c.m_queue) \ {invalid_arc}
        IN  /\ c.op # "QueingArcIt_" => skipped = {}
            /\ ElementsOf(c.due) \subseteq ElementsOf(c.seen) \cup skipped
            /\ ElementsOf(c.seen) \cap skipped = {}
            /\ InOrder(c.seen, list)
            /\ \E k \in 0 .. Len(list) :
                  {list[i] : i \in 1 .. k} = ElementsOf(c.seen) \cup skipped

\* Every call returns: nobody waits forever for a lock, so there is no deadlock
\* between node locks, arc locks and iterators.
CallsReturn == \A p \in Threads : pc[p] # "idle" ~> pc[p] = "idle"
=============================================================================
