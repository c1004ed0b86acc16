-------------------------- MODULE LockedTreeProofs --------------------------
(***************************************************************************)
(* Proof that threads which share a tree lose no arc, are given whole arcs *)
(* only (but by the plain InIt, which takes no lock) and meet every arc of *)
(* a list once, for every number of threads and trees of every size.       *)
(*                                                                         *)
(* The invariant has three parts.  The lists in and out of the nodes are   *)
(* chains of known members (ArcListProofs): the arcs with that end, but    *)
(* for those whose call is still under way.  Every call knows how far its  *)
(* arc is.  And the locks held are those that its place in the code needs: *)
(* the lock on the source keeps "the list is empty" true from the test to  *)
(* the write, and the lock on an arc that addNode() has emplaced keeps     *)
(* loops away from it until it has its ends.                               *)
(*                                                                         *)
(* The last part adds how far each loop is.  A loop holds no lock on its   *)
(* node, so it needs that heads and links are written once (WrittenOnce):  *)
(* what it has met then stays the beginning of the list.                   *)
(***************************************************************************)
EXTENDS LockedTree, ArcListProofs

-----------------------------------------------------------------------------
(* The lists of one kind, in or out, of all nodes NS.  owner is the node   *)
(* whose list an arc belongs to, pend are the arcs in no list yet.         *)

OwnList(L, first, last, next, members) ==
    Chain(L, first, next) /\ ElementsOf(L) = members /\ last = LastOf(L)

Members(next, owner, pend, n) == {x \in DOMAIN next \ pend : owner[x] = n}

Lists(NS, first, last, next, owner, pend) ==
    /\ \A n \in NS : OwnList(ListFrom(first[n], next), first[n], last[n], next,
                             Members(next, owner, pend, n))
    /\ \A x \in pend : x \in DOMAIN next /\ next[x] = invalid_arc

\* A chain of the right members is what the loop meets.
LEMMA ListsFromChains ==
    ASSUME NEW N \in Nat, NEW next \in [1 .. N -> Nat], NEW NS, NEW first, NEW last,
           NEW owner, NEW pend,
           \A x \in pend : x \in DOMAIN next /\ next[x] = invalid_arc,
           \A n \in NS : \E L : OwnList(L, first[n], last[n], next,
                                        Members(next, owner, pend, n))
    PROVE  Lists(NS, first, last, next, owner, pend)
<1> SUFFICES ASSUME NEW n \in NS
             PROVE  OwnList(ListFrom(first[n], next), first[n], last[n], next,
                            Members(next, owner, pend, n))
  BY DEF Lists
<1>1. PICK L : OwnList(L, first[n], last[n], next, Members(next, owner, pend, n))
  OBVIOUS
<1>2. next \in [1 .. N -> Int]
  OBVIOUS
<1>3. Chain(L, first[n], next)
  BY <1>1 DEF OwnList
<1>4. ListFrom(first[n], next) = L
  BY <1>2, <1>3, ListFromChain
<1> QED
  BY <1>1, <1>4

\* A list whose members keep their next is the same list.
LEMMA OwnListFrame ==
    ASSUME NEW L, NEW first, NEW last, NEW next, NEW next2, NEW members,
           OwnList(L, first, last, next, members),
           DOMAIN next \subseteq DOMAIN next2,
           \A x \in members : next2[x] = next[x]
    PROVE  OwnList(L, first, last, next2, members)
<1>1. Chain(L, first, next2)
  BY ChainFrame DEF OwnList
<1> QED
  BY <1>1 DEF OwnList

\* How one step may extend the arena of arcs, and the pending arcs with it.
Grown(N, next, owner, pend, next2, owner2, pend2) ==
    /\ N \in Nat /\ next \in [1 .. N -> Nat] /\ next2 \in [1 .. N + 1 -> Nat]
    /\ next2[N + 1] = invalid_arc /\ pend2 = pend \cup {N + 1}
    /\ \A x \in 1 .. N : next2[x] = next[x] /\ owner2[x] = owner[x]

\* An arc that is emplaced and pending changes no list.
LEMMA ListsGrow ==
    ASSUME NEW NS, NEW first, NEW last, NEW next, NEW owner, NEW pend,
           NEW N, NEW next2, NEW owner2, NEW pend2,
           Lists(NS, first, last, next, owner, pend),
           Grown(N, next, owner, pend, next2, owner2, pend2)
    PROVE  Lists(NS, first, last, next2, owner2, pend2)
<1>1. /\ N \in Nat /\ N + 1 \in Nat /\ next2 \in [1 .. N + 1 -> Nat]
      /\ DOMAIN next = 1 .. N /\ DOMAIN next2 = 1 .. N + 1
      /\ DOMAIN next \subseteq DOMAIN next2
      /\ N + 1 \notin DOMAIN next /\ N + 1 \in DOMAIN next2
      /\ DOMAIN next2 = DOMAIN next \cup {N + 1}
  BY DEF Grown
<1>2. \A x \in pend2 : x \in DOMAIN next2 /\ next2[x] = invalid_arc
  BY <1>1 DEF Lists, Grown
<1>3. \A n : Members(next2, owner2, pend2, n) = Members(next, owner, pend, n)
  BY <1>1 DEF Members, Grown
<1>4. \A n \in NS : OwnList(ListFrom(first[n], next), first[n], last[n], next2,
                            Members(next2, owner2, pend2, n))
  <2> SUFFICES ASSUME NEW n \in NS
      PROVE OwnList(ListFrom(first[n], next), first[n], last[n], next2, Members(next, owner, pend, n))
    BY <1>3
  <2>1. \A x \in Members(next, owner, pend, n) : next2[x] = next[x]
    BY <1>1 DEF Members, Grown
  <2> QED
    BY <1>1, <2>1, OwnListFrame DEF Lists
<1> QED
  BY <1>1, <1>2, <1>4, ListsFromChains

\* Owners may change where arcs are pending.
LEMMA ListsOwner ==
    ASSUME NEW NS, NEW first, NEW last, NEW next, NEW owner, NEW pend, NEW owner2,
           Lists(NS, first, last, next, owner, pend),
           \A x \in DOMAIN next \ pend : owner2[x] = owner[x]
    PROVE  Lists(NS, first, last, next, owner2, pend)
<1>1. \A n : Members(next, owner2, pend, n) = Members(next, owner, pend, n)
  BY DEF Members
<1> QED
  BY <1>1 DEF Lists

\* A new node m that no arc belongs to.
NodeAdded(NS, first, last, NS2, first2, last2, m, x) ==
    /\ m \notin NS /\ NS2 = NS \cup {m}
    /\ first2[m] = x /\ last2[m] = x
    /\ \A n \in NS : first2[n] = first[n] /\ last2[n] = last[n]

\* It has an empty list.
LEMMA ListsEmptyNode ==
    ASSUME NEW N \in Nat, NEW next \in [1 .. N -> Nat],
           NEW NS, NEW first, NEW last, NEW owner, NEW pend,
           NEW NS2, NEW first2, NEW last2, NEW m,
           Lists(NS, first, last, next, owner, pend),
           NodeAdded(NS, first, last, NS2, first2, last2, m, invalid_arc),
           \A x \in DOMAIN next : owner[x] # m
    PROVE  Lists(NS2, first2, last2, next, owner, pend)
<1>1. Members(next, owner, pend, m) = {}
  BY DEF Members
<1>2. OwnList(<< >>, first2[m], last2[m], next, Members(next, owner, pend, m))
  <2>1. << >> \in Seq(DOMAIN next) /\ Len(<< >>) = 0 /\ DOMAIN << >> = {}
    OBVIOUS
  <2>2. Chain(<< >>, invalid_arc, next)
    BY <2>1 DEF Chain
  <2>3. ElementsOf(<< >>) = {} /\ LastOf(<< >>) = invalid_arc
    BY <2>1 DEF ElementsOf, LastOf
  <2> QED
    BY <1>1, <2>2, <2>3 DEF OwnList, NodeAdded
<1>3. \A n \in NS2 : \E L : OwnList(L, first2[n], last2[n], next,
                                    Members(next, owner, pend, n))
  BY <1>2 DEF Lists, NodeAdded
<1>4. \A x \in pend : x \in DOMAIN next /\ next[x] = invalid_arc
  BY DEF Lists
<1> QED
  BY <1>3, <1>4, ListsFromChains

\* It has a list of one arc, which was pending.
LEMMA ListsNewNode ==
    ASSUME NEW N \in Nat, NEW next \in [1 .. N -> Nat],
           NEW NS, NEW first, NEW last, NEW owner, NEW pend,
           NEW NS2, NEW first2, NEW last2, NEW owner2, NEW m, NEW x \in pend,
           Lists(NS, first, last, next, owner, pend),
           NodeAdded(NS, first, last, NS2, first2, last2, m, x),
           \A y \in DOMAIN next \ pend : owner[y] # m,
           \A y \in DOMAIN next \ {x} : owner2[y] = owner[y],
           owner2[x] = m
    PROVE  Lists(NS2, first2, last2, next, owner2, pend \ {x})
<1> DEFINE L == << x >>
<1>0. x \in DOMAIN next /\ next[x] = invalid_arc /\ DOMAIN next = 1 .. N
  BY DEF Lists
<1>1. Members(next, owner2, pend \ {x}, m) = {x}
  BY <1>0 DEF Members
<1>2. \A n \in NS : Members(next, owner2, pend \ {x}, n) = Members(next, owner, pend, n)
  BY <1>0 DEF Members, NodeAdded
<1>3. OwnList(L, first2[m], last2[m], next, {x})
  <2>1. /\ L \in Seq(DOMAIN next) /\ Len(L) = 1 /\ DOMAIN L = 1 .. 1 /\ L[1] = x
        /\ 1 .. 1 = {1} /\ L # << >>
    BY <1>0
  <2> HIDE DEF L
  <2>2. Chain(L, x, next)
    BY <2>1, <1>0 DEF Chain
  <2>3. ElementsOf(L) = {x} /\ LastOf(L) = x
    BY <2>1 DEF ElementsOf, LastOf
  <2> QED
    BY <2>2, <2>3 DEF OwnList, NodeAdded
<1>4. \A n \in NS2 : \E M : OwnList(M, first2[n], last2[n], next,
                                    Members(next, owner2, pend \ {x}, n))
  BY <1>1, <1>2, <1>3, ZenonT(30) DEF Lists, NodeAdded
<1>5. \A y \in pend \ {x} : y \in DOMAIN next /\ next[y] = invalid_arc
  BY DEF Lists
<1> QED
  BY <1>4, <1>5, ListsFromChains

\* The pending arc x goes to the end of the list of node n.
Appended(NS, first, last, next, n, x, first2, last2, next2) ==
    /\ n \in NS
    /\ first2[n] = IF first[n] = invalid_arc THEN x ELSE first[n]
    /\ last2[n] = x
    /\ \A k \in NS \ {n} : first2[k] = first[k] /\ last2[k] = last[k]
    /\ \A y \in DOMAIN next :
          next2[y] = IF first[n] # invalid_arc /\ y = last[n] THEN x ELSE next[y]

\* Then it is in the list, and no other list has changed.
LEMMA ListsAppend ==
    ASSUME NEW N \in Nat, NEW next \in [1 .. N -> Nat], NEW next2 \in [1 .. N -> Nat],
           NEW NS, NEW first, NEW last, NEW owner, NEW pend,
           NEW first2, NEW last2, NEW n, NEW x \in pend,
           Lists(NS, first, last, next, owner, pend),
           Appended(NS, first, last, next, n, x, first2, last2, next2),
           owner[x] = n
    PROVE  Lists(NS, first2, last2, next2, owner, pend \ {x})
<1> DEFINE L == ListFrom(first[n], next)
           D == 1 .. N
<1>0. /\ DOMAIN next = D /\ DOMAIN next2 = D /\ x \in D /\ next[x] = invalid_arc
      /\ n \in NS
  BY DEF Lists, Appended
<1>1. OwnList(L, first[n], last[n], next, Members(next, owner, pend, n))
  BY <1>0 DEF Lists
<1> HIDE DEF L, D
<1>2. /\ L \in Seq(D) /\ Len(L) \in Nat /\ DOMAIN L = 1 .. Len(L)
      /\ \A k \in 1 .. Len(L) : L[k] \in D
  <2>1. L \in Seq(D)
    BY <1>0, <1>1 DEF OwnList, Chain
  <2> QED
    BY <2>1, LenProperties, ElementOfSeq
<1>3. first[n] = invalid_arc <=> Len(L) = 0
  BY <1>0, <1>1, <1>2 DEF OwnList, Chain, invalid_arc, D
<1>4. Len(L) # 0 => last[n] = L[Len(L)] /\ last[n] \in Members(next, owner, pend, n)
  <2> SUFFICES ASSUME Len(L) # 0
               PROVE  last[n] = L[Len(L)] /\ last[n] \in Members(next, owner, pend, n)
    OBVIOUS
  <2>1. last[n] = L[Len(L)]
    BY <1>1, <1>2 DEF OwnList, LastOf
  <2>2. L[Len(L)] \in ElementsOf(L)
    <3>1. Len(L) \in DOMAIN L
      BY <1>2
    <3> QED
      BY <3>1 DEF ElementsOf
  <2> QED
    BY <2>1, <2>2, <1>1 DEF OwnList
<1>5. x \notin Members(next, owner, pend, n)
  BY DEF Members
<1>6. next2[x] = invalid_arc
  BY <1>0, <1>3, <1>4, <1>5 DEF Appended
<1>7. Linked(L, next, next2, x)
  <2>1. Len(L) # 0 => next2[L[Len(L)]] = x
    BY <1>0, <1>2, <1>3, <1>4, SMTT(30) DEF Appended
  <2>2. \A y \in ElementsOf(L) : y # LastOf(L) => next2[y] = next[y]
    BY <1>0, <1>1, <1>2 DEF Appended, OwnList, Members
  <2> QED
    BY <2>1, <2>2, <1>0, <1>1, <1>5, <1>6 DEF Linked, OwnList
<1>8. /\ Chain(Append(L, x), IF Len(L) = 0 THEN x ELSE first[n], next2)
      /\ ElementsOf(Append(L, x)) = ElementsOf(L) \cup {x}
      /\ LastOf(Append(L, x)) = x
  BY <1>1, <1>7, ChainLink DEF OwnList
<1>9. Members(next2, owner, pend \ {x}, n) = Members(next, owner, pend, n) \cup {x}
  BY <1>0 DEF Members
<1>10. OwnList(Append(L, x), first2[n], last2[n], next2,
               Members(next2, owner, pend \ {x}, n))
  BY <1>1, <1>3, <1>8, <1>9 DEF OwnList, Appended
<1>11. ASSUME NEW k \in NS \ {n}
       PROVE  OwnList(ListFrom(first[k], next), first2[k], last2[k], next2,
                      Members(next2, owner, pend \ {x}, k))
  <2>1. Members(next2, owner, pend \ {x}, k) = Members(next, owner, pend, k)
    BY <1>0 DEF Members
  <2>2. \A y \in Members(next, owner, pend, k) : next2[y] = next[y]
    <3>1. \A y \in Members(next, owner, pend, k) : y \notin Members(next, owner, pend, n)
      BY DEF Members
    <3> QED
      BY <3>1, <1>0, <1>3, <1>4 DEF Members, Appended
  <2>3. OwnList(ListFrom(first[k], next), first[k], last[k], next2,
                Members(next, owner, pend, k))
    BY <2>2, <1>0, OwnListFrame DEF Lists
  <2> QED
    BY <2>1, <2>3 DEF Appended
<1>12. \A k \in NS : \E M : OwnList(M, first2[k], last2[k], next2,
                                   Members(next2, owner, pend \ {x}, k))
  BY <1>10, <1>11
<1>13. \A y \in pend \ {x} : y \in DOMAIN next2 /\ next2[y] = invalid_arc
  <2>1. \A y \in pend : y \in D /\ next[y] = invalid_arc /\ y \notin Members(next, owner, pend, n)
    BY <1>0 DEF Lists, Members
  <2> QED
    BY <2>1, <1>0, <1>3, <1>4 DEF Appended
<1> QED
  BY <1>12, <1>13, ListsFromChains

-----------------------------------------------------------------------------
(* The invariant.                                                          *)

InLabels   == {"lock_target", "lock_tail_in", "append_in", "emplace_node"}
ListLabels == {"lock_source", "append_first", "lock_tail_out", "append_out"}
AddLabels  == InLabels \cup {"set_ends"} \cup ListLabels
LoopLabels == {"lock", "body", "try", "end"}

Arc  == [source : Int, target : Int, next_in : Nat, next_out : Nat]
Node == [head_in : Nat, tail_in : Nat, head_out : Nat, tail_out : Nat]
ArcIds == DOMAIN m_arcs

LTypeOK ==
    /\ m_arcs \in Seq(Arc) /\ m_nodes \in Seq(Node)
    /\ pc \in [Threads -> {"idle"} \cup AddLabels \cup LoopLabels]
    /\ DOMAIN call = Threads
    /\ \A x \in ArcIds : /\ m_arcs[x].source \in NodeIds \cup {invalid_node, Uninitialized}
                         /\ m_arcs[x].target \in NodeIds \cup {Uninitialized}

NextIn(arcs)   == [x \in DOMAIN arcs |-> arcs[x].next_in]
NextOut(arcs)  == [x \in DOMAIN arcs |-> arcs[x].next_out]
Sources(arcs)  == [x \in DOMAIN arcs |-> arcs[x].source]
HeadIn(nodes)  == [n \in DOMAIN nodes |-> nodes[n].head_in]
TailIn(nodes)  == [n \in DOMAIN nodes |-> nodes[n].tail_in]
HeadOut(nodes) == [n \in DOMAIN nodes |-> nodes[n].head_out]
TailOut(nodes) == [n \in DOMAIN nodes |-> nodes[n].tail_out]

\* The node that arc x leads to, or will once addNode() has set its ends.
Setting(pcs, calls, q, x) == pcs[q] = "set_ends" /\ calls[q].a = x
TargetAt(arcs, pcs, calls, x) ==
    IF \E q \in Threads : Setting(pcs, calls, q, x)
    THEN calls[CHOOSE q \in Threads : Setting(pcs, calls, q, x)].t
    ELSE arcs[x].target
TargetOf(x) == TargetAt(m_arcs, pc, call, x)
Targets == [x \in ArcIds |-> TargetOf(x)]

ListsOK ==
    /\ Lists(NodeIds, HeadIn(m_nodes), TailIn(m_nodes), NextIn(m_arcs), Targets, InPending)
    /\ Lists(NodeIds, HeadOut(m_nodes), TailOut(m_nodes), NextOut(m_arcs),
             Sources(m_arcs), OutPending)
    /\ \A n \in NodeIds : m_nodes[n].head_in # invalid_arc

\* A call that adds: its locals, and how far its arc is.
AddingOK(q) ==
    LET c == call[q]
        x == m_arcs[c.a]
    IN  pc[q] \in AddLabels =>
        /\ c \in [op : {"addArc", "addNode"}, s : NodeIds,
                  t : NodeIds \cup {invalid_node}, a : ArcIds]
        /\ pc[q] \in InLabels \ {"emplace_node"} =>
              c.op = "addArc" /\ c.t \in NodeIds /\ x.source = c.s /\ x.target = c.t
        /\ pc[q] \in {"emplace_node", "set_ends"} =>
              /\ c.op = "addNode"
              /\ x.source = Uninitialized /\ x.target = Uninitialized
        /\ pc[q] = "set_ends" => c.t \in NodeIds
        /\ pc[q] \in ListLabels => x.source = c.s /\ x.target \in NodeIds
        /\ pc[q] = "append_first" => m_nodes[c.s].head_out = invalid_arc
        /\ pc[q] \in {"lock_tail_out", "append_out"} => m_nodes[c.s].head_out # invalid_arc

\* The arcs of a list, in either direction.
InList(it, n) ==
    IF it = "in" THEN {x \in ArcIds \ InPending : TargetOf(x) = n}
                 ELSE {x \in ArcIds \ OutPending : m_arcs[x].source = n}

\* A loop: its locals, and that it is at an arc of its list.
LoopOK(q) ==
    LET c == call[q]
    IN  /\ pc[q] = "idle" => c = NoCall
        /\ pc[q] \in LoopLabels =>
              /\ c \in [op : Kinds, n : NodeIds, it : ItTypes, mode : LockTypes, arc : Nat,
                        m_queue : Seq(Nat), m_not_all_touched : BOOLEAN,
                        due : {c.due}, seen : {c.seen}]
              /\ pc[q] # "end" => /\ c.arc \in InList(c.it, c.n)
                                  /\ c.m_queue # << >> /\ c.m_queue[1] = invalid_arc

\* Calls add different arcs, and only they know of arcs without ends.
ArcsOwned ==
    /\ \A q, r \in Threads :
          pc[q] \in AddLabels /\ pc[r] \in AddLabels /\ call[q].a = call[r].a => q = r
    /\ \A x \in ArcIds :
          m_arcs[x].source = Uninitialized \/ m_arcs[x].target = Uninitialized =>
              \E q \in Threads : pc[q] \in {"emplace_node", "set_ends"} /\ call[q].a = x

\* The locks that a thread at its place in the code must hold.
Held(q, l, mode) == [of |-> l, by |-> q, mode |-> mode] \in lock

Exclusive == \A g, h \in lock : g.of = h.of /\ g.mode = "write" => g = h

LocksOf(q) ==
    /\ pc[q] \in {"emplace_node", "set_ends"} => Held(q, ArcLock(call[q].a), "write")
    /\ pc[q] \in {"append_first", "lock_tail_out", "append_out"} =>
          Held(q, NodeLock(call[q].s), "write")
    /\ pc[q] = "body" /\ call[q].op # "InIt_OutIt" =>
          Held(q, ArcLock(call[q].arc), call[q].mode)

LInv ==
    /\ LTypeOK /\ ListsOK /\ ArcsOwned /\ Exclusive
    /\ \A q \in Threads : AddingOK(q) /\ LoopOK(q) /\ LocksOf(q)

-----------------------------------------------------------------------------
(* What a step of thread p leaves alone.                                   *)

OnlyMoves(p) == \A q \in Threads \ {p} : pc'[q] = pc[q] /\ call'[q] = call[q]

KeepsLocks(p) ==
    \A q \in Threads \ {p} : \A l, mode : Held(q, l, mode) => Held(q, l, mode)'

\* What the calls of the other threads rely on.
Keeps(p) ==
    /\ OnlyMoves(p) /\ KeepsLocks(p)
    /\ NodeIds \subseteq NodeIds' /\ ArcIds \subseteq ArcIds'
    /\ \A x \in ArcIds :
          \/ m_arcs'[x].source = m_arcs[x].source /\ m_arcs'[x].target = m_arcs[x].target
          \/ pc[p] = "set_ends" /\ x = call[p].a
    /\ \A n \in NodeIds :
          \/ m_nodes'[n].head_out = m_nodes[n].head_out
          \/ pc[p] = "append_first" /\ n = call[p].s
    /\ \A x \in ArcIds \ InPending : x \notin InPending' /\ TargetOf(x)' = TargetOf(x)
    /\ \A x \in ArcIds \ OutPending : x \notin OutPending'

\* The pending arcs are those of calls at certain places.
LEMMA PendingIs ==
    /\ InPending = Adding(InLabels) /\ OutPending = Adding(AddLabels)
    /\ InPending' = Adding(InLabels)' /\ OutPending' = Adding(AddLabels)'
BY DEF InPending, OutPending, Adding, InLabels, AddLabels, ListLabels

\* What the thread that sets the ends of an arc has in mind is its target.
LEMMA TargetAtSet ==
    ASSUME NEW arcs, NEW pcs, NEW calls, NEW x, NEW q \in Threads, Setting(pcs, calls, q, x),
           \A r \in Threads : Setting(pcs, calls, r, x) => r = q
    PROVE  TargetAt(arcs, pcs, calls, x) = calls[q].t
<1>1. (CHOOSE r \in Threads : Setting(pcs, calls, r, x)) = q
  OBVIOUS
<1> QED
  BY <1>1 DEF TargetAt

\* The step changes nothing about where arc x leads to.
LEMMA TargetKeeps ==
    ASSUME NEW p \in Threads, NEW x, ArcsOwned, OnlyMoves(p),
           ~ Setting(pc, call, p, x), ~ Setting(pc', call', p, x),
           m_arcs'[x].target = m_arcs[x].target
    PROVE  TargetOf(x)' = TargetOf(x)
<1>1. \A q \in Threads : Setting(pc', call', q, x) <=> Setting(pc, call, q, x)
  BY DEF Setting, OnlyMoves
<1>2. CASE \E q \in Threads : Setting(pc, call, q, x)
  <2>1. PICK q \in Threads : Setting(pc, call, q, x)
    BY <1>2
  <2>2. \A r \in Threads : Setting(pc, call, r, x) => r = q
    BY <2>1 DEF Setting, ArcsOwned, AddLabels
  <2>3. TargetAt(m_arcs, pc, call, x) = call[q].t
    BY <2>1, <2>2, TargetAtSet
  <2>4. TargetAt(m_arcs', pc', call', x) = call'[q].t
    BY <2>1, <2>2, <1>1, TargetAtSet
  <2>5. call'[q] = call[q]
    BY <2>1 DEF OnlyMoves
  <2> QED
    BY <2>3, <2>4, <2>5 DEF TargetOf
<1>3. CASE ~ \E q \in Threads : Setting(pc, call, q, x)
  BY <1>1, <1>3 DEF TargetOf, TargetAt
<1> QED
  BY <1>2, <1>3

\* What locking and unlocking do to the other locks.
LEMMA LockStep ==
    ASSUME Exclusive, NEW p \in Threads, NEW l, NEW mode, Lock(p, l, mode)
    PROVE  Exclusive' /\ Held(p, l, mode)' /\ KeepsLocks(p)
<1> DEFINE k == [of |-> l, by |-> p, mode |-> mode]
<1>1. lock' = lock \cup {k} /\ k.of = l /\ k.mode = mode
  BY DEF Lock
<1>2. \A h \in lock : h.of = l => mode = "read" /\ h.mode = "read"
  BY DEF Lock, CanLock, Holders
<1> HIDE DEF k
<1>3. Exclusive'
  <2> SUFFICES ASSUME NEW g \in lock', NEW h \in lock', g.of = h.of, g.mode = "write"
               PROVE  g = h
    BY DEF Exclusive
  <2> QED
    BY <1>1, <1>2 DEF Exclusive
<1> QED
  BY <1>1, <1>3 DEF Held, KeepsLocks, k

\* Unlocking keeps writers alone, and takes from no other thread.
LEMMA UnlockStep ==
    ASSUME Exclusive, NEW p \in Threads, NEW ls, Unlock(p, ls)
    PROVE  Exclusive' /\ KeepsLocks(p)
<1>1. \A h : h \in lock' <=> h \in lock /\ (h.by = p => h.of \notin ls)
  BY DEF Unlock
<1>2. Exclusive'
  BY <1>1 DEF Exclusive
<1>3. KeepsLocks(p)
  BY <1>1 DEF KeepsLocks, Held
<1> QED
  BY <1>2, <1>3

\* So does a step that touches no lock.
LEMMA NoLockStep ==
    ASSUME Exclusive, NEW p \in Threads, UNCHANGED lock
    PROVE  Exclusive' /\ KeepsLocks(p)
BY DEF Exclusive, KeepsLocks, Held

\* The pending arcs after a step of p.
LEMMA PendingMoves ==
    ASSUME NEW p \in Threads, NEW labels \in SUBSET AddLabels, OnlyMoves(p), ArcsOwned
    PROVE  /\ pc[p] \in labels /\ pc'[p] \in labels /\ call'[p].a = call[p].a
                => Adding(labels)' = Adding(labels)
           /\ pc[p] \notin labels /\ pc'[p] \notin labels
                => Adding(labels)' = Adding(labels)
           /\ pc[p] \in labels /\ pc'[p] \notin labels
                => Adding(labels)' = Adding(labels) \ {call[p].a}
           /\ pc[p] \notin labels /\ pc'[p] \in labels
                => Adding(labels)' = Adding(labels) \cup {call'[p].a}
<1>1. \A x : x \in Adding(labels) <=> \E q \in Threads : pc[q] \in labels /\ call[q].a = x
  BY DEF Adding
<1>2. \A x : x \in Adding(labels)' <=> \E q \in Threads : pc'[q] \in labels /\ call'[q].a = x
  BY DEF Adding
<1>3. \A q \in Threads : pc[q] \in labels /\ pc[p] \in labels /\ call[q].a = call[p].a => q = p
  BY DEF ArcsOwned
<1>4. \A q \in Threads : q # p => pc'[q] = pc[q] /\ call'[q] = call[q]
  BY DEF OnlyMoves
<1> HIDE DEF Adding
<1>5. CASE pc[p] \in labels /\ pc'[p] \in labels /\ call'[p].a = call[p].a
  BY <1>1, <1>2, <1>4, <1>5
<1>6. CASE pc[p] \notin labels /\ pc'[p] \notin labels
  <2>1. \A x : x \in Adding(labels)' <=> x \in Adding(labels)
    BY <1>1, <1>2, <1>4, <1>6
  <2> QED
    BY <2>1, <1>6
<1>7. CASE pc[p] \in labels /\ pc'[p] \notin labels
  <2>1. \A x : x \in Adding(labels)' <=> x \in Adding(labels) /\ x # call[p].a
    BY <1>1, <1>2, <1>3, <1>4, <1>7
  <2> QED
    BY <2>1, <1>7
<1>8. CASE pc[p] \notin labels /\ pc'[p] \in labels
  <2>1. \A x : x \in Adding(labels)' <=> x \in Adding(labels) \/ x = call'[p].a
    BY <1>1, <1>2, <1>4, <1>8
  <2> QED
    BY <2>1, <1>8
<1> QED
  BY <1>5, <1>6, <1>7, <1>8

\* The calls of the other threads are where they were.
LEMMA OthersKeep ==
    ASSUME LInv, NEW p \in Threads, Keeps(p), NEW q \in Threads \ {p}
    PROVE  AddingOK(q)' /\ LoopOK(q)' /\ LocksOf(q)'
<1>1. /\ pc'[q] = pc[q] /\ call'[q] = call[q]
      /\ NodeIds \subseteq NodeIds' /\ ArcIds \subseteq ArcIds'
  BY DEF Keeps, OnlyMoves
<1>2. AddingOK(q)'
  <2> SUFFICES ASSUME pc[q] \in AddLabels PROVE AddingOK(q)'
    BY <1>1 DEF AddingOK
  <2> DEFINE c == call[q]
  <2>1. /\ c \in [op : {"addArc", "addNode"}, s : NodeIds,
                  t : NodeIds \cup {invalid_node}, a : ArcIds]
        /\ AddingOK(q)
    BY DEF LInv, AddingOK
  <2>2. c \in [op : {"addArc", "addNode"}, s : NodeIds',
               t : NodeIds' \cup {invalid_node}, a : ArcIds']
    BY <1>1, <2>1
  <2>3. c.a \in ArcIds /\ c.s \in NodeIds
    BY <2>1
  <2>4. m_arcs'[c.a].source = m_arcs[c.a].source /\ m_arcs'[c.a].target = m_arcs[c.a].target
    <3>1. ~ (pc[p] = "set_ends" /\ c.a = call[p].a)
      BY DEF LInv, ArcsOwned, AddLabels
    <3> QED
      BY <3>1, <2>3 DEF Keeps
  <2>5. pc[q] \in {"append_first", "lock_tail_out", "append_out"} =>
            m_nodes'[c.s].head_out = m_nodes[c.s].head_out
    <3> SUFFICES ASSUME pc[q] \in {"append_first", "lock_tail_out", "append_out"}
                 PROVE  m_nodes'[c.s].head_out = m_nodes[c.s].head_out
      OBVIOUS
    <3>1. ASSUME pc[p] = "append_first", c.s = call[p].s PROVE FALSE
      <4> DEFINE g == [of |-> NodeLock(c.s), by |-> p, mode |-> "write"]
                 h == [of |-> NodeLock(c.s), by |-> q, mode |-> "write"]
      <4>1. g \in lock /\ h \in lock
        BY <3>1 DEF LInv, LocksOf, Held
      <4>2. g = h
        BY <4>1 DEF LInv, Exclusive
      <4>3. g.by = p /\ h.by = q
        OBVIOUS
      <4> QED
        BY <4>2, <4>3
    <3> QED
      BY <3>1, <2>3 DEF Keeps
  <2> HIDE DEF c
  <2>6. AddingOK(q)' <=>
        /\ c \in [op : {"addArc", "addNode"}, s : NodeIds',
                  t : NodeIds' \cup {invalid_node}, a : ArcIds']
        /\ pc[q] \in InLabels \ {"emplace_node"} =>
              /\ c.op = "addArc" /\ c.t \in NodeIds'
              /\ m_arcs'[c.a].source = c.s /\ m_arcs'[c.a].target = c.t
        /\ pc[q] \in {"emplace_node", "set_ends"} =>
              /\ c.op = "addNode"
              /\ m_arcs'[c.a].source = Uninitialized /\ m_arcs'[c.a].target = Uninitialized
        /\ pc[q] = "set_ends" => c.t \in NodeIds'
        /\ pc[q] \in ListLabels => m_arcs'[c.a].source = c.s /\ m_arcs'[c.a].target \in NodeIds'
        /\ pc[q] = "append_first" => m_nodes'[c.s].head_out = invalid_arc
        /\ pc[q] \in {"lock_tail_out", "append_out"} => m_nodes'[c.s].head_out # invalid_arc
    BY <1>1 DEF AddingOK, c
  <2> QED
    BY <1>1, <2>1, <2>2, <2>4, <2>5, <2>6 DEF AddingOK, c
<1>3. LoopOK(q)'
  <2> SUFFICES ASSUME pc[q] \in LoopLabels PROVE LoopOK(q)'
    BY <1>1 DEF LoopOK, LInv
  <2> DEFINE c == call[q]
  <2>1. /\ c \in [op : Kinds, n : NodeIds, it : ItTypes, mode : LockTypes, arc : Nat,
                  m_queue : Seq(Nat), m_not_all_touched : BOOLEAN,
                  due : {c.due}, seen : {c.seen}]
        /\ pc[q] # "end" => /\ c.arc \in InList(c.it, c.n)
                            /\ c.m_queue # << >> /\ c.m_queue[1] = invalid_arc
    BY DEF LInv, LoopOK
  <2>2. c \in [op : Kinds, n : NodeIds', it : ItTypes, mode : LockTypes, arc : Nat,
               m_queue : Seq(Nat), m_not_all_touched : BOOLEAN,
               due : {c.due}, seen : {c.seen}]
    BY <1>1, <2>1
  <2>3. ASSUME c.arc \in InList(c.it, c.n) PROVE c.arc \in InList(c.it, c.n)'
    <3>1. CASE c.it = "in"
      BY <1>1, <2>3, <3>1 DEF InList, Keeps
    <3>2. CASE c.it # "in"
      <4>1. c.arc \in ArcIds \ OutPending /\ m_arcs[c.arc].source = c.n
        BY <2>3, <3>2 DEF InList
      <4>2. c.arc \in ArcIds' /\ c.arc \notin OutPending'
        BY <1>1, <4>1 DEF Keeps
      <4>3. ~ (pc[p] = "set_ends" /\ c.arc = call[p].a)
        BY <4>1, PendingIs DEF Adding, AddLabels
      <4>4. m_arcs'[c.arc].source = m_arcs[c.arc].source
        BY <4>1, <4>3 DEF Keeps
      <4> QED
        BY <1>1, <3>2, <4>1, <4>2, <4>4 DEF InList
    <3> QED
      BY <3>1, <3>2
  <2>4. pc[q] # "idle"
    BY DEF LoopLabels
  <2> QED
    BY <1>1, <2>1, <2>2, <2>3, <2>4 DEF LoopOK
<1>4. LocksOf(q)'
  <2>1. \A l, mode : Held(q, l, mode) => Held(q, l, mode)'
    BY DEF Keeps, KeepsLocks
  <2>2. LocksOf(q)
    BY DEF LInv
  <2> QED
    BY <1>1, <2>1, <2>2 DEF LocksOf, ArcLock, NodeLock
<1> QED
  BY <1>2, <1>3, <1>4

\* So a step has to be looked at for the thread that takes it only.
LEMMA Assemble ==
    ASSUME LInv, NEW p \in Threads, Keeps(p),
           LTypeOK', ListsOK', ArcsOwned', Exclusive', AddingOK(p)', LoopOK(p)', LocksOf(p)'
    PROVE  LInv'
<1>1. \A q \in Threads : AddingOK(q)' /\ LoopOK(q)' /\ LocksOf(q)'
  BY OthersKeep
<1> QED
  BY <1>1 DEF LInv

\* A step that changes neither arena and does not move the arc p adds, if any,
\* to another stage.
Quiet(p) ==
    /\ m_arcs' = m_arcs /\ m_nodes' = m_nodes /\ OnlyMoves(p) /\ KeepsLocks(p)
    /\ DOMAIN call' = Threads
    /\ pc' \in [Threads -> {"idle"} \cup AddLabels \cup LoopLabels]
    /\ pc[p] \in InLabels <=> pc'[p] \in InLabels
    /\ pc[p] \in AddLabels <=> pc'[p] \in AddLabels
    /\ pc[p] \in AddLabels => call'[p] = call[p]
    /\ pc[p] \notin {"emplace_node", "set_ends"} /\ pc'[p] \notin {"emplace_node", "set_ends"}

\* A step that changes neither arcs nor lists keeps all that is said of them.
LEMMA QuietKeeps ==
    ASSUME LInv, NEW p \in Threads, Quiet(p)
    PROVE  /\ Keeps(p) /\ LTypeOK' /\ ListsOK' /\ ArcsOwned'
           /\ ArcIds' = ArcIds /\ NodeIds' = NodeIds
           /\ InPending' = InPending /\ OutPending' = OutPending /\ Targets' = Targets
           /\ \A it, n : InList(it, n)' = InList(it, n)
<1>1. /\ ArcIds' = ArcIds /\ NodeIds' = NodeIds /\ m_arcs' = m_arcs /\ m_nodes' = m_nodes
      /\ \A q \in Threads \ {p} : pc'[q] = pc[q] /\ call'[q] = call[q]
  BY DEF Quiet, ArcIds, NodeIds, OnlyMoves
<1>2. LTypeOK'
  BY <1>1 DEF LInv, LTypeOK, Quiet
<1>3. InPending' = InPending /\ OutPending' = OutPending
  <2>1. InLabels \in SUBSET AddLabels /\ AddLabels \in SUBSET AddLabels
    BY DEF AddLabels
  <2>2. Adding(InLabels)' = Adding(InLabels) /\ Adding(AddLabels)' = Adding(AddLabels)
    BY <2>1, PendingMoves DEF LInv, Quiet
  <2> QED
    BY <2>2, PendingIs
<1>4. ArcsOwned'
  <2>1. \A q, r \in Threads : pc'[q] \in AddLabels /\ pc'[r] \in AddLabels
                              /\ call'[q].a = call'[r].a => q = r
    BY <1>1 DEF LInv, ArcsOwned, Quiet
  <2>2. ASSUME NEW x \in ArcIds,
               m_arcs[x].source = Uninitialized \/ m_arcs[x].target = Uninitialized
        PROVE  \E q \in Threads : pc'[q] \in {"emplace_node", "set_ends"} /\ call'[q].a = x
    <3>1. PICK q \in Threads : pc[q] \in {"emplace_node", "set_ends"} /\ call[q].a = x
      BY <2>2 DEF LInv, ArcsOwned
    <3> QED
      BY <3>1, <1>1 DEF Quiet
  <2> QED
    BY <2>1, <2>2, <1>1 DEF ArcsOwned
<1>5. ASSUME NEW x PROVE TargetOf(x)' = TargetOf(x)
  BY <1>1, TargetKeeps DEF Setting, Quiet, LInv
<1>6. Targets' = Targets
  BY <1>1, <1>5 DEF Targets
<1>7. ListsOK'
  BY <1>1, <1>3, <1>6 DEF LInv, ListsOK
<1>8. Keeps(p)
  BY <1>1, <1>3, <1>5 DEF Keeps, Quiet
<1>9. \A it, n : InList(it, n)' = InList(it, n)
  BY <1>1, <1>3, <1>5 DEF InList
<1> QED
  BY <1>1, <1>2, <1>3, <1>4, <1>6, <1>7, <1>8, <1>9

-----------------------------------------------------------------------------
(* Steps that change no arena.                                             *)

\* A call that adds takes a lock.
LEMMA LockingSteps ==
    ASSUME LInv, NEW p \in Threads,
           LockTarget(p) \/ LockTailIn(p) \/ LockSource(p) \/ LockTailOut(p)
    PROVE  LInv'
<1>1. PICK l, label :
        /\ m_arcs' = m_arcs /\ m_nodes' = m_nodes /\ call' = call
        /\ Lock(p, l, "write")
        /\ pc' = [pc EXCEPT ![p] = label]
        /\ \/ pc[p] = "lock_target" /\ label = "lock_tail_in"
           \/ pc[p] = "lock_tail_in" /\ label = "append_in"
           \/ /\ pc[p] = "lock_source" /\ l = NodeLock(call[p].s)
              /\ label = IF m_nodes[call[p].s].head_out = invalid_arc
                         THEN "append_first" ELSE "lock_tail_out"
           \/ pc[p] = "lock_tail_out" /\ label = "append_out"
  BY DEF LockTarget, LockTailIn, LockSource, LockTailOut, Goto
<1>2. Exclusive' /\ Held(p, l, "write")' /\ KeepsLocks(p) /\ lock \subseteq lock'
  BY <1>1, LockStep DEF LInv, Lock
<1>3. /\ pc \in [Threads -> {"idle"} \cup AddLabels \cup LoopLabels] /\ DOMAIN call = Threads
      /\ pc[p] \in AddLabels /\ label \in AddLabels
      /\ pc'[p] = label /\ OnlyMoves(p)
      /\ pc' \in [Threads -> {"idle"} \cup AddLabels \cup LoopLabels]
      /\ pc[p] \in InLabels <=> label \in InLabels
      /\ pc[p] \notin {"emplace_node", "set_ends"} /\ label \notin {"emplace_node", "set_ends"}
  BY <1>1 DEF LInv, LTypeOK, OnlyMoves, InLabels, ListLabels, AddLabels
<1>4. Quiet(p)
  BY <1>1, <1>2, <1>3 DEF Quiet
<1>5. /\ Keeps(p) /\ LTypeOK' /\ ListsOK' /\ ArcsOwned'
      /\ ArcIds' = ArcIds /\ NodeIds' = NodeIds
  BY <1>4, QuietKeeps
<1>6. AddingOK(p)'
  <2>1. AddingOK(p)
    BY DEF LInv
  <2>2. CASE label \in InLabels
    BY <2>1, <2>2, <1>1, <1>3, <1>5 DEF AddingOK, InLabels, ListLabels
  <2>3. CASE label \notin InLabels
    BY <2>1, <2>3, <1>1, <1>3, <1>5 DEF AddingOK, InLabels, ListLabels
  <2> QED
    BY <2>2, <2>3
<1>7. LoopOK(p)'
  BY <1>3 DEF LoopOK, LoopLabels, AddLabels, InLabels, ListLabels
<1>8. LocksOf(p)'
  <2>1. LocksOf(p)
    BY DEF LInv
  <2> QED
    BY <2>1, <1>1, <1>2, <1>3 DEF LocksOf, Held, NodeLock
<1> QED
  BY <1>2, <1>5, <1>6, <1>7, <1>8, Assemble

\* The first arc of a list is in it, and so is the one after an arc of the list.
LEMMA ListsSteps ==
    ASSUME NEW N \in Nat, NEW next \in [1 .. N -> Nat], NEW NS, NEW first, NEW last,
           NEW owner, NEW pend, NEW n \in NS,
           Lists(NS, first, last, next, owner, pend)
    PROVE  LET members == Members(next, owner, pend, n)
           IN  /\ first[n] # invalid_arc => first[n] \in members
               /\ \A x \in members : next[x] # invalid_arc => next[x] \in members
<1> DEFINE members == Members(next, owner, pend, n)
           L == ListFrom(first[n], next)
<1>1. OwnList(L, first[n], last[n], next, members)
  BY DEF Lists
<1> HIDE DEF members, L
<1>2. Len(L) \in Nat /\ DOMAIN L = 1 .. Len(L) /\ members = {L[k] : k \in 1 .. Len(L)}
  <2>1. L \in Seq(DOMAIN next) /\ members = {L[k] : k \in DOMAIN L}
    BY <1>1 DEF OwnList, Chain, ElementsOf
  <2> QED
    BY <2>1, LenProperties
<1>3. first[n] # invalid_arc => first[n] \in members
  <2> SUFFICES ASSUME first[n] # invalid_arc PROVE first[n] \in members
    OBVIOUS
  <2>1. Len(L) # 0 /\ first[n] = L[1]
    BY <1>1 DEF OwnList, Chain
  <2>2. 1 \in 1 .. Len(L)
    BY <2>1, <1>2
  <2> QED
    BY <2>1, <2>2, <1>2
<1>4. ASSUME NEW x \in members, next[x] # invalid_arc PROVE next[x] \in members
  <2>1. PICK k \in 1 .. Len(L) : x = L[k]
    BY <1>2
  <2>2. next[x] = IF k < Len(L) THEN L[k + 1] ELSE invalid_arc
    BY <2>1, <1>1 DEF OwnList, Chain
  <2>3. k < Len(L) /\ next[x] = L[k + 1]
    BY <2>2, <1>4
  <2>4. k + 1 \in 1 .. Len(L)
    BY <2>3, <1>2
  <2> QED
    BY <2>3, <2>4, <1>2
<1> QED
  BY <1>3, <1>4 DEF members

\* What the types say of the arenas.
LEMMA ArenaFacts ==
    ASSUME NEW arcs \in Seq(Arc), NEW nodes \in Seq(Node)
    PROVE  /\ Len(arcs) \in Nat /\ DOMAIN arcs = 1 .. Len(arcs)
           /\ Len(nodes) \in Nat /\ DOMAIN nodes = 1 .. Len(nodes)
           /\ \A x \in DOMAIN arcs : arcs[x] \in Arc
           /\ \A n \in DOMAIN nodes : nodes[n] \in Node
           /\ NextIn(arcs) \in [1 .. Len(arcs) -> Nat]
           /\ NextOut(arcs) \in [1 .. Len(arcs) -> Nat]
<1>1. /\ Len(arcs) \in Nat /\ DOMAIN arcs = 1 .. Len(arcs)
      /\ Len(nodes) \in Nat /\ DOMAIN nodes = 1 .. Len(nodes)
      /\ \A x \in DOMAIN arcs : arcs[x] \in Arc
      /\ \A n \in DOMAIN nodes : nodes[n] \in Node
  BY LenProperties, ElementOfSeq
<1>2. \A x \in DOMAIN arcs : arcs[x].next_in \in Nat /\ arcs[x].next_out \in Nat
  BY <1>1 DEF Arc
<1> QED
  BY <1>1, <1>2 DEF NextIn, NextOut

\* The iterators stay in their list.
LEMMA IteratorSteps ==
    ASSUME LInv, NEW it \in ItTypes, NEW n \in NodeIds
    PROVE  /\ head(it, n) # invalid_arc => head(it, n) \in InList(it, n)
           /\ head(it, n) \in Nat
           /\ \A x \in InList(it, n) :
                 /\ getNext(it, x) \in Nat
                 /\ getNext(it, x) # invalid_arc => getNext(it, x) \in InList(it, n)
<1>1. /\ Len(m_arcs) \in Nat /\ DOMAIN m_arcs = ArcIds
      /\ NextIn(m_arcs) \in [1 .. Len(m_arcs) -> Nat]
      /\ NextOut(m_arcs) \in [1 .. Len(m_arcs) -> Nat]
      /\ \A x \in ArcIds : m_arcs[x] \in Arc
      /\ \A k \in NodeIds : m_nodes[k] \in Node
  BY ArenaFacts DEF LInv, LTypeOK, ArcIds, NodeIds
<1>2. CASE it = "in"
  <2>1. InList(it, n) = Members(NextIn(m_arcs), Targets, InPending, n)
    BY <1>1, <1>2 DEF InList, Members, NextIn, Targets
  <2>2. /\ HeadIn(m_nodes)[n] # invalid_arc => HeadIn(m_nodes)[n] \in InList(it, n)
        /\ \A x \in InList(it, n) :
              NextIn(m_arcs)[x] # invalid_arc => NextIn(m_arcs)[x] \in InList(it, n)
    <3> DEFINE members == Members(NextIn(m_arcs), Targets, InPending, n)
    <3>1. Lists(NodeIds, HeadIn(m_nodes), TailIn(m_nodes), NextIn(m_arcs), Targets, InPending)
      BY DEF LInv, ListsOK
    <3>2. /\ HeadIn(m_nodes)[n] # invalid_arc => HeadIn(m_nodes)[n] \in members
          /\ \A x \in members :
                NextIn(m_arcs)[x] # invalid_arc => NextIn(m_arcs)[x] \in members
      BY <1>1, <3>1, ListsSteps
    <3> QED
      BY <2>1, <3>2
  <2>3. HeadIn(m_nodes)[n] = head(it, n) /\ head(it, n) \in Nat
    BY <1>1, <1>2 DEF HeadIn, head, NodeIds, Node
  <2>4. \A x \in InList(it, n) : NextIn(m_arcs)[x] = getNext(it, x) /\ getNext(it, x) \in Nat
    BY <1>1, <1>2 DEF NextIn, getNext, InList, Arc
  <2> QED
    BY <2>2, <2>3, <2>4
<1>3. CASE it # "in"
  <2>1. InList(it, n) = Members(NextOut(m_arcs), Sources(m_arcs), OutPending, n)
    BY <1>1, <1>3 DEF InList, Members, NextOut, Sources
  <2>2. /\ HeadOut(m_nodes)[n] # invalid_arc => HeadOut(m_nodes)[n] \in InList(it, n)
        /\ \A x \in InList(it, n) :
              NextOut(m_arcs)[x] # invalid_arc => NextOut(m_arcs)[x] \in InList(it, n)
    <3> DEFINE members == Members(NextOut(m_arcs), Sources(m_arcs), OutPending, n)
    <3>1. Lists(NodeIds, HeadOut(m_nodes), TailOut(m_nodes), NextOut(m_arcs), Sources(m_arcs), OutPending)
      BY DEF LInv, ListsOK
    <3>2. /\ HeadOut(m_nodes)[n] # invalid_arc => HeadOut(m_nodes)[n] \in members
          /\ \A x \in members :
                NextOut(m_arcs)[x] # invalid_arc => NextOut(m_arcs)[x] \in members
      BY <1>1, <3>1, ListsSteps
    <3> QED
      BY <2>1, <3>2
  <2>3. HeadOut(m_nodes)[n] = head(it, n) /\ head(it, n) \in Nat
    BY <1>1, <1>3 DEF HeadOut, head, NodeIds, Node
  <2>4. \A x \in InList(it, n) : NextOut(m_arcs)[x] = getNext(it, x) /\ getNext(it, x) \in Nat
    BY <1>1, <1>3 DEF NextOut, getNext, InList, Arc
  <2> QED
    BY <2>2, <2>3, <2>4
<1> QED
  BY <1>2, <1>3

\* p moves to a place in a loop or out of one.
Looping(p, label, c) ==
    /\ pc[p] \in {"idle"} \cup LoopLabels /\ label \in {"idle"} \cup LoopLabels
    /\ m_arcs' = m_arcs /\ m_nodes' = m_nodes
    /\ pc' = [pc EXCEPT ![p] = label] /\ call'[p] = c /\ DOMAIN call' = Threads
    /\ \A q \in Threads \ {p} : call'[q] = call[q]
    /\ Exclusive' /\ KeepsLocks(p)

\* What the loop at arc x of a list has in its iterator.
Iterator(c) ==
    /\ c \in [op : Kinds, n : NodeIds, it : ItTypes, mode : LockTypes, arc : Nat,
              m_queue : Seq(Nat), m_not_all_touched : BOOLEAN,
              due : {c.due}, seen : {c.seen}]

\* A step of an iterator keeps the invariant if what it is left with is fit for its label.
LEMMA LoopingKeeps ==
    ASSUME LInv, NEW p \in Threads, NEW label, NEW c, Looping(p, label, c),
           IF label = "idle" THEN c = NoCall ELSE Iterator(c),
           label \in LoopLabels \ {"end"} =>
              /\ c.arc \in InList(c.it, c.n)
              /\ c.m_queue # << >> /\ c.m_queue[1] = invalid_arc,
           label = "body" /\ c.op # "InIt_OutIt" => Held(p, ArcLock(c.arc), c.mode)'
    PROVE  LInv'
<1>1. /\ pc \in [Threads -> {"idle"} \cup AddLabels \cup LoopLabels] /\ DOMAIN call = Threads
      /\ pc' \in [Threads -> {"idle"} \cup AddLabels \cup LoopLabels] /\ DOMAIN call' = Threads
      /\ pc'[p] = label /\ call'[p] = c /\ OnlyMoves(p)
      /\ m_arcs' = m_arcs /\ m_nodes' = m_nodes /\ Exclusive' /\ KeepsLocks(p)
  BY DEF LInv, LTypeOK, OnlyMoves, Looping
<1>2. /\ pc[p] \notin AddLabels /\ label \notin AddLabels
      /\ InLabels \subseteq AddLabels /\ {"emplace_node", "set_ends"} \subseteq AddLabels
      /\ {"append_first", "lock_tail_out", "append_out"} \subseteq AddLabels
      /\ "idle" \notin LoopLabels
  BY DEF LoopLabels, AddLabels, InLabels, ListLabels, Looping
<1>3. Quiet(p)
  BY <1>1, <1>2 DEF Quiet
<1>4. /\ Keeps(p) /\ LTypeOK' /\ ListsOK' /\ ArcsOwned' /\ NodeIds' = NodeIds
      /\ \A it, n : InList(it, n)' = InList(it, n)
  BY <1>3, QuietKeeps
<1>5. AddingOK(p)'
  BY <1>1, <1>2 DEF AddingOK
<1>6. LoopOK(p)'
  <2>1. CASE label \notin LoopLabels
    BY <2>1, <1>1 DEF LoopOK
  <2>2. CASE label \in LoopLabels
    <3>1. c \in [op : Kinds, n : NodeIds', it : ItTypes, mode : LockTypes, arc : Nat,
                 m_queue : Seq(Nat), m_not_all_touched : BOOLEAN,
                 due : {c.due}, seen : {c.seen}]
      BY <2>2, <1>2, <1>4 DEF Iterator
    <3>2. label # "end" => c.arc \in InList(c.it, c.n)'
      BY <2>2, <1>1, <1>4
    <3> QED
      BY <3>1, <3>2, <2>2, <1>1 DEF LoopOK
  <2> QED
    BY <2>1, <2>2
<1>7. LocksOf(p)'
  BY <1>1, <1>2 DEF LocksOf
<1> QED
  BY <1>1, <1>4, <1>5, <1>6, <1>7, Assemble

\* A loop starts.
LEMMA StartLoopKeeps ==
    ASSUME LInv, NEW p \in Threads, StartLoop(p)
    PROVE  LInv'
<1>1. PICK n \in NodeIds, kind \in Kinds, it \in ItTypes, mode \in LockTypes :
        /\ head(it, n) # invalid_arc
        /\ call' = [call EXCEPT ![p] =
              [op |-> kind, n |-> n, it |-> it, mode |-> mode,
               arc |-> head(it, n), m_queue |-> <<invalid_arc>>,
               m_not_all_touched |-> TRUE,
               due |-> IF it = "in" THEN In(n) ELSE Out(n), seen |-> << >>]]
        /\ pc' = [pc EXCEPT ![p] = IF kind = "InIt_OutIt" THEN "body" ELSE "lock"]
  BY DEF StartLoop
<1> DEFINE c == [op |-> kind, n |-> n, it |-> it, mode |-> mode,
                 arc |-> head(it, n), m_queue |-> <<invalid_arc>>,
                 m_not_all_touched |-> TRUE,
                 due |-> IF it = "in" THEN In(n) ELSE Out(n), seen |-> << >>]
           label == IF kind = "InIt_OutIt" THEN "body" ELSE "lock"
<1>2. head(it, n) \in Nat /\ head(it, n) \in InList(it, n)
  BY <1>1, IteratorSteps
<1>3. <<invalid_arc>> \in Seq(Nat) /\ <<invalid_arc>> # << >> /\ <<invalid_arc>>[1] = invalid_arc
  BY DEF invalid_arc
<1>4. Iterator(c)
  BY <1>2, <1>3 DEF Iterator
<1>5. Looping(p, label, c)
  <2>1. Exclusive' /\ KeepsLocks(p) /\ DOMAIN call = Threads
    BY NoLockStep DEF StartLoop, LInv, LTypeOK
  <2> QED
    BY <2>1, <1>1 DEF StartLoop, Looping, LoopLabels
<1>6. /\ c.arc \in InList(c.it, c.n) /\ c.m_queue # << >> /\ c.m_queue[1] = invalid_arc
      /\ label = "body" => c.op = "InIt_OutIt"
      /\ label # "idle"
  BY <1>2, <1>3
<1> HIDE DEF c, label
<1> QED
  BY <1>4, <1>5, <1>6, LoopingKeeps

\* The iterator locks its arc.
LEMMA LockArcKeeps ==
    ASSUME LInv, NEW p \in Threads, LockArc(p)
    PROVE  LInv'
<1>0. PICK c : c = call[p]
  OBVIOUS
<1>1. /\ pc[p] = "lock" /\ Lock(p, ArcLock(c.arc), c.mode)
      /\ m_arcs' = m_arcs /\ m_nodes' = m_nodes
      /\ pc' = [pc EXCEPT ![p] = "body"] /\ call' = call
  BY <1>0 DEF LockArc, Goto
<1>2. LoopOK(p) /\ DOMAIN call = Threads
  BY DEF LInv, LTypeOK
<1>3. /\ Iterator(c) /\ c.arc \in InList(c.it, c.n)
      /\ c.m_queue # << >> /\ c.m_queue[1] = invalid_arc
  BY <1>0, <1>1, <1>2 DEF LoopOK, LoopLabels, Iterator
<1>4. Exclusive' /\ Held(p, ArcLock(c.arc), c.mode)' /\ KeepsLocks(p)
  BY <1>1, LockStep DEF LInv
<1>5. Looping(p, "body", c)
  <2>1. call'[p] = c /\ DOMAIN call' = Threads /\ \A q \in Threads : call'[q] = call[q]
    BY <1>0, <1>1, <1>2
  <2> QED
    BY <2>1, <1>1, <1>4 DEF Looping, LoopLabels
<1> QED
  BY <1>3, <1>4, <1>5, LoopingKeeps

\* The loop goes on to the next arc.
LEMMA StepKeeps ==
    ASSUME LInv, NEW p \in Threads, Step(p)
    PROVE  LInv'
<1> DEFINE c    == call[p]
           next == getNext(c.it, c.arc)
           d    == [c EXCEPT !.arc = next, !.seen = Append(c.seen, c.arc)]
           label == IF next = invalid_arc THEN "end"
                    ELSE CASE c.op = "ArcIt_" -> "lock"
                           [] c.op = "QueingArcIt_" -> "try"
                           [] c.op = "InIt_OutIt" -> "body"
<1>1. /\ pc[p] = "body" /\ Unlock(p, {ArcLock(c.arc)})
      /\ m_arcs' = m_arcs /\ m_nodes' = m_nodes
      /\ pc' = [pc EXCEPT ![p] = label]
      /\ call' = [call EXCEPT ![p].arc = next, ![p].seen = Append(c.seen, c.arc)]
  BY DEF Step
<1>2. LoopOK(p) /\ DOMAIN call = Threads
  BY DEF LInv, LTypeOK
<1>3. /\ Iterator(c) /\ c.arc \in InList(c.it, c.n)
      /\ c.m_queue # << >> /\ c.m_queue[1] = invalid_arc
  BY <1>1, <1>2 DEF LoopOK, LoopLabels, Iterator
<1>4. next \in Nat /\ (next # invalid_arc => next \in InList(c.it, c.n))
  <2>1. c.it \in ItTypes /\ c.n \in NodeIds
    BY <1>3 DEF Iterator
  <2> HIDE DEF c
  <2> QED
    BY <1>3, <2>1, IteratorSteps
<1>5. /\ label \in LoopLabels /\ label # "idle"
      /\ label # "end" => next # invalid_arc
      /\ label = "body" => c.op = "InIt_OutIt"
  <2>1. c.op \in Kinds
    BY <1>3 DEF Iterator
  <2> HIDE DEF c, next
  <2>2. CASE next = invalid_arc
    BY <2>2 DEF LoopLabels
  <2>3. CASE next # invalid_arc /\ c.op = "ArcIt_"
    BY <2>3 DEF LoopLabels
  <2>4. CASE next # invalid_arc /\ c.op = "QueingArcIt_"
    BY <2>4 DEF LoopLabels
  <2>5. CASE next # invalid_arc /\ c.op = "InIt_OutIt"
    BY <2>5 DEF LoopLabels
  <2> QED
    BY <2>1, <2>2, <2>3, <2>4, <2>5 DEF Kinds
<1> HIDE DEF label, next
<1>6. /\ Iterator(d) /\ d.arc = next /\ d.it = c.it /\ d.n = c.n /\ d.m_queue = c.m_queue
      /\ d.op = c.op
  BY <1>3, <1>4 DEF Iterator
<1>7. call' = [call EXCEPT ![p] = d]
  <2>1. call' = [call EXCEPT ![p] = [call[p] EXCEPT !.arc = next, !.seen = Append(c.seen, c.arc)]]
    BY <1>1, <1>2
  <2> QED
    BY <2>1
<1> HIDE DEF d, c
<1>8. Looping(p, label, d)
  <2>1. Exclusive' /\ KeepsLocks(p)
    BY <1>1, UnlockStep DEF LInv
  <2> QED
    BY <2>1, <1>1, <1>2, <1>5, <1>7 DEF Looping, LoopLabels
<1> QED
  BY <1>3, <1>4, <1>5, <1>6, <1>8, LoopingKeeps

\* A queueing iterator locks its arc, or puts it into its queue and goes on.
LEMMA TryLockKeeps ==
    ASSUME LInv, NEW p \in Threads, TryLock(p)
    PROVE  LInv'
<1>0. PICK c : c = call[p]
  OBVIOUS
<1>1. /\ pc[p] = "try" /\ m_arcs' = m_arcs /\ m_nodes' = m_nodes
      /\ LoopOK(p) /\ DOMAIN call = Threads
  BY DEF TryLock, LInv, LTypeOK
<1>2. /\ Iterator(c) /\ c.arc \in InList(c.it, c.n)
      /\ c.m_queue # << >> /\ c.m_queue[1] = invalid_arc
      /\ c.m_queue \in Seq(Nat) /\ c.arc \in Nat
  BY <1>0, <1>1 DEF LoopOK, LoopLabels, Iterator
<1>3. CASE Lock(p, ArcLock(c.arc), c.mode) /\ Goto(p, "body")
  <2>1. Exclusive' /\ Held(p, ArcLock(c.arc), c.mode)' /\ KeepsLocks(p)
    BY <1>3, LockStep DEF LInv
  <2>2. call'[p] = c /\ DOMAIN call' = Threads /\ \A q \in Threads : call'[q] = call[q]
    BY <1>0, <1>1, <1>3 DEF Goto
  <2>3. Looping(p, "body", c)
    BY <2>1, <2>2, <1>1, <1>3 DEF Looping, LoopLabels, Goto
  <2> QED
    BY <2>1, <2>3, <1>2, LoopingKeeps
<1>4. CASE ~ (Lock(p, ArcLock(c.arc), c.mode) /\ Goto(p, "body"))
  <2> DEFINE next  == getNext(c.it, c.arc)
             queue == Append(c.m_queue, c.arc)
             pop   == c.m_not_all_touched => next = invalid_arc
             q2    == IF pop THEN Tail(queue) ELSE queue
             t2    == c.m_not_all_touched /\ ~pop
             a2    == IF pop THEN Head(queue) ELSE next
             d     == [c EXCEPT !.m_queue = q2, !.m_not_all_touched = t2, !.arc = a2]
             label == IF a2 = invalid_arc THEN "end" ELSE "try"
  <2>1. /\ UNCHANGED lock
        /\ call' = [call EXCEPT ![p].m_queue = q2, ![p].m_not_all_touched = t2, ![p].arc = a2]
        /\ pc' = [pc EXCEPT ![p] = IF call'[p].arc = invalid_arc THEN "end" ELSE "try"]
    BY <1>0, <1>4 DEF TryLock, Queued
  <2>2. /\ queue \in Seq(Nat) /\ queue # << >> /\ Head(queue) = invalid_arc
        /\ queue[1] = invalid_arc /\ Tail(queue) \in Seq(Nat) /\ Head(queue) \in Nat
    <3>1. Len(c.m_queue) \in Nat /\ Len(c.m_queue) # 0
      BY <1>2, EmptySeq, LenProperties
    <3>2. /\ queue \in Seq(Nat) /\ queue # << >> /\ queue[1] = c.m_queue[1]
      <4>1. 1 \in 1 .. Len(c.m_queue)
        BY <3>1
      <4> QED
        BY <4>1, <1>2, AppendProperties
    <3> HIDE DEF queue
    <3>3. Head(queue) = queue[1] /\ Tail(queue) \in Seq(Nat) /\ Head(queue) \in Nat
      BY <3>2, HeadTailProperties
    <3> QED
      BY <3>2, <3>3, <1>2
  <2>3. next \in Nat /\ (next # invalid_arc => next \in InList(c.it, c.n))
    <3>1. c.it \in ItTypes /\ c.n \in NodeIds
      BY <1>2 DEF Iterator
    <3> QED
      BY <1>2, <3>1, IteratorSteps
  <2> HIDE DEF queue, next
  <2>4. /\ q2 \in Seq(Nat) /\ t2 \in BOOLEAN /\ a2 \in Nat
        /\ a2 # invalid_arc => /\ a2 \in InList(c.it, c.n)
                               /\ q2 # << >> /\ q2[1] = invalid_arc
    BY <2>2, <2>3
  <2> HIDE DEF q2, t2, a2
  <2>5. /\ Iterator(d) /\ d.arc = a2 /\ d.it = c.it /\ d.n = c.n /\ d.m_queue = q2
    BY <1>2, <2>4 DEF Iterator
  <2>6. /\ call'[p] = d /\ DOMAIN call' = Threads
        /\ \A q \in Threads \ {p} : call'[q] = call[q]
    <3>1. call' = [call EXCEPT ![p] =
                [call[p] EXCEPT !.m_queue = q2, !.m_not_all_touched = t2, !.arc = a2]]
      BY <2>1
    <3> QED
      BY <1>0, <1>1, <3>1
  <2>7. pc' = [pc EXCEPT ![p] = label]
    BY <2>1, <2>5, <2>6
  <2> HIDE DEF d
  <2>8. Looping(p, label, d)
    <3>1. Exclusive' /\ KeepsLocks(p)
      BY <2>1, NoLockStep DEF LInv
    <3> QED
      BY <3>1, <2>6, <2>7, <1>1 DEF Looping, LoopLabels
  <2>9. label \in LoopLabels \ {"end"} =>
            d.arc \in InList(d.it, d.n) /\ d.m_queue # << >> /\ d.m_queue[1] = invalid_arc
    BY <2>4, <2>5
  <2>10. label # "body" /\ label # "idle"
    OBVIOUS
  <2> HIDE DEF label
  <2> QED
    BY <2>5, <2>8, <2>9, <2>10, LoopingKeeps
<1> QED
  BY <1>3, <1>4

\* A loop is left.
LEMMA LeaveLoopKeeps ==
    ASSUME LInv, NEW p \in Threads, EndLoop(p) \/ BreakLoop(p)
    PROVE  LInv'
<1>1. /\ pc[p] \in {"end", "body"} /\ m_arcs' = m_arcs /\ m_nodes' = m_nodes
      /\ pc' = [pc EXCEPT ![p] = "idle"] /\ call' = [call EXCEPT ![p] = NoCall]
      /\ DOMAIN call = Threads
  BY DEF EndLoop, BreakLoop, Return, LInv, LTypeOK
<1>2. Exclusive' /\ KeepsLocks(p)
  BY UnlockStep, NoLockStep DEF LInv, EndLoop, BreakLoop
<1>3. Looping(p, "idle", NoCall)
  BY <1>1, <1>2 DEF Looping, LoopLabels
<1>4. "idle" \notin LoopLabels
  BY DEF LoopLabels
<1> QED
  BY <1>3, <1>4, LoopingKeeps

-----------------------------------------------------------------------------
(* Steps that change an arena.                                             *)

\* p emplaces an arc from s to t.
Emplaces(p, s, t, label) ==
    /\ m_arcs' = Append(m_arcs, NewArc(s, t)) /\ m_nodes' = m_nodes
    /\ \/ label = "lock_target" /\ s \in NodeIds /\ t \in NodeIds
       \/ label = "emplace_node" /\ s = Uninitialized /\ t = Uninitialized
    /\ pc[p] = "idle" /\ pc' = [pc EXCEPT ![p] = label]
    /\ call'[p].a = Len(m_arcs) + 1 /\ DOMAIN call' = Threads
    /\ \A q \in Threads \ {p} : call'[q] = call[q]
    /\ KeepsLocks(p)

\* Emplacing an arc leaves all lists alone: nothing leads to it yet.
LEMMA EmplaceArcKeeps ==
    ASSUME LInv, NEW p \in Threads, NEW s, NEW t, NEW label, Emplaces(p, s, t, label)
    PROVE  /\ Keeps(p) /\ LTypeOK' /\ ListsOK' /\ ArcsOwned'
           /\ NodeIds' = NodeIds /\ Len(m_arcs) + 1 \in ArcIds'
           /\ m_arcs'[Len(m_arcs) + 1] = NewArc(s, t) /\ pc'[p] = label
<1> DEFINE N == Len(m_arcs)
           x == N + 1
<1>1. /\ m_arcs \in Seq(Arc) /\ m_nodes \in Seq(Node)
      /\ pc \in [Threads -> {"idle"} \cup AddLabels \cup LoopLabels] /\ DOMAIN call = Threads
      /\ \A y \in ArcIds : /\ m_arcs[y].source \in NodeIds \cup {invalid_node, Uninitialized}
                           /\ m_arcs[y].target \in NodeIds \cup {Uninitialized}
  BY DEF LInv, LTypeOK
<1>2. /\ N \in Nat /\ ArcIds = 1 .. N /\ NextIn(m_arcs) \in [1 .. N -> Nat]
      /\ NextOut(m_arcs) \in [1 .. N -> Nat]
      /\ NodeIds = 1 .. Len(m_nodes) /\ Len(m_nodes) \in Nat
  BY <1>1, ArenaFacts DEF ArcIds, NodeIds
<1>3. /\ NewArc(s, t) \in Arc
      /\ NewArc(s, t).source = s /\ NewArc(s, t).target = t
      /\ NewArc(s, t).next_in = invalid_arc /\ NewArc(s, t).next_out = invalid_arc
  BY <1>2 DEF NewArc, Arc, Emplaces, Uninitialized, invalid_arc
<1>4. /\ m_arcs' \in Seq(Arc) /\ Len(m_arcs') = x
      /\ m_arcs'[x] = NewArc(s, t) /\ \A y \in 1 .. N : m_arcs'[y] = m_arcs[y]
  <2> HIDE DEF Arc
  <2> QED
    BY <1>1, <1>3, AppendProperties DEF Emplaces
<1>5. /\ ArcIds' = 1 .. x /\ NextIn(m_arcs') \in [1 .. x -> Nat]
      /\ NextOut(m_arcs') \in [1 .. x -> Nat]
  BY <1>1, <1>4, ArenaFacts DEF ArcIds
<1>6. /\ m_nodes' = m_nodes /\ NodeIds' = NodeIds
      /\ pc[p] = "idle" /\ pc'[p] = label /\ call'[p].a = x
      /\ pc' \in [Threads -> {"idle"} \cup AddLabels \cup LoopLabels] /\ DOMAIN call' = Threads
      /\ \A q \in Threads \ {p} : pc'[q] = pc[q] /\ call'[q] = call[q]
      /\ label \in InLabels /\ label \in AddLabels /\ label # "set_ends"
      /\ label \in {"lock_target", "emplace_node"}
      /\ pc[p] \notin InLabels /\ pc[p] \notin AddLabels
      /\ InLabels \in SUBSET AddLabels /\ AddLabels \in SUBSET AddLabels
  BY <1>1 DEF Emplaces, NodeIds, AddLabels, InLabels, ListLabels
<1>7. /\ 1 .. x = (1 .. N) \cup {x} /\ x \notin 1 .. N
  BY <1>2
<1> HIDE DEF N, x
<1>8. LTypeOK'
  <2>1. \A y \in 1 .. x : /\ m_arcs'[y].source \in NodeIds \cup {invalid_node, Uninitialized}
                          /\ m_arcs'[y].target \in NodeIds \cup {Uninitialized}
    BY <1>1, <1>2, <1>3, <1>4, <1>7 DEF Emplaces
  <2> QED
    BY <2>1, <1>1, <1>4, <1>5, <1>6 DEF LTypeOK
<1>9. OnlyMoves(p)
  BY <1>6 DEF OnlyMoves
<1>10. InPending' = InPending \cup {x} /\ OutPending' = OutPending \cup {x}
  <2>1. /\ Adding(InLabels)' = Adding(InLabels) \cup {x}
        /\ Adding(AddLabels)' = Adding(AddLabels) \cup {x}
    BY <1>6, <1>9, PendingMoves DEF LInv
  <2> QED
    BY <2>1, PendingIs
<1>11. ArcsOwned'
  <2>1. \A q \in Threads : pc[q] \in AddLabels => call[q].a \in ArcIds
    BY DEF LInv, AddingOK
  <2>2. \A q, r \in Threads : pc'[q] \in AddLabels /\ pc'[r] \in AddLabels
                              /\ call'[q].a = call'[r].a => q = r
    BY <2>1, <1>2, <1>6, <1>7 DEF LInv, ArcsOwned
  <2>3. ASSUME NEW y \in 1 .. x,
               m_arcs'[y].source = Uninitialized \/ m_arcs'[y].target = Uninitialized
        PROVE  \E q \in Threads : pc'[q] \in {"emplace_node", "set_ends"} /\ call'[q].a = y
    <3>1. CASE y \in 1 .. N
      <4>1. PICK q \in Threads : pc[q] \in {"emplace_node", "set_ends"} /\ call[q].a = y
        BY <2>3, <3>1, <1>2, <1>4 DEF LInv, ArcsOwned
      <4> QED
        BY <4>1, <1>6
    <3>2. CASE y = x
      <4>1. Uninitialized \notin NodeIds
        BY <1>2 DEF Uninitialized
      <4>2. label = "emplace_node"
        BY <4>1, <2>3, <3>2, <1>3, <1>4 DEF Emplaces
      <4> QED
        BY <4>2, <3>2, <1>6
    <3> QED
      BY <3>1, <3>2, <1>7
  <2> QED
    BY <2>2, <2>3, <1>5 DEF ArcsOwned
<1>12. \A y \in 1 .. N : TargetOf(y)' = TargetOf(y)
  <2> SUFFICES ASSUME NEW y \in 1 .. N PROVE TargetOf(y)' = TargetOf(y)
    OBVIOUS
  <2> QED
    BY <1>4, <1>6, <1>9, TargetKeeps DEF LInv, Setting
<1>13. ListsOK'
  <2>1. Grown(N, NextIn(m_arcs), Targets, InPending, NextIn(m_arcs'), Targets', InPending')
    <3>1. \A y \in 1 .. N : NextIn(m_arcs')[y] = NextIn(m_arcs)[y] /\ Targets'[y] = Targets[y]
      BY <1>2, <1>4, <1>5, <1>7, <1>12 DEF NextIn, Targets, ArcIds
    <3>2. NextIn(m_arcs')[x] = invalid_arc
      BY <1>3, <1>4, <1>5, <1>7 DEF NextIn, ArcIds
    <3> QED
      BY <3>1, <3>2, <1>2, <1>5, <1>10 DEF Grown, x
  <2>2. Grown(N, NextOut(m_arcs), Sources(m_arcs), OutPending,
              NextOut(m_arcs'), Sources(m_arcs'), OutPending')
    <3>1. \A y \in 1 .. N : /\ NextOut(m_arcs')[y] = NextOut(m_arcs)[y]
                            /\ Sources(m_arcs')[y] = Sources(m_arcs)[y]
      BY <1>2, <1>4, <1>5, <1>7 DEF NextOut, Sources, ArcIds
    <3>2. NextOut(m_arcs')[x] = invalid_arc
      BY <1>3, <1>4, <1>5, <1>7 DEF NextOut, ArcIds
    <3> QED
      BY <3>1, <3>2, <1>2, <1>5, <1>10 DEF Grown, x
  <2>3. /\ Lists(NodeIds, HeadIn(m_nodes), TailIn(m_nodes), NextIn(m_arcs), Targets, InPending)
        /\ Lists(NodeIds, HeadOut(m_nodes), TailOut(m_nodes), NextOut(m_arcs),
                 Sources(m_arcs), OutPending)
        /\ \A n \in NodeIds : m_nodes[n].head_in # invalid_arc
    BY DEF LInv, ListsOK
  <2>4. /\ Lists(NodeIds, HeadIn(m_nodes), TailIn(m_nodes), NextIn(m_arcs'), Targets', InPending')
        /\ Lists(NodeIds, HeadOut(m_nodes), TailOut(m_nodes), NextOut(m_arcs'),
                 Sources(m_arcs'), OutPending')
    BY <2>1, <2>2, <2>3, ListsGrow
  <2> QED
    BY <2>3, <2>4, <1>6 DEF ListsOK
<1>14. Keeps(p)
  <2>1. \A y \in ArcIds : m_arcs'[y] = m_arcs[y] /\ TargetOf(y)' = TargetOf(y) /\ y # x
    BY <1>2, <1>4, <1>7, <1>12
  <2>2. ArcIds \subseteq ArcIds'
    BY <1>2, <1>5, <1>7
  <2> QED
    BY <2>1, <2>2, <1>6, <1>9, <1>10 DEF Keeps, Emplaces
<1> QED
  BY <1>4, <1>5, <1>6, <1>7, <1>8, <1>11, <1>13, <1>14 DEF N, x

\* addArc() and addNode() emplace their arc.
LEMMA AddKeeps ==
    ASSUME LInv, NEW p \in Threads, AddArc(p) \/ AddNode(p)
    PROVE  LInv'
<1>x. PICK x : x = Len(m_arcs) + 1
  OBVIOUS
<1>0. DOMAIN call = Threads /\ pc \in [Threads -> {"idle"} \cup AddLabels \cup LoopLabels]
  BY DEF LInv, LTypeOK
<1>1. CASE AddArc(p)
  <2>1. PICK s \in NodeIds, t \in NodeIds :
          /\ m_arcs' = Append(m_arcs, NewArc(s, t))
          /\ call' = [call EXCEPT ![p] =
                        [op |-> "addArc", s |-> s, t |-> t, a |-> x]]
    BY <1>x, <1>1 DEF AddArc, emplace_back
  <2>2. call'[p] = [op |-> "addArc", s |-> s, t |-> t, a |-> x]
    BY <1>0, <2>1
  <2>3. Exclusive' /\ KeepsLocks(p)
    BY <1>1, NoLockStep DEF AddArc, LInv
  <2>4. Emplaces(p, s, t, "lock_target")
    BY <1>x, <1>0, <1>1, <2>1, <2>2, <2>3 DEF AddArc, Emplaces
  <2>5. /\ Keeps(p) /\ LTypeOK' /\ ListsOK' /\ ArcsOwned'
        /\ NodeIds' = NodeIds /\ x \in ArcIds'
        /\ m_arcs'[x] = NewArc(s, t) /\ pc'[p] = "lock_target"
    BY <2>4, <1>x, EmplaceArcKeeps
  <2>6. AddingOK(p)'
    BY <2>2, <2>5 DEF AddingOK, NewArc, InLabels, ListLabels, AddLabels
  <2>7. LoopOK(p)' /\ LocksOf(p)'
    BY <2>5 DEF LoopOK, LocksOf, LoopLabels
  <2> QED
    BY <2>3, <2>5, <2>6, <2>7, Assemble
<1>2. CASE AddNode(p)
  <2>1. PICK s \in NodeIds :
          call' = [call EXCEPT ![p] = [op |-> "addNode", s |-> s, t |-> invalid_node, a |-> x]]
    BY <1>x, <1>2 DEF AddNode
  <2>2. call'[p] = [op |-> "addNode", s |-> s, t |-> invalid_node, a |-> x]
    BY <1>0, <2>1
  <2>3. Exclusive' /\ Held(p, ArcLock(x), "write")' /\ KeepsLocks(p)
    <3>1. Lock(p, ArcLock(x), "write")
      BY <1>x, <1>2 DEF AddNode, EmplaceLocked, Lock
    <3> QED
      BY <3>1, LockStep DEF LInv
  <2>4. Emplaces(p, Uninitialized, Uninitialized, "emplace_node")
    BY <1>x, <1>0, <1>2, <2>1, <2>2, <2>3 DEF AddNode, Emplaces, emplace_back
  <2>5. /\ Keeps(p) /\ LTypeOK' /\ ListsOK' /\ ArcsOwned'
        /\ NodeIds' = NodeIds /\ x \in ArcIds'
        /\ m_arcs'[x] = NewArc(Uninitialized, Uninitialized) /\ pc'[p] = "emplace_node"
    BY <2>4, <1>x, EmplaceArcKeeps
  <2>6. AddingOK(p)'
    BY <2>2, <2>5 DEF AddingOK, NewArc, InLabels, ListLabels, AddLabels
  <2>7. LoopOK(p)'
    BY <2>5 DEF LoopOK, LoopLabels
  <2>8. LocksOf(p)'
    BY <2>2, <2>3, <2>5 DEF LocksOf, Held
  <2> QED
    BY <2>3, <2>5, <2>6, <2>7, <2>8, Assemble
<1> QED
  BY <1>1, <1>2

\* What the invariant says of the arenas and of the arc that p adds.
LEMMA AddingFacts ==
    ASSUME LInv, NEW p \in Threads, pc[p] \in AddLabels
    PROVE  LET x == call[p].a
               N == Len(m_arcs)
           IN  /\ m_arcs \in Seq(Arc) /\ m_nodes \in Seq(Node)
               /\ pc \in [Threads -> {"idle"} \cup AddLabels \cup LoopLabels]
               /\ DOMAIN call = Threads
               /\ N \in Nat /\ ArcIds = 1 .. N /\ Len(m_nodes) \in Nat
               /\ NodeIds = 1 .. Len(m_nodes)
               /\ m_arcs \in [1 .. N -> Arc] /\ m_nodes \in [NodeIds -> Node]
               /\ NextIn(m_arcs) \in [1 .. N -> Nat] /\ NextOut(m_arcs) \in [1 .. N -> Nat]
               /\ call[p] \in [op : {"addArc", "addNode"}, s : NodeIds,
                               t : NodeIds \cup {invalid_node}, a : ArcIds]
               /\ x \in ArcIds /\ x \in OutPending
               /\ x \in InPending <=> pc[p] \in InLabels
               /\ \A q \in Threads : pc[q] \in AddLabels /\ call[q].a = x => q = p
               /\ \A y \in ArcIds : TargetOf(y) \in NodeIds \cup {Uninitialized}
               /\ pc[p] = "set_ends" => TargetOf(x) = call[p].t
               /\ pc[p] \in AddLabels \ {"set_ends"} => TargetOf(x) = m_arcs[x].target
<1>1. /\ m_arcs \in Seq(Arc) /\ m_nodes \in Seq(Node)
      /\ pc \in [Threads -> {"idle"} \cup AddLabels \cup LoopLabels] /\ DOMAIN call = Threads
      /\ \A y \in ArcIds : m_arcs[y].target \in NodeIds \cup {Uninitialized}
  BY DEF LInv, LTypeOK
<1>2. /\ Len(m_arcs) \in Nat /\ ArcIds = 1 .. Len(m_arcs) /\ Len(m_nodes) \in Nat
      /\ NodeIds = 1 .. Len(m_nodes)
      /\ NextIn(m_arcs) \in [1 .. Len(m_arcs) -> Nat]
      /\ NextOut(m_arcs) \in [1 .. Len(m_arcs) -> Nat]
  BY <1>1, ArenaFacts DEF ArcIds, NodeIds
<1>3. m_arcs \in [1 .. Len(m_arcs) -> Arc] /\ m_nodes \in [NodeIds -> Node]
  <2> HIDE DEF Arc, Node
  <2> QED
    BY <1>1, <1>2, LenProperties
<1>4. call[p] \in [op : {"addArc", "addNode"}, s : NodeIds,
                   t : NodeIds \cup {invalid_node}, a : ArcIds]
  BY DEF LInv, AddingOK
<1>5. call[p].a \in ArcIds
  BY <1>4
<1>6. \A q \in Threads : pc[q] \in AddLabels /\ call[q].a = call[p].a => q = p
  BY DEF LInv, ArcsOwned
<1>7. call[p].a \in OutPending /\ (call[p].a \in InPending <=> pc[p] \in InLabels)
  <2>1. InLabels \subseteq AddLabels
    BY DEF AddLabels
  <2> QED
    BY <2>1, <1>6, PendingIs DEF Adding
<1>8. ASSUME NEW q \in Threads, NEW y, Setting(pc, call, q, y)
      PROVE  TargetOf(y) = call[q].t /\ call[q].t \in NodeIds
  <2>1. \A r \in Threads : Setting(pc, call, r, y) => r = q
    BY <1>8 DEF Setting, LInv, ArcsOwned, AddLabels
  <2>2. call[q].t \in NodeIds
    BY <1>8 DEF LInv, AddingOK, Setting, AddLabels
  <2> QED
    BY <2>1, <2>2, <1>8, TargetAtSet DEF TargetOf
<1>9. \A y \in ArcIds : TargetOf(y) \in NodeIds \cup {Uninitialized}
  <2> SUFFICES ASSUME NEW y \in ArcIds PROVE TargetOf(y) \in NodeIds \cup {Uninitialized}
    OBVIOUS
  <2>1. CASE \E q \in Threads : Setting(pc, call, q, y)
    BY <2>1, <1>8
  <2>2. CASE ~ \E q \in Threads : Setting(pc, call, q, y)
    BY <2>2, <1>1 DEF TargetOf, TargetAt
  <2> QED
    BY <2>1, <2>2
<1>10. pc[p] = "set_ends" => TargetOf(call[p].a) = call[p].t
  BY <1>8 DEF Setting
<1>11. pc[p] \in AddLabels \ {"set_ends"} => TargetOf(call[p].a) = m_arcs[call[p].a].target
  <2> SUFFICES ASSUME pc[p] # "set_ends"
               PROVE  TargetOf(call[p].a) = m_arcs[call[p].a].target
    OBVIOUS
  <2>1. ~ \E q \in Threads : Setting(pc, call, q, call[p].a)
    BY <1>6 DEF Setting, AddLabels
  <2> QED
    BY <2>1 DEF TargetOf, TargetAt
<1> QED
  BY <1>1, <1>2, <1>3, <1>4, <1>5, <1>6, <1>7, <1>9, <1>10, <1>11

\* addNode() emplaces its node.
LEMMA EmplaceNodeKeeps ==
    ASSUME LInv, NEW p \in Threads, EmplaceNode(p)
    PROVE  LInv'
<1>c. PICK c, m : c = call[p] /\ m = Len(m_nodes) + 1
  OBVIOUS
<1> DEFINE N == Len(m_arcs)
           x == c.a
<1>0. pc[p] = "emplace_node" /\ pc[p] \in InLabels /\ pc[p] \in AddLabels
      /\ AddingOK(p) /\ LocksOf(p)
  BY DEF EmplaceNode, InLabels, AddLabels, LInv
<1>1. /\ m_arcs \in Seq(Arc) /\ m_nodes \in Seq(Node)
      /\ pc \in [Threads -> {"idle"} \cup AddLabels \cup LoopLabels] /\ DOMAIN call = Threads
      /\ N \in Nat /\ ArcIds = 1 .. N
      /\ Len(m_nodes) \in Nat /\ NodeIds = 1 .. Len(m_nodes)
      /\ NextIn(m_arcs) \in [1 .. N -> Nat] /\ NextOut(m_arcs) \in [1 .. N -> Nat]
      /\ c \in [op : {"addArc", "addNode"}, s : NodeIds,
                t : NodeIds \cup {invalid_node}, a : ArcIds]
      /\ x \in ArcIds /\ x \in InPending
      /\ \A q \in Threads : pc[q] \in AddLabels /\ call[q].a = x => q = p
      /\ \A y \in ArcIds : TargetOf(y) \in NodeIds \cup {Uninitialized}
      /\ c.op = "addNode" /\ m_arcs[x].source = Uninitialized /\ m_arcs[x].target = Uninitialized
      /\ Held(p, ArcLock(x), "write")
  <2>1. /\ call[p].op = "addNode" /\ m_arcs[call[p].a].source = Uninitialized
        /\ m_arcs[call[p].a].target = Uninitialized /\ Held(p, ArcLock(call[p].a), "write")
    BY <1>0 DEF AddingOK, LocksOf
  <2> QED
    BY <2>1, <1>0, <1>c, AddingFacts
<1>2. /\ m_arcs' = m_arcs /\ lock' = lock
      /\ m_nodes' = Append(m_nodes, NewNode(x))
      /\ call' = [call EXCEPT ![p].t = m] /\ pc' = [pc EXCEPT ![p] = "set_ends"]
  BY <1>c DEF EmplaceNode, emplace_back
<1>3. /\ call'[p] = [c EXCEPT !.t = m] /\ DOMAIN call' = Threads /\ pc'[p] = "set_ends"
      /\ pc' \in [Threads -> {"idle"} \cup AddLabels \cup LoopLabels]
      /\ OnlyMoves(p) /\ ArcIds' = ArcIds
  <2>1. "set_ends" \in AddLabels
    BY DEF AddLabels
  <2> QED
    BY <2>1, <1>1, <1>2, <1>c DEF OnlyMoves, ArcIds
<1>4. /\ call'[p].a = x /\ call'[p].t = m /\ call'[p].s = c.s /\ call'[p].op = "addNode"
      /\ call'[p] \in [op : {"addArc", "addNode"}, s : NodeIds, t : {m}, a : ArcIds]
      /\ pc'[p] \in AddLabels /\ pc'[p] \notin InLabels
  <2>1. call'[p] \in [op : {"addArc", "addNode"}, s : NodeIds, t : {m}, a : ArcIds]
    BY <1>1, <1>3
  <2> QED
    BY <2>1, <1>1, <1>3 DEF AddLabels, InLabels
<1>5. /\ NewNode(x) \in Node /\ x \in Nat /\ x # invalid_arc
      /\ NewNode(x).head_in = x /\ NewNode(x).tail_in = x
      /\ NewNode(x).head_out = invalid_arc /\ NewNode(x).tail_out = invalid_arc
  BY <1>1, SMTT(30) DEF NewNode, Node, invalid_arc
<1>6. /\ m_nodes' \in Seq(Node) /\ Len(m_nodes') = m
      /\ m_nodes'[m] = NewNode(x) /\ \A n \in NodeIds : m_nodes'[n] = m_nodes[n]
      /\ NodeIds' = NodeIds \cup {m} /\ m \notin NodeIds /\ m \in Nat /\ m > 0
  <2>1. /\ m_nodes' \in Seq(Node) /\ Len(m_nodes') = m
        /\ m_nodes'[m] = NewNode(x) /\ \A n \in NodeIds : m_nodes'[n] = m_nodes[n]
    <3> HIDE DEF Node
    <3> QED
      BY <1>c, <1>1, <1>2, <1>5, AppendProperties
  <2>2. NodeIds' = 1 .. m
    BY <2>1, LenProperties DEF NodeIds
  <2> QED
    BY <2>1, <2>2, <1>1, <1>c
<1> HIDE DEF N, x
<1>7. InPending' = InPending \ {x} /\ OutPending' = OutPending
  <2>1. InLabels \in SUBSET AddLabels /\ AddLabels \in SUBSET AddLabels
    BY DEF AddLabels
  <2>2. Adding(InLabels)' = Adding(InLabels) \ {call[p].a}
    BY <2>1, <1>0, <1>3, <1>4, PendingMoves DEF LInv
  <2>3. Adding(AddLabels)' = Adding(AddLabels) /\ call[p].a = x
    BY <2>1, <1>c, <1>0, <1>3, <1>4, PendingMoves DEF LInv, x
  <2> QED
    BY <2>2, <2>3, PendingIs
<1>8. ASSUME NEW y, y # x PROVE TargetOf(y)' = TargetOf(y)
  <2>1. ~ Setting(pc, call, p, y) /\ ~ Setting(pc', call', p, y)
    BY <1>0, <1>4, <1>8 DEF Setting
  <2> QED
    BY <2>1, <1>2, <1>3, TargetKeeps DEF LInv
<1>9. TargetOf(x)' = m
  <2>1. \A r \in Threads : Setting(pc', call', r, x) => r = p
    BY <1>1, <1>3 DEF Setting, OnlyMoves, AddLabels
  <2>2. Setting(pc', call', p, x)
    BY <1>3, <1>4 DEF Setting
  <2>3. TargetAt(m_arcs', pc', call', x) = call'[p].t
    BY <2>1, <2>2, TargetAtSet
  <2> QED
    BY <2>3, <1>4, <1>2 DEF TargetOf
<1>10. LTypeOK'
  <2>1. \A y \in ArcIds : /\ m_arcs[y].source \in NodeIds \cup {invalid_node, Uninitialized}
                          /\ m_arcs[y].target \in NodeIds \cup {Uninitialized}
    BY DEF LInv, LTypeOK
  <2> QED
    BY <2>1, <1>1, <1>2, <1>3, <1>6 DEF LTypeOK
<1>11. ArcsOwned'
  <2>1. \A q, r \in Threads : pc'[q] \in AddLabels /\ pc'[r] \in AddLabels
                              /\ call'[q].a = call'[r].a => q = r
    BY <1>1, <1>3, <1>4 DEF LInv, ArcsOwned, OnlyMoves
  <2>2. ASSUME NEW y \in ArcIds,
               m_arcs[y].source = Uninitialized \/ m_arcs[y].target = Uninitialized
        PROVE  \E q \in Threads : pc'[q] \in {"emplace_node", "set_ends"} /\ call'[q].a = y
    <3>1. PICK q \in Threads : pc[q] \in {"emplace_node", "set_ends"} /\ call[q].a = y
      BY <2>2 DEF LInv, ArcsOwned
    <3>2. call[p].a = x
      BY <1>c DEF x
    <3>3. CASE q = p
      BY <3>1, <3>2, <3>3, <1>3, <1>4
    <3>4. CASE q # p
      BY <3>1, <3>4, <1>3 DEF OnlyMoves
    <3> QED
      BY <3>3, <3>4
  <2> QED
    BY <2>1, <2>2, <1>2, <1>3 DEF ArcsOwned
<1>12. ListsOK'
  <2>1. /\ Lists(NodeIds, HeadIn(m_nodes), TailIn(m_nodes), NextIn(m_arcs), Targets, InPending)
        /\ Lists(NodeIds, HeadOut(m_nodes), TailOut(m_nodes), NextOut(m_arcs),
                 Sources(m_arcs), OutPending)
        /\ \A n \in NodeIds : m_nodes[n].head_in # invalid_arc
    BY DEF LInv, ListsOK
  <2>2. DOMAIN NextIn(m_arcs) = ArcIds /\ DOMAIN NextOut(m_arcs) = ArcIds
    BY DEF NextIn, NextOut, ArcIds
  <2>3. NodeAdded(NodeIds, HeadIn(m_nodes), TailIn(m_nodes),
                  NodeIds', HeadIn(m_nodes'), TailIn(m_nodes'), m, x)
    <3>1. DOMAIN m_nodes = NodeIds /\ DOMAIN m_nodes' = NodeIds \cup {m}
      BY <1>6 DEF NodeIds
    <3> QED
      BY <3>1, <1>5, <1>6 DEF NodeAdded, HeadIn, TailIn
  <2>4. NodeAdded(NodeIds, HeadOut(m_nodes), TailOut(m_nodes),
                  NodeIds', HeadOut(m_nodes'), TailOut(m_nodes'), m, invalid_arc)
    <3>1. DOMAIN m_nodes = NodeIds /\ DOMAIN m_nodes' = NodeIds \cup {m}
      BY <1>6 DEF NodeIds
    <3> QED
      BY <3>1, <1>5, <1>6 DEF NodeAdded, HeadOut, TailOut
  <2>5. \A y \in ArcIds : Targets[y] # m /\ Sources(m_arcs)[y] # m
    <3>1. \A y \in ArcIds : TargetOf(y) # m
      BY <1>1, <1>6 DEF Uninitialized
    <3>2. \A y \in ArcIds : m_arcs[y].source # m
      BY <1>6, SMTT(30) DEF LInv, LTypeOK, invalid_node, Uninitialized
    <3> QED
      BY <3>1, <3>2 DEF Targets, Sources, ArcIds
  <2>6. \A y \in ArcIds \ {x} : Targets'[y] = Targets[y]
    BY <1>3, <1>8 DEF Targets
  <2>7. Targets'[x] = m
    BY <1>1, <1>3, <1>9 DEF Targets
  <2>8. Lists(NodeIds', HeadIn(m_nodes'), TailIn(m_nodes'), NextIn(m_arcs),
              Targets', InPending \ {x})
    <3>1. PICK owner, owner2, next, pend :
              /\ owner = Targets /\ owner2 = Targets' /\ next = NextIn(m_arcs)
              /\ pend = InPending
      OBVIOUS
    <3>2. /\ \A y \in DOMAIN next \ pend : owner[y] # m
          /\ \A y \in DOMAIN next \ {x} : owner2[y] = owner[y]
          /\ owner2[x] = m /\ x \in pend /\ N \in Nat /\ next \in [1 .. N -> Nat]
          /\ Lists(NodeIds, HeadIn(m_nodes), TailIn(m_nodes), next, owner, pend)
      BY <3>1, <1>1, <2>1, <2>2, <2>5, <2>6, <2>7
    <3>3. Lists(NodeIds', HeadIn(m_nodes'), TailIn(m_nodes'), next, owner2, pend \ {x})
      BY <3>2, <2>3, ListsNewNode
    <3> QED
      BY <3>1, <3>3
  <2>9. Lists(NodeIds', HeadOut(m_nodes'), TailOut(m_nodes'), NextOut(m_arcs),
              Sources(m_arcs), OutPending)
    BY <1>1, <2>1, <2>2, <2>4, <2>5, ListsEmptyNode
  <2>10. \A n \in NodeIds' : m_nodes'[n].head_in # invalid_arc
    BY <2>1, <1>5, <1>6
  <2> QED
    BY <2>8, <2>9, <2>10, <1>2, <1>7 DEF ListsOK
<1>13. Exclusive' /\ KeepsLocks(p)
  BY <1>2, NoLockStep DEF LInv
<1>14. Keeps(p)
  <2>1. \A y \in ArcIds \ InPending : y # x
    BY <1>1
  <2> QED
    BY <2>1, <1>2, <1>3, <1>6, <1>7, <1>8, <1>13 DEF Keeps
<1>15. AddingOK(p)'
  <2>1. /\ call'[p] \in [op : {"addArc", "addNode"}, s : NodeIds',
                         t : NodeIds' \cup {invalid_node}, a : ArcIds']
        /\ call'[p].t \in NodeIds'
        /\ m_arcs'[call'[p].a].source = Uninitialized
        /\ m_arcs'[call'[p].a].target = Uninitialized
    BY <1>1, <1>2, <1>3, <1>4, <1>6
  <2> QED
    BY <2>1, <1>3, <1>4 DEF AddingOK, ListLabels, InLabels
<1>16. LoopOK(p)' /\ LocksOf(p)'
  BY <1>1, <1>2, <1>3, <1>4, ZenonT(30) DEF LoopOK, LoopLabels, LocksOf, Held, ArcLock
<1> QED
  BY <1>10, <1>11, <1>12, <1>13, <1>14, <1>15, <1>16, Assemble

\* addNode() sets the ends of its arc.
LEMMA SetSourceTargetKeeps ==
    ASSUME LInv, NEW p \in Threads, SetSourceTarget(p)
    PROVE  LInv'
<1>c. PICK c, N : c = call[p] /\ N = Len(m_arcs)
  OBVIOUS
<1> DEFINE x == c.a
           arc == [m_arcs[x] EXCEPT !.source = c.s, !.target = c.t]
<1>0. /\ pc[p] = "set_ends" /\ pc[p] \notin InLabels /\ pc[p] \in AddLabels
      /\ AddingOK(p) /\ LocksOf(p)
  BY DEF SetSourceTarget, InLabels, AddLabels, LInv
<1>1. /\ m_arcs \in Seq(Arc) /\ m_nodes \in Seq(Node)
      /\ pc \in [Threads -> {"idle"} \cup AddLabels \cup LoopLabels] /\ DOMAIN call = Threads
      /\ N \in Nat /\ ArcIds = 1 .. N
      /\ Len(m_nodes) \in Nat /\ NodeIds = 1 .. Len(m_nodes)
      /\ m_arcs \in [1 .. N -> Arc]
      /\ NextIn(m_arcs) \in [1 .. N -> Nat] /\ NextOut(m_arcs) \in [1 .. N -> Nat]
      /\ x \in ArcIds /\ x \in OutPending /\ x \notin InPending
      /\ \A q \in Threads : pc[q] \in AddLabels /\ call[q].a = x => q = p
      /\ TargetOf(x) = c.t
      /\ c \in [op : {"addArc", "addNode"}, s : NodeIds, t : NodeIds, a : ArcIds]
  <2>1. call[p].t \in NodeIds
    BY <1>0 DEF AddingOK
  <2>2. /\ call[p] \in [op : {"addArc", "addNode"}, s : NodeIds,
                        t : NodeIds \cup {invalid_node}, a : ArcIds]
        /\ TargetOf(call[p].a) = call[p].t
    BY <1>0, AddingFacts
  <2>3. call[p] \in [op : {"addArc", "addNode"}, s : NodeIds, t : NodeIds, a : ArcIds]
    BY <2>1, <2>2
  <2> QED
    BY <2>2, <2>3, <1>0, <1>c, AddingFacts
<1>2. /\ m_nodes' = m_nodes /\ call' = call /\ Unlock(p, {ArcLock(x)})
      /\ m_arcs' = [m_arcs EXCEPT ![x].source = c.s, ![x].target = c.t]
      /\ pc' = [pc EXCEPT ![p] = "lock_source"]
  BY <1>c DEF SetSourceTarget, Goto
<1>3. /\ c.s \in NodeIds /\ c.t \in NodeIds /\ c.s \in Int /\ c.t \in Int
  BY <1>1
<1>4. /\ arc \in Arc /\ arc.source = c.s /\ arc.target = c.t
      /\ arc.next_in = m_arcs[x].next_in /\ arc.next_out = m_arcs[x].next_out
  <2>1. m_arcs[x] \in Arc
    <3> HIDE DEF Arc
    <3> QED
      BY <1>1
  <2> QED
    BY <2>1, <1>3 DEF Arc
<1>5. m_arcs' = [m_arcs EXCEPT ![x] = arc]
  BY <1>1, <1>2
<1> HIDE DEF arc, x
<1>6. /\ m_arcs' \in [1 .. N -> Arc] /\ m_arcs'[x] = arc
      /\ \A y \in ArcIds : y # x => m_arcs'[y] = m_arcs[y]
  <2> HIDE DEF Arc
  <2> QED
    BY <1>1, <1>4, <1>5
<1>7. /\ m_arcs' \in Seq(Arc) /\ Len(m_arcs') = N /\ ArcIds' = ArcIds /\ NodeIds' = NodeIds
      /\ NextIn(m_arcs') = NextIn(m_arcs) /\ NextOut(m_arcs') = NextOut(m_arcs)
      /\ \A y \in ArcIds \ {x} : Sources(m_arcs')[y] = Sources(m_arcs)[y]
  <2>1. m_arcs' \in Seq(Arc) /\ Len(m_arcs') = N
    <3> HIDE DEF Arc
    <3> QED
      BY <1>1, <1>6, FunctionIsSeq
  <2>2. DOMAIN m_arcs' = ArcIds /\ DOMAIN m_arcs = ArcIds
    BY <1>1, <1>6 DEF ArcIds
  <2>3. \A y \in ArcIds : /\ m_arcs'[y].next_in = m_arcs[y].next_in
                          /\ m_arcs'[y].next_out = m_arcs[y].next_out
    BY <1>4, <1>6
  <2> QED
    BY <2>1, <2>2, <2>3, <1>2, <1>6 DEF NextIn, NextOut, Sources, ArcIds, NodeIds
<1>8. /\ pc'[p] = "lock_source" /\ OnlyMoves(p) /\ call'[p] = c
      /\ pc' \in [Threads -> {"idle"} \cup AddLabels \cup LoopLabels]
      /\ pc'[p] \in AddLabels /\ pc'[p] \notin InLabels
  <2>1. "lock_source" \in AddLabels /\ "lock_source" \notin InLabels
    BY DEF AddLabels, ListLabels, InLabels
  <2> QED
    BY <2>1, <1>c, <1>1, <1>2 DEF OnlyMoves
<1>9. InPending' = InPending /\ OutPending' = OutPending
  <2>1. InLabels \in SUBSET AddLabels /\ AddLabels \in SUBSET AddLabels
    BY DEF AddLabels
  <2>2. call'[p].a = call[p].a
    BY <1>c, <1>8
  <2>3. Adding(InLabels)' = Adding(InLabels)
    BY <2>1, <1>0, <1>8, PendingMoves DEF LInv
  <2>4. Adding(AddLabels)' = Adding(AddLabels)
    BY <2>1, <2>2, <1>0, <1>8, PendingMoves DEF LInv
  <2> QED
    BY <2>3, <2>4, PendingIs
<1>10. ASSUME NEW y \in ArcIds PROVE TargetOf(y)' = TargetOf(y)
  <2>1. CASE y = x
    <3>1. \A r \in Threads : ~ Setting(pc', call', r, x)
      BY <1>1, <1>8 DEF Setting, OnlyMoves, AddLabels
    <3>2. TargetOf(x)' = m_arcs'[x].target
      BY <3>1 DEF TargetOf, TargetAt
    <3> QED
      BY <2>1, <3>2, <1>1, <1>4, <1>6
  <2>2. CASE y # x
    <3>1. ~ Setting(pc, call, p, y) /\ ~ Setting(pc', call', p, y)
      BY <2>2, <1>c, <1>8 DEF Setting, x
    <3> QED
      BY <2>2, <3>1, <1>6, <1>8, TargetKeeps DEF LInv
  <2> QED
    BY <2>1, <2>2
<1>11. LTypeOK'
  <2>1. \A y \in ArcIds : /\ m_arcs[y].source \in NodeIds \cup {invalid_node, Uninitialized}
                          /\ m_arcs[y].target \in NodeIds \cup {Uninitialized}
    BY DEF LInv, LTypeOK
  <2>2. \A y \in ArcIds : /\ m_arcs'[y].source \in NodeIds \cup {invalid_node, Uninitialized}
                          /\ m_arcs'[y].target \in NodeIds \cup {Uninitialized}
    BY <2>1, <1>3, <1>4, <1>6
  <2> QED
    BY <2>2, <1>1, <1>2, <1>7, <1>8, SMTT(30) DEF LTypeOK
<1>12. ArcsOwned'
  <2>1. \A q, r \in Threads : pc'[q] \in AddLabels /\ pc'[r] \in AddLabels
                              /\ call'[q].a = call'[r].a => q = r
    BY <1>0, <1>2, <1>8 DEF LInv, ArcsOwned, OnlyMoves
  <2>2. ASSUME NEW y \in ArcIds,
               m_arcs'[y].source = Uninitialized \/ m_arcs'[y].target = Uninitialized
        PROVE  \E q \in Threads : pc'[q] \in {"emplace_node", "set_ends"} /\ call'[q].a = y
    <3>1. Uninitialized \notin NodeIds
      BY <1>1 DEF Uninitialized
    <3>2. y # x
      BY <2>2, <3>1, <1>3, <1>4, <1>6
    <3>3. PICK q \in Threads : pc[q] \in {"emplace_node", "set_ends"} /\ call[q].a = y
      BY <2>2, <3>2, <1>6 DEF LInv, ArcsOwned
    <3>4. q # p
      BY <3>2, <3>3, <1>c DEF x
    <3> QED
      BY <3>3, <3>4, <1>8 DEF OnlyMoves
  <2> QED
    BY <2>1, <2>2, <1>7 DEF ArcsOwned
<1>13. ListsOK'
  <2>1. /\ Lists(NodeIds, HeadIn(m_nodes), TailIn(m_nodes), NextIn(m_arcs), Targets, InPending)
        /\ Lists(NodeIds, HeadOut(m_nodes), TailOut(m_nodes), NextOut(m_arcs),
                 Sources(m_arcs), OutPending)
        /\ \A n \in NodeIds : m_nodes[n].head_in # invalid_arc
    BY DEF LInv, ListsOK
  <2>2. Targets' = Targets
    BY <1>7, <1>10 DEF Targets
  <2>3. \A y \in DOMAIN NextOut(m_arcs) \ OutPending : Sources(m_arcs')[y] = Sources(m_arcs)[y]
    BY <1>1, <1>7
  <2>4. Lists(NodeIds, HeadOut(m_nodes), TailOut(m_nodes), NextOut(m_arcs),
              Sources(m_arcs'), OutPending)
    BY <2>1, <2>3, ListsOwner
  <2> QED
    BY <2>1, <2>2, <2>4, <1>2, <1>7, <1>9 DEF ListsOK
<1>14. Exclusive' /\ KeepsLocks(p)
  BY <1>2, UnlockStep DEF LInv
<1>15. Keeps(p)
  <2>1. \A y \in ArcIds : m_arcs'[y] = m_arcs[y] \/ y = call[p].a
    BY <1>6, <1>c DEF x
  <2> QED
    BY <2>1, <1>0, <1>2, <1>7, <1>8, <1>9, <1>10, <1>14 DEF Keeps
<1>16. AddingOK(p)'
  <2>1. /\ call'[p] \in [op : {"addArc", "addNode"}, s : NodeIds',
                         t : NodeIds' \cup {invalid_node}, a : ArcIds']
        /\ m_arcs'[call'[p].a].source = call'[p].s
        /\ m_arcs'[call'[p].a].target \in NodeIds'
    BY <1>1, <1>3, <1>4, <1>6, <1>7, <1>8 DEF x
  <2> QED
    BY <2>1, <1>8 DEF AddingOK, InLabels
<1>17. LoopOK(p)' /\ LocksOf(p)'
  BY <1>8 DEF LoopOK, LoopLabels, LocksOf
<1> QED
  BY <1>11, <1>12, <1>13, <1>14, <1>15, <1>16, <1>17, Assemble

\* A field of an arc or of a node is written.
NextInSet(N, arcs, arcs2, y, x) ==
    /\ arcs2 \in Seq(Arc) /\ DOMAIN arcs2 = 1 .. N
    /\ \A k \in 1 .. N :
          /\ arcs2[k].source = arcs[k].source /\ arcs2[k].target = arcs[k].target
          /\ arcs2[k].next_in = IF k = y THEN x ELSE arcs[k].next_in
          /\ arcs2[k].next_out = arcs[k].next_out

NextOutSet(N, arcs, arcs2, y, x) ==
    /\ arcs2 \in Seq(Arc) /\ DOMAIN arcs2 = 1 .. N
    /\ \A k \in 1 .. N :
          /\ arcs2[k].source = arcs[k].source /\ arcs2[k].target = arcs[k].target
          /\ arcs2[k].next_in = arcs[k].next_in
          /\ arcs2[k].next_out = IF k = y THEN x ELSE arcs[k].next_out

\* The EXCEPTs by which append_in and append_out link an arc, field by field.
LEMMA SetNext ==
    ASSUME NEW N \in Nat, NEW arcs \in [1 .. N -> Arc], NEW y, NEW x \in Nat
    PROVE  /\ NextInSet(N, arcs, [arcs EXCEPT ![y].next_in = x], y, x)
           /\ NextOutSet(N, arcs, [arcs EXCEPT ![y].next_out = x], y, x)
<1> DEFINE in  == [arcs EXCEPT ![y].next_in = x]
           out == [arcs EXCEPT ![y].next_out = x]
           a   == [arcs[y] EXCEPT !.next_in = x]
           b   == [arcs[y] EXCEPT !.next_out = x]
<1>1. \A k \in 1 .. N : arcs[k] \in Arc
  <2> HIDE DEF Arc
  <2> QED
    OBVIOUS
<1>2. y \in 1 .. N =>
        /\ a \in Arc /\ a.source = arcs[y].source /\ a.target = arcs[y].target
        /\ a.next_in = x /\ a.next_out = arcs[y].next_out
        /\ b \in Arc /\ b.source = arcs[y].source /\ b.target = arcs[y].target
        /\ b.next_out = x /\ b.next_in = arcs[y].next_in
  BY <1>1 DEF Arc
<1>3. in = [arcs EXCEPT ![y] = a] /\ out = [arcs EXCEPT ![y] = b]
  OBVIOUS
<1> HIDE DEF a, b, in, out
<1>4. /\ in \in [1 .. N -> Arc] /\ out \in [1 .. N -> Arc]
      /\ \A k \in 1 .. N : /\ in[k] = IF k = y THEN a ELSE arcs[k]
                           /\ out[k] = IF k = y THEN b ELSE arcs[k]
  <2> HIDE DEF Arc
  <2> QED
    BY <1>1, <1>2, <1>3
<1>5. in \in Seq(Arc) /\ out \in Seq(Arc)
  <2> HIDE DEF Arc
  <2> QED
    BY <1>4, FunctionIsSeq
<1>6. DOMAIN in = 1 .. N /\ DOMAIN out = 1 .. N
  BY <1>4
<1>7. \A k \in 1 .. N :
        /\ in[k].source = arcs[k].source /\ in[k].target = arcs[k].target
        /\ in[k].next_in = IF k = y THEN x ELSE arcs[k].next_in
        /\ in[k].next_out = arcs[k].next_out
        /\ out[k].source = arcs[k].source /\ out[k].target = arcs[k].target
        /\ out[k].next_out = IF k = y THEN x ELSE arcs[k].next_out
        /\ out[k].next_in = arcs[k].next_in
  BY <1>2, <1>4
<1> QED
  BY <1>5, <1>6, <1>7 DEF in, out, NextInSet, NextOutSet

\* The same for the ends of the lists of node n.
NodeSet(N, nodes, nodes2, n, tail_in, head_out, tail_out) ==
    /\ nodes2 \in Seq(Node) /\ DOMAIN nodes2 = 1 .. N
    /\ \A k \in 1 .. N :
          /\ nodes2[k].head_in = nodes[k].head_in
          /\ nodes2[k].tail_in = IF k = n THEN tail_in ELSE nodes[k].tail_in
          /\ nodes2[k].head_out = IF k = n THEN head_out ELSE nodes[k].head_out
          /\ nodes2[k].tail_out = IF k = n THEN tail_out ELSE nodes[k].tail_out

\* The EXCEPTs by which they set the ends of a node's lists, field by field.
LEMMA SetEnd ==
    ASSUME NEW N \in Nat, NEW nodes \in [1 .. N -> Node], NEW n, NEW x \in Nat
    PROVE  /\ NodeSet(N, nodes, [nodes EXCEPT ![n].tail_in = x], n,
                      x, nodes[n].head_out, nodes[n].tail_out)
           /\ NodeSet(N, nodes, [nodes EXCEPT ![n].tail_out = x], n,
                      nodes[n].tail_in, nodes[n].head_out, x)
           /\ NodeSet(N, nodes, [nodes EXCEPT ![n].head_out = x, ![n].tail_out = x], n,
                      nodes[n].tail_in, x, x)
<1> DEFINE in   == [nodes EXCEPT ![n].tail_in = x]
           out  == [nodes EXCEPT ![n].tail_out = x]
           both == [nodes EXCEPT ![n].head_out = x, ![n].tail_out = x]
           a    == [nodes[n] EXCEPT !.tail_in = x]
           b    == [nodes[n] EXCEPT !.tail_out = x]
           c    == [nodes[n] EXCEPT !.head_out = x, !.tail_out = x]
<1>1. \A k \in 1 .. N : nodes[k] \in Node
  <2> HIDE DEF Node
  <2> QED
    OBVIOUS
<1>2. n \in 1 .. N =>
        /\ a \in Node /\ a.head_in = nodes[n].head_in /\ a.tail_in = x
        /\ a.head_out = nodes[n].head_out /\ a.tail_out = nodes[n].tail_out
        /\ b \in Node /\ b.head_in = nodes[n].head_in /\ b.tail_in = nodes[n].tail_in
        /\ b.head_out = nodes[n].head_out /\ b.tail_out = x
        /\ c \in Node /\ c.head_in = nodes[n].head_in /\ c.tail_in = nodes[n].tail_in
        /\ c.head_out = x /\ c.tail_out = x
  BY <1>1 DEF Node
<1>3. in = [nodes EXCEPT ![n] = a] /\ out = [nodes EXCEPT ![n] = b]
  OBVIOUS
<1>4. both = [nodes EXCEPT ![n] = c]
  BY DOMAIN nodes = 1 .. N
<1> HIDE DEF a, b, c, in, out, both
<1>5. /\ in \in [1 .. N -> Node] /\ out \in [1 .. N -> Node] /\ both \in [1 .. N -> Node]
      /\ \A k \in 1 .. N : /\ in[k] = IF k = n THEN a ELSE nodes[k]
                           /\ out[k] = IF k = n THEN b ELSE nodes[k]
                           /\ both[k] = IF k = n THEN c ELSE nodes[k]
  <2> HIDE DEF Node
  <2> QED
    BY <1>1, <1>2, <1>3, <1>4
<1>6. in \in Seq(Node) /\ out \in Seq(Node) /\ both \in Seq(Node)
  <2> HIDE DEF Node
  <2> QED
    BY <1>5, FunctionIsSeq
<1>7. DOMAIN in = 1 .. N /\ DOMAIN out = 1 .. N /\ DOMAIN both = 1 .. N
  BY <1>5
<1>8. \A k \in 1 .. N :
        /\ in[k].head_in = nodes[k].head_in
        /\ in[k].head_out = nodes[k].head_out
        /\ in[k].tail_out = nodes[k].tail_out
        /\ in[k].tail_in = IF k = n THEN x ELSE nodes[k].tail_in
        /\ out[k].head_in = nodes[k].head_in
        /\ out[k].head_out = nodes[k].head_out
        /\ out[k].tail_out = IF k = n THEN x ELSE nodes[k].tail_out
        /\ out[k].tail_in = nodes[k].tail_in
        /\ both[k].head_in = nodes[k].head_in
        /\ both[k].head_out = IF k = n THEN x ELSE nodes[k].head_out
        /\ both[k].tail_out = IF k = n THEN x ELSE nodes[k].tail_out
        /\ both[k].tail_in = nodes[k].tail_in
  BY <1>2, <1>5
<1> QED
  BY <1>6, <1>7, <1>8 DEF in, out, both, NodeSet

\* p links its arc into a list.
Links(p) ==
    /\ m_arcs' \in Seq(Arc) /\ m_nodes' \in Seq(Node)
    /\ ArcIds' = ArcIds /\ NodeIds' = NodeIds
    /\ \A y \in ArcIds : /\ m_arcs'[y].source = m_arcs[y].source
                         /\ m_arcs'[y].target = m_arcs[y].target
    /\ OnlyMoves(p) /\ DOMAIN call' = Threads
    /\ pc' \in [Threads -> {"idle"} \cup AddLabels \cup LoopLabels]
    /\ \/ pc[p] = "append_in" /\ pc'[p] = "lock_source" /\ call'[p] = call[p]
       \/ pc[p] \in {"append_first", "append_out"} /\ pc'[p] = "idle"

\* Linking an arc takes it from the pending ones, and keeps the ends of all arcs.
LEMMA LinksKeep ==
    ASSUME LInv, NEW p \in Threads, Links(p)
    PROVE  /\ LTypeOK' /\ ArcsOwned' /\ Targets' = Targets
           /\ Sources(m_arcs') = Sources(m_arcs)
           /\ \A y \in ArcIds : TargetOf(y)' = TargetOf(y)
           /\ InPending' = IF pc[p] = "append_in" THEN InPending \ {call[p].a} ELSE InPending
           /\ OutPending' = IF pc[p] = "append_in" THEN OutPending ELSE OutPending \ {call[p].a}
<1>1. /\ \A y \in ArcIds : /\ m_arcs[y].source \in NodeIds \cup {invalid_node, Uninitialized}
                           /\ m_arcs[y].target \in NodeIds \cup {Uninitialized}
      /\ pc[p] \notin {"emplace_node", "set_ends"} /\ pc'[p] \notin {"emplace_node", "set_ends"}
      /\ pc[p] \in AddLabels /\ "lock_source" \in AddLabels /\ "idle" \notin AddLabels
      /\ "append_in" \in InLabels /\ "idle" \notin InLabels /\ "lock_source" \notin InLabels
      /\ "append_first" \notin InLabels /\ "append_out" \notin InLabels
      /\ InLabels \in SUBSET AddLabels /\ AddLabels \in SUBSET AddLabels
      /\ OnlyMoves(p) /\ ArcsOwned
  BY DEF LInv, LTypeOK, Links, AddLabels, InLabels, ListLabels
<1>2. LTypeOK'
  BY <1>1 DEF Links, LTypeOK
<1>3. ArcsOwned'
  <2>1. \A q, r \in Threads : pc'[q] \in AddLabels /\ pc'[r] \in AddLabels
                              /\ call'[q].a = call'[r].a => q = r
    BY <1>1 DEF ArcsOwned, OnlyMoves, Links
  <2>2. ASSUME NEW y \in ArcIds,
               m_arcs[y].source = Uninitialized \/ m_arcs[y].target = Uninitialized
        PROVE  \E q \in Threads : pc'[q] \in {"emplace_node", "set_ends"} /\ call'[q].a = y
    <3>1. PICK q \in Threads : pc[q] \in {"emplace_node", "set_ends"} /\ call[q].a = y
      BY <2>2, <1>1 DEF ArcsOwned
    <3> QED
      BY <3>1, <1>1 DEF OnlyMoves
  <2> QED
    BY <2>1, <2>2 DEF ArcsOwned, Links
<1>4. ASSUME NEW y \in ArcIds PROVE TargetOf(y)' = TargetOf(y)
  <2>1. ~ Setting(pc, call, p, y) /\ ~ Setting(pc', call', p, y)
    BY <1>1 DEF Setting
  <2> QED
    BY <2>1, <1>1, TargetKeeps DEF Links
<1>5. Targets' = Targets
  BY <1>4 DEF Targets, Links
<1>6. Sources(m_arcs') = Sources(m_arcs)
  BY DEF Sources, Links, ArcIds
<1>7. /\ Adding(InLabels)' = IF pc[p] = "append_in" THEN Adding(InLabels) \ {call[p].a}
                                                    ELSE Adding(InLabels)
      /\ Adding(AddLabels)' = IF pc[p] = "append_in" THEN Adding(AddLabels)
                                                     ELSE Adding(AddLabels) \ {call[p].a}
  <2>1. CASE pc[p] = "append_in"
    <3>1. pc'[p] = "lock_source" /\ call'[p].a = call[p].a
      BY <2>1 DEF Links
    <3>2. Adding(InLabels)' = Adding(InLabels) \ {call[p].a}
      BY <2>1, <3>1, <1>1, PendingMoves
    <3>3. Adding(AddLabels)' = Adding(AddLabels)
      BY <2>1, <3>1, <1>1, PendingMoves
    <3> QED
      BY <2>1, <3>2, <3>3
  <2>2. CASE pc[p] # "append_in"
    <3>1. pc'[p] = "idle" /\ pc[p] \notin InLabels
      BY <2>2, <1>1 DEF Links
    <3>2. Adding(InLabels)' = Adding(InLabels)
      BY <2>2, <3>1, <1>1, PendingMoves
    <3>3. Adding(AddLabels)' = Adding(AddLabels) \ {call[p].a}
      BY <2>2, <3>1, <1>1, PendingMoves
    <3> QED
      BY <2>2, <3>2, <3>3
  <2> QED
    BY <2>1, <2>2
<1> QED
  BY <1>2, <1>3, <1>4, <1>5, <1>6, <1>7, PendingIs

\* The arc goes to the end of the list in of its target.
LEMMA AppendInKeeps ==
    ASSUME LInv, NEW p \in Threads, AppendIn(p)
    PROVE  LInv'
<1>c. PICK x, N, t, y : /\ x = call[p].a /\ N = Len(m_arcs) /\ t = call[p].t
                        /\ y = m_nodes[t].tail_in
  OBVIOUS
<1>0. pc[p] = "append_in" /\ pc[p] \in InLabels \ {"emplace_node"} /\ pc[p] \in AddLabels
      /\ AddingOK(p)
  BY DEF AppendIn, InLabels, AddLabels, LInv
<1>1. /\ pc \in [Threads -> {"idle"} \cup AddLabels \cup LoopLabels] /\ DOMAIN call = Threads
      /\ N \in Nat /\ ArcIds = 1 .. N /\ Len(m_nodes) \in Nat /\ NodeIds = 1 .. Len(m_nodes)
      /\ m_arcs \in [1 .. N -> Arc] /\ m_nodes \in [1 .. Len(m_nodes) -> Node]
      /\ NextIn(m_arcs) \in [1 .. N -> Nat]
      /\ call[p] \in [op : {"addArc", "addNode"}, s : NodeIds,
                      t : NodeIds \cup {invalid_node}, a : ArcIds]
      /\ x \in ArcIds /\ x \in Nat /\ x \in InPending /\ TargetOf(x) = t
      /\ m_arcs[x].source = call[p].s /\ m_arcs[x].target = t /\ t \in NodeIds
  <2>1. /\ call[p].t \in NodeIds /\ m_arcs[call[p].a].source = call[p].s
        /\ m_arcs[call[p].a].target = call[p].t
    BY <1>0 DEF AddingOK
  <2>2. TargetOf(call[p].a) = m_arcs[call[p].a].target
    BY <1>0, AddingFacts
  <2> QED
    BY <2>1, <2>2, <1>0, <1>c, AddingFacts
<1>2. /\ m_arcs' = [m_arcs EXCEPT ![y].next_in = x]
      /\ m_nodes' = [m_nodes EXCEPT ![t].tail_in = x]
      /\ Unlock(p, {ArcLock(y), NodeLock(t)})
      /\ pc' = [pc EXCEPT ![p] = "lock_source"] /\ call' = call
  BY <1>c DEF AppendIn, Goto
<1>3. /\ m_arcs' \in Seq(Arc) /\ ArcIds' = ArcIds
      /\ \A k \in ArcIds :
            /\ m_arcs'[k].source = m_arcs[k].source /\ m_arcs'[k].target = m_arcs[k].target
            /\ m_arcs'[k].next_in = IF k = y THEN x ELSE m_arcs[k].next_in
            /\ m_arcs'[k].next_out = m_arcs[k].next_out
  <2>1. NextInSet(N, m_arcs, m_arcs', y, x)
    BY <1>1, <1>2, SetNext
  <2> HIDE DEF Arc
  <2> QED
    BY <2>1, <1>1 DEF ArcIds, NextInSet
<1>4. /\ m_nodes' \in Seq(Node) /\ NodeIds' = NodeIds
      /\ \A k \in NodeIds :
            /\ m_nodes'[k].head_in = m_nodes[k].head_in
            /\ m_nodes'[k].head_out = m_nodes[k].head_out
            /\ m_nodes'[k].tail_out = m_nodes[k].tail_out
            /\ m_nodes'[k].tail_in = IF k = t THEN x ELSE m_nodes[k].tail_in
  <2>1. NodeSet(Len(m_nodes), m_nodes, m_nodes', t, x, m_nodes[t].head_out, m_nodes[t].tail_out)
    BY <1>1, <1>2, SetEnd
  <2> HIDE DEF Node
  <2> QED
    BY <2>1, <1>1 DEF NodeIds, NodeSet
<1>5. /\ pc'[p] = "lock_source" /\ call'[p] = call[p]
      /\ pc' \in [Threads -> {"idle"} \cup AddLabels \cup LoopLabels]
      /\ OnlyMoves(p)
  <2>1. "lock_source" \in AddLabels
    BY DEF AddLabels, ListLabels
  <2> QED
    BY <2>1, <1>1, <1>2 DEF OnlyMoves
<1>6. Links(p)
  BY <1>0, <1>1, <1>2, <1>3, <1>4, <1>5 DEF Links
<1>7. /\ LTypeOK' /\ ArcsOwned' /\ Targets' = Targets /\ Sources(m_arcs') = Sources(m_arcs)
      /\ \A k \in ArcIds : TargetOf(k)' = TargetOf(k)
      /\ InPending' = InPending \ {x} /\ OutPending' = OutPending
  BY <1>0, <1>6, <1>c, LinksKeep
<1>8. ListsOK'
  <2>1. /\ Lists(NodeIds, HeadIn(m_nodes), TailIn(m_nodes), NextIn(m_arcs), Targets, InPending)
        /\ Lists(NodeIds, HeadOut(m_nodes), TailOut(m_nodes), NextOut(m_arcs),
                 Sources(m_arcs), OutPending)
        /\ \A n \in NodeIds : m_nodes[n].head_in # invalid_arc
    BY DEF LInv, ListsOK
  <2>2. Appended(NodeIds, HeadIn(m_nodes), TailIn(m_nodes), NextIn(m_arcs), t, x,
                 HeadIn(m_nodes'), TailIn(m_nodes'), NextIn(m_arcs'))
    <3>1. /\ DOMAIN m_nodes = NodeIds /\ DOMAIN m_nodes' = NodeIds
          /\ DOMAIN m_arcs = ArcIds /\ DOMAIN m_arcs' = ArcIds
      BY <1>3, <1>4 DEF NodeIds, ArcIds
    <3> QED
      BY <3>1, <2>1, <1>c, <1>1, <1>3, <1>4 DEF Appended, HeadIn, TailIn, NextIn
  <2>3. NextIn(m_arcs') \in [1 .. N -> Nat]
    <3>1. Len(m_arcs') = N
      <4>1. DOMAIN m_arcs' = 1 .. N
        BY <1>1, <1>3 DEF ArcIds
      <4> QED
        BY <4>1, <1>1, <1>3, LenProperties
    <3> QED
      BY <3>1, <1>3, <1>4, ArenaFacts
  <2>4. Targets[x] = t
    BY <1>1 DEF Targets
  <2>5. Lists(NodeIds, HeadIn(m_nodes'), TailIn(m_nodes'), NextIn(m_arcs'),
              Targets, InPending \ {x})
    BY <1>1, <2>1, <2>2, <2>3, <2>4, ListsAppend
  <2>6. /\ HeadOut(m_nodes') = HeadOut(m_nodes) /\ TailOut(m_nodes') = TailOut(m_nodes)
        /\ NextOut(m_arcs') = NextOut(m_arcs)
    BY <1>3, <1>4 DEF HeadOut, TailOut, NextOut, ArcIds, NodeIds
  <2> QED
    BY <2>1, <2>5, <2>6, <1>4, <1>7 DEF ListsOK
<1>9. Exclusive' /\ KeepsLocks(p)
  BY <1>2, UnlockStep DEF LInv
<1>10. Keeps(p)
  BY <1>3, <1>4, <1>5, <1>7, <1>9 DEF Keeps
<1>11. AddingOK(p)'
  <2>1. "lock_source" \notin InLabels
    BY DEF InLabels
  <2> QED
    BY <2>1, <1>c, <1>1, <1>3, <1>4, <1>5 DEF AddingOK
<1>12. LoopOK(p)' /\ LocksOf(p)'
  BY <1>5 DEF LoopOK, LoopLabels, LocksOf
<1> QED
  BY <1>7, <1>8, <1>9, <1>10, <1>11, <1>12, Assemble

\* The arc becomes the first one of the list out of its source, or goes to the end.
LEMMA AppendOutKeeps ==
    ASSUME LInv, NEW p \in Threads, AppendFirst(p) \/ AppendOut(p)
    PROVE  LInv'
<1>c. PICK x, N, n, y : /\ x = call[p].a /\ N = Len(m_arcs) /\ n = call[p].s
                        /\ y = m_nodes[n].tail_out
  OBVIOUS
<1>0. /\ pc[p] \in {"append_first", "append_out"} /\ pc[p] \in ListLabels
      /\ pc[p] \in AddLabels /\ pc[p] # "append_in"
      /\ AddingOK(p) /\ (AppendFirst(p) <=> pc[p] = "append_first")
  BY DEF AppendFirst, AppendOut, ListLabels, AddLabels, LInv
<1>1. /\ pc \in [Threads -> {"idle"} \cup AddLabels \cup LoopLabels] /\ DOMAIN call = Threads
      /\ N \in Nat /\ ArcIds = 1 .. N /\ Len(m_nodes) \in Nat /\ NodeIds = 1 .. Len(m_nodes)
      /\ m_arcs \in Seq(Arc)
      /\ m_arcs \in [1 .. N -> Arc] /\ m_nodes \in [1 .. Len(m_nodes) -> Node]
      /\ NextOut(m_arcs) \in [1 .. N -> Nat]
      /\ call[p] \in [op : {"addArc", "addNode"}, s : NodeIds,
                      t : NodeIds \cup {invalid_node}, a : ArcIds]
      /\ x \in ArcIds /\ x \in Nat /\ x \in OutPending /\ n \in NodeIds
      /\ m_arcs[x].source = n
      /\ pc[p] = "append_first" <=> m_nodes[n].head_out = invalid_arc
  <2>1. /\ m_arcs[call[p].a].source = call[p].s
        /\ pc[p] = "append_first" <=> m_nodes[call[p].s].head_out = invalid_arc
    BY <1>0 DEF AddingOK
  <2> QED
    BY <2>1, <1>0, <1>c, AddingFacts
<1>2. /\ m_arcs' = IF pc[p] = "append_first" THEN m_arcs
                   ELSE [m_arcs EXCEPT ![y].next_out = x]
      /\ m_nodes' = IF pc[p] = "append_first"
                    THEN [m_nodes EXCEPT ![n].head_out = x, ![n].tail_out = x]
                    ELSE [m_nodes EXCEPT ![n].tail_out = x]
      /\ \E ls : Unlock(p, ls)
      /\ pc' = [pc EXCEPT ![p] = "idle"] /\ call' = [call EXCEPT ![p] = NoCall]
  BY <1>c, <1>0 DEF AppendFirst, AppendOut, Return
<1>3. /\ m_arcs' \in Seq(Arc) /\ ArcIds' = ArcIds
      /\ \A k \in ArcIds :
            /\ m_arcs'[k].source = m_arcs[k].source /\ m_arcs'[k].target = m_arcs[k].target
            /\ m_arcs'[k].next_out = IF pc[p] # "append_first" /\ k = y
                                     THEN x ELSE m_arcs[k].next_out
            /\ m_arcs'[k].next_in = m_arcs[k].next_in
  <2> HIDE DEF Arc
  <2>1. CASE pc[p] = "append_first"
    BY <2>1, <1>1, <1>2 DEF ArcIds
  <2>2. CASE pc[p] # "append_first"
    <3>1. NextOutSet(N, m_arcs, m_arcs', y, x)
      BY <2>2, <1>1, <1>2, SetNext
    <3> QED
      BY <2>2, <3>1, <1>1 DEF ArcIds, NextOutSet
  <2> QED
    BY <2>1, <2>2
<1>4. /\ m_nodes' \in Seq(Node) /\ NodeIds' = NodeIds
      /\ \A k \in NodeIds :
            /\ m_nodes'[k].head_in = m_nodes[k].head_in
            /\ m_nodes'[k].tail_in = m_nodes[k].tail_in
            /\ m_nodes'[k].head_out = IF pc[p] = "append_first" /\ k = n
                                      THEN x ELSE m_nodes[k].head_out
            /\ m_nodes'[k].tail_out = IF k = n THEN x ELSE m_nodes[k].tail_out
  <2> HIDE DEF Node
  <2>1. CASE pc[p] = "append_first"
    <3>1. NodeSet(Len(m_nodes), m_nodes, m_nodes', n, m_nodes[n].tail_in, x, x)
      BY <2>1, <1>1, <1>2, SetEnd
    <3> QED
      BY <2>1, <3>1, <1>1 DEF NodeIds, NodeSet
  <2>2. CASE pc[p] # "append_first"
    <3>1. NodeSet(Len(m_nodes), m_nodes, m_nodes', n, m_nodes[n].tail_in, m_nodes[n].head_out, x)
      BY <2>2, <1>1, <1>2, SetEnd
    <3> QED
      BY <2>2, <3>1, <1>1 DEF NodeIds, NodeSet
  <2> QED
    BY <2>1, <2>2
<1>5. /\ pc'[p] = "idle" /\ call'[p] = NoCall
      /\ pc' \in [Threads -> {"idle"} \cup AddLabels \cup LoopLabels]
      /\ OnlyMoves(p) /\ DOMAIN call' = Threads
  BY <1>1, <1>2 DEF OnlyMoves
<1>6. Links(p)
  BY <1>0, <1>3, <1>4, <1>5 DEF Links
<1>7. /\ LTypeOK' /\ ArcsOwned' /\ Targets' = Targets /\ Sources(m_arcs') = Sources(m_arcs)
      /\ \A k \in ArcIds : TargetOf(k)' = TargetOf(k)
      /\ InPending' = InPending /\ OutPending' = OutPending \ {x}
  BY <1>0, <1>6, <1>c, LinksKeep
<1>8. ListsOK'
  <2>1. /\ Lists(NodeIds, HeadIn(m_nodes), TailIn(m_nodes), NextIn(m_arcs), Targets, InPending)
        /\ Lists(NodeIds, HeadOut(m_nodes), TailOut(m_nodes), NextOut(m_arcs),
                 Sources(m_arcs), OutPending)
        /\ \A k \in NodeIds : m_nodes[k].head_in # invalid_arc
    BY DEF LInv, ListsOK
  <2>2. Appended(NodeIds, HeadOut(m_nodes), TailOut(m_nodes), NextOut(m_arcs), n, x,
                 HeadOut(m_nodes'), TailOut(m_nodes'), NextOut(m_arcs'))
    <3>1. /\ DOMAIN m_nodes = NodeIds /\ DOMAIN m_nodes' = NodeIds
          /\ DOMAIN m_arcs = ArcIds /\ DOMAIN m_arcs' = ArcIds
      BY <1>3, <1>4 DEF NodeIds, ArcIds
    <3> QED
      BY <3>1, <2>1, <1>c, <1>1, <1>3, <1>4 DEF Appended, HeadOut, TailOut, NextOut
  <2>3. NextOut(m_arcs') \in [1 .. N -> Nat]
    <3>1. Len(m_arcs') = N
      <4>1. DOMAIN m_arcs' = 1 .. N
        BY <1>1, <1>3 DEF ArcIds
      <4> QED
        BY <4>1, <1>1, <1>3, LenProperties
    <3> QED
      BY <3>1, <1>3, <1>4, ArenaFacts
  <2>4. Sources(m_arcs)[x] = n
    BY <1>1 DEF Sources, ArcIds
  <2>5. Lists(NodeIds, HeadOut(m_nodes'), TailOut(m_nodes'), NextOut(m_arcs'),
              Sources(m_arcs), OutPending \ {x})
    BY <1>1, <2>1, <2>2, <2>3, <2>4, ListsAppend
  <2>6. /\ HeadIn(m_nodes') = HeadIn(m_nodes) /\ TailIn(m_nodes') = TailIn(m_nodes)
        /\ NextIn(m_arcs') = NextIn(m_arcs)
    BY <1>3, <1>4 DEF HeadIn, TailIn, NextIn, ArcIds, NodeIds
  <2> QED
    BY <2>1, <2>5, <2>6, <1>4, <1>7 DEF ListsOK
<1>9. Exclusive' /\ KeepsLocks(p)
  BY <1>2, UnlockStep DEF LInv
<1>10. Keeps(p)
  BY <1>c, <1>3, <1>4, <1>5, <1>7, <1>9 DEF Keeps
<1>11. AddingOK(p)' /\ LoopOK(p)' /\ LocksOf(p)'
  BY <1>5 DEF AddingOK, AddLabels, InLabels, ListLabels, LoopOK, LoopLabels, LocksOf
<1> QED
  BY <1>7, <1>8, <1>9, <1>10, <1>11, Assemble

-----------------------------------------------------------------------------
(* The theorems.                                                           *)

\* The tree that the constructor makes.
LEMMA InitHolds ==
    ASSUME Init
    PROVE  LInv
<1>1. /\ m_arcs = << NewArc(invalid_node, 1) >> /\ m_nodes = << NewNode(root_arc) >>
      /\ lock = {} /\ pc = [p \in Threads |-> "idle"] /\ call = [p \in Threads |-> NoCall]
      /\ root_arc = 1 /\ 1 # invalid_arc
  BY DEF Init, root_arc, invalid_arc
<1> DEFINE arc == NewArc(invalid_node, 1)
           node == NewNode(root_arc)
<1>2. /\ arc \in Arc /\ arc.source = invalid_node /\ arc.target = 1
      /\ arc.next_in = invalid_arc /\ arc.next_out = invalid_arc
      /\ node \in Node /\ node.head_in = 1 /\ node.tail_in = 1
      /\ node.head_out = invalid_arc /\ node.tail_out = invalid_arc
  BY DEF NewArc, NewNode, Arc, Node, invalid_arc, invalid_node, root_arc
<1> HIDE DEF arc, node
<1>3. /\ m_arcs \in Seq(Arc) /\ m_nodes \in Seq(Node)
      /\ ArcIds = {1} /\ NodeIds = {1} /\ m_arcs[1] = arc /\ m_nodes[1] = node
      /\ Len(m_arcs) = 1
  <2> HIDE DEF Arc, Node
  <2>1. m_arcs = << arc >> /\ m_nodes = << node >>
    BY <1>1 DEF arc, node
  <2> QED
    BY <2>1, <1>2 DEF ArcIds, NodeIds
<1>4. /\ \A q \in Threads : pc[q] = "idle" /\ call[q] = NoCall
      /\ "idle" \notin AddLabels /\ "idle" \notin InLabels /\ "idle" \notin LoopLabels
  BY <1>1 DEF AddLabels, InLabels, ListLabels, LoopLabels
<1>5. InPending = {} /\ OutPending = {}
  BY <1>4, PendingIs DEF Adding
<1>6. \A x : TargetOf(x) = m_arcs[x].target
  BY <1>4 DEF TargetOf, TargetAt, Setting
<1>7. LTypeOK
  BY <1>1, <1>2, <1>3, <1>4 DEF LTypeOK
<1>8. /\ DOMAIN NextIn(m_arcs) = {1} /\ NextIn(m_arcs)[1] = invalid_arc
      /\ DOMAIN NextOut(m_arcs) = {1} /\ NextOut(m_arcs)[1] = invalid_arc
      /\ Targets[1] = 1 /\ Sources(m_arcs)[1] = invalid_node
      /\ HeadIn(m_nodes)[1] = 1 /\ TailIn(m_nodes)[1] = 1
      /\ HeadOut(m_nodes)[1] = invalid_arc /\ TailOut(m_nodes)[1] = invalid_arc
      /\ NextIn(m_arcs) \in [1 .. 1 -> Nat] /\ NextOut(m_arcs) \in [1 .. 1 -> Nat]
  <2>1. /\ DOMAIN m_arcs = {1} /\ DOMAIN m_nodes = {1} /\ 1 .. 1 = {1}
    BY <1>3 DEF ArcIds, NodeIds
  <2>2. invalid_arc \in Nat
    BY DEF invalid_arc
  <2> QED
    BY <2>1, <2>2, <1>2, <1>3, <1>6
       DEF NextIn, NextOut, Targets, Sources, HeadIn, TailIn, HeadOut, TailOut, ArcIds
<1>9. Lists({1}, HeadIn(m_nodes), TailIn(m_nodes), NextIn(m_arcs), Targets, {})
  <2>1. Members(NextIn(m_arcs), Targets, {}, 1) = {1}
    BY <1>8 DEF Members
  <2> DEFINE L == << 1 >>
  <2>2. L \in Seq({1}) /\ Len(L) = 1 /\ DOMAIN L = 1 .. 1 /\ L[1] = 1 /\ 1 .. 1 = {1} /\ L # << >>
    OBVIOUS
  <2> HIDE DEF L
  <2>3. Chain(L, 1, NextIn(m_arcs)) /\ ElementsOf(L) = {1} /\ LastOf(L) = 1
    BY <2>2, <1>8 DEF Chain, ElementsOf, LastOf
  <2>4. OwnList(L, HeadIn(m_nodes)[1], TailIn(m_nodes)[1], NextIn(m_arcs),
                Members(NextIn(m_arcs), Targets, {}, 1))
    BY <2>1, <2>3, <1>8 DEF OwnList
  <2>5. \A n \in {1} : \E M : OwnList(M, HeadIn(m_nodes)[n], TailIn(m_nodes)[n], NextIn(m_arcs),
                                     Members(NextIn(m_arcs), Targets, {}, n))
    BY <2>4
  <2>6. 1 \in Nat
    OBVIOUS
  <2> QED
    BY <2>5, <2>6, <1>8, ListsFromChains
<1>10. Lists({1}, HeadOut(m_nodes), TailOut(m_nodes), NextOut(m_arcs), Sources(m_arcs), {})
  <2>1. Members(NextOut(m_arcs), Sources(m_arcs), {}, 1) = {}
    BY <1>8 DEF Members, invalid_node
  <2>2. << >> \in Seq({1}) /\ Len(<< >>) = 0 /\ DOMAIN << >> = {}
    OBVIOUS
  <2>3. Chain(<< >>, invalid_arc, NextOut(m_arcs)) /\ ElementsOf(<< >>) = {}
        /\ LastOf(<< >>) = invalid_arc
    BY <2>2, <1>8 DEF Chain, ElementsOf, LastOf
  <2>4. OwnList(<< >>, HeadOut(m_nodes)[1], TailOut(m_nodes)[1], NextOut(m_arcs),
                Members(NextOut(m_arcs), Sources(m_arcs), {}, 1))
    BY <2>1, <2>3, <1>8 DEF OwnList
  <2>5. \A n \in {1} : \E M : OwnList(M, HeadOut(m_nodes)[n], TailOut(m_nodes)[n],
                                     NextOut(m_arcs),
                                     Members(NextOut(m_arcs), Sources(m_arcs), {}, n))
    BY <2>4
  <2>6. 1 \in Nat
    OBVIOUS
  <2> QED
    BY <2>5, <2>6, <1>8, ListsFromChains
<1>11. ListsOK
  BY <1>1, <1>2, <1>3, <1>5, <1>9, <1>10 DEF ListsOK
<1>12. ArcsOwned /\ Exclusive
  <2>1. \A x \in ArcIds : ~ (m_arcs[x].source = Uninitialized \/ m_arcs[x].target = Uninitialized)
    BY <1>2, <1>3 DEF invalid_node, Uninitialized
  <2> QED
    BY <2>1, <1>1, <1>4 DEF ArcsOwned, Exclusive
<1>13. \A q \in Threads : AddingOK(q) /\ LoopOK(q) /\ LocksOf(q)
  BY <1>4 DEF AddingOK, LoopOK, LocksOf
<1> QED
  BY <1>7, <1>11, <1>12, <1>13 DEF LInv

\* The invariant holds at every step of every thread.
THEOREM LInvHolds == Spec => []LInv
<1>1. LInv /\ [Next]_vars => LInv'
  <2> SUFFICES ASSUME LInv, [Next]_vars PROVE LInv'
    OBVIOUS
  <2>1. CASE UNCHANGED vars
    <3>1. /\ m_arcs' = m_arcs /\ m_nodes' = m_nodes /\ lock' = lock /\ pc' = pc
          /\ call' = call
      BY <2>1 DEF vars
    <3>2. InPending' = InPending /\ OutPending' = OutPending
      BY <3>1 DEF InPending, OutPending, Adding
    <3>3. ArcIds' = ArcIds /\ NodeIds' = NodeIds /\ \A x : TargetOf(x)' = TargetOf(x)
      BY <3>1 DEF ArcIds, NodeIds, TargetOf
    <3>4. LTypeOK' /\ Exclusive' /\ ArcsOwned'
      BY <3>1, <3>3 DEF LInv, LTypeOK, Exclusive, ArcsOwned
    <3>5. ListsOK'
      <4>1. Targets' = Targets
        BY <3>3 DEF Targets
      <4> QED
        BY <4>1, <3>1, <3>2, <3>3 DEF LInv, ListsOK
    <3>6. ASSUME NEW q \in Threads PROVE AddingOK(q)' /\ LoopOK(q)' /\ LocksOf(q)'
      <4>1. \A it, n : InList(it, n)' = InList(it, n)
        BY <3>1, <3>2, <3>3 DEF InList
      <4>2. AddingOK(q)'
        BY <3>1, <3>3 DEF LInv, AddingOK
      <4>3. LoopOK(q)'
        BY <3>1, <3>3, <4>1 DEF LInv, LoopOK
      <4>4. LocksOf(q)'
        BY <3>1 DEF LInv, LocksOf, Held
      <4> QED
        BY <4>2, <4>3, <4>4
    <3> QED
      BY <3>4, <3>5, <3>6 DEF LInv
  <2>2. CASE Next
    <3>1. PICK p \in Threads :
            AddArc(p) \/ AddNode(p) \/ StartLoop(p) \/ AddStep(p) \/ LoopStep(p)
      BY <2>2 DEF Next
    <3>2. CASE AddArc(p) \/ AddNode(p)
      BY <3>2, AddKeeps
    <3>3. CASE StartLoop(p)
      BY <3>3, StartLoopKeeps
    <3>4. CASE AddStep(p)
      BY <3>4, LockingSteps, AppendInKeeps, EmplaceNodeKeeps, SetSourceTargetKeeps,
         AppendOutKeeps DEF AddStep
    <3>5. CASE LoopStep(p)
      BY <3>5, LockArcKeeps, StepKeeps, TryLockKeeps, LeaveLoopKeeps DEF LoopStep
    <3> QED
      BY <3>1, <3>2, <3>3, <3>4, <3>5
  <2> QED
    BY <2>1, <2>2
<1> QED
  BY <1>1, InitHolds, PTL DEF Spec

\* The body of a loop that locks its arcs, or goes over arcs out, is given whole
\* arcs only, whatever other threads add: the lock that addNode() holds from the
\* emplace of an arc until its ends are set keeps the locking iterators away, and
\* the list out has no arc without ends.  The plain InIt takes no lock: its body
\* may be given an arc whose ends are not set yet.
THEOREM WholeArcsHolds == Spec => []WholeArcs
<1>1. LInv => WholeArcs
  <2> SUFFICES ASSUME LInv, NEW p \in Threads, pc[p] = "body",
                      ~ (call[p].op = "InIt_OutIt" /\ call[p].it = "in")
               PROVE  LET x == m_arcs[call[p].arc]
                      IN  IF call[p].it = "in"
                          THEN x.target = call[p].n /\ x.source # Uninitialized
                          ELSE x.source = call[p].n /\ x.target \in NodeIds
    BY DEF WholeArcs
  <2> DEFINE c == call[p]
             x == c.arc
  <2>1. x \in InList(c.it, c.n) /\ c.it \in ItTypes
    <3>1. LoopOK(p) /\ pc[p] \in LoopLabels
      BY DEF LInv, LoopLabels
    <3>2. x \in InList(c.it, c.n)
      BY <3>1 DEF LoopOK
    <3>3. c \in [op : Kinds, n : NodeIds, it : ItTypes, mode : LockTypes, arc : Nat,
                 m_queue : Seq(Nat), m_not_all_touched : BOOLEAN,
                 due : {c.due}, seen : {c.seen}]
      BY <3>1 DEF LoopOK
    <3> HIDE DEF c
    <3> QED
      BY <3>2, <3>3
  <2>2. ASSUME NEW q \in Threads, pc[q] \in {"emplace_node", "set_ends"}, call[q].a = x
        PROVE  FALSE
    <3>1. CASE c.it = "in"
      <4>1. c.op # "InIt_OutIt"
        BY <3>1
      <4>2. Held(p, ArcLock(x), c.mode) /\ Held(q, ArcLock(x), "write")
        BY <4>1, <2>2 DEF LInv, LocksOf
      <4> DEFINE g == [of |-> ArcLock(x), by |-> q, mode |-> "write"]
                 h == [of |-> ArcLock(x), by |-> p, mode |-> c.mode]
      <4>3. g = h
        BY <4>2 DEF LInv, Exclusive, Held
      <4>4. q = p
        BY <4>3
      <4> QED
        BY <4>4, <2>2
    <3>2. CASE c.it # "in"
      <4>1. x \notin OutPending
        BY <2>1, <3>2 DEF InList
      <4> QED
        BY <4>1, <2>2, PendingIs DEF Adding, AddLabels, InLabels
    <3> QED
      BY <3>1, <3>2
  <2>3. x \in ArcIds /\ TargetOf(x) = m_arcs[x].target
    <3>1. \A q \in Threads : ~ Setting(pc, call, q, x)
      BY <2>2 DEF Setting
    <3> QED
      BY <3>1, <2>1 DEF InList, TargetOf, TargetAt
  <2>4. m_arcs[x].source # Uninitialized /\ m_arcs[x].target # Uninitialized
    BY <2>2, <2>3 DEF LInv, ArcsOwned
  <2>5. m_arcs[x].target \in NodeIds
    BY <2>3, <2>4 DEF LInv, LTypeOK
  <2> QED
    BY <2>1, <2>3, <2>4, <2>5 DEF InList
<1> QED
  BY <1>1, LInvHolds, PTL

\* No arc is lost or listed twice, however the calls of threads that add arcs to
\* the same nodes interleave: the list out of every node and its list in hold
\* exactly the arcs with that end whose call has got that far.
THEOREM NoArcLostHolds == Spec => []NoArcLost
<1>1. LInv => NoArcLost
  <2> SUFFICES ASSUME LInv, NEW n \in NodeIds
      PROVE  LET arcs == DOMAIN m_arcs
                 ends(x) == IF \E p \in Threads : pc[p] = "set_ends" /\ call[p].a = x
                            THEN (CHOOSE c \in {call[p] : p \in Threads} :
                                     c.op = "addNode" /\ c.a = x).t
                            ELSE m_arcs[x].target
             IN  /\ ElementsOf(Out(n)) = {x \in arcs \ OutPending : m_arcs[x].source = n}
                 /\ ElementsOf(In(n)) = {x \in arcs \ InPending : ends(x) = n}
                 /\ Len(Out(n)) = Cardinality(ElementsOf(Out(n)))
                 /\ Len(In(n)) = Cardinality(ElementsOf(In(n)))
    BY DEF NoArcLost
  <2> DEFINE ends(x) == IF \E p \in Threads : pc[p] = "set_ends" /\ call[p].a = x
                        THEN (CHOOSE c \in {call[p] : p \in Threads} :
                                 c.op = "addNode" /\ c.a = x).t
                        ELSE m_arcs[x].target
  <2>1. \A x : ends(x) = TargetOf(x)
    <3> SUFFICES ASSUME NEW x PROVE ends(x) = TargetOf(x)
      OBVIOUS
    <3>1. CASE \E p \in Threads : pc[p] = "set_ends" /\ call[p].a = x
      <4>1. PICK p \in Threads : pc[p] = "set_ends" /\ call[p].a = x
        BY <3>1
      <4>2. \A r \in Threads : Setting(pc, call, r, x) => r = p
        BY <4>1 DEF Setting, LInv, ArcsOwned, AddLabels
      <4>3. TargetOf(x) = call[p].t
        BY <4>1, <4>2, TargetAtSet DEF TargetOf, Setting
      <4>4. call[p].op = "addNode"
        BY <4>1 DEF LInv, AddingOK, AddLabels
      <4> DEFINE D == {call[q] : q \in Threads}
                 c == CHOOSE c \in D : c.op = "addNode" /\ c.a = x
      <4>5. c \in D /\ c.op = "addNode" /\ c.a = x
        BY <4>1, <4>4
      <4> HIDE DEF c
      <4>6. PICK q \in Threads : c = call[q]
        BY <4>5
      <4>7. pc[q] \in AddLabels
        <5>1. (pc[q] = "idle" => call[q] = NoCall) /\ NoCall.op = "none"
          BY DEF LInv, LoopOK, NoCall
        <5>2. pc[q] \in LoopLabels => call[q].op \in Kinds
          <6> SUFFICES ASSUME pc[q] \in LoopLabels PROVE call[q].op \in Kinds
            OBVIOUS
          <6>1. call[q] \in [op : Kinds, n : NodeIds, it : ItTypes, mode : LockTypes,
                              arc : Nat, m_queue : Seq(Nat), m_not_all_touched : BOOLEAN,
                              due : {call[q].due}, seen : {call[q].seen}]
            BY DEF LInv, LoopOK
          <6> QED
            BY <6>1
        <5> QED
          BY <5>1, <5>2, <4>5, <4>6 DEF LInv, LTypeOK, Kinds
      <4>8. q = p
        BY <4>1, <4>5, <4>6, <4>7 DEF LInv, ArcsOwned, AddLabels
      <4> QED
        BY <3>1, <4>3, <4>6, <4>8 DEF c
    <3>2. CASE ~ \E p \in Threads : pc[p] = "set_ends" /\ call[p].a = x
      BY <3>2 DEF TargetOf, TargetAt, Setting
    <3> QED
      BY <3>1, <3>2
  <2> HIDE DEF ends
  <2>2. /\ OwnList(In(n), m_nodes[n].head_in, m_nodes[n].tail_in, NextIn(m_arcs),
                   {x \in DOMAIN m_arcs \ InPending : TargetOf(x) = n})
        /\ OwnList(Out(n), m_nodes[n].head_out, m_nodes[n].tail_out, NextOut(m_arcs),
                   {x \in DOMAIN m_arcs \ OutPending : m_arcs[x].source = n})
    <3>1. /\ Lists(NodeIds, HeadIn(m_nodes), TailIn(m_nodes), NextIn(m_arcs), Targets, InPending)
          /\ Lists(NodeIds, HeadOut(m_nodes), TailOut(m_nodes), NextOut(m_arcs),
                   Sources(m_arcs), OutPending)
      BY DEF LInv, ListsOK
    <3>2. /\ Members(NextIn(m_arcs), Targets, InPending, n)
                = {x \in DOMAIN m_arcs \ InPending : TargetOf(x) = n}
          /\ Members(NextOut(m_arcs), Sources(m_arcs), OutPending, n)
                = {x \in DOMAIN m_arcs \ OutPending : m_arcs[x].source = n}
      BY DEF Members, NextIn, NextOut, Targets, Sources, ArcIds
    <3>3. /\ In(n) = ListFrom(HeadIn(m_nodes)[n], NextIn(m_arcs))
          /\ Out(n) = ListFrom(HeadOut(m_nodes)[n], NextOut(m_arcs))
          /\ HeadIn(m_nodes)[n] = m_nodes[n].head_in /\ TailIn(m_nodes)[n] = m_nodes[n].tail_in
          /\ HeadOut(m_nodes)[n] = m_nodes[n].head_out
          /\ TailOut(m_nodes)[n] = m_nodes[n].tail_out
      BY DEF In, Out, InArcs, OutArcs, NextIn, NextOut, HeadIn, TailIn, HeadOut, TailOut, NodeIds
    <3> QED
      BY <3>1, <3>2, <3>3 DEF Lists
  <2>3. Len(In(n)) = Cardinality(ElementsOf(In(n))) /\ Len(Out(n)) = Cardinality(ElementsOf(Out(n)))
    BY <2>2, ChainCardinality DEF OwnList
  <2> QED
    BY <2>1, <2>2, <2>3 DEF OwnList, ends
<1> QED
  BY <1>1, LInvHolds, PTL

-----------------------------------------------------------------------------
(* Lists only grow at their end, and what that means to a loop: the links  *)
(* it follows are written once, so what it has met stays the beginning of  *)
(* the list.                                                               *)

\* list holds what prefix holds, in the same places, and perhaps more behind it.
Continues(list, prefix) ==
    Len(prefix) <= Len(list) /\ \A k \in DOMAIN prefix : list[k] = prefix[k]

\* Whatever the threads do, the lists that others walk without a lock on the node
\* only grow at their end: no arc leaves a list, none is put before another, and
\* two arcs that are added at once do not take each other's place.
ListsOnlyGrow ==
    [][\A n \in NodeIds : Continues(In(n)', In(n)) /\ Continues(Out(n)', Out(n))]_vars

\* A list whose links are kept where there were any is continued at its end.
LEMMA ChainContinues ==
    ASSUME NEW N \in Nat, NEW next, DOMAIN next = 1 .. N, NEW next2,
           NEW L, NEW head1, NEW L2, NEW head2,
           Chain(L, head1, next), Chain(L2, head2, next2),
           head1 # invalid_arc => head2 = head1,
           \A x \in DOMAIN next : next[x] # invalid_arc => next2[x] = next[x]
    PROVE  Continues(L2, L)
<1>1. /\ Len(L) \in Nat /\ DOMAIN L = 1 .. Len(L) /\ \A k \in 1 .. Len(L) : L[k] \in 1 .. N
      /\ Len(L2) \in Nat
  BY LenProperties, ElementOfSeq DEF Chain
<1>2. /\ head1 = IF Len(L) = 0 THEN invalid_arc ELSE L[1]
      /\ \A k \in 1 .. Len(L) : next[L[k]] = IF k < Len(L) THEN L[k + 1] ELSE invalid_arc
      /\ head2 = IF Len(L2) = 0 THEN invalid_arc ELSE L2[1]
      /\ \A k \in 1 .. Len(L2) : next2[L2[k]] = IF k < Len(L2) THEN L2[k + 1] ELSE invalid_arc
  BY DEF Chain
<1>3. \A k \in 1 .. Len(L) : L[k] # invalid_arc
  BY <1>1 DEF invalid_arc
<1> DEFINE Wrong == {k \in 1 .. Len(L) : ~ (k <= Len(L2) /\ L2[k] = L[k])}
<1>4. Wrong = {}
  <2> SUFFICES ASSUME Wrong # {} PROVE FALSE
    OBVIOUS
  <2>1. Wrong \in SUBSET Nat
    BY <1>1
  <2>2. PICK k \in Wrong : \A j \in Wrong : k <= j
    BY <2>1, LeastOf
  <2>3. k \in 1 .. Len(L) /\ ~ (k <= Len(L2) /\ L2[k] = L[k])
    OBVIOUS
  <2>4. k # 1
    <3> SUFFICES ASSUME k = 1 PROVE FALSE
      OBVIOUS
    <3>1. Len(L) # 0 /\ head1 = L[1] /\ head1 # invalid_arc
      BY <2>3, <1>1, <1>2, <1>3
    <3>2. Len(L2) # 0 /\ L2[1] = L[1]
      BY <3>1, <1>2
    <3> QED
      BY <3>2, <2>3, <1>1
  <2> DEFINE j == k - 1
  <2>5. j \in 1 .. Len(L) /\ j < Len(L) /\ j + 1 = k /\ j < k /\ j \in Nat
    BY <2>3, <2>4, <1>1
  <2> HIDE DEF j
  <2>6. j <= Len(L2) /\ L2[j] = L[j]
    <3>1. j \notin Wrong
      BY <2>2, <2>5, <1>1
    <3> QED
      BY <3>1, <2>5
  <2>7. next[L[j]] = L[k] /\ L[k] # invalid_arc /\ L[j] \in DOMAIN next
    BY <2>3, <2>5, <1>1, <1>2, <1>3
  <2>8. next2[L2[j]] = L[k]
    BY <2>6, <2>7
  <2>9. j \in 1 .. Len(L2)
    BY <2>5, <2>6, <1>1
  <2>10. j < Len(L2) /\ L2[j + 1] = L[k]
    BY <2>7, <2>8, <2>9, <1>2
  <2> QED
    BY <2>3, <2>5, <2>10, <1>1
<1>5. \A k \in 1 .. Len(L) : k <= Len(L2) /\ L2[k] = L[k]
  BY <1>4
<1>6. Len(L) <= Len(L2)
  <2>1. CASE Len(L) = 0
    BY <2>1, <1>1
  <2>2. CASE Len(L) # 0
    <3>1. Len(L) \in 1 .. Len(L)
      BY <2>2, <1>1
    <3> QED
      BY <3>1, <1>5
  <2> QED
    BY <2>1, <2>2
<1> QED
  BY <1>1, <1>5, <1>6 DEF Continues

\* The links along one kind of list, and the list of a node.
NextOf(it) == IF it = "in" THEN NextIn(m_arcs) ELSE NextOut(m_arcs)
List(it, n) == IF it = "in" THEN In(n) ELSE Out(n)

\* Every list is a chain, from its head along its links.
LEMMA ListIsChain ==
    ASSUME LInv, NEW n \in NodeIds, NEW it \in ItTypes
    PROVE  Chain(List(it, n), head(it, n), NextOf(it))
<1>1. /\ Lists(NodeIds, HeadIn(m_nodes), TailIn(m_nodes), NextIn(m_arcs), Targets, InPending)
      /\ Lists(NodeIds, HeadOut(m_nodes), TailOut(m_nodes), NextOut(m_arcs),
               Sources(m_arcs), OutPending)
  BY DEF LInv, ListsOK
<1>2. /\ In(n) = ListFrom(HeadIn(m_nodes)[n], NextIn(m_arcs))
      /\ Out(n) = ListFrom(HeadOut(m_nodes)[n], NextOut(m_arcs))
      /\ HeadIn(m_nodes)[n] = m_nodes[n].head_in
      /\ HeadOut(m_nodes)[n] = m_nodes[n].head_out
  BY DEF In, Out, InArcs, OutArcs, NextIn, NextOut, HeadIn, HeadOut, NodeIds
<1>3. /\ Chain(In(n), m_nodes[n].head_in, NextIn(m_arcs))
      /\ Chain(Out(n), m_nodes[n].head_out, NextOut(m_arcs))
  BY <1>1, <1>2 DEF Lists, OwnList
<1> QED
  BY <1>3 DEF List, NextOf, head

-----------------------------------------------------------------------------
(* How far a loop is.                                                      *)

\* What a queueing iterator has left out so far.
Skipped(c) == ElementsOf(c.m_queue) \ {invalid_arc}

\* A loop has met the first k arcs of its list: those seen, in their order, and
\* those skipped; the list is still the one that was due, or that one continued.
Met(seen, skipped, due, list, k) ==
    /\ k \in 0 .. Len(list)
    /\ {list[i] : i \in 1 .. k} = ElementsOf(seen) \cup skipped
    /\ ElementsOf(seen) \cap skipped = {}
    /\ InOrder(seen, list)
    /\ Continues(list, due)

\* It is at the arc behind those it has met; when it ended it had met all that
\* was due.  Until then the queue of a queueing iterator was not popped.
AtArc(label, c, list, k) ==
    IF label = "end" THEN Len(c.due) <= k
    ELSE k < Len(list) /\ c.arc = list[k + 1] /\ c.m_not_all_touched

Visiting(label, c, list) ==
    /\ c.seen \in Seq(Nat) /\ c.due \in Seq(Nat)
    /\ c.op # "QueingArcIt_" => Skipped(c) = {} /\ label # "try"
    /\ \E k \in 0 .. Len(list) :
          Met(c.seen, Skipped(c), c.due, list, k) /\ AtArc(label, c, list, k)

VisitOK(q) ==
    pc[q] \in LoopLabels => Visiting(pc[q], call[q], List(call[q].it, call[q].n))

VInv == \A q \in Threads : VisitOK(q)

\* A list that is continued is still met as far.
LEMMA VisitingKeeps ==
    ASSUME NEW label, NEW c, NEW S, NEW list \in Seq(S), NEW S2, NEW list2 \in Seq(S2),
           Visiting(label, c, list), Continues(list2, list)
    PROVE  Visiting(label, c, list2)
<1>1. PICK k \in 0 .. Len(list) :
        Met(c.seen, Skipped(c), c.due, list, k) /\ AtArc(label, c, list, k)
  BY DEF Visiting
<1>2. /\ Len(list) \in Nat /\ DOMAIN list = 1 .. Len(list)
      /\ Len(list2) \in Nat /\ DOMAIN list2 = 1 .. Len(list2)
      /\ Len(list) <= Len(list2) /\ \A i \in 1 .. Len(list) : list2[i] = list[i]
  BY LenProperties DEF Continues
<1>3. k \in 0 .. Len(list2) /\ {list2[i] : i \in 1 .. k} = {list[i] : i \in 1 .. k}
  BY <1>1, <1>2
<1>4. InOrder(c.seen, list2)
  <2> SUFFICES ASSUME NEW i \in DOMAIN c.seen, NEW j \in DOMAIN c.seen, i < j
      PROVE  \E m, n \in DOMAIN list2 : m < n /\ list2[m] = c.seen[i] /\ list2[n] = c.seen[j]
    BY DEF InOrder
  <2>1. PICK m, n \in DOMAIN list : m < n /\ list[m] = c.seen[i] /\ list[n] = c.seen[j]
    BY <1>1 DEF Met, InOrder
  <2>2. m \in DOMAIN list2 /\ n \in DOMAIN list2 /\ list2[m] = list[m] /\ list2[n] = list[n]
    BY <1>2
  <2> QED
    BY <2>1, <2>2
<1>5. Continues(list2, c.due)
  <2>1. /\ Len(c.due) \in Nat /\ DOMAIN c.due = 1 .. Len(c.due)
        /\ Len(c.due) <= Len(list) /\ \A i \in 1 .. Len(c.due) : list[i] = c.due[i]
    BY <1>1, LenProperties DEF Visiting, Met, Continues
  <2> QED
    BY <2>1, <1>2 DEF Continues
<1>6. Met(c.seen, Skipped(c), c.due, list2, k)
  BY <1>1, <1>3, <1>4, <1>5 DEF Met
<1>7. AtArc(label, c, list2, k)
  <2>1. label # "end" => k < Len(list2) /\ k + 1 \in 1 .. Len(list)
    BY <1>1, <1>2 DEF AtArc
  <2> QED
    BY <2>1, <1>1, <1>2 DEF AtArc
<1> QED
  BY <1>3, <1>6, <1>7 DEF Visiting

\* Where a loop may go on to from the arc it is at, the first one behind k others.
LEMMA NextArc ==
    ASSUME NEW N \in Nat, NEW next, DOMAIN next = 1 .. N, NEW list, NEW first,
           Chain(list, first, next), NEW k \in Nat, k < Len(list)
    PROVE  /\ next[list[k + 1]] = invalid_arc => k + 1 = Len(list)
           /\ next[list[k + 1]] # invalid_arc =>
                 k + 1 < Len(list) /\ list[k + 1 + 1] = next[list[k + 1]]
<1>1. Len(list) \in Nat /\ \A i \in 1 .. Len(list) : list[i] \in 1 .. N
  BY LenProperties, ElementOfSeq DEF Chain
<1>2. k + 1 \in 1 .. Len(list) /\ k + 1 \in Nat
  BY <1>1
<1>3. next[list[k + 1]] = IF k + 1 < Len(list) THEN list[k + 1 + 1] ELSE invalid_arc
  BY <1>2 DEF Chain
<1>4. k + 1 < Len(list) => list[k + 1 + 1] # invalid_arc
  <2> SUFFICES ASSUME k + 1 < Len(list) PROVE list[k + 1 + 1] # invalid_arc
    OBVIOUS
  <2>1. k + 1 + 1 \in 1 .. Len(list)
    BY <1>1, <1>2
  <2> QED
    BY <2>1, <1>1 DEF invalid_arc
<1> QED
  BY <1>1, <1>2, <1>3, <1>4

\* The body is given the arc behind those met.
LEMMA MetSeen ==
    ASSUME NEW S, NEW list \in Seq(S), NEW seen \in Seq(S), NEW skipped, NEW due, NEW k,
           \A i, j \in 1 .. Len(list) : list[i] = list[j] => i = j,
           Met(seen, skipped, due, list, k), k < Len(list)
    PROVE  Met(Append(seen, list[k + 1]), skipped, due, list, k + 1)
<1> DEFINE x == list[k + 1]
           s2 == Append(seen, x)
<1>1. /\ Len(list) \in Nat /\ DOMAIN list = 1 .. Len(list) /\ k \in Nat
      /\ k + 1 \in 1 .. Len(list) /\ k + 1 \in 0 .. Len(list)
      /\ Len(seen) \in Nat /\ DOMAIN seen = 1 .. Len(seen)
  BY LenProperties DEF Met
<1>2. x \in S
  BY <1>1, ElementOfSeq
<1>3. /\ DOMAIN s2 = 1 .. Len(seen) + 1 /\ s2[Len(seen) + 1] = x
      /\ \A i \in 1 .. Len(seen) : s2[i] = seen[i]
  <2> HIDE DEF x
  <2> QED
    BY <1>1, <1>2, AppendProperties, LenProperties
<1> HIDE DEF s2
<1>4. ElementsOf(s2) = ElementsOf(seen) \cup {x}
  <2>1. 1 .. Len(seen) + 1 = (1 .. Len(seen)) \cup {Len(seen) + 1}
    BY <1>1
  <2> QED
    BY <2>1, <1>1, <1>3 DEF ElementsOf
<1>5. {list[i] : i \in 1 .. k + 1} = {list[i] : i \in 1 .. k} \cup {x}
  <2>1. 1 .. k + 1 = (1 .. k) \cup {k + 1}
    BY <1>1
  <2> QED
    BY <2>1
<1>6. x \notin {list[i] : i \in 1 .. k}
  BY <1>1
<1>7. InOrder(s2, list)
  <2> SUFFICES ASSUME NEW i \in DOMAIN s2, NEW j \in DOMAIN s2, i < j
      PROVE  \E m, n \in DOMAIN list : m < n /\ list[m] = s2[i] /\ list[n] = s2[j]
    BY DEF InOrder
  <2>1. i \in DOMAIN seen /\ s2[i] = seen[i]
    BY <1>1, <1>3
  <2>2. CASE j \in DOMAIN seen
    BY <2>1, <2>2, <1>1, <1>3 DEF Met, InOrder
  <2>3. CASE j \notin DOMAIN seen
    <3>1. s2[j] = x
      BY <2>3, <1>1, <1>3
    <3>2. seen[i] \in {list[m] : m \in 1 .. k}
      BY <2>1 DEF Met, ElementsOf
    <3>3. PICK m \in 1 .. k : seen[i] = list[m]
      BY <3>2
    <3>4. m \in DOMAIN list /\ k + 1 \in DOMAIN list /\ m < k + 1
      BY <1>1
    <3> QED
      BY <3>1, <3>3, <3>4, <2>1
  <2> QED
    BY <2>2, <2>3
<1> HIDE DEF x
<1> QED
  BY <1>1, <1>4, <1>5, <1>6, <1>7 DEF Met, s2, x

\* A queueing iterator leaves it out.
LEMMA MetSkipped ==
    ASSUME NEW S, NEW list \in Seq(S), NEW seen, NEW skipped, NEW due, NEW k,
           \A i, j \in 1 .. Len(list) : list[i] = list[j] => i = j,
           Met(seen, skipped, due, list, k), k < Len(list)
    PROVE  Met(seen, skipped \cup {list[k + 1]}, due, list, k + 1)
<1>1. Len(list) \in Nat /\ k \in Nat /\ k + 1 \in 0 .. Len(list) /\ k + 1 \in 1 .. Len(list)
  BY LenProperties DEF Met
<1>2. {list[i] : i \in 1 .. k + 1} = {list[i] : i \in 1 .. k} \cup {list[k + 1]}
  <2>1. 1 .. k + 1 = (1 .. k) \cup {k + 1}
    BY <1>1
  <2> QED
    BY <2>1
<1>3. list[k + 1] \notin {list[i] : i \in 1 .. k}
  BY <1>1
<1> QED
  BY <1>1, <1>2, <1>3 DEF Met

\* What the queue of busy arcs holds when one is put into it, and when at the end
\* of the list invalid_arc is popped from its front.
LEMMA QueuePut ==
    ASSUME NEW queue \in Seq(Nat), queue # << >>, queue[1] = invalid_arc,
           NEW x \in Nat, x # invalid_arc
    PROVE  /\ ElementsOf(Append(queue, x)) \ {invalid_arc}
                 = (ElementsOf(queue) \ {invalid_arc}) \cup {x}
           /\ ElementsOf(Tail(Append(queue, x))) \ {invalid_arc}
                 = (ElementsOf(queue) \ {invalid_arc}) \cup {x}
           /\ Head(Append(queue, x)) = invalid_arc
<1> DEFINE n == Len(queue)
           a == Append(queue, x)
           t == Tail(a)
<1>1. n \in Nat /\ n # 0 /\ DOMAIN queue = 1 .. n
  BY EmptySeq, LenProperties
<1>2. /\ a \in Seq(Nat) /\ DOMAIN a = 1 .. n + 1 /\ Len(a) = n + 1 /\ a # << >>
      /\ a[n + 1] = x /\ \A i \in 1 .. n : a[i] = queue[i]
  BY <1>1, AppendProperties, LenProperties
<1> HIDE DEF a, n
<1>3. 1 .. n + 1 = (1 .. n) \cup {n + 1} /\ 1 \in 1 .. n
  BY <1>1
<1>4. ElementsOf(a) = ElementsOf(queue) \cup {x} /\ a[1] = invalid_arc
  BY <1>1, <1>2, <1>3 DEF ElementsOf
<1>5. /\ t \in Seq(Nat) /\ Len(t) = n /\ DOMAIN t = 1 .. n
      /\ \A i \in 1 .. n : t[i] = a[i + 1]
  <2>1. t \in Seq(Nat) /\ Len(t) = Len(a) - 1 /\ \A i \in 1 .. Len(t) : t[i] = a[i + 1]
    BY <1>2, HeadTailProperties
  <2> HIDE DEF t
  <2>2. Len(t) = n
    BY <2>1, <1>1, <1>2
  <2> QED
    BY <2>1, <2>2, LenProperties
<1> HIDE DEF t
<1>6. ElementsOf(t) \cup {invalid_arc} = ElementsOf(a)
  <2>1. ASSUME NEW i \in 1 .. n PROVE t[i] \in ElementsOf(a)
    <3>1. i + 1 \in 1 .. n + 1
      BY <1>1
    <3> QED
      BY <3>1, <1>2, <1>5 DEF ElementsOf
  <2>2. ASSUME NEW i \in 1 .. n + 1 PROVE a[i] \in ElementsOf(t) \cup {invalid_arc}
    <3>1. CASE i = 1
      BY <3>1, <1>4
    <3>2. CASE i # 1
      <4>1. i - 1 \in 1 .. n /\ (i - 1) + 1 = i
        BY <3>2, <1>1
      <4>2. a[i] = t[i - 1]
        BY <4>1, <1>5
      <4> QED
        BY <4>1, <4>2, <1>5 DEF ElementsOf
    <3> QED
      BY <3>1, <3>2
  <2>3. invalid_arc \in ElementsOf(a)
    BY <1>2, <1>3, <1>4 DEF ElementsOf
  <2>4. ElementsOf(t) \in SUBSET ElementsOf(a)
    BY <2>1, <1>5 DEF ElementsOf
  <2>5. ElementsOf(a) \in SUBSET (ElementsOf(t) \cup {invalid_arc})
    BY <2>2, <1>2 DEF ElementsOf
  <2> QED
    BY <2>3, <2>4, <2>5
<1>7. Head(a) = invalid_arc
  BY <1>2, <1>4, HeadTailProperties
<1>8. /\ ElementsOf(a) \ {invalid_arc} = (ElementsOf(queue) \ {invalid_arc}) \cup {x}
      /\ ElementsOf(t) \ {invalid_arc} = (ElementsOf(queue) \ {invalid_arc}) \cup {x}
  BY <1>4, <1>6
<1> QED
  BY <1>7, <1>8 DEF a, t

-----------------------------------------------------------------------------
(* A step writes a head or a link only where there was none.               *)

WrittenOnce ==
    /\ NodeIds \subseteq NodeIds' /\ ArcIds \subseteq ArcIds'
    /\ \A n \in NodeIds :
          /\ m_nodes'[n].head_in = m_nodes[n].head_in
          /\ m_nodes[n].head_out # invalid_arc => m_nodes'[n].head_out = m_nodes[n].head_out
    /\ \A x \in ArcIds :
          /\ m_arcs[x].next_in # invalid_arc => m_arcs'[x].next_in = m_arcs[x].next_in
          /\ m_arcs[x].next_out # invalid_arc => m_arcs'[x].next_out = m_arcs[x].next_out

\* Then every list is continued.
LEMMA ListsContinue ==
    ASSUME LInv, LInv', WrittenOnce
    PROVE  \A it \in ItTypes, n \in NodeIds :
              /\ List(it, n) \in Seq(ArcIds) /\ List(it, n)' \in Seq(ArcIds')
              /\ Continues(List(it, n)', List(it, n))
<1>1. /\ Len(m_arcs) \in Nat /\ ArcIds = 1 .. Len(m_arcs)
      /\ DOMAIN NextIn(m_arcs) = ArcIds /\ DOMAIN NextOut(m_arcs) = ArcIds
      /\ DOMAIN NextIn(m_arcs') = ArcIds' /\ DOMAIN NextOut(m_arcs') = ArcIds'
  BY ArenaFacts DEF LInv, LTypeOK, ArcIds, NextIn, NextOut
<1>2. ASSUME NEW n \in NodeIds
      PROVE  /\ In(n) \in Seq(ArcIds) /\ In(n)' \in Seq(ArcIds')
             /\ Continues(In(n)', In(n))
  <2>1. Chain(In(n), m_nodes[n].head_in, NextIn(m_arcs))
    <3>1. Chain(List("in", n), head("in", n), NextOf("in"))
      BY ListIsChain DEF ItTypes
    <3> QED
      BY <3>1 DEF List, head, NextOf
  <2>2. Chain(In(n)', m_nodes'[n].head_in, NextIn(m_arcs'))
    <3>1. n \in NodeIds'
      BY DEF WrittenOnce
    <3>2. Lists(NodeIds', HeadIn(m_nodes'), TailIn(m_nodes'), NextIn(m_arcs'), Targets', InPending')
      BY DEF LInv, ListsOK
    <3>3. /\ In(n)' = ListFrom(HeadIn(m_nodes')[n], NextIn(m_arcs'))
          /\ HeadIn(m_nodes')[n] = m_nodes'[n].head_in
      BY <3>1 DEF In, InArcs, NextIn, HeadIn, NodeIds
    <3> QED
      BY <3>1, <3>2, <3>3 DEF Lists, OwnList
  <2>3. \A x \in DOMAIN NextIn(m_arcs) :
            NextIn(m_arcs)[x] # invalid_arc => NextIn(m_arcs')[x] = NextIn(m_arcs)[x]
    BY DEF WrittenOnce, NextIn, ArcIds
  <2>4. m_nodes'[n].head_in = m_nodes[n].head_in
    BY DEF WrittenOnce
  <2>5. Continues(In(n)', In(n))
    BY <1>1, <2>1, <2>2, <2>3, <2>4, ChainContinues
  <2> QED
    BY <1>1, <2>1, <2>2, <2>5 DEF Chain
<1>3. ASSUME NEW n \in NodeIds
      PROVE  /\ Out(n) \in Seq(ArcIds) /\ Out(n)' \in Seq(ArcIds')
             /\ Continues(Out(n)', Out(n))
  <2>1. Chain(Out(n), m_nodes[n].head_out, NextOut(m_arcs))
    <3>1. Chain(List("out", n), head("out", n), NextOf("out"))
      BY ListIsChain DEF ItTypes
    <3> QED
      BY <3>1 DEF List, head, NextOf
  <2>2. Chain(Out(n)', m_nodes'[n].head_out, NextOut(m_arcs'))
    <3>1. n \in NodeIds'
      BY DEF WrittenOnce
    <3>2. Lists(NodeIds', HeadOut(m_nodes'), TailOut(m_nodes'), NextOut(m_arcs'),
                Sources(m_arcs'), OutPending')
      BY DEF LInv, ListsOK
    <3>3. /\ Out(n)' = ListFrom(HeadOut(m_nodes')[n], NextOut(m_arcs'))
          /\ HeadOut(m_nodes')[n] = m_nodes'[n].head_out
      BY <3>1 DEF Out, OutArcs, NextOut, HeadOut, NodeIds
    <3> QED
      BY <3>1, <3>2, <3>3 DEF Lists, OwnList
  <2>3. \A x \in DOMAIN NextOut(m_arcs) :
            NextOut(m_arcs)[x] # invalid_arc => NextOut(m_arcs')[x] = NextOut(m_arcs)[x]
    BY DEF WrittenOnce, NextOut, ArcIds
  <2>4. m_nodes[n].head_out # invalid_arc => m_nodes'[n].head_out = m_nodes[n].head_out
    BY DEF WrittenOnce
  <2>5. Continues(Out(n)', Out(n))
    BY <1>1, <2>1, <2>2, <2>3, <2>4, ChainContinues
  <2> QED
    BY <1>1, <2>1, <2>2, <2>5 DEF Chain
<1> QED
  BY <1>2, <1>3 DEF List

\* The arc that the tail of a list names has no next arc.
LEMMA TailIsLast ==
    ASSUME LInv, NEW n \in NodeIds
    PROVE  /\ m_arcs[m_nodes[n].tail_in].next_in = invalid_arc
           /\ m_nodes[n].head_out # invalid_arc =>
                 m_arcs[m_nodes[n].tail_out].next_out = invalid_arc
<1>1. ASSUME NEW L, NEW first, NEW last, NEW next, NEW members,
             OwnList(L, first, last, next, members), first # invalid_arc
      PROVE  last \in DOMAIN next /\ next[last] = invalid_arc
  <2>1. /\ Chain(L, first, next) /\ last = LastOf(L) /\ Len(L) \in Nat
        /\ \A k \in 1 .. Len(L) : L[k] \in DOMAIN next
    BY <1>1, LenProperties, ElementOfSeq DEF OwnList, Chain
  <2>2. Len(L) # 0 /\ Len(L) \in 1 .. Len(L) /\ L # << >>
    BY <1>1, <2>1 DEF Chain
  <2>3. last = L[Len(L)]
    BY <2>1, <2>2 DEF LastOf
  <2> QED
    BY <2>1, <2>2, <2>3 DEF Chain
<1>2. /\ HeadIn(m_nodes)[n] = m_nodes[n].head_in /\ TailIn(m_nodes)[n] = m_nodes[n].tail_in
      /\ HeadOut(m_nodes)[n] = m_nodes[n].head_out /\ TailOut(m_nodes)[n] = m_nodes[n].tail_out
      /\ m_nodes[n].head_in # invalid_arc
  BY DEF HeadIn, TailIn, HeadOut, TailOut, NodeIds, LInv, ListsOK
<1>3. m_arcs[m_nodes[n].tail_in].next_in = invalid_arc
  <2>1. Lists(NodeIds, HeadIn(m_nodes), TailIn(m_nodes), NextIn(m_arcs), Targets, InPending)
    BY DEF LInv, ListsOK
  <2>2. /\ m_nodes[n].tail_in \in DOMAIN NextIn(m_arcs)
        /\ NextIn(m_arcs)[m_nodes[n].tail_in] = invalid_arc
    BY <1>1, <1>2, <2>1 DEF Lists
  <2> QED
    BY <2>2 DEF NextIn
<1>4. ASSUME m_nodes[n].head_out # invalid_arc
      PROVE  m_arcs[m_nodes[n].tail_out].next_out = invalid_arc
  <2>1. Lists(NodeIds, HeadOut(m_nodes), TailOut(m_nodes), NextOut(m_arcs),
              Sources(m_arcs), OutPending)
    BY DEF LInv, ListsOK
  <2>2. /\ m_nodes[n].tail_out \in DOMAIN NextOut(m_arcs)
        /\ NextOut(m_arcs)[m_nodes[n].tail_out] = invalid_arc
    BY <1>1, <1>2, <1>4, <2>1 DEF Lists
  <2> QED
    BY <2>2 DEF NextOut
<1> QED
  BY <1>3, <1>4

\* The calls that put an arc into a list write at its end only.
LEMMA AppendsWriteOnce ==
    ASSUME LInv, NEW p \in Threads, AppendIn(p) \/ AppendFirst(p) \/ AppendOut(p)
    PROVE  WrittenOnce
<1>c. PICK x, t, s, y, z : /\ x = call[p].a /\ t = call[p].t /\ s = call[p].s
                           /\ y = m_nodes[t].tail_in /\ z = m_nodes[s].tail_out
  OBVIOUS
<1>0. pc[p] \in {"append_in", "append_first", "append_out"} /\ pc[p] \in AddLabels /\ AddingOK(p)
  BY DEF AppendIn, AppendFirst, AppendOut, AddLabels, InLabels, ListLabels, LInv
<1>1. /\ Len(m_arcs) \in Nat /\ DOMAIN m_arcs = ArcIds /\ ArcIds = 1 .. Len(m_arcs)
      /\ Len(m_nodes) \in Nat /\ DOMAIN m_nodes = NodeIds /\ NodeIds = 1 .. Len(m_nodes)
      /\ m_arcs \in [1 .. Len(m_arcs) -> Arc] /\ m_nodes \in [1 .. Len(m_nodes) -> Node]
      /\ x \in Nat /\ s \in NodeIds
  <2>1. /\ Len(m_arcs) \in Nat /\ ArcIds = 1 .. Len(m_arcs)
        /\ Len(m_nodes) \in Nat /\ NodeIds = 1 .. Len(m_nodes)
        /\ m_arcs \in [1 .. Len(m_arcs) -> Arc] /\ m_nodes \in [NodeIds -> Node]
        /\ call[p] \in [op : {"addArc", "addNode"}, s : NodeIds,
                        t : NodeIds \cup {invalid_node}, a : ArcIds]
    BY <1>0, AddingFacts
  <2>2. x \in ArcIds /\ s \in NodeIds
    BY <2>1, <1>c
  <2> HIDE DEF Arc, Node
  <2> QED
    BY <2>1, <2>2 DEF ArcIds, NodeIds
<1>2. CASE AppendIn(p)
  <2>1. t \in NodeIds /\ m_arcs[y].next_in = invalid_arc
    <3>1. t \in NodeIds
      BY <1>0, <1>2, <1>c DEF AppendIn, AddingOK, InLabels
    <3> QED
      BY <3>1, <1>c, TailIsLast
  <2>2. m_arcs' = [m_arcs EXCEPT ![y].next_in = x] /\ m_nodes' = [m_nodes EXCEPT ![t].tail_in = x]
    BY <1>2, <1>c DEF AppendIn
  <2>3. /\ NextInSet(Len(m_arcs), m_arcs, m_arcs', y, x)
        /\ NodeSet(Len(m_nodes), m_nodes, m_nodes', t, x, m_nodes[t].head_out, m_nodes[t].tail_out)
    BY <1>1, <2>2, SetNext, SetEnd
  <2> HIDE DEF Arc, Node
  <2> QED
    BY <1>1, <2>1, <2>3 DEF WrittenOnce, NextInSet, NodeSet, ArcIds, NodeIds
<1>3. CASE AppendFirst(p)
  <2>1. m_nodes[s].head_out = invalid_arc
    BY <1>0, <1>3, <1>c DEF AppendFirst, AddingOK
  <2>2. m_arcs' = m_arcs /\ m_nodes' = [m_nodes EXCEPT ![s].head_out = x, ![s].tail_out = x]
    BY <1>3, <1>c DEF AppendFirst
  <2>3. NodeSet(Len(m_nodes), m_nodes, m_nodes', s, m_nodes[s].tail_in, x, x)
    BY <1>1, <2>2, SetEnd
  <2> HIDE DEF Arc, Node
  <2> QED
    BY <1>1, <2>1, <2>2, <2>3 DEF WrittenOnce, NodeSet, ArcIds, NodeIds
<1>4. CASE AppendOut(p)
  <2>1. m_arcs[z].next_out = invalid_arc
    <3>1. m_nodes[s].head_out # invalid_arc
      BY <1>0, <1>4, <1>c DEF AppendOut, AddingOK
    <3> QED
      BY <3>1, <1>1, <1>c, TailIsLast
  <2>2. m_arcs' = [m_arcs EXCEPT ![z].next_out = x] /\ m_nodes' = [m_nodes EXCEPT ![s].tail_out = x]
    BY <1>4, <1>c DEF AppendOut
  <2>3. /\ NextOutSet(Len(m_arcs), m_arcs, m_arcs', z, x)
        /\ NodeSet(Len(m_nodes), m_nodes, m_nodes', s, m_nodes[s].tail_in, m_nodes[s].head_out, x)
    BY <1>1, <2>2, SetNext, SetEnd
  <2> HIDE DEF Arc, Node
  <2> QED
    BY <1>1, <2>1, <2>3 DEF WrittenOnce, NextOutSet, NodeSet, ArcIds, NodeIds
<1> QED
  BY <1>2, <1>3, <1>4

\* No step of any thread takes a head or a link back.
LEMMA StepWritesOnce ==
    ASSUME LInv, [Next]_vars
    PROVE  WrittenOnce
<1>1. /\ Len(m_arcs) \in Nat /\ DOMAIN m_arcs = 1 .. Len(m_arcs)
      /\ Len(m_nodes) \in Nat /\ DOMAIN m_nodes = 1 .. Len(m_nodes)
      /\ m_arcs \in Seq(Arc) /\ m_nodes \in Seq(Node)
  BY ArenaFacts DEF LInv, LTypeOK
<1>2. CASE m_arcs' = m_arcs /\ m_nodes' = m_nodes
  BY <1>2 DEF WrittenOnce, NodeIds, ArcIds
<1>3. ASSUME NEW x, m_arcs' = Append(m_arcs, x), m_nodes' = m_nodes
      PROVE  WrittenOnce
  <2>1. DOMAIN m_arcs' = 1 .. Len(m_arcs) + 1 /\ \A k \in 1 .. Len(m_arcs) : m_arcs'[k] = m_arcs[k]
    <3> HIDE DEF Arc, Node
    <3> QED
      BY <1>1, <1>3
  <2> HIDE DEF Arc, Node
  <2> QED
    BY <2>1, <1>1, <1>3 DEF WrittenOnce, NodeIds, ArcIds
<1>4. ASSUME NEW x, m_nodes' = Append(m_nodes, x), m_arcs' = m_arcs
      PROVE  WrittenOnce
  <2>1. DOMAIN m_nodes' = 1 .. Len(m_nodes) + 1 /\ \A k \in 1 .. Len(m_nodes) : m_nodes'[k] = m_nodes[k]
    <3> HIDE DEF Arc, Node
    <3> QED
      BY <1>1, <1>4
  <2> HIDE DEF Arc, Node
  <2> QED
    BY <2>1, <1>1, <1>4 DEF WrittenOnce, NodeIds, ArcIds
<1>5. CASE UNCHANGED vars
  BY <1>2, <1>5 DEF vars
<1>6. CASE Next
  <2>1. PICK p \in Threads :
          AddArc(p) \/ AddNode(p) \/ StartLoop(p) \/ AddStep(p) \/ LoopStep(p)
    BY <1>6 DEF Next
  <2>2. CASE AddArc(p) \/ AddNode(p)
    <3>1. \E x : m_arcs' = Append(m_arcs, x) /\ m_nodes' = m_nodes
      BY <2>2 DEF AddArc, AddNode, emplace_back
    <3> QED
      BY <3>1, <1>3
  <2>3. CASE StartLoop(p) \/ LoopStep(p)
    <3>1. m_arcs' = m_arcs /\ m_nodes' = m_nodes
      BY <2>3 DEF StartLoop, LoopStep, LockArc, Step, TryLock, EndLoop, BreakLoop
    <3> QED
      BY <3>1, <1>2
  <2>4. CASE LockTarget(p) \/ LockTailIn(p) \/ LockSource(p) \/ LockTailOut(p)
    <3>1. m_arcs' = m_arcs /\ m_nodes' = m_nodes
      BY <2>4 DEF LockTarget, LockTailIn, LockSource, LockTailOut
    <3> QED
      BY <3>1, <1>2
  <2>5. CASE EmplaceNode(p)
    BY <2>5, <1>4 DEF EmplaceNode, emplace_back
  <2>6. CASE SetSourceTarget(p)
    <3>1. PICK y, s, t : /\ m_arcs' = [m_arcs EXCEPT ![y].source = s, ![y].target = t]
                         /\ m_nodes' = m_nodes
      BY <2>6 DEF SetSourceTarget
    <3>2. \A k \in DOMAIN m_arcs : m_arcs[k] \in Arc
      <4> HIDE DEF Arc, Node
      <4> QED
        BY <1>1, ElementOfSeq
    <3>3. /\ DOMAIN m_arcs' = DOMAIN m_arcs
          /\ \A k \in DOMAIN m_arcs : /\ m_arcs'[k].next_in = m_arcs[k].next_in
                                      /\ m_arcs'[k].next_out = m_arcs[k].next_out
      BY <3>1, <3>2 DEF Arc
    <3> QED
      BY <3>1, <3>3 DEF WrittenOnce, NodeIds, ArcIds
  <2>7. CASE AppendIn(p) \/ AppendFirst(p) \/ AppendOut(p)
    BY <2>7, AppendsWriteOnce
  <2> QED
    BY <2>1, <2>2, <2>3, <2>4, <2>5, <2>6, <2>7 DEF AddStep
<1> QED
  BY <1>5, <1>6

-----------------------------------------------------------------------------
(* What the steps of a loop do to what it has met.                         *)

\* A sequence over a set is one over a larger set.
LEMMA SeqWider ==
    ASSUME NEW S, NEW T, S \subseteq T, NEW L \in Seq(S)
    PROVE  L \in Seq(T)
<1>1. L \in [1 .. Len(L) -> S] /\ Len(L) \in Nat
  BY LenProperties
<1>2. L \in [1 .. Len(L) -> T]
  BY <1>1
<1> QED
  BY <1>1, <1>2, FunctionIsSeq

\* The loop p is at the arc behind the k it has met; next is where it goes on to.
LoopAt(p, c, list, next, k) ==
    /\ pc[p] \in LoopLabels \ {"end"} /\ c = call[p] /\ list = List(c.it, c.n)
    /\ c.n \in NodeIds /\ c.it \in ItTypes /\ next = getNext(c.it, c.arc)
    /\ c.op \in Kinds /\ Iterator(c)
    /\ list \in Seq(Nat) /\ Len(list) \in Nat /\ k \in Nat /\ k + 1 \in 0 .. Len(list)
    /\ \A i, j \in 1 .. Len(list) : list[i] = list[j] => i = j
    /\ c.seen \in Seq(Nat) /\ c.due \in Seq(Nat) /\ Len(c.due) <= Len(list)
    /\ c.op # "QueingArcIt_" => Skipped(c) = {} /\ pc[p] # "try"
    /\ Met(c.seen, Skipped(c), c.due, list, k)
    /\ k < Len(list) /\ c.arc = list[k + 1] /\ c.m_not_all_touched
    /\ c.arc \in Nat /\ c.arc # invalid_arc
    /\ c.m_queue \in Seq(Nat) /\ c.m_queue # << >> /\ c.m_queue[1] = invalid_arc
    /\ next = invalid_arc => k + 1 = Len(list)
    /\ next # invalid_arc => k + 1 < Len(list) /\ list[k + 1 + 1] = next

\* Every loop that has not ended is at such an arc.
LEMMA LoopFacts ==
    ASSUME LInv, NEW p \in Threads, VisitOK(p), pc[p] \in LoopLabels \ {"end"}
    PROVE  \E c, list, next, k : LoopAt(p, c, list, next, k)
<1>1. PICK c, list, next : /\ c = call[p] /\ list = List(c.it, c.n)
                           /\ next = getNext(c.it, c.arc)
  OBVIOUS
<1>2. LoopOK(p)
  BY DEF LInv
<1>3. /\ Iterator(c) /\ c.arc \in InList(c.it, c.n)
      /\ c.m_queue # << >> /\ c.m_queue[1] = invalid_arc
  BY <1>1, <1>2 DEF LoopOK, Iterator
<1>4. c.n \in NodeIds /\ c.it \in ItTypes /\ c.op \in Kinds /\ c.arc \in Nat /\ c.m_queue \in Seq(Nat)
  BY <1>3 DEF Iterator
<1>5. /\ Len(m_arcs) \in Nat /\ ArcIds = 1 .. Len(m_arcs) /\ ArcIds \subseteq Nat
      /\ DOMAIN NextOf(c.it) = ArcIds
  BY ArenaFacts DEF LInv, LTypeOK, ArcIds, NextOf, NextIn, NextOut
<1>6. Chain(list, head(c.it, c.n), NextOf(c.it))
  BY <1>1, <1>4, ListIsChain
<1>7. /\ list \in Seq(Nat) /\ Len(list) \in Nat
      /\ \A i, j \in 1 .. Len(list) : list[i] = list[j] => i = j
  <2>1. list \in Seq(ArcIds)
    BY <1>5, <1>6 DEF Chain
  <2>2. list \in Seq(Nat)
    BY <2>1, <1>5, SeqWider
  <2> QED
    BY <2>2, <1>6, LenProperties DEF Chain
<1>8. c.arc \in ArcIds /\ c.arc # invalid_arc /\ next = NextOf(c.it)[c.arc]
  <2>1. c.arc \in ArcIds
    BY <1>3 DEF InList
  <2> QED
    BY <2>1, <1>1, <1>5 DEF getNext, NextOf, NextIn, NextOut, ArcIds, invalid_arc
<1>9. Visiting(pc[p], c, list)
  BY <1>1 DEF VisitOK
<1>10. PICK k \in 0 .. Len(list) :
         Met(c.seen, Skipped(c), c.due, list, k) /\ AtArc(pc[p], c, list, k)
  BY <1>9 DEF Visiting
<1>11. /\ k \in Nat /\ k + 1 \in 0 .. Len(list)
       /\ k < Len(list) /\ c.arc = list[k + 1] /\ c.m_not_all_touched
  BY <1>7, <1>10 DEF AtArc
<1>12. Len(c.due) <= Len(list)
  BY <1>10 DEF Met, Continues
<1>13. /\ next = invalid_arc => k + 1 = Len(list)
       /\ next # invalid_arc => k + 1 < Len(list) /\ list[k + 1 + 1] = next
  BY <1>5, <1>6, <1>8, <1>11, NextArc
<1>14. /\ c.seen \in Seq(Nat) /\ c.due \in Seq(Nat)
       /\ c.op # "QueingArcIt_" => Skipped(c) = {} /\ pc[p] # "try"
  BY <1>9 DEF Visiting
<1>15. LoopAt(p, c, list, next, k)
  BY <1>1, <1>3, <1>4, <1>7, <1>8, <1>10, <1>11, <1>12, <1>13, <1>14 DEF LoopAt
<1> QED
  BY <1>15

\* A loop that starts has met nothing yet.
LEMMA StartVisits ==
    ASSUME LInv, NEW p \in Threads, StartLoop(p)
    PROVE  VisitOK(p)'
<1>1. PICK n \in NodeIds, kind \in Kinds, it \in ItTypes, mode \in LockTypes :
        /\ head(it, n) # invalid_arc
        /\ call' = [call EXCEPT ![p] =
              [op |-> kind, n |-> n, it |-> it, mode |-> mode,
               arc |-> head(it, n), m_queue |-> <<invalid_arc>>,
               m_not_all_touched |-> TRUE,
               due |-> IF it = "in" THEN In(n) ELSE Out(n), seen |-> << >>]]
        /\ pc' = [pc EXCEPT ![p] = IF kind = "InIt_OutIt" THEN "body" ELSE "lock"]
  BY DEF StartLoop
<1>2. PICK c, list, label :
        /\ list = List(it, n)
        /\ c = [op |-> kind, n |-> n, it |-> it, mode |-> mode,
                arc |-> head(it, n), m_queue |-> <<invalid_arc>>,
                m_not_all_touched |-> TRUE, due |-> list, seen |-> << >>]
        /\ label = IF kind = "InIt_OutIt" THEN "body" ELSE "lock"
  OBVIOUS
<1>3. call'[p] = c /\ pc'[p] = label /\ List(it, n)' = list
  <2>1. DOMAIN call = Threads /\ DOMAIN pc = Threads
    BY DEF LInv, LTypeOK
  <2>2. m_arcs' = m_arcs /\ m_nodes' = m_nodes
    BY DEF StartLoop
  <2>3. List(it, n)' = list
    BY <1>2, <2>2 DEF List, In, Out
  <2> QED
    BY <1>1, <1>2, <2>1, <2>3 DEF List
<1>4. /\ c.it = it /\ c.n = n /\ c.op = kind /\ c.arc = head(it, n) /\ c.due = list
      /\ c.seen = << >> /\ c.m_queue = <<invalid_arc>> /\ c.m_not_all_touched
      /\ label \notin {"end", "try"}
  BY <1>2
<1>5. Chain(list, head(it, n), NextOf(it))
  BY <1>2, ListIsChain
<1>6. list \in Seq(Nat) /\ Len(list) \in Nat /\ DOMAIN list = 1 .. Len(list)
  <2>1. list \in Seq(ArcIds) /\ ArcIds \subseteq Nat
    BY <1>5, ArenaFacts DEF Chain, NextOf, NextIn, NextOut, LInv, LTypeOK, ArcIds
  <2>2. list \in Seq(Nat)
    BY <2>1, SeqWider
  <2> QED
    BY <2>2, LenProperties
<1>7. Len(list) # 0 /\ list[1] = head(it, n)
  BY <1>1, <1>5 DEF Chain
<1>8. /\ << >> \in Seq(Nat) /\ DOMAIN << >> = {} /\ 1 .. 0 = {}
      /\ DOMAIN <<invalid_arc>> = {1} /\ <<invalid_arc>>[1] = invalid_arc
  OBVIOUS
<1>9. Skipped(c) = {} /\ ElementsOf(c.seen) = {}
  BY <1>4, <1>8 DEF Skipped, ElementsOf
<1>10. Met(c.seen, Skipped(c), c.due, list, 0)
  <2>1. Continues(list, c.due)
    BY <1>4, <1>6 DEF Continues
  <2>2. InOrder(c.seen, list)
    BY <1>4, <1>8 DEF InOrder
  <2>3. {list[i] : i \in 1 .. 0} = {} /\ 0 \in 0 .. Len(list)
    BY <1>6
  <2> QED
    BY <1>9, <2>1, <2>2, <2>3 DEF Met
<1>11. AtArc(label, c, list, 0)
  BY <1>4, <1>6, <1>7 DEF AtArc
<1>12. Visiting(label, c, list)
  BY <1>4, <1>6, <1>8, <1>9, <1>10, <1>11 DEF Visiting
<1> QED
  BY <1>3, <1>4, <1>12 DEF VisitOK

\* The body has been given the arc, and the loop goes on.
LEMMA StepVisits ==
    ASSUME LInv, NEW p \in Threads, VisitOK(p), Step(p)
    PROVE  VisitOK(p)'
<1>1. pc[p] = "body" /\ pc[p] \in LoopLabels \ {"end"}
  BY DEF Step, LoopLabels
<1>2. PICK c, list, next, k : LoopAt(p, c, list, next, k)
  BY <1>1, LoopFacts
<1>3. PICK d, label :
        /\ d = [c EXCEPT !.arc = next, !.seen = Append(c.seen, c.arc)]
        /\ label = IF next = invalid_arc THEN "end"
                   ELSE CASE c.op = "ArcIt_" -> "lock"
                          [] c.op = "QueingArcIt_" -> "try"
                          [] c.op = "InIt_OutIt" -> "body"
  OBVIOUS
<1>4. call'[p] = d /\ pc'[p] = label /\ m_arcs' = m_arcs /\ m_nodes' = m_nodes
  <2>1. /\ call' = [call EXCEPT ![p].arc = next, ![p].seen = Append(c.seen, c.arc)]
        /\ pc' = [pc EXCEPT ![p] = label] /\ m_arcs' = m_arcs /\ m_nodes' = m_nodes
    <3>1. /\ call' = [call EXCEPT ![p].arc = getNext(call[p].it, call[p].arc),
                                 ![p].seen = Append(call[p].seen, call[p].arc)]
          /\ pc' = [pc EXCEPT ![p] =
                       IF getNext(call[p].it, call[p].arc) = invalid_arc THEN "end"
                       ELSE CASE call[p].op = "ArcIt_" -> "lock"
                              [] call[p].op = "QueingArcIt_" -> "try"
                              [] call[p].op = "InIt_OutIt" -> "body"]
          /\ m_arcs' = m_arcs /\ m_nodes' = m_nodes
      BY DEF Step
    <3>2. call[p] = c /\ getNext(c.it, c.arc) = next
      BY <1>2 DEF LoopAt
    <3> QED
      BY <3>1, <3>2, <1>3
  <2>2. p \in DOMAIN call /\ p \in DOMAIN pc /\ c = call[p]
    BY <1>2 DEF LInv, LTypeOK, LoopAt
  <2>3. call'[p] = [call[p] EXCEPT !.arc = next, !.seen = Append(c.seen, c.arc)]
    BY <2>1, <2>2
  <2> QED
    BY <2>1, <2>2, <2>3, <1>3
<1>5. /\ d.it = c.it /\ d.n = c.n /\ d.op = c.op /\ d.arc = next /\ d.m_queue = c.m_queue
      /\ d.seen = Append(c.seen, c.arc) /\ d.due = c.due /\ d.m_not_all_touched
  BY <1>2, <1>3 DEF LoopAt, Iterator
<1>6. List(d.it, d.n)' = list
  BY <1>2, <1>4, <1>5 DEF LoopAt, List, In, Out
<1>7. Met(d.seen, Skipped(d), d.due, list, k + 1)
  <2>1. Met(Append(c.seen, list[k + 1]), Skipped(c), c.due, list, k + 1)
    <3>1. /\ list \in Seq(Nat) /\ c.seen \in Seq(Nat) /\ k < Len(list)
          /\ \A i, j \in 1 .. Len(list) : list[i] = list[j] => i = j
          /\ Met(c.seen, Skipped(c), c.due, list, k)
      BY <1>2 DEF LoopAt
    <3> QED
      BY <3>1, MetSeen
  <2>2. d.seen = Append(c.seen, list[k + 1]) /\ Skipped(d) = Skipped(c) /\ d.due = c.due
    BY <1>2, <1>5 DEF LoopAt, Skipped
  <2> QED
    BY <2>1, <2>2
<1>8. (label = "end" <=> next = invalid_arc) /\ (label = "try" => c.op = "QueingArcIt_")
  BY <1>2, <1>3 DEF LoopAt, Kinds
<1>9. AtArc(label, d, list, k + 1)
  <2>1. /\ next = invalid_arc => k + 1 = Len(list)
        /\ next # invalid_arc => k + 1 < Len(list) /\ list[k + 1 + 1] = next
        /\ Len(c.due) <= Len(list)
    BY <1>2 DEF LoopAt
  <2> QED
    BY <2>1, <1>5, <1>8 DEF AtArc
<1>10. d.seen \in Seq(Nat) /\ d.due \in Seq(Nat) /\ k + 1 \in 0 .. Len(list)
  BY <1>2, <1>5, AppendProperties DEF LoopAt
<1>11. Visiting(label, d, list)
  BY <1>2, <1>5, <1>7, <1>8, <1>9, <1>10 DEF LoopAt, Visiting, Skipped
<1> QED
  BY <1>4, <1>6, <1>11 DEF VisitOK

\* A queueing iterator has locked the arc it is at, or has put it into its queue.
LEMMA TryVisits ==
    ASSUME LInv, NEW p \in Threads, VisitOK(p), TryLock(p)
    PROVE  VisitOK(p)'
<1>1. pc[p] = "try" /\ pc[p] \in LoopLabels \ {"end"} /\ m_arcs' = m_arcs /\ m_nodes' = m_nodes
  BY DEF TryLock, LoopLabels
<1>2. PICK c, list, next, k : LoopAt(p, c, list, next, k)
  BY <1>1, LoopFacts
<1>3. p \in DOMAIN call /\ p \in DOMAIN pc /\ c = call[p]
  BY <1>2 DEF LInv, LTypeOK, LoopAt
<1>4. List(c.it, c.n)' = list
  BY <1>1, <1>2 DEF LoopAt, List, In, Out
<1>5. CASE Goto(p, "body")
  <2>1. pc'[p] = "body" /\ call'[p] = c
    BY <1>3, <1>5 DEF Goto
  <2>2. AtArc("body", c, list, k) /\ k \in 0 .. Len(list)
    BY <1>2 DEF LoopAt, AtArc, Met
  <2>3. Visiting("body", c, list)
    BY <1>2, <2>2 DEF LoopAt, Visiting
  <2> QED
    BY <1>4, <2>1, <2>3 DEF VisitOK
<1>6. CASE ~ Goto(p, "body")
  <2>1. PICK queue, d, label :
          /\ queue = Append(c.m_queue, c.arc)
          /\ d = [c EXCEPT
                    !.m_queue = IF next = invalid_arc THEN Tail(queue) ELSE queue,
                    !.m_not_all_touched = ~ (next = invalid_arc),
                    !.arc = IF next = invalid_arc THEN Head(queue) ELSE next]
          /\ label = IF next = invalid_arc THEN "end" ELSE "try"
    OBVIOUS
  <2>2. /\ ElementsOf(queue) \ {invalid_arc} = Skipped(c) \cup {c.arc}
        /\ ElementsOf(Tail(queue)) \ {invalid_arc} = Skipped(c) \cup {c.arc}
        /\ Head(queue) = invalid_arc
    <3>1. /\ c.m_queue \in Seq(Nat) /\ c.m_queue # << >> /\ c.m_queue[1] = invalid_arc
          /\ c.arc \in Nat /\ c.arc # invalid_arc
      BY <1>2 DEF LoopAt
    <3> QED
      BY <3>1, <2>1, QueuePut DEF Skipped
  <2>3. /\ d.it = c.it /\ d.n = c.n /\ d.op = c.op /\ d.seen = c.seen /\ d.due = c.due
        /\ d.m_queue = IF next = invalid_arc THEN Tail(queue) ELSE queue
        /\ d.arc = next /\ (next # invalid_arc => d.m_not_all_touched)
    BY <1>2, <2>1, <2>2 DEF LoopAt, Iterator
  <2>4. call'[p] = d /\ pc'[p] = label
    <3>1. c.m_not_all_touched = TRUE
      BY <1>2 DEF LoopAt, Iterator
    <3>2. /\ call' = [call EXCEPT
                ![p].m_queue = IF next = invalid_arc THEN Tail(queue) ELSE queue,
                ![p].m_not_all_touched = ~ (next = invalid_arc),
                ![p].arc = IF next = invalid_arc THEN Head(queue) ELSE next]
          /\ pc' = [pc EXCEPT ![p] = IF call'[p].arc = invalid_arc THEN "end" ELSE "try"]
      BY <1>2, <1>3, <1>6, <2>1, <3>1 DEF LoopAt, TryLock, Queued
    <3>3. call'[p] = d
      BY <1>3, <2>1, <3>2
    <3>4. pc'[p] = IF d.arc = invalid_arc THEN "end" ELSE "try"
      BY <1>3, <3>2, <3>3
    <3> QED
      BY <2>1, <2>3, <3>3, <3>4
  <2>5. Skipped(d) = Skipped(c) \cup {c.arc}
    BY <2>2, <2>3 DEF Skipped
  <2>6. Met(d.seen, Skipped(d), d.due, list, k + 1)
    <3>1. Met(c.seen, Skipped(c) \cup {list[k + 1]}, c.due, list, k + 1)
      <4>1. /\ list \in Seq(Nat) /\ c.seen \in Seq(Nat) /\ k < Len(list)
            /\ \A i, j \in 1 .. Len(list) : list[i] = list[j] => i = j
            /\ Met(c.seen, Skipped(c), c.due, list, k)
        BY <1>2 DEF LoopAt
      <4> QED
        BY <4>1, MetSkipped
    <3>2. c.arc = list[k + 1]
      BY <1>2 DEF LoopAt
    <3> QED
      BY <3>1, <3>2, <2>3, <2>5
  <2>7. AtArc(label, d, list, k + 1)
    <3>1. /\ next = invalid_arc => k + 1 = Len(list)
          /\ next # invalid_arc => k + 1 < Len(list) /\ list[k + 1 + 1] = next
          /\ Len(c.due) <= Len(list)
      BY <1>2 DEF LoopAt
    <3>2. /\ (label = "end" <=> next = invalid_arc) /\ d.arc = next /\ d.due = c.due
          /\ next # invalid_arc => d.m_not_all_touched
      BY <2>1, <2>3
    <3> QED
      BY <3>1, <3>2 DEF AtArc
  <2>8. c.op = "QueingArcIt_"
    BY <1>1, <1>2 DEF LoopAt
  <2>9. Visiting(label, d, list)
    BY <1>2, <2>3, <2>6, <2>7, <2>8 DEF LoopAt, Visiting
  <2> QED
    BY <1>4, <2>3, <2>4, <2>9 DEF VisitOK
<1> QED
  BY <1>5, <1>6

\* Every thread whose step it is not is where it was.
LEMMA StepMovesOne ==
    ASSUME LInv, NEW p \in Threads,
           AddArc(p) \/ AddNode(p) \/ StartLoop(p) \/ AddStep(p) \/ LoopStep(p)
    PROVE  OnlyMoves(p)
<1>1. DOMAIN call = Threads /\ DOMAIN pc = Threads
  BY DEF LInv, LTypeOK
<1>2. /\ \E label : pc' = [pc EXCEPT ![p] = label]
      /\ \E c : call' = [call EXCEPT ![p] = c] \/ call' = call
  <2>1. CASE AddArc(p) \/ AddNode(p) \/ StartLoop(p)
    BY <2>1 DEF AddArc, AddNode, StartLoop
  <2>2. CASE AddStep(p)
    BY <2>2 DEF AddStep, LockTarget, LockTailIn, AppendIn, EmplaceNode, SetSourceTarget,
       LockSource, AppendFirst, LockTailOut, AppendOut, Goto, Return
  <2>3. CASE LockArc(p) \/ EndLoop(p) \/ BreakLoop(p)
    BY <2>3 DEF LockArc, EndLoop, BreakLoop, Goto, Return
  <2>4. CASE Step(p)
    BY <2>4, <1>1 DEF Step
  <2>5. CASE TryLock(p)
    BY <2>5, <1>1 DEF TryLock, Goto
  <2> QED
    BY <2>1, <2>2, <2>3, <2>4, <2>5 DEF LoopStep
<1> QED
  BY <1>1, <1>2 DEF OnlyMoves

\* What the thread p itself knows of its loop after its step.
LEMMA OwnVisits ==
    ASSUME LInv, LInv', NEW p \in Threads, VisitOK(p),
           AddArc(p) \/ AddNode(p) \/ StartLoop(p) \/ AddStep(p) \/ LoopStep(p)
    PROVE  VisitOK(p)'
<1>1. DOMAIN call = Threads /\ DOMAIN pc = Threads
  BY DEF LInv, LTypeOK
<1>2. CASE AddArc(p) \/ AddNode(p) \/ AddStep(p) \/ EndLoop(p) \/ BreakLoop(p)
  <2>1. pc'[p] \notin LoopLabels
    <3>1. CASE AddArc(p) \/ AddNode(p) \/ EndLoop(p) \/ BreakLoop(p)
      BY <3>1, <1>1 DEF AddArc, AddNode, EndLoop, BreakLoop, Return, LoopLabels
    <3>2. CASE LockTarget(p) \/ LockTailIn(p) \/ AppendIn(p) \/ EmplaceNode(p)
      BY <3>2, <1>1 DEF LockTarget, LockTailIn, AppendIn, EmplaceNode, Goto, LoopLabels
    <3>3. CASE SetSourceTarget(p) \/ LockSource(p) \/ LockTailOut(p)
      BY <3>3, <1>1 DEF SetSourceTarget, LockSource, LockTailOut, Goto, LoopLabels
    <3>4. CASE AppendFirst(p) \/ AppendOut(p)
      BY <3>4, <1>1 DEF AppendFirst, AppendOut, Return, LoopLabels
    <3> QED
      BY <3>1, <3>2, <3>3, <3>4, <1>2 DEF AddStep
  <2> QED
    BY <2>1 DEF VisitOK
<1>3. CASE StartLoop(p)
  BY <1>3, StartVisits
<1>4. CASE LockArc(p)
  <2>1. /\ pc[p] = "lock" /\ pc'[p] = "body" /\ call'[p] = call[p]
        /\ m_arcs' = m_arcs /\ m_nodes' = m_nodes
    BY <1>1, <1>4 DEF LockArc, Goto
  <2>2. Visiting("lock", call[p], List(call[p].it, call[p].n))
    BY <2>1 DEF VisitOK, LoopLabels
  <2>3. Visiting("body", call[p], List(call[p].it, call[p].n))
    BY <2>2 DEF Visiting, AtArc
  <2>4. List(call[p].it, call[p].n)' = List(call[p].it, call[p].n)
    BY <2>1 DEF List, In, Out
  <2> QED
    BY <2>1, <2>3, <2>4 DEF VisitOK
<1>5. CASE Step(p)
  BY <1>5, StepVisits
<1>6. CASE TryLock(p)
  BY <1>6, TryVisits
<1> QED
  BY <1>2, <1>3, <1>4, <1>5, <1>6 DEF LoopStep

\* A thread that stands still in its loop has still met as much of its list.
LEMMA OtherVisits ==
    ASSUME LInv, LInv', WrittenOnce, NEW q \in Threads, VisitOK(q),
           pc'[q] = pc[q], call'[q] = call[q]
    PROVE  VisitOK(q)'
<1> SUFFICES ASSUME pc[q] \in LoopLabels PROVE VisitOK(q)'
  BY DEF VisitOK
<1>1. PICK c : c = call[q]
  OBVIOUS
<1>2. c.it \in ItTypes /\ c.n \in NodeIds
  <2>1. Iterator(c)
    BY <1>1 DEF LInv, LoopOK, Iterator
  <2> QED
    BY <2>1 DEF Iterator
<1>3. Visiting(pc[q], c, List(c.it, c.n))
  BY <1>1 DEF VisitOK
<1>4. /\ List(c.it, c.n) \in Seq(ArcIds) /\ List(c.it, c.n)' \in Seq(ArcIds')
      /\ Continues(List(c.it, c.n)', List(c.it, c.n))
  BY <1>2, ListsContinue
<1>5. Visiting(pc[q], c, List(c.it, c.n)')
  BY <1>3, <1>4, VisitingKeeps
<1> QED
  BY <1>1, <1>5 DEF VisitOK

\* At every step each loop has met the beginning of its list, whoever adds arcs to
\* it meanwhile: the arcs given to the body and those left out are the first ones,
\* each once and in order, and a loop ends only behind all arcs that it found there.
THEOREM VInvHolds == Spec => []VInv
<1>1. Init => VInv
  BY DEF Init, VInv, VisitOK, LoopLabels
<1>2. LInv /\ LInv' /\ VInv /\ [Next]_vars => VInv'
  <2> SUFFICES ASSUME LInv, LInv', VInv, [Next]_vars, NEW q \in Threads
               PROVE  VisitOK(q)'
    BY DEF VInv
  <2>1. WrittenOnce /\ VisitOK(q)
    BY StepWritesOnce DEF VInv
  <2>2. CASE UNCHANGED vars
    BY <2>1, <2>2, OtherVisits DEF vars
  <2>3. CASE Next
    <3>1. PICK p \in Threads :
            AddArc(p) \/ AddNode(p) \/ StartLoop(p) \/ AddStep(p) \/ LoopStep(p)
      BY <2>3 DEF Next
    <3>2. CASE q = p
      BY <3>1, <3>2, <2>1, OwnVisits
    <3>3. CASE q # p
      <4>1. pc'[q] = pc[q] /\ call'[q] = call[q]
        BY <3>1, <3>3, StepMovesOne DEF OnlyMoves
      <4> QED
        BY <4>1, <2>1, OtherVisits
    <3> QED
      BY <3>2, <3>3
  <2> QED
    BY <2>2, <2>3
<1> QED
  BY <1>1, <1>2, LInvHolds, PTL DEF Spec

\* A loop over the arcs of a node that runs to its end has been given all arcs that
\* were there when it started, in their order and none twice, but for those that a
\* queueing iterator found busy, although it reads heads and links without a lock.
THEOREM LoopsExactHolds == Spec => []LoopsExact
<1>1. VInv => LoopsExact
  <2> SUFFICES ASSUME VInv, NEW p \in Threads, pc[p] = "end"
      PROVE  LET c == call[p]
                 list    == IF c.it = "in" THEN In(c.n) ELSE Out(c.n)
                 skipped == ElementsOf(c.m_queue) \ {invalid_arc}
             IN  /\ c.op # "QueingArcIt_" => skipped = {}
                 /\ ElementsOf(c.due) \subseteq ElementsOf(c.seen) \cup skipped
                 /\ ElementsOf(c.seen) \cap skipped = {}
                 /\ InOrder(c.seen, list)
                 /\ \E k \in 0 .. Len(list) :
                       {list[i] : i \in 1 .. k} = ElementsOf(c.seen) \cup skipped
    BY DEF LoopsExact
  <2>1. PICK c, list, skipped :
          /\ c = call[p] /\ list = (IF c.it = "in" THEN In(c.n) ELSE Out(c.n))
          /\ skipped = ElementsOf(c.m_queue) \ {invalid_arc}
    OBVIOUS
  <2>2. Visiting("end", c, list) /\ skipped = Skipped(c)
    BY <2>1 DEF VInv, VisitOK, LoopLabels, List, Skipped
  <2>3. PICK k \in 0 .. Len(list) :
          Met(c.seen, skipped, c.due, list, k) /\ AtArc("end", c, list, k)
    BY <2>2 DEF Visiting
  <2>4. ElementsOf(c.due) \subseteq {list[i] : i \in 1 .. k}
    <3>1. Len(c.due) \in Nat /\ DOMAIN c.due = 1 .. Len(c.due)
      BY <2>2, LenProperties DEF Visiting
    <3>2. k \in Nat \/ k \in Int
      BY <2>3
    <3> QED
      BY <3>1, <3>2, <2>3 DEF Met, Continues, AtArc, ElementsOf
  <2>5. /\ c.op # "QueingArcIt_" => skipped = {}
        /\ ElementsOf(c.due) \subseteq ElementsOf(c.seen) \cup skipped
        /\ ElementsOf(c.seen) \cap skipped = {}
        /\ InOrder(c.seen, list)
        /\ {list[i] : i \in 1 .. k} = ElementsOf(c.seen) \cup skipped
    BY <2>2, <2>3, <2>4 DEF Met, Visiting
  <2> QED
    BY <2>1, <2>3, <2>5
<1> QED
  BY <1>1, VInvHolds, PTL

\* The lists only grow at their end, in every step of every thread: what makes it
\* safe for a loop to follow them while others append.
THEOREM ListsOnlyGrowHolds == Spec => ListsOnlyGrow
<1>1. LInv /\ LInv' /\ [Next]_vars =>
        [\A n \in NodeIds : Continues(In(n)', In(n)) /\ Continues(Out(n)', Out(n))]_vars
  <2> SUFFICES ASSUME LInv, LInv', [Next]_vars, NEW n \in NodeIds
               PROVE  Continues(In(n)', In(n)) /\ Continues(Out(n)', Out(n))
    OBVIOUS
  <2>1. \A it \in ItTypes : Continues(List(it, n)', List(it, n))
    BY StepWritesOnce, ListsContinue
  <2>2. Continues(List("in", n)', List("in", n)) /\ Continues(List("out", n)', List("out", n))
    BY <2>1 DEF ItTypes
  <2> QED
    BY <2>2 DEF List
<1> QED
  BY <1>1, LInvHolds, PTL DEF Spec, ListsOnlyGrow
=============================================================================
