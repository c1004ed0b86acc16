------------------------ MODULE RootedDigraphProofs ------------------------
(***************************************************************************)
(* Proof that the linked lists of rt::Tree are exact at every step, for    *)
(* trees of every size: no operation loses an arc, lists it twice or lists *)
(* it under another node; and that sliceDF() and sliceBF() copy exactly    *)
(* what is below the node they are given.                                  *)
(*                                                                         *)
(* The invariant describes each list as a chain (ArcListProofs) of known   *)
(* members with a correct tail.  An operation appends one arc to at most   *)
(* one list in and one list out; since an arc is a member of the lists of  *)
(* its own ends only, the write to the old tail's next_in or next_out      *)
(* disturbs no other list.                                                 *)
(*                                                                         *)
(* For a slice the invariant SInv says how far it has got: each copied     *)
(* node has copied a beginning of its list of arcs, nothing while it is in *)
(* the stack or queue, up to arc a for parent, all of it for the others.   *)
(***************************************************************************)
EXTENDS RootedDigraph, ArcListProofs

-----------------------------------------------------------------------------
(* The invariant.                                                          *)

ArcIds(tr) == DOMAIN tr.m_arcs

\* The fields of arcs and nodes are ids that exist, or none.
TreeType(tr) ==
    LET ids == ArcIds(tr) \cup {invalid_arc}
        ns  == DOMAIN tr.m_nodes \cup {invalid_node}
    IN  /\ tr \in [m_arcs : Seq([source : ns, target : ns,
                                 next_in : ids, next_out : ids]),
                   m_nodes : Seq([head_in : ids, tail_in : ids,
                                  head_out : ids, tail_out : ids])]
        /\ Len(tr.m_arcs) >= 1 /\ Len(tr.m_nodes) >= 1
        /\ \A x \in ArcIds(tr) : tr.m_arcs[x].target # invalid_node

NextIn(tr)  == [x \in ArcIds(tr) |-> tr.m_arcs[x].next_in]
NextOut(tr) == [x \in ArcIds(tr) |-> tr.m_arcs[x].next_out]

\* A list with the members that it has to have, in the order of their ids.
OneList(L, head, tail, next, members) ==
    /\ Chain(L, head, next)
    /\ \A j, k \in 1 .. Len(L) : j < k => L[j] < L[k]
    /\ ElementsOf(L) = members
    /\ tail = LastOf(L)

Targeting(tr, n) == {x \in ArcIds(tr) \ {root_arc} : tr.m_arcs[x].target = n}
                    \cup (IF n = 1 THEN {root_arc} ELSE {})
Leaving(tr, n)   == {x \in ArcIds(tr) \ {root_arc} : tr.m_arcs[x].source = n}

\* in and out are the lists of all nodes; no list in is empty.
WellListed(tr, in, out) ==
    \A n \in DOMAIN tr.m_nodes :
        LET node == tr.m_nodes[n]
        IN  /\ OneList(in[n], node.head_in, node.tail_in, NextIn(tr), Targeting(tr, n))
            /\ OneList(out[n], node.head_out, node.tail_out, NextOut(tr), Leaving(tr, n))
            /\ Len(in[n]) # 0

Ins(tr)  == [n \in DOMAIN tr.m_nodes |-> InArcs(tr.m_arcs, tr.m_nodes, n)]
Outs(tr) == [n \in DOMAIN tr.m_nodes |-> OutArcs(tr.m_arcs, tr.m_nodes, n)]

GoodTree(tr) == TreeType(tr) /\ WellListed(tr, Ins(tr), Outs(tr))

\* What a slice in progress relies on.
SliceOK ==
    /\ pc \in {"client", "slice", "sliced"}
    /\ root_node \in NodeIds
    /\ pc # "client" => root_node = 1
    /\ pc = "slice" =>
          /\ visited \in [NodeIds -> DOMAIN new_srd.m_nodes \cup {invalid_node}]
          /\ work \in Seq(NodeIds)
          /\ \A k \in 1 .. Len(work) : visited[work[k]] # invalid_node
          /\ a \in ArcIds(tree) \cup {invalid_arc}
          /\ a # invalid_arc => parent \in NodeIds /\ visited[parent] # invalid_node

DInv == GoodTree(tree) /\ GoodTree(new_srd) /\ SliceOK

-----------------------------------------------------------------------------
(* Lists.                                                                  *)

\* The fields of TreeType one by one.
LEMMA TypeFacts ==
    ASSUME NEW tr, TreeType(tr)
    PROVE  LET ids == ArcIds(tr) \cup {invalid_arc}
               ns  == DOMAIN tr.m_nodes \cup {invalid_node}
           IN  /\ tr = [m_arcs |-> tr.m_arcs, m_nodes |-> tr.m_nodes]
               /\ Len(tr.m_arcs) \in Nat \ {0} /\ Len(tr.m_nodes) \in Nat \ {0}
               /\ ArcIds(tr) = 1 .. Len(tr.m_arcs)
               /\ DOMAIN tr.m_nodes = 1 .. Len(tr.m_nodes)
               /\ \A x \in ArcIds(tr) :
                     /\ tr.m_arcs[x] \in [source : ns, target : ns,
                                          next_in : ids, next_out : ids]
                     /\ tr.m_arcs[x].target \in DOMAIN tr.m_nodes
               /\ \A n \in DOMAIN tr.m_nodes :
                     tr.m_nodes[n] \in [head_in : ids, tail_in : ids,
                                        head_out : ids, tail_out : ids]
               /\ NextIn(tr) \in [1 .. Len(tr.m_arcs) -> Nat]
               /\ NextOut(tr) \in [1 .. Len(tr.m_arcs) -> Nat]
<1> DEFINE ids == ArcIds(tr) \cup {invalid_arc}
           ns  == DOMAIN tr.m_nodes \cup {invalid_node}
           Arc == [source : ns, target : ns, next_in : ids, next_out : ids]
           Node == [head_in : ids, tail_in : ids, head_out : ids, tail_out : ids]
<1>1. /\ tr = [m_arcs |-> tr.m_arcs, m_nodes |-> tr.m_nodes]
      /\ tr.m_arcs \in Seq(Arc) /\ tr.m_nodes \in Seq(Node)
      /\ Len(tr.m_arcs) >= 1 /\ Len(tr.m_nodes) >= 1
      /\ \A x \in ArcIds(tr) : tr.m_arcs[x].target # invalid_node
  BY DEF TreeType
<1>2. /\ Len(tr.m_arcs) \in Nat /\ DOMAIN tr.m_arcs = 1 .. Len(tr.m_arcs)
      /\ tr.m_arcs \in [1 .. Len(tr.m_arcs) -> Arc]
      /\ Len(tr.m_nodes) \in Nat /\ DOMAIN tr.m_nodes = 1 .. Len(tr.m_nodes)
      /\ tr.m_nodes \in [1 .. Len(tr.m_nodes) -> Node]
  <2> HIDE DEF Arc, Node
  <2> QED
    BY <1>1, LenProperties
<1>3. Len(tr.m_arcs) \in Nat \ {0} /\ Len(tr.m_nodes) \in Nat \ {0}
  BY <1>1, <1>2
<1>4. ArcIds(tr) = 1 .. Len(tr.m_arcs)
  BY <1>2 DEF ArcIds
<1>5. /\ \A x \in ArcIds(tr) : tr.m_arcs[x] \in Arc
      /\ \A n \in DOMAIN tr.m_nodes : tr.m_nodes[n] \in Node
  BY <1>2, <1>4
<1>6. \A x \in ArcIds(tr) : /\ tr.m_arcs[x].target \in DOMAIN tr.m_nodes
                            /\ tr.m_arcs[x].next_in \in ids
                            /\ tr.m_arcs[x].next_out \in ids
  BY <1>1, <1>5
<1>7. ids \subseteq Nat
  BY <1>2, <1>4 DEF invalid_arc
<1>8. NextIn(tr) \in [1 .. Len(tr.m_arcs) -> Nat] /\ NextOut(tr) \in [1 .. Len(tr.m_arcs) -> Nat]
  BY <1>4, <1>6, <1>7 DEF NextIn, NextOut
<1> QED
  BY <1>1, <1>2, <1>3, <1>4, <1>5, <1>6, <1>8

\* The lists that a well listed tree has are the ones its loops meet.
LEMMA ListsAreLoops ==
    ASSUME NEW tr, TreeType(tr), NEW in, NEW out, WellListed(tr, in, out)
    PROVE  /\ \A n \in DOMAIN tr.m_nodes :
                  /\ in[n] = InArcs(tr.m_arcs, tr.m_nodes, n)
                  /\ out[n] = OutArcs(tr.m_arcs, tr.m_nodes, n)
           /\ WellListed(tr, Ins(tr), Outs(tr))
<1>1. ASSUME NEW n \in DOMAIN tr.m_nodes
      PROVE  /\ in[n] = InArcs(tr.m_arcs, tr.m_nodes, n)
             /\ out[n] = OutArcs(tr.m_arcs, tr.m_nodes, n)
  <2>1. /\ Chain(in[n], tr.m_nodes[n].head_in, NextIn(tr))
        /\ Chain(out[n], tr.m_nodes[n].head_out, NextOut(tr))
    BY DEF WellListed, OneList
  <2>2. /\ Len(tr.m_arcs) \in Nat
        /\ NextIn(tr) \in [1 .. Len(tr.m_arcs) -> Int]
        /\ NextOut(tr) \in [1 .. Len(tr.m_arcs) -> Int]
    BY TypeFacts
  <2>3. /\ ListFrom(tr.m_nodes[n].head_in, NextIn(tr)) = in[n]
        /\ ListFrom(tr.m_nodes[n].head_out, NextOut(tr)) = out[n]
    BY <2>1, <2>2, ListFromChain
  <2> QED
    BY <2>3 DEF InArcs, OutArcs, NextIn, NextOut, ArcIds
<1>2. \A n \in DOMAIN tr.m_nodes : Ins(tr)[n] = in[n] /\ Outs(tr)[n] = out[n]
  BY <1>1 DEF Ins, Outs
<1> QED
  BY <1>1, <1>2 DEF WellListed

\* So the invariant says that the lists are exact.
LEMMA GoodIsListed ==
    ASSUME NEW tr, GoodTree(tr)
    PROVE  Listed(tr)
<1> SUFFICES ASSUME NEW n \in DOMAIN tr.m_nodes
    PROVE  LET inc(list) == \A j, k \in DOMAIN list : j < k => list[j] < list[k]
               arcs == DOMAIN tr.m_arcs \ {root_arc}
               in  == InArcs(tr.m_arcs, tr.m_nodes, n)
               out == OutArcs(tr.m_arcs, tr.m_nodes, n)
           IN  /\ inc(in) /\ inc(out)
               /\ ElementsOf(out) = {x \in arcs : tr.m_arcs[x].source = n}
               /\ ElementsOf(in) = {x \in arcs : tr.m_arcs[x].target = n}
                                   \cup (IF n = 1 THEN {root_arc} ELSE {})
               /\ tr.m_nodes[n].tail_in = LastOf(in)
               /\ tr.m_nodes[n].tail_out = LastOf(out)
  BY DEF Listed
<1> DEFINE in  == InArcs(tr.m_arcs, tr.m_nodes, n)
           out == OutArcs(tr.m_arcs, tr.m_nodes, n)
<1>1. /\ OneList(in, tr.m_nodes[n].head_in, tr.m_nodes[n].tail_in, NextIn(tr), Targeting(tr, n))
      /\ OneList(out, tr.m_nodes[n].head_out, tr.m_nodes[n].tail_out, NextOut(tr), Leaving(tr, n))
  BY DEF GoodTree, WellListed, Ins, Outs
<1> HIDE DEF in, out
<1>2. DOMAIN in = 1 .. Len(in) /\ DOMAIN out = 1 .. Len(out)
  BY <1>1, LenProperties DEF OneList, Chain
<1> QED
  BY <1>1, <1>2 DEF OneList, Targeting, Leaving, ArcIds, in, out

\* A list whose members keep their next is the same list.
LEMMA OneListFrame ==
    ASSUME NEW L, NEW head, NEW tail, NEW next, NEW next2, NEW members,
           OneList(L, head, tail, next, members),
           DOMAIN next \subseteq DOMAIN next2,
           \A x \in members : next2[x] = next[x]
    PROVE  OneList(L, head, tail, next2, members)
<1>1. Chain(L, head, next2)
  BY ChainFrame DEF OneList
<1> QED
  BY <1>1 DEF OneList

\* Arc N + 1 is the newest one and linked behind the tail of a list.
LinkedNewest(head, tail, next, next2, members, N) ==
    /\ N \in Nat /\ DOMAIN next = 1 .. N /\ DOMAIN next2 = 1 .. N + 1
    /\ next2[N + 1] = invalid_arc
    /\ head # invalid_arc => next2[tail] = N + 1
    /\ \A x \in members : x # tail => next2[x] = next[x]

\* It is appended to the list.
LEMMA OneListLink ==
    ASSUME NEW L, NEW head, NEW tail, NEW next, NEW next2, NEW members, NEW N,
           OneList(L, head, tail, next, members),
           LinkedNewest(head, tail, next, next2, members, N)
    PROVE  /\ OneList(Append(L, N + 1), IF head = invalid_arc THEN N + 1 ELSE head, N + 1,
                      next2, members \cup {N + 1})
           /\ Len(Append(L, N + 1)) # 0
           /\ head = invalid_arc <=> Len(L) = 0
<1> USE DEF LinkedNewest
<1> DEFINE x == N + 1
           M == Append(L, x)
<1>1. /\ L \in Seq(1 .. N) /\ Len(L) \in Nat /\ DOMAIN L = 1 .. Len(L)
      /\ \A k \in 1 .. Len(L) : L[k] \in 1 .. N
  <2>1. L \in Seq(1 .. N)
    BY DEF OneList, Chain
  <2> QED
    BY <2>1, LenProperties, ElementOfSeq
<1>2. head = invalid_arc <=> Len(L) = 0
  BY <1>1 DEF OneList, Chain, invalid_arc
<1>3. x \notin ElementsOf(L) /\ x \in DOMAIN next2 /\ DOMAIN next \subseteq DOMAIN next2
  BY <1>1 DEF ElementsOf
<1>4. Len(L) # 0 => tail = L[Len(L)]
  BY <1>1 DEF OneList, LastOf
<1>5. /\ Chain(M, IF Len(L) = 0 THEN x ELSE head, next2)
      /\ ElementsOf(M) = ElementsOf(L) \cup {x}
      /\ LastOf(M) = x
  <2>1. Chain(L, head, next) /\ LastOf(L) = tail /\ ElementsOf(L) = members
    BY DEF OneList
  <2>2. /\ next2[x] = invalid_arc
        /\ Len(L) # 0 => next2[L[Len(L)]] = x
        /\ \A y \in ElementsOf(L) : y # LastOf(L) => next2[y] = next[y]
    BY <1>2, <1>4, <2>1
  <2>3. Linked(L, next, next2, x)
    BY <1>3, <2>2 DEF Linked
  <2> HIDE DEF x
  <2> QED
    BY <2>1, <2>3, ChainLink
<1>6. /\ Len(M) = Len(L) + 1
      /\ \A k \in 1 .. Len(L) : M[k] = L[k]
      /\ M[Len(L) + 1] = x
  BY <1>1, AppendProperties
<1>7. \A j, k \in 1 .. Len(M) : j < k => M[j] < M[k]
  <2> HIDE DEF M
  <2> SUFFICES ASSUME NEW j \in 1 .. Len(M), NEW k \in 1 .. Len(M), j < k
               PROVE  M[j] < M[k]
    OBVIOUS
  <2>0. Len(L) \in Nat /\ Len(M) = Len(L) + 1
    BY <1>1, <1>6
  <2>1. j \in 1 .. Len(L) /\ (k \in 1 .. Len(L) \/ k = Len(L) + 1)
    BY <2>0
  <2>2. CASE k \in 1 .. Len(L)
    BY <2>1, <2>2, <1>6 DEF OneList
  <2>3. CASE k = Len(L) + 1
    <3>1. M[j] \in 1 .. N /\ M[k] = x
      BY <2>1, <2>3, <1>1, <1>6
    <3> QED
      BY <3>1
  <2> QED
    BY <2>1, <2>2, <2>3
<1> HIDE DEF M, x
<1>8. Len(M) # 0
  BY <1>1, <1>6
<1> QED
  BY <1>2, <1>5, <1>7, <1>8 DEF OneList, M, x

-----------------------------------------------------------------------------
(* Adding.                                                                 *)

\* r is tr with arc put at the end of the list out of s, field by field.
OutAppended(tr, r, s, arc) ==
    LET empty == tr.m_nodes[s].head_out = invalid_arc
    IN  /\ TreeType(r) /\ ArcIds(r) = ArcIds(tr)
        /\ DOMAIN r.m_nodes = DOMAIN tr.m_nodes
        /\ Len(r.m_arcs) = Len(tr.m_arcs) /\ Len(r.m_nodes) = Len(tr.m_nodes)
        /\ \A x \in ArcIds(tr) :
              /\ r.m_arcs[x].source = tr.m_arcs[x].source
              /\ r.m_arcs[x].target = tr.m_arcs[x].target
              /\ r.m_arcs[x].next_in = tr.m_arcs[x].next_in
              /\ r.m_arcs[x].next_out = IF ~empty /\ x = tr.m_nodes[s].tail_out
                                        THEN arc ELSE tr.m_arcs[x].next_out
        /\ \A n \in DOMAIN tr.m_nodes :
              /\ r.m_nodes[n].head_in = tr.m_nodes[n].head_in
              /\ r.m_nodes[n].tail_in = tr.m_nodes[n].tail_in
              /\ r.m_nodes[n].head_out = IF n = s /\ empty
                                         THEN arc ELSE tr.m_nodes[n].head_out
              /\ r.m_nodes[n].tail_out = IF n = s THEN arc ELSE tr.m_nodes[n].tail_out

\* AppendOut() does that.
LEMMA AppendOutFacts ==
    ASSUME NEW tr, TreeType(tr), NEW s \in DOMAIN tr.m_nodes, NEW arc \in ArcIds(tr),
           tr.m_nodes[s].head_out # invalid_arc => tr.m_nodes[s].tail_out \in ArcIds(tr)
    PROVE  OutAppended(tr, AppendOut(tr, s, arc), s, arc)
<1> DEFINE ids == ArcIds(tr) \cup {invalid_arc}
           ns  == DOMAIN tr.m_nodes \cup {invalid_node}
           Arc == [source : ns, target : ns, next_in : ids, next_out : ids]
           Node == [head_in : ids, tail_in : ids, head_out : ids, tail_out : ids]
           r == AppendOut(tr, s, arc)
           empty == tr.m_nodes[s].head_out = invalid_arc
           tail == tr.m_nodes[s].tail_out
           old == tr.m_nodes[s]
           node == [old EXCEPT !.head_out = IF empty THEN arc ELSE old.head_out, !.tail_out = arc]
           linked(x) == [tr.m_arcs[x] EXCEPT !.next_out = arc]
           arcs == IF empty THEN tr.m_arcs ELSE [tr.m_arcs EXCEPT ![tail] = linked(tail)]
           nodes == [tr.m_nodes EXCEPT ![s] = node]
           N == Len(tr.m_arcs)
           K == Len(tr.m_nodes)
<1>1. /\ tr = [m_arcs |-> tr.m_arcs, m_nodes |-> tr.m_nodes]
      /\ N \in Nat \ {0} /\ K \in Nat \ {0}
      /\ ArcIds(tr) = 1 .. N /\ DOMAIN tr.m_nodes = 1 .. K
      /\ \A x \in 1 .. N : tr.m_arcs[x] \in Arc /\ tr.m_arcs[x].target \in DOMAIN tr.m_nodes
      /\ \A n \in 1 .. K : tr.m_nodes[n] \in Node
  BY TypeFacts
<1>2. tr.m_arcs \in [1 .. N -> Arc] /\ tr.m_nodes \in [1 .. K -> Node]
  <2>1. tr.m_arcs \in Seq(Arc) /\ tr.m_nodes \in Seq(Node)
    BY DEF TreeType
  <2> HIDE DEF Arc, Node
  <2> QED
    BY <2>1, LenProperties
<1>3. r.m_arcs = arcs /\ r.m_nodes = nodes /\ r = [m_arcs |-> arcs, m_nodes |-> nodes]
  <2>1. tr.m_nodes[s] \in Node
    BY <1>1
  <2>2. CASE empty
    <3>1. r = [m_arcs |-> tr.m_arcs,
               m_nodes |-> [tr.m_nodes EXCEPT ![s] =
                              [old EXCEPT !.head_out = arc, !.tail_out = arc]]]
      BY <2>2, <1>1, <1>2 DEF AppendOut
    <3> QED
      BY <3>1, <2>1, <2>2
  <2>3. CASE ~empty
    <3>1. r = [m_arcs |-> [tr.m_arcs EXCEPT ![tail] = linked(tail)],
               m_nodes |-> [tr.m_nodes EXCEPT ![s] = [old EXCEPT !.tail_out = arc]]]
      BY <2>3, <1>1, <1>2 DEF AppendOut
    <3>2. [old EXCEPT !.tail_out = arc] = [old EXCEPT !.head_out = old.head_out, !.tail_out = arc]
      BY <2>1
    <3>3. arcs = [tr.m_arcs EXCEPT ![tail] = linked(tail)] /\ nodes =
            [tr.m_nodes EXCEPT ![s] = [old EXCEPT !.tail_out = arc]]
      BY <2>3, <3>2
    <3> HIDE DEF arcs, nodes, linked
    <3> QED
      BY <3>3, <3>1
  <2> QED
    BY <2>2, <2>3
<1> HIDE DEF r
<1>4. arcs \in [1 .. N -> Arc] /\ nodes \in [1 .. K -> Node]
  <2>1. ASSUME NEW x \in 1 .. N PROVE linked(x) \in Arc
    BY <1>1
  <2>2. node \in Node
    <3>1. old \in Node /\ arc \in ids
      BY <1>1
    <3>2. (IF empty THEN arc ELSE old.head_out) \in ids
      BY <3>1
    <3> HIDE DEF ids
    <3> QED
      BY <3>1, <3>2
  <2> HIDE DEF Arc, Node, node, linked
  <2> QED
    BY <1>1, <1>2, <2>1, <2>2
<1>5. /\ arcs \in Seq(Arc) /\ Len(arcs) = N
      /\ nodes \in Seq(Node) /\ Len(nodes) = K
  <2> HIDE DEF arcs, nodes, Arc, Node, N, K
  <2> QED
    BY <1>1, <1>4, FunctionIsSeq
<1>6. ArcIds(r) = 1 .. N /\ DOMAIN r.m_nodes = 1 .. K
  BY <1>3, <1>4 DEF ArcIds
<1>7. \A x \in 1 .. N :
          /\ arcs[x].source = tr.m_arcs[x].source
          /\ arcs[x].target = tr.m_arcs[x].target
          /\ arcs[x].next_in = tr.m_arcs[x].next_in
          /\ arcs[x].next_out = IF ~empty /\ x = tail THEN arc ELSE tr.m_arcs[x].next_out
  <2>1. \A x \in 1 .. N : arcs[x] = IF ~empty /\ x = tail THEN linked(x) ELSE tr.m_arcs[x]
    <3> HIDE DEF Arc, linked
    <3> QED
      BY <1>1, <1>2
  <2>2. \A x \in 1 .. N : /\ linked(x).source = tr.m_arcs[x].source
                          /\ linked(x).target = tr.m_arcs[x].target
                          /\ linked(x).next_in = tr.m_arcs[x].next_in
                          /\ linked(x).next_out = arc
    BY <1>1
  <2> HIDE DEF linked, arcs
  <2> QED
    BY <2>1, <2>2
<1>8. \A n \in 1 .. K :
          /\ nodes[n].head_in = tr.m_nodes[n].head_in
          /\ nodes[n].tail_in = tr.m_nodes[n].tail_in
          /\ nodes[n].head_out = IF n = s /\ empty THEN arc ELSE tr.m_nodes[n].head_out
          /\ nodes[n].tail_out = IF n = s THEN arc ELSE tr.m_nodes[n].tail_out
  <2>1. \A n \in 1 .. K : nodes[n] = IF n = s THEN node ELSE tr.m_nodes[n]
    <3> HIDE DEF Node, node
    <3> QED
      BY <1>1, <1>2
  <2>2. /\ node.head_in = old.head_in /\ node.tail_in = old.tail_in
        /\ node.head_out = IF empty THEN arc ELSE old.head_out
        /\ node.tail_out = arc
    BY <1>1
  <2> HIDE DEF node, nodes
  <2> QED
    BY <2>1, <2>2
<1>9. TreeType(r)
  <2>1. \A x \in 1 .. N : arcs[x].target # invalid_node
    BY <1>1, <1>7 DEF invalid_node
  <2>2. N >= 1 /\ K >= 1
    BY <1>1
  <2>3. ArcIds(r) = ArcIds(tr) /\ DOMAIN r.m_nodes = DOMAIN tr.m_nodes
    BY <1>1, <1>6
  <2>4. r \in [m_arcs : Seq(Arc), m_nodes : Seq(Node)]
    <3> HIDE DEF arcs, nodes, Arc, Node
    <3> QED
      BY <1>3, <1>5
  <2> HIDE DEF arcs, nodes
  <2> QED
    BY <2>1, <2>2, <2>3, <2>4, <1>1, <1>3, <1>5 DEF TreeType
<1> HIDE DEF arcs, nodes
<1> QED
  BY <1>1, <1>3, <1>5, <1>6, <1>7, <1>8, <1>9 DEF r, OutAppended

\* r is tr with one more arc, from s to t, linked behind the last arc out of s and
\* the last one into t; t may be new too.
Grown(tr, r, s, t) ==
    LET x == Len(tr.m_arcs) + 1
        empty == tr.m_nodes[s].head_out = invalid_arc
        old == DOMAIN tr.m_nodes
    IN  /\ TreeType(r)
        /\ ArcIds(r) = 1 .. x /\ s \in old /\ t \in DOMAIN r.m_nodes
        /\ old \subseteq DOMAIN r.m_nodes
        /\ r.m_arcs[x].source = s /\ r.m_arcs[x].target = t
        /\ r.m_arcs[x].next_in = invalid_arc /\ r.m_arcs[x].next_out = invalid_arc
        /\ \A y \in ArcIds(tr) :
              /\ r.m_arcs[y].source = tr.m_arcs[y].source
              /\ r.m_arcs[y].target = tr.m_arcs[y].target
              /\ r.m_arcs[y].next_in = IF t \in old /\ y = tr.m_nodes[t].tail_in
                                       THEN x ELSE tr.m_arcs[y].next_in
              /\ r.m_arcs[y].next_out = IF ~empty /\ y = tr.m_nodes[s].tail_out
                                        THEN x ELSE tr.m_arcs[y].next_out
        /\ \A n \in old :
              /\ r.m_nodes[n].head_in = tr.m_nodes[n].head_in
              /\ r.m_nodes[n].tail_in = IF n = t THEN x ELSE tr.m_nodes[n].tail_in
              /\ r.m_nodes[n].head_out = IF n = s /\ empty THEN x ELSE tr.m_nodes[n].head_out
              /\ r.m_nodes[n].tail_out = IF n = s THEN x ELSE tr.m_nodes[n].tail_out
        /\ \A n \in DOMAIN r.m_nodes \ old :
              /\ n = t /\ n # 1
              /\ r.m_nodes[n].head_in = x /\ r.m_nodes[n].tail_in = x
              /\ r.m_nodes[n].head_out = invalid_arc /\ r.m_nodes[n].tail_out = invalid_arc

\* The chain of a list with one arc, and of the empty list.
LEMMA SmallLists ==
    ASSUME NEW next, NEW x \in DOMAIN next, next[x] = invalid_arc
    PROVE  /\ OneList(<< x >>, x, x, next, {x})
           /\ OneList(<< >>, invalid_arc, invalid_arc, next, {})
  BY DEF OneList, Chain, ElementsOf, LastOf

\* The two ends of a list, and its members.
LEMMA ListEnds ==
    ASSUME NEW tr, GoodTree(tr), NEW n \in DOMAIN tr.m_nodes
    PROVE  /\ tr.m_nodes[n].tail_in \in Targeting(tr, n)
           /\ tr.m_nodes[n].head_out # invalid_arc => tr.m_nodes[n].tail_out \in Leaving(tr, n)
           /\ Targeting(tr, n) \subseteq ArcIds(tr) /\ Leaving(tr, n) \subseteq ArcIds(tr)
<1> DEFINE in == Ins(tr)[n]
           out == Outs(tr)[n]
<1>1. /\ OneList(in, tr.m_nodes[n].head_in, tr.m_nodes[n].tail_in, NextIn(tr), Targeting(tr, n))
      /\ OneList(out, tr.m_nodes[n].head_out, tr.m_nodes[n].tail_out, NextOut(tr), Leaving(tr, n))
      /\ Len(in) # 0
  BY DEF GoodTree, WellListed
<1> HIDE DEF in, out
<1>2. /\ Len(in) \in Nat /\ DOMAIN in = 1 .. Len(in)
      /\ Len(out) \in Nat /\ DOMAIN out = 1 .. Len(out)
  BY <1>1, LenProperties DEF OneList, Chain
<1>3. LastOf(in) \in ElementsOf(in)
  <2>1. Len(in) \in DOMAIN in /\ in # << >>
    BY <1>1, <1>2
  <2> QED
    BY <2>1 DEF LastOf, ElementsOf
<1>4. Len(out) # 0 => LastOf(out) \in ElementsOf(out)
  <2> SUFFICES ASSUME Len(out) # 0 PROVE LastOf(out) \in ElementsOf(out)
    OBVIOUS
  <2>1. Len(out) \in DOMAIN out /\ out # << >>
    BY <1>2
  <2> QED
    BY <2>1 DEF LastOf, ElementsOf
<1>5. tr.m_nodes[n].head_out # invalid_arc => Len(out) # 0
  BY <1>1 DEF OneList, Chain
<1>6. root_arc \in ArcIds(tr)
  BY TypeFacts DEF GoodTree, root_arc
<1> QED
  BY <1>1, <1>3, <1>4, <1>5, <1>6 DEF OneList, Targeting, Leaving

\* What has become of the lists out: the one of s has one arc more, to t.
OutGrown(tr, r, s, t) ==
    LET x == Len(tr.m_arcs) + 1
        old == DOMAIN tr.m_nodes
    IN  /\ ArcIds(r) = 1 .. x
        /\ r.m_arcs[x].target = t
        /\ \A y \in ArcIds(tr) : /\ r.m_arcs[y].target = tr.m_arcs[y].target
                                 /\ r.m_arcs[y].source = tr.m_arcs[y].source
        /\ \A n \in old : Outs(r)[n] = IF n = s THEN Append(Outs(tr)[n], x) ELSE Outs(tr)[n]
        /\ \A n \in DOMAIN r.m_nodes \ old : Outs(r)[n] = << >>

\* The lists of a tree that has grown.
LEMMA GrownIsGood ==
    ASSUME NEW tr, NEW r, NEW s, NEW t, GoodTree(tr), Grown(tr, r, s, t)
    PROVE  GoodTree(r) /\ OutGrown(tr, r, s, t)
<1> DEFINE N == Len(tr.m_arcs)
           x == N + 1
           empty == tr.m_nodes[s].head_out = invalid_arc
           old == DOMAIN tr.m_nodes
           in == [n \in DOMAIN r.m_nodes |->
                     IF n \notin old THEN << x >>
                     ELSE IF n = t THEN Append(Ins(tr)[n], x) ELSE Ins(tr)[n]]
           out == [n \in DOMAIN r.m_nodes |->
                     IF n \notin old THEN << >>
                     ELSE IF n = s THEN Append(Outs(tr)[n], x) ELSE Outs(tr)[n]]
<1>1. /\ N \in Nat \ {0} /\ ArcIds(tr) = 1 .. N
      /\ DOMAIN NextIn(tr) = 1 .. N /\ DOMAIN NextOut(tr) = 1 .. N
      /\ 1 \in old
      /\ old \subseteq Nat
  BY TypeFacts DEF GoodTree
<1>2. /\ TreeType(r)
      /\ ArcIds(r) = 1 .. x /\ s \in old /\ t \in DOMAIN r.m_nodes
      /\ old \subseteq DOMAIN r.m_nodes
      /\ r.m_arcs[x].source = s /\ r.m_arcs[x].target = t
      /\ r.m_arcs[x].next_in = invalid_arc /\ r.m_arcs[x].next_out = invalid_arc
  BY DEF Grown
<1>3. \A y \in 1 .. N :
          /\ r.m_arcs[y].source = tr.m_arcs[y].source
          /\ r.m_arcs[y].target = tr.m_arcs[y].target
          /\ r.m_arcs[y].next_in = IF t \in old /\ y = tr.m_nodes[t].tail_in
                                   THEN x ELSE tr.m_arcs[y].next_in
          /\ r.m_arcs[y].next_out = IF ~empty /\ y = tr.m_nodes[s].tail_out
                                    THEN x ELSE tr.m_arcs[y].next_out
  BY <1>1 DEF Grown
<1>4. \A n \in old :
          /\ r.m_nodes[n].head_in = tr.m_nodes[n].head_in
          /\ r.m_nodes[n].tail_in = IF n = t THEN x ELSE tr.m_nodes[n].tail_in
          /\ r.m_nodes[n].head_out = IF n = s /\ empty THEN x ELSE tr.m_nodes[n].head_out
          /\ r.m_nodes[n].tail_out = IF n = s THEN x ELSE tr.m_nodes[n].tail_out
  BY DEF Grown
<1>5. \A n \in DOMAIN r.m_nodes \ old :
          /\ n = t /\ n # 1
          /\ r.m_nodes[n].head_in = x /\ r.m_nodes[n].tail_in = x
          /\ r.m_nodes[n].head_out = invalid_arc /\ r.m_nodes[n].tail_out = invalid_arc
  BY DEF Grown
<1> HIDE DEF N, empty, old, in, out
<1>6. x \notin 1 .. N /\ 1 .. x = (1 .. N) \cup {x} /\ x # root_arc /\ x \in Nat
  BY <1>1, <1>2 DEF root_arc
<1>7. /\ DOMAIN NextIn(r) = 1 .. N + 1 /\ DOMAIN NextOut(r) = 1 .. N + 1
      /\ NextIn(r)[x] = invalid_arc /\ NextOut(r)[x] = invalid_arc
      /\ \A y \in 1 .. N : /\ NextIn(tr)[y] = tr.m_arcs[y].next_in
                           /\ NextIn(r)[y] = r.m_arcs[y].next_in
                           /\ NextOut(tr)[y] = tr.m_arcs[y].next_out
                           /\ NextOut(r)[y] = r.m_arcs[y].next_out
  BY <1>1, <1>2, <1>6 DEF NextIn, NextOut
<1>8. ASSUME NEW n \in DOMAIN r.m_nodes
      PROVE  /\ Targeting(r, n) = Targeting(tr, n) \cup (IF n = t THEN {x} ELSE {})
             /\ Leaving(r, n) = Leaving(tr, n) \cup (IF n = s THEN {x} ELSE {})
  BY <1>1, <1>2, <1>3, <1>6 DEF Targeting, Leaving
<1>9. ASSUME NEW n \in old
      PROVE  /\ OneList(Ins(tr)[n], tr.m_nodes[n].head_in, tr.m_nodes[n].tail_in,
                        NextIn(tr), Targeting(tr, n))
             /\ OneList(Outs(tr)[n], tr.m_nodes[n].head_out, tr.m_nodes[n].tail_out,
                        NextOut(tr), Leaving(tr, n))
             /\ Len(Ins(tr)[n]) # 0
  BY DEF GoodTree, WellListed, old
<1>10. ASSUME NEW n \in old
       PROVE  /\ tr.m_nodes[n].tail_in \in Targeting(tr, n)
              /\ tr.m_nodes[n].head_out # invalid_arc => tr.m_nodes[n].tail_out \in Leaving(tr, n)
              /\ Targeting(tr, n) \subseteq 1 .. N /\ Leaving(tr, n) \subseteq 1 .. N
  BY <1>1, ListEnds DEF old
<1>11. \A n, k \in old : n # k => /\ Targeting(tr, n) \cap Targeting(tr, k) = {}
                                  /\ Leaving(tr, n) \cap Leaving(tr, k) = {}
  BY DEF Targeting, Leaving
<1>12. ASSUME NEW n \in DOMAIN r.m_nodes
       PROVE  /\ OneList(in[n], r.m_nodes[n].head_in, r.m_nodes[n].tail_in,
                         NextIn(r), Targeting(r, n))
              /\ Len(in[n]) # 0
  <2>1. CASE n \notin old
    <3>1. n = t /\ r.m_nodes[n].head_in = x /\ r.m_nodes[n].tail_in = x /\ in[n] = << x >>
      BY <2>1, <1>5 DEF in
    <3>2. Targeting(tr, n) = {}
      <4>1. \A y \in ArcIds(tr) : tr.m_arcs[y].target \in old
        BY TypeFacts DEF GoodTree, old
      <4> QED
        BY <4>1, <2>1, <1>5 DEF Targeting
    <3>3. Targeting(r, n) = {x}
      BY <3>1, <3>2, <1>8
    <3>4. x \in DOMAIN NextIn(r)
      BY <1>6, <1>7
    <3>5. Len(<< x >>) # 0
      OBVIOUS
    <3> QED
      BY <3>1, <3>3, <3>4, <3>5, <1>7, SmallLists
  <2>2. CASE n \in old /\ n = t
    <3>1. in[n] = Append(Ins(tr)[n], x)
      BY <2>2 DEF in
    <3>2. r.m_nodes[n].head_in = tr.m_nodes[n].head_in /\ r.m_nodes[n].tail_in = x
      BY <2>2, <1>4
    <3>3. NextIn(r)[tr.m_nodes[n].tail_in] = x
      BY <2>2, <1>3, <1>7, <1>10
    <3>4. \A y \in Targeting(tr, n) : y # tr.m_nodes[n].tail_in => NextIn(r)[y] = NextIn(tr)[y]
      BY <2>2, <1>3, <1>7, <1>10
    <3>5. /\ OneList(Append(Ins(tr)[n], x),
                     IF tr.m_nodes[n].head_in = invalid_arc THEN x ELSE tr.m_nodes[n].head_in, x,
                     NextIn(r), Targeting(tr, n) \cup {x})
          /\ Len(Append(Ins(tr)[n], x)) # 0
          /\ tr.m_nodes[n].head_in = invalid_arc <=> Len(Ins(tr)[n]) = 0
      <4>1. LinkedNewest(tr.m_nodes[n].head_in, tr.m_nodes[n].tail_in, NextIn(tr), NextIn(r),
                         Targeting(tr, n), N)
        BY <3>3, <3>4, <1>1, <1>7 DEF LinkedNewest
      <4> QED
        BY <2>2, <4>1, <1>9, OneListLink
    <3> QED
      BY <2>2, <3>1, <3>2, <3>5, <1>8, <1>9
  <2>3. CASE n \in old /\ n # t
    <3>1. in[n] = Ins(tr)[n]
      BY <2>3 DEF in
    <3>2. r.m_nodes[n].head_in = tr.m_nodes[n].head_in /\ r.m_nodes[n].tail_in = tr.m_nodes[n].tail_in
      BY <2>3, <1>4
    <3>3. \A y \in Targeting(tr, n) : NextIn(r)[y] = NextIn(tr)[y]
      BY <2>3, <1>3, <1>7, <1>10, <1>11
    <3>4. DOMAIN NextIn(tr) \subseteq DOMAIN NextIn(r)
      BY <1>1, <1>6, <1>7
    <3>5. OneList(Ins(tr)[n], tr.m_nodes[n].head_in, tr.m_nodes[n].tail_in,
                  NextIn(r), Targeting(tr, n))
      BY <2>3, <3>3, <3>4, <1>9, OneListFrame
    <3> QED
      BY <2>3, <3>1, <3>2, <3>5, <1>8, <1>9
  <2> QED
    BY <2>1, <2>2, <2>3
<1>13. ASSUME NEW n \in DOMAIN r.m_nodes
       PROVE  OneList(out[n], r.m_nodes[n].head_out, r.m_nodes[n].tail_out,
                      NextOut(r), Leaving(r, n))
  <2>1. CASE n \notin old
    <3>1. n # s /\ r.m_nodes[n].head_out = invalid_arc /\ r.m_nodes[n].tail_out = invalid_arc
          /\ out[n] = << >>
      BY <2>1, <1>2, <1>5 DEF out
    <3>2. Leaving(tr, n) = {}
      <4>1. \A y \in ArcIds(tr) : tr.m_arcs[y].source \in old \cup {invalid_node}
        BY TypeFacts DEF GoodTree, old
      <4>2. n # invalid_node
        <5>1. DOMAIN r.m_nodes = 1 .. Len(r.m_nodes)
          BY <1>2, TypeFacts
        <5> QED
          BY <5>1 DEF invalid_node
      <4> QED
        BY <4>1, <4>2, <2>1 DEF Leaving
    <3>3. Leaving(r, n) = {}
      BY <3>1, <3>2, <1>8
    <3>4. x \in DOMAIN NextOut(r)
      BY <1>6, <1>7
    <3> QED
      BY <3>1, <3>3, <3>4, <1>7, SmallLists
  <2>2. CASE n \in old /\ n = s
    <3>1. out[n] = Append(Outs(tr)[n], x)
      BY <2>2, <1>2 DEF out
    <3>2. /\ r.m_nodes[n].head_out = IF tr.m_nodes[n].head_out = invalid_arc
                                     THEN x ELSE tr.m_nodes[n].head_out
          /\ r.m_nodes[n].tail_out = x
      BY <2>2, <1>4 DEF empty
    <3>3. tr.m_nodes[n].head_out # invalid_arc => NextOut(r)[tr.m_nodes[n].tail_out] = x
      BY <2>2, <1>3, <1>7, <1>10 DEF empty
    <3>4. \A y \in Leaving(tr, n) : y # tr.m_nodes[n].tail_out => NextOut(r)[y] = NextOut(tr)[y]
      BY <2>2, <1>3, <1>7, <1>10
    <3>5. OneList(Append(Outs(tr)[n], x),
                  IF tr.m_nodes[n].head_out = invalid_arc THEN x ELSE tr.m_nodes[n].head_out, x,
                  NextOut(r), Leaving(tr, n) \cup {x})
      <4>1. LinkedNewest(tr.m_nodes[n].head_out, tr.m_nodes[n].tail_out, NextOut(tr),
                         NextOut(r), Leaving(tr, n), N)
        BY <3>3, <3>4, <1>1, <1>7 DEF LinkedNewest
      <4> QED
        BY <2>2, <4>1, <1>9, OneListLink
    <3> QED
      BY <2>2, <3>1, <3>2, <3>5, <1>8
  <2>3. CASE n \in old /\ n # s
    <3>1. out[n] = Outs(tr)[n]
      BY <2>3 DEF out
    <3>2. /\ r.m_nodes[n].head_out = tr.m_nodes[n].head_out
          /\ r.m_nodes[n].tail_out = tr.m_nodes[n].tail_out
      BY <2>3, <1>4
    <3>3. \A y \in Leaving(tr, n) : NextOut(r)[y] = NextOut(tr)[y]
      BY <2>3, <1>2, <1>3, <1>7, <1>10, <1>11 DEF empty
    <3>4. DOMAIN NextOut(tr) \subseteq DOMAIN NextOut(r)
      BY <1>1, <1>6, <1>7
    <3>5. OneList(Outs(tr)[n], tr.m_nodes[n].head_out, tr.m_nodes[n].tail_out,
                  NextOut(r), Leaving(tr, n))
      BY <2>3, <3>3, <3>4, <1>9, OneListFrame
    <3> QED
      BY <2>3, <3>1, <3>2, <3>5, <1>8
  <2> QED
    BY <2>1, <2>2, <2>3
<1>14. WellListed(r, in, out)
  BY <1>12, <1>13 DEF WellListed
<1>15. \A n \in DOMAIN r.m_nodes : Outs(r)[n] = out[n]
  BY <1>2, <1>14, ListsAreLoops DEF Outs
<1>16. OutGrown(tr, r, s, t)
  <2>1. \A n \in old : out[n] = IF n = s THEN Append(Outs(tr)[n], x) ELSE Outs(tr)[n]
    BY <1>2 DEF out
  <2>2. \A n \in DOMAIN r.m_nodes \ old : out[n] = << >>
    BY DEF out
  <2> QED
    BY <2>1, <2>2, <1>1, <1>2, <1>3, <1>15 DEF OutGrown, N, old
<1> QED
  BY <1>2, <1>14, <1>16, ListsAreLoops DEF GoodTree

\* addNode() keeps a tree good; the new node is the next one.
LEMMA AddNodeGood ==
    ASSUME NEW tr, GoodTree(tr), NEW s \in DOMAIN tr.m_nodes
    PROVE  LET r == addNode(tr, s)
           IN  /\ GoodTree(r) /\ OutGrown(tr, r, s, Len(tr.m_nodes) + 1)
               /\ Len(r.m_nodes) = Len(tr.m_nodes) + 1
               /\ DOMAIN r.m_nodes = DOMAIN tr.m_nodes \cup {Len(tr.m_nodes) + 1}
<1> DEFINE ids == ArcIds(tr) \cup {invalid_arc}
           ns  == DOMAIN tr.m_nodes \cup {invalid_node}
           N == Len(tr.m_arcs)
           K == Len(tr.m_nodes)
           x == N + 1
           t == K + 1
           ids2 == (1 .. x) \cup {invalid_arc}
           ns2  == (1 .. t) \cup {invalid_node}
           Arc == [source : ns2, target : ns2, next_in : ids2, next_out : ids2]
           Node == [head_in : ids2, tail_in : ids2, head_out : ids2, tail_out : ids2]
           arcs == Append(tr.m_arcs, NewArc(s, t))
           nodes == Append(tr.m_nodes, NewNode(x))
           tr1 == [m_arcs |-> arcs, m_nodes |-> nodes]
           r == AppendOut(tr1, s, x)
<1>1. /\ N \in Nat \ {0} /\ K \in Nat \ {0}
      /\ ArcIds(tr) = 1 .. N /\ DOMAIN tr.m_nodes = 1 .. K
      /\ \A y \in 1 .. N : /\ tr.m_arcs[y] \in [source : ns, target : ns,
                                                next_in : ids, next_out : ids]
                           /\ tr.m_arcs[y].target \in 1 .. K
      /\ \A n \in 1 .. K : tr.m_nodes[n] \in [head_in : ids, tail_in : ids,
                                              head_out : ids, tail_out : ids]
  BY TypeFacts DEF GoodTree
<1>2. /\ tr.m_arcs \in Seq(Arc) /\ tr.m_nodes \in Seq(Node)
      /\ NewArc(s, t) \in Arc /\ NewNode(x) \in Node
  <2>1. /\ tr.m_arcs \in Seq([source : ns, target : ns, next_in : ids, next_out : ids])
        /\ tr.m_nodes \in Seq([head_in : ids, tail_in : ids, head_out : ids, tail_out : ids])
    BY DEF GoodTree, TreeType
  <2>2. ids \subseteq ids2 /\ ns \subseteq ns2 /\ s \in ns2 /\ t \in ns2 /\ x \in ids2
    BY <1>1
  <2>3. /\ [source : ns, target : ns, next_in : ids, next_out : ids] \subseteq Arc
        /\ [head_in : ids, tail_in : ids, head_out : ids, tail_out : ids] \subseteq Node
    <3> HIDE DEF ids, ns, ids2, ns2
    <3> QED
      BY <2>2
  <2>4. NewArc(s, t) \in Arc /\ NewNode(x) \in Node
    BY <2>2 DEF NewArc, NewNode
  <2> HIDE DEF Arc, Node
  <2> QED
    BY <2>1, <2>3, <2>4, SeqMonotonic
<1>3. /\ arcs \in Seq(Arc) /\ Len(arcs) = x /\ arcs[x] = NewArc(s, t)
      /\ \A y \in 1 .. N : arcs[y] = tr.m_arcs[y]
      /\ nodes \in Seq(Node) /\ Len(nodes) = t /\ nodes[t] = NewNode(x)
      /\ \A n \in 1 .. K : nodes[n] = tr.m_nodes[n]
  <2> HIDE DEF Arc, Node
  <2> QED
    BY <1>2, AppendProperties
<1>4. DOMAIN arcs = 1 .. x /\ DOMAIN nodes = 1 .. t
  <2> HIDE DEF Arc, Node, arcs, nodes
  <2> QED
    BY <1>3, LenProperties
<1> HIDE DEF arcs, nodes
<1>5. /\ 1 .. x = (1 .. N) \cup {x} /\ x \notin 1 .. N /\ x \in Nat \ {0}
      /\ 1 .. t = (1 .. K) \cup {t} /\ t \notin 1 .. K /\ t \in Nat \ {0} /\ t # 1
      /\ x >= 1 /\ t >= 1 /\ s # t
  BY <1>1
<1> HIDE DEF x, t
<1>6. /\ ArcIds(tr1) = 1 .. x /\ DOMAIN tr1.m_nodes = 1 .. t
      /\ tr1.m_arcs = arcs /\ tr1.m_nodes = nodes
      /\ Len(tr1.m_nodes) = t
  BY <1>3, <1>4 DEF ArcIds
<1>7. TreeType(tr1)
  <2>1. \A y \in 1 .. x : arcs[y].target # invalid_node
    <3>1. \A y \in 1 .. N : arcs[y].target \in 1 .. K
      BY <1>1, <1>3
    <3>2. arcs[x].target = t
      BY <1>3 DEF NewArc
    <3>3. 0 \notin 1 .. K /\ t # 0
      BY <1>5
    <3> QED
      BY <3>1, <3>2, <3>3, <1>5 DEF invalid_node
  <2>2. tr1 \in [m_arcs : Seq(Arc), m_nodes : Seq(Node)]
    <3> HIDE DEF Arc, Node
    <3> QED
      BY <1>3
  <2> HIDE DEF tr1
  <2> QED
    BY <2>1, <2>2, <1>3, <1>5, <1>6 DEF TreeType
<1>8. /\ s \in 1 .. K /\ tr1.m_nodes[s] = tr.m_nodes[s]
      /\ tr.m_nodes[s].head_out # invalid_arc => tr.m_nodes[s].tail_out \in 1 .. N
  BY <1>1, <1>3, <1>6, ListEnds
<1> HIDE DEF tr1, r
<1>9. OutAppended(tr1, r, s, x)
  BY <1>5, <1>6, <1>7, <1>8, AppendOutFacts DEF r
<1>10. /\ TreeType(r) /\ ArcIds(r) = 1 .. x
       /\ DOMAIN r.m_nodes = 1 .. t /\ Len(r.m_nodes) = t
       /\ \A y \in 1 .. x :
             /\ r.m_arcs[y].source = arcs[y].source
             /\ r.m_arcs[y].target = arcs[y].target
             /\ r.m_arcs[y].next_in = arcs[y].next_in
             /\ r.m_arcs[y].next_out = IF /\ tr.m_nodes[s].head_out # invalid_arc
                                          /\ y = tr.m_nodes[s].tail_out
                                       THEN x ELSE arcs[y].next_out
       /\ \A n \in 1 .. t :
             /\ r.m_nodes[n].head_in = nodes[n].head_in
             /\ r.m_nodes[n].tail_in = nodes[n].tail_in
             /\ r.m_nodes[n].head_out = IF n = s /\ tr.m_nodes[s].head_out = invalid_arc
                                        THEN x ELSE nodes[n].head_out
             /\ r.m_nodes[n].tail_out = IF n = s THEN x ELSE nodes[n].tail_out
  BY <1>6, <1>8, <1>9 DEF OutAppended
<1>11. Grown(tr, r, s, t)
  <2>1. /\ r.m_arcs[x].source = s /\ r.m_arcs[x].target = t
        /\ r.m_arcs[x].next_in = invalid_arc /\ r.m_arcs[x].next_out = invalid_arc
    BY <1>3, <1>5, <1>8, <1>10 DEF NewArc
  <2>2. /\ r.m_nodes[t].head_in = x /\ r.m_nodes[t].tail_in = x
        /\ r.m_nodes[t].head_out = invalid_arc /\ r.m_nodes[t].tail_out = invalid_arc
    BY <1>3, <1>5, <1>10 DEF NewNode
  <2>3. \A y \in 1 .. N :
            /\ r.m_arcs[y].source = tr.m_arcs[y].source
            /\ r.m_arcs[y].target = tr.m_arcs[y].target
            /\ r.m_arcs[y].next_in = tr.m_arcs[y].next_in
            /\ r.m_arcs[y].next_out = IF /\ tr.m_nodes[s].head_out # invalid_arc
                                         /\ y = tr.m_nodes[s].tail_out
                                      THEN x ELSE tr.m_arcs[y].next_out
    BY <1>3, <1>5, <1>10
  <2>4. \A n \in 1 .. K :
            /\ n # t
            /\ r.m_nodes[n].head_in = tr.m_nodes[n].head_in
            /\ r.m_nodes[n].tail_in = tr.m_nodes[n].tail_in
            /\ r.m_nodes[n].head_out = IF n = s /\ tr.m_nodes[s].head_out = invalid_arc
                                       THEN x ELSE tr.m_nodes[n].head_out
            /\ r.m_nodes[n].tail_out = IF n = s THEN x ELSE tr.m_nodes[n].tail_out
    BY <1>3, <1>5, <1>10
  <2>5. x = Len(tr.m_arcs) + 1
    BY DEF x
  <2> HIDE DEF N, K
  <2>6. /\ TreeType(r) /\ ArcIds(r) = 1 .. x /\ s \in DOMAIN tr.m_nodes
        /\ t \in DOMAIN r.m_nodes /\ DOMAIN tr.m_nodes \subseteq DOMAIN r.m_nodes
        /\ t \notin DOMAIN tr.m_nodes
        /\ \A n \in DOMAIN r.m_nodes \ DOMAIN tr.m_nodes : n = t /\ n # 1
    BY <1>1, <1>5, <1>8, <1>10
  <2>7. ArcIds(tr) = 1 .. N /\ DOMAIN tr.m_nodes = 1 .. K
    BY <1>1
  <2> QED
    BY <2>1, <2>2, <2>3, <2>4, <2>5, <2>6, <2>7 DEF Grown
<1>12. GoodTree(r) /\ OutGrown(tr, r, s, t)
  BY <1>11, GrownIsGood
<1>13. addNode(tr, s) = r
  BY DEF addNode, r, tr1, arcs, nodes, x, t
<1> QED
  BY <1>1, <1>5, <1>10, <1>12, <1>13 DEF t

\* addArc() keeps a tree good and its nodes.
LEMMA AddArcGood ==
    ASSUME NEW tr, GoodTree(tr), NEW s \in DOMAIN tr.m_nodes, NEW t \in DOMAIN tr.m_nodes
    PROVE  LET r == addArc(tr, s, t)
           IN  /\ GoodTree(r) /\ OutGrown(tr, r, s, t)
               /\ Len(r.m_nodes) = Len(tr.m_nodes)
               /\ DOMAIN r.m_nodes = DOMAIN tr.m_nodes
<1> DEFINE ids == ArcIds(tr) \cup {invalid_arc}
           ns  == DOMAIN tr.m_nodes \cup {invalid_node}
           N == Len(tr.m_arcs)
           K == Len(tr.m_nodes)
           x == N + 1
           ids2 == (1 .. x) \cup {invalid_arc}
           Arc == [source : ns, target : ns, next_in : ids2, next_out : ids2]
           Node == [head_in : ids2, tail_in : ids2, head_out : ids2, tail_out : ids2]
           tail == tr.m_nodes[t].tail_in
           more == Append(tr.m_arcs, NewArc(s, t))
           linked == [more[tail] EXCEPT !.next_in = x]
           ended == [tr.m_nodes[t] EXCEPT !.tail_in = x]
           arcs == [more EXCEPT ![tail] = linked]
           nodes == [tr.m_nodes EXCEPT ![t] = ended]
           tr1 == [m_arcs |-> arcs, m_nodes |-> nodes]
           r == AppendOut(tr1, s, x)
<1>1. /\ N \in Nat \ {0} /\ K \in Nat \ {0}
      /\ ArcIds(tr) = 1 .. N /\ DOMAIN tr.m_nodes = 1 .. K
      /\ tr = [m_arcs |-> tr.m_arcs, m_nodes |-> tr.m_nodes]
      /\ \A y \in 1 .. N : /\ tr.m_arcs[y] \in [source : ns, target : ns,
                                                next_in : ids, next_out : ids]
                           /\ tr.m_arcs[y].target \in 1 .. K
      /\ \A n \in 1 .. K : tr.m_nodes[n] \in [head_in : ids, tail_in : ids,
                                              head_out : ids, tail_out : ids]
  BY TypeFacts DEF GoodTree
<1>2. /\ tr.m_arcs \in Seq(Arc) /\ tr.m_nodes \in Seq(Node)
      /\ NewArc(s, t) \in Arc
  <2>1. /\ tr.m_arcs \in Seq([source : ns, target : ns, next_in : ids, next_out : ids])
        /\ tr.m_nodes \in Seq([head_in : ids, tail_in : ids, head_out : ids, tail_out : ids])
    BY DEF GoodTree, TreeType
  <2>2. ids \subseteq ids2 /\ s \in ns /\ t \in ns
    BY <1>1
  <2>3. /\ [source : ns, target : ns, next_in : ids, next_out : ids] \subseteq Arc
        /\ [head_in : ids, tail_in : ids, head_out : ids, tail_out : ids] \subseteq Node
    <3> HIDE DEF ids, ns, ids2
    <3> QED
      BY <2>2
  <2>4. NewArc(s, t) \in Arc
    BY <2>2 DEF NewArc
  <2> HIDE DEF Arc, Node
  <2> QED
    BY <2>1, <2>3, <2>4, SeqMonotonic
<1>3. /\ more \in Seq(Arc) /\ Len(more) = x /\ more[x] = NewArc(s, t)
      /\ \A y \in 1 .. N : more[y] = tr.m_arcs[y]
  <2> HIDE DEF Arc
  <2> QED
    BY <1>2, AppendProperties
<1>4. /\ 1 .. x = (1 .. N) \cup {x} /\ x \notin 1 .. N /\ x \in Nat \ {0}
      /\ x >= 1 /\ K >= 1
      /\ s \in 1 .. K /\ t \in 1 .. K
      /\ tail \in 1 .. N
      /\ tr.m_nodes[s].head_out # invalid_arc => tr.m_nodes[s].tail_out \in 1 .. N
  BY <1>1, ListEnds
<1>5. more \in [1 .. x -> Arc] /\ tr.m_nodes \in [1 .. K -> Node]
  <2> HIDE DEF Arc, Node, more
  <2> QED
    BY <1>1, <1>2, <1>3, LenProperties
<1> HIDE DEF more
<1>6. linked \in Arc /\ ended \in Node
  <2>1. more[tail] \in Arc /\ tr.m_nodes[t] \in Node /\ x \in ids2
    <3> HIDE DEF Arc, Node
    <3> QED
      BY <1>4, <1>5
  <2> HIDE DEF ids2, x
  <2> QED
    BY <2>1
<1>7. /\ linked.source = tr.m_arcs[tail].source /\ linked.target = tr.m_arcs[tail].target
      /\ linked.next_in = x /\ linked.next_out = tr.m_arcs[tail].next_out
      /\ ended.head_in = tr.m_nodes[t].head_in /\ ended.tail_in = x
      /\ ended.head_out = tr.m_nodes[t].head_out /\ ended.tail_out = tr.m_nodes[t].tail_out
  BY <1>1, <1>3, <1>4
<1> HIDE DEF x, linked, ended
<1>8. /\ arcs \in [1 .. x -> Arc] /\ nodes \in [1 .. K -> Node]
      /\ arcs[x] = NewArc(s, t)
      /\ \A y \in 1 .. N : arcs[y] = IF y = tail THEN linked ELSE tr.m_arcs[y]
      /\ \A n \in 1 .. K : nodes[n] = IF n = t THEN ended ELSE tr.m_nodes[n]
  <2> HIDE DEF Arc, Node, N, K
  <2> QED
    BY <1>3, <1>4, <1>5, <1>6
<1> HIDE DEF arcs, nodes
<1>9. arcs \in Seq(Arc) /\ Len(arcs) = x /\ nodes \in Seq(Node) /\ Len(nodes) = K
  <2> HIDE DEF Arc, Node, K
  <2> QED
    BY <1>1, <1>4, <1>8, FunctionIsSeq
<1>10. /\ ArcIds(tr1) = 1 .. x /\ DOMAIN tr1.m_nodes = 1 .. K
       /\ tr1.m_arcs = arcs /\ tr1.m_nodes = nodes
  BY <1>8 DEF ArcIds
<1>11. TreeType(tr1)
  <2>1. \A y \in 1 .. x : arcs[y].target # invalid_node
    <3>1. \A y \in 1 .. N : arcs[y].target \in 1 .. K
      BY <1>1, <1>4, <1>7, <1>8
    <3>2. arcs[x].target \in 1 .. K
      BY <1>4, <1>8 DEF NewArc
    <3>3. 0 \notin 1 .. K
      BY <1>1
    <3> QED
      BY <3>1, <3>2, <3>3, <1>4 DEF invalid_node
  <2>2. tr1 \in [m_arcs : Seq(Arc), m_nodes : Seq(Node)]
    <3> HIDE DEF Arc, Node
    <3> QED
      BY <1>9
  <2>3. DOMAIN tr1.m_nodes = DOMAIN tr.m_nodes
    BY <1>1, <1>10
  <2> HIDE DEF tr1
  <2> QED
    BY <2>1, <2>2, <2>3, <1>4, <1>9, <1>10 DEF TreeType
<1>12. /\ tr1.m_nodes[s].head_out = tr.m_nodes[s].head_out
       /\ tr1.m_nodes[s].tail_out = tr.m_nodes[s].tail_out
  BY <1>4, <1>7, <1>8, <1>10
<1> HIDE DEF tr1, r
<1>13. OutAppended(tr1, r, s, x)
  BY <1>4, <1>10, <1>11, <1>12, AppendOutFacts DEF r
<1>14. /\ TreeType(r) /\ ArcIds(r) = 1 .. x
       /\ DOMAIN r.m_nodes = 1 .. K /\ Len(r.m_nodes) = K
       /\ \A y \in 1 .. x :
             /\ r.m_arcs[y].source = arcs[y].source
             /\ r.m_arcs[y].target = arcs[y].target
             /\ r.m_arcs[y].next_in = arcs[y].next_in
             /\ r.m_arcs[y].next_out = IF /\ tr.m_nodes[s].head_out # invalid_arc
                                          /\ y = tr.m_nodes[s].tail_out
                                       THEN x ELSE arcs[y].next_out
       /\ \A n \in 1 .. K :
             /\ r.m_nodes[n].head_in = nodes[n].head_in
             /\ r.m_nodes[n].tail_in = nodes[n].tail_in
             /\ r.m_nodes[n].head_out = IF n = s /\ tr.m_nodes[s].head_out = invalid_arc
                                        THEN x ELSE nodes[n].head_out
             /\ r.m_nodes[n].tail_out = IF n = s THEN x ELSE nodes[n].tail_out
  <2> HIDE DEF K
  <2> QED
    BY <1>4, <1>9, <1>10, <1>12, <1>13, SMTT(30) DEF OutAppended
<1>15. Grown(tr, r, s, t)
  <2>1. /\ r.m_arcs[x].source = s /\ r.m_arcs[x].target = t
        /\ r.m_arcs[x].next_in = invalid_arc /\ r.m_arcs[x].next_out = invalid_arc
    BY <1>4, <1>8, <1>14 DEF NewArc
  <2>2. \A y \in 1 .. N :
            /\ r.m_arcs[y].source = tr.m_arcs[y].source
            /\ r.m_arcs[y].target = tr.m_arcs[y].target
            /\ r.m_arcs[y].next_in = IF y = tail THEN x ELSE tr.m_arcs[y].next_in
            /\ r.m_arcs[y].next_out = IF /\ tr.m_nodes[s].head_out # invalid_arc
                                         /\ y = tr.m_nodes[s].tail_out
                                      THEN x ELSE tr.m_arcs[y].next_out
    <3> SUFFICES ASSUME NEW y \in 1 .. N
                 PROVE  /\ r.m_arcs[y].source = tr.m_arcs[y].source
                        /\ r.m_arcs[y].target = tr.m_arcs[y].target
                        /\ r.m_arcs[y].next_in = IF y = tail THEN x
                                                 ELSE tr.m_arcs[y].next_in
                        /\ r.m_arcs[y].next_out =
                             IF /\ tr.m_nodes[s].head_out # invalid_arc
                                /\ y = tr.m_nodes[s].tail_out
                             THEN x ELSE tr.m_arcs[y].next_out
      OBVIOUS
    <3>1. /\ arcs[y].source = tr.m_arcs[y].source /\ arcs[y].target = tr.m_arcs[y].target
          /\ arcs[y].next_in = IF y = tail THEN x ELSE tr.m_arcs[y].next_in
          /\ arcs[y].next_out = tr.m_arcs[y].next_out
      BY <1>7, <1>8
    <3>2. y \in 1 .. x
      BY <1>4
    <3> QED
      BY <1>14, <3>1, <3>2
  <2>3. \A n \in 1 .. K :
            /\ r.m_nodes[n].head_in = tr.m_nodes[n].head_in
            /\ r.m_nodes[n].tail_in = IF n = t THEN x ELSE tr.m_nodes[n].tail_in
            /\ r.m_nodes[n].head_out = IF n = s /\ tr.m_nodes[s].head_out = invalid_arc
                                       THEN x ELSE tr.m_nodes[n].head_out
            /\ r.m_nodes[n].tail_out = IF n = s THEN x ELSE tr.m_nodes[n].tail_out
    <3> SUFFICES ASSUME NEW n \in 1 .. K
                 PROVE  /\ r.m_nodes[n].head_in = tr.m_nodes[n].head_in
                        /\ r.m_nodes[n].tail_in = IF n = t THEN x
                                                  ELSE tr.m_nodes[n].tail_in
                        /\ r.m_nodes[n].head_out =
                             IF n = s /\ tr.m_nodes[s].head_out = invalid_arc
                             THEN x ELSE tr.m_nodes[n].head_out
                        /\ r.m_nodes[n].tail_out = IF n = s THEN x
                                                   ELSE tr.m_nodes[n].tail_out
      OBVIOUS
    <3>1. /\ nodes[n].head_in = tr.m_nodes[n].head_in
          /\ nodes[n].tail_in = IF n = t THEN x ELSE tr.m_nodes[n].tail_in
          /\ nodes[n].head_out = tr.m_nodes[n].head_out
          /\ nodes[n].tail_out = tr.m_nodes[n].tail_out
      BY <1>7, <1>8
    <3> QED
      BY <1>14, <3>1
  <2>4. x = Len(tr.m_arcs) + 1
    BY DEF x
  <2> HIDE DEF N, K
  <2>5. /\ TreeType(r) /\ ArcIds(r) = 1 .. x
        /\ DOMAIN r.m_nodes = DOMAIN tr.m_nodes
    BY <1>1, <1>14
  <2>6. ArcIds(tr) = 1 .. N /\ DOMAIN tr.m_nodes = 1 .. K
    BY <1>1
  <2> QED
    BY <2>1, <2>2, <2>3, <2>4, <2>5, <2>6 DEF Grown
<1>16. GoodTree(r) /\ OutGrown(tr, r, s, t)
  BY <1>15, GrownIsGood
<1>17. addArc(tr, s, t) = r
  <2>1. addArc(tr, s, t) = AppendOut([m_arcs |-> arcs, m_nodes |-> nodes], s, x)
    <3> DEFINE added == [tr EXCEPT !.m_arcs = Append(@, NewArc(s, t))]
               last == [added EXCEPT !.m_arcs[tail].next_in = x, !.m_nodes[t].tail_in = x]
    <3>1. added = [m_arcs |-> more, m_nodes |-> tr.m_nodes]
      <4>1. added \in [m_arcs : {more}, m_nodes : {tr.m_nodes}]
        BY <1>1 DEF more
      <4> HIDE DEF added
      <4> QED
        BY <4>1
    <3>2. last = [m_arcs |-> arcs, m_nodes |-> nodes]
      <4> HIDE DEF added
      <4>1. last \in [m_arcs : {arcs}, m_nodes : {nodes}]
        BY <3>1 DEF arcs, nodes, linked, ended
      <4> HIDE DEF last
      <4> QED
        BY <4>1
    <3> QED
      BY <3>2 DEF addArc, x
  <2> QED
    BY <2>1 DEF r, tr1
<1> QED
  BY <1>1, <1>14, <1>16, <1>17

\* Tree(): one node, and the root arc in its list in.
LEMMA TreeGood ==
    /\ GoodTree(Tree) /\ DOMAIN Tree.m_nodes = {1} /\ ArcIds(Tree) = {1}
    /\ Outs(Tree)[1] = << >>
<1> DEFINE arc == NewArc(invalid_node, 1)
           node == NewNode(root_arc)
           Arc == [source : {1, 0}, target : {1, 0}, next_in : {1, 0}, next_out : {1, 0}]
           Node == [head_in : {1, 0}, tail_in : {1, 0}, head_out : {1, 0}, tail_out : {1, 0}]
<1>1. /\ Tree.m_arcs = << arc >> /\ Tree.m_nodes = << node >>
      /\ Tree = [m_arcs |-> << arc >>, m_nodes |-> << node >>]
  BY DEF Tree
<1>2. /\ arc \in Arc /\ node \in Node
      /\ arc.target = 1 /\ arc.source = 0 /\ arc.next_in = 0 /\ arc.next_out = 0
      /\ node.head_in = 1 /\ node.tail_in = 1 /\ node.head_out = 0 /\ node.tail_out = 0
  BY DEF NewArc, NewNode, invalid_node, invalid_arc, root_arc
<1> HIDE DEF arc, node
<1>3. /\ << arc >>[1] = arc /\ << node >>[1] = node
      /\ DOMAIN << arc >> = {1} /\ DOMAIN << node >> = {1}
      /\ Len(<< arc >>) = 1 /\ Len(<< node >>) = 1
  OBVIOUS
<1>4. << arc >> \in Seq(Arc) /\ << node >> \in Seq(Node)
  <2> HIDE DEF Arc, Node
  <2> QED
    BY <1>2
<1>5. DOMAIN Tree.m_nodes = {1} /\ ArcIds(Tree) = {1}
  BY <1>1, <1>3 DEF ArcIds
<1>6. TreeType(Tree)
  <2>1. Tree \in [m_arcs : Seq(Arc), m_nodes : Seq(Node)]
    <3> HIDE DEF Arc, Node
    <3> QED
      BY <1>1, <1>4
  <2>2. \A x \in {1} : Tree.m_arcs[x].target # invalid_node
    BY <1>1, <1>2, <1>3 DEF invalid_node
  <2>3. {1} \cup {0} = {1, 0}
    OBVIOUS
  <2> QED
    BY <2>1, <2>2, <2>3, <1>1, <1>3, <1>5 DEF TreeType, invalid_node, invalid_arc
<1>7. WellListed(Tree, [n \in {1} |-> << 1 >>], [n \in {1} |-> << >>])
  <2>1. /\ NextIn(Tree)[1] = 0 /\ NextOut(Tree)[1] = 0
        /\ DOMAIN NextIn(Tree) = {1} /\ DOMAIN NextOut(Tree) = {1}
    BY <1>1, <1>2, <1>3, <1>5 DEF NextIn, NextOut
  <2>2. Targeting(Tree, 1) = {1} /\ Leaving(Tree, 1) = {}
    BY <1>5 DEF Targeting, Leaving, root_arc
  <2>3. /\ OneList(<< 1 >>, 1, 1, NextIn(Tree), {1})
        /\ OneList(<< >>, 0, 0, NextOut(Tree), {})
    BY <2>1, SmallLists DEF invalid_arc
  <2>4. /\ Tree.m_nodes[1].head_in = 1 /\ Tree.m_nodes[1].tail_in = 1
        /\ Tree.m_nodes[1].head_out = 0 /\ Tree.m_nodes[1].tail_out = 0
    BY <1>1, <1>2, <1>3
  <2>5. Len(<< 1 >>) # 0
    OBVIOUS
  <2> QED
    BY <2>2, <2>3, <2>4, <2>5, <1>5 DEF WellListed
<1>8. Outs(Tree)[1] = << >>
  <2>1. [n \in {1} |-> << >>][1] = OutArcs(Tree.m_arcs, Tree.m_nodes, 1)
    BY <1>5, <1>6, <1>7, ListsAreLoops
  <2> QED
    BY <2>1, <1>5 DEF Outs
<1> QED
  BY <1>5, <1>6, <1>7, <1>8, ListsAreLoops DEF GoodTree

\* setRoot() changes no list: the root arc stays in the list of the first node.
LEMMA SetRootGood ==
    ASSUME NEW tr, GoodTree(tr), NEW n \in DOMAIN tr.m_nodes
    PROVE  LET r == [tr EXCEPT !.m_arcs[root_arc].source = invalid_node,
                               !.m_arcs[root_arc].target = n]
           IN  GoodTree(r) /\ r.m_nodes = tr.m_nodes /\ ArcIds(r) = ArcIds(tr)
<1> DEFINE ids == ArcIds(tr) \cup {invalid_arc}
           ns  == DOMAIN tr.m_nodes \cup {invalid_node}
           N == Len(tr.m_arcs)
           Arc == [source : ns, target : ns, next_in : ids, next_out : ids]
           Nodes == Seq([head_in : ids, tail_in : ids, head_out : ids, tail_out : ids])
           r == [tr EXCEPT !.m_arcs[root_arc].source = invalid_node,
                           !.m_arcs[root_arc].target = n]
           arc == [tr.m_arcs[1] EXCEPT !.source = invalid_node, !.target = n]
           arcs == [tr.m_arcs EXCEPT ![1] = arc]
<1>1. /\ N \in Nat \ {0} /\ ArcIds(tr) = 1 .. N /\ Len(tr.m_nodes) \in Nat \ {0}
      /\ DOMAIN tr.m_nodes = 1 .. Len(tr.m_nodes)
      /\ tr = [m_arcs |-> tr.m_arcs, m_nodes |-> tr.m_nodes]
      /\ \A x \in 1 .. N : tr.m_arcs[x] \in Arc /\ tr.m_arcs[x].target \in DOMAIN tr.m_nodes
      /\ NextIn(tr) \in [1 .. N -> Nat] /\ NextOut(tr) \in [1 .. N -> Nat]
  BY TypeFacts DEF GoodTree
<1>2. tr.m_arcs \in Seq(Arc) /\ tr.m_nodes \in Nodes /\ Len(tr.m_nodes) >= 1 /\ N >= 1
  BY DEF GoodTree, TreeType
<1>3. tr.m_arcs \in [1 .. N -> Arc] /\ 1 \in 1 .. N
  <2>1. tr.m_arcs \in [1 .. N -> Arc]
    <3> HIDE DEF Arc
    <3> QED
      BY <1>2, LenProperties
  <2>2. 1 \in 1 .. N
    BY <1>1
  <2> QED
    BY <2>1, <2>2
<1>4. /\ arc \in Arc /\ arc.target = n
      /\ arc.next_in = tr.m_arcs[1].next_in /\ arc.next_out = tr.m_arcs[1].next_out
  <2>1. tr.m_arcs[1] \in Arc /\ n \in ns /\ invalid_node \in ns
    BY <1>1, <1>3
  <2> HIDE DEF ns, ids
  <2> QED
    BY <2>1
<1>5. r = [m_arcs |-> arcs, m_nodes |-> tr.m_nodes]
  <2>1. r \in [m_arcs : {arcs}, m_nodes : {tr.m_nodes}]
    BY <1>1, <1>3 DEF root_arc
  <2> HIDE DEF r
  <2> QED
    BY <2>1
<1> HIDE DEF r, arc
<1>6. /\ arcs \in [1 .. N -> Arc] /\ arcs[1] = arc
      /\ \A x \in 1 .. N : x # 1 => arcs[x] = tr.m_arcs[x]
  <2> HIDE DEF Arc
  <2> QED
    BY <1>3, <1>4
<1>7. arcs \in Seq(Arc) /\ Len(arcs) = N
  <2> HIDE DEF Arc, N, arcs
  <2> QED
    BY <1>1, <1>6, FunctionIsSeq
<1> HIDE DEF arcs
<1>8. /\ r.m_arcs = arcs /\ r.m_nodes = tr.m_nodes /\ ArcIds(r) = ArcIds(tr)
  BY <1>1, <1>5, <1>6 DEF ArcIds
<1>9. TreeType(r)
  <2>1. \A x \in 1 .. N : arcs[x].target # invalid_node
    <3>1. \A x \in 1 .. N : arcs[x].target \in DOMAIN tr.m_nodes
      BY <1>1, <1>4, <1>6
    <3>2. 0 \notin DOMAIN tr.m_nodes
      BY <1>1
    <3> QED
      BY <3>1, <3>2 DEF invalid_node
  <2>2. r \in [m_arcs : Seq(Arc), m_nodes : Nodes]
    <3> HIDE DEF Arc, Nodes
    <3> QED
      BY <1>2, <1>5, <1>7
  <2> QED
    BY <2>1, <2>2, <1>1, <1>2, <1>7, <1>8 DEF TreeType
<1>10. NextIn(r) = NextIn(tr) /\ NextOut(r) = NextOut(tr)
  <2>1. \A x \in ArcIds(tr) : /\ r.m_arcs[x].next_in = tr.m_arcs[x].next_in
                              /\ r.m_arcs[x].next_out = tr.m_arcs[x].next_out
    BY <1>1, <1>4, <1>6, <1>8
  <2> QED
    BY <2>1, <1>8 DEF NextIn, NextOut
<1>11. \A k : Targeting(r, k) = Targeting(tr, k) /\ Leaving(r, k) = Leaving(tr, k)
  <2>1. \A x \in ArcIds(tr) \ {root_arc} : r.m_arcs[x] = tr.m_arcs[x]
    BY <1>1, <1>6, <1>8 DEF root_arc
  <2> QED
    BY <2>1, <1>8 DEF Targeting, Leaving
<1>12. WellListed(r, Ins(tr), Outs(tr))
  BY <1>8, <1>10, <1>11 DEF GoodTree, WellListed
<1> QED
  BY <1>8, <1>9, <1>12, ListsAreLoops DEF GoodTree, r

-----------------------------------------------------------------------------
(* The steps.                                                              *)

\* The steps of the client.
LEMMA ClientSteps ==
    ASSUME DInv, AddNode \/ AddArc \/ SetRoot \/ Clear
    PROVE  DInv'
<1>1. pc = "client" /\ pc' = "client" /\ new_srd' = new_srd
  BY DEF AddNode, AddArc, SetRoot, Clear, slicing, new
<1>2. GoodTree(tree') /\ root_node' \in DOMAIN tree'.m_nodes
  <2>1. CASE AddNode
    <3>1. PICK s \in NodeIds : tree' = addNode(tree, s)
      BY <2>1 DEF AddNode
    <3>2. root_node' = root_node
      BY <2>1 DEF AddNode
    <3> QED
      BY <3>1, <3>2, AddNodeGood DEF DInv, SliceOK, NodeIds
  <2>2. CASE AddArc
    <3>1. PICK s \in NodeIds, t \in NodeIds : tree' = addArc(tree, s, t)
      BY <2>2 DEF AddArc
    <3>2. root_node' = root_node
      BY <2>2 DEF AddArc
    <3> QED
      BY <3>1, <3>2, AddArcGood DEF DInv, SliceOK, NodeIds
  <2>3. CASE SetRoot
    <3>1. PICK n \in NodeIds :
              /\ root_node' = n
              /\ tree' = [tree EXCEPT !.m_arcs[root_arc].source = invalid_node,
                                      !.m_arcs[root_arc].target = n]
      BY <2>3 DEF SetRoot
    <3> QED
      BY <3>1, SetRootGood DEF DInv, NodeIds
  <2>4. CASE Clear
    BY <2>4, TreeGood DEF Clear
  <2> QED
    BY <2>1, <2>2, <2>3, <2>4
<1>3. (pc' # "client") = FALSE /\ (pc' = "slice") = FALSE
  BY <1>1
<1> QED
  BY <1>1, <1>2, <1>3 DEF DInv, SliceOK, NodeIds

\* A slice starts with an empty tree and the node to slice at in the queue.
LEMMA SliceKeeps ==
    ASSUME DInv, Slice
    PROVE  DInv'
<1>1. /\ root_node = 1 /\ pc' = "slice"
      /\ old_node' \in NodeIds \cup {invalid_node}
      /\ new_srd' = Tree
      /\ visited' = [n \in NodeIds |-> IF n = old_node' THEN root_node ELSE invalid_node]
      /\ work' = IF old_node' = invalid_node THEN << >> ELSE << old_node' >>
      /\ parent' = invalid_node /\ a' = invalid_arc
      /\ tree' = tree /\ root_node' = root_node
  BY DEF Slice
<1>2. visited' \in [NodeIds -> {1} \cup {invalid_node}]
  BY <1>1
<1>3. /\ work' \in Seq(NodeIds)
      /\ \A k \in 1 .. Len(work') : visited'[work'[k]] # invalid_node
  <2>1. CASE old_node' = invalid_node
    <3>1. work' = << >> /\ Len(work') = 0
      BY <1>1, <2>1
    <3> QED
      BY <3>1
  <2>2. CASE old_node' # invalid_node
    <3>1. work' = << old_node' >> /\ old_node' \in NodeIds
      BY <1>1, <2>2
    <3>2. Len(work') = 1 /\ work'[1] = old_node' /\ work' \in Seq(NodeIds)
      BY <3>1
    <3>3. visited'[old_node'] = 1
      BY <3>1, <1>1
    <3>4. \A k \in 1 .. 1 : k = 1
      OBVIOUS
    <3> QED
      BY <3>2, <3>3, <3>4 DEF invalid_node
  <2> QED
    BY <2>1, <2>2
<1> QED
  BY <1>1, <1>2, <1>3, TreeGood DEF DInv, SliceOK, NodeIds

\* Taking a node from the stack or queue leaves both trees alone.
LEMMA SlicePopKeeps ==
    ASSUME DInv, SlicePop
    PROVE  DInv'
<1>1. /\ pc = "slice" /\ pc' = pc /\ work # << >>
      /\ parent' = IF order = "DF" THEN work[Len(work)] ELSE Head(work)
      /\ work' = IF order = "DF" THEN SubSeq(work, 1, Len(work) - 1) ELSE Tail(work)
      /\ a' = tree.m_nodes[parent'].head_out
      /\ tree' = tree /\ root_node' = root_node /\ new_srd' = new_srd
      /\ visited' = visited
  BY DEF SlicePop, new
<1>2. /\ work \in Seq(NodeIds) /\ Len(work) \in Nat \ {0}
      /\ \A k \in 1 .. Len(work) : work[k] \in NodeIds /\ visited[work[k]] # invalid_node
  <2>1. work \in Seq(NodeIds)
    BY <1>1 DEF DInv, SliceOK
  <2>2. Len(work) \in Nat /\ Len(work) # 0 /\ \A k \in 1 .. Len(work) : work[k] \in NodeIds
    BY <2>1, <1>1, EmptySeq, ElementOfSeq, LenProperties
  <2> QED
    BY <2>1, <2>2, <1>1 DEF DInv, SliceOK
<1>3. parent' \in NodeIds /\ visited[parent'] # invalid_node
  <2>1. 1 \in 1 .. Len(work) /\ Len(work) \in 1 .. Len(work)
    BY <1>2
  <2>2. Head(work) = work[1]
    BY <1>2
  <2> QED
    BY <2>1, <2>2, <1>1, <1>2
<1>4. /\ work' \in Seq(NodeIds)
      /\ \A k \in 1 .. Len(work') : visited[work'[k]] # invalid_node
  <2>1. CASE order = "DF"
    <3> DEFINE n == Len(work) - 1
    <3>1. work' = SubSeq(work, 1, n) /\ n \in Int /\ \A k \in 1 .. n : k \in 1 .. Len(work)
      BY <2>1, <1>1, <1>2
    <3>2. \A k \in 1 .. n : work[k] \in NodeIds
      BY <3>1, <1>2
    <3> HIDE DEF n
    <3>3. /\ work' \in Seq(NodeIds)
          /\ Len(work') = IF 1 <= n THEN n - 1 + 1 ELSE 0
          /\ \A k \in 1 .. n - 1 + 1 : work'[k] = work[1 + k - 1]
      BY <3>1, <3>2, SubSeqProperties
    <3>4. \A k \in 1 .. Len(work') : k \in 1 .. n /\ work'[k] = work[k]
      BY <3>1, <3>3
    <3> QED
      BY <3>1, <3>3, <3>4, <1>2
  <2>2. CASE order # "DF"
    <3>1. /\ work' \in Seq(NodeIds) /\ Len(work') = Len(work) - 1
          /\ \A k \in 1 .. Len(work') : work'[k] = work[k + 1]
      BY <2>2, <1>1, <1>2, HeadTailProperties
    <3>2. \A k \in 1 .. Len(work') : k + 1 \in 1 .. Len(work)
      BY <3>1, <1>2
    <3> QED
      BY <3>1, <3>2, <1>2
  <2> QED
    BY <2>1, <2>2
<1>5. a' \in ArcIds(tree) \cup {invalid_arc}
  <2>1. tree.m_nodes[parent'].head_out \in ArcIds(tree) \cup {invalid_arc}
    BY <1>3, TypeFacts DEF DInv, GoodTree, NodeIds
  <2> QED
    BY <2>1, <1>1
<1> QED
  BY <1>1, <1>3, <1>4, <1>5 DEF DInv, SliceOK, NodeIds

\* Copying an arc adds it, and its target if that is new, to the lists of the slice.
LEMMA SliceArcKeeps ==
    ASSUME DInv, SliceArc
    PROVE  DInv'
<1> DEFINE child == tree.m_arcs[a].target
           news == DOMAIN new_srd.m_nodes
<1>1. /\ pc = "slice" /\ pc' = pc /\ a # invalid_arc
      /\ a' = tree.m_arcs[a].next_out
      /\ tree' = tree /\ root_node' = root_node /\ parent' = parent
      /\ \/ visited[child] = invalid_node /\ CopyChild(child)
         \/ visited[child] # invalid_node /\ CopyArc(child)
  BY DEF SliceArc
<1>2. /\ GoodTree(tree) /\ GoodTree(new_srd)
      /\ root_node \in NodeIds /\ root_node = 1
      /\ visited \in [NodeIds -> news \cup {invalid_node}]
      /\ work \in Seq(NodeIds)
      /\ \A k \in 1 .. Len(work) : visited[work[k]] # invalid_node
      /\ a \in ArcIds(tree) /\ parent \in NodeIds /\ visited[parent] # invalid_node
  BY <1>1 DEF DInv, SliceOK
<1>3. /\ child \in NodeIds
      /\ a' \in ArcIds(tree) \cup {invalid_arc}
  <2>1. /\ tree.m_arcs[a].target \in DOMAIN tree.m_nodes
        /\ tree.m_arcs[a].next_out \in ArcIds(tree) \cup {invalid_arc}
    BY <1>2, TypeFacts DEF GoodTree
  <2> QED
    BY <2>1, <1>1 DEF NodeIds
<1>4. visited[parent] \in news
  BY <1>2
<1> HIDE DEF child
<1>5. CASE CopyChild(child)
  <2> DEFINE t == Len(new_srd.m_nodes) + 1
  <2>1. /\ new_srd' = addNode(new_srd, visited[parent])
        /\ visited' = [visited EXCEPT ![child] = t]
        /\ work' = Append(work, child)
    BY <1>5 DEF CopyChild
  <2>2. GoodTree(new_srd') /\ DOMAIN new_srd'.m_nodes = news \cup {t}
    BY <2>1, <1>2, <1>4, AddNodeGood
  <2>3. t # invalid_node
    <3>1. Len(new_srd.m_nodes) \in Nat
      BY <1>2, TypeFacts DEF GoodTree
    <3> QED
      BY <3>1 DEF invalid_node
  <2> HIDE DEF t, news
  <2>4. /\ visited' \in [NodeIds -> (news \cup {t}) \cup {invalid_node}]
        /\ visited'[child] # invalid_node
        /\ \A n \in NodeIds : visited[n] # invalid_node => visited'[n] # invalid_node
    BY <2>1, <2>3, <1>2, <1>3
  <2>5. /\ work' \in Seq(NodeIds) /\ Len(work') = Len(work) + 1
        /\ \A k \in 1 .. Len(work) : work'[k] = work[k] /\ work[k] \in NodeIds
        /\ work'[Len(work) + 1] = child /\ Len(work) \in Nat
    BY <2>1, <1>2, <1>3, AppendProperties, LenProperties, ElementOfSeq
  <2>6. \A k \in 1 .. Len(work') : visited'[work'[k]] # invalid_node
    <3>1. \A k \in 1 .. Len(work') : k \in 1 .. Len(work) \/ k = Len(work) + 1
      BY <2>5
    <3> QED
      BY <3>1, <2>4, <2>5, <1>2
  <2> QED
    BY <2>2, <2>4, <2>5, <2>6, <1>1, <1>2, <1>3 DEF DInv, SliceOK, NodeIds
<1>6. CASE visited[child] # invalid_node /\ CopyArc(child)
  <2>1. /\ new_srd' = addArc(new_srd, visited[parent], visited[child])
        /\ visited' = visited /\ work' = work
    BY <1>6 DEF CopyArc
  <2>2. visited[child] \in news
    BY <1>2, <1>3, <1>6
  <2>3. GoodTree(new_srd') /\ DOMAIN new_srd'.m_nodes = news
    BY <2>1, <2>2, <1>2, <1>4, AddArcGood
  <2> QED
    BY <2>1, <2>3, <1>1, <1>2, <1>3 DEF DInv, SliceOK, NodeIds
<1> QED
  BY <1>1, <1>5, <1>6

\* The invariant holds at every step.
THEOREM DInvHolds == Spec => []DInv
<1>1. Init => DInv
  BY TreeGood DEF Init, DInv, SliceOK, NodeIds
<1>2. DInv /\ [Next]_vars => DInv'
  <2> SUFFICES ASSUME DInv, [Next]_vars PROVE DInv'
    OBVIOUS
  <2>1. CASE AddNode \/ AddArc \/ SetRoot \/ Clear
    BY <2>1, ClientSteps
  <2>2. CASE Slice
    BY <2>2, SliceKeeps
  <2>3. CASE SlicePop
    BY <2>3, SlicePopKeeps
  <2>4. CASE SliceArc
    BY <2>4, SliceArcKeeps
  <2>5. CASE SliceReturn
    BY <2>5 DEF SliceReturn, slicing, new, DInv, SliceOK, NodeIds
  <2>6. CASE Adopt
    <3>1. /\ pc = "sliced" /\ pc' = "client" /\ tree' \in {tree, new_srd}
          /\ new_srd' = Tree /\ root_node' = root_node
      BY <2>6 DEF Adopt
    <3>2. root_node = 1 /\ GoodTree(tree) /\ GoodTree(new_srd)
      BY <3>1 DEF DInv, SliceOK
    <3>3. 1 \in DOMAIN tree.m_nodes /\ 1 \in DOMAIN new_srd.m_nodes
      <4>1. \A n \in Nat \ {0} : 1 \in 1 .. n
        OBVIOUS
      <4> QED
        BY <4>1, <3>2, TypeFacts DEF GoodTree
    <3>4. GoodTree(tree') /\ root_node' \in DOMAIN tree'.m_nodes
      BY <3>1, <3>2, <3>3
    <3> QED
      BY <3>1, <3>4, TreeGood DEF DInv, SliceOK, NodeIds
  <2>7. CASE UNCHANGED vars
    BY <2>7 DEF vars, slicing, new, DInv, SliceOK, NodeIds
  <2> QED
    BY <2>1, <2>2, <2>3, <2>4, <2>5, <2>6, <2>7 DEF Next, SliceStep
<1> QED
  BY <1>1, <1>2, PTL DEF Spec

\* The linked lists of both trees hold exactly their arcs, after every addNode(),
\* addArc(), setRoot() and clear() and at every turn of sliceDF() and sliceBF(),
\* in trees of every size.
THEOREM ListsExactHolds == Spec => []ListsExact
<1>1. DInv => ListsExact
  BY GoodIsListed DEF DInv, ListsExact
<1> QED
  BY <1>1, DInvHolds, PTL

-----------------------------------------------------------------------------
(* A slice is a copy.                                                      *)

Copied    == {n \in NodeIds : visited[n] # invalid_node}
OldOut(n) == Outs(tree)[n]
NewOut(n) == Outs(new_srd)[visited[n]]
InWork(n) == \E k \in 1 .. Len(work) : work[k] = n

\* Nodes are copied one to one, and old_node first.
Numbered ==
    /\ visited \in [NodeIds -> DOMAIN new_srd.m_nodes \cup {invalid_node}]
    /\ old_node \in NodeIds /\ visited[old_node] = 1
    /\ \A i \in DOMAIN new_srd.m_nodes : \E n \in Copied : visited[n] = i
    /\ node_data \in Seq(Nat) /\ Len(node_data) = Len(new_srd.m_nodes)
    /\ \A n \in Copied : node_data[visited[n]] = n

\* The list out of a copy is a copy of the beginning of its original's.
ListsCopied ==
    /\ arc_data \in Seq(Nat) /\ Len(arc_data) = Len(new_srd.m_arcs)
    /\ \A n \in Copied :
          /\ Len(NewOut(n)) <= Len(OldOut(n))
          /\ \A k \in 1 .. Len(NewOut(n)) :
                LET child == tree.m_arcs[OldOut(n)[k]].target
                IN  /\ arc_data[NewOut(n)[k]] = OldOut(n)[k]
                    /\ child \in Copied
                    /\ new_srd.m_arcs[NewOut(n)[k]].target = visited[child]

\* How far: not at all for the nodes in the stack or queue, up to arc a for
\* parent, and to the end for the others.
Pending ==
    /\ \A j, k \in 1 .. Len(work) : work[j] = work[k] => j = k
    /\ work \in Seq(NodeIds)
    /\ \A n \in NodeIds : InWork(n) => n \in Copied /\ Len(NewOut(n)) = 0
    /\ a # invalid_arc =>
          /\ parent \in Copied /\ ~ InWork(parent)
          /\ Len(NewOut(parent)) < Len(OldOut(parent))
          /\ a = OldOut(parent)[Len(NewOut(parent)) + 1]
    /\ \A n \in Copied : ~ InWork(n) /\ (n = parent => a = invalid_arc) =>
          Len(NewOut(n)) = Len(OldOut(n))

\* Every copied node but old_node was met through an arc from an earlier one.
Entered ==
    \A n \in Copied : n # old_node =>
        \E x \in ArcIds(tree) :
            /\ tree.m_arcs[x].target = n /\ tree.m_arcs[x].source \in Copied
            /\ visited[tree.m_arcs[x].source] < visited[n]

RootArcs ==
    /\ tree.m_arcs[root_arc].source = invalid_node
    /\ new_srd.m_arcs[root_arc].source = invalid_node

SInv ==
    /\ RootArcs
    /\ pc # "client" /\ old_node # invalid_node =>
          /\ Numbered /\ ListsCopied /\ Pending /\ Entered
          /\ pc = "sliced" => work = << >> /\ a = invalid_arc

\* A list out, arc by arc.
LEMMA OutFacts ==
    ASSUME NEW tr, GoodTree(tr), NEW n \in DOMAIN tr.m_nodes
    PROVE  LET L == Outs(tr)[n]
           IN  /\ L = OutArcs(tr.m_arcs, tr.m_nodes, n)
               /\ L \in Seq(ArcIds(tr)) /\ Len(L) \in Nat /\ DOMAIN L = 1 .. Len(L)
               /\ \A k \in 1 .. Len(L) :
                     /\ L[k] \in ArcIds(tr) /\ L[k] # invalid_arc
                     /\ tr.m_arcs[L[k]].source = n
                     /\ tr.m_arcs[L[k]].next_out = IF k < Len(L) THEN L[k + 1] ELSE invalid_arc
               /\ tr.m_nodes[n].head_out = IF Len(L) = 0 THEN invalid_arc ELSE L[1]
               /\ \A y \in ArcIds(tr) : y # root_arc /\ tr.m_arcs[y].source = n =>
                     \E k \in 1 .. Len(L) : L[k] = y
<1> DEFINE L == Outs(tr)[n]
<1>1. L = OutArcs(tr.m_arcs, tr.m_nodes, n)
  BY DEF Outs
<1>2. OneList(L, tr.m_nodes[n].head_out, tr.m_nodes[n].tail_out, NextOut(tr), Leaving(tr, n))
  BY DEF GoodTree, WellListed
<1> HIDE DEF L
<1>3. ArcIds(tr) = 1 .. Len(tr.m_arcs) /\ DOMAIN NextOut(tr) = ArcIds(tr)
  BY TypeFacts DEF GoodTree, NextOut
<1>4. /\ L \in Seq(ArcIds(tr))
      /\ tr.m_nodes[n].head_out = IF Len(L) = 0 THEN invalid_arc ELSE L[1]
      /\ \A k \in 1 .. Len(L) : NextOut(tr)[L[k]] = IF k < Len(L) THEN L[k + 1] ELSE invalid_arc
      /\ ElementsOf(L) = Leaving(tr, n)
  BY <1>2, <1>3 DEF OneList, Chain
<1>5. /\ Len(L) \in Nat /\ DOMAIN L = 1 .. Len(L)
      /\ \A k \in 1 .. Len(L) : L[k] \in ArcIds(tr)
  BY <1>4, LenProperties, ElementOfSeq
<1>6. \A x \in ArcIds(tr) : x # invalid_arc /\ NextOut(tr)[x] = tr.m_arcs[x].next_out
  BY <1>3 DEF NextOut, invalid_arc
<1>7. \A y : y \in Leaving(tr, n) <=> \E k \in 1 .. Len(L) : L[k] = y
  BY <1>4, <1>5 DEF ElementsOf
<1>8. \A k \in 1 .. Len(L) : tr.m_arcs[L[k]].source = n
  BY <1>7 DEF Leaving
<1>9. \A y \in ArcIds(tr) : y # root_arc /\ tr.m_arcs[y].source = n =>
         \E k \in 1 .. Len(L) : L[k] = y
  BY <1>7 DEF Leaving
<1>10. \A k \in 1 .. Len(L) : tr.m_arcs[L[k]].next_out = IF k < Len(L) THEN L[k + 1] ELSE invalid_arc
  BY <1>4, <1>5, <1>6
<1> QED
  BY <1>1, <1>4, <1>5, <1>6, <1>8, <1>9, <1>10 DEF L

\* The numbering is one to one, and what it numbers are nodes of both trees.
LEMMA NumberedFacts ==
    ASSUME DInv, Numbered
    PROVE  /\ \A n \in Copied : n \in NodeIds /\ visited[n] \in DOMAIN new_srd.m_nodes
           /\ \A m, n \in Copied : visited[m] = visited[n] => m = n
           /\ old_node \in Copied
           /\ DOMAIN new_srd.m_nodes = 1 .. Len(new_srd.m_nodes)
           /\ Len(new_srd.m_nodes) \in Nat \ {0}
           /\ NodeIds = 1 .. Len(tree.m_nodes) /\ Len(tree.m_nodes) \in Nat
<1>1. /\ DOMAIN new_srd.m_nodes = 1 .. Len(new_srd.m_nodes)
      /\ Len(new_srd.m_nodes) \in Nat \ {0}
      /\ NodeIds = 1 .. Len(tree.m_nodes) /\ Len(tree.m_nodes) \in Nat
  BY TypeFacts DEF DInv, GoodTree, NodeIds
<1>2. \A n \in Copied : n \in NodeIds /\ visited[n] \in DOMAIN new_srd.m_nodes
  BY DEF Numbered, Copied
<1>3. \A m, n \in Copied : visited[m] = visited[n] => m = n
  BY DEF Numbered
<1>4. old_node \in Copied
  BY DEF Numbered, Copied, invalid_node
<1> QED
  BY <1>1, <1>2, <1>3, <1>4

\* A slice starts with one node copied and no arc.
LEMMA SliceStarts ==
    ASSUME DInv, SInv, Slice
    PROVE  SInv'
<1>0. /\ tree' = tree /\ new_srd' = Tree /\ pc' = "slice" /\ root_node = 1
      /\ old_node' \in NodeIds \cup {invalid_node}
      /\ arc_data' = << 0 >> /\ node_data' = [<< 0 >> EXCEPT ![root_node] = old_node']
      /\ visited' = [n \in NodeIds |-> IF n = old_node' THEN root_node ELSE invalid_node]
      /\ work' = IF old_node' = invalid_node THEN << >> ELSE << old_node' >>
      /\ parent' = invalid_node /\ a' = invalid_arc
  BY DEF Slice
<1>1. RootArcs'
  BY <1>0 DEF SInv, RootArcs, Tree, NewArc, root_arc
<1> SUFFICES ASSUME old_node' # invalid_node
             PROVE  Numbered' /\ ListsCopied' /\ Pending' /\ Entered'
  BY <1>0, <1>1 DEF SInv
<1>a. PICK o : o = old_node'
  OBVIOUS
<1>2. o \in NodeIds /\ NodeIds' = NodeIds /\ NodeIds \subseteq Nat
  BY <1>0, <1>a, TypeFacts DEF NodeIds, DInv, GoodTree
<1>3. /\ Copied' = {o} /\ visited'[o] = 1
      /\ visited' \in [NodeIds -> {1} \cup {invalid_node}]
  BY <1>0, <1>a, <1>2 DEF Copied, invalid_node
<1>4. /\ DOMAIN Tree.m_nodes = {1} /\ ArcIds(Tree) = {1}
      /\ Len(Tree.m_nodes) = 1 /\ Len(Tree.m_arcs) = 1
  BY TreeGood DEF Tree
<1>5. Outs(Tree)[1] = << >>
  BY TreeGood
<1>6. node_data' = << o >> /\ node_data' \in Seq(Nat) /\ Len(node_data') = 1 /\ node_data'[1] = o
  <2>1. node_data' = << o >>
    BY <1>0, <1>a
  <2> QED
    BY <2>1, <1>2
<1>7. arc_data' \in Seq(Nat) /\ Len(arc_data') = 1
  BY <1>0, <1>a
<1>8. /\ work' = << o >> /\ Len(work') = 1 /\ work'[1] = o /\ work' \in Seq(NodeIds)
      /\ \A k \in 1 .. 1 : k = 1
  BY <1>0, <1>a, <1>2
<1>9. NewOut(o)' = << >> /\ Len(NewOut(o)') = 0
  <2>1. NewOut(o)' = Outs(Tree)[1]
    BY <1>0, <1>a, <1>3 DEF NewOut
  <2> QED
    BY <2>1, <1>5
<1>10. Len(OldOut(o)') \in Nat
  BY <1>0, <1>a, <1>2, OutFacts DEF OldOut, DInv, NodeIds
<1>11. Numbered'
  BY <1>0, <1>a, <1>2, <1>3, <1>4, <1>6 DEF Numbered
<1>12. ListsCopied'
  <2>1. \A k : k \notin 1 .. 0
    OBVIOUS
  <2>2. Len(NewOut(o)') <= Len(OldOut(o)')
    BY <1>9, <1>10
  <2> QED
    BY <2>1, <2>2, <1>0, <1>a, <1>3, <1>4, <1>7, <1>9 DEF ListsCopied
<1>13. Pending'
  <2>1. InWork(o)' /\ \A n : InWork(n)' => n = o
    BY <1>8 DEF InWork
  <2> QED
    BY <2>1, <1>0, <1>a, <1>2, <1>3, <1>8, <1>9 DEF Pending
<1>14. Entered'
  BY <1>a, <1>3 DEF Entered
<1> QED
  BY <1>11, <1>12, <1>13, <1>14

\* v has the elements of w but p, each once.
LessOne(S, w, p, v) ==
    /\ \E k \in 1 .. Len(w) : w[k] = p
    /\ v \in Seq(S)
    /\ \A j, k \in 1 .. Len(v) : v[j] = v[k] => j = k
    /\ \A k \in 1 .. Len(v) : v[k] # p /\ \E j \in 1 .. Len(w) : w[j] = v[k]
    /\ \A j \in 1 .. Len(w) : w[j] = p \/ \E k \in 1 .. Len(v) : v[k] = w[j]

\* Taking a node off the stack or the queue takes just that one.
LEMMA Taken ==
    ASSUME NEW S, NEW w \in Seq(S), w # << >>, NEW dir, NEW p, NEW v,
           \A j, k \in 1 .. Len(w) : w[j] = w[k] => j = k,
           p = IF dir = "DF" THEN w[Len(w)] ELSE Head(w),
           v = IF dir = "DF" THEN SubSeq(w, 1, Len(w) - 1) ELSE Tail(w)
    PROVE  LessOne(S, w, p, v)
<1> DEFINE back == dir = "DF"
           d == IF back THEN 0 ELSE 1
           N == Len(w) - 1
<1>1. Len(w) \in Nat \ {0} /\ N \in Nat /\ Len(w) = N + 1 /\ d \in {0, 1}
      /\ \A k \in 1 .. Len(w) : w[k] \in S
  <2>1. Len(w) \in Nat /\ Len(w) # 0 /\ \A k \in 1 .. Len(w) : w[k] \in S
    BY EmptySeq, ElementOfSeq, LenProperties
  <2> QED
    BY <2>1
<1>2. v \in Seq(S) /\ Len(v) = N /\ \A k \in 1 .. N : v[k] = w[k + d]
  <2>1. CASE back
    <3>1. v = SubSeq(w, 1, N) /\ N \in Int /\ \A k \in 1 .. N : k \in 1 .. Len(w)
      BY <2>1, <1>1
    <3>2. \A k \in 1 .. N : w[k] \in S
      BY <3>1, <1>1
    <3> HIDE DEF N
    <3>3. /\ v \in Seq(S)
          /\ Len(v) = IF 1 <= N THEN N - 1 + 1 ELSE 0
          /\ \A k \in 1 .. N - 1 + 1 : v[k] = w[1 + k - 1]
      BY <3>1, <3>2, SubSeqProperties
    <3>4. \A k \in 1 .. N : k \in 1 .. N - 1 + 1 /\ 1 + k - 1 = k /\ k + d = k
      BY <1>1, <2>1
    <3>5. Len(v) = N
      BY <1>1, <3>3
    <3> QED
      BY <3>3, <3>4, <3>5
  <2>2. CASE ~ back
    <3>1. v = Tail(w) /\ d = 1
      BY <2>2
    <3> QED
      BY <3>1, <1>1, HeadTailProperties
  <2> QED
    BY <2>1, <2>2
<1>3. p = w[IF back THEN N + 1 ELSE 1]
  <2>1. Head(w) = w[1]
    OBVIOUS
  <2> QED
    BY <2>1, <1>1
<1> HIDE DEF N
<1>4. \A k \in 1 .. N : k + d \in 1 .. N + 1 /\ k + d # IF back THEN N + 1 ELSE 1
  BY <1>1
<1>5. \A j \in 1 .. N + 1 : j = (IF back THEN N + 1 ELSE 1) \/ \E k \in 1 .. N : k + d = j
  <2> SUFFICES ASSUME NEW j \in 1 .. N + 1, j # IF back THEN N + 1 ELSE 1
               PROVE  \E k \in 1 .. N : k + d = j
    OBVIOUS
  <2>1. j - d \in 1 .. N /\ (j - d) + d = j
    BY <1>1
  <2> QED
    BY <2>1
<1>6. (IF back THEN N + 1 ELSE 1) \in 1 .. N + 1
  BY <1>1
<1>7. \A j, k \in 1 .. N : j + d = k + d => j = k
  BY <1>1
<1> HIDE DEF d
<1>8. \A j, k \in 1 .. Len(v) : v[j] = v[k] => j = k
  BY <1>1, <1>2, <1>4, <1>7
<1>9. \A k \in 1 .. Len(v) : v[k] # p /\ \E j \in 1 .. Len(w) : w[j] = v[k]
  BY <1>1, <1>2, <1>3, <1>4, <1>6
<1>10. \A j \in 1 .. Len(w) : w[j] = p \/ \E k \in 1 .. Len(v) : v[k] = w[j]
  <2> SUFFICES ASSUME NEW j \in 1 .. N + 1, w[j] # p
               PROVE  \E k \in 1 .. N : v[k] = w[j]
    BY <1>1, <1>2
  <2>1. PICK k \in 1 .. N : k + d = j
    BY <1>3, <1>5
  <2> QED
    BY <2>1, <1>2
<1>11. \E k \in 1 .. Len(w) : w[k] = p
  BY <1>1, <1>3, <1>6
<1> QED
  BY <1>2, <1>8, <1>9, <1>10, <1>11 DEF LessOne

\* Taking a node copies nothing; its first arc is the next to be copied.
LEMMA SlicePopCopies ==
    ASSUME DInv, SInv, SlicePop
    PROVE  SInv'
<1>0. /\ pc = "slice" /\ pc' = pc /\ a = invalid_arc /\ work # << >>
      /\ parent' = IF order = "DF" THEN work[Len(work)] ELSE Head(work)
      /\ work' = IF order = "DF" THEN SubSeq(work, 1, Len(work) - 1) ELSE Tail(work)
      /\ a' = tree.m_nodes[parent'].head_out
      /\ tree' = tree /\ new_srd' = new_srd /\ arc_data' = arc_data /\ node_data' = node_data
      /\ visited' = visited /\ old_node' = old_node
  BY DEF SlicePop, new
<1>1. RootArcs'
  BY <1>0 DEF SInv, RootArcs
<1> SUFFICES ASSUME old_node # invalid_node
             PROVE  Numbered' /\ ListsCopied' /\ Pending' /\ Entered'
  BY <1>0, <1>1 DEF SInv
<1>2. Numbered /\ ListsCopied /\ Pending /\ Entered
  BY <1>0 DEF SInv
<1>3. /\ Copied' = Copied /\ NodeIds' = NodeIds
      /\ \A n : OldOut(n)' = OldOut(n) /\ NewOut(n)' = NewOut(n)
  BY <1>0 DEF Copied, NodeIds, OldOut, NewOut
<1>4. Numbered'
  BY <1>0, <1>2, <1>3 DEF Numbered
<1>5. ListsCopied'
  BY <1>0, <1>2, <1>3 DEF ListsCopied
<1>6. Entered'
  BY <1>0, <1>2, <1>3 DEF Entered
<1>7. PICK p : p = parent'
  OBVIOUS
<1>8. /\ InWork(p) /\ work' \in Seq(NodeIds)
      /\ \A j, k \in 1 .. Len(work') : work'[j] = work'[k] => j = k
      /\ \A n : InWork(n)' <=> InWork(n) /\ n # p
  <2>1. work \in Seq(NodeIds) /\ \A j, k \in 1 .. Len(work) : work[j] = work[k] => j = k
    BY <1>2 DEF Pending
  <2>2. /\ p = IF order = "DF" THEN work[Len(work)] ELSE Head(work)
        /\ work' = IF order = "DF" THEN SubSeq(work, 1, Len(work) - 1) ELSE Tail(work)
    BY <1>0, <1>7
  <2>a. work # << >>
    BY <1>0
  <2>3. LessOne(NodeIds, work, p, work')
    BY <2>a, <2>1, <2>2, Taken
  <2> QED
    BY <2>3 DEF LessOne, InWork
<1>9. p \in NodeIds /\ p \in Copied /\ Len(NewOut(p)) = 0
  <2>1. p \in NodeIds
    <3>1. PICK k \in 1 .. Len(work) : work[k] = p
      BY <1>8 DEF InWork
    <3>2. work \in Seq(NodeIds)
      BY <1>2 DEF Pending
    <3> QED
      BY <3>1, <3>2, ElementOfSeq
  <2> QED
    BY <2>1, <1>2, <1>8 DEF Pending
<1>10. /\ Len(OldOut(p)) \in Nat
       /\ a' = IF Len(OldOut(p)) = 0 THEN invalid_arc ELSE OldOut(p)[1]
       /\ Len(OldOut(p)) # 0 => OldOut(p)[1] # invalid_arc
  <2>1. GoodTree(tree) /\ p \in DOMAIN tree.m_nodes
    BY <1>9 DEF DInv, NodeIds
  <2>2. /\ Len(OldOut(p)) \in Nat
        /\ \A k \in 1 .. Len(OldOut(p)) : OldOut(p)[k] # invalid_arc
        /\ tree.m_nodes[p].head_out = IF Len(OldOut(p)) = 0 THEN invalid_arc ELSE OldOut(p)[1]
    BY <2>1, OutFacts DEF OldOut
  <2>3. Len(OldOut(p)) # 0 => 1 \in 1 .. Len(OldOut(p))
    BY <2>2
  <2> QED
    BY <2>2, <2>3, <1>0, <1>7
<1>11. \A n \in NodeIds : InWork(n)' => n \in Copied' /\ Len(NewOut(n)') = 0
  BY <1>2, <1>3, <1>8 DEF Pending
<1>12. a' # invalid_arc =>
          /\ p \in Copied' /\ ~ InWork(p)'
          /\ Len(NewOut(p)') < Len(OldOut(p)')
          /\ a' = OldOut(p)'[Len(NewOut(p)') + 1]
  BY <1>3, <1>8, <1>9, <1>10
<1>13. ASSUME NEW n \in Copied', ~ InWork(n)', n = p => a' = invalid_arc
       PROVE  Len(NewOut(n)') = Len(OldOut(n)')
  <2>1. CASE n = p
    BY <2>1, <1>3, <1>9, <1>10, <1>13
  <2>2. CASE n # p
    BY <2>2, <1>0, <1>2, <1>3, <1>8, <1>13 DEF Pending
  <2> QED
    BY <2>1, <2>2
<1>14. Pending'
  <2>1. parent' = p
    BY <1>7
  <2> QED
    BY <2>1, <1>3, <1>8, <1>11, <1>12, <1>13 DEF Pending
<1> QED
  BY <1>4, <1>5, <1>6, <1>14

\* The number of arcs from their ids.
LEMMA ArcCount ==
    ASSUME NEW tr, NEW r, GoodTree(tr), GoodTree(r), ArcIds(r) = 1 .. Len(tr.m_arcs) + 1
    PROVE  Len(r.m_arcs) = Len(tr.m_arcs) + 1
<1>1. Len(tr.m_arcs) \in Nat /\ Len(r.m_arcs) \in Nat /\ ArcIds(r) = 1 .. Len(r.m_arcs)
  BY TypeFacts DEF GoodTree
<1>2. \A i, j \in Nat : 1 .. i = 1 .. j + 1 => i = j + 1
  <2> SUFFICES ASSUME NEW i \in Nat, NEW j \in Nat, 1 .. i = 1 .. j + 1 PROVE i = j + 1
    OBVIOUS
  <2>1. j + 1 \in 1 .. i
    OBVIOUS
  <2>2. i \in 1 .. j + 1
    BY <2>1
  <2> QED
    BY <2>1, <2>2
<1> QED
  BY <1>1, <1>2

\* What copying arc a, and its target c if that is new, changes.
ArcTaken(c) ==
    LET x == Len(new_srd.m_arcs) + 1
    IN  /\ Numbered'
        /\ Copied' = Copied \cup {c}
        /\ \A n \in Copied : visited'[n] = visited[n]
        /\ \A n \in Copied : NewOut(n)' = IF n = parent THEN Append(NewOut(n), x) ELSE NewOut(n)
        /\ c \notin Copied => NewOut(c)' = << >> /\ visited[parent] < visited'[c]
        /\ \A n : InWork(n)' <=> InWork(n) \/ (n = c /\ c \notin Copied)
        /\ work' \in Seq(NodeIds)
        /\ \A j, k \in 1 .. Len(work') : work'[j] = work'[k] => j = k
        /\ Len(new_srd'.m_arcs) = x
        /\ new_srd'.m_arcs[x].target = visited'[c]
        /\ \A y \in ArcIds(new_srd) : /\ new_srd'.m_arcs[y].target = new_srd.m_arcs[y].target
                                      /\ new_srd'.m_arcs[y].source = new_srd.m_arcs[y].source

\* What the two cases of a turn start from.
LEMMA TurnFacts ==
    ASSUME DInv, SInv, SliceArc, old_node # invalid_node
    PROVE  /\ Numbered /\ ListsCopied /\ Pending /\ Entered
           /\ GoodTree(tree) /\ GoodTree(new_srd) /\ GoodTree(new_srd')
           /\ parent \in Copied /\ visited[parent] \in DOMAIN new_srd.m_nodes
           /\ a \in ArcIds(tree) /\ tree.m_arcs[a].target \in NodeIds
           /\ tree.m_arcs[a].source = parent
           /\ tree' = tree /\ old_node' = old_node /\ parent' = parent
           /\ NodeIds' = NodeIds
<1>1. /\ pc = "slice" /\ a # invalid_arc
      /\ tree' = tree /\ old_node' = old_node /\ parent' = parent
  BY DEF SliceArc
<1>2. Numbered /\ ListsCopied /\ Pending /\ Entered
  BY <1>1 DEF SInv
<1>3. GoodTree(tree) /\ GoodTree(new_srd) /\ GoodTree(new_srd')
  BY SliceArcKeeps DEF DInv
<1>4. /\ parent \in Copied /\ Len(NewOut(parent)) < Len(OldOut(parent))
      /\ a = OldOut(parent)[Len(NewOut(parent)) + 1]
  BY <1>1, <1>2 DEF Pending
<1>5. visited[parent] \in DOMAIN new_srd.m_nodes /\ parent \in NodeIds
  BY <1>2, <1>4, NumberedFacts
<1>6. /\ Len(OldOut(parent)) \in Nat
      /\ \A k \in 1 .. Len(OldOut(parent)) :
            /\ OldOut(parent)[k] \in ArcIds(tree)
            /\ tree.m_arcs[OldOut(parent)[k]].source = parent
  BY <1>3, <1>5, OutFacts DEF OldOut, NodeIds
<1>7. Len(NewOut(parent)) \in Nat
  BY <1>3, <1>5, OutFacts DEF NewOut
<1>8. Len(NewOut(parent)) + 1 \in 1 .. Len(OldOut(parent))
  BY <1>4, <1>6, <1>7
<1>9. a \in ArcIds(tree) /\ tree.m_arcs[a].source = parent
  BY <1>4, <1>6, <1>8
<1>10. tree.m_arcs[a].target \in NodeIds
  BY <1>3, <1>9, TypeFacts DEF GoodTree, NodeIds
<1> QED
  BY <1>1, <1>2, <1>3, <1>4, <1>5, <1>9, <1>10 DEF NodeIds

\* A child that is not copied yet is.
LEMMA ChildTaken ==
    ASSUME DInv, SInv, SliceArc, old_node # invalid_node,
           NEW c, c = tree.m_arcs[a].target, visited[c] = invalid_node, CopyChild(c)
    PROVE  ArcTaken(c)
<1> DEFINE K == Len(new_srd.m_nodes)
           t == K + 1
           x == Len(new_srd.m_arcs) + 1
           s == visited[parent]
<1>1. /\ new_srd' = addNode(new_srd, s) /\ visited' = [visited EXCEPT ![c] = t]
      /\ work' = Append(work, c) /\ node_data' = Append(node_data, c)
  BY DEF CopyChild
<1>2. /\ Numbered /\ Pending /\ GoodTree(new_srd) /\ GoodTree(new_srd')
      /\ parent \in Copied /\ s \in DOMAIN new_srd.m_nodes /\ c \in NodeIds
      /\ tree' = tree /\ old_node' = old_node /\ NodeIds' = NodeIds
  BY TurnFacts
<1>3. /\ \A n \in Copied : n \in NodeIds /\ visited[n] \in DOMAIN new_srd.m_nodes
      /\ \A m, n \in Copied : visited[m] = visited[n] => m = n
      /\ old_node \in Copied /\ DOMAIN new_srd.m_nodes = 1 .. K /\ K \in Nat \ {0}
      /\ NodeIds \subseteq Nat
  BY <1>2, NumberedFacts
<1>4. /\ OutGrown(new_srd, new_srd', s, t) /\ Len(new_srd'.m_nodes) = t
      /\ DOMAIN new_srd'.m_nodes = DOMAIN new_srd.m_nodes \cup {t}
  BY <1>1, <1>2, AddNodeGood
<1>5. t \in Nat \ {0} /\ t # invalid_node /\ t \notin 1 .. K /\ \A i \in 1 .. K : i < t
  BY <1>3 DEF invalid_node
<1>6. c \notin Copied
  BY DEF Copied
<1> HIDE DEF K, t, x, s
<1>7. /\ DOMAIN visited = NodeIds /\ visited'[c] = t
      /\ \A n \in NodeIds : n # c => visited'[n] = visited[n]
      /\ visited' \in [NodeIds -> DOMAIN new_srd'.m_nodes \cup {invalid_node}]
  <2>1. visited \in [NodeIds -> DOMAIN new_srd.m_nodes \cup {invalid_node}]
    BY <1>2 DEF Numbered
  <2> QED
    BY <2>1, <1>1, <1>2, <1>4
<1>8. \A n \in Copied : n # c /\ visited'[n] = visited[n]
  BY <1>3, <1>6, <1>7
<1>9. Copied' = Copied \cup {c}
  BY <1>2, <1>5, <1>7 DEF Copied
<1>10. \A n \in Copied : NewOut(n)' = IF n = parent THEN Append(NewOut(n), x) ELSE NewOut(n)
  <2> SUFFICES ASSUME NEW n \in Copied
               PROVE  NewOut(n)' = IF n = parent THEN Append(NewOut(n), x) ELSE NewOut(n)
    OBVIOUS
  <2>1. visited'[n] = visited[n] /\ visited[n] \in DOMAIN new_srd.m_nodes
    BY <1>3, <1>8
  <2>2. visited[n] = s <=> n = parent
    BY <1>2, <1>3 DEF s
  <2>3. Outs(new_srd')[visited[n]] = IF visited[n] = s THEN Append(Outs(new_srd)[visited[n]], x)
                                     ELSE Outs(new_srd)[visited[n]]
    BY <2>1, <1>4 DEF OutGrown, x
  <2> QED
    BY <2>1, <2>2, <2>3 DEF NewOut
<1>11. NewOut(c)' = << >> /\ visited[parent] < visited'[c]
  <2>1. t \in DOMAIN new_srd'.m_nodes \ DOMAIN new_srd.m_nodes
    BY <1>3, <1>4, <1>5
  <2>2. Outs(new_srd')[t] = << >>
    BY <2>1, <1>4 DEF OutGrown
  <2>3. s < t
    BY <1>2, <1>3, <1>5
  <2> QED
    BY <2>2, <2>3, <1>7 DEF NewOut, s
<1>12. /\ work' \in Seq(NodeIds) /\ Len(work') = Len(work) + 1 /\ Len(work) \in Nat
       /\ \A k \in 1 .. Len(work) : work'[k] = work[k]
       /\ work'[Len(work) + 1] = c
  <2>1. work \in Seq(NodeIds)
    BY <1>2 DEF Pending
  <2> QED
    BY <2>1, <1>1, <1>2, AppendProperties, LenProperties
<1>13. \A k \in 1 .. Len(work) : work[k] # c
  <2>1. ~ InWork(c)
    BY <1>2, <1>6 DEF Pending
  <2> QED
    BY <2>1 DEF InWork
<1>14. /\ \A k \in 1 .. Len(work') : k \in 1 .. Len(work) \/ k = Len(work) + 1
       /\ \A k \in 1 .. Len(work) : k \in 1 .. Len(work')
       /\ Len(work) + 1 \in 1 .. Len(work')
  BY <1>12
<1>15. \A n : InWork(n)' <=> InWork(n) \/ n = c
  BY <1>12, <1>14 DEF InWork
<1>16. \A j, k \in 1 .. Len(work') : work'[j] = work'[k] => j = k
  <2>1. \A j, k \in 1 .. Len(work) : work[j] = work[k] => j = k
    BY <1>2 DEF Pending
  <2> QED
    BY <2>1, <1>12, <1>13, <1>14
<1>17. /\ Len(new_srd'.m_arcs) = x /\ new_srd'.m_arcs[x].target = visited'[c]
       /\ \A y \in ArcIds(new_srd) : /\ new_srd'.m_arcs[y].target = new_srd.m_arcs[y].target
                                     /\ new_srd'.m_arcs[y].source = new_srd.m_arcs[y].source
  <2>1. /\ ArcIds(new_srd') = 1 .. x /\ new_srd'.m_arcs[x].target = t
        /\ \A y \in ArcIds(new_srd) : /\ new_srd'.m_arcs[y].target = new_srd.m_arcs[y].target
                                      /\ new_srd'.m_arcs[y].source = new_srd.m_arcs[y].source
    BY <1>4 DEF OutGrown, x
  <2>2. Len(new_srd'.m_arcs) = x
    BY <2>1, <1>2, ArcCount DEF x
  <2> QED
    BY <2>1, <2>2, <1>7
<1>18. Numbered'
  <2>1. /\ node_data \in Seq(Nat) /\ Len(node_data) = K
        /\ \A n \in Copied : node_data[visited[n]] = n
        /\ \A i \in 1 .. K : \E n \in Copied : visited[n] = i
        /\ visited[old_node] = 1 /\ old_node \in NodeIds
    BY <1>2, <1>3 DEF Numbered, K
  <2>2. /\ node_data' \in Seq(Nat) /\ Len(node_data') = t
        /\ \A i \in 1 .. K : node_data'[i] = node_data[i]
        /\ node_data'[t] = c
    BY <2>1, <1>1, <1>2, <1>3, AppendProperties DEF t
  <2>3. \A n \in Copied' : node_data'[visited'[n]] = n
    <3> SUFFICES ASSUME NEW n \in Copied \cup {c} PROVE node_data'[visited'[n]] = n
      BY <1>9
    <3>1. CASE n = c
      BY <3>1, <2>2, <1>7
    <3>2. CASE n \in Copied
      <4>1. visited'[n] = visited[n] /\ visited[n] \in 1 .. K /\ node_data[visited[n]] = n
        BY <3>2, <2>1, <1>3, <1>8
      <4> QED
        BY <4>1, <2>2
    <3> QED
      BY <3>1, <3>2
  <2>4. \A i \in DOMAIN new_srd'.m_nodes : \E n \in Copied' : visited'[n] = i
    <3> SUFFICES ASSUME NEW i \in (1 .. K) \cup {t}
                 PROVE  \E n \in Copied \cup {c} : visited'[n] = i
      BY <1>3, <1>4, <1>9
    <3>1. CASE i = t
      BY <3>1, <1>7
    <3>2. CASE i \in 1 .. K
      <4>1. PICK n \in Copied : visited[n] = i
        BY <3>2, <2>1
      <4> QED
        BY <4>1, <1>8
    <3> QED
      BY <3>1, <3>2
  <2>5. old_node' \in NodeIds' /\ visited'[old_node'] = 1
    BY <2>1, <1>2, <1>3, <1>8
  <2> QED
    BY <2>2, <2>3, <2>4, <2>5, <1>2, <1>4, <1>7 DEF Numbered
<1> QED
  BY <1>6, <1>8, <1>9, <1>10, <1>11, <1>12, <1>15, <1>16, <1>17, <1>18 DEF ArcTaken, x

\* An arc to a child that has a copy is copied.
LEMMA LinkTaken ==
    ASSUME DInv, SInv, SliceArc, old_node # invalid_node,
           NEW c, c = tree.m_arcs[a].target, visited[c] # invalid_node, CopyArc(c)
    PROVE  ArcTaken(c)
<1> DEFINE t == visited[c]
           x == Len(new_srd.m_arcs) + 1
           s == visited[parent]
<1>1. /\ new_srd' = addArc(new_srd, s, t) /\ visited' = visited
      /\ work' = work /\ node_data' = node_data
  BY DEF CopyArc
<1>2. /\ Numbered /\ Pending /\ GoodTree(new_srd) /\ GoodTree(new_srd')
      /\ parent \in Copied /\ s \in DOMAIN new_srd.m_nodes /\ c \in NodeIds
      /\ tree' = tree /\ old_node' = old_node /\ NodeIds' = NodeIds
  BY TurnFacts
<1>3. /\ \A n \in Copied : n \in NodeIds /\ visited[n] \in DOMAIN new_srd.m_nodes
      /\ \A m, n \in Copied : visited[m] = visited[n] => m = n
  BY <1>2, NumberedFacts
<1>4. c \in Copied /\ t \in DOMAIN new_srd.m_nodes
  BY <1>2, <1>3 DEF Copied
<1>5. /\ OutGrown(new_srd, new_srd', s, t) /\ Len(new_srd'.m_nodes) = Len(new_srd.m_nodes)
      /\ DOMAIN new_srd'.m_nodes = DOMAIN new_srd.m_nodes
  BY <1>1, <1>2, <1>4, AddArcGood
<1> HIDE DEF t, x, s
<1>6. Copied' = Copied /\ \A n : InWork(n)' <=> InWork(n)
  BY <1>1, <1>2 DEF Copied, InWork
<1>7. \A n \in Copied : NewOut(n)' = IF n = parent THEN Append(NewOut(n), x) ELSE NewOut(n)
  <2> SUFFICES ASSUME NEW n \in Copied
               PROVE  NewOut(n)' = IF n = parent THEN Append(NewOut(n), x) ELSE NewOut(n)
    OBVIOUS
  <2>1. visited'[n] = visited[n] /\ visited[n] \in DOMAIN new_srd.m_nodes
    BY <1>1, <1>3
  <2>2. visited[n] = s <=> n = parent
    BY <1>2, <1>3 DEF s
  <2>3. Outs(new_srd')[visited[n]] = IF visited[n] = s THEN Append(Outs(new_srd)[visited[n]], x)
                                     ELSE Outs(new_srd)[visited[n]]
    BY <2>1, <1>5 DEF OutGrown, x
  <2> QED
    BY <2>1, <2>2, <2>3 DEF NewOut
<1>8. /\ Len(new_srd'.m_arcs) = x /\ new_srd'.m_arcs[x].target = visited'[c]
      /\ \A y \in ArcIds(new_srd) : /\ new_srd'.m_arcs[y].target = new_srd.m_arcs[y].target
                                    /\ new_srd'.m_arcs[y].source = new_srd.m_arcs[y].source
  <2>1. /\ ArcIds(new_srd') = 1 .. x /\ new_srd'.m_arcs[x].target = t
        /\ \A y \in ArcIds(new_srd) : /\ new_srd'.m_arcs[y].target = new_srd.m_arcs[y].target
                                      /\ new_srd'.m_arcs[y].source = new_srd.m_arcs[y].source
    BY <1>5 DEF OutGrown, x
  <2>2. Len(new_srd'.m_arcs) = x
    BY <2>1, <1>2, ArcCount DEF x
  <2> QED
    BY <2>1, <2>2, <1>1 DEF t
<1>9. Numbered'
  BY <1>1, <1>2, <1>5, <1>6 DEF Numbered
<1>10. /\ work' \in Seq(NodeIds) /\ \A j, k \in 1 .. Len(work') : work'[j] = work'[k] => j = k
  BY <1>1, <1>2 DEF Pending
<1> QED
  BY <1>1, <1>4, <1>6, <1>7, <1>8, <1>9, <1>10 DEF ArcTaken, x

\* A turn changes the source of no arc of the new tree.
LEMMA TurnKeepsSources ==
    ASSUME DInv, SliceArc
    PROVE  \A y \in ArcIds(new_srd) : new_srd'.m_arcs[y].source = new_srd.m_arcs[y].source
<1> PICK c : c = tree.m_arcs[a].target
  OBVIOUS
<1>1. /\ pc = "slice" /\ a # invalid_arc
      /\ \/ visited[c] = invalid_node /\ CopyChild(c)
         \/ visited[c] # invalid_node /\ CopyArc(c)
  BY DEF SliceArc
<1>2. /\ GoodTree(tree) /\ GoodTree(new_srd) /\ a \in ArcIds(tree)
      /\ visited \in [NodeIds -> DOMAIN new_srd.m_nodes \cup {invalid_node}]
      /\ parent \in NodeIds /\ visited[parent] # invalid_node
  BY <1>1 DEF DInv, SliceOK
<1>3. visited[parent] \in DOMAIN new_srd.m_nodes
  BY <1>2
<1>4. c \in NodeIds
  BY <1>2, TypeFacts DEF GoodTree, NodeIds
<1>5. CASE CopyChild(c)
  <2>1. new_srd' = addNode(new_srd, visited[parent])
    BY <1>5 DEF CopyChild
  <2>2. OutGrown(new_srd, new_srd', visited[parent], Len(new_srd.m_nodes) + 1)
    BY <2>1, <1>2, <1>3, AddNodeGood
  <2> QED
    BY <2>2 DEF OutGrown
<1>6. CASE visited[c] # invalid_node /\ CopyArc(c)
  <2>1. new_srd' = addArc(new_srd, visited[parent], visited[c])
    BY <1>6 DEF CopyArc
  <2>2. visited[c] \in DOMAIN new_srd.m_nodes
    BY <1>2, <1>4, <1>6
  <2>3. OutGrown(new_srd, new_srd', visited[parent], visited[c])
    BY <2>1, <2>2, <1>2, <1>3, AddArcGood
  <2> QED
    BY <2>3 DEF OutGrown
<1> QED
  BY <1>1, <1>5, <1>6

\* A turn of the loop over the arcs of parent copies one of them.
LEMMA SliceArcCopies ==
    ASSUME DInv, SInv, SliceArc
    PROVE  SInv'
<1>0. /\ pc = "slice" /\ pc' = pc /\ a # invalid_arc /\ arc_data' = Append(arc_data, a)
      /\ a' = tree.m_arcs[a].next_out /\ tree' = tree /\ old_node' = old_node
  BY DEF SliceArc
<1>1. RootArcs'
  <2>1. GoodTree(new_srd) /\ root_arc \in ArcIds(new_srd)
    BY TypeFacts DEF DInv, GoodTree, root_arc
  <2>2. new_srd'.m_arcs[root_arc].source = new_srd.m_arcs[root_arc].source
    BY <2>1, TurnKeepsSources
  <2> QED
    BY <2>2, <1>0 DEF SInv, RootArcs
<1> SUFFICES ASSUME old_node # invalid_node
             PROVE  Numbered' /\ ListsCopied' /\ Pending' /\ Entered'
  BY <1>0, <1>1 DEF SInv
<1> PICK c : c = tree.m_arcs[a].target
  OBVIOUS
<1> PICK p : p = parent
  OBVIOUS
<1> DEFINE x == Len(new_srd.m_arcs) + 1
           i == Len(NewOut(p)) + 1
           O == OldOut(p)
<1>2. ArcTaken(c)
  <2>1. \/ visited[c] = invalid_node /\ CopyChild(c)
        \/ visited[c] # invalid_node /\ CopyArc(c)
    BY DEF SliceArc
  <2> QED
    BY <2>1, ChildTaken, LinkTaken
<1>3. /\ ListsCopied /\ Pending /\ Entered /\ Numbered /\ GoodTree(tree) /\ GoodTree(new_srd)
      /\ p \in Copied /\ a \in ArcIds(tree) /\ c \in NodeIds /\ tree.m_arcs[a].source = p
      /\ parent' = p /\ NodeIds' = NodeIds
  BY TurnFacts
<1>4. /\ \A n \in Copied : n \in NodeIds /\ visited[n] \in DOMAIN new_srd.m_nodes
      /\ NodeIds = DOMAIN tree.m_nodes
  BY <1>3, NumberedFacts DEF NodeIds
<1>5. /\ Copied' = Copied \cup {c} /\ Numbered'
      /\ \A n \in Copied : visited'[n] = visited[n]
      /\ \A n \in Copied : NewOut(n)' = IF n = p THEN Append(NewOut(n), x) ELSE NewOut(n)
      /\ c \notin Copied => NewOut(c)' = << >> /\ visited[p] < visited'[c]
      /\ Len(new_srd'.m_arcs) = x /\ new_srd'.m_arcs[x].target = visited'[c]
      /\ \A y \in ArcIds(new_srd) : new_srd'.m_arcs[y].target = new_srd.m_arcs[y].target
  BY <1>2 DEF ArcTaken
<1>6. \A n : OldOut(n)' = OldOut(n)
  BY <1>0 DEF OldOut
<1>7. ASSUME NEW n \in Copied
      PROVE  /\ Len(NewOut(n)) \in Nat /\ NewOut(n) \in Seq(ArcIds(new_srd))
             /\ Len(OldOut(n)) \in Nat
             /\ \A k \in 1 .. Len(NewOut(n)) : NewOut(n)[k] \in ArcIds(new_srd)
             /\ \A k \in 1 .. Len(OldOut(n)) :
                   /\ OldOut(n)[k] # invalid_arc
                   /\ tree.m_arcs[OldOut(n)[k]].next_out =
                        IF k < Len(OldOut(n)) THEN OldOut(n)[k + 1] ELSE invalid_arc
  <2>1. n \in DOMAIN tree.m_nodes /\ visited[n] \in DOMAIN new_srd.m_nodes
    BY <1>4
  <2>2. /\ Len(NewOut(n)) \in Nat /\ NewOut(n) \in Seq(ArcIds(new_srd))
        /\ \A k \in 1 .. Len(NewOut(n)) : NewOut(n)[k] \in ArcIds(new_srd)
    BY <2>1, <1>3, OutFacts DEF NewOut
  <2>3. /\ Len(OldOut(n)) \in Nat
        /\ \A k \in 1 .. Len(OldOut(n)) :
              /\ OldOut(n)[k] # invalid_arc
              /\ tree.m_arcs[OldOut(n)[k]].next_out =
                   IF k < Len(OldOut(n)) THEN OldOut(n)[k + 1] ELSE invalid_arc
    BY <2>1, <1>3, OutFacts DEF OldOut
  <2> QED
    BY <2>2, <2>3
<1>8. /\ ~ InWork(p) /\ Len(NewOut(p)) < Len(O) /\ a = O[i]
  BY <1>0, <1>3 DEF Pending
<1>9. /\ i \in Nat \ {0} /\ i \in 1 .. Len(O) /\ Len(NewOut(p)) = i - 1
      /\ 1 .. i = (1 .. Len(NewOut(p))) \cup {i} /\ i \notin 1 .. Len(NewOut(p))
      /\ Len(NewOut(p)') = i /\ NewOut(p)'[i] = x
      /\ \A k \in 1 .. Len(NewOut(p)) : NewOut(p)'[k] = NewOut(p)[k]
  <2>1. Len(NewOut(p)) \in Nat /\ Len(O) \in Nat /\ NewOut(p) \in Seq(ArcIds(new_srd))
    BY <1>3, <1>7
  <2>2. NewOut(p)' = Append(NewOut(p), x)
    BY <1>3, <1>5
  <2>3. /\ Len(NewOut(p)') = i /\ NewOut(p)'[i] = x
        /\ \A k \in 1 .. Len(NewOut(p)) : NewOut(p)'[k] = NewOut(p)[k]
    BY <2>1, <2>2
  <2> QED
    BY <2>1, <2>3, <1>8
<1>10. /\ arc_data' \in Seq(Nat) /\ Len(arc_data') = x /\ arc_data'[x] = a
       /\ \A y \in ArcIds(new_srd) : arc_data'[y] = arc_data[y]
  <2>1. /\ arc_data \in Seq(Nat) /\ Len(arc_data) = Len(new_srd.m_arcs)
    BY <1>3 DEF ListsCopied
  <2>2. a \in Nat /\ ArcIds(new_srd) = 1 .. Len(new_srd.m_arcs)
    BY <1>3, TypeFacts DEF GoodTree
  <2> QED
    BY <2>1, <2>2, <1>0, AppendProperties
<1> HIDE DEF i, x, O
<1>11. ASSUME NEW n \in Copied, NEW k \in 1 .. Len(NewOut(n)), NEW d,
              d = tree.m_arcs[OldOut(n)[k]].target
       PROVE  /\ arc_data'[NewOut(n)[k]] = OldOut(n)[k] /\ d \in Copied'
              /\ new_srd'.m_arcs[NewOut(n)[k]].target = visited'[d]
  <2>1. /\ arc_data[NewOut(n)[k]] = OldOut(n)[k] /\ d \in Copied
        /\ new_srd.m_arcs[NewOut(n)[k]].target = visited[d]
    BY <1>3, <1>11 DEF ListsCopied
  <2>2. NewOut(n)[k] \in ArcIds(new_srd)
    BY <1>7
  <2> QED
    BY <2>1, <2>2, <1>5, <1>10
<1>12. ListsCopied'
  <2>1. ASSUME NEW n \in Copied'
        PROVE  /\ Len(NewOut(n)') <= Len(OldOut(n))
               /\ \A k \in 1 .. Len(NewOut(n)') :
                     LET d == tree.m_arcs[OldOut(n)[k]].target
                     IN  /\ arc_data'[NewOut(n)'[k]] = OldOut(n)[k]
                         /\ d \in Copied'
                         /\ new_srd'.m_arcs[NewOut(n)'[k]].target = visited'[d]
    <3>1. CASE n = p
      <4>1. Len(NewOut(n)') <= Len(OldOut(n))
        BY <3>1, <1>3, <1>7, <1>9 DEF O
      <4>2. ASSUME NEW k \in 1 .. i, NEW d, d = tree.m_arcs[OldOut(p)[k]].target
            PROVE  /\ arc_data'[NewOut(p)'[k]] = OldOut(p)[k]
                   /\ d \in Copied'
                   /\ new_srd'.m_arcs[NewOut(p)'[k]].target = visited'[d]
        <5>1. CASE k = i
          <6>1. NewOut(p)'[k] = x /\ OldOut(p)[k] = a /\ d = c
            BY <5>1, <4>2, <1>8, <1>9 DEF O
          <6> QED
            BY <6>1, <1>5, <1>10
        <5>2. CASE k \in 1 .. Len(NewOut(p))
          <6>1. NewOut(p)'[k] = NewOut(p)[k]
            BY <5>2, <1>9
          <6> QED
            BY <6>1, <5>2, <4>2, <1>3, <1>11
        <5> QED
          BY <5>1, <5>2, <1>9
      <4> QED
        BY <3>1, <4>1, <4>2, <1>9
    <3>2. CASE n \in Copied /\ n # p
      <4>1. NewOut(n)' = NewOut(n)
        BY <3>2, <1>5
      <4>2. Len(NewOut(n)) <= Len(OldOut(n))
        BY <3>2, <1>3 DEF ListsCopied
      <4> QED
        BY <3>2, <4>1, <4>2, <1>11
    <3>3. CASE n = c /\ c \notin Copied
      <4>1. Len(NewOut(n)') = 0
        BY <3>3, <1>5
      <4>2. Len(OldOut(n)) \in Nat
        BY <3>3, <1>3, <1>4, OutFacts DEF OldOut
      <4>3. \A k : k \notin 1 .. 0
        OBVIOUS
      <4> QED
        BY <4>1, <4>2, <4>3
    <3> QED
      BY <3>1, <3>2, <3>3, <1>5
  <2> QED
    BY <2>1, <1>0, <1>5, <1>6, <1>10 DEF ListsCopied
<1>13. /\ \A n : InWork(n)' <=> InWork(n) \/ (n = c /\ c \notin Copied)
       /\ work' \in Seq(NodeIds)
       /\ \A j, k \in 1 .. Len(work') : work'[j] = work'[k] => j = k
  BY <1>2 DEF ArcTaken
<1>14. \A n \in NodeIds : InWork(n)' => n \in Copied' /\ Len(NewOut(n)') = 0
  <2> SUFFICES ASSUME NEW n \in NodeIds, InWork(n)'
               PROVE  n \in Copied' /\ Len(NewOut(n)') = 0
    OBVIOUS
  <2>1. CASE InWork(n)
    <3>1. n \in Copied /\ Len(NewOut(n)) = 0 /\ n # p
      BY <2>1, <1>3, <1>8 DEF Pending
    <3> QED
      BY <3>1, <1>5
  <2>2. CASE n = c /\ c \notin Copied
    BY <2>2, <1>5
  <2> QED
    BY <2>1, <2>2, <1>13
<1>15. a' = IF i < Len(O) THEN O[i + 1] ELSE invalid_arc
  BY <1>0, <1>3, <1>7, <1>8, <1>9 DEF O
<1>16. a' # invalid_arc =>
          /\ p \in Copied' /\ ~ InWork(p)'
          /\ Len(NewOut(p)') < Len(OldOut(p)')
          /\ a' = OldOut(p)'[Len(NewOut(p)') + 1]
  <2>1. p \in Copied' /\ ~ InWork(p)'
    BY <1>3, <1>5, <1>8, <1>13
  <2> QED
    BY <2>1, <1>6, <1>9, <1>15 DEF O
<1>17. ASSUME NEW n \in Copied', ~ InWork(n)', n = p => a' = invalid_arc
       PROVE  Len(NewOut(n)') = Len(OldOut(n)')
  <2>1. n \in Copied /\ ~ InWork(n)
    BY <1>5, <1>13, <1>17
  <2>2. CASE n = p
    <3>1. ~ (i < Len(O))
      <4> SUFFICES ASSUME i < Len(O) PROVE FALSE
        OBVIOUS
      <4>1. Len(O) \in Nat /\ \A k \in 1 .. Len(O) : O[k] # invalid_arc
        BY <1>3, <1>7 DEF O
      <4>2. i + 1 \in 1 .. Len(O)
        BY <4>1, <1>9
      <4> QED
        BY <4>1, <4>2, <1>15, <1>17, <2>2
    <3>2. Len(O) \in Nat
      BY <1>3, <1>7 DEF O
    <3>3. i = Len(O)
      BY <3>1, <3>2, <1>9
    <3> QED
      BY <3>3, <2>2, <1>6, <1>9 DEF O
  <2>3. CASE n # p
    <3>1. Len(NewOut(n)) = Len(OldOut(n))
      BY <2>1, <2>3, <1>3 DEF Pending
    <3> QED
      BY <3>1, <2>1, <2>3, <1>5, <1>6
  <2> QED
    BY <2>2, <2>3
<1>18. Pending'
  BY <1>3, <1>13, <1>14, <1>16, <1>17 DEF Pending
<1>19. Entered'
  <2>1. ASSUME NEW n \in Copied', n # old_node
        PROVE  \E y \in ArcIds(tree) :
                  /\ tree.m_arcs[y].target = n /\ tree.m_arcs[y].source \in Copied'
                  /\ visited'[tree.m_arcs[y].source] < visited'[n]
    <3>1. CASE n \in Copied
      <4>1. PICK y \in ArcIds(tree) :
                  /\ tree.m_arcs[y].target = n /\ tree.m_arcs[y].source \in Copied
                  /\ visited[tree.m_arcs[y].source] < visited[n]
        BY <3>1, <2>1, <1>3 DEF Entered
      <4> QED
        BY <3>1, <4>1, <1>5
    <3>2. CASE n = c /\ c \notin Copied
      BY <3>2, <1>3, <1>5
    <3> QED
      BY <3>1, <3>2, <1>5
  <2> QED
    BY <2>1, <1>0 DEF Entered
<1> QED
  BY <1>5, <1>12, <1>18, <1>19

\* Adding, moving the root and clearing leave the root arc without a source.
LEMMA ClientRootArcs ==
    ASSUME DInv, SInv, AddNode \/ AddArc \/ SetRoot \/ Clear
    PROVE  SInv'
<1>1. pc' = "client" /\ new_srd' = new_srd /\ tree.m_arcs[root_arc].source = invalid_node
      /\ new_srd.m_arcs[root_arc].source = invalid_node
  BY DEF AddNode, AddArc, SetRoot, Clear, slicing, new, SInv, RootArcs
<1>2. GoodTree(tree) /\ root_arc \in ArcIds(tree)
  BY TypeFacts DEF DInv, GoodTree, root_arc
<1>3. tree'.m_arcs[root_arc].source = invalid_node
  <2>1. CASE AddNode
    <3>1. PICK s \in NodeIds : tree' = addNode(tree, s)
      BY <2>1 DEF AddNode
    <3>2. OutGrown(tree, tree', s, Len(tree.m_nodes) + 1)
      BY <3>1, <1>2, AddNodeGood DEF NodeIds
    <3> QED
      BY <3>2, <1>1, <1>2 DEF OutGrown
  <2>2. CASE AddArc
    <3>1. PICK s \in NodeIds, t \in NodeIds : tree' = addArc(tree, s, t)
      BY <2>2 DEF AddArc
    <3>2. OutGrown(tree, tree', s, t)
      BY <3>1, <1>2, AddArcGood DEF NodeIds
    <3> QED
      BY <3>2, <1>1, <1>2 DEF OutGrown
  <2>3. CASE SetRoot
    <3>1. PICK n \in NodeIds :
              tree' = [tree EXCEPT !.m_arcs[root_arc].source = invalid_node,
                                   !.m_arcs[root_arc].target = n]
      BY <2>3 DEF SetRoot
    <3>2. /\ tree = [m_arcs |-> tree.m_arcs, m_nodes |-> tree.m_nodes]
          /\ tree.m_arcs[root_arc] \in [source : DOMAIN tree.m_nodes \cup {invalid_node},
                                        target : DOMAIN tree.m_nodes \cup {invalid_node},
                                        next_in : ArcIds(tree) \cup {invalid_arc},
                                        next_out : ArcIds(tree) \cup {invalid_arc}]
      BY <1>2, TypeFacts DEF GoodTree
    <3>3. tree'.m_arcs = [tree.m_arcs EXCEPT ![root_arc] =
                            [@ EXCEPT !.source = invalid_node, !.target = n]]
      BY <3>1, <3>2
    <3>4. tree'.m_arcs[root_arc] =
            [tree.m_arcs[root_arc] EXCEPT !.source = invalid_node, !.target = n]
      BY <3>3, <1>2 DEF ArcIds
    <3> QED
      BY <3>2, <3>4
  <2>4. CASE Clear
    BY <2>4 DEF Clear, Tree, NewArc, root_arc
  <2> QED
    BY <2>1, <2>2, <2>3, <2>4
<1> QED
  BY <1>1, <1>3 DEF SInv, RootArcs

\* What the slice has copied so far is what its lists and its stack or queue say, in
\* every state.
THEOREM SInvHolds == Spec => []SInv
<1>1. Init => SInv
  BY DEF Init, SInv, RootArcs, Tree, NewArc, root_arc
<1>2. DInv /\ SInv /\ [Next]_vars => SInv'
  <2> SUFFICES ASSUME DInv, SInv, [Next]_vars PROVE SInv'
    OBVIOUS
  <2>1. CASE AddNode \/ AddArc \/ SetRoot \/ Clear
    BY <2>1, ClientRootArcs
  <2>2. CASE Slice
    BY <2>2, SliceStarts
  <2>3. CASE SlicePop
    BY <2>3, SlicePopCopies
  <2>4. CASE SliceArc
    BY <2>4, SliceArcCopies
  <2>5. CASE SliceReturn
    <3>1. /\ pc = "slice" /\ pc' = "sliced" /\ a = invalid_arc /\ work = << >>
          /\ UNCHANGED <<tree, new_srd, arc_data, node_data, old_node, visited, work, parent, a>>
      BY <2>5 DEF SliceReturn, slicing, new
    <3>2. RootArcs'
      BY <3>1 DEF SInv, RootArcs
    <3>3. /\ Copied' = Copied /\ NodeIds' = NodeIds
          /\ \A n : OldOut(n)' = OldOut(n) /\ NewOut(n)' = NewOut(n) /\ InWork(n)' = InWork(n)
      BY <3>1 DEF Copied, NodeIds, OldOut, NewOut, InWork
    <3>4. old_node # invalid_node => Numbered' /\ ListsCopied' /\ Pending' /\ Entered'
      <4> SUFFICES ASSUME old_node # invalid_node
                   PROVE  Numbered' /\ ListsCopied' /\ Pending' /\ Entered'
        OBVIOUS
      <4>1. Numbered /\ ListsCopied /\ Pending /\ Entered
        BY <3>1 DEF SInv
      <4>2. Numbered'
        BY <4>1, <3>1, <3>3 DEF Numbered
      <4>3. ListsCopied'
        BY <4>1, <3>1, <3>3 DEF ListsCopied
      <4>4. Pending'
        BY <4>1, <3>1, <3>3 DEF Pending
      <4>5. Entered'
        BY <4>1, <3>1, <3>3 DEF Entered
      <4> QED
        BY <4>2, <4>3, <4>4, <4>5
    <3> QED
      BY <3>1, <3>2, <3>4 DEF SInv
  <2>6. CASE Adopt
    <3>1. pc' = "client" /\ tree' \in {tree, new_srd} /\ new_srd' = Tree
      BY <2>6 DEF Adopt
    <3>2. Tree.m_arcs[root_arc].source = invalid_node
      BY DEF Tree, NewArc, root_arc
    <3> QED
      BY <3>1, <3>2 DEF SInv, RootArcs
  <2>7. CASE UNCHANGED vars
    <3>1. /\ UNCHANGED <<pc, tree, new_srd, arc_data, node_data, old_node, visited, work, parent, a>>
      BY <2>7 DEF vars, slicing, new
    <3>2. /\ Copied' = Copied /\ NodeIds' = NodeIds
          /\ \A n : OldOut(n)' = OldOut(n) /\ NewOut(n)' = NewOut(n) /\ InWork(n)' = InWork(n)
      BY <3>1 DEF Copied, NodeIds, OldOut, NewOut, InWork
    <3>3. Numbered => Numbered'
      BY <3>1, <3>2 DEF Numbered
    <3>4. ListsCopied => ListsCopied'
      BY <3>1, <3>2 DEF ListsCopied
    <3>5. Pending => Pending'
      BY <3>1, <3>2 DEF Pending
    <3>6. (Entered => Entered') /\ (RootArcs => RootArcs')
      BY <3>1, <3>2 DEF Entered, RootArcs
    <3> QED
      BY <3>1, <3>3, <3>4, <3>5, <3>6 DEF SInv
  <2> QED
    BY <2>1, <2>2, <2>3, <2>4, <2>5, <2>6, <2>7 DEF Next, SliceStep
<1> QED
  BY <1>1, <1>2, DInvHolds, PTL DEF Spec

\* What a slice has copied is in every closed set that has old_node: the first copied
\* node outside would have been entered from an earlier one inside.
LEMMA CopiedIsBelow ==
    ASSUME DInv, Numbered, Entered, NEW ns \in SUBSET NodeIds, old_node \in ns,
           \A y \in ArcIds(tree) :
               tree.m_arcs[y].source \in ns => tree.m_arcs[y].target \in ns
    PROVE  Copied \subseteq ns
<1> DEFINE Bad == {i \in Nat : \E n \in Copied \ ns : visited[n] = i}
<1>1. \A n \in Copied : visited[n] \in Nat
  BY NumberedFacts
<1> SUFFICES ASSUME Bad # {} PROVE FALSE
  BY <1>1
<1>2. PICK k \in Bad : \A j \in Bad : ~ (<<j, k>> \in OpToRel(<, Nat))
  <2>1. IsWellFoundedOn(OpToRel(<, Nat), Nat)
    BY NatLessThanWellFounded
  <2>2. Bad \subseteq Nat
    OBVIOUS
  <2> HIDE DEF Bad
  <2> QED
    BY <2>1, <2>2, WFMin
<1>3. k \in Nat
  OBVIOUS
<1>4. \A j \in Nat : j < k => j \notin Bad
  <2> HIDE DEF Bad
  <2> QED
    BY <1>2, <1>3 DEF OpToRel
<1>5. PICK n \in Copied \ ns : visited[n] = k
  OBVIOUS
<1>6. PICK y \in ArcIds(tree) : /\ tree.m_arcs[y].target = n /\ tree.m_arcs[y].source \in Copied
                                /\ visited[tree.m_arcs[y].source] < visited[n]
  BY <1>5 DEF Entered
<1>7. tree.m_arcs[y].source \notin ns
  BY <1>5, <1>6
<1>8. visited[tree.m_arcs[y].source] \in Nat /\ visited[tree.m_arcs[y].source] \in Bad
  BY <1>1, <1>6, <1>7
<1> QED
  BY <1>4, <1>5, <1>6, <1>8

\* At the end no arc leads out of what has been copied.
LEMMA CopiedIsClosed ==
    ASSUME DInv, RootArcs, Numbered, ListsCopied, Pending, work = << >>, a = invalid_arc
    PROVE  /\ \A n \in Copied : Len(NewOut(n)) = Len(OldOut(n))
           /\ \A y \in ArcIds(tree) :
                 tree.m_arcs[y].source \in Copied => tree.m_arcs[y].target \in Copied
<1>1. \A n : ~ InWork(n)
  <2>1. Len(work) = 0
    OBVIOUS
  <2>2. \A k : k \notin 1 .. 0
    OBVIOUS
  <2> QED
    BY <2>1, <2>2 DEF InWork
<1>2. \A n \in Copied : Len(NewOut(n)) = Len(OldOut(n))
  BY <1>1 DEF Pending
<1>3. ASSUME NEW y \in ArcIds(tree), tree.m_arcs[y].source \in Copied
      PROVE  tree.m_arcs[y].target \in Copied
  <2> PICK s : s = tree.m_arcs[y].source
    OBVIOUS
  <2>1. s \in Copied /\ s \in NodeIds /\ s # invalid_node
    <3>1. NodeIds = 1 .. Len(tree.m_nodes) /\ Len(tree.m_nodes) \in Nat
      BY NumberedFacts
    <3>2. invalid_node \notin NodeIds
      BY <3>1 DEF invalid_node
    <3> QED
      BY <3>2, <1>3 DEF Copied
  <2>2. y # root_arc
    BY <2>1 DEF RootArcs
  <2>3. PICK k \in 1 .. Len(OldOut(s)) : OldOut(s)[k] = y
    <3>1. GoodTree(tree) /\ s \in DOMAIN tree.m_nodes
      BY <2>1 DEF DInv, NodeIds
    <3> QED
      BY <3>1, <2>2, OutFacts DEF OldOut
  <2>4. k \in 1 .. Len(NewOut(s))
    BY <2>1, <2>3, <1>2
  <2> QED
    BY <2>1, <2>3, <2>4 DEF ListsCopied
<1> QED
  BY <1>2, <1>3

\* There are as many copies as originals.
LEMMA CopiedCount ==
    ASSUME DInv, Numbered
    PROVE  Cardinality(Copied) = Len(new_srd.m_nodes)
<1> DEFINE K == Len(new_srd.m_nodes)
           f == [i \in 1 .. K |-> node_data[i]]
<1>1. /\ \A n \in Copied : visited[n] \in 1 .. K
      /\ DOMAIN new_srd.m_nodes = 1 .. K /\ K \in Nat
  BY NumberedFacts
<1>2. /\ \A i \in 1 .. K : \E n \in Copied : visited[n] = i
      /\ \A n \in Copied : node_data[visited[n]] = n
  BY <1>1 DEF Numbered
<1> HIDE DEF K
<1>3. f \in [1 .. K -> Copied]
  BY <1>2
<1>4. IsInjective(f)
  <2> SUFFICES ASSUME NEW i \in 1 .. K, NEW j \in 1 .. K, f[i] = f[j] PROVE i = j
    BY DEF IsInjective
  <2>1. PICK n \in Copied : visited[n] = i
    BY <1>2
  <2>2. PICK m \in Copied : visited[m] = j
    BY <1>2
  <2>3. f[i] = n /\ f[j] = m
    BY <2>1, <2>2, <1>2
  <2> QED
    BY <2>1, <2>2, <2>3
<1>5. \A n \in Copied : \E i \in 1 .. K : f[i] = n
  BY <1>1, <1>2
<1>6. f \in Bijection(1 .. K, Copied)
  BY <1>3, <1>4, <1>5 DEF Bijection, Injection, Surjection
<1>7. IsFiniteSet(1 .. K) /\ Cardinality(1 .. K) = K
  BY <1>1, IntervalCardinality
<1>8. Cardinality(1 .. K) = Cardinality(Copied)
  BY <1>6, <1>7, FS_Bijection DEF ExistsBijection
<1> QED
  BY <1>7, <1>8 DEF K

\* sliceDF() and sliceBF() copy exactly the part of the tree below old_node, with its
\* cycles and shared nodes, its data and the order of its arcs, for trees of every size.
THEOREM SliceExactHolds == Spec => []SliceExact
<1>1. DInv /\ SInv => SliceExact
  <2> SUFFICES ASSUME DInv, SInv, pc = "sliced", old_node # invalid_node PROVE SliceExact
    BY DEF SliceExact
  <2>1. /\ RootArcs /\ Numbered /\ ListsCopied /\ Pending /\ Entered
        /\ work = << >> /\ a = invalid_arc
    BY DEF SInv
  <2>2. /\ \A n \in Copied : n \in NodeIds /\ visited[n] \in DOMAIN new_srd.m_nodes
        /\ old_node \in Copied /\ Copied \subseteq NodeIds
    BY <2>1, NumberedFacts
  <2>3. /\ \A n \in Copied : Len(NewOut(n)) = Len(OldOut(n))
        /\ \A y \in ArcIds(tree) :
              tree.m_arcs[y].source \in Copied => tree.m_arcs[y].target \in Copied
    BY <2>1, CopiedIsClosed
  <2>4. Copied = Below
    <3>1. ASSUME NEW n \in Copied, NEW ns \in SUBSET NodeIds, old_node \in ns,
                 \A y \in DOMAIN tree.m_arcs :
                     tree.m_arcs[y].source \in ns => tree.m_arcs[y].target \in ns
          PROVE  n \in ns
      BY <3>1, <2>1, CopiedIsBelow DEF ArcIds
    <3>2. Copied \subseteq Below
      BY <3>1, <2>2 DEF Below
    <3>3. Below \subseteq Copied
      BY <2>2, <2>3 DEF Below, ArcIds
    <3> QED
      BY <3>2, <3>3
  <2>5. {visited[n] : n \in Copied} = DOMAIN new_srd.m_nodes
    BY <2>1, <2>2 DEF Numbered
  <2>6. Cardinality(Copied) = Len(new_srd.m_nodes)
    BY <2>1, CopiedCount
  <2>7. visited[old_node] = 1 /\ \A n \in Copied : node_data[visited[n]] = n
    BY <2>1 DEF Numbered
  <2>8. ASSUME NEW n \in Copied
        PROVE  /\ OutArcs(tree.m_arcs, tree.m_nodes, n) = OldOut(n)
               /\ OutArcs(new_srd.m_arcs, new_srd.m_nodes, visited[n]) = NewOut(n)
               /\ DOMAIN OldOut(n) = 1 .. Len(OldOut(n))
    <3>1. GoodTree(tree) /\ n \in DOMAIN tree.m_nodes /\ visited[n] \in DOMAIN new_srd.m_nodes
      BY <2>2 DEF DInv, NodeIds
    <3>2. DOMAIN OldOut(n) = 1 .. Len(OldOut(n))
      BY <3>1, OutFacts DEF OldOut
    <3> QED
      BY <3>1, <3>2 DEF OldOut, NewOut, Outs
  <2>9. ASSUME NEW n \in Copied, NEW k \in 1 .. Len(OldOut(n))
        PROVE  /\ arc_data[NewOut(n)[k]] = OldOut(n)[k]
               /\ new_srd.m_arcs[NewOut(n)[k]].target = visited[tree.m_arcs[OldOut(n)[k]].target]
    <3>1. k \in 1 .. Len(NewOut(n))
      BY <2>3
    <3> QED
      BY <3>1, <2>1 DEF ListsCopied
  <2>10. ASSUME NEW n \in Copied
         PROVE  LET out    == OutArcs(tree.m_arcs, tree.m_nodes, n)
                    newOut == OutArcs(new_srd.m_arcs, new_srd.m_nodes, visited[n])
                IN  /\ node_data[visited[n]] = n
                    /\ Len(newOut) = Len(out)
                    /\ \A k \in DOMAIN out :
                          /\ arc_data[newOut[k]] = out[k]
                          /\ new_srd.m_arcs[newOut[k]].target =
                                visited[tree.m_arcs[out[k]].target]
    BY <2>3, <2>7, <2>8, <2>9
  <2>11. Copied = {n \in NodeIds : visited[n] # invalid_node}
    BY DEF Copied
  <2> QED
    BY <2>4, <2>5, <2>6, <2>7, <2>10, <2>11 DEF SliceExact
<1> QED
  BY <1>1, DInvHolds, SInvHolds, PTL
=============================================================================
