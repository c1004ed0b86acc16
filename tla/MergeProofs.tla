---------------------------- MODULE MergeProofs ----------------------------
(***************************************************************************)
(* For every game and any number of iterations: merge() finds every parent *)
(* in the target, and leaves exactly the sum of the two trees.             *)
(***************************************************************************)
EXTENDS Merge, TLAPS, FiniteSetTheorems, SequenceTheorems, WellFoundedInduction

Data   == [pos : Positions, m_moves : SUBSET Move, m_visits : Nat]
Arc    == [source : Nat, target : Nat, m_move : Move]
Tables == UNION {[P -> Nat] : P \in SUBSET Positions}
Object == [m_nodes : Seq(Data), m_arcs : Seq(Arc), m_transposition_table : Tables,
           m_path : Seq(Nat)]

Nodes(o) == 1 .. Len(o.m_nodes)
Arcs(o)  == 1 .. Len(o.m_arcs)
Pos(o, n) == o.m_nodes[n].pos

-----------------------------------------------------------------------------
(* An object.                                                              *)

\* Table and nodes are in exact correspondence.
TableExact(o) ==
    /\ DOMAIN o.m_transposition_table = {Pos(o, n) : n \in Nodes(o)}
    /\ \A n \in Nodes(o) : o.m_transposition_table[Pos(o, n)] = n

\* Arcs join nodes and are moves of the game, and no arc is there twice.
ArcsSound(o) ==
    /\ \A n \in Nodes(o) : o.m_nodes[n].m_moves \subseteq legal[Pos(o, n)]
    /\ \A x \in Arcs(o) :
          LET a == o.m_arcs[x]
          IN  /\ a.source \in Nodes(o) /\ a.target \in Nodes(o)
              /\ a.m_move \in legal[Pos(o, a.source)]
              /\ Pos(o, a.target) = play[<<Pos(o, a.source), a.m_move>>]
    /\ \A x, y \in Arcs(o) : o.m_arcs[x] = o.m_arcs[y] => x = y

\* Every node but the root was entered from a node that was there before it.
Rooted(o) ==
    \A n \in Nodes(o) \ {Root} : \E x \in Arcs(o) :
        o.m_arcs[x].target = n /\ o.m_arcs[x].source < n

PathOK(o) ==
    /\ o.m_path \in Seq(Nodes(o))
    /\ Len(o.m_path) > 0
    /\ o.m_path[1] = Root

Good(o) ==
    /\ o \in Object
    /\ Len(o.m_nodes) > 0
    /\ TableExact(o)
    /\ ArcsSound(o)
    /\ Rooted(o)
    /\ PathOK(o)

\* While it is searched, a move that has an arc is not among the untried ones.
Tried(o) ==
    \A x \in Arcs(o) :
        o.m_arcs[x].m_move \notin o.m_nodes[o.m_arcs[x].source].m_moves

-----------------------------------------------------------------------------
(* The merge, of which s and t are the two objects, and bs and bt what they *)
(* were.                                                                   *)

\* An arc of t and an arc of s that are the same move between the same positions.
SameArc(t, y, s, x) ==
    /\ Pos(t, t.m_arcs[y].source) = Pos(s, s.m_arcs[x].source)
    /\ t.m_arcs[y].m_move = s.m_arcs[x].m_move
    /\ Pos(t, t.m_arcs[y].target) = Pos(s, s.m_arcs[x].target)

\* The source only loses moves.
SourceKept(s, bs) ==
    /\ s.m_arcs = bs.m_arcs
    /\ s.m_transposition_table = bs.m_transposition_table
    /\ Len(s.m_nodes) = Len(bs.m_nodes)
    /\ \A n \in Nodes(s) : /\ Pos(s, n) = Pos(bs, n)
                           /\ s.m_nodes[n].m_visits = bs.m_nodes[n].m_visits

Inverted(s, itt) == DOMAIN itt = Nodes(s) /\ \A n \in Nodes(s) : itt[n] = Pos(s, n)

\* Breadth first: what was visited is closed under arcs, up to the queue and the
\* arcs that are left of the node at hand.
Frontier(s, visited, queue, from, left) ==
    /\ visited \subseteq Nodes(s) /\ Root \in visited
    /\ queue \in Seq(visited)
    /\ left \subseteq OutArcs(s, from)
    /\ from \in visited \cup {NoNode}
    /\ \A x \in Arcs(s) : s.m_arcs[x].source \in visited =>
          \/ x \in left
          \/ s.m_arcs[x].target \in visited
          \/ \E k \in 1 .. Len(queue) : queue[k] = s.m_arcs[x].source

\* The target knows the positions of what was visited, and of nothing else new.
Grown(t, bt, s, visited) ==
    /\ Len(bt.m_nodes) <= Len(t.m_nodes)
    /\ \A n \in Nodes(bt) : Pos(t, n) = Pos(bt, n)
    /\ \A k \in visited : Pos(s, k) \in DOMAIN t.m_transposition_table
    /\ \A n \in Nodes(t) \ Nodes(bt) : \E k \in visited : Pos(s, k) = Pos(t, n)

Before(bt, n) == IF n \in Nodes(bt) THEN bt.m_nodes[n].m_visits ELSE 0

\* The visits of what was visited are added, once, but for the root.
Summed(t, bt, s, visited) ==
    /\ \A n \in Nodes(t) : \A k \in visited \ {Root} : Pos(s, k) = Pos(t, n) =>
          t.m_nodes[n].m_visits = Before(bt, n) + s.m_nodes[k].m_visits
    /\ \A n \in Nodes(t) : (\A k \in visited \ {Root} : Pos(s, k) # Pos(t, n)) =>
          t.m_nodes[n].m_visits = Before(bt, n)

\* Arcs are kept, the new ones are the source's, and at least one of the source's
\* leads to each node that was visited.
ArcsMerged(t, bt, s, visited) ==
    /\ Len(bt.m_arcs) <= Len(t.m_arcs)
    /\ \A x \in Arcs(bt) : t.m_arcs[x] = bt.m_arcs[x]
    /\ \A y \in Arcs(t) \ Arcs(bt) : \E x \in Arcs(s) : SameArc(t, y, s, x)
    /\ \A k \in visited \ {Root} : \E y \in Arcs(t), x \in Arcs(s) :
          s.m_arcs[x].target = k /\ SameArc(t, y, s, x)

\* All of it; from is the source's node at hand, and into the target's.
Merging(t, s, bt, bs, itt, visited, queue, from, into, left) ==
    /\ Good(t) /\ Good(s) /\ Good(bt) /\ Good(bs)
    /\ Pos(bt, Root) = Pos(bs, Root)
    /\ SourceKept(s, bs)
    /\ Inverted(s, itt)
    /\ Frontier(s, visited, queue, from, left)
    /\ from # NoNode => into \in Nodes(t) /\ Pos(t, into) = Pos(s, from)
    /\ Grown(t, bt, s, visited)
    /\ Summed(t, bt, s, visited)
    /\ ArcsMerged(t, bt, s, visited)

Searching ==
    /\ DOMAIN mcts = Objects
    /\ \A i \in Objects : Good(mcts[i]) /\ Tried(mcts[i])
    /\ Pos(mcts[1], Root) = Pos(mcts[2], Root)

MInv ==
    /\ pc \in {"search", "merge", "merged"}
    /\ pc = "search" => Searching /\ s_source = NoNode
    /\ pc = "merge" =>
          /\ t_mcts \in Objects /\ s_mcts \in Objects /\ t_mcts # s_mcts
          /\ DOMAIN mcts = Objects
          /\ Merging(mcts[t_mcts], mcts[s_mcts], before[t_mcts], before[s_mcts], s_itt,
                     s_visited, s_queue, s_source, t_source, soi)
    /\ pc = "merged" => MergedExact

-----------------------------------------------------------------------------
(* Sequences and numbers.                                                  *)

\* A non-empty set of natural numbers has a least element.
LEMMA LeastOf ==
    ASSUME NEW S \in SUBSET Nat, S # {}
    PROVE  \E k \in S : \A j \in S : k <= j
<1>1. PICK k \in S : \A j \in S : ~ (<<j, k>> \in OpToRel(<, Nat))
  BY NatLessThanWellFounded, WFMin
<1>2. \A j \in S : ~ (j < k)
  BY <1>1 DEF OpToRel
<1> QED
  BY <1>2

\* A function on 1 .. n is a sequence of length n.
LEMMA FunctionIsSeq ==
    ASSUME NEW n \in Nat, NEW S, NEW f \in [1 .. n -> S]
    PROVE  f \in Seq(S) /\ Len(f) = n
<1>1. f \in Seq(S)
  BY SeqDef
<1>2. DOMAIN f = 1 .. n /\ DOMAIN f = 1 .. Len(f) /\ Len(f) \in Nat
  BY <1>1, LenProperties
<1> QED
  BY <1>1, <1>2

\* How many numbers an interval has.
LEMMA IntervalCardinality ==
    ASSUME NEW n \in Nat
    PROVE  IsFiniteSet(1 .. n) /\ Cardinality(1 .. n) = n
<1>1. /\ IsFiniteSet(1 .. n)
      /\ Cardinality(1 .. n) = IF 1 > n THEN 0 ELSE n - 1 + 1
  BY FS_Interval
<1> QED
  BY <1>1

\* q is p with e behind it.
Longer(q, p, e) ==
    /\ Len(q) = Len(p) + 1
    /\ \A k \in 1 .. Len(p) : q[k] = p[k]
    /\ q[Len(p) + 1] = e

\* Append() puts its element behind the sequence.
LEMMA AppendIsLonger ==
    ASSUME NEW S, NEW p \in Seq(S), NEW e \in S
    PROVE  Append(p, e) \in Seq(S) /\ Longer(Append(p, e), p, e)
  BY AppendProperties DEF Longer

-----------------------------------------------------------------------------
(* Operations on an object.                                                *)

\* The moves of a position are moves.
LEMMA LegalMoves ==
    ASSUME NEW p \in Positions
    PROVE  /\ legal[p] \subseteq Move
           /\ \A m \in legal[p] : <<p, m>> \in PlayedMoves /\ play[<<p, m>>] \in Positions
<1>1. legal[p] \subseteq Move
  BY DEF Move
<1>2. \A m \in legal[p] : <<p, m>> \in PlayedMoves
  BY <1>1 DEF PlayedMoves
<1> QED
  BY <1>1, <1>2, GameTypes

\* What is known of the nodes, the arcs and the table of an object.
LEMMA ObjectParts ==
    ASSUME NEW o \in Object
    PROVE  /\ o.m_nodes \in Seq(Data) /\ o.m_arcs \in Seq(Arc) /\ o.m_path \in Seq(Nat)
           /\ o.m_transposition_table \in Tables
           /\ Len(o.m_nodes) \in Nat /\ Len(o.m_arcs) \in Nat /\ Len(o.m_path) \in Nat
           /\ DOMAIN o.m_nodes = Nodes(o) /\ DOMAIN o.m_arcs = Arcs(o)
           /\ \A n \in Nodes(o) : /\ o.m_nodes[n] \in Data
                                  /\ Pos(o, n) \in Positions
                                  /\ o.m_nodes[n].m_moves \in SUBSET Move
                                  /\ o.m_nodes[n].m_visits \in Nat
           /\ \A x \in Arcs(o) : /\ o.m_arcs[x] \in Arc
                                 /\ o.m_arcs[x].source \in Nat
                                 /\ o.m_arcs[x].target \in Nat
                                 /\ o.m_arcs[x].m_move \in Move
<1>1. /\ o.m_nodes \in Seq(Data) /\ o.m_arcs \in Seq(Arc) /\ o.m_path \in Seq(Nat)
      /\ o.m_transposition_table \in Tables
  BY DEF Object
<1>2. /\ o.m_nodes \in [1 .. Len(o.m_nodes) -> Data] /\ Len(o.m_nodes) \in Nat
      /\ o.m_arcs \in [1 .. Len(o.m_arcs) -> Arc] /\ Len(o.m_arcs) \in Nat
      /\ Len(o.m_path) \in Nat
  BY <1>1, LenProperties
<1>3. \A n \in Nodes(o) : o.m_nodes[n] \in Data
  BY <1>2 DEF Nodes
<1>4. \A x \in Arcs(o) : o.m_arcs[x] \in Arc
  BY <1>2 DEF Arcs
<1>5. DOMAIN o.m_nodes = Nodes(o) /\ DOMAIN o.m_arcs = Arcs(o)
  BY <1>2 DEF Nodes, Arcs
<1>6. \A n \in Nodes(o) : /\ Pos(o, n) \in Positions
                          /\ o.m_nodes[n].m_moves \in SUBSET Move
                          /\ o.m_nodes[n].m_visits \in Nat
  BY <1>3 DEF Pos, Data
<1>7. \A x \in Arcs(o) : /\ o.m_arcs[x].source \in Nat
                         /\ o.m_arcs[x].target \in Nat
                         /\ o.m_arcs[x].m_move \in Move
  BY <1>4 DEF Arc
<1> QED
  BY <1>1, <1>2, <1>3, <1>4, <1>5, <1>6, <1>7

\* q differs from o in values of nodes, which keep their positions, and in the path.
SameShape(q, o) ==
    /\ q \in Object
    /\ q.m_arcs = o.m_arcs
    /\ q.m_transposition_table = o.m_transposition_table
    /\ Len(q.m_nodes) = Len(o.m_nodes)
    /\ \A n \in Nodes(o) : /\ Pos(q, n) = Pos(o, n)
                           /\ q.m_nodes[n].m_moves \subseteq o.m_nodes[n].m_moves

\* Values may change as they like.
LEMMA SameShapeGood ==
    ASSUME NEW o, NEW q, Good(o), SameShape(q, o), PathOK(q)
    PROVE  Good(q) /\ (Tried(o) => Tried(q))
<1>1. Nodes(q) = Nodes(o) /\ Arcs(q) = Arcs(o)
  BY DEF SameShape, Nodes, Arcs
<1>2. TableExact(q)
  <2>1. {Pos(q, n) : n \in Nodes(q)} = {Pos(o, n) : n \in Nodes(o)}
    BY <1>1 DEF SameShape
  <2> QED
    BY <1>1, <2>1 DEF SameShape, TableExact, Good
<1>3. \A x \in Arcs(o) : o.m_arcs[x].source \in Nodes(o) /\ o.m_arcs[x].target \in Nodes(o)
  BY DEF Good, ArcsSound
<1>4. ArcsSound(q)
  BY <1>1, <1>3 DEF SameShape, ArcsSound, Good
<1>5. Rooted(q)
  BY <1>1 DEF SameShape, Rooted, Good
<1>6. Tried(o) => Tried(q)
  BY <1>1, <1>3 DEF SameShape, Tried
<1> QED
  BY <1>2, <1>4, <1>5, <1>6 DEF SameShape, Good

\* q is o with one more arc.
OneArc(q, o, a) ==
    /\ q \in Object
    /\ q.m_nodes = o.m_nodes
    /\ q.m_transposition_table = o.m_transposition_table
    /\ q.m_path = o.m_path
    /\ Longer(q.m_arcs, o.m_arcs, a)

\* a is a move between two nodes of o, and new.
NewArc(o, a) ==
    /\ a \in Arc
    /\ a.source \in Nodes(o) /\ a.target \in Nodes(o)
    /\ a.m_move \in legal[Pos(o, a.source)]
    /\ Pos(o, a.target) = play[<<Pos(o, a.source), a.m_move>>]
    /\ \A x \in Arcs(o) : o.m_arcs[x] # a

\* A new arc leaves a good object good.
LEMMA OneArcGood ==
    ASSUME NEW o, NEW q, NEW a, Good(o), OneArc(q, o, a), NewArc(o, a)
    PROVE  Good(q)
<1>1. /\ Nodes(q) = Nodes(o) /\ Arcs(q) = Arcs(o) \cup {Len(o.m_arcs) + 1}
      /\ Len(o.m_arcs) \in Nat
  BY ObjectParts DEF OneArc, Longer, Nodes, Arcs, Good
<1>2. \A n : Pos(q, n) = Pos(o, n)
  BY DEF OneArc, Pos
<1>3. TableExact(q)
  BY <1>1, <1>2 DEF OneArc, TableExact, Good
<1>4. /\ \A x \in Arcs(o) : q.m_arcs[x] = o.m_arcs[x]
      /\ q.m_arcs[Len(o.m_arcs) + 1] = a
  BY DEF OneArc, Longer, Arcs
<1>5. ArcsSound(q)
  <2>1. \A n \in Nodes(q) : q.m_nodes[n].m_moves \subseteq legal[Pos(q, n)]
    BY <1>1, <1>2 DEF OneArc, Good, ArcsSound
  <2>2. \A x \in Arcs(q) :
          LET b == q.m_arcs[x]
          IN  /\ b.source \in Nodes(q) /\ b.target \in Nodes(q)
              /\ b.m_move \in legal[Pos(q, b.source)]
              /\ Pos(q, b.target) = play[<<Pos(q, b.source), b.m_move>>]
    BY <1>1, <1>2, <1>4 DEF NewArc, Good, ArcsSound
  <2>3. \A x, y \in Arcs(q) : q.m_arcs[x] = q.m_arcs[y] => x = y
    BY <1>1, <1>4 DEF NewArc, Good, ArcsSound
  <2> QED
    BY <2>1, <2>2, <2>3 DEF ArcsSound
<1>6. Rooted(q)
  BY <1>1, <1>4 DEF Rooted, Good
<1>7. PathOK(q)
  BY <1>1 DEF OneArc, PathOK, Good
<1> QED
  BY <1>3, <1>5, <1>6, <1>7 DEF OneArc, Good

\* addArc() adds one arc.
LEMMA AddArcIs ==
    ASSUME NEW o \in Object, NEW n \in Nat, NEW t \in Nat, NEW m \in Move
    PROVE  OneArc(addArc(o, n, t, m), o, [source |-> n, target |-> t, m_move |-> m])
<1> DEFINE a == [source |-> n, target |-> t, m_move |-> m]
           q == addArc(o, n, t, m)
<1>1. a \in Arc
  BY DEF Arc
<1>2. Append(o.m_arcs, a) \in Seq(Arc) /\ Longer(Append(o.m_arcs, a), o.m_arcs, a)
  BY <1>1, AppendIsLonger DEF Object
<1> HIDE DEF a
<1>3. q = [o EXCEPT !.m_arcs = Append(o.m_arcs, a)]
  BY DEF addArc, a
<1> HIDE DEF q
<1>4. /\ q \in Object /\ q.m_nodes = o.m_nodes /\ q.m_path = o.m_path
      /\ q.m_transposition_table = o.m_transposition_table
      /\ q.m_arcs = Append(o.m_arcs, a)
  BY <1>2, <1>3 DEF Object
<1>5. OneArc(q, o, a)
  BY <1>2, <1>4 DEF OneArc
<1> QED
  BY <1>5 DEF q, a

\* q is o with one more node, the arc that leads to it and its entry in the table.
OneNode(q, o, data, a) ==
    /\ q \in Object
    /\ Longer(q.m_nodes, o.m_nodes, data)
    /\ Longer(q.m_arcs, o.m_arcs, a)
    /\ q.m_path = o.m_path
    /\ DOMAIN q.m_transposition_table = DOMAIN o.m_transposition_table \cup {data.pos}
    /\ \A p \in DOMAIN o.m_transposition_table :
          q.m_transposition_table[p] = o.m_transposition_table[p]
    /\ q.m_transposition_table[data.pos] = Len(o.m_nodes) + 1

\* data is a position that o does not know, and a is a move that leads there.
NewNode(o, data, a) ==
    /\ data \in Data
    /\ data.m_moves \subseteq legal[data.pos]
    /\ data.pos \notin DOMAIN o.m_transposition_table
    /\ a \in Arc
    /\ a.source \in Nodes(o) /\ a.target = Len(o.m_nodes) + 1
    /\ a.m_move \in legal[Pos(o, a.source)]
    /\ data.pos = play[<<Pos(o, a.source), a.m_move>>]

\* What the longer object holds, by number.
LEMMA OneNodeParts ==
    ASSUME NEW o, NEW q, NEW data, NEW a, Good(o), OneNode(q, o, data, a)
    PROVE  /\ Len(o.m_nodes) \in Nat /\ Len(o.m_arcs) \in Nat
           /\ Nodes(q) = Nodes(o) \cup {Len(o.m_nodes) + 1}
           /\ Arcs(q) = Arcs(o) \cup {Len(o.m_arcs) + 1}
           /\ \A n \in Nodes(o) : q.m_nodes[n] = o.m_nodes[n] /\ Pos(q, n) = Pos(o, n)
           /\ q.m_nodes[Len(o.m_nodes) + 1] = data /\ Pos(q, Len(o.m_nodes) + 1) = data.pos
           /\ \A x \in Arcs(o) : q.m_arcs[x] = o.m_arcs[x]
           /\ q.m_arcs[Len(o.m_arcs) + 1] = a
<1>1. Len(o.m_nodes) \in Nat /\ Len(o.m_arcs) \in Nat
  BY ObjectParts DEF Good
<1> QED
  BY <1>1 DEF OneNode, Longer, Nodes, Arcs, Pos

\* A new node leaves a good object good.
LEMMA OneNodeGood ==
    ASSUME NEW o, NEW q, NEW data, NEW a, Good(o), OneNode(q, o, data, a),
           NewNode(o, data, a)
    PROVE  Good(q)
<1> DEFINE k == Len(o.m_nodes) + 1
           b == Len(o.m_arcs) + 1
<1>1. /\ Len(o.m_nodes) \in Nat /\ Len(o.m_arcs) \in Nat
      /\ Nodes(q) = Nodes(o) \cup {k} /\ Arcs(q) = Arcs(o) \cup {b}
      /\ \A n \in Nodes(o) : q.m_nodes[n] = o.m_nodes[n] /\ Pos(q, n) = Pos(o, n)
      /\ q.m_nodes[k] = data /\ Pos(q, k) = data.pos
      /\ \A x \in Arcs(o) : q.m_arcs[x] = o.m_arcs[x]
      /\ q.m_arcs[b] = a
  BY OneNodeParts
<1>2. k \notin Nodes(o) /\ b \notin Arcs(o) /\ \A n \in Nodes(o) : n < k
  BY <1>1 DEF Nodes, Arcs
<1> HIDE DEF k, b
<1>3. TableExact(q)
  <2>1. /\ DOMAIN o.m_transposition_table = {Pos(o, n) : n \in Nodes(o)}
        /\ \A n \in Nodes(o) : o.m_transposition_table[Pos(o, n)] = n
    BY DEF Good, TableExact
  <2>2. DOMAIN q.m_transposition_table = {Pos(q, n) : n \in Nodes(q)}
    BY <1>1, <2>1 DEF OneNode
  <2>3. \A n \in Nodes(q) : q.m_transposition_table[Pos(q, n)] = n
    <3>1. ASSUME NEW n \in Nodes(o) PROVE q.m_transposition_table[Pos(q, n)] = n
      BY <1>1, <2>1 DEF OneNode
    <3>2. q.m_transposition_table[Pos(q, k)] = k
      BY <1>1 DEF OneNode, k
    <3> QED
      BY <1>1, <3>1, <3>2
  <2> QED
    BY <2>2, <2>3 DEF TableExact
<1>4. \A x \in Arcs(o) :
         o.m_arcs[x].source \in Nodes(o) /\ o.m_arcs[x].target \in Nodes(o)
  BY DEF Good, ArcsSound
<1>5. a.source \in Nodes(o) /\ a.target = k
  BY DEF NewNode, k
<1>6. ArcsSound(q)
  <2>1. \A n \in Nodes(q) : q.m_nodes[n].m_moves \subseteq legal[Pos(q, n)]
    BY <1>1 DEF NewNode, Good, ArcsSound
  <2>2. ASSUME NEW x \in Arcs(q)
        PROVE  LET c == q.m_arcs[x]
               IN  /\ c.source \in Nodes(q) /\ c.target \in Nodes(q)
                   /\ c.m_move \in legal[Pos(q, c.source)]
                   /\ Pos(q, c.target) = play[<<Pos(q, c.source), c.m_move>>]
    <3>1. CASE x \in Arcs(o)
      BY <1>1, <1>4, <3>1 DEF Good, ArcsSound
    <3>2. CASE x = b
      BY <1>1, <1>5, <3>2 DEF NewNode
    <3> QED
      BY <1>1, <3>1, <3>2
  <2>3. \A x, y \in Arcs(q) : q.m_arcs[x] = q.m_arcs[y] => x = y
    <3>1. \A x, y \in Arcs(o) : q.m_arcs[x] = q.m_arcs[y] => x = y
      BY <1>1 DEF Good, ArcsSound
    <3>2. \A x \in Arcs(o) : q.m_arcs[x] # q.m_arcs[b]
      BY <1>1, <1>2, <1>4, <1>5
    <3> QED
      BY <1>1, <3>1, <3>2
  <2> QED
    BY <2>1, <2>2, <2>3 DEF ArcsSound
<1>7. Rooted(q)
  <2> SUFFICES ASSUME NEW n \in Nodes(q) \ {Root}
               PROVE  \E x \in Arcs(q) : q.m_arcs[x].target = n /\ q.m_arcs[x].source < n
    BY DEF Rooted
  <2>1. CASE n \in Nodes(o)
    BY <1>1, <2>1 DEF Rooted, Good
  <2>2. CASE n = k
    BY <1>1, <1>2, <1>5, <2>2
  <2> QED
    BY <1>1, <2>1, <2>2
<1>8. PathOK(q)
  <2>1. q.m_path \in Seq(Nodes(q))
    <3>1. o.m_path \in Seq(Nodes(o)) /\ Nodes(o) \subseteq Nodes(q)
      BY <1>1 DEF Good, PathOK
    <3> QED
      BY <3>1, SeqDef DEF OneNode
  <2> QED
    BY <2>1 DEF OneNode, PathOK, Good
<1> QED
  BY <1>1, <1>3, <1>6, <1>7, <1>8 DEF OneNode, Longer, Good

\* addNode() and emplace() of its position add one node.
LEMMA AddNodeIs ==
    ASSUME NEW o, NEW n \in Nat, NEW data \in Data, NEW m \in Move, o \in Object,
           data.pos \notin DOMAIN o.m_transposition_table
    PROVE  OneNode(emplace(addNode(o, n, data, m), data.pos, Len(o.m_nodes) + 1), o, data,
                   [source |-> n, target |-> Len(o.m_nodes) + 1, m_move |-> m])
<1> DEFINE k == Len(o.m_nodes) + 1
           a == [source |-> n, target |-> k, m_move |-> m]
           nodes == Append(o.m_nodes, data)
           arcs == Append(o.m_arcs, a)
           tbl  == o.m_transposition_table
           table == [p \in DOMAIN tbl \cup {data.pos} |-> IF p \in DOMAIN tbl THEN tbl[p] ELSE k]
           q == emplace(addNode(o, n, data, m), data.pos, k)
<1>1. k \in Nat /\ a \in Arc /\ data.pos \in Positions
  BY ObjectParts DEF Arc, Data
<1>2. /\ nodes \in Seq(Data) /\ Longer(nodes, o.m_nodes, data)
      /\ arcs \in Seq(Arc) /\ Longer(arcs, o.m_arcs, a)
  BY <1>1, AppendIsLonger DEF Object
<1>3. q = [o EXCEPT !.m_nodes = nodes, !.m_arcs = arcs, !.m_transposition_table = table]
  BY DEF emplace, addNode, addArc, Object
<1>4. tbl \in Tables
  BY DEF Object
<1>5. PICK P \in SUBSET Positions : tbl \in [P -> Nat]
  BY <1>4 DEF Tables
<1> HIDE DEF k
<1>6. /\ DOMAIN table = P \cup {data.pos}
      /\ \A p \in P : table[p] = tbl[p]
      /\ table[data.pos] = k
  BY <1>5
<1>7. table \in [P \cup {data.pos} -> Nat]
  BY <1>1, <1>5
<1>8. table \in Tables
  BY <1>1, <1>7 DEF Tables
<1> HIDE DEF a, nodes, arcs, table, q
<1>9. /\ q \in Object /\ q.m_nodes = nodes /\ q.m_arcs = arcs
      /\ q.m_transposition_table = table /\ q.m_path = o.m_path
  BY <1>2, <1>3, <1>8 DEF Object
<1>10. OneNode(q, o, data, a)
  BY <1>2, <1>5, <1>6, <1>9 DEF OneNode, k
<1> QED
  BY <1>10 DEF q, a, k

-----------------------------------------------------------------------------
(* The steps of a search.                                                  *)

\* Walks() names its parts inside; here they have names of their own.
More(o, w) == o.m_nodes[w[Len(w)]].m_moves = {} /\ OutArcs(o, w[Len(w)]) # {}

Further(o, W) ==
    UNION {{Append(w, o.m_arcs[a].target) : a \in OutArcs(o, w[Len(w)])} :
              w \in {v \in W : More(o, v)}}

IsWalk(o, N, f) ==
    f = [k \in 0 .. N |-> IF k = 0 THEN {<< Root >>} ELSE Further(o, f[k - 1])]

\* The recursion that Walks() is defined by has a solution.
LEMMA WalkExists ==
    ASSUME NEW o, NEW N \in Nat
    PROVE  \E f : IsWalk(o, N, f)
<1> DEFINE Bad == {M \in Nat : ~ \E f : IsWalk(o, M, f)}
<1> SUFFICES ASSUME Bad # {} PROVE FALSE
  OBVIOUS
<1>1. PICK M \in Bad : \A j \in Bad : M <= j
  <2>1. Bad \in SUBSET Nat /\ Bad # {}
    OBVIOUS
  <2> HIDE DEF Bad
  <2> QED
    BY <2>1, LeastOf
<1>2. M \in Nat /\ ~ \E f : IsWalk(o, M, f)
  BY <1>1
<1>3. CASE M = 0
  <2>1. IsWalk(o, 0, [k \in 0 .. 0 |-> {<< Root >>}])
    BY DEF IsWalk
  <2> QED
    BY <1>2, <1>3, <2>1
<1>4. CASE M # 0
  <2>1. M - 1 \in Nat /\ M - 1 \notin Bad
    BY <1>1, <1>2, <1>4
  <2>2. PICK f : IsWalk(o, M - 1, f)
    BY <2>1
  <2>3. /\ \A k \in 0 .. M - 1 :
              f[k] = IF k = 0 THEN {<< Root >>} ELSE Further(o, f[k - 1])
    BY <2>2 DEF IsWalk
  <2> DEFINE g == [k \in 0 .. M |-> IF k = M THEN Further(o, f[M - 1]) ELSE f[k]]
             h == [k \in 0 .. M |-> IF k = 0 THEN {<< Root >>} ELSE Further(o, g[k - 1])]
  <2>4. ASSUME NEW k \in 0 .. M PROVE g[k] = h[k]
    <3>1. CASE k = M
      BY <1>2, <1>4, <3>1
    <3>2. CASE k # M /\ k # 0
      <4>1. k \in 0 .. M - 1 /\ k - 1 \in 0 .. M /\ k - 1 # M
        BY <1>2, <3>2
      <4>2. g[k] = f[k] /\ g[k - 1] = f[k - 1]
        BY <3>2, <4>1
      <4>3. f[k] = Further(o, f[k - 1])
        BY <2>3, <3>2, <4>1
      <4>4. h[k] = Further(o, g[k - 1])
        BY <3>2
      <4> QED
        BY <4>2, <4>3, <4>4
    <3>3. CASE k # M /\ k = 0
      BY <1>2, <1>4, <2>3, <3>3
    <3> QED
      BY <3>1, <3>2, <3>3
  <2>5. g = h
    BY <2>4
  <2>6. IsWalk(o, M, g)
    BY <2>5 DEF IsWalk
  <2> QED
    BY <1>2, <2>6
<1> QED
  BY <1>3, <1>4

\* A walk is in the solution of that recursion.
LEMMA WalksAre ==
    ASSUME NEW o, Len(o.m_nodes) \in Nat, NEW w \in Walks(o)
    PROVE  /\ \E f, k : /\ IsWalk(o, Len(o.m_nodes), f)
                        /\ k \in 0 .. Len(o.m_nodes)
                        /\ w \in f[k]
           /\ ~ More(o, w)
<1> DEFINE N == Len(o.m_nodes)
           F == CHOOSE f : IsWalk(o, N, f)
<1>1. IsWalk(o, N, F)
  BY WalkExists, Zenon
<1>2. Walks(o) = {v \in UNION {F[k] : k \in 0 .. N} : ~ More(o, v)}
  BY Zenon DEF Walks, IsWalk, More, Further
<1> HIDE DEF F
<1> QED
  BY <1>1, <1>2, Zenon

\* A walk is a non-empty sequence of nodes.
LEMMA WalksInTree ==
    ASSUME NEW o, Good(o), NEW w \in Walks(o)
    PROVE  w \in Seq(Nodes(o)) /\ Len(w) > 0 /\ w[Len(w)] \in Nodes(o)
<1>1. Len(o.m_nodes) \in Nat /\ Len(o.m_nodes) > 0 /\ DOMAIN o.m_arcs = Arcs(o)
  BY ObjectParts DEF Good
<1>2. PICK f, k : /\ IsWalk(o, Len(o.m_nodes), f)
                  /\ k \in 0 .. Len(o.m_nodes)
                  /\ w \in f[k]
  BY <1>1, WalksAre
<1> DEFINE W == {v \in Seq(Nodes(o)) : Len(v) > 0}
           Bad == {j \in 0 .. Len(o.m_nodes) : ~ (f[j] \subseteq W)}
<1>3. Bad = {}
  <2> SUFFICES ASSUME Bad # {} PROVE FALSE
    OBVIOUS
  <2>1. PICK j \in Bad : \A i \in Bad : j <= i
    <3>1. Bad \in SUBSET Nat /\ Bad # {}
      BY <1>1
    <3> HIDE DEF Bad
    <3> QED
      BY <3>1, LeastOf
  <2>2. j \in 0 .. Len(o.m_nodes) /\ ~ (f[j] \subseteq W)
    BY <2>1
  <2>3. f[j] = IF j = 0 THEN {<< Root >>} ELSE Further(o, f[j - 1])
    BY <1>2, <2>2 DEF IsWalk
  <2>4. CASE j = 0
    <3>1. Root \in Nodes(o)
      BY <1>1 DEF Nodes, Root
    <3>2. << Root >> \in Seq(Nodes(o)) /\ Len(<< Root >>) = 1
      BY <3>1
    <3> QED
      BY <2>2, <2>3, <2>4, <3>2
  <2>5. CASE j # 0
    <3>1. j - 1 \in 0 .. Len(o.m_nodes) /\ ~ (j <= j - 1)
      BY <1>1, <2>2, <2>5
    <3>2. f[j - 1] \subseteq W
      BY <2>1, <3>1
    <3>3. PICK u \in f[j] : u \notin W
      BY <2>2
    <3>4. PICK v \in f[j - 1] : \E a \in OutArcs(o, v[Len(v)]) :
                                    u = Append(v, o.m_arcs[a].target)
      BY <2>3, <2>5, <3>3 DEF Further
    <3> PICK a \in OutArcs(o, v[Len(v)]) : u = Append(v, o.m_arcs[a].target)
      BY <3>4
    <3>5. o.m_arcs[a].target \in Nodes(o)
      BY <1>1 DEF OutArcs, Good, ArcsSound
    <3>6. v \in Seq(Nodes(o)) /\ Len(v) \in Nat
      BY <3>2, <3>4, LenProperties
    <3>7. u \in Seq(Nodes(o)) /\ Len(u) = Len(v) + 1
      BY <3>5, <3>6, AppendProperties
    <3> QED
      BY <3>3, <3>6, <3>7
  <2> QED
    BY <2>4, <2>5
<1>4. w \in Seq(Nodes(o)) /\ Len(w) > 0
  BY <1>2, <1>3
<1> QED
  BY <1>4, LenProperties, ElementOfSeq

\* updateData() changes visits only.
LEMMA ScoredKeeps ==
    ASSUME NEW o \in Object, NEW path \in Seq(Nat)
    PROVE  SameShape(Scored(o, path), o) /\ Scored(o, path).m_path = o.m_path
<1> DEFINE times(n) == Cardinality({i \in DOMAIN path : path[i] = n})
           data(n) == [o.m_nodes[n] EXCEPT !.m_visits = @ + times(n)]
           nodes == [n \in DOMAIN o.m_nodes |-> data(n)]
           q == Scored(o, path)
<1>1. q = [o EXCEPT !.m_nodes = nodes]
  BY DEF Scored
<1>2. \A n : times(n) \in Nat
  <2>1. DOMAIN path = 1 .. Len(path) /\ Len(path) \in Nat
    BY LenProperties
  <2>2. IsFiniteSet(DOMAIN path)
    BY <2>1, FS_Interval
  <2>3. \A n : IsFiniteSet({i \in DOMAIN path : path[i] = n})
    BY <2>2, FS_Subset
  <2> QED
    BY <2>3, FS_CardinalityType
<1>3. \A n \in Nodes(o) : o.m_nodes[n] \in Data
  BY ObjectParts
<1> HIDE DEF times
<1>4. \A n \in Nodes(o) : /\ data(n) \in Data /\ data(n).pos = o.m_nodes[n].pos
                          /\ data(n).m_moves = o.m_nodes[n].m_moves
  BY <1>2, <1>3 DEF Data
<1> HIDE DEF data
<1>5. nodes \in [1 .. Len(o.m_nodes) -> Data] /\ Len(o.m_nodes) \in Nat
  BY <1>4, ObjectParts DEF Nodes
<1>6. nodes \in Seq(Data) /\ Len(nodes) = Len(o.m_nodes)
  BY <1>5, FunctionIsSeq
<1>7. \A n \in Nodes(o) : nodes[n] = data(n)
  BY ObjectParts
<1> HIDE DEF nodes, q
<1>8. /\ q \in Object /\ q.m_nodes = nodes /\ q.m_arcs = o.m_arcs
      /\ q.m_transposition_table = o.m_transposition_table /\ q.m_path = o.m_path
  BY <1>1, <1>6 DEF Object
<1>9. SameShape(q, o)
  BY <1>4, <1>6, <1>7, <1>8 DEF SameShape, Pos
<1> QED
  BY <1>8, <1>9 DEF q

\* Scoring leaves a good object good.
LEMMA ScoredGood ==
    ASSUME NEW o, Good(o), Tried(o), NEW path \in Seq(Nat)
    PROVE  Good(Scored(o, path)) /\ Tried(Scored(o, path))
           /\ Pos(Scored(o, path), Root) = Pos(o, Root)
<1>1. o \in Object /\ PathOK(o) /\ Root \in Nodes(o)
  BY ObjectParts DEF Good, Nodes, Root
<1>2. SameShape(Scored(o, path), o) /\ Scored(o, path).m_path = o.m_path
  BY <1>1, ScoredKeeps
<1>3. PathOK(Scored(o, path))
  BY <1>1, <1>2 DEF PathOK, SameShape, Nodes
<1> QED
  BY <1>1, <1>2, <1>3, SameShapeGood DEF SameShape

\* What NodeData() makes of the position after a move.
LEMMA NodeDataIs ==
    ASSUME NEW st, st.pos \in Positions
    PROVE  /\ NodeData(st) \in Data /\ NodeData(st).pos = st.pos
           /\ NodeData(st).m_moves \subseteq legal[st.pos]
<1>1. moves(st) \subseteq legal[st.pos] /\ moves(st) \in SUBSET Move
  BY LegalMoves DEF moves
<1> QED
  BY <1>1 DEF NodeData, Data

\* An object whose search tries move m of node n.
LEMMA AddChildGood ==
    ASSUME NEW o, Good(o), Tried(o), NEW n \in Nodes(o), NEW m \in o.m_nodes[n].m_moves
    PROVE  LET q == addChild(o, n, m)
           IN  /\ Good(q) /\ Tried(q)
               /\ Pos(q, Root) = Pos(o, Root)
               /\ Nodes(o) \subseteq Nodes(q)
               /\ q.m_arcs[Len(q.m_arcs)].target \in Nodes(q)
<1> DEFINE old == [pos |-> Pos(o, n), winner |-> invalid]
           st == move_hash_winner(old, m)
           to == play[<<Pos(o, n), m>>]
           known == find(o.m_transposition_table, st.pos)
           rest == o.m_nodes[n].m_moves \ {m}
           d == [o EXCEPT !.m_nodes[n].m_moves = rest]
           L == Len(o.m_nodes)
           q == addChild(o, n, m)
<1>1. /\ o \in Object /\ L \in Nat /\ L > 0 /\ n \in Nat /\ Root \in Nodes(o)
      /\ Len(o.m_arcs) \in Nat
  BY ObjectParts DEF Good, Nodes, Root
<1>2. m \in legal[Pos(o, n)] /\ Pos(o, n) \in Positions
  BY <1>1, ObjectParts DEF Good, ArcsSound
<1>3. m \in Move /\ to \in Positions
  BY <1>2, LegalMoves
<1>4. st.pos = to
  BY DEF move_hash_winner
<1>5. q = IF known # NoNode THEN addArc(d, n, known, m)
          ELSE emplace(addNode(d, n, NodeData(st), m), st.pos, L + 1)
  BY DEF addChild, Pos
<1>6. /\ SameShape(d, o) /\ d.m_path = o.m_path
      /\ d.m_nodes[n].m_moves = rest
  <2> DEFINE e == [o.m_nodes[n] EXCEPT !.m_moves = rest]
             nodes == [o.m_nodes EXCEPT ![n] = e]
  <2>1. d = [o EXCEPT !.m_nodes = nodes]
    BY <1>1 DEF Object
  <2>2. o.m_nodes \in Seq(Data) /\ DOMAIN o.m_nodes = Nodes(o) /\ o.m_nodes[n] \in Data
    BY <1>1, ObjectParts
  <2>3. rest \in SUBSET Move
    BY <1>1, ObjectParts
  <2> HIDE DEF rest
  <2>4. e \in Data /\ e.pos = o.m_nodes[n].pos /\ e.m_moves = rest
    BY <2>2, <2>3 DEF Data
  <2> HIDE DEF e
  <2>5. nodes \in Seq(Data) /\ Len(nodes) = Len(o.m_nodes)
    BY <2>2, <2>4, ExceptSeq
  <2>6. nodes[n] = e /\ \A k \in Nodes(o) \ {n} : nodes[k] = o.m_nodes[k]
    BY <2>2
  <2> HIDE DEF nodes, d
  <2>7. /\ d \in Object /\ d.m_nodes = nodes /\ d.m_arcs = o.m_arcs
        /\ d.m_transposition_table = o.m_transposition_table /\ d.m_path = o.m_path
    BY <1>1, <2>1, <2>5 DEF Object
  <2>8. rest \subseteq o.m_nodes[n].m_moves
    BY DEF rest
  <2> QED
    BY <2>4, <2>5, <2>6, <2>7, <2>8 DEF SameShape, Pos
<1> HIDE DEF st, d, q
<1>7. /\ Good(d) /\ Tried(d) /\ d \in Object
      /\ Nodes(d) = Nodes(o) /\ Arcs(d) = Arcs(o) /\ Len(d.m_nodes) = L
      /\ d.m_arcs = o.m_arcs /\ d.m_transposition_table = o.m_transposition_table
      /\ \A k \in Nodes(o) : Pos(d, k) = Pos(o, k)
  <2>1. PathOK(d)
    BY <1>6 DEF PathOK, Good, SameShape, Nodes
  <2> QED
    BY <1>6, <2>1, SameShapeGood DEF SameShape, Nodes, Arcs
<1>12. m \notin d.m_nodes[n].m_moves
  BY <1>6
<1>13. \A x \in Arcs(o) :
          o.m_arcs[x].m_move \notin d.m_nodes[o.m_arcs[x].source].m_moves
  BY <1>7 DEF Tried
<1> HIDE DEF rest
<1>8. \A x \in Arcs(o) : o.m_arcs[x].source # n \/ o.m_arcs[x].m_move # m
  BY DEF Tried
<1>9. \A x \in Arcs(o) : o.m_arcs[x].source \in Nodes(o)
  BY DEF Good, ArcsSound
<1>10. CASE known # NoNode
  <2>1. to \in DOMAIN o.m_transposition_table /\ known = o.m_transposition_table[to]
    BY <1>4, <1>10 DEF find
  <2>2. known \in Nodes(o) /\ Pos(o, known) = to
    BY <2>1 DEF Good, TableExact
  <2>3. known \in Nat
    BY <2>2 DEF Nodes
  <2> DEFINE a == [source |-> n, target |-> known, m_move |-> m]
  <2>4. a \in Arc /\ a.source = n /\ a.target = known /\ a.m_move = m
    BY <1>1, <1>3, <2>3 DEF Arc
  <2>5. OneArc(q, d, a)
    BY <1>1, <1>3, <1>5, <1>7, <1>10, <2>3, AddArcIs
  <2> HIDE DEF a, known
  <2>6. NewArc(d, a)
    BY <1>2, <1>7, <1>8, <2>2, <2>4 DEF NewArc
  <2>7. Good(q)
    BY <1>7, <2>5, <2>6, OneArcGood
  <2>8. /\ Nodes(q) = Nodes(o) /\ Arcs(q) = Arcs(o) \cup {Len(o.m_arcs) + 1}
        /\ q.m_nodes = d.m_nodes /\ Len(q.m_arcs) = Len(o.m_arcs) + 1
        /\ \A x \in Arcs(o) : q.m_arcs[x] = o.m_arcs[x]
        /\ q.m_arcs[Len(o.m_arcs) + 1] = a
    BY <1>1, <1>7, <2>5 DEF OneArc, Longer, Nodes, Arcs
  <2>9. Tried(q)
    BY <1>12, <1>13, <2>4, <2>8 DEF Tried
  <2>10. Pos(q, Root) = Pos(o, Root)
    BY <1>1, <1>7, <2>8 DEF Pos
  <2> QED
    BY <2>2, <2>4, <2>7, <2>8, <2>9, <2>10 DEF q
<1>11. CASE known = NoNode
  <2>1. to \notin DOMAIN o.m_transposition_table
    <3>1. \A p \in DOMAIN o.m_transposition_table : o.m_transposition_table[p] \in Nodes(o)
      BY DEF Good, TableExact
    <3> QED
      BY <1>4, <1>11, <3>1 DEF find, NoNode, Nodes
  <2> DEFINE data == NodeData(st)
             a == [source |-> n, target |-> L + 1, m_move |-> m]
  <2>2. data \in Data /\ data.pos = to /\ data.m_moves \subseteq legal[to]
    BY <1>3, <1>4, NodeDataIs
  <2>3. a \in Arc /\ a.source = n /\ a.target = L + 1 /\ a.m_move = m
    BY <1>1, <1>3 DEF Arc
  <2>4. q = emplace(addNode(d, n, data, m), data.pos, Len(d.m_nodes) + 1)
    BY <1>4, <1>5, <1>7, <1>11, <2>2
  <2> HIDE DEF data
  <2>5. OneNode(q, d, data, a)
    BY <1>1, <1>3, <1>7, <2>1, <2>2, <2>4, AddNodeIs
  <2> HIDE DEF a
  <2>6. NewNode(d, data, a)
    BY <1>2, <1>7, <2>1, <2>2, <2>3 DEF NewNode
  <2>7. Good(q)
    BY <1>7, <2>5, <2>6, OneNodeGood
  <2>8. /\ Nodes(q) = Nodes(o) \cup {L + 1} /\ Arcs(q) = Arcs(o) \cup {Len(o.m_arcs) + 1}
        /\ Len(q.m_arcs) = Len(o.m_arcs) + 1
        /\ \A k \in Nodes(o) : q.m_nodes[k] = d.m_nodes[k] /\ Pos(q, k) = Pos(d, k)
        /\ \A x \in Arcs(o) : q.m_arcs[x] = o.m_arcs[x]
        /\ q.m_arcs[Len(o.m_arcs) + 1] = a
    <3> USE <1>7, <2>5
    <3>0. /\ Nodes(q) = Nodes(d) \cup {Len(d.m_nodes) + 1}
          /\ Arcs(q) = Arcs(d) \cup {Len(d.m_arcs) + 1}
      BY OneNodeParts, Zenon
    <3>1. Nodes(q) = Nodes(o) \cup {L + 1} /\ Arcs(q) = Arcs(o) \cup {Len(o.m_arcs) + 1}
      BY <3>0
    <3>2. \A k \in Nodes(o) : q.m_nodes[k] = d.m_nodes[k] /\ Pos(q, k) = Pos(d, k)
      BY OneNodeParts
    <3>3. /\ \A x \in Arcs(o) : q.m_arcs[x] = o.m_arcs[x]
          /\ q.m_arcs[Len(o.m_arcs) + 1] = a
      BY OneNodeParts
    <3>4. Len(q.m_arcs) = Len(o.m_arcs) + 1
      BY DEF OneNode, Longer
    <3> QED
      BY <3>1, <3>2, <3>3, <3>4
  <2>9. Tried(q)
    BY <1>9, <1>12, <1>13, <2>3, <2>8, ZenonT(30) DEF Tried
  <2>10. Pos(q, Root) = Pos(o, Root)
    BY <1>1, <1>7, <2>8
  <2> QED
    BY <2>3, <2>7, <2>8, <2>9, <2>10 DEF q
<1> QED
  BY <1>10, <1>11

\* A new object is good.
LEMMA InitializedGood ==
    ASSUME NEW st, st.pos \in Positions
    PROVE  LET o == Initialized(st)
           IN  Good(o) /\ Tried(o) /\ Pos(o, Root) = st.pos
<1> DEFINE o == Initialized(st)
           data == NodeData(st)
           table == [p \in {st.pos} |-> Root]
<1>1. data \in Data /\ data.pos = st.pos /\ data.m_moves \subseteq legal[st.pos]
  BY NodeDataIs
<1> HIDE DEF data
<1>2. << data >> \in Seq(Data) /\ Len(<< data >>) = 1 /\ << data >>[1] = data
  BY <1>1
<1>3. << >> \in Seq(Arc) /\ Len(<< >>) = 0
  OBVIOUS
<1>4. << Root >> \in Seq(Nat) /\ << Root >> \in Seq(1 .. 1) /\ Len(<< Root >>) = 1
      /\ << Root >>[1] = Root
  BY DEF Root
<1>5. table \in [{st.pos} -> Nat]
  BY DEF Root
<1>6. table \in Tables
  BY <1>5 DEF Tables
<1>7. DOMAIN table = {st.pos} /\ table[st.pos] = 1
  BY DEF Root
<1> HIDE DEF table
<1>8. o = [m_nodes |-> << data >>, m_arcs |-> << >>, m_transposition_table |-> table,
           m_path |-> << Root >>]
  BY DEF Initialized, data, table
<1> HIDE DEF o
<1>9. /\ o \in Object /\ o.m_nodes = << data >> /\ o.m_arcs = << >>
      /\ o.m_transposition_table = table /\ o.m_path = << Root >>
  BY <1>2, <1>3, <1>4, <1>6, <1>8 DEF Object
<1>10. Nodes(o) = {1} /\ Arcs(o) = {} /\ Pos(o, 1) = st.pos /\ Nodes(o) = 1 .. 1
  BY <1>1, <1>2, <1>3, <1>9 DEF Nodes, Arcs, Pos
<1>11. TableExact(o)
  BY <1>7, <1>9, <1>10 DEF TableExact
<1>12. ArcsSound(o)
  BY <1>1, <1>2, <1>9, <1>10 DEF ArcsSound
<1>13. Rooted(o) /\ Tried(o)
  BY <1>10 DEF Rooted, Tried, Root
<1>14. PathOK(o)
  BY <1>4, <1>9, <1>10 DEF PathOK
<1> QED
  BY <1>2, <1>9, <1>10, <1>11, <1>12, <1>13, <1>14 DEF Good, Root, o

\* The invariant holds at the start.
LEMMA InitMInv == Init => MInv
<1> SUFFICES ASSUME Init PROVE MInv
  OBVIOUS
<1>1. PICK p \in Starts :
         mcts = [i \in Objects |-> Initialized([pos |-> p, winner |-> invalid])]
  BY DEF Init
<1> DEFINE st == [pos |-> p, winner |-> invalid]
<1>2. st.pos = p /\ p \in Positions
  BY GameTypes
<1> HIDE DEF st
<1>3. /\ Good(Initialized(st)) /\ Tried(Initialized(st))
      /\ Pos(Initialized(st), Root) = p
  BY <1>2, InitializedGood
<1>4. DOMAIN mcts = Objects /\ \A i \in Objects : mcts[i] = Initialized(st)
  BY <1>1 DEF st
<1>5. Searching
  BY <1>3, <1>4 DEF Searching, Objects
<1> QED
  BY <1>5 DEF Init, MInv

\* One iteration, seen at its object.
LEMMA IterateObject ==
    ASSUME NEW o, Good(o), Tried(o), NEW w \in Walks(o), NEW q,
           \/ q = Scored(o, w)
           \/ \E m \in o.m_nodes[w[Len(w)]].m_moves :
                 LET with == addChild(o, w[Len(w)], m)
                 IN  q = Scored(with, Append(w, with.m_arcs[Len(with.m_arcs)].target))
    PROVE  Good(q) /\ Tried(q) /\ Pos(q, Root) = Pos(o, Root)
<1>1. w \in Seq(Nodes(o)) /\ w[Len(w)] \in Nodes(o)
  BY WalksInTree
<1>2. ASSUME NEW S, S \subseteq Nat, NEW u \in Seq(S) PROVE u \in Seq(Nat)
  <2>1. u \in [1 .. Len(u) -> S] /\ Len(u) \in Nat
    BY <1>2, LenProperties
  <2>2. u \in [1 .. Len(u) -> Nat]
    BY <1>2, <2>1
  <2> QED
    BY <2>1, <2>2, FunctionIsSeq
<1>3. CASE q = Scored(o, w)
  <2>1. w \in Seq(Nat)
    BY <1>1, <1>2 DEF Nodes
  <2> QED
    BY <1>3, <2>1, ScoredGood
<1>4. ASSUME NEW m \in o.m_nodes[w[Len(w)]].m_moves, NEW with,
             with = addChild(o, w[Len(w)], m),
             q = Scored(with, Append(w, with.m_arcs[Len(with.m_arcs)].target))
      PROVE  Good(q) /\ Tried(q) /\ Pos(q, Root) = Pos(o, Root)
  <2>1. /\ Good(with) /\ Tried(with) /\ Pos(with, Root) = Pos(o, Root)
        /\ Nodes(o) \subseteq Nodes(with)
        /\ with.m_arcs[Len(with.m_arcs)].target \in Nodes(with)
    BY <1>1, <1>4, AddChildGood
  <2> DEFINE to == with.m_arcs[Len(with.m_arcs)].target
  <2> HIDE DEF to
  <2>2. w \in Seq(Nat) /\ to \in Nat
    BY <1>1, <1>2, <2>1 DEF Nodes, to
  <2>3. Append(w, to) \in Seq(Nat)
    BY <2>2, AppendProperties
  <2>4. q = Scored(with, Append(w, to))
    BY <1>4 DEF to
  <2> QED
    BY <2>1, <2>3, <2>4, ScoredGood
<1> QED
  BY <1>3, <1>4

\* A step of a search that changes one object and leaves it good.
LEMMA SearchStep ==
    ASSUME MInv, pc = "search", pc' = pc, s_source' = s_source, NEW i \in Objects, NEW q,
           mcts' = [mcts EXCEPT ![i] = q], Good(q), Tried(q),
           Pos(q, Root) = Pos(mcts[i], Root)
    PROVE  MInv'
<1>1. Searching /\ s_source = NoNode
  BY DEF MInv
<1>2. /\ DOMAIN mcts' = Objects /\ mcts'[i] = q
      /\ \A j \in Objects \ {i} : mcts'[j] = mcts[j]
  BY <1>1 DEF Searching
<1>3. \A j \in Objects : Good(mcts'[j]) /\ Tried(mcts'[j])
  BY <1>1, <1>2 DEF Searching
<1>4. Pos(mcts'[1], Root) = Pos(mcts'[2], Root)
  BY <1>1, <1>2 DEF Searching, Objects
<1>5. Searching'
  BY <1>2, <1>3, <1>4 DEF Searching
<1> QED
  BY <1>1, <1>5 DEF MInv

\* Iterate keeps the invariant.
LEMMA IterateKeeps ==
    ASSUME MInv, NEW i \in Objects, Iterate(i)
    PROVE  MInv'
<1>1. pc = "search" /\ pc' = pc /\ s_source' = s_source
  BY DEF Iterate, merging
<1>2. Good(mcts[i]) /\ Tried(mcts[i])
  BY <1>1 DEF MInv, Searching
<1> DEFINE Result(w, q) ==
              \/ q = Scored(mcts[i], w)
              \/ \E m \in mcts[i].m_nodes[w[Len(w)]].m_moves :
                    LET with == addChild(mcts[i], w[Len(w)], m)
                    IN  q = Scored(with, Append(w, with.m_arcs[Len(with.m_arcs)].target))
<1>3. PICK w \in Walks(mcts[i]) : \E q : mcts' = [mcts EXCEPT ![i] = q] /\ Result(w, q)
  BY Zenon DEF Iterate
<1>4. PICK q : mcts' = [mcts EXCEPT ![i] = q] /\ Result(w, q)
  BY <1>3
<1>5. Good(q) /\ Tried(q) /\ Pos(q, Root) = Pos(mcts[i], Root)
  BY <1>2, <1>4, IterateObject
<1> QED
  BY <1>1, <1>4, <1>5, SearchStep

\* EndSearch keeps the invariant.
LEMMA EndSearchKeeps ==
    ASSUME MInv, NEW i \in Objects, EndSearch(i)
    PROVE  MInv'
<1>1. pc = "search" /\ pc' = pc /\ s_source' = s_source
  BY DEF EndSearch, merging
<1>2. Good(mcts[i]) /\ Tried(mcts[i]) /\ mcts[i].m_path = << Root >> /\ DOMAIN mcts = Objects
  BY <1>1 DEF MInv, Searching, EndSearch
<1>3. PICK o : o = mcts[i]
  OBVIOUS
<1>4. PICK a \in OutArcs(o, Root) :
         mcts' = [mcts EXCEPT ![i].m_path = Append(@, o.m_arcs[a].target)]
  BY <1>3 DEF EndSearch
<1> DEFINE path == Append(<< Root >>, o.m_arcs[a].target)
           q == [o EXCEPT !.m_path = path]
<1>5. mcts' = [mcts EXCEPT ![i] = q]
  BY <1>2, <1>3, <1>4
<1>6. o \in Object /\ o.m_arcs[a].target \in Nodes(o) /\ Root \in Nodes(o)
  BY <1>2, <1>3, ObjectParts DEF Good, ArcsSound, OutArcs, Nodes, Root
<1>7. path \in Seq(Nodes(o)) /\ Len(path) = 2 /\ path[1] = Root
  BY <1>6
<1>8. path \in Seq(Nat)
  BY <1>7, SeqDef DEF Nodes
<1> HIDE DEF path
<1>9. /\ q \in Object /\ q.m_nodes = o.m_nodes /\ q.m_arcs = o.m_arcs
      /\ q.m_transposition_table = o.m_transposition_table /\ q.m_path = path
  BY <1>6, <1>8 DEF Object
<1> HIDE DEF q
<1>10. SameShape(q, o) /\ PathOK(q) /\ Pos(q, Root) = Pos(o, Root)
  BY <1>7, <1>9 DEF SameShape, PathOK, Pos, Nodes
<1>11. Good(q) /\ Tried(q)
  BY <1>2, <1>3, <1>10, SameShapeGood
<1> QED
  BY <1>1, <1>3, <1>5, <1>10, <1>11, SearchStep

-----------------------------------------------------------------------------
(* The steps of merge().                                                   *)

\* invertTranspositionTable() turns an exact table round.
LEMMA InvertedTable ==
    ASSUME NEW o, Good(o)
    PROVE  Inverted(o, invertTranspositionTable(o))
<1>1. DOMAIN o.m_nodes = Nodes(o)
  BY ObjectParts DEF Good
<1>2. /\ DOMAIN o.m_transposition_table = {Pos(o, n) : n \in Nodes(o)}
      /\ \A n \in Nodes(o) : o.m_transposition_table[Pos(o, n)] = n
  BY DEF Good, TableExact
<1>3. ASSUME NEW n \in Nodes(o)
      PROVE  invertTranspositionTable(o)[n] = Pos(o, n)
  <2> DEFINE Fits(p) == p \in DOMAIN o.m_transposition_table
                        /\ o.m_transposition_table[p] = n
             c == CHOOSE p \in DOMAIN o.m_transposition_table :
                      o.m_transposition_table[p] = n
  <2>1. invertTranspositionTable(o)[n] = c
    BY <1>1 DEF invertTranspositionTable
  <2>2. Fits(Pos(o, n))
    BY <1>2
  <2>3. Fits(c)
    BY <2>2
  <2>4. \A p : Fits(p) => p = Pos(o, n)
    BY <1>2
  <2> QED
    BY <2>1, <2>3, <2>4
<1> QED
  BY <1>1, <1>3 DEF Inverted, invertTranspositionTable

\* Where merge() starts.
LEMMA MergingStarts ==
    ASSUME NEW t, NEW s, Good(t), Good(s), Pos(t, Root) = Pos(s, Root),
           NEW itt, Inverted(s, itt)
    PROVE  Merging(t, s, t, s, itt, {Root}, << Root >>, NoNode, NoNode, {})
<1>1. Root \in Nodes(s) /\ Root \in Nodes(t) /\ NoNode \notin Nodes(s)
  BY ObjectParts DEF Good, Nodes, Root, NoNode
<1>2. Len(t.m_nodes) \in Nat /\ Len(t.m_arcs) \in Nat
  BY ObjectParts DEF Good
<1>3. SourceKept(s, s)
  BY DEF SourceKept
<1>4. Frontier(s, {Root}, << Root >>, NoNode, {})
  <2>1. << Root >> \in Seq({Root}) /\ Len(<< Root >>) = 1 /\ << Root >>[1] = Root
    OBVIOUS
  <2>2. \A x \in Arcs(s) : s.m_arcs[x].source \in {Root} =>
           \E k \in 1 .. Len(<< Root >>) : << Root >>[k] = s.m_arcs[x].source
    BY <2>1
  <2> QED
    BY <1>1, <2>1, <2>2 DEF Frontier
<1>5. Grown(t, t, s, {Root})
  <2>1. Pos(s, Root) \in DOMAIN t.m_transposition_table
    BY <1>1 DEF Good, TableExact
  <2> QED
    BY <1>2, <2>1 DEF Grown
<1>6. Summed(t, t, s, {Root})
  BY DEF Summed, Before
<1>7. ArcsMerged(t, t, s, {Root})
  BY <1>2 DEF ArcsMerged
<1> QED
  BY <1>3, <1>4, <1>5, <1>6, <1>7 DEF Merging

\* StartMerge keeps the invariant.
LEMMA StartMergeKeeps ==
    ASSUME MInv, StartMerge
    PROVE  MInv'
<1>1. /\ Searching /\ pc' = "merge" /\ mcts' = mcts /\ before' = mcts
      /\ s_itt' = invertTranspositionTable(mcts[s_mcts'])
      /\ s_visited' = {Root} /\ s_queue' = << Root >>
      /\ s_source' = NoNode /\ t_source' = NoNode /\ soi' = {}
  BY DEF MInv, StartMerge
<1>2. t_mcts' \in Objects /\ s_mcts' \in Objects /\ t_mcts' # s_mcts'
  <2>1. PICK t \in Objects :
           LET s == CHOOSE i \in Objects : i # t
               swap == Len(mcts[t].m_nodes) < Len(mcts[s].m_nodes)
           IN  /\ t_mcts' = IF swap THEN s ELSE t
               /\ s_mcts' = IF swap THEN t ELSE s
    BY DEF StartMerge
  <2>2. \E i \in Objects : i # t
    BY DEF Objects
  <2>3. PICK s : s = (CHOOSE i \in Objects : i # t)
    OBVIOUS
  <2>4. s \in Objects /\ s # t
    BY <2>2, <2>3
  <2> QED
    BY <2>1, <2>3, <2>4
<1>3. PICK ti, si : ti = t_mcts' /\ si = s_mcts'
  OBVIOUS
<1>4. /\ Good(mcts[ti]) /\ Good(mcts[si]) /\ Pos(mcts[ti], Root) = Pos(mcts[si], Root)
      /\ DOMAIN mcts = Objects
  BY <1>1, <1>2, <1>3 DEF Searching, Objects
<1>5. Inverted(mcts[si], s_itt')
  BY <1>1, <1>3, <1>4, InvertedTable
<1>6. Merging(mcts[ti], mcts[si], mcts[ti], mcts[si], s_itt', {Root}, << Root >>, NoNode,
              NoNode, {})
  BY <1>4, <1>5, MergingStarts
<1>7. Merging(mcts'[t_mcts'], mcts'[s_mcts'], before'[t_mcts'], before'[s_mcts'], s_itt',
              s_visited', s_queue', s_source', t_source', soi')
  BY <1>1, <1>3, <1>6
<1> QED
  BY <1>1, <1>2, <1>4, <1>7 DEF MInv

\* What the pop of the front of the queue does to the frontier.
LEMMA PopMerging ==
    ASSUME NEW t, NEW s, NEW bt, NEW bs, NEW itt, NEW V, NEW Q, NEW from, NEW into,
           Merging(t, s, bt, bs, itt, V, Q, from, into, {}), Q # << >>
    PROVE  Merging(t, s, bt, bs, itt, V, Tail(Q), Head(Q),
                   find(t.m_transposition_table, itt[Head(Q)]), OutArcs(s, Head(Q)))
<1>1. /\ Good(t) /\ Good(s) /\ Inverted(s, itt) /\ Grown(t, bt, s, V)
      /\ Frontier(s, V, Q, from, {})
  BY DEF Merging
<1>2. /\ V \subseteq Nodes(s) /\ Root \in V /\ Q \in Seq(V)
      /\ \A x \in Arcs(s) : s.m_arcs[x].source \in V =>
            \/ s.m_arcs[x].target \in V
            \/ \E k \in 1 .. Len(Q) : Q[k] = s.m_arcs[x].source
  BY <1>1 DEF Frontier
<1>3. /\ Len(Q) \in Nat /\ Len(Q) > 0 /\ Head(Q) = Q[1] /\ Head(Q) \in V
      /\ Tail(Q) \in Seq(V) /\ Len(Tail(Q)) = Len(Q) - 1
      /\ \A k \in 1 .. Len(Q) - 1 : Tail(Q)[k] = Q[k + 1]
  BY <1>2, HeadTailProperties, EmptySeq, LenProperties, ElementOfSeq
<1>4. DOMAIN s.m_arcs = Arcs(s)
  BY <1>1, ObjectParts DEF Good
<1>5. Frontier(s, V, Tail(Q), Head(Q), OutArcs(s, Head(Q)))
  <2>1. ASSUME NEW x \in Arcs(s), s.m_arcs[x].source \in V,
               s.m_arcs[x].target \notin V, x \notin OutArcs(s, Head(Q))
        PROVE  \E k \in 1 .. Len(Tail(Q)) : Tail(Q)[k] = s.m_arcs[x].source
    <3>1. PICK k \in 1 .. Len(Q) : Q[k] = s.m_arcs[x].source
      BY <1>2, <2>1
    <3>2. k # 1
      BY <1>3, <1>4, <2>1, <3>1 DEF OutArcs
    <3>3. k - 1 \in 1 .. Len(Tail(Q)) /\ Tail(Q)[k - 1] = Q[k]
      BY <1>3, <3>1, <3>2
    <3> QED
      BY <3>1, <3>3
  <2> QED
    BY <1>2, <1>3, <2>1 DEF Frontier
<1>6. LET to == find(t.m_transposition_table, itt[Head(Q)])
      IN  to \in Nodes(t) /\ Pos(t, to) = Pos(s, Head(Q))
  <2>1. itt[Head(Q)] = Pos(s, Head(Q)) /\ Pos(s, Head(Q)) \in DOMAIN t.m_transposition_table
    BY <1>1, <1>2, <1>3 DEF Inverted, Grown
  <2>2. PICK n \in Nodes(t) : Pos(s, Head(Q)) = Pos(t, n)
    BY <1>1, <2>1 DEF Good, TableExact
  <2>3. find(t.m_transposition_table, itt[Head(Q)]) = n
    BY <1>1, <2>1, <2>2 DEF Good, TableExact, find
  <2> QED
    BY <2>2, <2>3
<1> QED
  BY <1>5, <1>6 DEF Merging

\* MergePop keeps the invariant.
LEMMA MergePopKeeps ==
    ASSUME MInv, MergePop
    PROVE  MInv'
<1>1. /\ pc = "merge" /\ pc' = "merge" /\ mcts' = mcts /\ before' = before
      /\ t_mcts' = t_mcts /\ s_mcts' = s_mcts /\ s_itt' = s_itt /\ s_visited' = s_visited
      /\ soi = {} /\ s_queue # << >>
      /\ s_queue' = Tail(s_queue) /\ s_source' = Head(s_queue)
      /\ t_source' = find(mcts[t_mcts].m_transposition_table, s_itt[Head(s_queue)])
      /\ soi' = OutArcs(mcts[s_mcts], Head(s_queue))
  BY DEF MergePop, Popped
<1>2. /\ t_mcts \in Objects /\ s_mcts \in Objects /\ t_mcts # s_mcts
      /\ DOMAIN mcts = Objects
      /\ Merging(mcts[t_mcts], mcts[s_mcts], before[t_mcts], before[s_mcts], s_itt,
                 s_visited, s_queue, s_source, t_source, {})
  BY <1>1 DEF MInv
<1>3. Merging(mcts[t_mcts], mcts[s_mcts], before[t_mcts], before[s_mcts], s_itt,
              s_visited, Tail(s_queue), Head(s_queue),
              find(mcts[t_mcts].m_transposition_table, s_itt[Head(s_queue)]),
              OutArcs(mcts[s_mcts], Head(s_queue)))
  BY <1>1, <1>2, PopMerging
<1>4. Merging(mcts'[t_mcts'], mcts'[s_mcts'], before'[t_mcts'], before'[s_mcts'], s_itt',
              s_visited', s_queue', s_source', t_source', soi')
  BY <1>1, <1>3
<1> QED
  BY <1>1, <1>2, <1>4 DEF MInv

\* One position is one node.
LEMMA OneNodeEach ==
    ASSUME NEW o, Good(o), NEW n \in Nodes(o), NEW k \in Nodes(o), Pos(o, n) = Pos(o, k)
    PROVE  n = k
  BY DEF Good, TableExact

\* r is the target t after it took the node that arc x of s leads to, as its node c.
Took(r, t, s, x, c) ==
    /\ Good(r)
    /\ Len(t.m_nodes) <= Len(r.m_nodes)
    /\ c \in Nodes(r) /\ Nodes(r) \subseteq Nodes(t) \cup {c}
    /\ \A n \in Nodes(t) : Pos(r, n) = Pos(t, n)
    /\ Pos(r, c) = Pos(s, s.m_arcs[x].target)
    /\ r.m_nodes[c].m_visits = Before(t, c) + s.m_nodes[s.m_arcs[x].target].m_visits
    /\ \A n \in Nodes(t) \ {c} : r.m_nodes[n].m_visits = t.m_nodes[n].m_visits
    /\ Len(t.m_arcs) <= Len(r.m_arcs)
    /\ \A y \in Arcs(t) : r.m_arcs[y] = t.m_arcs[y]
    /\ \A y \in Arcs(r) \ Arcs(t) : SameArc(r, y, s, x)
    /\ \E y \in Arcs(r) : SameArc(r, y, s, x)

\* Nodes and arcs of a longer object.
LEMMA LongerParts ==
    ASSUME NEW o \in Object, NEW q \in Object, Len(o.m_nodes) <= Len(q.m_nodes),
           Len(o.m_arcs) <= Len(q.m_arcs)
    PROVE  Nodes(o) \subseteq Nodes(q) /\ Arcs(o) \subseteq Arcs(q)
  BY ObjectParts DEF Nodes, Arcs

\* The target's side of a step that takes a node.
LEMMA TargetTakes ==
    ASSUME NEW t, NEW s, NEW bt, NEW V, NEW x \in Arcs(s), NEW c, NEW r, NEW k,
           Good(t), Good(s), Good(bt), V \subseteq Nodes(s), Root \in V,
           k = s.m_arcs[x].target, k \notin V, Took(r, t, s, x, c),
           Grown(t, bt, s, V), Summed(t, bt, s, V), ArcsMerged(t, bt, s, V)
    PROVE  /\ Grown(r, bt, s, V \cup {k})
           /\ Summed(r, bt, s, V \cup {k})
           /\ ArcsMerged(r, bt, s, V \cup {k})
<1>1. k \in Nodes(s) /\ k # Root
  BY DEF Good, ArcsSound
<1>2. /\ Len(bt.m_nodes) \in Nat /\ Len(t.m_nodes) \in Nat /\ Len(r.m_nodes) \in Nat
      /\ Len(bt.m_arcs) \in Nat /\ Len(t.m_arcs) \in Nat /\ Len(r.m_arcs) \in Nat
      /\ Len(bt.m_nodes) <= Len(t.m_nodes) /\ Len(t.m_nodes) <= Len(r.m_nodes)
      /\ Len(bt.m_arcs) <= Len(t.m_arcs) /\ Len(t.m_arcs) <= Len(r.m_arcs)
      /\ bt \in Object /\ t \in Object /\ r \in Object
  BY ObjectParts DEF Good, Took, Grown, ArcsMerged
<1>3. /\ Nodes(bt) \subseteq Nodes(t) /\ Nodes(t) \subseteq Nodes(r)
      /\ Arcs(bt) \subseteq Arcs(t) /\ Arcs(t) \subseteq Arcs(r)
  BY <1>2, LongerParts
<1>4. Pos(r, c) = Pos(s, k) /\ c \in Nodes(r) /\ \A n \in Nodes(r) \ {c} : n \in Nodes(t)
  BY DEF Took
<1>5. \A n \in Nodes(t) : Pos(r, n) = Pos(t, n)
  BY DEF Took
<1>6. \A n \in Nodes(r) : Pos(r, n) = Pos(s, k) => n = c
  BY <1>4, OneNodeEach DEF Took
<1>7. \A j \in V : Pos(s, j) # Pos(s, k)
  BY <1>1, OneNodeEach
<1>8. Grown(r, bt, s, V \cup {k})
  <2>1. Len(bt.m_nodes) <= Len(r.m_nodes)
    BY <1>2
  <2>2. \A n \in Nodes(bt) : Pos(r, n) = Pos(bt, n)
    BY <1>3, <1>5 DEF Grown
  <2>3. \A j \in V \cup {k} : Pos(s, j) \in DOMAIN r.m_transposition_table
    <3>1. /\ DOMAIN t.m_transposition_table = {Pos(t, n) : n \in Nodes(t)}
          /\ DOMAIN r.m_transposition_table = {Pos(r, n) : n \in Nodes(r)}
      BY DEF Good, TableExact, Took
    <3>2. DOMAIN t.m_transposition_table \subseteq DOMAIN r.m_transposition_table
      BY <1>3, <1>5, <3>1
    <3>3. Pos(s, k) \in DOMAIN r.m_transposition_table
      BY <1>4, <3>1
    <3> QED
      BY <3>2, <3>3 DEF Grown
  <2>4. \A n \in Nodes(r) \ Nodes(bt) : \E j \in V \cup {k} : Pos(s, j) = Pos(r, n)
    <3> SUFFICES ASSUME NEW n \in Nodes(r) \ Nodes(bt)
                 PROVE  \E j \in V \cup {k} : Pos(s, j) = Pos(r, n)
      OBVIOUS
    <3>1. CASE n = c
      BY <1>4, <3>1
    <3>2. CASE n # c
      BY <1>4, <1>5, <3>2 DEF Grown
    <3> QED
      BY <3>1, <3>2
  <2> QED
    BY <2>1, <2>2, <2>3, <2>4 DEF Grown
<1>9. Summed(r, bt, s, V \cup {k})
  <2>1. r.m_nodes[c].m_visits = Before(bt, c) + s.m_nodes[k].m_visits
    <3>1. Before(t, c) = Before(bt, c)
      <4>1. CASE c \in Nodes(t)
        <5>1. \A j \in V \ {Root} : Pos(s, j) # Pos(t, c)
          BY <1>4, <1>5, <1>7, <4>1
        <5> QED
          BY <4>1, <5>1 DEF Summed, Before
      <4>2. CASE c \notin Nodes(t)
        BY <1>3, <4>2 DEF Before
      <4> QED
        BY <4>1, <4>2
    <3> QED
      BY <3>1 DEF Took
  <2>2. ASSUME NEW n \in Nodes(r) \ {c}
        PROVE  /\ n \in Nodes(t) /\ r.m_nodes[n].m_visits = t.m_nodes[n].m_visits
               /\ Pos(r, n) = Pos(t, n) /\ Pos(r, n) # Pos(s, k)
    BY <1>4, <1>5, <1>6 DEF Took
  <2>3. ASSUME NEW n \in Nodes(r), NEW j \in (V \cup {k}) \ {Root}, Pos(s, j) = Pos(r, n)
        PROVE  r.m_nodes[n].m_visits = Before(bt, n) + s.m_nodes[j].m_visits
    <3>1. CASE n = c
      BY <1>4, <1>7, <2>1, <2>3, <3>1
    <3>2. CASE n # c
      BY <2>2, <2>3, <3>2 DEF Summed
    <3> QED
      BY <3>1, <3>2
  <2>4. ASSUME NEW n \in Nodes(r), \A j \in (V \cup {k}) \ {Root} : Pos(s, j) # Pos(r, n)
        PROVE  r.m_nodes[n].m_visits = Before(bt, n)
    <3>1. n # c
      BY <1>1, <1>4, <2>4
    <3> QED
      BY <2>2, <2>4, <3>1 DEF Summed
  <2> QED
    BY <2>3, <2>4 DEF Summed
<1>10. ASSUME NEW y \in Arcs(t), NEW z, SameArc(t, y, s, z) PROVE SameArc(r, y, s, z)
  <2>1. /\ r.m_arcs[y] = t.m_arcs[y]
        /\ t.m_arcs[y].source \in Nodes(t) /\ t.m_arcs[y].target \in Nodes(t)
    BY DEF Took, Good, ArcsSound
  <2> QED
    BY <1>5, <1>10, <2>1 DEF SameArc
<1>11. ArcsMerged(r, bt, s, V \cup {k})
  <2>1. Len(bt.m_arcs) <= Len(r.m_arcs)
    BY <1>2
  <2>2. \A y \in Arcs(bt) : r.m_arcs[y] = bt.m_arcs[y]
    BY <1>3 DEF Took, ArcsMerged
  <2>3. ASSUME NEW y \in Arcs(r) \ Arcs(bt) PROVE \E z \in Arcs(s) : SameArc(r, y, s, z)
    <3>1. CASE y \in Arcs(t)
      BY <1>10, <3>1 DEF ArcsMerged
    <3>2. CASE y \notin Arcs(t)
      BY <3>2 DEF Took
    <3> QED
      BY <3>1, <3>2
  <2>4. ASSUME NEW j \in (V \cup {k}) \ {Root}
        PROVE  \E y \in Arcs(r), z \in Arcs(s) :
                  s.m_arcs[z].target = j /\ SameArc(r, y, s, z)
    <3>1. CASE j = k
      BY <3>1 DEF Took
    <3>2. CASE j # k
      <4>1. PICK y \in Arcs(t), z \in Arcs(s) :
               s.m_arcs[z].target = j /\ SameArc(t, y, s, z)
        BY <3>2 DEF ArcsMerged
      <4> QED
        BY <1>3, <1>10, <4>1
    <3> QED
      BY <3>1, <3>2
  <2> QED
    BY <2>1, <2>2, <2>3, <2>4 DEF ArcsMerged
<1> QED
  BY <1>8, <1>9, <1>11

\* The source's side: the frontier moves on to a node not met before.
LEMMA FrontierTakes ==
    ASSUME NEW s, Good(s), NEW V, NEW Q, NEW from, NEW left, NEW x \in left, NEW k,
           Frontier(s, V, Q, from, left), k = s.m_arcs[x].target, k \notin V
    PROVE  Frontier(s, V \cup {k}, Append(Q, k), from, left \ {x})
<1>1. /\ V \subseteq Nodes(s) /\ Root \in V /\ Q \in Seq(V)
      /\ left \subseteq OutArcs(s, from) /\ from \in V \cup {NoNode}
      /\ \A y \in Arcs(s) : s.m_arcs[y].source \in V =>
            \/ y \in left
            \/ s.m_arcs[y].target \in V
            \/ \E j \in 1 .. Len(Q) : Q[j] = s.m_arcs[y].source
  BY DEF Frontier
<1>2. x \in Arcs(s) /\ k \in Nodes(s)
  BY <1>1, ObjectParts DEF OutArcs, Good, ArcsSound
<1>3. Q \in Seq(V \cup {k}) /\ Len(Q) \in Nat
  <2>1. Q \in [1 .. Len(Q) -> V] /\ Len(Q) \in Nat
    BY <1>1, LenProperties
  <2>2. Q \in [1 .. Len(Q) -> V \cup {k}]
    BY <2>1
  <2> QED
    BY <2>1, <2>2, FunctionIsSeq
<1>4. Append(Q, k) \in Seq(V \cup {k}) /\ Longer(Append(Q, k), Q, k)
  BY <1>3, AppendIsLonger
<1> DEFINE R == Append(Q, k)
<1> HIDE DEF R
<1>5. /\ R \in Seq(V \cup {k}) /\ Len(R) = Len(Q) + 1 /\ R[Len(Q) + 1] = k
      /\ \A j \in 1 .. Len(Q) : R[j] = Q[j] /\ j \in 1 .. Len(R)
      /\ Len(Q) + 1 \in 1 .. Len(R)
  BY <1>3, <1>4 DEF Longer, R
<1>6. ASSUME NEW y \in Arcs(s), s.m_arcs[y].source \in V \cup {k}, y \notin left \ {x},
             s.m_arcs[y].target \notin V \cup {k}
      PROVE  \E j \in 1 .. Len(R) : R[j] = s.m_arcs[y].source
  <2>1. CASE s.m_arcs[y].source = k
    BY <1>5, <2>1
  <2>2. CASE s.m_arcs[y].source \in V
    BY <1>1, <1>5, <1>6, <2>2
  <2> QED
    BY <1>6, <2>1, <2>2
<1>7. Frontier(s, V \cup {k}, R, from, left \ {x})
  BY <1>1, <1>2, <1>5, <1>6 DEF Frontier
<1> QED
  BY <1>7 DEF R

\* A source that loses moves is as good a source.
LEMMA SourceLoses ==
    ASSUME NEW t, NEW s, NEW bt, NEW bs, NEW itt, NEW V, NEW Q, NEW from, NEW into,
           NEW left, NEW z, Merging(t, s, bt, bs, itt, V, Q, from, into, left),
           SameShape(z, s), z.m_path = s.m_path,
           \A n \in Nodes(s) : z.m_nodes[n].m_visits = s.m_nodes[n].m_visits
    PROVE  Merging(t, z, bt, bs, itt, V, Q, from, into, left)
<1>1. /\ Good(s) /\ Good(t) /\ SourceKept(s, bs) /\ Inverted(s, itt)
      /\ Frontier(s, V, Q, from, left)
      /\ Grown(t, bt, s, V) /\ Summed(t, bt, s, V) /\ ArcsMerged(t, bt, s, V)
      /\ from # NoNode => into \in Nodes(t) /\ Pos(t, into) = Pos(s, from)
  BY DEF Merging
<1>2. /\ Nodes(z) = Nodes(s) /\ Arcs(z) = Arcs(s) /\ z.m_arcs = s.m_arcs
      /\ \A n \in Nodes(s) : Pos(z, n) = Pos(s, n)
      /\ V \subseteq Nodes(s)
  BY <1>1 DEF SameShape, Nodes, Arcs, Frontier
<1>3. Good(z)
  <2>1. PathOK(z)
    BY <1>1, <1>2 DEF PathOK, Good
  <2> QED
    BY <1>1, <2>1, SameShapeGood
<1>4. SourceKept(z, bs) /\ Inverted(z, itt)
  BY <1>1, <1>2 DEF SourceKept, Inverted, SameShape
<1>5. Frontier(z, V, Q, from, left)
  BY <1>1, <1>2 DEF Frontier, OutArcs
<1>6. Grown(t, bt, z, V) /\ Summed(t, bt, z, V)
  BY <1>1, <1>2 DEF Grown, Summed
<1>7. \A y, x : x \in Arcs(s) /\ SameArc(t, y, s, x) => SameArc(t, y, z, x)
  BY <1>1, <1>2 DEF SameArc, Good, ArcsSound
<1>8. ArcsMerged(t, bt, z, V)
  BY <1>1, <1>2, <1>7 DEF ArcsMerged
<1>9. from # NoNode => Pos(z, from) = Pos(s, from)
  BY <1>1, <1>2 DEF Frontier
<1> QED
  BY <1>1, <1>3, <1>4, <1>5, <1>6, <1>8, <1>9 DEF Merging

\* What is known of an arc of the node at hand.
AtHand(t, s, into, from, x) ==
    /\ x \in Arcs(s) /\ s.m_arcs[x].source = from /\ from \in Nodes(s)
    /\ s.m_arcs[x].target \in Nodes(s)
    /\ into \in Nodes(t) /\ Pos(t, into) = Pos(s, from)
    /\ s.m_arcs[x].m_move \in legal[Pos(s, from)]
    /\ s.m_arcs[x].m_move \in Move
    /\ Pos(s, s.m_arcs[x].target) = play[<<Pos(s, from), s.m_arcs[x].m_move>>]

\* An arc that is left leaves the node at hand, whose position both trees have.
LEMMA ArcAtHand ==
    ASSUME NEW t, NEW s, NEW bt, NEW bs, NEW itt, NEW V, NEW Q, NEW from, NEW into,
           NEW left, NEW x \in left, Merging(t, s, bt, bs, itt, V, Q, from, into, left)
    PROVE  AtHand(t, s, into, from, x)
<1>1. Good(s) /\ left \subseteq OutArcs(s, from)
  BY DEF Merging, Frontier
<1>2. x \in Arcs(s) /\ s.m_arcs[x].source = from
  BY <1>1, ObjectParts DEF OutArcs, Good
<1>3. /\ from \in Nodes(s) /\ s.m_arcs[x].target \in Nodes(s)
      /\ s.m_arcs[x].m_move \in legal[Pos(s, from)]
      /\ Pos(s, s.m_arcs[x].target) = play[<<Pos(s, from), s.m_arcs[x].m_move>>]
  BY <1>1, <1>2 DEF Good, ArcsSound
<1>4. from # NoNode
  BY <1>3 DEF Nodes, NoNode
<1>5. s.m_arcs[x].m_move \in Move
  BY <1>1, <1>2, ObjectParts DEF Good
<1> QED
  BY <1>2, <1>3, <1>4, <1>5 DEF AtHand, Merging

\* q is o with v visits more at node c.
Added(q, o, c, v) == q = [o EXCEPT !.m_nodes[c].m_visits = @ + v]

\* The values of the source's node are added to the target's node c.
LEMMA VisitsAdded ==
    ASSUME NEW o, Good(o), NEW c \in Nodes(o), NEW v \in Nat, NEW q, Added(q, o, c, v)
    PROVE  /\ Good(q) /\ Len(q.m_nodes) = Len(o.m_nodes) /\ q.m_arcs = o.m_arcs
           /\ \A n \in Nodes(o) : Pos(q, n) = Pos(o, n)
           /\ q.m_nodes[c].m_visits = o.m_nodes[c].m_visits + v
           /\ \A n \in Nodes(o) \ {c} : q.m_nodes[n] = o.m_nodes[n]
<1> DEFINE w == o.m_nodes[c].m_visits + v
           e == [o.m_nodes[c] EXCEPT !.m_visits = w]
           nodes == [o.m_nodes EXCEPT ![c] = e]
<1>1. o \in Object
  BY DEF Good
<1>2. /\ o.m_nodes \in Seq(Data) /\ DOMAIN o.m_nodes = Nodes(o) /\ o.m_nodes[c] \in Data
      /\ w \in Nat
  BY <1>1, ObjectParts
<1>3. q = [o EXCEPT !.m_nodes = nodes]
  BY <1>1, <1>2 DEF Object, Data, Added
<1> HIDE DEF w
<1>4. /\ e \in Data /\ e.pos = o.m_nodes[c].pos /\ e.m_moves = o.m_nodes[c].m_moves
      /\ e.m_visits = w
  BY <1>2 DEF Data
<1> HIDE DEF e
<1>5. nodes \in Seq(Data) /\ Len(nodes) = Len(o.m_nodes)
  BY <1>2, <1>4, ExceptSeq
<1>6. nodes[c] = e /\ \A n \in Nodes(o) \ {c} : nodes[n] = o.m_nodes[n]
  BY <1>2
<1> HIDE DEF nodes
<1>7. /\ q \in Object /\ q.m_nodes = nodes /\ q.m_arcs = o.m_arcs
      /\ q.m_transposition_table = o.m_transposition_table /\ q.m_path = o.m_path
  BY <1>1, <1>3, <1>5 DEF Object
<1>8. SameShape(q, o)
  BY <1>4, <1>5, <1>6, <1>7 DEF SameShape, Pos
<1>9. PathOK(q)
  BY <1>5, <1>7 DEF Good, PathOK, Nodes
<1>10. Good(q)
  BY <1>8, <1>9, SameShapeGood
<1> QED
  BY <1>4, <1>5, <1>6, <1>7, <1>8, <1>10 DEF SameShape, w

\* The arc that MergedChild() needs: there already, or added.
LEMMA ArcThere ==
    ASSUME NEW t, NEW s, NEW into, NEW from, NEW x, NEW c \in Nodes(t),
           Good(t), Good(s), AtHand(t, s, into, from, x),
           Pos(t, c) = Pos(s, s.m_arcs[x].target)
    PROVE  LET with == IF \E b \in OutArcs(t, into) : t.m_arcs[b].target = c THEN t
                       ELSE addArc(t, into, c, s.m_arcs[x].m_move)
           IN  /\ Good(with) /\ with.m_nodes = t.m_nodes
               /\ Len(t.m_arcs) <= Len(with.m_arcs)
               /\ \A y \in Arcs(t) : with.m_arcs[y] = t.m_arcs[y]
               /\ \A y \in Arcs(with) \ Arcs(t) : SameArc(with, y, s, x)
               /\ \E y \in Arcs(with) : SameArc(with, y, s, x)
<1> DEFINE m == s.m_arcs[x].m_move
           There == \E b \in OutArcs(t, into) : t.m_arcs[b].target = c
           with == IF There THEN t ELSE addArc(t, into, c, m)
<1>1. t \in Object /\ Len(t.m_arcs) \in Nat /\ DOMAIN t.m_arcs = Arcs(t)
  BY ObjectParts DEF Good
<1>2. /\ into \in Nodes(t) /\ Pos(t, into) = Pos(s, from)
      /\ m \in legal[Pos(t, into)] /\ m \in Move
      /\ Pos(t, c) = play[<<Pos(t, into), m>>]
      /\ s.m_arcs[x].source = from
  BY DEF AtHand
<1>3. CASE There
  <2>1. PICK b \in Arcs(t) : t.m_arcs[b].source = into /\ t.m_arcs[b].target = c
    BY <1>1, <1>3 DEF OutArcs
  <2>2. /\ t.m_arcs[b].m_move \in legal[Pos(t, into)]
        /\ Pos(t, c) = play[<<Pos(t, into), t.m_arcs[b].m_move>>]
    BY <2>1 DEF Good, ArcsSound
  <2>3. Pos(t, into) \in Positions
    BY <1>1, <1>2, ObjectParts
  <2>4. t.m_arcs[b].m_move = m
    BY <1>2, <2>2, <2>3, MovesDiffer
  <2>5. SameArc(t, b, s, x)
    BY <1>2, <2>1, <2>4 DEF SameArc
  <2> QED
    BY <1>1, <1>3, <2>1, <2>5
<1>4. CASE ~ There
  <2> DEFINE a == [source |-> into, target |-> c, m_move |-> m]
             q == addArc(t, into, c, m)
  <2>1. into \in Nat /\ c \in Nat
    BY <1>2 DEF Nodes
  <2>2. a \in Arc /\ a.source = into /\ a.target = c /\ a.m_move = m
    BY <1>2, <2>1 DEF Arc
  <2>3. OneArc(q, t, a)
    BY <1>1, <1>2, <2>1, AddArcIs
  <2> HIDE DEF a, q
  <2>4. \A b \in Arcs(t) : t.m_arcs[b] # a
    BY <1>1, <1>4, <2>2 DEF OutArcs
  <2>5. NewArc(t, a)
    BY <1>2, <2>2, <2>4 DEF NewArc
  <2>6. Good(q)
    BY <2>3, <2>5, OneArcGood
  <2>7. /\ q.m_nodes = t.m_nodes /\ Len(q.m_arcs) = Len(t.m_arcs) + 1
        /\ Arcs(q) = Arcs(t) \cup {Len(t.m_arcs) + 1}
        /\ \A y \in Arcs(t) : q.m_arcs[y] = t.m_arcs[y]
        /\ q.m_arcs[Len(t.m_arcs) + 1] = a
    BY <1>1, <2>3 DEF OneArc, Longer, Arcs
  <2>8. SameArc(q, Len(t.m_arcs) + 1, s, x)
    BY <1>2, <2>2, <2>7 DEF SameArc, Pos
  <2>9. with = q
    BY <1>4 DEF q
  <2> HIDE DEF with
  <2>10. /\ Good(with) /\ with.m_nodes = t.m_nodes
         /\ Len(t.m_arcs) <= Len(with.m_arcs)
         /\ \A y \in Arcs(t) : with.m_arcs[y] = t.m_arcs[y]
         /\ \A y \in Arcs(with) \ Arcs(t) : SameArc(with, y, s, x)
         /\ \E y \in Arcs(with) : SameArc(with, y, s, x)
    BY <1>1, <2>6, <2>7, <2>8, <2>9
  <2> QED
    BY <2>10 DEF with
<1> QED
  BY <1>3, <1>4

\* MergedChild() takes the node.
LEMMA MergedChildTook ==
    ASSUME NEW t, NEW s, NEW from, NEW x, NEW c \in Nodes(t),
           Good(t), Good(s), AtHand(t, s, t_source, from, x),
           Pos(t, c) = Pos(s, s.m_arcs[x].target)
    PROVE  Took(MergedChild(t, c, s.m_arcs[x], s.m_nodes[s.m_arcs[x].target]), t, s, x, c)
<1> DEFINE k == s.m_arcs[x].target
           v == s.m_nodes[k].m_visits
           e == IF \E b \in OutArcs(t, t_source) : t.m_arcs[b].target = c THEN t
                ELSE addArc(t, t_source, c, s.m_arcs[x].m_move)
           r == [e EXCEPT !.m_nodes[c].m_visits = @ + v]
<1>1. MergedChild(t, c, s.m_arcs[x], s.m_nodes[k]) = r
  BY DEF MergedChild
<1>11. Added(r, e, c, v)
  BY DEF Added
<1>2. /\ Good(e) /\ e.m_nodes = t.m_nodes
      /\ Len(t.m_arcs) <= Len(e.m_arcs)
      /\ \A y \in Arcs(t) : e.m_arcs[y] = t.m_arcs[y]
      /\ \A y \in Arcs(e) \ Arcs(t) : SameArc(e, y, s, x)
      /\ \E y \in Arcs(e) : SameArc(e, y, s, x)
  BY ArcThere
<1> HIDE DEF e, r
<1>3. v \in Nat
  BY ObjectParts DEF AtHand, Good
<1> HIDE DEF v
<1>4. Nodes(e) = Nodes(t) /\ Len(t.m_nodes) \in Nat
  BY <1>2, ObjectParts DEF Nodes, Good
<1>5. /\ Good(r) /\ Len(r.m_nodes) = Len(e.m_nodes) /\ r.m_arcs = e.m_arcs
      /\ \A n \in Nodes(e) : Pos(r, n) = Pos(e, n)
      /\ r.m_nodes[c].m_visits = e.m_nodes[c].m_visits + v
      /\ \A n \in Nodes(e) \ {c} : r.m_nodes[n] = e.m_nodes[n]
  BY <1>2, <1>3, <1>4, <1>11, VisitsAdded
<1>6. /\ Nodes(r) = Nodes(t) /\ Arcs(r) = Arcs(e)
      /\ \A n \in Nodes(t) : Pos(r, n) = Pos(t, n) /\ Pos(e, n) = Pos(t, n)
  BY <1>2, <1>4, <1>5 DEF Nodes, Arcs, Pos
<1>7. ASSUME NEW y \in Arcs(e), SameArc(e, y, s, x) PROVE SameArc(r, y, s, x)
  <2>1. e.m_arcs[y].source \in Nodes(e) /\ e.m_arcs[y].target \in Nodes(e)
    BY <1>2 DEF Good, ArcsSound
  <2> QED
    BY <1>5, <1>7, <2>1 DEF SameArc
<1>8. r.m_nodes[c].m_visits = Before(t, c) + v
  BY <1>2, <1>5 DEF Before
<1>9. \A n \in Nodes(t) \ {c} : r.m_nodes[n].m_visits = t.m_nodes[n].m_visits
  BY <1>2, <1>4, <1>5
<1>10. Took(r, t, s, x, c)
  <2>1. Len(t.m_nodes) <= Len(r.m_nodes) /\ Len(t.m_arcs) <= Len(r.m_arcs)
    BY <1>2, <1>4, <1>5
  <2>2. \A y \in Arcs(r) \ Arcs(t) : SameArc(r, y, s, x)
    BY <1>2, <1>6, <1>7
  <2>3. \E y \in Arcs(r) : SameArc(r, y, s, x)
    BY <1>2, <1>6, <1>7
  <2>4. \A y \in Arcs(t) : r.m_arcs[y] = t.m_arcs[y]
    BY <1>2, <1>5
  <2> QED
    BY <1>5, <1>6, <1>8, <1>9, <2>1, <2>2, <2>3, <2>4 DEF Took, v
<1> QED
  BY <1>1, <1>10

\* AddedChild() takes the node.
LEMMA AddedChildTook ==
    ASSUME NEW t, NEW s, NEW from, NEW x, Good(t), Good(s),
           AtHand(t, s, t_source, from, x), NEW p, p = Pos(s, s.m_arcs[x].target),
           p \notin DOMAIN t.m_transposition_table
    PROVE  Took(AddedChild(t, p, s.m_arcs[x], s.m_nodes[s.m_arcs[x].target]), t, s, x,
                Len(t.m_nodes) + 1)
<1> DEFINE k == s.m_arcs[x].target
           data == s.m_nodes[k]
           m == s.m_arcs[x].m_move
           c == Len(t.m_nodes) + 1
           a == [source |-> t_source, target |-> c, m_move |-> m]
           r == AddedChild(t, p, s.m_arcs[x], data)
<1>1. /\ t \in Object /\ Len(t.m_arcs) \in Nat /\ Len(t.m_nodes) \in Nat /\ c \in Nat
      /\ c \notin Nodes(t)
  BY ObjectParts DEF Good, Nodes
<1>2. /\ t_source \in Nodes(t) /\ Pos(t, t_source) = Pos(s, from)
      /\ m \in legal[Pos(t, t_source)] /\ m \in Move
      /\ p = play[<<Pos(t, t_source), m>>]
      /\ s.m_arcs[x].source = from /\ k \in Nodes(s)
  BY DEF AtHand
<1>3. /\ data \in Data /\ data.pos = p /\ data.m_moves \subseteq legal[data.pos]
      /\ data.m_visits \in Nat
  BY <1>2, ObjectParts DEF Good, ArcsSound, Pos
<1>4. r = emplace(addNode(t, t_source, data, m), data.pos, Len(t.m_nodes) + 1)
  BY <1>3 DEF AddedChild
<1>5. t_source \in Nat
  BY <1>2 DEF Nodes
<1>6. a \in Arc /\ a.source = t_source /\ a.target = c /\ a.m_move = m
  BY <1>1, <1>2, <1>5 DEF Arc
<1> HIDE DEF data, r, m
<1>7. OneNode(r, t, data, a)
  BY <1>1, <1>2, <1>3, <1>4, <1>5, AddNodeIs
<1> HIDE DEF a
<1>8. NewNode(t, data, a)
  BY <1>2, <1>3, <1>6 DEF NewNode
<1>9. Good(r)
  BY <1>7, <1>8, OneNodeGood
<1>10. /\ Nodes(r) = Nodes(t) \cup {c}
       /\ Arcs(r) = Arcs(t) \cup {Len(t.m_arcs) + 1}
       /\ \A n \in Nodes(t) : r.m_nodes[n] = t.m_nodes[n] /\ Pos(r, n) = Pos(t, n)
       /\ r.m_nodes[c] = data /\ Pos(r, c) = data.pos
       /\ \A y \in Arcs(t) : r.m_arcs[y] = t.m_arcs[y]
       /\ r.m_arcs[Len(t.m_arcs) + 1] = a
  BY <1>7, OneNodeParts
<1>11. Len(t.m_nodes) <= Len(r.m_nodes) /\ Len(t.m_arcs) <= Len(r.m_arcs)
  BY <1>1, <1>7 DEF OneNode, Longer
<1> HIDE DEF c
<1>12. SameArc(r, Len(t.m_arcs) + 1, s, x)
  BY <1>2, <1>3, <1>6, <1>10 DEF SameArc, m
<1>13. r.m_nodes[c].m_visits = Before(t, c) + data.m_visits
  BY <1>1, <1>3, <1>10 DEF Before
<1>14. \A y \in Arcs(r) \ Arcs(t) : SameArc(r, y, s, x)
  BY <1>10, <1>12
<1>15. \E y \in Arcs(r) : SameArc(r, y, s, x)
  BY <1>10, <1>12
<1>16. Pos(r, c) = Pos(s, k)
  BY <1>3, <1>10
<1>17. Took(r, t, s, x, c)
  BY <1>9, <1>10, <1>11, <1>13, <1>14, <1>15, <1>16 DEF Took, data
<1> QED
  BY <1>17 DEF r, c, data

\* The node whose moves are moved out of the source.
LEMMA MovesTaken ==
    ASSUME NEW o, Good(o), NEW k \in Nodes(o), NEW z,
           z = [o EXCEPT !.m_nodes[k].m_moves = {}]
    PROVE  /\ SameShape(z, o) /\ z.m_path = o.m_path
           /\ \A n \in Nodes(o) : z.m_nodes[n].m_visits = o.m_nodes[n].m_visits
<1> DEFINE e == [o.m_nodes[k] EXCEPT !.m_moves = {}]
           nodes == [o.m_nodes EXCEPT ![k] = e]
<1>1. o \in Object
  BY DEF Good
<1>2. o.m_nodes \in Seq(Data) /\ DOMAIN o.m_nodes = Nodes(o) /\ o.m_nodes[k] \in Data
  BY <1>1, ObjectParts
<1>3. z = [o EXCEPT !.m_nodes = nodes]
  BY <1>1, <1>2 DEF Object, Data
<1>4. /\ e \in Data /\ e.pos = o.m_nodes[k].pos /\ e.m_moves = {}
      /\ e.m_visits = o.m_nodes[k].m_visits
  BY <1>2 DEF Data
<1> HIDE DEF e
<1>5. nodes \in Seq(Data) /\ Len(nodes) = Len(o.m_nodes)
  BY <1>2, <1>4, ExceptSeq
<1>6. nodes[k] = e /\ \A n \in Nodes(o) \ {k} : nodes[n] = o.m_nodes[n]
  BY <1>2
<1> HIDE DEF nodes
<1>7. /\ z \in Object /\ z.m_nodes = nodes /\ z.m_arcs = o.m_arcs
      /\ z.m_transposition_table = o.m_transposition_table /\ z.m_path = o.m_path
  BY <1>1, <1>3, <1>5 DEF Object
<1>8. SameShape(z, o)
  BY <1>4, <1>5, <1>6, <1>7 DEF SameShape, Pos
<1> QED
  BY <1>4, <1>6, <1>7, <1>8

\* An arc is passed over when its node was met before.
LEMMA PassMerging ==
    ASSUME NEW t, NEW s, NEW bt, NEW bs, NEW itt, NEW V, NEW Q, NEW from, NEW into,
           NEW left, NEW x \in left, Merging(t, s, bt, bs, itt, V, Q, from, into, left),
           s.m_arcs[x].target \in V
    PROVE  Merging(t, s, bt, bs, itt, V, Q, from, into, left \ {x})
<1>1. Frontier(s, V, Q, from, left)
  BY DEF Merging
<1>2. Frontier(s, V, Q, from, left \ {x})
  BY <1>1 DEF Frontier
<1> QED
  BY <1>2 DEF Merging

\* A node is taken.
LEMMA TakeMerging ==
    ASSUME NEW t, NEW s, NEW bt, NEW bs, NEW itt, NEW V, NEW Q, NEW from, NEW into,
           NEW left, NEW x \in left, Merging(t, s, bt, bs, itt, V, Q, from, into, left),
           NEW k, k = s.m_arcs[x].target, k \notin V, NEW r, NEW c, Took(r, t, s, x, c)
    PROVE  Merging(r, s, bt, bs, itt, V \cup {k}, Append(Q, k), from, into, left \ {x})
<1>1. AtHand(t, s, into, from, x)
  BY ArcAtHand
<1>2. /\ Good(t) /\ Good(s) /\ Good(bt) /\ Frontier(s, V, Q, from, left)
      /\ Grown(t, bt, s, V) /\ Summed(t, bt, s, V) /\ ArcsMerged(t, bt, s, V)
  BY DEF Merging
<1>3. V \subseteq Nodes(s) /\ Root \in V /\ x \in Arcs(s)
  BY <1>1, <1>2 DEF Frontier, AtHand
<1>4. /\ Grown(r, bt, s, V \cup {k}) /\ Summed(r, bt, s, V \cup {k})
      /\ ArcsMerged(r, bt, s, V \cup {k})
  BY <1>2, <1>3, TargetTakes
<1>5. Frontier(s, V \cup {k}, Append(Q, k), from, left \ {x})
  BY <1>2, FrontierTakes
<1>6. into \in Nodes(r) /\ Pos(r, into) = Pos(s, from)
  <2>1. t \in Object /\ r \in Object
    BY <1>2 DEF Good, Took
  <2>2. Nodes(t) \subseteq Nodes(r)
    BY <2>1, LongerParts DEF Took
  <2> QED
    BY <1>1, <2>2 DEF AtHand, Took
<1>7. Good(r)
  BY DEF Took
<1> QED
  BY <1>4, <1>5, <1>6, <1>7 DEF Merging

\* MergeArc keeps the invariant.
LEMMA MergeArcKeeps ==
    ASSUME MInv, MergeArc
    PROVE  MInv'
<1>1. /\ pc = "merge" /\ pc' = "merge" /\ before' = before
      /\ t_mcts' = t_mcts /\ s_mcts' = s_mcts /\ s_itt' = s_itt
      /\ s_source' = s_source /\ t_source' = t_source
  BY DEF MergeArc
<1>2. PICK t, s, bt, bs : /\ t = mcts[t_mcts] /\ s = mcts[s_mcts]
                          /\ bt = before[t_mcts] /\ bs = before[s_mcts]
  OBVIOUS
<1>3. /\ t_mcts \in Objects /\ s_mcts \in Objects /\ t_mcts # s_mcts
      /\ DOMAIN mcts = Objects
      /\ Merging(t, s, bt, bs, s_itt, s_visited, s_queue, s_source, t_source, soi)
  BY <1>1, <1>2 DEF MInv
<1>4. PICK x \in soi :
         /\ soi' = soi \ {x}
         /\ LET a     == s.m_arcs[x]
                data  == s.m_nodes[a.target]
                child == find(t.m_transposition_table, s_itt[a.target])
            IN  \/ a.target \in s_visited /\ UNCHANGED <<mcts, s_visited, s_queue>>
                \/ /\ a.target \notin s_visited
                   /\ s_visited' = s_visited \cup {a.target}
                   /\ s_queue' = Append(s_queue, a.target)
                   /\ \/ /\ child # NoNode
                         /\ mcts' = [mcts EXCEPT ![t_mcts] = MergedChild(t, child, a, data)]
                      \/ /\ child = NoNode
                         /\ mcts' = [mcts EXCEPT
                               ![t_mcts] = AddedChild(t, s_itt[a.target], a, data),
                               ![s_mcts].m_nodes[a.target].m_moves = {}]
  BY <1>2, Zenon DEF MergeArc
<1> DEFINE k == s.m_arcs[x].target
           child == find(t.m_transposition_table, s_itt[k])
<1>5. AtHand(t, s, t_source, s_source, x) /\ k \in Nodes(s) /\ x \in Arcs(s)
  BY <1>3, ArcAtHand DEF AtHand
<1>6. /\ Good(t) /\ Good(s) /\ s_itt[k] = Pos(s, k)
  BY <1>3, <1>5 DEF Merging, Inverted
<1>7. ASSUME NEW r, NEW z, DOMAIN mcts' = Objects, mcts'[t_mcts] = r, mcts'[s_mcts] = z,
             Merging(r, z, bt, bs, s_itt, s_visited', s_queue', s_source, t_source, soi')
      PROVE  MInv'
  <2>1. Merging(mcts'[t_mcts'], mcts'[s_mcts'], before'[t_mcts'], before'[s_mcts'], s_itt',
                s_visited', s_queue', s_source', t_source', soi')
    BY <1>1, <1>2, <1>7
  <2> QED
    BY <1>1, <1>3, <1>7, <2>1 DEF MInv
<1>8. CASE k \in s_visited
  <2>1. mcts' = mcts /\ s_visited' = s_visited /\ s_queue' = s_queue /\ soi' = soi \ {x}
    BY <1>4, <1>8
  <2>2. Merging(t, s, bt, bs, s_itt, s_visited, s_queue, s_source, t_source, soi \ {x})
    BY <1>3, <1>8, PassMerging
  <2> QED
    BY <1>2, <1>3, <1>7, <2>1, <2>2
<1>9. CASE k \notin s_visited /\ child # NoNode
  <2> DEFINE r == MergedChild(t, child, s.m_arcs[x], s.m_nodes[k])
  <2>1. /\ mcts' = [mcts EXCEPT ![t_mcts] = r] /\ soi' = soi \ {x}
        /\ s_visited' = s_visited \cup {k} /\ s_queue' = Append(s_queue, k)
    BY <1>4, <1>9
  <2>2. child \in Nodes(t) /\ Pos(t, child) = Pos(s, k)
    BY <1>6, <1>9 DEF find, Good, TableExact
  <2>3. Took(r, t, s, x, child)
    BY <1>5, <1>6, <2>2, MergedChildTook
  <2> HIDE DEF r, child
  <2>4. Merging(r, s, bt, bs, s_itt, s_visited \cup {k}, Append(s_queue, k), s_source,
                t_source, soi \ {x})
    BY <1>3, <1>9, <2>3, TakeMerging
  <2>5. DOMAIN mcts' = Objects /\ mcts'[t_mcts] = r /\ mcts'[s_mcts] = s
    BY <1>2, <1>3, <2>1
  <2> QED
    BY <1>7, <2>1, <2>4, <2>5
<1>10. CASE k \notin s_visited /\ child = NoNode
  <2> DEFINE r == AddedChild(t, s_itt[k], s.m_arcs[x], s.m_nodes[k])
             z == [s EXCEPT !.m_nodes[k].m_moves = {}]
  <2>1. /\ mcts' = [mcts EXCEPT ![t_mcts] = r, ![s_mcts].m_nodes[k].m_moves = {}]
        /\ soi' = soi \ {x}
        /\ s_visited' = s_visited \cup {k} /\ s_queue' = Append(s_queue, k)
    BY <1>4, <1>10
  <2>2. Pos(s, k) \notin DOMAIN t.m_transposition_table
    <3>1. \A p \in DOMAIN t.m_transposition_table : t.m_transposition_table[p] \in Nodes(t)
      BY <1>6 DEF Good, TableExact
    <3> QED
      BY <1>6, <1>10, <3>1 DEF find, NoNode, Nodes
  <2>3. Took(r, t, s, x, Len(t.m_nodes) + 1)
    BY <1>5, <1>6, <2>2, AddedChildTook
  <2>4. DOMAIN mcts' = Objects /\ mcts'[t_mcts] = r /\ mcts'[s_mcts] = z
    <3> HIDE DEF r
    <3>1. mcts' = [mcts EXCEPT ![t_mcts] = r, ![s_mcts] = z]
      BY <1>2, <1>3, <2>1
    <3> HIDE DEF z
    <3> QED
      BY <1>3, <3>1
  <2> HIDE DEF r
  <2>5. Merging(r, s, bt, bs, s_itt, s_visited \cup {k}, Append(s_queue, k), s_source,
                t_source, soi \ {x})
    BY <1>3, <1>10, <2>3, TakeMerging, ZenonT(30)
  <2>6. /\ SameShape(z, s) /\ z.m_path = s.m_path
        /\ \A n \in Nodes(s) : z.m_nodes[n].m_visits = s.m_nodes[n].m_visits
    BY <1>5, <1>6, MovesTaken
  <2> HIDE DEF z
  <2>7. Merging(r, z, bt, bs, s_itt, s_visited \cup {k}, Append(s_queue, k), s_source,
                t_source, soi \ {x})
    BY <2>5, <2>6, SourceLoses
  <2> QED
    BY <1>7, <2>1, <2>4, <2>7
<1> QED
  BY <1>8, <1>9, <1>10

-----------------------------------------------------------------------------
(* What merge() leaves.  The parts of MergedExact, with names of their own. *)

PositionsOf(o) == {o.m_nodes[n].pos : n \in DOMAIN o.m_nodes}

VisitsOf(o, p) ==
    LET n == find(o.m_transposition_table, p)
    IN  IF n = NoNode THEN 0 ELSE o.m_nodes[n].m_visits

EdgeOf(o, a) == <<o.m_nodes[a.source].pos, a.m_move, o.m_nodes[a.target].pos>>

EdgesOf(o) == {EdgeOf(o, a) : a \in {o.m_arcs[x] : x \in DOMAIN o.m_arcs}}

Exact(m, t, s) ==
    LET root == t.m_nodes[Root].pos
    IN  /\ PositionsOf(m) = PositionsOf(t) \cup PositionsOf(s)
        /\ DOMAIN m.m_transposition_table = PositionsOf(m)
        /\ \A n \in DOMAIN m.m_nodes : m.m_transposition_table[m.m_nodes[n].pos] = n
        /\ VisitsOf(m, root) = VisitsOf(t, root)
        /\ \A p \in PositionsOf(m) \ {root} : VisitsOf(m, p) = VisitsOf(t, p) + VisitsOf(s, p)
        /\ EdgesOf(t) \subseteq EdgesOf(m) /\ EdgesOf(m) \subseteq EdgesOf(t) \cup EdgesOf(s)
        /\ \A p \in PositionsOf(s) \ {root} : \E e \in EdgesOf(s) \cap EdgesOf(m) : e[3] = p
        /\ Cardinality(EdgesOf(m)) = Len(m.m_arcs)
        /\ m.m_path = << Root >>

\* When the queue is empty, every node of the source was visited: the least node
\* that was not would have been entered from one that was.
LEMMA AllVisited ==
    ASSUME NEW s, Good(s), NEW V, NEW from, Frontier(s, V, << >>, from, {})
    PROVE  V = Nodes(s)
<1>1. V \subseteq Nodes(s) /\ Root \in V
  BY DEF Frontier
<1>2. \A x \in Arcs(s) : s.m_arcs[x].source \in V => s.m_arcs[x].target \in V
  BY DEF Frontier
<1> DEFINE Bad == Nodes(s) \ V
<1> SUFFICES ASSUME Bad # {} PROVE FALSE
  BY <1>1
<1>3. Bad \in SUBSET Nat
  BY DEF Nodes
<1>4. PICK n \in Bad : \A j \in Bad : n <= j
  <2> HIDE DEF Bad
  <2> QED
    BY <1>3, LeastOf
<1>5. PICK x \in Arcs(s) : s.m_arcs[x].target = n /\ s.m_arcs[x].source < n
  BY <1>1, <1>4 DEF Good, Rooted
<1>6. s.m_arcs[x].source \in Nodes(s) /\ s.m_arcs[x].source \in Nat /\ n \in Nat
  <2>1. s.m_arcs[x].source \in Nodes(s) /\ n \in Nodes(s)
    BY <1>4 DEF Good, ArcsSound
  <2> QED
    BY <2>1 DEF Nodes
<1>7. s.m_arcs[x].source \notin Bad
  BY <1>4, <1>5, <1>6
<1> QED
  BY <1>2, <1>4, <1>5, <1>6, <1>7

\* Positions and edges of a good object, by number.
LEMMA PartsOf ==
    ASSUME NEW o, Good(o)
    PROVE  /\ PositionsOf(o) = {Pos(o, n) : n \in Nodes(o)}
           /\ DOMAIN o.m_transposition_table = PositionsOf(o)
           /\ \A n \in Nodes(o) : o.m_transposition_table[Pos(o, n)] = n
           /\ EdgesOf(o) = {EdgeOf(o, o.m_arcs[x]) : x \in Arcs(o)}
           /\ DOMAIN o.m_nodes = Nodes(o) /\ DOMAIN o.m_arcs = Arcs(o)
           /\ Root \in Nodes(o)
<1>1. DOMAIN o.m_nodes = Nodes(o) /\ DOMAIN o.m_arcs = Arcs(o) /\ Root \in Nodes(o)
  BY ObjectParts DEF Good, Nodes, Root
<1>2. PositionsOf(o) = {Pos(o, n) : n \in Nodes(o)}
  BY <1>1 DEF PositionsOf, Pos
<1>3. EdgesOf(o) = {EdgeOf(o, o.m_arcs[x]) : x \in Arcs(o)}
  BY <1>1 DEF EdgesOf
<1> QED
  BY <1>1, <1>2, <1>3 DEF Good, TableExact

\* The visits of a position are those of its node.
LEMMA VisitsAre ==
    ASSUME NEW o, Good(o), NEW p
    PROVE  /\ \A n \in Nodes(o) : Pos(o, n) = p => VisitsOf(o, p) = o.m_nodes[n].m_visits
           /\ (\A n \in Nodes(o) : Pos(o, n) # p) => VisitsOf(o, p) = 0
<1>1. /\ DOMAIN o.m_transposition_table = {Pos(o, n) : n \in Nodes(o)}
      /\ \A n \in Nodes(o) : o.m_transposition_table[Pos(o, n)] = n
  BY DEF Good, TableExact
<1>2. NoNode \notin Nodes(o)
  BY DEF NoNode, Nodes
<1>3. ASSUME NEW n \in Nodes(o), Pos(o, n) = p
      PROVE  VisitsOf(o, p) = o.m_nodes[n].m_visits
  BY <1>1, <1>2, <1>3 DEF VisitsOf, find
<1>4. ASSUME \A n \in Nodes(o) : Pos(o, n) # p PROVE VisitsOf(o, p) = 0
  BY <1>1, <1>4 DEF VisitsOf, find
<1> QED
  BY <1>3, <1>4

\* No edge of a good object is there twice.
LEMMA EdgesCounted ==
    ASSUME NEW o, Good(o)
    PROVE  Cardinality(EdgesOf(o)) = Len(o.m_arcs)
<1> DEFINE f == [x \in Arcs(o) |-> EdgeOf(o, o.m_arcs[x])]
<1>1. EdgesOf(o) = {EdgeOf(o, o.m_arcs[x]) : x \in Arcs(o)}
  BY PartsOf
<1>2. ASSUME NEW x \in Arcs(o), NEW y \in Arcs(o), f[x] = f[y] PROVE x = y
  <2> DEFINE a == o.m_arcs[x]
             b == o.m_arcs[y]
  <2>1. EdgeOf(o, a) = EdgeOf(o, b)
    BY <1>2
  <2>2. Pos(o, a.source) = Pos(o, b.source) /\ a.m_move = b.m_move
        /\ Pos(o, a.target) = Pos(o, b.target)
    BY <2>1 DEF EdgeOf, Pos
  <2>3. /\ a.source \in Nodes(o) /\ b.source \in Nodes(o)
        /\ a.target \in Nodes(o) /\ b.target \in Nodes(o)
    BY DEF Good, ArcsSound
  <2>4. a.source = b.source /\ a.target = b.target
    BY <2>2, <2>3, OneNodeEach
  <2>5. a \in Arc /\ b \in Arc
    BY ObjectParts DEF Good
  <2> HIDE DEF a, b
  <2>6. a = b
    BY <2>2, <2>4, <2>5 DEF Arc
  <2> QED
    BY <2>6 DEF a, b, Good, ArcsSound
<1>3. f \in [Arcs(o) -> EdgesOf(o)]
  BY <1>1
<1>4. f \in Bijection(Arcs(o), EdgesOf(o))
  <2>1. DOMAIN f = Arcs(o)
    OBVIOUS
  <2>2. \A e \in EdgesOf(o) : \E x \in Arcs(o) : f[x] = e
    BY <1>1
  <2> HIDE DEF f
  <2> QED
    BY <1>2, <1>3, <2>1, <2>2 DEF Bijection, Injection, Surjection, IsInjective
<1>5. Len(o.m_arcs) \in Nat
  BY ObjectParts DEF Good
<1>6. IsFiniteSet(Arcs(o)) /\ Cardinality(Arcs(o)) = Len(o.m_arcs)
  BY <1>5, IntervalCardinality DEF Arcs
<1>7. ExistsBijection(Arcs(o), EdgesOf(o))
  BY <1>4 DEF ExistsBijection
<1> QED
  BY <1>6, <1>7, FS_Bijection

\* The merged tree t, before its path is cut back.
LEMMA MergedTree ==
    ASSUME NEW t, NEW s, NEW bt, NEW bs, NEW itt, NEW V, NEW from, NEW into,
           Merging(t, s, bt, bs, itt, V, << >>, from, into, {})
    PROVE  LET root == Pos(bt, Root)
           IN  /\ PositionsOf(t) = PositionsOf(bt) \cup PositionsOf(bs)
               /\ VisitsOf(t, root) = VisitsOf(bt, root)
               /\ \A p \in PositionsOf(t) \ {root} :
                     VisitsOf(t, p) = VisitsOf(bt, p) + VisitsOf(bs, p)
               /\ EdgesOf(bt) \subseteq EdgesOf(t)
               /\ EdgesOf(t) \subseteq EdgesOf(bt) \cup EdgesOf(bs)
               /\ \A p \in PositionsOf(bs) \ {root} :
                     \E e \in EdgesOf(bs) \cap EdgesOf(t) : e[3] = p
<1> DEFINE root == Pos(bt, Root)
<1>1. /\ Good(t) /\ Good(s) /\ Good(bt) /\ Good(bs)
      /\ Pos(bt, Root) = Pos(bs, Root) /\ SourceKept(s, bs)
      /\ Frontier(s, V, << >>, from, {})
      /\ Grown(t, bt, s, V) /\ Summed(t, bt, s, V) /\ ArcsMerged(t, bt, s, V)
  BY DEF Merging
<1>2. V = Nodes(s)
  BY <1>1, AllVisited
<1>3. /\ Nodes(s) = Nodes(bs) /\ Arcs(s) = Arcs(bs) /\ s.m_arcs = bs.m_arcs
      /\ \A n \in Nodes(s) : Pos(s, n) = Pos(bs, n)
      /\ \A n \in Nodes(s) : s.m_nodes[n].m_visits = bs.m_nodes[n].m_visits
  BY <1>1 DEF SourceKept, Nodes, Arcs
<1>4. Nodes(bt) \subseteq Nodes(t) /\ Arcs(bt) \subseteq Arcs(t)
  BY <1>1, LongerParts DEF Grown, ArcsMerged, Good
<1>5. \A n \in Nodes(bt) : Pos(t, n) = Pos(bt, n)
  BY <1>1 DEF Grown
<1>6. /\ PositionsOf(t) = {Pos(t, n) : n \in Nodes(t)}
      /\ PositionsOf(bt) = {Pos(bt, n) : n \in Nodes(bt)}
      /\ PositionsOf(bs) = {Pos(bs, n) : n \in Nodes(bs)}
      /\ DOMAIN t.m_transposition_table = PositionsOf(t)
      /\ Root \in Nodes(t) /\ Root \in Nodes(bt) /\ Root \in Nodes(s)
  BY <1>1, PartsOf
<1>7. PositionsOf(t) = PositionsOf(bt) \cup PositionsOf(bs)
  <2>1. PositionsOf(bt) \subseteq PositionsOf(t)
    BY <1>4, <1>5, <1>6
  <2>2. PositionsOf(bs) \subseteq PositionsOf(t)
    BY <1>1, <1>2, <1>3, <1>6 DEF Grown
  <2>3. ASSUME NEW n \in Nodes(t) PROVE Pos(t, n) \in PositionsOf(bt) \cup PositionsOf(bs)
    <3>1. CASE n \in Nodes(bt)
      BY <1>5, <1>6, <3>1
    <3>2. CASE n \notin Nodes(bt)
      BY <1>1, <1>2, <1>3, <1>6, <3>2 DEF Grown
    <3> QED
      BY <3>1, <3>2
  <2> QED
    BY <1>6, <2>1, <2>2, <2>3
<1>8. \A n \in Nodes(t) : VisitsOf(bt, Pos(t, n)) = Before(bt, n)
  <2> SUFFICES ASSUME NEW n \in Nodes(t) PROVE VisitsOf(bt, Pos(t, n)) = Before(bt, n)
    OBVIOUS
  <2>1. CASE n \in Nodes(bt)
    BY <1>1, <1>5, <2>1, VisitsAre DEF Before
  <2>2. CASE n \notin Nodes(bt)
    <3>1. \A k \in Nodes(bt) : Pos(bt, k) # Pos(t, n)
      BY <1>1, <1>4, <1>5, <2>2, OneNodeEach
    <3> QED
      BY <1>1, <2>2, <3>1, VisitsAre DEF Before
  <2> QED
    BY <2>1, <2>2
<1>9. Pos(t, Root) = root /\ Pos(s, Root) = root
  BY <1>1, <1>3, <1>5, <1>6
<1>10. \A k \in Nodes(s) \ {Root} : Pos(s, k) # root
  BY <1>1, <1>6, <1>9, OneNodeEach
<1>11. VisitsOf(t, root) = VisitsOf(bt, root)
  <2>1. t.m_nodes[Root].m_visits = Before(bt, Root)
    BY <1>1, <1>2, <1>6, <1>9, <1>10 DEF Summed
  <2>2. VisitsOf(t, root) = t.m_nodes[Root].m_visits
    BY <1>1, <1>6, <1>9, VisitsAre
  <2> QED
    BY <1>6, <1>8, <1>9, <2>1, <2>2
<1>12. ASSUME NEW p \in PositionsOf(t) \ {root}
       PROVE  VisitsOf(t, p) = VisitsOf(bt, p) + VisitsOf(bs, p)
  <2>1. PICK n \in Nodes(t) : Pos(t, n) = p
    BY <1>6
  <2>2. VisitsOf(t, p) = t.m_nodes[n].m_visits /\ VisitsOf(bt, p) = Before(bt, n)
    BY <1>1, <1>8, <2>1, VisitsAre
  <2>3. Before(bt, n) \in Nat
    BY <1>1, ObjectParts DEF Before, Good
  <2>4. CASE \E k \in Nodes(s) : Pos(s, k) = p
    <3>1. PICK k \in Nodes(s) : Pos(s, k) = p
      BY <2>4
    <3>2. k # Root
      BY <1>9, <3>1
    <3>3. t.m_nodes[n].m_visits = Before(bt, n) + s.m_nodes[k].m_visits
      BY <1>1, <1>2, <2>1, <3>1, <3>2 DEF Summed
    <3>4. VisitsOf(bs, p) = bs.m_nodes[k].m_visits
      BY <1>1, <1>3, <3>1, VisitsAre
    <3> QED
      BY <1>3, <2>2, <3>3, <3>4
  <2>5. CASE \A k \in Nodes(s) : Pos(s, k) # p
    <3>1. t.m_nodes[n].m_visits = Before(bt, n)
      BY <1>1, <1>2, <2>1, <2>5 DEF Summed
    <3>2. VisitsOf(bs, p) = 0
      BY <1>1, <1>3, <2>5, VisitsAre
    <3> QED
      BY <2>2, <2>3, <3>1, <3>2
  <2> QED
    BY <2>4, <2>5
<1>13. /\ EdgesOf(t) = {EdgeOf(t, t.m_arcs[x]) : x \in Arcs(t)}
       /\ EdgesOf(bt) = {EdgeOf(bt, bt.m_arcs[x]) : x \in Arcs(bt)}
       /\ EdgesOf(bs) = {EdgeOf(bs, bs.m_arcs[x]) : x \in Arcs(bs)}
  BY <1>1, PartsOf
<1>14. ASSUME NEW x \in Arcs(bt) PROVE EdgeOf(t, t.m_arcs[x]) = EdgeOf(bt, bt.m_arcs[x])
  <2>1. t.m_arcs[x] = bt.m_arcs[x]
    BY <1>1 DEF ArcsMerged
  <2>2. bt.m_arcs[x].source \in Nodes(bt) /\ bt.m_arcs[x].target \in Nodes(bt)
    BY <1>1 DEF Good, ArcsSound
  <2> QED
    BY <1>5, <2>1, <2>2 DEF EdgeOf, Pos
<1>15. ASSUME NEW y \in Arcs(t), NEW x \in Arcs(s), SameArc(t, y, s, x)
       PROVE  EdgeOf(t, t.m_arcs[y]) = EdgeOf(bs, bs.m_arcs[x])
  <2>1. s.m_arcs[x].source \in Nodes(s) /\ s.m_arcs[x].target \in Nodes(s)
    BY <1>1 DEF Good, ArcsSound
  <2> QED
    BY <1>3, <1>15, <2>1 DEF EdgeOf, Pos, SameArc
<1>16. EdgesOf(bt) \subseteq EdgesOf(t)
  BY <1>4, <1>13, <1>14
<1>17. EdgesOf(t) \subseteq EdgesOf(bt) \cup EdgesOf(bs)
  <2> SUFFICES ASSUME NEW y \in Arcs(t)
               PROVE  EdgeOf(t, t.m_arcs[y]) \in EdgesOf(bt) \cup EdgesOf(bs)
    BY <1>13
  <2>1. CASE y \in Arcs(bt)
    BY <1>13, <1>14, <2>1
  <2>2. CASE y \notin Arcs(bt)
    <3>1. PICK x \in Arcs(s) : SameArc(t, y, s, x)
      BY <1>1, <2>2 DEF ArcsMerged
    <3>2. EdgeOf(t, t.m_arcs[y]) = EdgeOf(bs, bs.m_arcs[x])
      BY <1>15, <3>1
    <3> QED
      BY <1>3, <1>13, <3>2
  <2> QED
    BY <2>1, <2>2
<1>18. ASSUME NEW p \in PositionsOf(bs) \ {root}
       PROVE  \E e \in EdgesOf(bs) \cap EdgesOf(t) : e[3] = p
  <2>1. PICK k \in Nodes(s) : Pos(s, k) = p
    BY <1>3, <1>6
  <2>2. k # Root
    BY <1>9, <2>1
  <2>3. PICK y \in Arcs(t), x \in Arcs(s) : s.m_arcs[x].target = k /\ SameArc(t, y, s, x)
    BY <1>1, <1>2, <2>2 DEF ArcsMerged
  <2>4. EdgeOf(t, t.m_arcs[y]) = EdgeOf(bs, bs.m_arcs[x])
    BY <1>15, <2>3
  <2>5. EdgeOf(bs, bs.m_arcs[x])[3] = p
    BY <1>3, <2>1, <2>3 DEF EdgeOf, Pos
  <2>6. EdgeOf(bs, bs.m_arcs[x]) \in EdgesOf(bs) \cap EdgesOf(t)
    BY <1>3, <1>13, <2>4
  <2> QED
    BY <2>5, <2>6
<1> QED
  BY <1>7, <1>11, <1>12, <1>16, <1>17, <1>18

\* EndMerge leaves the exact tree.
LEMMA EndMergeKeeps ==
    ASSUME MInv, EndMerge
    PROVE  MInv'
<1>1. /\ pc = "merge" /\ pc' = "merged" /\ soi = {} /\ s_queue = << >>
      /\ t_mcts' = t_mcts /\ s_mcts' = s_mcts /\ before' = before
      /\ mcts' = [mcts EXCEPT ![t_mcts].m_path = SubSeq(@, 1, 1), ![s_mcts] = nullptr]
  BY DEF EndMerge, merging
<1>2. PICK t, s, bt, bs : /\ t = mcts[t_mcts] /\ s = mcts[s_mcts]
                          /\ bt = before[t_mcts] /\ bs = before[s_mcts]
  OBVIOUS
<1>3. /\ t_mcts \in Objects /\ s_mcts \in Objects /\ t_mcts # s_mcts
      /\ DOMAIN mcts = Objects
      /\ Merging(t, s, bt, bs, s_itt, s_visited, << >>, s_source, t_source, {})
  BY <1>1, <1>2 DEF MInv
<1> DEFINE path == SubSeq(t.m_path, 1, 1)
<1>4. Good(t) /\ t \in Object /\ PathOK(t)
  BY <1>3 DEF Merging, Good
<1>5. path \in Seq(Nat) /\ path = << Root >>
  <2>1. t.m_path \in Seq(Nat) /\ Len(t.m_path) \in Nat /\ Len(t.m_path) > 0
        /\ t.m_path[1] = Root
    BY <1>4, ObjectParts DEF PathOK
  <2>2. \A i \in 1 .. 1 : t.m_path[i] \in Nat
    BY <2>1 DEF Root
  <2>3. path \in Seq(Nat) /\ Len(path) = 1 /\ path[1] = Root
    <3>1. /\ SubSeq(t.m_path, 1, 1) \in Seq(Nat)
          /\ Len(SubSeq(t.m_path, 1, 1)) = IF 1 <= 1 THEN 1 - 1 + 1 ELSE 0
          /\ \A i \in 1 .. 1 - 1 + 1 : SubSeq(t.m_path, 1, 1)[i] = t.m_path[1 + i - 1]
      BY <2>2, SubSeqProperties
    <3> QED
      BY <2>1, <3>1
  <2> HIDE DEF path
  <2> QED
    BY <2>3
<1> HIDE DEF path
<1>6. PICK m : m = [t EXCEPT !.m_path = path]
  OBVIOUS
<1>7. /\ m.m_nodes = t.m_nodes /\ m.m_arcs = t.m_arcs
      /\ m.m_transposition_table = t.m_transposition_table /\ m.m_path = << Root >>
  BY <1>4, <1>5, <1>6 DEF Object
<1>8. mcts'[t_mcts] = m
  <2>1. mcts' = [mcts EXCEPT ![t_mcts] = m, ![s_mcts] = nullptr]
    BY <1>1, <1>2, <1>3, <1>6 DEF path
  <2> QED
    BY <1>3, <2>1
<1>9. Exact(m, bt, bs)
  <2>1. /\ PositionsOf(m) = PositionsOf(t) /\ EdgesOf(m) = EdgesOf(t)
        /\ \A p : VisitsOf(m, p) = VisitsOf(t, p)
    BY <1>7 DEF PositionsOf, EdgesOf, EdgeOf, VisitsOf
  <2>2. /\ DOMAIN m.m_transposition_table = PositionsOf(m)
        /\ \A n \in DOMAIN m.m_nodes : m.m_transposition_table[m.m_nodes[n].pos] = n
    BY <1>4, <1>7, <2>1, PartsOf DEF Pos
  <2>3. Cardinality(EdgesOf(m)) = Len(m.m_arcs)
    BY <1>4, <1>7, <2>1, EdgesCounted
  <2>4. LET root == Pos(bt, Root)
        IN  /\ PositionsOf(t) = PositionsOf(bt) \cup PositionsOf(bs)
            /\ VisitsOf(t, root) = VisitsOf(bt, root)
            /\ \A p \in PositionsOf(t) \ {root} :
                  VisitsOf(t, p) = VisitsOf(bt, p) + VisitsOf(bs, p)
            /\ EdgesOf(bt) \subseteq EdgesOf(t)
            /\ EdgesOf(t) \subseteq EdgesOf(bt) \cup EdgesOf(bs)
            /\ \A p \in PositionsOf(bs) \ {root} :
                  \E e \in EdgesOf(bs) \cap EdgesOf(t) : e[3] = p
    BY <1>3, MergedTree
  <2>5. bt.m_nodes[Root].pos = Pos(bt, Root)
    BY DEF Pos
  <2> QED
    BY <1>7, <2>1, <2>2, <2>3, <2>4, <2>5 DEF Exact
<1>10. Exact(mcts'[t_mcts'], before'[t_mcts'], before'[s_mcts'])
  BY <1>1, <1>2, <1>8, <1>9
<1>11. MergedExact'
  BY <1>10, Zenon DEF MergedExact, Exact, PositionsOf, VisitsOf, EdgesOf, EdgeOf
<1> QED
  BY <1>1, <1>11 DEF MInv

-----------------------------------------------------------------------------
(* The theorems.                                                           *)

\* The invariant that merge() relies on holds throughout, for every game and any
\* number of iterations of the two searches.
THEOREM MInvHolds == Spec => []MInv
<1>1. MInv /\ [Next]_vars => MInv'
  <2> SUFFICES ASSUME MInv, [Next]_vars PROVE MInv'
    OBVIOUS
  <2>1. CASE UNCHANGED vars
    <3>1. /\ pc' = pc /\ mcts' = mcts /\ t_mcts' = t_mcts /\ s_mcts' = s_mcts
          /\ s_itt' = s_itt /\ s_visited' = s_visited /\ s_queue' = s_queue
          /\ s_source' = s_source /\ t_source' = t_source /\ soi' = soi
          /\ before' = before
      BY <2>1 DEF vars, merging
    <3>2. Searching' = Searching
      BY <3>1 DEF Searching
    <3>3. MergedExact' = MergedExact
      BY <3>1 DEF MergedExact
    <3> QED
      BY <3>1, <3>2, <3>3 DEF MInv
  <2>2. ASSUME NEW i \in Objects, Iterate(i) PROVE MInv'
    BY <2>2, IterateKeeps
  <2>3. ASSUME NEW i \in Objects, EndSearch(i) PROVE MInv'
    BY <2>3, EndSearchKeeps
  <2>4. CASE StartMerge
    BY <2>4, StartMergeKeeps
  <2>5. CASE MergePop
    BY <2>5, MergePopKeeps
  <2>6. CASE MergeArc
    BY <2>6, MergeArcKeeps
  <2>7. CASE EndMerge
    BY <2>7, EndMergeKeeps
  <2> QED
    BY <2>1, <2>2, <2>3, <2>4, <2>5, <2>6, <2>7 DEF Next, MergeStep
<1> QED
  BY <1>1, InitMInv, PTL DEF Spec

\* mcts.hpp:735, "The t_source (target parent) does always exist": the table of
\* the target knows the parent of every arc that merge() looks at, under the
\* parent's own position.
THEOREM ParentExistsHolds == Spec => []ParentExists
<1>1. MInv => ParentExists
  <2> SUFFICES ASSUME MInv, pc = "merge", s_source # NoNode
               PROVE  /\ t_source # NoNode
                      /\ mcts[t_mcts].m_nodes[t_source].pos = mcts[s_mcts].m_nodes[s_source].pos
    BY DEF ParentExists
  <2>1. /\ t_source \in Nodes(mcts[t_mcts])
        /\ Pos(mcts[t_mcts], t_source) = Pos(mcts[s_mcts], s_source)
    BY DEF MInv, Merging
  <2> QED
    BY <2>1 DEF Nodes, NoNode, Pos
<1> QED
  BY <1>1, MInvHolds, PTL

\* merge() leaves one node for each position of either tree, the sum of the visits
\* but for the root's, the arcs of the target and a way to each node of the source,
\* and an exact table.
THEOREM MergedExactHolds == Spec => []MergedExact
<1>1. MInv => MergedExact
  BY DEF MInv, MergedExact
<1> QED
  BY <1>1, MInvHolds, PTL
=============================================================================
