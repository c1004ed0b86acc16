--------------------------- MODULE ArcListProofs ---------------------------
(***************************************************************************)
(* Lemmas about the linked lists of ArcLists.  Chain() says that a         *)
(* sequence is what a list holds; a loop along the list then meets exactly *)
(* that sequence (ListFromChain), whatever else the arenas hold.  The rest *)
(* says how the operations of a tree change chains.                        *)
(***************************************************************************)
EXTENDS ArcLists, TLAPS, FiniteSetTheorems, SequenceTheorems, WellFoundedInduction

\* L is the list that starts at head and continues along next; no arc is in it
\* twice.
Chain(L, head, next) ==
    /\ L \in Seq(DOMAIN next)
    /\ \A j, k \in 1 .. Len(L) : L[j] = L[k] => j = k
    /\ head = IF Len(L) = 0 THEN invalid_arc ELSE L[1]
    /\ \A k \in 1 .. Len(L) : next[L[k]] = IF k < Len(L) THEN L[k + 1] ELSE invalid_arc

\* A function on 1 .. n is a sequence of length n.
LEMMA FunctionIsSeq ==
    ASSUME NEW n \in Nat, NEW S, NEW f \in [1 .. n -> S]
    PROVE  f \in Seq(S) /\ Len(f) = n
<1>1. f \in Seq(S)
  BY SeqDef
<1>2. DOMAIN f = 1 .. n /\ DOMAIN f = 1 .. Len(f) /\ Len(f) \in Nat
  BY <1>1, LenProperties
<1> QED
  BY <1>1, <1>2

\* A non-empty set of natural numbers has a least element.
LEMMA LeastOf ==
    ASSUME NEW S \in SUBSET Nat, S # {}
    PROVE  \E k \in S : \A j \in S : k <= j
<1>1. PICK k \in S : \A j \in S : ~ (<<j, k>> \in OpToRel(<, Nat))
  BY NatLessThanWellFounded, WFMin
<1>2. \A j \in S : ~ (j < k)
  BY <1>1 DEF OpToRel
<1> QED
  BY <1>2

\* How many numbers an interval has.
LEMMA IntervalCardinality ==
    ASSUME NEW n \in Nat
    PROVE  IsFiniteSet(1 .. n) /\ Cardinality(1 .. n) = n
<1>1. /\ IsFiniteSet(1 .. n)
      /\ Cardinality(1 .. n) = IF 1 > n THEN 0 ELSE n - 1 + 1
  BY FS_Interval
<1> QED
  BY <1>1

\* A chain is no longer than the arena.
LEMMA ChainFits ==
    ASSUME NEW N \in Nat, NEW next, DOMAIN next = 1 .. N, NEW L, NEW head,
           Chain(L, head, next)
    PROVE  Len(L) \in 0 .. N
<1>1. L \in [1 .. Len(L) -> 1 .. N] /\ Len(L) \in Nat
  BY LenProperties DEF Chain
<1>2. L \in Injection(1 .. Len(L), 1 .. N)
  BY <1>1 DEF Chain, Injection, IsInjective
<1>3. /\ IsFiniteSet(1 .. N) /\ Cardinality(1 .. N) = N
      /\ Cardinality(1 .. Len(L)) = Len(L)
  BY <1>1, IntervalCardinality
<1>4. Cardinality(1 .. Len(L)) <= Cardinality(1 .. N)
  BY <1>2, <1>3, FS_Injection
<1> QED
  BY <1>1, <1>3, <1>4

\* It is as long as it has elements.
LEMMA ChainCardinality ==
    ASSUME NEW next, NEW L, NEW head, Chain(L, head, next)
    PROVE  Len(L) = Cardinality(ElementsOf(L))
<1>1. Len(L) \in Nat /\ DOMAIN L = 1 .. Len(L)
  BY LenProperties DEF Chain
<1> DEFINE f == [k \in 1 .. Len(L) |-> L[k]]
<1>2. f \in Bijection(1 .. Len(L), ElementsOf(L))
  <2>1. f \in [1 .. Len(L) -> ElementsOf(L)]
    BY <1>1 DEF ElementsOf
  <2>2. IsInjective(f)
    BY DEF Chain, IsInjective
  <2>3. \A y \in ElementsOf(L) : \E k \in 1 .. Len(L) : f[k] = y
    BY <1>1 DEF ElementsOf
  <2> QED
    BY <2>1, <2>2, <2>3 DEF Bijection, Injection, Surjection
<1>3. IsFiniteSet(1 .. Len(L)) /\ Cardinality(1 .. Len(L)) = Len(L)
  BY <1>1, IntervalCardinality
<1>4. Cardinality(1 .. Len(L)) = Cardinality(ElementsOf(L))
  BY <1>2, <1>3, FS_Bijection DEF ExistsBijection
<1> QED
  BY <1>3, <1>4

\* The loop meets the chain.
LEMMA ListFromChain ==
    ASSUME NEW N \in Nat, NEW next \in [1 .. N -> Int], NEW L, NEW head,
           Chain(L, head, next)
    PROVE  ListFrom(head, next) = L
<1> DEFINE n == Len(L)
           E(f, k) == IF k = 1 THEN head
                      ELSE IF f[k - 1] = invalid_arc THEN invalid_arc ELSE next[f[k - 1]]
           F(f) == f = [k \in 1 .. N + 1 |-> E(f, k)]
           g == [k \in 1 .. N + 1 |-> IF k <= n THEN L[k] ELSE invalid_arc]
           at == CHOOSE f : F(f)
<1>1. n \in 0 .. N /\ L \in [1 .. n -> 1 .. N]
  BY ChainFits, LenProperties DEF Chain
<1>2. Len(next) = N
  BY FunctionIsSeq
<1>3. /\ \A j, k \in 1 .. n : L[j] = L[k] => j = k
      /\ head = IF n = 0 THEN invalid_arc ELSE L[1]
      /\ \A k \in 1 .. n : next[L[k]] = IF k < n THEN L[k + 1] ELSE invalid_arc
      /\ \A k \in 1 .. n : L[k] # invalid_arc
  BY <1>1 DEF Chain, invalid_arc
<1> HIDE DEF n
<1>4. F(g)
  <2>1. ASSUME NEW k \in 1 .. N + 1 PROVE g[k] = E(g, k)
    <3>1. CASE k = 1
      BY <3>1, <1>1, <1>3
    <3>2. CASE k # 1 /\ k <= n
      <4>1. k - 1 \in 1 .. N + 1 /\ k - 1 \in 1 .. n /\ k - 1 < n /\ (k - 1) + 1 = k
        BY <3>2, <1>1
      <4>2. g[k - 1] = L[k - 1] /\ g[k] = L[k]
        BY <4>1, <3>2
      <4> QED
        BY <4>1, <4>2, <3>2, <1>3
    <3>3. CASE k # 1 /\ k = n + 1
      <4>1. k - 1 \in 1 .. N + 1 /\ k - 1 = n /\ n \in 1 .. n /\ ~(n < n)
        BY <3>3, <1>1
      <4>2. g[k - 1] = L[n] /\ g[k] = invalid_arc
        BY <4>1, <3>3, <1>1
      <4> QED
        BY <4>1, <4>2, <3>3, <1>3
    <3>4. CASE k > n + 1
      <4>1. k - 1 \in 1 .. N + 1 /\ ~(k - 1 <= n) /\ ~(k <= n) /\ k # 1
        BY <3>4, <1>1
      <4>2. g[k - 1] = invalid_arc /\ g[k] = invalid_arc
        BY <4>1
      <4> QED
        BY <4>1, <4>2
    <3> QED
      BY <3>1, <3>2, <3>3, <3>4, <1>1
  <2> HIDE DEF E
  <2> QED
    BY <2>1
<1>5. F(at)
  <2> HIDE DEF F, g
  <2> QED
    BY <1>4
<1>6. at = g
  <2> DEFINE B == {k \in Nat : k \in 1 .. N + 1 /\ at[k] # g[k]}
  <2> HIDE DEF at, g
  <2>1. \A k \in 1 .. N + 1 : at[k] = E(at, k) /\ g[k] = E(g, k)
    BY <1>4, <1>5
  <2>2. B = {}
    <3> SUFFICES ASSUME B # {} PROVE FALSE
      OBVIOUS
    <3>1. PICK k \in B : \A j \in B : k <= j
      BY LeastOf
    <3>2. k \in 1 .. N + 1 /\ at[k] # g[k]
      BY <3>1
    <3>3. CASE k = 1
      BY <3>2, <3>3, <2>1
    <3>4. CASE k # 1
      <4>1. k - 1 \in 1 .. N + 1 /\ k - 1 \in Nat /\ ~(k <= k - 1)
        BY <3>2, <3>4
      <4>2. at[k - 1] = g[k - 1]
        BY <4>1, <3>1
      <4>3. E(at, k) = E(g, k)
        BY <4>2
      <4> QED
        BY <4>3, <3>2, <2>1
    <3> QED
      BY <3>3, <3>4
  <2>3. \A k \in 1 .. N + 1 : at[k] = g[k]
    BY <2>2
  <2>4. at = [k \in 1 .. N + 1 |-> at[k]] /\ g = [k \in 1 .. N + 1 |-> g[k]]
    BY <1>4, <1>5
  <2> QED
    BY <2>3, <2>4
<1>7. ListFrom(head, next) =
        [k \in 1 .. Cardinality({i \in DOMAIN at : at[i] # invalid_arc}) |-> at[k]]
  BY <1>2 DEF ListFrom
<1> HIDE DEF at
<1>8. {i \in DOMAIN g : g[i] # invalid_arc} = 1 .. n
  BY <1>1, <1>3
<1>9. Cardinality(1 .. n) = n
  BY <1>1, IntervalCardinality
<1> HIDE DEF g
<1>10. ListFrom(head, next) = [k \in 1 .. n |-> g[k]]
  BY <1>6, <1>7, <1>8, <1>9
<1>11. \A k \in 1 .. n : g[k] = L[k]
  BY <1>1 DEF g
<1> QED
  BY <1>1, <1>10, <1>11

-----------------------------------------------------------------------------
(* How chains change.                                                      *)

\* What happens to arcs that are not in the list does not change it.
LEMMA ChainFrame ==
    ASSUME NEW L, NEW head, NEW next, NEW next2, Chain(L, head, next),
           DOMAIN next \subseteq DOMAIN next2,
           \A x \in ElementsOf(L) : next2[x] = next[x]
    PROVE  Chain(L, head, next2)
<1>1. L \in Seq(DOMAIN next2)
  BY SeqMonotonic DEF Chain
<1>2. \A k \in 1 .. Len(L) : L[k] \in ElementsOf(L)
  BY <1>1 DEF ElementsOf
<1> QED
  BY <1>1, <1>2 DEF Chain

\* Arc x, which is not in L, is linked behind the last arc of L.
Linked(L, next, next2, x) ==
    /\ DOMAIN next \subseteq DOMAIN next2
    /\ x \in DOMAIN next2 /\ x \notin ElementsOf(L) /\ next2[x] = invalid_arc
    /\ Len(L) # 0 => next2[L[Len(L)]] = x
    /\ \A y \in ElementsOf(L) : y # LastOf(L) => next2[y] = next[y]

\* It is appended to the list.
LEMMA ChainLink ==
    ASSUME NEW L, NEW head, NEW next, NEW next2, NEW x,
           Chain(L, head, next), Linked(L, next, next2, x)
    PROVE  LET M == Append(L, x)
           IN  /\ Chain(M, IF Len(L) = 0 THEN x ELSE head, next2)
               /\ ElementsOf(M) = ElementsOf(L) \cup {x}
               /\ LastOf(M) = x
<1> USE DEF Linked
<1> DEFINE M == Append(L, x)
           n == Len(L)
<1>1. L \in Seq(DOMAIN next2) /\ n \in Nat /\ DOMAIN L = 1 .. n
  BY SeqMonotonic, LenProperties DEF Chain
<1>2. /\ M \in Seq(DOMAIN next2) /\ Len(M) = n + 1
      /\ M[n + 1] = x /\ \A k \in 1 .. n : M[k] = L[k]
      /\ M # << >> /\ DOMAIN M = 1 .. n + 1
  BY <1>1, AppendProperties, LenProperties
<1>3. \A k \in 1 .. n : L[k] \in ElementsOf(L) /\ L[k] # x
  BY <1>1 DEF ElementsOf
<1>4. /\ \A j, k \in 1 .. n : L[j] = L[k] => j = k
      /\ head = IF n = 0 THEN invalid_arc ELSE L[1]
      /\ \A k \in 1 .. n : next[L[k]] = IF k < n THEN L[k + 1] ELSE invalid_arc
      /\ n # 0 => LastOf(L) = L[n]
      /\ n # 0 => next2[L[n]] = x
  BY <1>1 DEF Chain, LastOf
<1> HIDE DEF M, n
<1>5. ElementsOf(M) = ElementsOf(L) \cup {x} /\ LastOf(M) = x
  <2>1. \A k \in 1 .. n + 1 : k \in 1 .. n \/ k = n + 1
    BY <1>1
  <2>2. 1 .. n \subseteq 1 .. n + 1 /\ n + 1 \in 1 .. n + 1
    BY <1>1
  <2> QED
    BY <1>1, <1>2, <2>1, <2>2 DEF ElementsOf, LastOf
<1>6. \A j, k \in 1 .. n + 1 : M[j] = M[k] => j = k
  <2>1. \A k \in 1 .. n + 1 : k \in 1 .. n \/ k = n + 1
    BY <1>1
  <2> QED
    BY <2>1, <1>2, <1>3, <1>4
<1>7. (IF n = 0 THEN x ELSE head) = M[1]
  <2>1. n = 0 \/ 1 \in 1 .. n
    BY <1>1
  <2> QED
    BY <2>1, <1>2, <1>4
<1>8. ASSUME NEW k \in 1 .. n + 1
      PROVE  next2[M[k]] = IF k < n + 1 THEN M[k + 1] ELSE invalid_arc
  <2>1. CASE k = n + 1
    BY <2>1, <1>1, <1>2
  <2>2. CASE k = n /\ n # 0
    <3>1. k \in 1 .. n /\ k < n + 1 /\ k + 1 = n + 1
      BY <2>2, <1>1
    <3> QED
      BY <3>1, <2>2, <1>2, <1>4
  <2>3. CASE k < n
    <3>1. k \in 1 .. n /\ k < n + 1 /\ k + 1 \in 1 .. n /\ n \in 1 .. n /\ k # n /\ n # 0
      BY <2>3, <1>1
    <3>2. next[L[k]] = L[k + 1]
      BY <3>1, <2>3, <1>4
    <3>3. LastOf(L) = L[n] /\ L[k] # L[n]
      BY <3>1, <1>4
    <3>4. next2[L[k]] = next[L[k]]
      BY <3>1, <3>3, <1>3
    <3> QED
      BY <3>1, <3>2, <3>4, <1>2
  <2> QED
    BY <2>1, <2>2, <2>3, <1>1
<1>9. Chain(M, IF n = 0 THEN x ELSE head, next2)
  <2>1. Len(M) # 0
    BY <1>1, <1>2
  <2> QED
    BY <2>1, <1>2, <1>6, <1>7, <1>8 DEF Chain
<1> QED
  BY <1>5, <1>9 DEF M, n
=============================================================================
