--------------------------- MODULE MovesPoolProofs ---------------------------
(***************************************************************************)
(* Proofs about MovesPool for any number of objects and moves and every    *)
(* size of arrays and blocks.                                              *)
(*                                                                         *)
(* The invariant is about a pool, the slots U that objects own and the     *)
(* sequence fs of free slots, which is bound by an existential quantifier  *)
(* because the program has it only as a chain of pointers.  There is one   *)
(* lemma per operation of the pool, then one per operation of NodeData.    *)
(***************************************************************************)
EXTENDS MovesPool, TLAPS, SequenceTheorems, FiniteSetTheorems, NaturalsInduction,
        WellFoundedInduction

USE PoolAssumption

-----------------------------------------------------------------------------
(* The invariant.                                                          *)

Pairs == Nat \X Nat

Kinds == {"next", "element", "zero"}

Slot == [kind : Kinds, next : Pairs, element : Seq(Move)]

\* The first slot of a block, the only one that is ever used.
FirstSlots(n) == {<<b, 0>> : b \in 1..n}

BlockMemory(n) == (1..n) \X (0..(MinAlloc - 1))

IsPool(p) ==
    p = [m_current_block |-> p.m_current_block,
         m_current_slot |-> p.m_current_slot,
         m_last_slot |-> p.m_last_slot, m_free_slots |-> p.m_free_slots,
         block_next |-> p.block_next, mem |-> p.mem]

PoolTypes(p) ==
    /\ IsPool(p)
    /\ p.block_next \in Seq(Nat)
    /\ p.m_current_block = Len(p.block_next)
    /\ p.m_current_slot \in Pairs
    /\ p.m_last_slot \in Pairs
    /\ p.mem \in [BlockMemory(Len(p.block_next)) -> Slot]

\* fs is the list that starts at m_free_slots.
FreeChain(p, fs) ==
    /\ fs \in Seq(FirstSlots(Len(p.block_next)))
    /\ NoRepeats(fs)
    /\ p.m_free_slots = IF fs = <<>> THEN nullptr ELSE fs[1]
    /\ \A i \in 1..Len(fs) :
           /\ p.mem[fs[i]].kind = "next"
           /\ p.mem[fs[i]].next = IF i = Len(fs) THEN nullptr ELSE fs[i + 1]

\* Every first slot is owned or free and not both; the rest was never used.
Partition(p, U, fs) ==
    /\ U \subseteq FirstSlots(Len(p.block_next))
    /\ \A a \in U : p.mem[a].kind = "element"
    /\ \A a \in FirstSlots(Len(p.block_next)) : a \in U \/ a \in Elements(fs)
    /\ \A a \in DOMAIN p.mem :
           /\ a \notin FirstSlots(Len(p.block_next)) => p.mem[a].kind = "zero"
           /\ p.mem[a].kind # "next" => p.mem[a].next = nullptr

PoolInv(p, U, fs) ==
    /\ PoolTypes(p)
    /\ p.m_current_slot[2] >= p.m_last_slot[2]
    /\ FreeChain(p, fs)
    /\ Partition(p, U, fs)

ObjectTypes ==
    /\ alive \subseteq Objects
    /\ m_moves \in [Objects -> Pairs]
    /\ \A o \in Objects \ alive : m_moves[o] = nullptr
    /\ returned \in Move \cup {NoMove}

IInv ==
    /\ ObjectTypes
    /\ SoleOwner
    /\ MovesIntact
    /\ \E fs \in Seq(Pairs) : PoolInv(pool, Owned, fs)

-----------------------------------------------------------------------------
(* Arrays.                                                                 *)

\* Every list of moves that a state can give is an array without repetition.
LEMMA MoveListFacts ==
    ASSUME NEW ms \in MoveLists
    PROVE  ms \in Seq(Move) /\ NoRepeats(ms)
<1>1. PICK n \in 0..Capacity : ms \in [1..n -> Move] /\ NoRepeats(ms)
  BY DEF MoveLists
<1>2. ms \in Seq(Move)
  BY <1>1
<1> QED
  BY <1>1, <1>2

\* draw() removes the move at i, keeps all others, and leaves no gap.
LEMMA DrawFacts ==
    ASSUME NEW s \in Seq(Move), NoRepeats(s), Len(s) # 1,
           NEW i \in DOMAIN s
    PROVE  /\ draw(s, i) \in Seq(Move)
           /\ draw(s, i) # <<>>
           /\ NoRepeats(draw(s, i))
           /\ Elements(draw(s, i)) = Elements(s) \ {s[i]}
<1> DEFINE n == Len(s)
           t == [s EXCEPT ![i] = s[n]]
           d == draw(s, i)
<1>0. n \in Nat /\ DOMAIN s = 1..n
  BY LenProperties
<1> HIDE DEF n
<1>1. n \in Nat /\ n > 1 /\ i \in 1..n /\ DOMAIN s = 1..n /\ n \in DOMAIN s
  BY <1>0 DEF n
<1>2. t \in Seq(Move) /\ Len(t) = n
  BY <1>1, ExceptSeq DEF n
<1>3. \A j \in 1..n : t[j] = IF j = i THEN s[n] ELSE s[j]
  BY <1>1
<1> HIDE DEF t
<1>4. d = SubSeq(t, 1, n - 1)
  BY DEF draw, t, n
<1>5. d \in Seq(Move) /\ Len(d) = n - 1 /\ \A j \in 1..(n - 1) : d[j] = t[j]
  BY <1>1, <1>2, <1>4, SubSeqProperties
<1>6. DOMAIN d = 1..(n - 1)
  BY <1>5, <1>1
<1> HIDE DEF d
<1>7. d # <<>>
  BY <1>5, <1>1
<1>8. \A j, k \in 1..n : s[j] = s[k] => j = k
  BY <1>1 DEF NoRepeats
<1>9. \A j \in 1..(n - 1) : d[j] = IF j = i THEN s[n] ELSE s[j]
  BY <1>1, <1>3, <1>5
<1>10. NoRepeats(d)
  BY <1>1, <1>6, <1>8, <1>9 DEF NoRepeats
<1>11. Elements(d) \subseteq Elements(s) \ {s[i]}
  BY <1>1, <1>6, <1>8, <1>9 DEF Elements
<1>12. ASSUME NEW j \in 1..n, j # i
       PROVE  s[j] \in Elements(d)
  <2>1. CASE j = n
    BY <2>1, <1>1, <1>6, <1>9, <1>12 DEF Elements
  <2>2. CASE j # n
    BY <2>2, <1>1, <1>6, <1>9, <1>12 DEF Elements
  <2> QED
    BY <2>1, <2>2
<1>13. Elements(s) \ {s[i]} \subseteq Elements(d)
  BY <1>1, <1>12 DEF Elements
<1> QED
  BY <1>5, <1>7, <1>10, <1>11, <1>13 DEF d

-----------------------------------------------------------------------------
(* Operations of the pool.                                                 *)

\* First slots are memory of the pool, and never null.
LEMMA FirstSlotFacts ==
    ASSUME NEW n \in Nat
    PROVE  /\ FirstSlots(n) \subseteq BlockMemory(n)
           /\ FirstSlots(n) \subseteq Pairs
           /\ nullptr \notin FirstSlots(n)
           /\ nullptr \in Pairs
           /\ FirstSlots(n + 1) = FirstSlots(n) \cup {<<n + 1, 0>>}
           /\ <<n + 1, 0>> \notin BlockMemory(n)
           /\ BlockMemory(n + 1) = BlockMemory(n) \cup BlockSlots(n + 1)
           /\ \A a \in BlockSlots(n + 1) : a \in FirstSlots(n + 1) => a = <<n + 1, 0>>
<1>1. 0 \in 0..(MinAlloc - 1)
  OBVIOUS
<1>2. \A b : b \in 1..(n + 1) <=> b \in 1..n \/ b = n + 1
  OBVIOUS
<1>3. FirstSlots(n + 1) = FirstSlots(n) \cup {<<n + 1, 0>>}
  BY <1>2 DEF FirstSlots
<1>4. BlockMemory(n + 1) = BlockMemory(n) \cup BlockSlots(n + 1)
  BY <1>2 DEF BlockMemory, BlockSlots
<1>5. \A a \in BlockSlots(n + 1) : a \in FirstSlots(n + 1) => a = <<n + 1, 0>>
  BY DEF BlockSlots, FirstSlots
<1> QED
  BY <1>1, <1>3, <1>4, <1>5 DEF FirstSlots, BlockMemory, Pairs, nullptr

\* What is written into slots has the type of a slot.
LEMMA SlotFacts ==
    /\ Zero \in Slot /\ Zero.kind = "zero" /\ Zero.next = nullptr
    /\ \A a \in Pairs : Link(a) \in Slot /\ Link(a).kind = "next" /\ Link(a).next = a
    /\ \A s \in Seq(Move) : /\ Element(s) \in Slot /\ Element(s).kind = "element"
                            /\ Element(s).next = nullptr /\ Element(s).element = s
<1>1. nullptr \in Pairs /\ <<>> \in Seq(Move)
  BY DEF nullptr, Pairs
<1>2. Zero \in Slot /\ Zero.kind = "zero" /\ Zero.next = nullptr
  BY <1>1 DEF Zero, Slot, Kinds
<1>3. \A a \in Pairs : Link(a) \in Slot /\ Link(a).kind = "next" /\ Link(a).next = a
  BY <1>1 DEF Link, Slot, Kinds
<1>4. \A s \in Seq(Move) : /\ Element(s) \in Slot /\ Element(s).kind = "element"
                           /\ Element(s).next = nullptr /\ Element(s).element = s
  BY <1>1 DEF Element, Slot, Kinds
<1> QED
  BY <1>2, <1>3, <1>4

\* Free slots are first slots that nobody owns.
LEMMA FreeFacts ==
    ASSUME NEW p, NEW U, NEW fs, PoolInv(p, U, fs)
    PROVE  /\ Len(p.block_next) \in Nat
           /\ fs \in Seq(FirstSlots(Len(p.block_next)))
           /\ Len(fs) \in Nat /\ DOMAIN fs = 1..Len(fs)
           /\ \A i \in 1..Len(fs) : /\ fs[i] \in FirstSlots(Len(p.block_next))
                                    /\ fs[i] \in BlockMemory(Len(p.block_next))
                                    /\ fs[i] \in Elements(fs)
                                    /\ fs[i] \notin U
           /\ Elements(fs) \cap U = {}
           /\ U \subseteq BlockMemory(Len(p.block_next))
           /\ U \subseteq FirstSlots(Len(p.block_next))
<1> DEFINE n == Len(p.block_next)
<1>1. n \in Nat
  BY DEF PoolInv, PoolTypes
<1>2. fs \in Seq(FirstSlots(n))
  BY DEF PoolInv, FreeChain
<1>3. Len(fs) \in Nat /\ DOMAIN fs = 1..Len(fs) /\ fs \in [1..Len(fs) -> FirstSlots(n)]
  BY <1>2, LenProperties
<1>4. \A i \in 1..Len(fs) : fs[i] \in FirstSlots(n) /\ fs[i] \in BlockMemory(n)
  BY <1>1, <1>3, FirstSlotFacts
<1>5. \A i \in 1..Len(fs) : fs[i] \in Elements(fs)
  BY <1>3 DEF Elements
<1>6. \A i \in 1..Len(fs) : fs[i] \notin U
  BY DEF PoolInv, FreeChain, Partition
<1>7. U \subseteq FirstSlots(n) /\ U \subseteq BlockMemory(n)
  BY <1>1, FirstSlotFacts DEF PoolInv, Partition
<1>8. Elements(fs) \cap U = {}
  BY <1>3, <1>6 DEF Elements
<1> QED
  BY <1>1, <1>2, <1>3, <1>4, <1>5, <1>6, <1>7, <1>8

Written(p, a, s) == [p EXCEPT !.mem[a] = Element(s)]

\* Writing an array into an owned slot disturbs nothing else.
LEMMA WriteFacts ==
    ASSUME NEW p, NEW U, NEW fs, PoolInv(p, U, fs),
           NEW a \in U, NEW s \in Seq(Move),
           NEW q, q = Written(p, a, s)
    PROVE  /\ PoolInv(q, U, fs)
           /\ q.mem[a] = Element(s)
           /\ \A b \in U \ {a} : q.mem[b] = p.mem[b]
<1> DEFINE n == Len(p.block_next)
<1>1. n \in Nat
  BY DEF PoolInv, PoolTypes
<1>2. a \in BlockMemory(n) /\ a \in FirstSlots(n)
  BY <1>1, FirstSlotFacts DEF PoolInv, Partition
<1>3. /\ IsPool(q)
      /\ q.m_current_block = p.m_current_block /\ q.m_current_slot = p.m_current_slot
      /\ q.m_last_slot = p.m_last_slot /\ q.m_free_slots = p.m_free_slots
      /\ q.block_next = p.block_next /\ q.mem = [p.mem EXCEPT ![a] = Element(s)]
  BY DEF PoolInv, PoolTypes, IsPool, Written
<1>4. q.mem \in [BlockMemory(n) -> Slot]
  BY <1>2, <1>3, SlotFacts DEF PoolInv, PoolTypes
<1>5. \A b \in BlockMemory(n) : q.mem[b] = IF b = a THEN Element(s) ELSE p.mem[b]
  BY <1>2, <1>3 DEF PoolInv, PoolTypes
<1>6. PoolTypes(q)
  BY <1>3, <1>4 DEF PoolInv, PoolTypes
<1>7. \A i \in 1..Len(fs) : fs[i] \in BlockMemory(n) /\ fs[i] # a
  BY FreeFacts
<1>8. FreeChain(q, fs)
  BY <1>3, <1>5, <1>7 DEF PoolInv, FreeChain
<1>9. Partition(q, U, fs)
  <2>1. U \subseteq BlockMemory(n)
    BY <1>1, FirstSlotFacts DEF PoolInv, Partition
  <2> QED
    BY <1>2, <1>3, <1>4, <1>5, <2>1, SlotFacts DEF PoolInv, Partition, PoolTypes
<1>10. \A b \in U \ {a} : q.mem[b] = p.mem[b]
  BY <1>1, <1>5, FirstSlotFacts DEF PoolInv, Partition
<1> QED
  BY <1>2, <1>3, <1>5, <1>6, <1>8, <1>9, <1>10 DEF PoolInv

\* A deleted slot becomes the first of the free ones.
LEMMA DeleteFacts ==
    ASSUME NEW p, NEW U, NEW fs, PoolInv(p, U, fs), NEW a \in U,
           NEW q, q = delete_element(p, a)
    PROVE  /\ PoolInv(q, U \ {a}, <<a>> \o fs)
           /\ \A b \in U \ {a} : q.mem[b] = p.mem[b]
<1> DEFINE n == Len(p.block_next)
           gs == <<a>> \o fs
<1>1. /\ n \in Nat /\ fs \in Seq(FirstSlots(n)) /\ Len(fs) \in Nat
      /\ DOMAIN fs = 1..Len(fs) /\ U \subseteq BlockMemory(n) /\ U \subseteq FirstSlots(n)
      /\ \A i \in 1..Len(fs) : fs[i] \in FirstSlots(n) /\ fs[i] \in BlockMemory(n) /\ fs[i] \notin U
  BY FreeFacts
<1>2. a \in BlockMemory(n) /\ a \in FirstSlots(n) /\ a # nullptr
  <2>1. nullptr \notin FirstSlots(n)
    BY <1>1, FirstSlotFacts
  <2> QED
    BY <1>1, <2>1
<1>3. /\ IsPool(q)
      /\ q.m_current_block = p.m_current_block /\ q.m_current_slot = p.m_current_slot
      /\ q.m_last_slot = p.m_last_slot /\ q.m_free_slots = a
      /\ q.block_next = p.block_next
      /\ q.mem = [p.mem EXCEPT ![a] = Link(p.m_free_slots)]
  BY <1>2 DEF PoolInv, PoolTypes, IsPool, delete_element, deallocate
<1>4. p.m_free_slots \in Pairs
  <2>1. CASE fs = <<>>
    BY <2>1, <1>1, FirstSlotFacts DEF PoolInv, FreeChain
  <2>2. CASE fs # <<>>
    <3>1. 1 \in 1..Len(fs)
      BY <1>1, <2>2
    <3> QED
      BY <2>2, <3>1, <1>1, FirstSlotFacts DEF PoolInv, FreeChain
  <2> QED
    BY <2>1, <2>2
<1>5. q.mem \in [BlockMemory(n) -> Slot]
  BY <1>2, <1>3, <1>4, SlotFacts DEF PoolInv, PoolTypes
<1>6. \A b \in BlockMemory(n) :
          q.mem[b] = IF b = a THEN Link(p.m_free_slots) ELSE p.mem[b]
  BY <1>2, <1>3 DEF PoolInv, PoolTypes
<1>7. PoolTypes(q)
  BY <1>3, <1>5 DEF PoolInv, PoolTypes
<1>8. /\ gs \in Seq(FirstSlots(n)) /\ Len(gs) = Len(fs) + 1 /\ gs # <<>>
      /\ gs[1] = a /\ \A i \in 1..Len(fs) : gs[i + 1] = fs[i]
  <2>1. <<a>> \in Seq(FirstSlots(n)) /\ Len(<<a>>) = 1 /\ <<a>>[1] = a
    BY <1>2
  <2>2. gs \in Seq(FirstSlots(n)) /\ Len(gs) = 1 + Len(fs)
    BY <1>1, <2>1, ConcatProperties
  <2>3. \A i \in 1..(1 + Len(fs)) : gs[i] = IF i <= 1 THEN <<a>>[i] ELSE fs[i - 1]
    BY <1>1, <2>1, ConcatProperties
  <2>4. gs # <<>>
    BY <2>2, <1>1
  <2> QED
    BY <2>1, <2>2, <2>3, <2>4, <1>1
<1>9. DOMAIN gs = 1..Len(gs)
  BY <1>8, LenProperties
<1> HIDE DEF gs
<1>10. \A i \in 1..Len(gs) : IF i = 1 THEN gs[i] = a
                             ELSE i - 1 \in 1..Len(fs) /\ gs[i] = fs[i - 1]
  <2>1. ASSUME NEW i \in 1..Len(gs), i # 1
        PROVE  i - 1 \in 1..Len(fs) /\ gs[i] = fs[i - 1]
    <3>1. i - 1 \in 1..Len(fs) /\ (i - 1) + 1 = i
      BY <2>1, <1>8, <1>1
    <3> QED
      BY <3>1, <1>8
  <2> QED
    BY <2>1, <1>8
<1>11. NoRepeats(gs)
  <2>1. \A i, j \in 1..Len(fs) : fs[i] = fs[j] => i = j
    BY <1>1 DEF PoolInv, FreeChain, NoRepeats
  <2> QED
    BY <2>1, <1>1, <1>8, <1>9, <1>10 DEF NoRepeats
<1>12. ASSUME NEW i \in 1..Len(gs)
       PROVE  /\ q.mem[gs[i]].kind = "next"
              /\ q.mem[gs[i]].next = IF i = Len(gs) THEN nullptr ELSE gs[i + 1]
  <2>1. CASE i = 1
    <3>1. q.mem[gs[i]] = Link(p.m_free_slots)
      BY <2>1, <1>2, <1>6, <1>10
    <3>2. p.m_free_slots = IF 1 = Len(gs) THEN nullptr ELSE gs[2]
      <4>1. CASE fs = <<>>
        BY <4>1, <1>8 DEF PoolInv, FreeChain
      <4>2. CASE fs # <<>>
        <5>1. 1 \in 1..Len(fs) /\ Len(gs) # 1
          BY <4>2, <1>1, <1>8
        <5>2. gs[1 + 1] = fs[1]
          BY <5>1, <1>8
        <5> QED
          BY <4>2, <5>1, <5>2 DEF PoolInv, FreeChain
      <4> QED
        BY <4>1, <4>2
    <3> QED
      BY <2>1, <3>1, <3>2, <1>4, SlotFacts
  <2>2. CASE i # 1
    <3>1. i - 1 \in 1..Len(fs) /\ gs[i] = fs[i - 1]
      BY <2>2, <1>10
    <3>2. q.mem[gs[i]] = p.mem[fs[i - 1]]
      BY <3>1, <1>1, <1>6
    <3>3. i - 1 = Len(fs) <=> i = Len(gs)
      BY <1>1, <1>8
    <3>4. i # Len(gs) => gs[i + 1] = fs[(i - 1) + 1]
      BY <1>1, <1>8, <3>1
    <3> QED
      BY <3>1, <3>2, <3>3, <3>4 DEF PoolInv, FreeChain
  <2> QED
    BY <2>1, <2>2
<1>13. FreeChain(q, gs)
  BY <1>3, <1>8, <1>11, <1>12 DEF FreeChain
<1>14. Elements(fs) \subseteq Elements(gs) /\ a \in Elements(gs)
  <2>1. \A i \in 1..Len(fs) : i + 1 \in 1..Len(gs) /\ 1 \in 1..Len(gs)
    BY <1>1, <1>8
  <2>2. 1 \in 1..Len(gs)
    BY <1>1, <1>8
  <2> QED
    BY <2>1, <2>2, <1>1, <1>8, <1>9 DEF Elements
<1>15. Partition(q, U \ {a}, gs)
  <2>1. \A b \in U \ {a} : q.mem[b].kind = "element"
    BY <1>1, <1>6 DEF PoolInv, Partition
  <2>2. \A b \in FirstSlots(n) : b \in U \ {a} \/ b \in Elements(gs)
    BY <1>14 DEF PoolInv, Partition
  <2>3. DOMAIN q.mem = BlockMemory(n) /\ DOMAIN p.mem = BlockMemory(n)
    BY <1>5 DEF PoolInv, PoolTypes
  <2>4. \A b \in BlockMemory(n) :
            /\ b \notin FirstSlots(n) => q.mem[b].kind = "zero"
            /\ q.mem[b].kind # "next" => q.mem[b].next = nullptr
    BY <1>2, <1>4, <1>6, <2>3, SlotFacts DEF PoolInv, Partition
  <2> QED
    BY <1>1, <1>3, <2>1, <2>2, <2>3, <2>4 DEF Partition
<1>16. \A b \in U \ {a} : q.mem[b] = p.mem[b]
  BY <1>1, <1>6
<1> QED
  BY <1>3, <1>7, <1>13, <1>15, <1>16 DEF PoolInv, gs

\* Advancing m_current_slot changes nothing else.
LEMMA AdvancedFacts ==
    ASSUME NEW p, IsPool(p), NEW x
    PROVE  LET k == [p EXCEPT !.m_current_slot = x]
           IN  /\ IsPool(k) /\ k.m_current_slot = x
               /\ k.m_current_block = p.m_current_block
               /\ k.m_last_slot = p.m_last_slot /\ k.m_free_slots = p.m_free_slots
               /\ k.block_next = p.block_next /\ k.mem = p.mem
  BY DEF IsPool

\* What new_element() promises about its result r.
Allocated(p, U, s, r) ==
    /\ r.slot \notin U /\ r.slot # nullptr /\ r.slot \in Pairs
    /\ r.pool.mem[r.slot] = Element(s)
    /\ \A b \in U : r.pool.mem[b] = p.mem[b]
    /\ \E gs \in Seq(Pairs) : PoolInv(r.pool, U \cup {r.slot}, gs)
    /\ \/ r.pool.block_next = p.block_next
       \/ /\ FirstSlots(Len(p.block_next)) \subseteq U
          /\ r.pool.block_next = Append(p.block_next, p.m_current_block)

\* new_element() takes a slot that nobody owned: the first free one, or the
\* first of a new block if there is none.
LEMMA AllocateFacts ==
    ASSUME NEW p, NEW U, NEW fs, PoolInv(p, U, fs), NEW s \in Seq(Move),
           NEW r, r = new_element(p, s)
    PROVE  Allocated(p, U, s, r)
<1> DEFINE n == Len(p.block_next)
           a == r.slot
           q == r.pool
<1>1. /\ n \in Nat /\ fs \in Seq(FirstSlots(n)) /\ Len(fs) \in Nat
      /\ DOMAIN fs = 1..Len(fs) /\ U \subseteq BlockMemory(n) /\ U \subseteq FirstSlots(n)
      /\ \A i \in 1..Len(fs) : fs[i] \in FirstSlots(n) /\ fs[i] \in BlockMemory(n) /\ fs[i] \notin U
  BY FreeFacts
<1>2. /\ nullptr \notin FirstSlots(n) /\ FirstSlots(n) \subseteq Pairs
      /\ FirstSlots(n) \subseteq BlockMemory(n)
  BY <1>1, FirstSlotFacts
<1>3. \A k \in Nat : Seq(FirstSlots(k)) \subseteq Seq(Pairs)
  <2> SUFFICES ASSUME NEW k \in Nat, NEW x \in Seq(FirstSlots(k)) PROVE x \in Seq(Pairs)
    OBVIOUS
  <2>1. FirstSlots(k) \subseteq Pairs
    BY FirstSlotFacts
  <2> QED
    BY <2>1
<1>4. CASE p.m_free_slots # nullptr
  <2>1. fs # <<>> /\ p.m_free_slots = fs[1]
    BY <1>4 DEF PoolInv, FreeChain
  <2>2. 1 \in 1..Len(fs)
    BY <2>1, <1>1
  <2>3. a = fs[1]
    BY <1>4, <2>1 DEF new_element, allocate
  <2>4. a \in FirstSlots(n) /\ a \in BlockMemory(n) /\ a \notin U
    BY <2>2, <2>3, <1>1
  <2>5. /\ IsPool(q)
        /\ q.m_current_block = p.m_current_block /\ q.m_current_slot = p.m_current_slot
        /\ q.m_last_slot = p.m_last_slot /\ q.m_free_slots = p.mem[a].next
        /\ q.block_next = p.block_next /\ q.mem = [p.mem EXCEPT ![a] = Element(s)]
    BY <1>4, <2>1, <2>3 DEF PoolInv, PoolTypes, IsPool, new_element, allocate
  <2> DEFINE gs == Tail(fs)
  <2>6. /\ gs \in Seq(FirstSlots(n)) /\ Len(gs) = Len(fs) - 1
        /\ \A i \in 1..Len(gs) : gs[i] = fs[i + 1]
    BY <1>1, <2>1, HeadTailProperties
  <2>7. DOMAIN gs = 1..Len(gs) /\ Len(gs) \in Nat
    BY <2>6, LenProperties
  <2> HIDE DEF gs, a, q
  <2>8. \A b \in BlockMemory(n) : q.mem[b] = IF b = a THEN Element(s) ELSE p.mem[b]
    BY <2>4, <2>5 DEF PoolInv, PoolTypes
  <2>9. q.mem \in [BlockMemory(n) -> Slot]
    BY <2>4, <2>5, SlotFacts DEF PoolInv, PoolTypes
  <2>10. PoolTypes(q)
    BY <2>5, <2>9 DEF PoolInv, PoolTypes
  <2>11. \A i, j \in 1..Len(fs) : fs[i] = fs[j] => i = j
    BY <1>1 DEF PoolInv, FreeChain, NoRepeats
  <2>12. \A i \in 1..Len(gs) : i + 1 \in 1..Len(fs) /\ gs[i] = fs[i + 1] /\ gs[i] # a
    BY <1>1, <2>2, <2>3, <2>6, <2>11
  <2>13. NoRepeats(gs)
    BY <2>6, <2>7, <2>11, <2>12 DEF NoRepeats
  <2>14. q.m_free_slots = IF gs = <<>> THEN nullptr ELSE gs[1]
    <3>1. q.m_free_slots = IF 1 = Len(fs) THEN nullptr ELSE fs[1 + 1]
      BY <2>2, <2>3, <2>5 DEF PoolInv, FreeChain
    <3>2. gs = <<>> <=> 1 = Len(fs)
      BY <1>1, <2>6
    <3>3. gs # <<>> => gs[1] = fs[1 + 1]
      BY <1>1, <2>6
    <3> QED
      BY <3>1, <3>2, <3>3
  <2>15. ASSUME NEW i \in 1..Len(gs)
         PROVE  /\ q.mem[gs[i]].kind = "next"
                /\ q.mem[gs[i]].next = IF i = Len(gs) THEN nullptr ELSE gs[i + 1]
    <3>1. i + 1 \in 1..Len(fs) /\ gs[i] = fs[i + 1] /\ gs[i] # a
      BY <2>12
    <3>2. q.mem[gs[i]] = p.mem[fs[i + 1]]
      BY <3>1, <1>1, <2>8
    <3>3. i + 1 = Len(fs) <=> i = Len(gs)
      BY <1>1, <2>6
    <3>4. ASSUME i # Len(gs) PROVE gs[i + 1] = fs[(i + 1) + 1]
      <4>1. i + 1 \in 1..Len(gs)
        <5>1. \A k \in Nat : \A j \in 1..k : j # k => j + 1 \in 1..k
          OBVIOUS
        <5> QED
          BY <2>7, <3>4, <5>1
      <4> QED
        BY <4>1, <2>6
    <3> QED
      BY <3>1, <3>2, <3>3, <3>4 DEF PoolInv, FreeChain
  <2>16. FreeChain(q, gs)
    BY <2>5, <2>6, <2>13, <2>14, <2>15 DEF FreeChain
  <2>17. ASSUME NEW b \in Elements(fs), b # a
         PROVE  b \in Elements(gs)
    <3>1. PICK i \in 1..Len(fs) : b = fs[i]
      BY <1>1 DEF Elements
    <3>2. i # 1
      BY <3>1, <2>3, <2>17
    <3>3. i - 1 \in 1..Len(gs) /\ (i - 1) + 1 = i
      BY <1>1, <2>6, <3>2
    <3> QED
      BY <3>1, <3>3, <2>6, <2>7 DEF Elements
  <2>18. Partition(q, U \cup {a}, gs)
    <3>1. \A b \in U \cup {a} : q.mem[b].kind = "element"
      BY <1>1, <2>4, <2>8, SlotFacts DEF PoolInv, Partition
    <3>2. \A b \in FirstSlots(n) : b \in U \cup {a} \/ b \in Elements(gs)
      BY <2>17 DEF PoolInv, Partition
    <3>3. DOMAIN q.mem = BlockMemory(n) /\ DOMAIN p.mem = BlockMemory(n)
      BY <2>9 DEF PoolInv, PoolTypes
    <3>4. \A b \in BlockMemory(n) :
              /\ b \notin FirstSlots(n) => q.mem[b].kind = "zero"
              /\ q.mem[b].kind # "next" => q.mem[b].next = nullptr
      BY <2>4, <2>8, <3>3, SlotFacts DEF PoolInv, Partition
    <3> QED
      BY <1>1, <2>4, <2>5, <3>1, <3>2, <3>3, <3>4 DEF Partition
  <2>19. PoolInv(q, U \cup {a}, gs)
    BY <2>5, <2>10, <2>16, <2>18 DEF PoolInv
  <2>20. gs \in Seq(Pairs)
    BY <1>1, <1>3, <2>6
  <2>21. \A b \in U : q.mem[b] = p.mem[b]
    BY <1>1, <2>4, <2>8
  <2>22. a # nullptr /\ a \in Pairs /\ q.mem[a] = Element(s)
    BY <1>2, <2>4, <2>8
  <2> QED
    BY <2>4, <2>5, <2>19, <2>20, <2>21, <2>22 DEF a, q, Allocated
<1>5. CASE p.m_free_slots = nullptr
  <2> DEFINE h == allocate_block(p)
  <2>1. fs = <<>>
    <3>1. ASSUME fs # <<>> PROVE FALSE
      <4>1. 1 \in 1..Len(fs)
        BY <3>1, <1>1
      <4>2. fs[1] \in FirstSlots(n)
        BY <4>1, <1>1
      <4> QED
        BY <1>2, <1>5, <3>1, <4>2 DEF PoolInv, FreeChain
    <3> QED
      BY <3>1
  <2>2. HasRoom(p) = h
    BY DEF PoolInv, HasRoom
  <2> DEFINE hm == [b \in DOMAIN p.mem \cup BlockSlots(n + 1) |->
                       IF b \in DOMAIN p.mem THEN p.mem[b] ELSE Zero]
  <2>3. h = [p EXCEPT !.block_next = Append(p.block_next, p.m_current_block),
                      !.m_current_block = n + 1, !.m_current_slot = <<n + 1, 0>>,
                      !.m_last_slot = <<n + 1, 1>>, !.mem = hm]
    BY DEF allocate_block, virtual_alloc, ChunkCount
  <2> HIDE DEF h, hm, n
  <2>4. /\ IsPool(h) /\ h.m_current_block = n + 1 /\ h.m_current_slot = <<n + 1, 0>>
        /\ h.m_last_slot = <<n + 1, 1>> /\ h.m_free_slots = nullptr
        /\ h.block_next = Append(p.block_next, p.m_current_block) /\ h.mem = hm
    BY <1>5, <2>3 DEF PoolInv, PoolTypes, IsPool
  <2>5. /\ h.block_next \in Seq(Nat) /\ Len(h.block_next) = n + 1
        /\ DOMAIN p.mem = BlockMemory(n) /\ n \in Nat
    BY <1>1, <2>4 DEF PoolInv, PoolTypes, n
  <2>6. /\ <<n + 1, 0>> \notin BlockMemory(n)
        /\ FirstSlots(n + 1) = FirstSlots(n) \cup {<<n + 1, 0>>}
        /\ BlockMemory(n + 1) = BlockMemory(n) \cup BlockSlots(n + 1)
        /\ \A b \in BlockSlots(n + 1) : b \in FirstSlots(n + 1) => b = <<n + 1, 0>>
    BY <2>5, FirstSlotFacts
  <2>7. /\ FirstSlots(n + 1) \subseteq Pairs /\ nullptr \notin FirstSlots(n + 1)
        /\ FirstSlots(n + 1) \subseteq BlockMemory(n + 1)
    <3>1. n + 1 \in Nat
      BY <2>5
    <3> QED
      BY <3>1, FirstSlotFacts
  <2> DEFINE k == [h EXCEPT !.m_current_slot = <<n + 1, 1>>]
  <2>8. a = <<n + 1, 0>> /\ q = [k EXCEPT !.mem[a] = Element(s)]
    <3>1. allocate(p) = [slot |-> <<n + 1, 0>>, pool |-> k]
      <4>1. allocate(p) = [slot |-> h.m_current_slot,
                           pool |-> [h EXCEPT !.m_current_slot =
                                        <<h.m_current_slot[1], h.m_current_slot[2] + 1>>]]
        BY <1>5, <2>2 DEF allocate, ChunkCount
      <4>2. <<h.m_current_slot[1], h.m_current_slot[2] + 1>> = <<n + 1, 1>>
        BY <2>4, <2>5
      <4> QED
        BY <4>1, <4>2, <2>4
    <3> HIDE DEF k
    <3> QED
      BY <3>1 DEF new_element
  <2>9. /\ IsPool(q) /\ q.m_current_block = n + 1 /\ q.m_current_slot = <<n + 1, 1>>
        /\ q.m_last_slot = <<n + 1, 1>> /\ q.m_free_slots = nullptr
        /\ q.block_next = h.block_next /\ q.mem = [h.mem EXCEPT ![a] = Element(s)]
    <3> HIDE DEF a, q
    <3>a. IsPool(h)
      BY <2>4
    <3>b. /\ IsPool(k) /\ k.m_current_slot = <<n + 1, 1>>
          /\ k.m_current_block = h.m_current_block
          /\ k.m_last_slot = h.m_last_slot /\ k.m_free_slots = h.m_free_slots
          /\ k.block_next = h.block_next /\ k.mem = h.mem
      BY <3>a, AdvancedFacts
    <3> HIDE DEF k
    <3>1. /\ IsPool(k) /\ k.m_current_block = n + 1 /\ k.m_current_slot = <<n + 1, 1>>
          /\ k.m_last_slot = <<n + 1, 1>> /\ k.m_free_slots = nullptr
          /\ k.block_next = h.block_next /\ k.mem = h.mem
      BY <2>4, <3>b
    <3> QED
      BY <2>8, <3>1 DEF IsPool
  <2> HIDE DEF a, q, k
  <2>10. a \in FirstSlots(n + 1) /\ a \in BlockMemory(n + 1) /\ a \notin BlockMemory(n)
    BY <2>6, <2>7, <2>8
  <2>11. h.mem = [b \in BlockMemory(n + 1) |-> IF b \in BlockMemory(n) THEN p.mem[b] ELSE Zero]
    BY <2>4, <2>5, <2>6 DEF hm
  <2>12. \A b \in BlockMemory(n + 1) :
             q.mem[b] = IF b = a THEN Element(s)
                        ELSE IF b \in BlockMemory(n) THEN p.mem[b] ELSE Zero
    BY <2>9, <2>10, <2>11
  <2>13. h.mem \in [BlockMemory(n + 1) -> Slot]
    BY <2>11, SlotFacts DEF PoolInv, PoolTypes, n
  <2>14. q.mem \in [BlockMemory(n + 1) -> Slot]
    BY <2>9, <2>10, <2>13, SlotFacts
  <2>15. PoolTypes(q)
    <3>1. <<n + 1, 1>> \in Pairs
      BY <2>5 DEF Pairs
    <3> QED
      BY <2>5, <2>9, <2>14, <3>1 DEF PoolTypes
  <2>16. FreeChain(q, <<>>)
    BY <2>9 DEF FreeChain, NoRepeats
  <2>17. Partition(q, U \cup {a}, <<>>)
    <3>1. U \subseteq FirstSlots(n + 1) /\ U \subseteq BlockMemory(n + 1)
      BY <1>1, <2>6, <2>7 DEF n
    <3>2. \A b \in U \cup {a} : q.mem[b].kind = "element"
      BY <1>1, <2>10, <2>12, <3>1, SlotFacts DEF PoolInv, Partition, n
    <3>3. Elements(fs) = {}
      BY <2>1 DEF Elements
    <3>4. \A b \in FirstSlots(n + 1) : b \in U \cup {a}
      BY <2>6, <2>8, <3>3 DEF PoolInv, Partition, n
    <3>5. DOMAIN q.mem = BlockMemory(n + 1)
      BY <2>14
    <3>6. \A b \in BlockMemory(n + 1) :
              /\ b \notin FirstSlots(n + 1) => q.mem[b].kind = "zero"
              /\ q.mem[b].kind # "next" => q.mem[b].next = nullptr
      BY <2>5, <2>6, <2>10, <2>12, SlotFacts, SMTT(30) DEF PoolInv, Partition, n
    <3> QED
      BY <2>5, <2>9, <2>10, <3>1, <3>2, <3>4, <3>5, <3>6, SMTT(30) DEF Partition
  <2>18. q.m_current_slot[2] >= q.m_last_slot[2]
    BY <2>9
  <2>19. PoolInv(q, U \cup {a}, <<>>)
    BY <2>15, <2>16, <2>17, <2>18 DEF PoolInv
  <2>20. a \notin U /\ a # nullptr /\ a \in Pairs /\ q.mem[a] = Element(s)
    BY <1>1, <2>7, <2>10, <2>12 DEF n
  <2>21. \A b \in U : q.mem[b] = p.mem[b]
    BY <1>1, <2>6, <2>10, <2>12 DEF n
  <2>22. <<>> \in Seq(Pairs)
    OBVIOUS
  <2>23. FirstSlots(n) \subseteq U
    BY <2>1 DEF PoolInv, Partition, Elements, n
  <2>24. q.block_next = Append(p.block_next, p.m_current_block)
    BY <2>4, <2>9
  <2> QED
    BY <2>19, <2>20, <2>21, <2>22, <2>23, <2>24 DEF a, q, n, Allocated
<1> QED
  BY <1>4, <1>5

-----------------------------------------------------------------------------
(* Operations of NodeData.                                                 *)

\* The invariant restated for the slots that objects own.
LEMMA OwnedFacts ==
    ASSUME IInv
    PROVE  /\ \A o \in Objects : m_moves[o] # nullptr => o \in alive /\ m_moves[o] \in Owned
           /\ \A a \in Owned : \E o \in alive : m_moves[o] = a /\ a # nullptr
           /\ nullptr \notin Owned
           /\ \A a \in Owned : /\ pool.mem[a].element \in Seq(Move)
                               /\ pool.mem[a].element # <<>>
                               /\ NoRepeats(pool.mem[a].element)
<1>1. PICK fs : PoolInv(pool, Owned, fs)
  BY DEF IInv
<1>2. \A a \in Owned : \E o \in alive : m_moves[o] = a /\ a # nullptr
  BY DEF Owned
<1>3. \A o \in Objects : m_moves[o] # nullptr => o \in alive /\ m_moves[o] \in Owned
  BY DEF IInv, ObjectTypes, Owned
<1>4. ASSUME NEW a \in Owned
      PROVE  pool.mem[a].element \in Seq(Move)
  <2>1. a \in BlockMemory(Len(pool.block_next))
    BY <1>1, FreeFacts
  <2>2. pool.mem[a] \in Slot
    BY <1>1, <2>1 DEF PoolInv, PoolTypes
  <2> QED
    BY <2>2 DEF Slot
<1> QED
  BY <1>2, <1>3, <1>4 DEF IInv, MovesIntact, Owned

\* A new object that gets an array of its own.
LEMMA Gain ==
    ASSUME IInv, NEW o \in Objects \ alive,
           NEW s \in Seq(Move), s # <<>>, NoRepeats(s),
           NEW r, r = new_element(pool, s), pool' = r.pool,
           m_moves' = [m_moves EXCEPT ![o] = r.slot],
           alive' = alive \cup {o}, returned' = returned
    PROVE  IInv' /\ Untried' = [Untried EXCEPT ![o] = Elements(s)]
<1>1. PICK fs : PoolInv(pool, Owned, fs)
  BY DEF IInv
<1>2. /\ r.slot \notin Owned /\ r.slot # nullptr /\ r.slot \in Pairs
      /\ pool'.mem[r.slot] = Element(s)
      /\ \A b \in Owned : pool'.mem[b] = pool.mem[b]
      /\ \E gs \in Seq(Pairs) : PoolInv(pool', Owned \cup {r.slot}, gs)
  <2>1. Allocated(pool, Owned, s, r)
    BY <1>1, AllocateFacts
  <2> QED
    BY <2>1 DEF Allocated
<1>3. ObjectTypes /\ m_moves[o] = nullptr
  BY DEF IInv, ObjectTypes
<1>4. ObjectTypes' /\ \A q \in Objects : m_moves'[q] = IF q = o THEN r.slot ELSE m_moves[q]
  BY <1>2, <1>3 DEF ObjectTypes
<1>5. Owned' = Owned \cup {r.slot}
  <2>1. \A q \in alive : q # o /\ q \in Objects
    BY <1>3 DEF ObjectTypes
  <2> QED
    BY <1>2, <1>4, <2>1 DEF Owned
<1>6. ASSUME NEW q \in alive'
      PROVE  IF q = o THEN m_moves'[q] = r.slot
             ELSE /\ q \in alive /\ q \in Objects /\ m_moves'[q] = m_moves[q]
                  /\ m_moves[q] # r.slot
                  /\ m_moves[q] # nullptr => m_moves[q] \in Owned
  BY <1>2, <1>3, <1>4, OwnedFacts DEF ObjectTypes, Owned
<1>7. SoleOwner'
  <2> SUFFICES ASSUME NEW q \in alive', m_moves'[q] # nullptr
               PROVE  /\ pool'.mem[m_moves'[q]].kind = "element"
                      /\ \A x \in alive' : m_moves'[x] = m_moves'[q] => x = q
    BY DEF SoleOwner
  <2>1. pool'.mem[m_moves'[q]].kind = "element"
    BY <1>2, <1>6, SlotFacts DEF IInv, SoleOwner
  <2>2. \A x \in alive' : m_moves'[x] = m_moves'[q] => x = q
    BY <1>6 DEF IInv, SoleOwner
  <2> QED
    BY <2>1, <2>2
<1>8. MovesIntact'
  <2> SUFFICES ASSUME NEW q \in alive', m_moves'[q] # nullptr
               PROVE  /\ pool'.mem[m_moves'[q]].element # <<>>
                      /\ NoRepeats(pool'.mem[m_moves'[q]].element)
    BY DEF MovesIntact
  <2> QED
    BY <1>2, <1>6, SlotFacts DEF IInv, MovesIntact
<1>9. IInv'
  BY <1>2, <1>4, <1>5, <1>7, <1>8 DEF IInv
<1>10. ASSUME NEW q \in Objects
       PROVE  Untried'[q] = IF q = o THEN Elements(s) ELSE Untried[q]
  <2>1. CASE q = o
    BY <2>1, <1>2, <1>4, SlotFacts DEF Untried
  <2>2. CASE q # o
    <3>1. m_moves'[q] = m_moves[q] /\ (q \in alive' <=> q \in alive)
      BY <2>2, <1>4
    <3>2. m_moves[q] # nullptr => pool'.mem[m_moves[q]] = pool.mem[m_moves[q]]
      BY <1>2, OwnedFacts
    <3> QED
      BY <2>2, <3>1, <3>2 DEF Untried
  <2> QED
    BY <2>1, <2>2
<1>11. Untried' = [Untried EXCEPT ![o] = Elements(s)]
  BY <1>10 DEF Untried
<1> QED
  BY <1>9, <1>11

\* An object whose array goes back to the pool, if it has one.
LEMMA Lose ==
    ASSUME IInv, NEW o \in alive, pool' = delete_element(pool, m_moves[o]),
           m_moves' = [m_moves EXCEPT ![o] = nullptr],
           alive' = alive \/ alive' = alive \ {o}, returned' \in Move \cup {NoMove}
    PROVE  IInv' /\ Untried' = [Untried EXCEPT ![o] = {}]
<1> DEFINE a == m_moves[o]
<1>1. PICK fs \in Seq(Pairs) : PoolInv(pool, Owned, fs)
  BY DEF IInv
<1>2. ObjectTypes /\ o \in Objects
  BY DEF IInv, ObjectTypes
<1>3. nullptr \in Pairs
  BY DEF nullptr, Pairs
<1>4. ObjectTypes' /\ \A q \in Objects : m_moves'[q] = IF q = o THEN nullptr ELSE m_moves[q]
  BY <1>2, <1>3 DEF ObjectTypes
<1>5. \A q \in alive : q \in Objects /\ (m_moves[q] = a /\ a # nullptr => q = o)
  BY <1>2 DEF IInv, SoleOwner, ObjectTypes
<1>6. Owned' = Owned \ {a}
  BY <1>2, <1>4, <1>5 DEF Owned
<1>7. /\ \E gs \in Seq(Pairs) : PoolInv(pool', Owned \ {a}, gs)
      /\ \A b \in Owned \ {a} : pool'.mem[b] = pool.mem[b]
  <2>1. CASE a = nullptr
    <3>1. pool' = pool /\ Owned \ {a} = Owned
      BY <2>1 DEF delete_element, Owned
    <3> QED
      BY <1>1, <3>1
  <2>2. CASE a # nullptr
    <3>1. a \in Owned
      BY <2>2 DEF Owned
    <3>2. /\ PoolInv(pool', Owned \ {a}, <<a>> \o fs)
          /\ \A b \in Owned \ {a} : pool'.mem[b] = pool.mem[b]
      BY <1>1, <3>1, DeleteFacts
    <3>3. <<a>> \o fs \in Seq(Pairs)
      BY <1>1, <1>2 DEF ObjectTypes
    <3> QED
      BY <3>2, <3>3
  <2> QED
    BY <2>1, <2>2
<1>8. ASSUME NEW q \in alive', m_moves'[q] # nullptr
      PROVE  /\ q # o /\ q \in alive /\ m_moves'[q] = m_moves[q]
             /\ m_moves[q] \in Owned \ {a}
             /\ pool'.mem[m_moves'[q]] = pool.mem[m_moves[q]]
  <2>1. q \in alive /\ q \in Objects
    BY <1>2 DEF ObjectTypes
  <2>2. q # o /\ m_moves'[q] = m_moves[q]
    BY <2>1, <1>4, <1>8
  <2>3. m_moves[q] \in Owned /\ m_moves[q] # a
    BY <2>1, <2>2, <1>5, <1>8 DEF Owned
  <2> QED
    BY <2>1, <2>2, <2>3, <1>7
<1> HIDE DEF a
<1>9. SoleOwner'
  <2> SUFFICES ASSUME NEW q \in alive', m_moves'[q] # nullptr
               PROVE  /\ pool'.mem[m_moves'[q]].kind = "element"
                      /\ \A x \in alive' : m_moves'[x] = m_moves'[q] => x = q
    BY DEF SoleOwner
  <2> QED
    BY <1>8 DEF IInv, SoleOwner
<1>10. MovesIntact'
  <2> SUFFICES ASSUME NEW q \in alive', m_moves'[q] # nullptr
               PROVE  /\ pool'.mem[m_moves'[q]].element # <<>>
                      /\ NoRepeats(pool'.mem[m_moves'[q]].element)
    BY DEF MovesIntact
  <2> QED
    BY <1>8 DEF IInv, MovesIntact
<1>11. IInv'
  BY <1>4, <1>6, <1>7, <1>9, <1>10 DEF IInv
<1>12. ASSUME NEW q \in Objects
       PROVE  Untried'[q] = IF q = o THEN {} ELSE Untried[q]
  <2>1. CASE q = o
    BY <2>1, <1>4 DEF Untried
  <2>2. CASE q # o
    <3>1. m_moves'[q] = m_moves[q] /\ (q \in alive' <=> q \in alive)
      BY <2>2, <1>4
    <3>2. q \in alive /\ m_moves[q] # nullptr => pool'.mem[m_moves[q]] = pool.mem[m_moves[q]]
      BY <1>8, <3>1
    <3> QED
      BY <2>2, <3>1, <3>2 DEF Untried
  <2> QED
    BY <2>1, <2>2
<1>13. Untried' = [Untried EXCEPT ![o] = {}]
  BY <1>12 DEF Untried
<1> QED
  BY <1>11, <1>13

\* Steps that leave the pool alone and hand slots from object to object.
LEMMA Handed ==
    ASSUME IInv, UNCHANGED pool, ObjectTypes', Owned' = Owned,
           \A o, q \in alive' : m_moves'[o] # nullptr /\ m_moves'[q] = m_moves'[o] => q = o
    PROVE  IInv'
<1>1. PICK fs \in Seq(Pairs) : PoolInv(pool, Owned, fs)
  BY DEF IInv
<1>2. \E gs \in Seq(Pairs) : PoolInv(pool', Owned', gs)
  BY <1>1
<1>3. \A q \in alive' : m_moves'[q] # nullptr => m_moves'[q] \in Owned
  BY DEF Owned
<1>4. \A a \in Owned : pool.mem[a].kind = "element"
  BY <1>1 DEF PoolInv, Partition
<1>5. SoleOwner'
  BY <1>3, <1>4 DEF SoleOwner
<1>6. MovesIntact'
  BY <1>3, OwnedFacts DEF MovesIntact
<1> QED
  BY <1>2, <1>5, <1>6 DEF IInv

\* NodeData() builds a node without moves.
LEMMA NodeDataStep ==
    ASSUME IInv, NEW o \in Objects, NodeData(o)
    PROVE  IInv' /\ Sets!Create(o, {})
<1>1. /\ o \notin alive /\ alive' = alive \cup {o} /\ returned' = returned
      /\ m_moves' = m_moves /\ pool' = pool /\ m_moves[o] = nullptr
  <2>1. m_moves[o] = nullptr /\ m_moves \in [Objects -> Pairs]
    BY DEF IInv, ObjectTypes, NodeData
  <2>2. m_moves' = m_moves
    BY <2>1 DEF NodeData
  <2> QED
    BY <2>1, <2>2 DEF NodeData
<1>2. ObjectTypes'
  BY <1>1 DEF IInv, ObjectTypes
<1>3. Owned' = Owned
  BY <1>1 DEF Owned
<1>4. \A x, q \in alive' : m_moves'[x] # nullptr /\ m_moves'[q] = m_moves'[x] => q = x
  BY <1>1 DEF IInv, SoleOwner
<1>5. IInv'
  BY <1>1, <1>2, <1>3, <1>4, Handed
<1>6. Untried' = [Untried EXCEPT ![o] = {}]
  BY <1>1 DEF Untried
<1> QED
  BY <1>1, <1>5, <1>6 DEF Sets!Create

\* NodeData ( State ) builds one with the moves of a position, in an array of its own.
LEMMA FromStateStep ==
    ASSUME IInv, NEW o \in Objects, NEW ms \in MoveLists, NodeDataFromState(o, ms)
    PROVE  IInv' /\ \E S \in SUBSET Move : Sets!Create(o, S)
<1> DEFINE r == new_element(pool, ms)
<1>1. /\ o \in Objects \ alive /\ alive' = alive \cup {o} /\ returned' = returned
      /\ ms \in Seq(Move) /\ NoRepeats(ms)
  BY MoveListFacts DEF NodeDataFromState
<1>2. CASE ms # <<>>
  <2>1. pool' = r.pool /\ m_moves' = [m_moves EXCEPT ![o] = r.slot]
    BY <1>2 DEF NodeDataFromState, UsePool
  <2>2. IInv' /\ Untried' = [Untried EXCEPT ![o] = Elements(ms)]
    BY <1>1, <1>2, <2>1, Gain
  <2>3. Elements(ms) \in SUBSET Move
    BY <1>1 DEF Elements
  <2>4. Sets!Create(o, Elements(ms))
    BY <1>1, <2>2 DEF Sets!Create
  <2> QED
    BY <2>2, <2>3, <2>4
<1>3. CASE ms = <<>>
  <2>1. pool' = delete_element(r.pool, r.slot) /\ m_moves' = [m_moves EXCEPT ![o] = nullptr]
    BY <1>3 DEF NodeDataFromState, UsePool
  <2>2. PICK fs : PoolInv(pool, Owned, fs)
    BY DEF IInv
  <2>3. Allocated(pool, Owned, ms, r)
    BY <1>1, <2>2, AllocateFacts
  <2> HIDE DEF r
  <2>4. PICK gs \in Seq(Pairs) : PoolInv(r.pool, Owned \cup {r.slot}, gs)
    BY <2>3 DEF Allocated
  <2>5. r.slot \in Owned \cup {r.slot} /\ (Owned \cup {r.slot}) \ {r.slot} = Owned
    BY <2>3 DEF Allocated
  <2>6. /\ PoolInv(pool', Owned, <<r.slot>> \o gs)
        /\ \A b \in Owned : pool'.mem[b] = r.pool.mem[b]
    <3> DEFINE V == Owned \cup {r.slot}
    <3>1. PoolInv(r.pool, V, gs) /\ r.slot \in V /\ V \ {r.slot} = Owned
      BY <2>4, <2>5
    <3> HIDE DEF V
    <3>2. /\ PoolInv(pool', V \ {r.slot}, <<r.slot>> \o gs)
          /\ \A b \in V \ {r.slot} : pool'.mem[b] = r.pool.mem[b]
      BY <2>1, <3>1, DeleteFacts
    <3> QED
      BY <3>1, <3>2
  <2>7. \A b \in Owned : pool'.mem[b] = pool.mem[b]
    BY <2>3, <2>6 DEF Allocated
  <2>8. <<r.slot>> \o gs \in Seq(Pairs)
    BY <2>3, <2>4 DEF Allocated
  <2>9. m_moves' = m_moves /\ m_moves[o] = nullptr
    BY <1>1, <2>1 DEF IInv, ObjectTypes
  <2>10. ObjectTypes'
    BY <1>1, <2>9 DEF IInv, ObjectTypes
  <2>11. Owned' = Owned
    BY <1>1, <2>9 DEF Owned
  <2>12. \A q \in alive' : m_moves'[q] # nullptr =>
             /\ q \in alive /\ m_moves[q] \in Owned
             /\ pool'.mem[m_moves'[q]] = pool.mem[m_moves[q]]
    BY <1>1, <2>7, <2>9 DEF Owned
  <2>13. SoleOwner' /\ MovesIntact'
    BY <2>9, <2>12 DEF IInv, SoleOwner, MovesIntact
  <2>14. IInv'
    BY <2>6, <2>8, <2>10, <2>11, <2>13 DEF IInv
  <2>15. \A q \in Objects : Untried'[q] = IF q = o THEN {} ELSE Untried[q]
    BY <1>1, <2>9, <2>12 DEF Untried
  <2>16. Untried' = [Untried EXCEPT ![o] = {}]
    BY <2>15 DEF Untried
  <2>17. Sets!Create(o, {})
    BY <1>1, <2>16 DEF Sets!Create
  <2> QED
    BY <2>14, <2>17
<1> QED
  BY <1>2, <1>3

\* A copy has the moves of its original, in an array of its own.
LEMMA CopyStep ==
    ASSUME IInv, NEW o \in Objects, NEW nd \in Objects, NodeDataCopy(o, nd)
    PROVE  IInv' /\ Sets!Copy(o, nd)
<1>1. /\ o \in Objects \ alive /\ nd \in alive
      /\ alive' = alive \cup {o} /\ returned' = returned
  BY DEF NodeDataCopy
<1>2. CASE m_moves[nd] # nullptr
  <2> DEFINE s == pool.mem[m_moves[nd]].element
             r == new_element(pool, s)
  <2>1. s \in Seq(Move) /\ s # <<>> /\ NoRepeats(s)
    BY <1>2, OwnedFacts
  <2>2. pool' = r.pool /\ m_moves' = [m_moves EXCEPT ![o] = r.slot]
    BY <1>2 DEF NodeDataCopy, UsePool
  <2>3. Untried[nd] = Elements(s)
    BY <1>1, <1>2 DEF Untried
  <2> HIDE DEF s
  <2>4. IInv' /\ Untried' = [Untried EXCEPT ![o] = Elements(s)]
    BY <1>1, <2>1, <2>2, Gain
  <2> QED
    BY <1>1, <2>3, <2>4 DEF Sets!Copy, Sets!Create
<1>3. CASE m_moves[nd] = nullptr
  <2>1. NodeData(o)
    BY <1>3 DEF NodeDataCopy, NodeData
  <2>2. Untried[nd] = {}
    BY <1>3 DEF Untried
  <2> QED
    BY <1>1, <2>1, <2>2, NodeDataStep DEF Sets!Copy
<1> QED
  BY <1>2, <1>3

\* A move construction hands the array over.
LEMMA MoveStep ==
    ASSUME IInv, NEW o \in Objects, NEW nd \in Objects, NodeDataMove(o, nd)
    PROVE  IInv' /\ Sets!Take(o, nd)
<1>1. /\ o \notin alive /\ nd \in alive /\ o # nd /\ alive' = alive \cup {o}
      /\ returned' = returned /\ pool' = pool
      /\ m_moves \in [Objects -> Pairs] /\ m_moves[o] = nullptr /\ alive \subseteq Objects
      /\ \A q \in Objects \ alive : m_moves[q] = nullptr
  BY DEF NodeDataMove, IInv, ObjectTypes
<1>2. /\ m_moves' \in [Objects -> Pairs]
      /\ \A q \in Objects : m_moves'[q] = IF q = nd THEN nullptr
                                          ELSE IF q = o THEN m_moves[nd] ELSE m_moves[q]
  <2>1. nullptr \in Pairs
    BY DEF nullptr, Pairs
  <2> QED
    BY <1>1, <2>1 DEF NodeDataMove
<1>3. ObjectTypes'
  BY <1>1, <1>2 DEF IInv, ObjectTypes
<1>4. Owned' = Owned
  BY <1>1, <1>2 DEF Owned
<1>5. \A x, q \in alive' : m_moves'[x] # nullptr /\ m_moves'[q] = m_moves'[x] => q = x
  BY <1>1, <1>2 DEF IInv, SoleOwner
<1>6. IInv'
  BY <1>1, <1>3, <1>4, <1>5, Handed
<1>7. Untried' = [Untried EXCEPT ![o] = Untried[nd], ![nd] = {}]
  <2>1. \A q \in Objects : Untried'[q] = IF q = nd THEN {}
                                         ELSE IF q = o THEN Untried[nd] ELSE Untried[q]
    BY <1>1, <1>2 DEF Untried
  <2> QED
    BY <2>1 DEF Untried
<1> QED
  BY <1>1, <1>6, <1>7 DEF Sets!Take

\* A move assignment swaps the two arrays.
LEMMA MoveAssignStep ==
    ASSUME IInv, NEW o \in Objects, NEW nd \in Objects, MoveAssign(o, nd)
    PROVE  IInv' /\ Sets!Swap(o, nd)
<1>1. /\ o \in alive /\ nd \in alive /\ alive' = alive
      /\ returned' = returned /\ pool' = pool
      /\ m_moves \in [Objects -> Pairs] /\ alive \subseteq Objects
  BY DEF MoveAssign, IInv, ObjectTypes
<1>2. /\ m_moves' \in [Objects -> Pairs]
      /\ \A q \in Objects : m_moves'[q] = IF q = nd THEN m_moves[o]
                                          ELSE IF q = o THEN m_moves[nd] ELSE m_moves[q]
  BY <1>1 DEF MoveAssign
<1>3. ObjectTypes'
  BY <1>1, <1>2 DEF IInv, ObjectTypes
<1>4. Owned' = Owned
  BY <1>1, <1>2 DEF Owned
<1>5. \A x, q \in alive' : m_moves'[x] # nullptr /\ m_moves'[q] = m_moves'[x] => q = x
  BY <1>1, <1>2 DEF IInv, SoleOwner
<1>6. IInv'
  BY <1>1, <1>3, <1>4, <1>5, Handed
<1>7. Untried' = [Untried EXCEPT ![o] = Untried[nd], ![nd] = Untried[o]]
  <2>1. \A q \in Objects : Untried'[q] = IF q = nd THEN Untried[o]
                                         ELSE IF q = o THEN Untried[nd] ELSE Untried[q]
    BY <1>1, <1>2 DEF Untried
  <2> QED
    BY <2>1 DEF Untried
<1> QED
  BY <1>1, <1>6, <1>7 DEF Sets!Swap

\* getUntriedMove removes the move that it returns, and frees the array with the last one.
LEMMA DrawStep ==
    ASSUME IInv, NEW o \in Objects, NEW i, getUntriedMove(o, i)
    PROVE  IInv' /\ \E m \in Move : Sets!Draw(o, m)
<1> DEFINE a == m_moves[o]
           s == pool.mem[a].element
<1>1. o \in alive /\ a # nullptr /\ i \in DOMAIN s /\ returned' = s[i] /\ alive' = alive
  BY DEF getUntriedMove
<1>2. a \in Owned /\ s \in Seq(Move) /\ s # <<>> /\ NoRepeats(s)
  BY <1>1, OwnedFacts
<1>3. s[i] \in Move /\ s[i] \in Elements(s) /\ Untried[o] = Elements(s)
  BY <1>1, <1>2 DEF Elements, Untried
<1>4. CASE Len(s) = 1
  <2>1. pool' = delete_element(pool, m_moves[o]) /\ m_moves' = [m_moves EXCEPT ![o] = nullptr]
    BY <1>4 DEF getUntriedMove, UsePool
  <2>2. IInv' /\ Untried' = [Untried EXCEPT ![o] = {}]
    BY <1>1, <1>3, <2>1, Lose
  <2>3. Elements(s) \ {s[i]} = {}
    <3>1. DOMAIN s = 1..1
      BY <1>2, <1>4, LenProperties
    <3> HIDE DEF s
    <3> QED
      BY <1>1, <3>1 DEF Elements
  <2> QED
    BY <1>1, <1>3, <2>2, <2>3 DEF Sets!Draw
<1>5. CASE Len(s) # 1
  <2> DEFINE d == draw(s, i)
  <2>1. pool' = Written(pool, a, d) /\ m_moves' = m_moves
    BY <1>5 DEF getUntriedMove, UsePool, Written
  <2> HIDE DEF s
  <2>2. d \in Seq(Move) /\ d # <<>> /\ NoRepeats(d) /\ Elements(d) = Elements(s) \ {s[i]}
    BY <1>1, <1>2, <1>5, DrawFacts
  <2> HIDE DEF a, d
  <2>3. PICK fs \in Seq(Pairs) : PoolInv(pool, Owned, fs)
    BY DEF IInv
  <2>4. /\ PoolInv(pool', Owned, fs) /\ pool'.mem[a] = Element(d)
        /\ \A b \in Owned \ {a} : pool'.mem[b] = pool.mem[b]
    BY <1>2, <2>1, <2>2, <2>3, WriteFacts
  <2>5. Owned' = Owned /\ ObjectTypes'
    BY <1>1, <1>3, <2>1 DEF Owned, IInv, ObjectTypes
  <2>6. \A q \in alive : m_moves[q] # nullptr /\ q # o =>
            pool'.mem[m_moves[q]] = pool.mem[m_moves[q]]
    BY <1>1, <2>4 DEF IInv, SoleOwner, Owned, a
  <2>7. pool'.mem[m_moves[o]] = Element(d) /\ Element(d).kind = "element" /\ Element(d).element = d
    BY <2>2, <2>4, SlotFacts DEF a
  <2>8. SoleOwner' /\ MovesIntact'
    BY <1>1, <2>1, <2>2, <2>6, <2>7 DEF IInv, SoleOwner, MovesIntact
  <2>9. IInv'
    BY <2>3, <2>4, <2>5, <2>8 DEF IInv
  <2>10. \A q \in Objects : Untried'[q] = IF q = o THEN Elements(d) ELSE Untried[q]
    BY <1>1, <2>1, <2>6, <2>7 DEF Untried, a
  <2>11. Untried' = [Untried EXCEPT ![o] = Untried[o] \ {s[i]}]
    BY <1>3, <2>2, <2>10 DEF Untried
  <2> QED
    BY <1>1, <1>3, <2>9, <2>11 DEF Sets!Draw
<1> QED
  BY <1>4, <1>5

\* A destructor frees the array that the node still has.
LEMMA DestroyStep ==
    ASSUME IInv, NEW o \in Objects, DestroyNodeData(o)
    PROVE  IInv' /\ Sets!Discard(o)
<1>1. /\ o \in alive /\ alive' = alive \ {o} /\ returned' = returned
      /\ pool' = delete_element(pool, m_moves[o])
      /\ m_moves' = [m_moves EXCEPT ![o] = nullptr]
  BY DEF DestroyNodeData, UsePool
<1>2. returned' \in Move \cup {NoMove}
  BY <1>1 DEF IInv, ObjectTypes
<1>3. IInv' /\ Untried' = [Untried EXCEPT ![o] = {}]
  BY <1>1, <1>2, Lose
<1> QED
  BY <1>1, <1>3 DEF Sets!Discard

\* The pool of a program that has just started, or has ended.
LEMMA EmptyPoolFacts == PoolInv(EmptyPool, {}, <<>>)
<1> DEFINE p == EmptyPool
<1>1. /\ IsPool(p) /\ p.m_current_block = 0 /\ p.m_current_slot = nullptr
      /\ p.m_last_slot = nullptr /\ p.m_free_slots = nullptr
      /\ p.block_next = <<>> /\ p.mem = <<>>
  BY DEF EmptyPool, IsPool
<1> HIDE DEF p
<1>2. Len(p.block_next) = 0 /\ p.block_next \in Seq(Nat)
  BY <1>1
<1>3. FirstSlots(0) = {} /\ BlockMemory(0) = {}
  BY DEF FirstSlots, BlockMemory
<1>4. DOMAIN p.mem = {} /\ p.mem \in [BlockMemory(0) -> Slot]
  BY <1>1, <1>3
<1>5. PoolTypes(p)
  BY <1>1, <1>2, <1>4 DEF PoolTypes, nullptr, Pairs
<1>6. FreeChain(p, <<>>)
  BY <1>1 DEF FreeChain, NoRepeats
<1>7. Partition(p, {}, <<>>)
  BY <1>2, <1>3, <1>4 DEF Partition
<1>8. p.m_current_slot[2] >= p.m_last_slot[2]
  BY <1>1 DEF nullptr
<1> QED
  BY <1>5, <1>6, <1>7, <1>8 DEF PoolInv, p

\* At the end of the program no object is left to point into the pool.
LEMMA DestroyPoolStep ==
    ASSUME IInv, DestroyPool
    PROVE  IInv' /\ UNCHANGED <<alive, Untried, returned>>
<1>1. /\ alive = {} /\ alive' = {} /\ m_moves' = m_moves /\ returned' = returned
      /\ pool' = EmptyPool
  BY DEF DestroyPool
<1>2. Owned' = {}
  BY <1>1 DEF Owned
<1>3. \E fs \in Seq(Pairs) : PoolInv(pool', Owned', fs)
  <2>1. <<>> \in Seq(Pairs)
    OBVIOUS
  <2>2. PoolInv(pool', Owned', <<>>)
    BY <1>1, <1>2, EmptyPoolFacts
  <2> QED
    BY <2>1, <2>2
<1>4. ObjectTypes' /\ SoleOwner' /\ MovesIntact'
  BY <1>1 DEF IInv, ObjectTypes, SoleOwner, MovesIntact
<1>5. Untried' = Untried
  BY <1>1 DEF Untried
<1> QED
  BY <1>1, <1>3, <1>4, <1>5 DEF IInv

-----------------------------------------------------------------------------
(* The specification.                                                      *)

LEMMA Started ==
    ASSUME Init
    PROVE  IInv /\ Sets!Init
<1>1. /\ alive = {} /\ m_moves = [o \in Objects |-> nullptr] /\ pool = EmptyPool
      /\ returned = NoMove
  BY DEF Init
<1>2. ObjectTypes /\ SoleOwner /\ MovesIntact /\ Owned = {}
  BY <1>1 DEF ObjectTypes, SoleOwner, MovesIntact, Owned, Pairs, nullptr
<1>3. \E fs \in Seq(Pairs) : PoolInv(pool, Owned, fs)
  <2>1. <<>> \in Seq(Pairs)
    OBVIOUS
  <2>2. PoolInv(pool, Owned, <<>>)
    BY <1>1, <1>2, EmptyPoolFacts
  <2> QED
    BY <2>1, <2>2
<1>4. Untried = [o \in Objects |-> {}]
  BY <1>1 DEF Untried
<1> QED
  BY <1>1, <1>2, <1>3, <1>4 DEF IInv, Sets!Init

\* Every step keeps the invariant and is one of UntriedMoves.
LEMMA Stepped ==
    ASSUME IInv, [Next]_vars
    PROVE  IInv' /\ [Sets!Next]_<<alive, Untried, returned>>
<1>1. CASE UNCHANGED vars
  <2>1. Owned' = Owned /\ Untried' = Untried
    BY <1>1 DEF vars, Owned, Untried
  <2> QED
    BY <1>1, <2>1 DEF vars, IInv, ObjectTypes, SoleOwner, MovesIntact
<1>2. ASSUME NEW o \in Objects, NodeData(o)
      PROVE  IInv' /\ Sets!Next
  BY <1>2, NodeDataStep DEF Sets!Next
<1>3. ASSUME NEW o \in Objects, NEW ms \in MoveLists, NodeDataFromState(o, ms)
      PROVE  IInv' /\ Sets!Next
  BY <1>3, FromStateStep DEF Sets!Next
<1>4. ASSUME NEW o \in Objects, NEW nd \in Objects, NodeDataCopy(o, nd)
      PROVE  IInv' /\ Sets!Next
  BY <1>4, CopyStep DEF Sets!Next
<1>5. ASSUME NEW o \in Objects, NEW nd \in Objects, NodeDataMove(o, nd)
      PROVE  IInv' /\ Sets!Next
  BY <1>5, MoveStep DEF Sets!Next
<1>6. ASSUME NEW o \in Objects, NEW nd \in Objects, MoveAssign(o, nd)
      PROVE  IInv' /\ Sets!Next
  BY <1>6, MoveAssignStep DEF Sets!Next
<1>7. ASSUME NEW o \in Objects, NEW i \in 1..Capacity, getUntriedMove(o, i)
      PROVE  IInv' /\ Sets!Next
  BY <1>7, DrawStep DEF Sets!Next
<1>8. ASSUME NEW o \in Objects, DestroyNodeData(o)
      PROVE  IInv' /\ Sets!Next
  BY <1>8, DestroyStep DEF Sets!Next
<1>9. CASE DestroyPool
  BY <1>9, DestroyPoolStep
<1> QED
  BY <1>1, <1>2, <1>3, <1>4, <1>5, <1>6, <1>7, <1>8, <1>9 DEF Next

\* The invariant: pool, free list and pointers fit together whatever sequence
\* of constructions, moves, draws and destructions mcts.hpp 174-258 performs.
THEOREM PoolInductive == Spec => []IInv
<1>1. Init => IInv
  BY Started
<1>2. IInv /\ [Next]_vars => IInv'
  BY Stepped
<1> QED
  BY <1>1, <1>2, PTL DEF Spec

\* Types: every pointer is null or leads into a block of the pool.
THEOREM PoolTypeCorrect == Spec => []TypeOK
<1>1. ASSUME IInv PROVE TypeOK
  <2> DEFINE n == Len(pool.block_next)
  <2>1. PICK fs \in Seq(Pairs) : PoolInv(pool, Owned, fs)
    BY <1>1 DEF IInv
  <2>2. /\ n \in Nat /\ DOMAIN pool.block_next = 1..n
        /\ pool.mem \in [BlockMemory(n) -> Slot]
        /\ pool.m_current_block = n
    BY <2>1 DEF PoolInv, PoolTypes
  <2> HIDE DEF n
  <2>3. Addresses = BlockMemory(n)
    BY <2>2 DEF Addresses, BlockSlots, BlockMemory
  <2>4. /\ Owned \subseteq BlockMemory(n) /\ Len(fs) \in Nat
        /\ \A i \in 1..Len(fs) : fs[i] \in BlockMemory(n) /\ fs[i] \in FirstSlots(n)
    BY <2>1, FreeFacts DEF n
  <2>5. m_moves \in [Objects -> Pointers]
    <3>1. \A o \in Objects : m_moves[o] \in BlockMemory(n) \cup {nullptr}
      BY <1>1, <2>4, OwnedFacts
    <3> QED
      BY <1>1, <2>3, <3>1 DEF IInv, ObjectTypes, Pointers
  <2>6. pool.m_free_slots \in Pointers
    <3>1. CASE fs = <<>>
      BY <2>1, <3>1 DEF PoolInv, FreeChain, Pointers
    <3>2. CASE fs # <<>>
      <4>1. 1 \in 1..Len(fs)
        BY <2>4, <3>2
      <4> QED
        BY <2>1, <2>3, <2>4, <3>2, <4>1 DEF PoolInv, FreeChain, Pointers
    <3> QED
      BY <3>1, <3>2
  <2>7. ASSUME NEW a \in Addresses
        PROVE  pool.mem[a].next \in Pointers /\ pool.mem[a].element \in Seq(Move)
    <3>1. pool.mem[a] \in Slot
      BY <2>2, <2>3
    <3>2. CASE pool.mem[a].kind # "next"
      BY <2>1, <2>2, <2>3, <3>1, <3>2 DEF PoolInv, Partition, Pointers, Slot
    <3>3. CASE pool.mem[a].kind = "next"
      <4>1. a \in FirstSlots(n) /\ a \notin Owned
        BY <2>1, <2>2, <2>3, <3>3 DEF PoolInv, Partition, n
      <4>2. a \in Elements(fs)
        BY <2>1, <4>1 DEF PoolInv, Partition, n
      <4>3. PICK i \in 1..Len(fs) : a = fs[i]
        BY <2>1, <4>2, FreeFacts DEF Elements
      <4>4. pool.mem[a].next = IF i = Len(fs) THEN nullptr ELSE fs[i + 1]
        BY <2>1, <4>3 DEF PoolInv, FreeChain
      <4>5. i # Len(fs) => i + 1 \in 1..Len(fs)
        <5>1. \A k \in Nat : \A j \in 1..k : j # k => j + 1 \in 1..k
          OBVIOUS
        <5> QED
          BY <2>4, <5>1
      <4> QED
        BY <2>3, <2>4, <3>1, <4>4, <4>5 DEF Pointers, Slot
    <3> QED
      BY <3>1, <3>2, <3>3 DEF Slot
  <2>8. pool.m_current_block \in {0} \cup DOMAIN pool.block_next
    BY <2>2
  <2> QED
    BY <1>1, <2>2, <2>3, <2>5, <2>6, <2>7, <2>8 DEF TypeOK, IInv, ObjectTypes
<1> QED
  BY <1>1, PoolInductive, PTL

\* No two nodes share an array, and no array of a node is in a free slot.
THEOREM SlotsHaveOneOwner == Spec => []SoleOwner
<1>1. IInv => SoleOwner
  BY DEF IInv
<1> QED
  BY <1>1, PoolInductive, PTL

\* A node with a pointer has a move to draw, and no move twice.
THEOREM ArraysIntact == Spec => []MovesIntact
<1>1. IInv => MovesIntact
  BY DEF IInv
<1> QED
  BY <1>1, PoolInductive, PTL

\* The arrays in the pool implement one set of moves per node: what Mcts
\* assumes when it takes the untried moves of a node as a set.
THEOREM PoolImplementsSets == Spec => ImplementsSets
<1>1. Init => Sets!Init
  BY Started
<1>2. IInv /\ [Next]_vars => [Sets!Next]_<<alive, Untried, returned>>
  BY Stepped
<1> QED
  BY <1>1, <1>2, PoolInductive, PTL DEF Spec, ImplementsSets, Sets!Spec

-----------------------------------------------------------------------------
(* Walks along a list.                                                     *)

\* A non-empty set of natural numbers has a least element.
LEMMA LeastNumber ==
    ASSUME NEW S \in SUBSET Nat, S # {}
    PROVE  \E k \in S : \A j \in S : k <= j
<1>1. PICK k \in S : \A j \in S : ~ (<<j, k>> \in OpToRel(<, Nat))
  BY NatLessThanWellFounded, WFMin
<1>2. \A j \in S : ~ (j < k)
  BY <1>1 DEF OpToRel
<1> QED
  BY <1>2

\* How many numbers an interval has.
LEMMA IntervalSize ==
    ASSUME NEW n \in Nat
    PROVE  IsFiniteSet(1..n) /\ Cardinality(1..n) = n
<1>1. /\ IsFiniteSet(1..n)
      /\ Cardinality(1..n) = IF 1 > n THEN 0 ELSE n - 1 + 1
  BY FS_Interval
<1> QED
  BY <1>1

\* L is the list of n pointers from p along next to null.
Runs(L, n, next, p, null) ==
    /\ p = IF n = 0 THEN null ELSE L[1]
    /\ \A k \in 1..n : /\ L[k] # null
                       /\ next[L[k]] = IF k = n THEN null ELSE L[k + 1]

\* pointer_vector() yields the list that is there, if the limit allows it.
LEMMA WalkIsList ==
    ASSUME NEW limit \in Nat, NEW n \in 0..limit, NEW L, L = [k \in 1..n |-> L[k]],
           NEW next, NEW p, NEW null, Runs(L, n, next, p, null)
    PROVE  pointer_vector(next, p, null, limit) = L
<1> DEFINE E(f, k) == IF k = 1 THEN p
                      ELSE IF f[k - 1] = null THEN null ELSE next[f[k - 1]]
           F(f) == f = [k \in 1..limit + 1 |-> E(f, k)]
           g == [k \in 1..limit + 1 |-> IF k <= n THEN L[k] ELSE null]
           at == CHOOSE f : F(f)
<1>1. n \in Nat /\ n <= limit
  OBVIOUS
<1>2. /\ p = IF n = 0 THEN null ELSE L[1]
      /\ \A k \in 1..n : L[k] # null /\ next[L[k]] = IF k = n THEN null ELSE L[k + 1]
  BY DEF Runs
<1>3. F(g)
  <2>1. ASSUME NEW k \in 1..limit + 1 PROVE g[k] = E(g, k)
    <3>1. CASE k = 1
      BY <3>1, <1>1, <1>2
    <3>2. CASE k # 1 /\ k <= n
      <4>1. k - 1 \in 1..limit + 1 /\ k - 1 \in 1..n /\ k - 1 # n /\ (k - 1) + 1 = k
        BY <3>2, <1>1
      <4>2. g[k - 1] = L[k - 1] /\ g[k] = L[k]
        BY <4>1, <3>2
      <4> QED
        BY <4>1, <4>2, <3>2, <1>2
    <3>3. CASE k # 1 /\ k = n + 1
      <4>1. k - 1 \in 1..limit + 1 /\ k - 1 = n /\ n \in 1..n
        BY <3>3, <1>1
      <4>2. g[k - 1] = L[n] /\ g[k] = null
        BY <4>1, <3>3, <1>1
      <4> QED
        BY <4>1, <4>2, <3>3, <1>2
    <3>4. CASE k > n + 1
      <4>1. k - 1 \in 1..limit + 1 /\ ~(k - 1 <= n) /\ ~(k <= n) /\ k # 1
        BY <3>4, <1>1
      <4>2. g[k - 1] = null /\ g[k] = null
        BY <4>1
      <4> QED
        BY <4>1, <4>2
    <3> QED
      BY <3>1, <3>2, <3>3, <3>4, <1>1
  <2> HIDE DEF E
  <2> QED
    BY <2>1
<1>4. F(at)
  <2> HIDE DEF F, g
  <2> QED
    BY <1>3
<1>5. at = g
  <2> DEFINE B == {k \in Nat : k \in 1..limit + 1 /\ at[k] # g[k]}
  <2> HIDE DEF at, g
  <2>1. \A k \in 1..limit + 1 : at[k] = E(at, k) /\ g[k] = E(g, k)
    BY <1>3, <1>4
  <2>2. B = {}
    <3> SUFFICES ASSUME B # {} PROVE FALSE
      OBVIOUS
    <3>1. PICK k \in B : \A j \in B : k <= j
      BY LeastNumber
    <3>2. k \in 1..limit + 1 /\ at[k] # g[k]
      BY <3>1
    <3>3. CASE k = 1
      BY <3>2, <3>3, <2>1
    <3>4. CASE k # 1
      <4>1. k - 1 \in 1..limit + 1 /\ k - 1 \in Nat /\ ~(k <= k - 1)
        BY <3>2, <3>4
      <4>2. at[k - 1] = g[k - 1]
        BY <4>1, <3>1
      <4>3. E(at, k) = E(g, k)
        BY <4>2
      <4> QED
        BY <4>3, <3>2, <2>1
    <3> QED
      BY <3>3, <3>4
  <2>3. \A k \in 1..limit + 1 : at[k] = g[k]
    BY <2>2
  <2>4. at = [k \in 1..limit + 1 |-> at[k]] /\ g = [k \in 1..limit + 1 |-> g[k]]
    BY <1>3, <1>4
  <2> QED
    BY <2>3, <2>4
<1>6. pointer_vector(next, p, null, limit) =
        [k \in 1..Cardinality({i \in DOMAIN at : at[i] # null}) |-> at[k]]
  BY DEF pointer_vector
<1> HIDE DEF at
<1>7. {i \in DOMAIN g : g[i] # null} = 1..n
  <2>1. DOMAIN g = 1..limit + 1
    OBVIOUS
  <2>2. \A i \in 1..limit + 1 : g[i] = IF i \in 1..n THEN L[i] ELSE null
    BY <1>1
  <2>3. \A i \in 1..n : i \in 1..limit + 1
    BY <1>1
  <2> HIDE DEF g
  <2> QED
    BY <1>2, <2>1, <2>2, <2>3
<1>8. Cardinality(1..n) = n
  BY <1>1, IntervalSize
<1> HIDE DEF g
<1>9. pointer_vector(next, p, null, limit) = [k \in 1..n |-> g[k]]
  BY <1>5, <1>6, <1>7, <1>8, ZenonT(30)
<1>10. \A k \in 1..n : g[k] = L[k]
  BY <1>1 DEF g
<1> QED
  BY <1>9, <1>10

-----------------------------------------------------------------------------
(* The blocks: how many there are, and that the destructor finds them all. *)

\* Blocks are chained from the last to the first, and are what is committed;
\* there is at most one per object that can be alive.
BInv ==
    /\ committed = DOMAIN pool.block_next
    /\ \A b \in DOMAIN pool.block_next : pool.block_next[b] = b - 1
    /\ Len(pool.block_next) <= Cardinality(Objects)
    /\ exited => pool.block_next = <<>>

\* A step that adds no block, or one when every first slot has an owner.
Grows ==
    /\ committed' = committed \cup (DOMAIN pool'.block_next \ DOMAIN pool.block_next)
    /\ \/ pool'.block_next = pool.block_next
       \/ /\ FirstSlots(Len(pool.block_next)) \subseteq Owned
          /\ alive # Objects
          /\ pool'.block_next = Append(pool.block_next, pool.m_current_block)

\* If every first slot has an owner, there are no more blocks than objects alive.
LEMMA OwnersOfSlots ==
    ASSUME IInv, NEW n \in Nat, FirstSlots(n) \subseteq Owned, alive # Objects
    PROVE  n + 1 <= Cardinality(Objects)
<1> DEFINE f == [b \in 1..n |-> CHOOSE o \in alive : m_moves[o] = <<b, 0>>]
<1>1. \A b \in 1..n : \E o \in alive : m_moves[o] = <<b, 0>>
  <2> SUFFICES ASSUME NEW b \in 1..n PROVE \E o \in alive : m_moves[o] = <<b, 0>>
    OBVIOUS
  <2>1. <<b, 0>> \in Owned
    BY DEF FirstSlots
  <2> QED
    BY <2>1 DEF Owned
<1>2. \A b \in 1..n : f[b] \in alive /\ m_moves[f[b]] = <<b, 0>>
  BY <1>1
<1>3. f \in [1..n -> alive]
  BY <1>2
<1> HIDE DEF f
<1>4. f \in Injection(1..n, alive)
  BY <1>2, <1>3 DEF Injection, IsInjective
<1>5. alive \in SUBSET Objects /\ IsFiniteSet(Objects)
  BY DEF IInv, ObjectTypes
<1>6. /\ IsFiniteSet(alive) /\ Cardinality(alive) <= Cardinality(Objects)
      /\ Cardinality(alive) # Cardinality(Objects)
  BY <1>5, FS_Subset
<1>7. Cardinality(1..n) <= Cardinality(alive)
  BY <1>4, <1>6, FS_Injection
<1>8. Cardinality(1..n) = n
  BY IntervalSize
<1>9. Cardinality(alive) \in Nat /\ Cardinality(Objects) \in Nat
  BY <1>5, <1>6, FS_CardinalityType
<1> QED
  BY <1>6, <1>7, <1>8, <1>9

\* Such a step keeps the invariant of the blocks.
LEMMA GrowthKeeps ==
    ASSUME IInv, BInv, Grows, ~ exited, exited' = exited
    PROVE  BInv'
<1> DEFINE n == Len(pool.block_next)
<1>1. n \in Nat /\ DOMAIN pool.block_next = 1..n /\ pool.m_current_block = n
      /\ pool.block_next \in Seq(Nat)
  BY DEF IInv, PoolInv, PoolTypes
<1>2. CASE pool'.block_next = pool.block_next
  BY <1>2 DEF BInv, Grows
<1>3. CASE /\ FirstSlots(n) \subseteq Owned /\ alive # Objects
           /\ pool'.block_next = Append(pool.block_next, n)
  <2> DEFINE new == pool'.block_next
  <2>1. Len(new) = n + 1 /\ DOMAIN new = 1..(n + 1)
        /\ \A b \in 1..(n + 1) : new[b] = IF b = n + 1 THEN n ELSE pool.block_next[b]
    BY <1>1, <1>3
  <2>2. n + 1 <= Cardinality(Objects)
    BY <1>1, <1>3, OwnersOfSlots
  <2>3. committed' = 1..n \cup (1..(n + 1) \ 1..n)
    BY <1>1, <2>1 DEF BInv, Grows
  <2>4. committed' = DOMAIN new
    BY <1>1, <2>1, <2>3
  <2>5. \A b \in 1..(n + 1) : new[b] = b - 1
    <3>1. \A b \in 1..n : pool.block_next[b] = b - 1
      BY <1>1 DEF BInv
    <3> HIDE DEF new, n
    <3>2. \A b \in 1..(n + 1) : b = n + 1 \/ b \in 1..n
      BY <1>1
    <3>3. ASSUME NEW b \in 1..(n + 1) PROVE new[b] = b - 1
      <4>1. CASE b = n + 1
        <5>1. new[b] = n
          BY <2>1, <4>1
        <5>2. b - 1 = n
          BY <1>1, <4>1
        <5> QED
          BY <5>1, <5>2
      <4>2. CASE b \in 1..n
        <5>1. b # n + 1
          BY <1>1, <4>2
        <5> QED
          BY <2>1, <3>1, <4>2, <5>1
      <4> QED
        BY <3>2, <4>1, <4>2
    <3> QED
      BY <3>3
  <2> HIDE DEF new, n
  <2>6. /\ committed' = DOMAIN new /\ \A b \in DOMAIN new : new[b] = b - 1
        /\ Len(new) <= Cardinality(Objects)
    BY <2>1, <2>2, <2>4, <2>5
  <2> QED
    BY <2>6 DEF BInv, new
<1> QED
  BY <1>1, <1>2, <1>3 DEF Grows

\* new_element() for an object that is not alive.
LEMMA NewElementGrows ==
    ASSUME IInv, NEW o \in Objects \ alive, NEW s \in Seq(Move),
           NEW r, r = new_element(pool, s), NEW q, q.block_next = r.pool.block_next,
           UsePool(q)
    PROVE  Grows
<1>1. PICK fs : PoolInv(pool, Owned, fs)
  BY DEF IInv
<1>2. Allocated(pool, Owned, s, r)
  BY <1>1, AllocateFacts
<1>3. pool' = q /\ committed' = committed \cup (DOMAIN q.block_next \ DOMAIN pool.block_next)
  BY DEF UsePool
<1> QED
  BY <1>2, <1>3 DEF Allocated, Grows

\* delete_element() and the writing of an array add no block.
LEMMA SameBlocks ==
    ASSUME NEW p, IsPool(p), NEW a, NEW s
    PROVE  /\ delete_element(p, a).block_next = p.block_next
           /\ Written(p, a, s).block_next = p.block_next
BY DEF IsPool, delete_element, deallocate, Written

\* At the end of the program the destructor walks through all blocks.
LEMMA DestructorFreesAll ==
    ASSUME IInv, BInv, DestroyPool
    PROVE  BInv'
<1> DEFINE n == Len(pool.block_next)
           next == pool.block_next
           L == [k \in 1..n |-> n + 1 - k]
<1>1. n \in Nat /\ DOMAIN next = 1..n /\ pool.m_current_block = n
  BY DEF IInv, PoolInv, PoolTypes
<1>2. n \in 0..n /\ L = [k \in 1..n |-> L[k]]
  BY <1>1
<1>3. \A b \in 1..n : next[b] = b - 1
  BY <1>1 DEF BInv
<1> HIDE DEF n, next
<1>4. Runs(L, n, next, n, 0)
  <2>1. n = IF n = 0 THEN 0 ELSE L[1]
    BY <1>1
  <2>2. ASSUME NEW k \in 1..n
        PROVE  L[k] # 0 /\ next[L[k]] = IF k = n THEN 0 ELSE L[k + 1]
    <3>1. L[k] = n + 1 - k /\ n + 1 - k \in 1..n
      BY <1>1
    <3>2. next[L[k]] = n - k
      BY <1>1, <1>3, <3>1
    <3>3. k # n => k + 1 \in 1..n
      BY <1>1
    <3>4. k # n => L[k + 1] = n - k
      BY <1>1, <3>3
    <3> QED
      BY <1>1, <3>1, <3>2, <3>4
  <2> HIDE DEF L
  <2> QED
    BY <2>1, <2>2 DEF Runs
<1>5. \A b \in 1..n : n + 1 - b \in 1..n /\ L[n + 1 - b] = b
  BY <1>1
<1>6. DOMAIN L = 1..n
  OBVIOUS
<1> HIDE DEF L
<1>7. pointer_vector(next, n, 0, n) = L
  BY <1>1, <1>2, <1>4, WalkIsList
<1>8. 1..n \subseteq Elements(L)
  BY <1>5, <1>6 DEF Elements
<1>9. committed = 1..n
  BY <1>1 DEF BInv, next
<1>10. committed' = committed \ Elements(L) /\ pool' = EmptyPool
  BY <1>1, <1>7 DEF DestroyPool, n, next
<1>11. committed' = {}
  BY <1>8, <1>9, <1>10
<1>12. pool'.block_next = <<>> /\ Len(<<>>) = 0 /\ DOMAIN <<>> = {}
  BY <1>10 DEF EmptyPool
<1>13. Cardinality(Objects) \in Nat
  BY FS_CardinalityType
<1> QED
  BY <1>11, <1>12, <1>13 DEF BInv

\* Every step keeps the invariant of the blocks.
LEMMA BlocksStepped ==
    ASSUME IInv, BInv, [Next]_vars
    PROVE  BInv'
<1>0. IsPool(pool)
  BY DEF IInv, PoolInv, PoolTypes
<1>1. CASE UNCHANGED vars
  BY <1>1 DEF vars, BInv
<1>2. CASE DestroyPool
  BY <1>2, DestructorFreesAll
<1>3. ASSUME pool' = pool, committed' = committed PROVE Grows
  BY <1>3 DEF Grows
<1>4. ASSUME NEW q, q.block_next = pool.block_next, UsePool(q) PROVE Grows
  BY <1>4 DEF Grows, UsePool
<1>5. ASSUME NEW o \in Objects, NodeData(o) PROVE Grows
  BY <1>3, <1>5 DEF NodeData
<1>6. ASSUME NEW o \in Objects, NEW ms \in MoveLists, NodeDataFromState(o, ms)
      PROVE  Grows
  <2> DEFINE r == new_element(pool, ms)
  <2>1. o \in Objects \ alive /\ ms \in Seq(Move)
    BY <1>6, MoveListFacts DEF NodeDataFromState
  <2>2. PICK fs : PoolInv(r.pool, Owned \cup {r.slot}, fs)
    <3>1. PICK fs : PoolInv(pool, Owned, fs)
      BY DEF IInv
    <3>2. Allocated(pool, Owned, ms, r)
      BY <2>1, <3>1, AllocateFacts
    <3> QED
      BY <3>2 DEF Allocated
  <2>3. UsePool(r.pool) \/ UsePool(delete_element(r.pool, r.slot))
    BY <1>6 DEF NodeDataFromState
  <2> HIDE DEF r
  <2>4. delete_element(r.pool, r.slot).block_next = r.pool.block_next
    <3>1. IsPool(r.pool)
      BY <2>2 DEF PoolInv, PoolTypes
    <3> QED
      BY <3>1, SameBlocks
  <2> QED
    BY <2>1, <2>3, <2>4, NewElementGrows DEF r
<1>7. ASSUME NEW o \in Objects, NEW nd \in Objects, NodeDataCopy(o, nd)
      PROVE  Grows
  <2>1. CASE m_moves[nd] = nullptr
    BY <1>3, <1>7, <2>1 DEF NodeDataCopy
  <2>2. CASE m_moves[nd] # nullptr
    <3> DEFINE s == pool.mem[m_moves[nd]].element
               r == new_element(pool, s)
    <3>1. s \in Seq(Move) /\ o \in Objects \ alive
      BY <1>7, <2>2, OwnedFacts DEF NodeDataCopy
    <3>2. UsePool(r.pool)
      BY <1>7, <2>2 DEF NodeDataCopy
    <3> HIDE DEF s
    <3> QED
      BY <3>1, <3>2, NewElementGrows
  <2> QED
    BY <2>1, <2>2
<1>8. ASSUME NEW o \in Objects, NEW nd \in Objects,
             NodeDataMove(o, nd) \/ MoveAssign(o, nd)
      PROVE  Grows
  BY <1>3, <1>8 DEF NodeDataMove, MoveAssign
<1>9. ASSUME NEW o \in Objects, NEW i, getUntriedMove(o, i) PROVE Grows
  <2> DEFINE s == pool.mem[m_moves[o]].element
  <2>1. \/ UsePool(delete_element(pool, m_moves[o]))
        \/ UsePool(Written(pool, m_moves[o], draw(s, i)))
    BY <1>9 DEF getUntriedMove, Written
  <2> HIDE DEF s
  <2> QED
    BY <1>0, <1>4, <2>1, SameBlocks
<1>10. ASSUME NEW o \in Objects, DestroyNodeData(o) PROVE Grows
  <2>1. UsePool(delete_element(pool, m_moves[o]))
    BY <1>10 DEF DestroyNodeData
  <2> QED
    BY <1>0, <1>4, <2>1, SameBlocks
<1>11. CASE Next /\ ~ DestroyPool
  <2>1. Grows /\ ~ exited /\ exited' = exited
    BY <1>11, <1>5, <1>6, <1>7, <1>8, <1>9, <1>10 DEF Next
  <2> QED
    BY <2>1, GrowthKeeps
<1> QED
  BY <1>1, <1>2, <1>11

\* The pool grows with the number of nodes at a time and not with the number of
\* allocations (pool_allocator.inl 215-250), and all of it is given back.
THEOREM PoolIsBounded == Spec => []MemoryBounded
<1>1. Init => BInv
  <2>1. Cardinality(Objects) \in Nat
    BY FS_CardinalityType
  <2> QED
    BY <2>1 DEF Init, BInv, EmptyPool
<1>2. IInv /\ BInv /\ [Next]_vars => BInv'
  BY BlocksStepped
<1>3. BInv => MemoryBounded
  BY DEF BInv, MemoryBounded
<1> QED
  BY <1>1, <1>2, <1>3, PoolInductive, PTL DEF Spec

\* The free list is no longer than the memory it lies in.
LEMMA ListFits ==
    ASSUME NEW n \in Nat, NEW fs \in Seq(FirstSlots(n)), NoRepeats(fs)
    PROVE  /\ Cardinality(BlockMemory(n)) \in Nat
           /\ Len(fs) \in 0..Cardinality(BlockMemory(n))
<1>1. Len(fs) \in Nat /\ fs \in [1..Len(fs) -> FirstSlots(n)] /\ DOMAIN fs = 1..Len(fs)
  BY LenProperties
<1>2. FirstSlots(n) \subseteq BlockMemory(n)
  BY FirstSlotFacts
<1>3. fs \in Injection(1..Len(fs), BlockMemory(n))
  BY <1>1, <1>2 DEF NoRepeats, Injection, IsInjective
<1>4. IsFiniteSet(BlockMemory(n))
  <2>1. IsFiniteSet(1..n) /\ IsFiniteSet(0..(MinAlloc - 1))
    BY FS_Interval
  <2> QED
    BY <2>1, FS_Product DEF BlockMemory
<1>5. Cardinality(1..Len(fs)) <= Cardinality(BlockMemory(n))
  BY <1>3, <1>4, FS_Injection
<1>6. Cardinality(1..Len(fs)) = Len(fs)
  BY <1>1, IntervalSize
<1>7. Cardinality(BlockMemory(n)) \in Nat
  BY <1>4, FS_CardinalityType
<1> QED
  BY <1>1, <1>5, <1>6, <1>7

\* Nothing is lost or freed twice: followed link by link, the free list has just
\* those slots that were used and that no object owns (pool_allocator.inl 215-250).
THEOREM FreeListStaysExact == Spec => []FreeListExact
<1>1. ASSUME IInv PROVE FreeListExact
  <2> DEFINE n == Len(pool.block_next)
             next == [a \in Addresses |-> pool.mem[a].next]
             used == {a \in Addresses : pool.mem[a].kind # "zero"}
             free == pointer_vector(next, pool.m_free_slots, nullptr, Cardinality(Addresses))
  <2>1. PICK fs \in Seq(Pairs) : PoolInv(pool, Owned, fs)
    BY <1>1 DEF IInv
  <2>2. /\ n \in Nat /\ fs \in Seq(FirstSlots(n)) /\ Len(fs) \in Nat
        /\ DOMAIN fs = 1..Len(fs) /\ Owned \subseteq FirstSlots(n)
        /\ \A i \in 1..Len(fs) : /\ fs[i] \in FirstSlots(n) /\ fs[i] \in BlockMemory(n)
                                 /\ fs[i] \notin Owned
        /\ Elements(fs) \cap Owned = {}
    BY <2>1, FreeFacts
  <2>3. NoRepeats(fs)
    BY <2>1 DEF PoolInv, FreeChain
  <2>4. Addresses = BlockMemory(n) /\ DOMAIN pool.mem = BlockMemory(n)
    BY <2>1, <2>2, SMTT(30) DEF PoolInv, PoolTypes, Addresses, BlockSlots, BlockMemory
  <2>5. /\ nullptr \notin FirstSlots(n) /\ FirstSlots(n) \subseteq BlockMemory(n)
    BY <2>2, FirstSlotFacts
  <2>6. Cardinality(Addresses) \in Nat /\ Len(fs) \in 0..Cardinality(Addresses)
    BY <2>2, <2>3, <2>4, ListFits
  <2>7. Runs(fs, Len(fs), next, pool.m_free_slots, nullptr)
    <3>1. pool.m_free_slots = IF Len(fs) = 0 THEN nullptr ELSE fs[1]
      <4>1. pool.m_free_slots = IF fs = <<>> THEN nullptr ELSE fs[1]
        BY <2>1 DEF PoolInv, FreeChain
      <4>2. fs = <<>> <=> Len(fs) = 0
        BY <2>2
      <4> QED
        BY <4>1, <4>2
    <3>2. \A k \in 1..Len(fs) : fs[k] # nullptr
      BY <2>2, <2>5
    <3>3. ASSUME NEW k \in 1..Len(fs)
          PROVE  next[fs[k]] = IF k = Len(fs) THEN nullptr ELSE fs[k + 1]
      <4>1. next[fs[k]] = pool.mem[fs[k]].next
        BY <2>2, <2>4
      <4> QED
        BY <2>1, <4>1 DEF PoolInv, FreeChain
    <3> HIDE DEF next
    <3> QED
      BY <3>1, <3>2, <3>3 DEF Runs
  <2>8. fs = [k \in 1..Len(fs) |-> fs[k]]
    BY <2>2
  <2> HIDE DEF next
  <2>9. free = fs
    BY <2>6, <2>7, <2>8, WalkIsList
  <2>10. \A a \in BlockMemory(n) : pool.mem[a].kind # "zero" <=> a \in FirstSlots(n)
    <3> SUFFICES ASSUME NEW a \in BlockMemory(n)
                 PROVE  pool.mem[a].kind # "zero" <=> a \in FirstSlots(n)
      OBVIOUS
    <3>1. a \notin FirstSlots(n) => pool.mem[a].kind = "zero"
      BY <2>1, <2>4 DEF PoolInv, Partition
    <3>2. a \in Owned => pool.mem[a].kind = "element"
      BY <2>1 DEF PoolInv, Partition
    <3>3. a \in Elements(fs) => pool.mem[a].kind = "next"
      <4>1. \A i \in 1..Len(fs) : pool.mem[fs[i]].kind = "next"
        BY <2>1 DEF PoolInv, FreeChain
      <4> QED
        BY <2>2, <4>1 DEF Elements
    <3>4. a \in FirstSlots(n) => a \in Owned \/ a \in Elements(fs)
      BY <2>1 DEF PoolInv, Partition
    <3> QED
      BY <3>1, <3>2, <3>3, <3>4
  <2>11. used = FirstSlots(n)
    BY <2>4, <2>5, <2>10
  <2>12. Elements(fs) = FirstSlots(n) \ Owned
    <3>1. Elements(fs) \subseteq FirstSlots(n)
      BY <2>2 DEF Elements
    <3>2. \A a \in FirstSlots(n) : a \in Owned \/ a \in Elements(fs)
      BY <2>1 DEF PoolInv, Partition
    <3> QED
      BY <2>2, <3>1, <3>2
  <2> HIDE DEF used, free
  <2> QED
    BY <2>3, <2>9, <2>11, <2>12 DEF FreeListExact, used, free, next
<1> QED
  BY <1>1, PoolInductive, PTL
=============================================================================
