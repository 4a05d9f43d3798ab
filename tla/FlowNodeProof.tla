----------------------------- MODULE FlowNodeProof -----------------------------
(***************************************************************************)
(* Proofs about FlowNode, for every alphabet, block size and size of node: *)
(* the pool keeps its areas apart, and the binary search is right.         *)
(***************************************************************************)
EXTENDS FlowNode, TLAPS

-------------------------------------------------------------------------------
(* The pool.                                                               *)

(* A multiple leaves no remainder.                                         *)
LEMMA MultipleMod ==
  ASSUME NEW a \in Nat \ {0}, NEW k \in Nat
  PROVE  (k * a) % a = 0
<1> DEFINE q == (k * a) \div a
           r == (k * a) % a
<1>1. k * a \in Nat
  OBVIOUS
<1>2. q \in Nat /\ r \in 0..(a - 1) /\ k * a = a * q + r
  BY <1>1
<1>3. a * (k - q) = r
  BY <1>2
<1>4. CASE k - q >= 1
  <2>1. a * (k - q) >= a
    BY <1>2, <1>4
  <2> QED BY <2>1, <1>2, <1>3
<1>5. CASE k - q <= -1
  <2>1. a * (k - q) <= -a
    BY <1>2, <1>5
  <2> QED BY <2>1, <1>2, <1>3
<1>6. CASE k - q = 0
  BY <1>2, <1>3, <1>6
<1> QED
  BY <1>2, <1>4, <1>5, <1>6

(* Sums of multiples are multiples.                                        *)
LEMMA SumMod ==
  ASSUME NEW a \in Nat \ {0}, NEW x \in Nat, NEW y \in Nat, x % a = 0, y % a = 0
  PROVE  (x + y) % a = 0
<1>1. x = a * (x \div a) /\ y = a * (y \div a) /\ x \div a \in Nat /\ y \div a \in Nat
  OBVIOUS
<1> DEFINE k == (x \div a) + (y \div a)
<1>2. k \in Nat /\ x + y = k * a
  BY <1>1
<1>3. (k * a) % a = 0
  <2> HIDE DEF k
  <2> QED BY <1>2, MultipleMod
<1> QED
  BY <1>2, <1>3

(* Aligned(n) is a multiple of Align that n bytes fit in.                  *)
LEMMA AlignedFacts ==
  ASSUME NEW n \in Nat
  PROVE  Aligned(n) \in Nat /\ Aligned(n) >= n /\ Aligned(n) % Align = 0
<1> DEFINE m == n + Align - 1
           q == m \div Align
<1>1. Align \in Nat \ {0} /\ m \in Nat
  BY MpoolAssumption
<1>2. q \in Nat /\ m % Align \in 0..(Align - 1) /\ m = (Align * q) + (m % Align)
  BY <1>1
<1>3. Aligned(n) = q * Align
  BY DEF Aligned
<1>4. q * Align \in Nat /\ q * Align = Align * q
  BY <1>1, <1>2
<1>5. Aligned(n) >= n
  BY <1>1, <1>2, <1>3, <1>4
<1> QED
  BY <1>1, <1>2, <1>3, <1>4, <1>5, MultipleMod

(* The pool's invariant: areas lie in the used part of their block.        *)
PoolInv(p) ==
  /\ p.blocks \in Seq(Block) /\ p.areas \in Seq(Area)
  /\ Len(p.blocks) > 0
  /\ \A b \in 1..Len(p.blocks) :
       p.blocks[b].free <= p.blocks[b].size /\ p.blocks[b].free % Align = 0
  /\ \A i \in 1..Len(p.areas) :
       /\ p.areas[i].at % Align = 0
       /\ p.areas[i].block \in 1..Len(p.blocks)
       /\ p.areas[i].at + p.areas[i].len <= p.blocks[p.areas[i].block].free
  /\ \A i, j \in 1..Len(p.areas) :
       i # j /\ p.areas[i].block = p.areas[j].block
         => \/ p.areas[i].at + p.areas[i].len <= p.areas[j].at
            \/ p.areas[j].at + p.areas[j].len <= p.areas[i].at

(* The numbers in a pool are natural numbers.                              *)
LEMMA PoolNumbers ==
  ASSUME NEW p, p.blocks \in Seq(Block), p.areas \in Seq(Area)
  PROVE  /\ Len(p.blocks) \in Nat /\ DOMAIN p.blocks = 1..Len(p.blocks)
         /\ Len(p.areas) \in Nat /\ DOMAIN p.areas = 1..Len(p.areas)
         /\ \A b \in 1..Len(p.blocks) : p.blocks[b].size \in Nat /\ p.blocks[b].free \in Nat
         /\ \A i \in 1..Len(p.areas) :
              p.areas[i].block \in Nat /\ p.areas[i].at \in Nat /\ p.areas[i].len \in Nat
<1>1. \A b \in 1..Len(p.blocks) : p.blocks[b] \in Block
  OBVIOUS
<1>2. \A i \in 1..Len(p.areas) : p.areas[i] \in Area
  OBVIOUS
<1>3. \A x \in Block : x.size \in Nat /\ x.free \in Nat
  BY DEF Block
<1>4. \A x \in Area : x.block \in Nat /\ x.at \in Nat /\ x.len \in Nat
  BY DEF Area
<1> QED
  BY <1>1, <1>2, <1>3, <1>4

LEMMA PoolApart ==
  ASSUME NEW p, PoolInv(p)
  PROVE  Apart(p)
<1>1. /\ DOMAIN p.blocks = 1..Len(p.blocks) /\ DOMAIN p.areas = 1..Len(p.areas)
      /\ \A b \in 1..Len(p.blocks) : p.blocks[b].size \in Nat /\ p.blocks[b].free \in Nat
      /\ \A i \in 1..Len(p.areas) :
           p.areas[i].block \in Nat /\ p.areas[i].at \in Nat /\ p.areas[i].len \in Nat
  BY PoolNumbers DEF PoolInv
<1>2. \A i \in 1..Len(p.areas) :
        p.areas[i].at + p.areas[i].len <= p.blocks[p.areas[i].block].size
  <2> SUFFICES ASSUME NEW i \in 1..Len(p.areas)
      PROVE p.areas[i].at + p.areas[i].len <= p.blocks[p.areas[i].block].size
    OBVIOUS
  <2> DEFINE b == p.areas[i].block
  <2>1. b \in 1..Len(p.blocks) /\ p.areas[i].at + p.areas[i].len <= p.blocks[b].free
    BY DEF PoolInv
  <2>2. p.blocks[b].free <= p.blocks[b].size
    BY <2>1 DEF PoolInv
  <2>3. /\ p.areas[i].at + p.areas[i].len \in Nat
        /\ p.blocks[b].free \in Nat /\ p.blocks[b].size \in Nat
    BY <1>1, <2>1
  <2> QED BY <2>1, <2>2, <2>3
<1> QED
  BY <1>1, <1>2 DEF PoolInv, Apart

LEMMA NewPoolInv == PoolInv(NewPool)
<1>1. [size |-> BlockSize, free |-> 0] \in Block
  BY MpoolAssumption DEF Block
<1>2. 0 % Align = 0
  BY MpoolAssumption
<1>3. NewPool.blocks \in Seq(Block) /\ NewPool.areas \in Seq(Area)
  BY <1>1 DEF NewPool
<1> QED
  BY <1>2, <1>3, MpoolAssumption DEF PoolInv, NewPool

(* mpool_malloc keeps the invariant: the new area begins where the used    *)
(* part of its block ended.                                                *)
LEMMA MallocInv ==
  ASSUME NEW p, PoolInv(p), NEW n \in Nat
  PROVE  PoolInv(Malloc(p, n))
<1> DEFINE last == Len(p.blocks)
           head == p.blocks[last]
           size == Aligned(n)
           fits == size <= head.size - head.free
           new  == [block |-> IF fits THEN last ELSE last + 1,
                    at |-> IF fits THEN head.free ELSE 0, len |-> n]
           more == IF fits THEN [head EXCEPT !.free = @ + size]
                   ELSE [size |-> IF size > head.size THEN size ELSE head.size, free |-> size]
           q    == Malloc(p, n)
<1>1. /\ size \in Nat /\ size >= n /\ size % Align = 0
      /\ Align \in Nat \ {0} /\ 0 % Align = 0
  BY AlignedFacts, MpoolAssumption
<1>2. /\ p.blocks \in Seq(Block) /\ p.areas \in Seq(Area)
      /\ last \in 1..Len(p.blocks) /\ last \in Nat /\ Len(p.areas) \in Nat
      /\ head \in Block
      /\ head.free <= head.size /\ head.free % Align = 0
  BY DEF PoolInv
<1>3. head.size \in Nat /\ head.free \in Nat
  BY <1>2, PoolNumbers
<1>4. new.at \in Nat /\ new.at % Align = 0 /\ new.len = n /\ new \in Area
      /\ new.block = IF fits THEN last ELSE last + 1
  <2>1. new.at = IF fits THEN head.free ELSE 0
    OBVIOUS
  <2>2. new.at \in Nat /\ new.at % Align = 0
    BY <1>1, <1>2, <1>3, <2>1
  <2> QED BY <1>2, <2>2 DEF Area
<1>5. /\ more \in Block /\ more.free <= more.size /\ more.free % Align = 0
      /\ more.free = new.at + size
  <2>1. CASE fits
    <3>1. more.free = head.free + size /\ more.size = head.size /\ new.at = head.free
      BY <1>2, <2>1 DEF Block
    <3>2. (head.free + size) % Align = 0
      BY <1>1, <1>2, <1>3, SumMod
    <3>3. more \in Block
      <4>1. head = [size |-> head.size, free |-> head.free]
        BY <1>2 DEF Block
      <4>2. more = [size |-> head.size, free |-> head.free + size]
        BY <2>1, <4>1
      <4> QED BY <1>1, <1>3, <4>2 DEF Block
    <3> QED BY <1>1, <1>3, <2>1, <3>1, <3>2, <3>3
  <2>2. CASE ~fits
    <3>1. more.free = size /\ more.size = IF size > head.size THEN size ELSE head.size
      BY <2>2
    <3>2. more \in Block /\ new.at = 0
      BY <1>1, <1>3, <2>2 DEF Block
    <3> QED BY <1>1, <1>3, <3>1, <3>2
  <2> QED BY <2>1, <2>2
<1>6. /\ q.areas = Append(p.areas, new)
      /\ q.blocks = IF fits THEN [p.blocks EXCEPT ![last] = more]
                    ELSE Append(p.blocks, more)
  BY DEF Malloc
<1> SUFFICES PoolInv(q)
  OBVIOUS
<1> HIDE DEF q, new, more, size, head
<1>7. /\ q.areas \in Seq(Area) /\ Len(q.areas) = Len(p.areas) + 1
      /\ \A i \in 1..Len(p.areas) : q.areas[i] = p.areas[i]
      /\ q.areas[Len(p.areas) + 1] = new
  BY <1>2, <1>4, <1>6
<1>8. /\ q.blocks \in Seq(Block)
      /\ Len(q.blocks) = new.block
      /\ q.blocks[new.block] = more
      /\ \A b \in 1..last : b = new.block \/ q.blocks[b] = p.blocks[b]
      /\ new.block >= last /\ new.block \in Nat
  <2>1. CASE fits
    BY <1>2, <1>4, <1>5, <1>6, <2>1
  <2>2. CASE ~fits
    BY <1>2, <1>4, <1>5, <1>6, <2>2
  <2> QED BY <2>1, <2>2
<1>9. /\ \A b \in 1..last : p.blocks[b].size \in Nat /\ p.blocks[b].free \in Nat
      /\ \A i \in 1..Len(p.areas) :
           p.areas[i].block \in Nat /\ p.areas[i].at \in Nat /\ p.areas[i].len \in Nat
  BY <1>2, PoolNumbers
<1>10. \A i \in 1..Len(p.areas) :
         p.areas[i].block = new.block => p.areas[i].at + p.areas[i].len <= new.at
  <2>1. CASE fits
    BY <2>1, <1>4 DEF PoolInv, new, head
  <2>2. CASE ~fits
    BY <2>2, <1>2, <1>4 DEF PoolInv
  <2> QED BY <2>1, <2>2
<1>11. \A b \in 1..Len(q.blocks) :
         q.blocks[b].free <= q.blocks[b].size /\ q.blocks[b].free % Align = 0
  <2>1. \A b \in 1..Len(q.blocks) : b = new.block \/ (b \in 1..last /\ q.blocks[b] = p.blocks[b])
    BY <1>2, <1>4, <1>8
  <2> QED BY <2>1, <1>5, <1>8 DEF PoolInv
<1>12. \A i \in 1..Len(q.areas) :
         /\ q.areas[i].at % Align = 0
         /\ q.areas[i].block \in 1..Len(q.blocks)
         /\ q.areas[i].at + q.areas[i].len <= q.blocks[q.areas[i].block].free
  <2> SUFFICES ASSUME NEW i \in 1..Len(q.areas)
      PROVE /\ q.areas[i].at % Align = 0
            /\ q.areas[i].block \in 1..Len(q.blocks)
            /\ q.areas[i].at + q.areas[i].len <= q.blocks[q.areas[i].block].free
    OBVIOUS
  <2>1. CASE i \in 1..Len(p.areas)
    <3> DEFINE a == p.areas[i]
    <3>1. /\ q.areas[i] = a /\ a.at % Align = 0 /\ a.block \in 1..last
          /\ a.at + a.len <= p.blocks[a.block].free
          /\ a.at \in Nat /\ a.len \in Nat
      BY <2>1, <1>7, <1>9 DEF PoolInv
    <3>2. a.block \in 1..Len(q.blocks)
      BY <3>1, <1>2, <1>8
    <3>3. a.block = new.block => a.at + a.len <= new.at
      BY <2>1, <1>10
    <3> HIDE DEF a
    <3>4. a.at + a.len <= q.blocks[a.block].free
      <4>1. CASE a.block = new.block
        <5>1. q.blocks[a.block].free = new.at + size
          BY <4>1, <1>5, <1>8
        <5> QED BY <3>1, <3>3, <4>1, <5>1, <1>1, <1>4
      <4>2. CASE a.block # new.block
        BY <3>1, <4>2, <1>8
      <4> QED BY <4>1, <4>2
    <3> QED BY <3>1, <3>2, <3>4
  <2>2. CASE i = Len(p.areas) + 1
    <3>1. q.areas[i] = new /\ new.block \in 1..Len(q.blocks)
      BY <2>2, <1>2, <1>7, <1>8
    <3> QED BY <3>1, <1>1, <1>4, <1>5, <1>8
  <2> QED BY <2>1, <2>2, <1>2, <1>7
<1>13. \A i, j \in 1..Len(q.areas) :
         i # j /\ q.areas[i].block = q.areas[j].block
           => \/ q.areas[i].at + q.areas[i].len <= q.areas[j].at
              \/ q.areas[j].at + q.areas[j].len <= q.areas[i].at
  <2> SUFFICES ASSUME NEW i \in 1..Len(q.areas), NEW j \in 1..Len(q.areas), i # j,
                      q.areas[i].block = q.areas[j].block
      PROVE \/ q.areas[i].at + q.areas[i].len <= q.areas[j].at
            \/ q.areas[j].at + q.areas[j].len <= q.areas[i].at
    OBVIOUS
  <2>1. CASE i \in 1..Len(p.areas) /\ j \in 1..Len(p.areas)
    BY <2>1, <1>7 DEF PoolInv
  <2>2. CASE i = Len(p.areas) + 1 /\ j \in 1..Len(p.areas)
    BY <2>2, <1>7, <1>10
  <2>3. CASE j = Len(p.areas) + 1 /\ i \in 1..Len(p.areas)
    BY <2>3, <1>7, <1>10
  <2> QED BY <2>1, <2>2, <2>3, <1>2, <1>7
<1> QED
  BY <1>2, <1>7, <1>8, <1>11, <1>12, <1>13 DEF PoolInv

-------------------------------------------------------------------------------
(* The edges and their lookup.                                             *)

(* The inductive invariant: the edges are letters in a vector that holds   *)
(* them, in ascending order once the trie is finalized, and the variables  *)
(* of the search keep the letter between them.                             *)
Edges ==
  /\ outgoing \in Seq(Letter)
  /\ capacity \in Nat /\ Len(outgoing) <= capacity
  /\ pc \in {"add", "ready", "search"}
  /\ pc = "add" => alpha = NULL
  /\ pc # "add" => Ascending(outgoing)

Looking ==
  pc = "search" =>
    /\ alpha \in Letter
    /\ min \in Nat /\ max \in Int /\ max < Len(outgoing)
    /\ \A i \in 1..Len(outgoing) : outgoing[i] = alpha => min <= i - 1 /\ i - 1 <= max

Looked ==
  pc = "ready" /\ alpha # NULL =>
    IF next = NULL THEN \A i \in 1..Len(outgoing) : outgoing[i] # alpha
    ELSE next + 1 \in 1..Len(outgoing) /\ outgoing[next + 1] = alpha

IInv == PoolInv(pool) /\ Edges /\ Looking /\ Looked

LEMMA InitInv == Init => IInv
<1> SUFFICES ASSUME Init PROVE IInv
  OBVIOUS
<1>1. PoolInv(pool)
  BY NewPoolInv, MallocInv, NodeAssumption DEF Init
<1>2. Edges
  BY DEF Init, Edges
<1> QED
  BY <1>1, <1>2 DEF Init, IInv, Looking, Looked

(* A new edge comes last, and the vector has grown if it was full.         *)
LEMMA CreateNextInv ==
  ASSUME IInv, NEW a \in Letter, CreateNext(a)
  PROVE  IInv'
<1>1. PoolInv(pool')
  BY MallocInv, NodeAssumption DEF IInv, CreateNext
<1>2. GrowFactor \in Nat \ {0}
  BY NodeAssumption DEF GrowFactor
<1>3. outgoing' \in Seq(Letter) /\ Len(outgoing') = Len(outgoing) + 1
  BY DEF IInv, Edges, CreateNext
<1>4. capacity' \in Nat /\ Len(outgoing') <= capacity'
  BY <1>2, <1>3 DEF IInv, Edges, CreateNext
<1>5. pc = "add" /\ pc' = "add" /\ alpha' = alpha
  BY DEF CreateNext, lookup
<1> QED
  BY <1>1, <1>3, <1>4, <1>5 DEF IInv, Edges, Looking, Looked

LEMMA TakeElseInv ==
  ASSUME IInv, TakeElse
  PROVE  IInv'
<1>1. PoolInv(pool')
  <2>1. CASE pool' = Malloc(pool, NodeSize)
    BY <2>1, MallocInv, NodeAssumption DEF IInv
  <2>2. ASSUME NEW n \in TextLens, pool' = Strndup(pool, n) PROVE PoolInv(pool')
    BY <2>2, MallocInv, NodeAssumption DEF IInv, Strndup
  <2> QED BY <2>1, <2>2 DEF TakeElse
<1> QED
  BY <1>1 DEF TakeElse, edges, lookup, IInv, Edges, Looking, Looked

LEMMA SortEdgesInv ==
  ASSUME IInv, SortEdges
  PROVE  IInv'
<1>1. outgoing \in Seq(Letter) /\ Len(outgoing) \in Nat /\ DOMAIN outgoing = 1..Len(outgoing)
  BY DEF IInv, Edges
<1>2. PICK s \in [DOMAIN outgoing -> Range(outgoing)] : Ascending(s) /\ outgoing' = s
  BY DEF SortEdges
<1>3. Range(outgoing) \subseteq Letter
  BY <1>1 DEF Range
<1>4. s \in Seq(Letter) /\ Len(s) = Len(outgoing)
  <2>1. s \in [1..Len(outgoing) -> Letter]
    BY <1>1, <1>2, <1>3
  <2> QED BY <1>1, <2>1
<1> QED
  BY <1>2, <1>4 DEF SortEdges, lookup, IInv, Edges, Looking, Looked

LEMMA FindBeginInv ==
  ASSUME IInv, NEW a \in Letter, FindBegin(a)
  PROVE  IInv'
<1>1. outgoing' = outgoing /\ Len(outgoing) \in Nat
  BY DEF IInv, Edges, FindBegin, edges
<1>2. Looking'
  BY <1>1 DEF Looking, FindBegin
<1> QED
  BY <1>1, <1>2 DEF FindBegin, edges, IInv, Edges, Looked

(* The middle of two numbers lies between them.                            *)
LEMMA Middle ==
  ASSUME NEW a \in Nat, NEW b \in Int, a <= b
  PROVE  LET m == (a + b) \div 2 IN
         m \in Int /\ a <= m /\ m <= b /\ 2 * m <= a + b /\ a + b <= 2 * m + 1
<1> DEFINE m == (a + b) \div 2
<1>1. a + b \in Nat /\ b \in Nat
  OBVIOUS
<1>2. m \in Nat /\ (a + b) % 2 \in 0..1 /\ a + b = 2 * m + ((a + b) % 2)
  BY <1>1
<1> QED
  BY <1>2

(* The middle divides the range: in an ascending vector the letter can     *)
(* only be on the side where the search goes on.                           *)
LEMMA FindStepInv ==
  ASSUME IInv, FindStep
  PROVE  IInv'
<1> DEFINE mid == (min + max) \div 2
<1>1. /\ outgoing \in Seq(Letter) /\ Len(outgoing) \in Nat
      /\ Ascending(outgoing) /\ pc = "search"
      /\ alpha \in Letter /\ min \in Nat /\ max \in Int /\ max < Len(outgoing) /\ min <= max
      /\ Letter \subseteq Int /\ alpha # NULL
  <2>1. pc = "search" /\ min <= max
    BY DEF FindStep
  <2>2. outgoing \in Seq(Letter) /\ Len(outgoing) \in Nat /\ Ascending(outgoing)
    BY <2>1 DEF IInv, Edges
  <2>3. alpha \in Letter /\ min \in Nat /\ max \in Int /\ max < Len(outgoing)
    BY <2>1 DEF IInv, Looking
  <2> QED BY <2>1, <2>2, <2>3, NodeAssumption
<1>2. mid \in Nat /\ min <= mid /\ mid <= max /\ mid + 1 \in 1..Len(outgoing)
  <2>1. min \in Nat /\ max \in Int /\ min <= max /\ max < Len(outgoing) /\ Len(outgoing) \in Nat
    BY <1>1
  <2>2. mid \in Int /\ min <= mid /\ mid <= max
    BY <2>1, Middle
  <2> HIDE DEF mid
  <2> QED BY <2>1, <2>2
<1>3. \A i \in 1..Len(outgoing) : outgoing[i] \in Int
  <2>1. \A i \in 1..Len(outgoing) : outgoing[i] \in Letter
    BY <1>1
  <2> QED BY <2>1, NodeAssumption
<1>4. \A i, j \in 1..Len(outgoing) : i < j => outgoing[i] < outgoing[j]
  BY <1>1 DEF Ascending
<1>5. UNCHANGED <<pool, outgoing, capacity, alpha>>
  BY DEF FindStep, edges
<1>6. CASE alpha > outgoing[mid + 1] /\ min' = mid + 1 /\ UNCHANGED <<pc, max, next>>
  <2>1. \A i \in 1..Len(outgoing) : outgoing[i] = alpha => mid + 1 <= i - 1
    <3>1. \A i \in 1..Len(outgoing) : i <= mid + 1 => outgoing[i] <= outgoing[mid + 1]
      BY <1>2, <1>3, <1>4
    <3> HIDE DEF mid
    <3> QED BY <3>1, <1>1, <1>2, <1>3, <1>6
  <2>2. Looking'
    BY <2>1, <1>1, <1>2, <1>5, <1>6 DEF IInv, Looking
  <2> QED BY <2>2, <1>1, <1>5, <1>6 DEF IInv, Edges, Looked
<1>7. CASE alpha < outgoing[mid + 1] /\ max' = mid - 1 /\ UNCHANGED <<pc, min, next>>
  <2>1. \A i \in 1..Len(outgoing) : outgoing[i] = alpha => i - 1 <= mid - 1
    <3>1. \A i \in 1..Len(outgoing) : mid + 1 <= i => outgoing[mid + 1] <= outgoing[i]
      BY <1>2, <1>3, <1>4
    <3> HIDE DEF mid
    <3> QED BY <3>1, <1>1, <1>2, <1>3, <1>7
  <2>2. Looking'
    BY <2>1, <1>1, <1>2, <1>5, <1>7 DEF IInv, Looking
  <2> QED BY <2>2, <1>1, <1>5, <1>7 DEF IInv, Edges, Looked
<1>8. CASE alpha = outgoing[mid + 1] /\ next' = mid /\ pc' = "ready"
  <2>1. next' # NULL
    BY <1>2, <1>8, NodeAssumption
  <2> QED BY <2>1, <1>1, <1>2, <1>5, <1>8 DEF IInv, Edges, Looking, Looked
<1> QED
  BY <1>6, <1>7, <1>8 DEF FindStep

LEMMA FindEndInv ==
  ASSUME IInv, FindEnd
  PROVE  IInv'
<1>1. \A i \in 1..Len(outgoing) : outgoing[i] # alpha
  BY DEF IInv, Looking, FindEnd, Edges
<1> QED
  BY <1>1 DEF FindEnd, edges, IInv, Edges, Looking, Looked

LEMMA NextInv == IInv /\ [Next]_vars => IInv'
<1>1. ASSUME IInv, UNCHANGED vars PROVE IInv'
  BY <1>1 DEF vars, edges, lookup, IInv, Edges, Looking, Looked
<1>2. ASSUME IInv, Next PROVE IInv'
  BY <1>2, CreateNextInv, TakeElseInv, SortEdgesInv, FindBeginInv, FindStepInv, FindEndInv
     DEF Next
<1> QED
  BY <1>1, <1>2

LEMMA Inductive == Spec => []IInv
  BY InitInv, NextInv, PTL DEF Spec

(* For every size of blocks and nodes the areas of the pool are apart, and *)
(* no edge is written behind its vector.                                   *)
THEOREM PoolSafe == Spec => []AreasApart
<1>1. IInv => AreasApart
  BY PoolApart DEF IInv, Edges, AreasApart
<1> QED
  BY <1>1, Inductive, PTL

(* For every alphabet and any number of edges the binary search finds what *)
(* a search one by one would find.                                         *)
THEOREM LookupSafe == Spec => []LookupRight
<1>1. ASSUME IInv PROVE LookupRight
  <2>1. Len(outgoing) \in Nat /\ DOMAIN outgoing = 1..Len(outgoing)
    BY <1>1 DEF IInv, Edges
  <2> QED BY <1>1, <2>1 DEF IInv, Looking, Looked, LookupRight, FindNext
<1> QED
  BY <1>1, Inductive, PTL

(* Every turn that goes on leaves at most half of the range.               *)
RangeHalves ==
  [][pc = "search" /\ pc' = "search" =>
       max' - min' + 1 >= 0 /\ 2 * (max' - min' + 1) <= max - min + 1]_vars

(* For any number of edges the loop of node_find_next_bs halves its range  *)
(* with every turn, so that it ends after as many turns as the binary      *)
(* logarithm of the number of edges, and one more.                         *)
THEOREM LookupBounded == Spec => RangeHalves
<1>1. ASSUME IInv, Next, pc = "search", pc' = "search"
      PROVE  max' - min' + 1 >= 0 /\ 2 * (max' - min' + 1) <= max - min + 1
  <2> DEFINE mid == (min + max) \div 2
  <2>1. FindStep
    BY <1>1 DEF Next, CreateNext, TakeElse, SortEdges, FindBegin, FindEnd
  <2>2. min \in Nat /\ max \in Int /\ min <= max
    BY <1>1, <2>1 DEF IInv, Looking, FindStep
  <2>3. mid \in Int /\ min <= mid /\ mid <= max /\ 2 * mid <= min + max /\ min + max <= 2 * mid + 1
    BY <2>2, Middle
  <2>4. \/ min' = mid + 1 /\ max' = max
        \/ max' = mid - 1 /\ min' = min
    BY <1>1, <2>1 DEF FindStep
  <2> HIDE DEF mid
  <2> QED BY <2>2, <2>3, <2>4
<1>2. IInv /\ [Next]_vars
        => [pc = "search" /\ pc' = "search" =>
              max' - min' + 1 >= 0 /\ 2 * (max' - min' + 1) <= max - min + 1]_vars
  BY <1>1
<1> QED BY <1>2, Inductive, PTL DEF Spec, RangeHalves
===============================================================================
