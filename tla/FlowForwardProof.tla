--------------------------- MODULE FlowForwardProof ---------------------------
(***************************************************************************)
(* Proofs about FlowForward and FlowForwardOrder, for every number of      *)
(* mbufs, lcores, ports and queues.  The first lemmas say what one Move    *)
(* does to the places; the invariants then need one step per action.       *)
(*                                                                         *)
(* The second half proves that forwarding keeps the order of frames: a     *)
(* Move keeps it if what it overtakes came in on another RX queue or takes *)
(* another path, and the rest says why that is so for each Move.           *)
(***************************************************************************)
EXTENDS FlowForwardOrder, SequenceTheorems, FiniteSetTheorems, TLAPS

-------------------------------------------------------------------------------
(* The places.                                                             *)

(* A place is what it was built from, and different kinds are different:   *)
(* no Move of the specification has its source as its target.              *)
LEMMA PlaceFacts ==
  /\ Pool \in Place /\ Ring \in Place /\ Def \in Place
  /\ \A c \in Lcore : Cpu(c) \in Place
  /\ \A p \in RxPort, c \in Lcore : Rx(p, Queue(c)) \in Place
  /\ \A p \in Port, q \in TxQueue : Tx(p, q) \in Place
  /\ \A c \in Lcore : Cpu(c) \notin {Pool, Ring, Def}
  /\ \A c, d \in Lcore : Cpu(c) = Cpu(d) => c = d
  /\ \A p, q, c : Cpu(c) # Rx(p, q) /\ Cpu(c) # Tx(p, q)
  /\ \A p, q : Rx(p, q) \notin {Pool, Ring, Def} /\ Tx(p, q) \notin {Pool, Ring, Def}
  /\ \A p, q, r, s : Rx(p, q) # Tx(r, s)
  /\ \A p, q, r, s : Tx(p, q) = Tx(r, s) => p = r /\ q = s
  /\ Pool # Ring /\ Pool # Def /\ Ring # Def
  BY DEF Place, Pool, Ring, Def, Cpu, Rx, Tx

(* The ports and queues the threads use are ports and queues.              *)
LEMMA PortFacts ==
  /\ RxPorts[1] \in RxPort
  /\ DefaultPort \in Port
  /\ \A q \in DefQueue : q \in TxQueue
  /\ \A c \in Lcore : Queue(c) \in TxQueue
  /\ \A c, d \in Lcore : Queue(c) = Queue(d) => c = d
<1>1. 1 \in DOMAIN RxPorts
  BY ForwardAssumption, EmptySeq, LenProperties
<1>2. \A c, d \in Lcore : Queue(c) = Queue(d) => c = d
  BY ForwardAssumption DEF Queue
<1> QED
  BY <1>1, <1>2, ForwardAssumption DEF RxPort, TxQueue

(* What Move(n, a, b) leaves in each place.                                *)
LEMMA MoveEffect ==
  ASSUME NEW a \in Place, NEW b \in Place, a # b,
         at \in [Place -> Seq(Mbuf)],
         NEW n \in 0..Len(at[a]),
         Move(n, a, b)
  PROVE  /\ at' \in [Place -> Seq(Mbuf)]
         /\ Len(at'[a]) = Len(at[a]) - n
         /\ Len(at'[b]) = Len(at[b]) + n
         /\ \A i \in 1..(Len(at[a]) - n) : at'[a][i] = at[a][i + n]
         /\ \A i \in 1..Len(at[b]) : at'[b][i] = at[b][i]
         /\ \A i \in (Len(at[b]) + 1)..(Len(at[b]) + n) :
               at'[b][i] = at[a][i - Len(at[b])]
         /\ \A x \in Place \ {a, b} : at'[x] = at[x]
<1> DEFINE kept == SubSeq(at[a], n + 1, Len(at[a]))
           sent == SubSeq(at[a], 1, n)
<1>1. /\ at[a] \in Seq(Mbuf) /\ at[b] \in Seq(Mbuf)
      /\ Len(at[a]) \in Nat /\ Len(at[b]) \in Nat
  BY LenProperties
<1>2. \A i \in 1..Len(at[a]) : at[a][i] \in Mbuf
  BY <1>1, ElementOfSeq
<1>3. /\ kept \in Seq(Mbuf)
      /\ Len(kept) = Len(at[a]) - n
      /\ \A i \in 1..(Len(at[a]) - n) : kept[i] = at[a][i + n]
  <2>1. \A i \in (n + 1)..Len(at[a]) : at[a][i] \in Mbuf
    BY <1>1, <1>2
  <2>2. /\ kept \in Seq(Mbuf)
        /\ Len(kept) = IF n + 1 <= Len(at[a]) THEN Len(at[a]) - (n + 1) + 1 ELSE 0
        /\ \A i \in 1..(Len(at[a]) - (n + 1) + 1) : kept[i] = at[a][n + 1 + i - 1]
    BY <1>1, <2>1, SubSeqProperties
  <2> QED
    BY <1>1, <2>2
<1>4. /\ sent \in Seq(Mbuf)
      /\ Len(sent) = n
      /\ \A i \in 1..n : sent[i] = at[a][i]
  <2>1. \A i \in 1..n : at[a][i] \in Mbuf
    BY <1>1, <1>2
  <2>2. /\ sent \in Seq(Mbuf)
        /\ Len(sent) = IF 1 <= n THEN n - 1 + 1 ELSE 0
        /\ \A i \in 1..(n - 1 + 1) : sent[i] = at[a][1 + i - 1]
    BY <1>1, <2>1, SubSeqProperties
  <2> QED
    BY <1>1, <2>2
<1>5. /\ at[b] \o sent \in Seq(Mbuf)
      /\ Len(at[b] \o sent) = Len(at[b]) + n
      /\ \A i \in 1..(Len(at[b]) + n) :
           (at[b] \o sent)[i] = IF i <= Len(at[b]) THEN at[b][i]
                                ELSE sent[i - Len(at[b])]
  BY <1>1, <1>4, ConcatProperties
<1>6. at' = [at EXCEPT ![a] = kept, ![b] = at[b] \o sent]
  BY DEF Move
<1>7. at'[a] = kept /\ at'[b] = at[b] \o sent
  BY <1>6
<1>8. at' \in [Place -> Seq(Mbuf)] /\ \A x \in Place \ {a, b} : at'[x] = at[x]
  BY <1>3, <1>5, <1>6
<1>9. \A i \in (Len(at[b]) + 1)..(Len(at[b]) + n) :
         at'[b][i] = at[a][i - Len(at[b])]
  <2> TAKE i \in (Len(at[b]) + 1)..(Len(at[b]) + n)
  <2>1. i - Len(at[b]) \in 1..n /\ i \in 1..(Len(at[b]) + n) /\ ~(i <= Len(at[b]))
    BY <1>1
  <2> QED
    BY <1>4, <1>5, <1>7, <2>1
<1>10. \A i \in 1..Len(at[b]) : at'[b][i] = at[b][i]
  BY <1>1, <1>5, <1>7
<1> HIDE DEF kept, sent
<1> QED
  BY <1>1, <1>3, <1>5, <1>7, <1>8, <1>9, <1>10

(* A move of buffers neither loses nor duplicates one.                     *)
LEMMA MoveOwned ==
  ASSUME NEW a \in Place, NEW b \in Place, a # b,
         at \in [Place -> Seq(Mbuf)],
         NEW n \in 0..Len(at[a]),
         Move(n, a, b),
         MbufOwned
  PROVE  MbufOwned'
<1> DEFINE late(x, i) == x = b /\ i > Len(at[b])
           From(x, i) == IF x = a \/ late(x, i) THEN a ELSE x
           Idx(x, i) == IF x = a THEN i + n
                        ELSE IF late(x, i) THEN i - Len(at[b]) ELSE i
<1>1. /\ \A x \in Place : at[x] \in Seq(Mbuf) /\ Len(at[x]) \in Nat
      /\ \A x \in Place : DOMAIN at[x] = 1..Len(at[x])
  BY LenProperties
<1>2. /\ at' \in [Place -> Seq(Mbuf)]
      /\ Len(at'[a]) = Len(at[a]) - n
      /\ Len(at'[b]) = Len(at[b]) + n
      /\ \A i \in 1..(Len(at[a]) - n) : at'[a][i] = at[a][i + n]
      /\ \A i \in 1..Len(at[b]) : at'[b][i] = at[b][i]
      /\ \A i \in (Len(at[b]) + 1)..(Len(at[b]) + n) :
            at'[b][i] = at[a][i - Len(at[b])]
      /\ \A x \in Place \ {a, b} : at'[x] = at[x]
  BY MoveEffect
<1>3. \A x \in Place : DOMAIN at'[x] = 1..Len(at'[x]) /\ Len(at'[x]) \in Nat
  BY <1>2, LenProperties
<1>4. \A x \in Place : \A i \in DOMAIN at'[x] :
         /\ From(x, i) \in Place
         /\ Idx(x, i) \in DOMAIN at[From(x, i)]
         /\ at'[x][i] = at[From(x, i)][Idx(x, i)]
  <2> TAKE x \in Place
  <2> TAKE i \in DOMAIN at'[x]
  <2>1. CASE x = a
    BY <1>1, <1>2, <1>3, <2>1
  <2>2. CASE x = b
    <3>1. i \in 1..(Len(at[b]) + n) /\ Len(at[b]) \in Nat
      BY <1>1, <1>2, <1>3, <2>2
    <3>2. CASE i > Len(at[b])
      <4>1. From(x, i) = a /\ Idx(x, i) = i - Len(at[b])
        BY <2>2, <3>2
      <4>2. /\ i \in (Len(at[b]) + 1)..(Len(at[b]) + n)
            /\ i - Len(at[b]) \in 1..Len(at[a])
        BY <1>1, <3>1, <3>2
      <4>3. at'[b][i] = at[a][i - Len(at[b])]
        BY <1>2, <4>2
      <4> QED
        BY <1>1, <2>2, <4>1, <4>2, <4>3
    <3>3. CASE ~(i > Len(at[b]))
      <4>1. From(x, i) = b /\ Idx(x, i) = i
        BY <2>2, <3>3
      <4>2. i \in 1..Len(at[b])
        BY <3>1, <3>3
      <4>3. at'[b][i] = at[b][i]
        BY <1>2, <4>2
      <4> QED
        BY <1>1, <2>2, <4>1, <4>2, <4>3
    <3> QED
      BY <3>2, <3>3
  <2>3. CASE x \notin {a, b}
    BY <1>1, <1>2, <1>3, <2>3
  <2> QED
    BY <2>1, <2>2, <2>3
<1>5. \A x, y \in Place : \A i \in DOMAIN at'[x], j \in DOMAIN at'[y] :
         From(x, i) = From(y, j) /\ Idx(x, i) = Idx(y, j) => x = y /\ i = j
  <2> TAKE x, y \in Place
  <2> TAKE i \in DOMAIN at'[x], j \in DOMAIN at'[y]
  <2> HAVE From(x, i) = From(y, j) /\ Idx(x, i) = Idx(y, j)
  <2>1. i \in Nat /\ j \in Nat /\ n \in Nat /\ Len(at[b]) \in Nat
    BY <1>1, <1>3
  <2>2. x = b /\ i > Len(at[b]) => i - Len(at[b]) <= n
    BY <1>1, <1>2, <1>3
  <2>3. y = b /\ j > Len(at[b]) => j - Len(at[b]) <= n
    BY <1>1, <1>2, <1>3
  <2>4. i >= 1 /\ j >= 1
    BY <1>3
  <2>5. CASE x = a
    BY <2>1, <2>3, <2>4, <2>5
  <2>6. CASE y = a
    BY <2>1, <2>2, <2>4, <2>6
  <2>7. CASE x # a /\ y # a
    BY <2>1, <2>4, <2>7
  <2> QED
    BY <2>5, <2>6, <2>7
<1>6. MbufUnique'
  <2> SUFFICES ASSUME NEW x \in Place, NEW y \in Place,
                      NEW i \in DOMAIN at'[x], NEW j \in DOMAIN at'[y],
                      at'[x][i] = at'[y][j]
               PROVE  x = y /\ i = j
    BY DEF MbufUnique
  <2>1. /\ From(x, i) \in Place /\ From(y, j) \in Place
        /\ Idx(x, i) \in DOMAIN at[From(x, i)]
        /\ Idx(y, j) \in DOMAIN at[From(y, j)]
        /\ at[From(x, i)][Idx(x, i)] = at[From(y, j)][Idx(y, j)]
    BY <1>4
  <2> HIDE DEF From, Idx
  <2>2. From(x, i) = From(y, j) /\ Idx(x, i) = Idx(y, j)
    BY <2>1 DEF MbufOwned, MbufUnique
  <2> QED
    BY <1>5, <2>2
<1>7. MbufComplete'
  <2> SUFFICES ASSUME NEW m \in Mbuf
               PROVE  \E x \in Place : \E i \in DOMAIN at'[x] : at'[x][i] = m
    BY DEF MbufComplete, Holds
  <2>0. PICK x \in Place : \E i \in DOMAIN at[x] : at[x][i] = m
    BY DEF MbufOwned, MbufComplete, Holds
  <2>1. PICK i \in DOMAIN at[x] : at[x][i] = m
    BY <2>0
  <2>2. i \in 1..Len(at[x]) /\ Len(at[a]) \in Nat /\ Len(at[b]) \in Nat
    BY <1>1
  <2>3. CASE x = a /\ i <= n
    <3>1. /\ i + Len(at[b]) \in (Len(at[b]) + 1)..(Len(at[b]) + n)
          /\ i + Len(at[b]) \in DOMAIN at'[b]
          /\ (i + Len(at[b])) - Len(at[b]) = i
      BY <1>2, <1>3, <2>2, <2>3
    <3>2. at'[b][i + Len(at[b])] = m
      BY <1>2, <2>1, <2>3, <3>1
    <3> QED
      BY <3>1, <3>2
  <2>4. CASE x = a /\ i > n
    <3>1. i - n \in 1..(Len(at[a]) - n) /\ i - n \in DOMAIN at'[a] /\ (i - n) + n = i
      BY <1>2, <1>3, <2>2, <2>4
    <3>2. at'[a][i - n] = m
      BY <1>2, <2>1, <2>4, <3>1
    <3> QED
      BY <3>1, <3>2
  <2>5. CASE x = b
    <3>1. i \in DOMAIN at'[b] /\ at'[b][i] = m
      BY <1>2, <1>3, <2>1, <2>2, <2>5
    <3> QED
      BY <3>1
  <2>6. CASE x \notin {a, b}
    BY <1>2, <2>1, <2>6
  <2> QED
    BY <2>2, <2>3, <2>4, <2>5, <2>6
<1> QED
  BY <1>6, <1>7 DEF MbufOwned

-------------------------------------------------------------------------------
(* Type correctness, with the link between program counters and buffers.   *)

(* A place is empty or has a first element.                                *)
LEMMA HeadFacts ==
  ASSUME at \in [Place -> Seq(Mbuf)], NEW a \in Place
  PROVE  /\ Len(at[a]) \in Nat
         /\ at[a] = << >> <=> Len(at[a]) = 0
         /\ at[a] # << >> => /\ 1 \in DOMAIN at[a]
                             /\ 1 \in 0..Len(at[a])
                             /\ Head(at[a]) = at[a][1]
                             /\ Head(at[a]) \in Mbuf
<1>1. at[a] \in Seq(Mbuf)
  OBVIOUS
<1>2. Len(at[a]) \in Nat /\ DOMAIN at[a] = 1..Len(at[a])
  BY <1>1, LenProperties
<1>3. at[a] = << >> <=> Len(at[a]) = 0
  BY <1>1, EmptySeq
<1> QED
  BY <1>1, <1>2, <1>3, HeadTailProperties

(* An lcore inside rte_eth_tx_burst has a route for the packet.            *)
Sending ==
  \A c \in Lcore : pc[c] = "tx" => ~ToDefault(pkt[Head(at[Cpu(c)])])

(* TypeOK alone is not inductive: a move of one buffer is well-typed only  *)
(* because a thread at "fwd" or "tx" holds one, the TX queue an lcore uses *)
(* exists only because its packet has a route, and that route stays put    *)
(* only because the buffer is in no other place.                           *)
Core == TypeOK /\ BurstHeld /\ MbufOwned /\ Sending

LEMMA CoreInit == Init => Core
<1> SUFFICES ASSUME Init PROVE Core
  OBVIOUS
<1>1. PICK s \in PoolOrder : at = [a \in Place |-> IF a = Pool THEN s ELSE << >>]
  BY DEF Init
<1>2. s \in Seq(Mbuf)
  <2>1. IsFiniteSet(Mbuf) => Cardinality(Mbuf) \in Nat
    BY FS_CardinalityType
  <2>2. s \in [1..Cardinality(Mbuf) -> Mbuf]
    BY DEF PoolOrder
  <2> QED
    BY <2>1, <2>2, SeqDef, ForwardAssumption
<1>3. /\ at \in [Place -> Seq(Mbuf)]
      /\ \A c \in Lcore : at[Cpu(c)] = << >>
      /\ at[Def] = << >>
  BY <1>1, <1>2, EmptySeq, PlaceFacts
<1>4. Len(RxPorts) \in Nat \ {0}
  BY ForwardAssumption, EmptySeq
<1>5. /\ pc = [c \in Lcore |-> "test"] /\ iter = [c \in Lcore |-> 1]
      /\ dpc = "test" /\ dqueue \in DefQueue /\ runflag = FALSE
      /\ \E f \in Packet : pkt = [m \in Mbuf |-> f]
  BY DEF Init
<1>6. TypeOK
  <2>1. pkt \in [Mbuf -> Packet]
    BY <1>5
  <2>2. pc \in [Lcore -> {"test", "rx", "fwd", "tx", "exit"}]
    BY <1>5
  <2>3. iter \in [Lcore -> 1..Len(RxPorts)]
    BY <1>4, <1>5
  <2> QED
    BY <1>3, <1>5, <2>1, <2>2, <2>3 DEF TypeOK
<1>7. BurstHeld
  <2>1. Len(<< >>) = 0 /\ BurstSize \in Nat
    BY EmptySeq, ForwardAssumption
  <2> QED
    BY <1>3, <1>5, <2>1 DEF BurstHeld
<1>8. MbufOwned
  <2>1. at[Pool] = s /\ \A a \in Place : a # Pool => at[a] = << >>
    BY <1>1, PlaceFacts
  <2>2. \A a \in Place : at[a] = << >> => DOMAIN at[a] = {}
    OBVIOUS
  <2>3. /\ \A m \in Mbuf : \E i \in DOMAIN s : s[i] = m
        /\ \A i, j \in DOMAIN s : s[i] = s[j] => i = j
    BY DEF PoolOrder
  <2> QED
    BY <2>1, <2>2, <2>3, PlaceFacts
    DEF MbufOwned, MbufUnique, MbufComplete, Holds
<1>9. Sending
  BY <1>5 DEF Sending
<1> QED
  BY <1>6, <1>7, <1>8, <1>9 DEF Core

(* An lcore that ends a packet: its burst shrinks by the buffer it moved.  *)
LEMMA PacketDone ==
  ASSUME Core, NEW c \in Lcore, pc[c] \in {"fwd", "tx"},
         NEW b \in Place, b # Def, \A d \in Lcore : b # Cpu(d),
         Move(1, Cpu(c), b), AfterPacket(c),
         UNCHANGED <<pkt, dpc, dqueue, runflag>>
  PROVE  Core'
<1>1. /\ at \in [Place -> Seq(Mbuf)] /\ Cpu(c) \in Place /\ Cpu(c) # b
      /\ at[Cpu(c)] # << >>
  BY PlaceFacts DEF Core, TypeOK, BurstHeld
<1>2. 1 \in 0..Len(at[Cpu(c)]) /\ Len(at[Cpu(c)]) \in Nat
  BY <1>1, HeadFacts
<1>3. /\ at' \in [Place -> Seq(Mbuf)]
      /\ Len(at'[Cpu(c)]) = Len(at[Cpu(c)]) - 1
      /\ \A x \in Place \ {Cpu(c), b} : at'[x] = at[x]
  BY <1>1, <1>2, MoveEffect
<1>4. at'[Cpu(c)] = << >> <=> Len(at[Cpu(c)]) = 1
  <2>1. at'[Cpu(c)] \in Seq(Mbuf)
    BY <1>1, <1>3
  <2>2. at'[Cpu(c)] = << >> <=> Len(at'[Cpu(c)]) = 0
    BY <2>1, EmptySeq
  <2> QED
    BY <1>2, <1>3, <2>2
<1>5. /\ pc' \in [Lcore -> {"test", "rx", "fwd", "tx", "exit"}]
      /\ iter' \in [Lcore -> 1..Len(RxPorts)]
      /\ \A d \in Lcore \ {c} : pc'[d] = pc[d]
      /\ pc'[c] = "fwd" <=> Len(at[Cpu(c)]) > 1
      /\ pc'[c] \in {"fwd", "rx", "test"}
  <2>1. Len(RxPorts) \in Nat
    BY ForwardAssumption, LenProperties
  <2>2. /\ pc \in [Lcore -> {"test", "rx", "fwd", "tx", "exit"}]
        /\ iter \in [Lcore -> 1..Len(RxPorts)]
    BY DEF Core, TypeOK
  <2> QED
    BY <2>1, <2>2 DEF AfterPacket, NextIteration, Goto
<1>6. TypeOK'
  BY <1>3, <1>5 DEF Core, TypeOK
<1>7. BurstHeld'
  <2>1. ASSUME NEW d \in Lcore
        PROVE  /\ pc'[d] \in {"fwd", "tx"} <=> at'[Cpu(d)] # << >>
               /\ Len(at'[Cpu(d)]) <= BurstSize
    <3>1. CASE d = c
      <4>1. Len(at[Cpu(c)]) <= BurstSize /\ BurstSize \in Nat
        BY ForwardAssumption DEF Core, BurstHeld
      <4>2. Len(at[Cpu(c)]) # 0
        BY <1>1, HeadFacts
      <4> QED
        BY <1>2, <1>3, <1>4, <1>5, <3>1, <4>1, <4>2
    <3>2. CASE d # c
      <4>1. at'[Cpu(d)] = at[Cpu(d)] /\ pc'[d] = pc[d]
        BY <1>3, <1>5, <3>2, PlaceFacts
      <4> QED
        BY <4>1 DEF Core, BurstHeld
    <3> QED
      BY <3>1, <3>2
  <2>2. at'[Def] = at[Def] /\ dpc' = dpc
    BY <1>3, PlaceFacts
  <2> QED
    BY <2>1, <2>2 DEF Core, BurstHeld
<1>8. MbufOwned'
  BY <1>1, <1>2, MoveOwned DEF Core
<1>9. Sending'
  <2> SUFFICES ASSUME NEW d \in Lcore, pc'[d] = "tx"
               PROVE  ~ToDefault(pkt'[Head(at'[Cpu(d)])])
    BY DEF Sending
  <2>1. d # c
    BY <1>5
  <2>2. at'[Cpu(d)] = at[Cpu(d)] /\ pc'[d] = pc[d]
    BY <1>3, <1>5, <2>1, PlaceFacts
  <2> QED
    BY <2>2 DEF Core, Sending
<1> QED
  BY <1>6, <1>7, <1>8, <1>9 DEF Core

(* A move between places no thread holds leaves Core alone.                *)
LEMMA OutsideMove ==
  ASSUME Core,
         NEW a \in Place, NEW b \in Place, a # b, Def \notin {a, b},
         \A d \in Lcore : Cpu(d) \notin {a, b},
         at[a] # << >>, Move(1, a, b),
         UNCHANGED <<pc, iter, dpc, dqueue, runflag>>,
         pkt' \in [Mbuf -> Packet],
         \A m \in Mbuf : (\E d \in Lcore : Holds(Cpu(d), m)) => pkt'[m] = pkt[m]
  PROVE  Core'
<1>1. /\ at' \in [Place -> Seq(Mbuf)]
      /\ \A x \in Place \ {a, b} : at'[x] = at[x]
  BY HeadFacts, MoveEffect DEF Core, TypeOK
<1>2. at'[Def] = at[Def] /\ \A d \in Lcore : at'[Cpu(d)] = at[Cpu(d)]
  BY <1>1, PlaceFacts
<1>3. MbufOwned'
  BY HeadFacts, MoveOwned DEF Core, TypeOK
<1>4. Sending'
  <2> SUFFICES ASSUME NEW d \in Lcore, pc[d] = "tx"
               PROVE  ~ToDefault(pkt'[Head(at[Cpu(d)])])
    BY <1>2 DEF Sending
  <2>1. at[Cpu(d)] # << >> /\ Cpu(d) \in Place
    BY PlaceFacts DEF Core, BurstHeld
  <2>2. Head(at[Cpu(d)]) \in Mbuf /\ Holds(Cpu(d), Head(at[Cpu(d)]))
    BY <2>1, HeadFacts DEF Core, TypeOK, Holds
  <2>3. pkt'[Head(at[Cpu(d)])] = pkt[Head(at[Cpu(d)])]
    BY <2>2
  <2> QED
    BY <2>3 DEF Core, Sending
<1> QED
  BY <1>1, <1>2, <1>3, <1>4 DEF Core, TypeOK, BurstHeld

(* The buffer at the head of the pool is in no other place.                *)
LEMMA PoolHead ==
  ASSUME Core, at[Pool] # << >>,
         NEW a \in Place, a # Pool, NEW m \in Mbuf, Holds(a, m)
  PROVE  m # Head(at[Pool])
BY PlaceFacts, HeadFacts DEF Core, TypeOK, MbufOwned, MbufUnique, Holds

(* The packet an lcore is sending goes to a port.                          *)
LEMMA CpuHead ==
  ASSUME Core, NEW c \in Lcore, pc[c] = "tx"
  PROVE  pkt[Head(at[Cpu(c)])] \in Packet /\ pkt[Head(at[Cpu(c)])].route \in Port
<1>1. at[Cpu(c)] # << >> /\ Cpu(c) \in Place
  BY PlaceFacts DEF Core, BurstHeld
<1>2. Head(at[Cpu(c)]) \in Mbuf
  BY <1>1, HeadFacts DEF Core, TypeOK
<1>3. pkt[Head(at[Cpu(c)])] \in Packet /\ pkt[Head(at[Cpu(c)])] \in Frame
  BY <1>2, ForwardAssumption DEF Core, TypeOK
<1>4. ~(pkt[Head(at[Cpu(c)])].route <= 0)
  BY DEF Core, Sending, ToDefault
<1> QED
  BY <1>3, <1>4 DEF Frame

LEMMA CoreNext == Core /\ [Next]_vars => Core'
<1> SUFFICES ASSUME Core, [Next]_vars PROVE Core'
  OBVIOUS
<1>0. /\ at \in [Place -> Seq(Mbuf)]
      /\ pc \in [Lcore -> {"test", "rx", "fwd", "tx", "exit"}]
      /\ iter \in [Lcore -> 1..Len(RxPorts)]
      /\ pkt \in [Mbuf -> Packet]
      /\ Len(RxPorts) \in Nat \ {0}
      /\ BurstSize \in Nat \ {0}
      /\ TypeOK /\ BurstHeld /\ MbufOwned /\ Sending
  BY ForwardAssumption, EmptySeq DEF Core, TypeOK
<1>1. ASSUME NEW p \in RxPort, NEW c \in Lcore, NEW f \in Packet, Arrive(p, c, f)
      PROVE  Core'
  <2>1. Rx(p, Queue(c)) \in Place /\ Pool # Rx(p, Queue(c))
    BY PlaceFacts
  <2>2. at[Pool] # << >> /\ pkt' = [pkt EXCEPT ![Head(at[Pool])] = f]
    BY <1>1 DEF Arrive
  <2>3. pkt' \in [Mbuf -> Packet]
    BY <1>0, <2>2
  <2>4. \A m \in Mbuf : (\E d \in Lcore : Holds(Cpu(d), m)) => pkt'[m] = pkt[m]
    BY <1>0, <2>2, PoolHead, PlaceFacts
  <2> QED
    BY <1>1, <2>1, <2>3, <2>4, OutsideMove, PlaceFacts DEF Arrive
<1>2. ASSUME NEW p \in Port, NEW q \in TxQueue, TxDone(p, q)
      PROVE  Core'
  <2>1. Tx(p, q) \in Place /\ Pool # Tx(p, q)
    BY PlaceFacts
  <2>2. UNCHANGED pkt
    BY <1>2 DEF TxDone
  <2> QED
    <3>1. /\ at[Tx(p, q)] # << >> /\ Move(1, Tx(p, q), Pool)
          /\ UNCHANGED <<pc, iter, dpc, dqueue, runflag>>
      BY <1>2 DEF TxDone
    <3>2. /\ Pool \in Place /\ Def \notin {Tx(p, q), Pool}
          /\ \A d \in Lcore : Cpu(d) \notin {Tx(p, q), Pool}
      BY PlaceFacts
    <3>3. /\ pkt' \in [Mbuf -> Packet]
          /\ \A m \in Mbuf : pkt'[m] = pkt[m]
      BY <1>0, <2>2
    <3> QED
      BY <2>1, <3>1, <3>2, <3>3, OutsideMove
<1>3. CASE StopSignal
  BY <1>0, <1>3
  DEF StopSignal, Core, TypeOK, BurstHeld, Sending, MbufOwned, MbufUnique,
      MbufComplete, Holds
<1>4. ASSUME NEW c \in Lcore, LcoreTest(c)
      PROVE  Core'
  <2>1. /\ UNCHANGED <<at, pkt, dpc, dqueue, runflag>>
        /\ pc[c] = "test" /\ pc' = [pc EXCEPT ![c] = IF runflag THEN "exit" ELSE "rx"]
        /\ iter' = [iter EXCEPT ![c] = 1]
    BY <1>4 DEF LcoreTest, Goto
  <2>2. TypeOK' /\ BurstHeld' /\ Sending'
    BY <1>0, <2>1 DEF TypeOK, BurstHeld, Sending
  <2>3. MbufOwned'
    BY <1>0, <2>1 DEF MbufOwned, MbufUnique, MbufComplete, Holds
  <2> QED
    BY <2>2, <2>3 DEF Core
<1>5. ASSUME NEW c \in Lcore, LcoreRx(c)
      PROVE  Core'
  <2> DEFINE rxq == Rx(PolledPort(c), Queue(c))
             n   == IF Len(at[rxq]) < BurstSize THEN Len(at[rxq]) ELSE BurstSize
  <2>1. rxq \in Place /\ Cpu(c) \in Place /\ rxq # Cpu(c)
    BY PlaceFacts, PortFacts DEF PolledPort
  <2>2. /\ Len(at[rxq]) \in Nat
        /\ n \in 0..Len(at[rxq]) /\ n <= BurstSize
    BY <1>0, <2>1, HeadFacts
  <2>3. pc[c] = "rx" /\ at[Cpu(c)] = << >> /\ Len(at[Cpu(c)]) = 0
    BY <1>5, <2>1, <1>0, HeadFacts DEF LcoreRx, BurstHeld
  <2>4. CASE n = 0 /\ NextIteration(c) /\ UNCHANGED at
    <3>1. /\ pc' \in [Lcore -> {"test", "rx", "fwd", "tx", "exit"}]
          /\ iter' \in [Lcore -> 1..Len(RxPorts)]
          /\ \A d \in Lcore \ {c} : pc'[d] = pc[d]
          /\ pc'[c] \in {"rx", "test"}
      BY <1>0, <2>4 DEF NextIteration, Goto
    <3>2. UNCHANGED <<at, pkt, dpc, dqueue, runflag>>
      BY <1>5, <2>4 DEF LcoreRx
    <3>3. BurstHeld' /\ Sending'
      BY <1>0, <2>3, <3>1, <3>2 DEF BurstHeld, Sending
    <3>4. TypeOK'
      BY <1>0, <3>1, <3>2 DEF TypeOK
    <3>5. MbufOwned'
      BY <1>0, <3>2 DEF MbufOwned, MbufUnique, MbufComplete, Holds
    <3> QED
      BY <3>3, <3>4, <3>5 DEF Core
  <2>5. CASE n > 0 /\ Move(n, rxq, Cpu(c)) /\ Goto(c, "fwd") /\ UNCHANGED iter
    <3> HIDE DEF rxq, n
    <3>1. /\ at' \in [Place -> Seq(Mbuf)]
          /\ Len(at'[Cpu(c)]) = Len(at[Cpu(c)]) + n
          /\ \A x \in Place \ {rxq, Cpu(c)} : at'[x] = at[x]
      BY <1>0, <2>1, <2>2, <2>5, MoveEffect
    <3>2. at'[Cpu(c)] # << >> /\ Len(at'[Cpu(c)]) <= BurstSize
      <4>1. Len(at'[Cpu(c)]) = n /\ n > 0
        BY <2>2, <2>3, <2>5, <3>1
      <4> QED
        BY <2>2, <4>1, EmptySeq
    <3>3. at'[Def] = at[Def] /\ \A d \in Lcore \ {c} : at'[Cpu(d)] = at[Cpu(d)]
      BY <3>1, PlaceFacts DEF rxq
    <3>4. /\ pc' = [pc EXCEPT ![c] = "fwd"]
          /\ UNCHANGED <<iter, pkt, dpc, dqueue, runflag>>
      BY <1>5, <2>5 DEF Goto, LcoreRx
    <3>5. BurstHeld' /\ Sending'
      BY <1>0, <3>2, <3>3, <3>4 DEF BurstHeld, Sending
    <3>6. TypeOK'
      BY <1>0, <3>1, <3>4 DEF TypeOK
    <3>7. MbufOwned'
      BY <1>0, <2>1, <2>2, <2>5, MoveOwned
    <3> QED
      BY <3>5, <3>6, <3>7 DEF Core
  <2> QED
    BY <1>5, <2>4, <2>5 DEF LcoreRx
<1>6. ASSUME NEW c \in Lcore, LcoreDefault(c)
      PROVE  Core'
  <2> DEFINE b == IF RingFull THEN Pool ELSE Ring
  <2>1. b \in Place /\ b # Def /\ \A d \in Lcore : b # Cpu(d)
    BY PlaceFacts
  <2>2. /\ pc[c] \in {"fwd", "tx"} /\ Move(1, Cpu(c), b) /\ AfterPacket(c)
        /\ UNCHANGED <<pkt, dpc, dqueue, runflag>>
    BY <1>6 DEF LcoreDefault
  <2> HIDE DEF b
  <2> QED
    BY <2>1, <2>2, PacketDone
<1>7. ASSUME NEW c \in Lcore, LcoreRoute(c)
      PROVE  Core'
  <2>1. /\ UNCHANGED <<at, pkt, iter, dpc, dqueue, runflag>>
        /\ pc[c] = "fwd" /\ pc' = [pc EXCEPT ![c] = "tx"]
        /\ ~ToDefault(pkt[Head(at[Cpu(c)])])
    BY <1>7 DEF LcoreRoute, Goto
  <2>2. TypeOK' /\ BurstHeld' /\ Sending'
    BY <1>0, <2>1 DEF TypeOK, BurstHeld, Sending
  <2>3. MbufOwned'
    BY <1>0, <2>1 DEF MbufOwned, MbufUnique, MbufComplete, Holds
  <2> QED
    BY <2>2, <2>3 DEF Core
<1>8. ASSUME NEW c \in Lcore, LcoreTx(c)
      PROVE  Core'
  <2> DEFINE p == pkt[Head(at[Cpu(c)])].route
             b == IF TxFull(p, Queue(c)) THEN Pool ELSE Tx(p, Queue(c))
  <2>1. p \in Port
    BY <1>0, <1>8, CpuHead DEF LcoreTx
  <2>2. b \in Place /\ b # Def /\ \A d \in Lcore : b # Cpu(d)
    BY <2>1, PlaceFacts, PortFacts
  <2>3. /\ pc[c] \in {"fwd", "tx"} /\ Move(1, Cpu(c), b) /\ AfterPacket(c)
        /\ UNCHANGED <<pkt, dpc, dqueue, runflag>>
    BY <1>8 DEF LcoreTx
  <2> HIDE DEF b
  <2> QED
    BY <2>2, <2>3, PacketDone
<1>9. CASE DefTest
  <2>1. /\ UNCHANGED <<at, pkt, pc, iter, dqueue, runflag>>
        /\ dpc = "test" /\ dpc' \in {"exit", "pop"}
    BY <1>9 DEF DefTest
  <2>2. TypeOK' /\ BurstHeld' /\ Sending'
    BY <1>0, <2>1 DEF TypeOK, BurstHeld, Sending
  <2>3. MbufOwned'
    BY <1>0, <2>1 DEF MbufOwned, MbufUnique, MbufComplete, Holds
  <2> QED
    BY <2>2, <2>3 DEF Core
<1>10. CASE DefPop
  <2>1. UNCHANGED <<pkt, pc, iter, runflag>> /\ dpc = "pop"
    BY <1>10 DEF DefPop
  <2>2. CASE at[Ring] = << >>
    <3>1. dpc' = "test" /\ UNCHANGED <<at, dqueue>>
      BY <1>10, <2>2 DEF DefPop
    <3>2. TypeOK' /\ BurstHeld' /\ Sending'
      BY <1>0, <2>1, <3>1 DEF TypeOK, BurstHeld, Sending
    <3>3. MbufOwned'
      BY <1>0, <3>1 DEF MbufOwned, MbufUnique, MbufComplete, Holds
    <3> QED
      BY <3>2, <3>3 DEF Core
  <2>3. CASE at[Ring] # << >>
    <3>1. Move(1, Ring, Def) /\ dqueue' \in DefQueue /\ dpc' = "tx"
      BY <1>10, <2>3 DEF DefPop
    <3>2. Ring \in Place /\ Def \in Place /\ Ring # Def /\ 1 \in 0..Len(at[Ring])
      BY <1>0, <2>3, HeadFacts, PlaceFacts
    <3>3. /\ at' \in [Place -> Seq(Mbuf)]
          /\ Len(at'[Def]) = Len(at[Def]) + 1
          /\ \A x \in Place \ {Ring, Def} : at'[x] = at[x]
      BY <1>0, <3>1, <3>2, MoveEffect
    <3>4. Len(at[Def]) = 0
      BY <1>0, <2>1, <3>2, HeadFacts DEF BurstHeld
    <3>5. Len(at'[Def]) = 1 /\ at'[Def] # << >>
      <4>1. Len(at'[Def]) = 1
        BY <3>3, <3>4
      <4>2. Len(<< >>) = 0
        BY EmptySeq
      <4> QED
        BY <4>1, <4>2
    <3>6. \A d \in Lcore : at'[Cpu(d)] = at[Cpu(d)]
      BY <3>3, PlaceFacts
    <3>7. TypeOK' /\ BurstHeld' /\ Sending'
      BY <1>0, <2>1, <3>1, <3>3, <3>5, <3>6 DEF TypeOK, BurstHeld, Sending
    <3>8. MbufOwned'
      BY <1>0, <3>1, <3>2, MoveOwned
    <3> QED
      BY <3>7, <3>8 DEF Core
  <2> QED
    BY <2>2, <2>3
<1>11. CASE DefTx
  <2> DEFINE b == IF TxFull(DefaultPort, dqueue) THEN Pool ELSE Tx(DefaultPort, dqueue)
  <2>1. /\ UNCHANGED <<pkt, pc, iter, dqueue, runflag>>
        /\ dpc = "tx" /\ dpc' = "test" /\ Move(1, Def, b)
    BY <1>11 DEF DefTx
  <2>2. b \in Place /\ b # Def /\ \A d \in Lcore : b # Cpu(d)
    BY <1>0, PlaceFacts, PortFacts DEF TypeOK
  <2> HIDE DEF b
  <2>3. Def \in Place /\ 1 \in 0..Len(at[Def]) /\ Len(at[Def]) = 1
    <3>1. Def \in Place /\ at[Def] # << >> /\ Len(at[Def]) <= 1
      BY <1>0, <2>1, PlaceFacts DEF BurstHeld
    <3>2. Len(at[Def]) \in Nat /\ Len(at[Def]) # 0 /\ 1 \in 0..Len(at[Def])
      BY <1>0, <3>1, HeadFacts
    <3>3. \A l \in Nat : l # 0 /\ l <= 1 => l = 1
      OBVIOUS
    <3>4. Len(at[Def]) = 1
      BY <3>1, <3>2, <3>3
    <3> QED
      BY <3>1, <3>2, <3>4
  <2>4. /\ at' \in [Place -> Seq(Mbuf)]
        /\ Len(at'[Def]) = Len(at[Def]) - 1
        /\ \A x \in Place \ {Def, b} : at'[x] = at[x]
    BY <1>0, <2>1, <2>2, <2>3, MoveEffect
  <2>5. Len(at'[Def]) = 0 /\ at'[Def] = << >>
    <3>1. Len(at'[Def]) = 0 /\ at'[Def] \in Seq(Mbuf)
      BY <2>3, <2>4
    <3> QED
      BY <3>1, EmptySeq
  <2>6. \A d \in Lcore : at'[Cpu(d)] = at[Cpu(d)]
    BY <2>2, <2>4, PlaceFacts
  <2>7. TypeOK' /\ BurstHeld' /\ Sending'
    BY <1>0, <2>1, <2>4, <2>5, <2>6 DEF TypeOK, BurstHeld, Sending
  <2>8. MbufOwned'
    BY <1>0, <2>1, <2>2, <2>3, MoveOwned
  <2> QED
    BY <2>7, <2>8 DEF Core
<1>12. CASE UNCHANGED vars
  BY <1>0, <1>12
  DEF vars, Core, TypeOK, BurstHeld, Sending, MbufOwned, MbufUnique,
      MbufComplete, Holds
<1> QED
  BY <1>1, <1>2, <1>3, <1>4, <1>5, <1>6, <1>7, <1>8, <1>9, <1>10, <1>11, <1>12
  DEF Next, LcoreStep, DefStep

LEMMA CoreAlways == Spec => []Core
  BY CoreInit, CoreNext, PTL DEF Spec

-------------------------------------------------------------------------------
(* Routing: what is in the ring and in the TX queues belongs there.        *)

Fits(f, p, q) ==
  IF ToDefault(f) THEN p = DefaultPort /\ q \in DefQueue
                  ELSE p = f.route /\ \E c \in Lcore : q = Queue(c)

RouteInv == RouteKept /\ RingDefault

LEMMA RouteInit == Init => RouteInv
<1> SUFFICES ASSUME Init PROVE RouteInv
  OBVIOUS
<1>1. PICK s \in PoolOrder : at = [a \in Place |-> IF a = Pool THEN s ELSE << >>]
  BY DEF Init
<1>2. \A a \in Place : a # Pool => DOMAIN at[a] = {}
  BY <1>1
<1> QED
  BY <1>2, PlaceFacts DEF RouteInv, RouteKept, RingDefault, Holds

(* After a move, a buffer is where it was or at the target.                *)
LEMMA MoveHolds ==
  ASSUME NEW a \in Place, NEW b \in Place, a # b,
         at \in [Place -> Seq(Mbuf)],
         NEW n \in 0..Len(at[a]),
         Move(n, a, b),
         NEW x \in Place, NEW m, Holds(x, m)'
  PROVE  Holds(x, m) \/ (x = b /\ \E i \in 1..n : at[a][i] = m)
<1>1. /\ at' \in [Place -> Seq(Mbuf)]
      /\ Len(at'[a]) = Len(at[a]) - n
      /\ Len(at'[b]) = Len(at[b]) + n
      /\ \A i \in 1..(Len(at[a]) - n) : at'[a][i] = at[a][i + n]
      /\ \A i \in 1..Len(at[b]) : at'[b][i] = at[b][i]
      /\ \A i \in (Len(at[b]) + 1)..(Len(at[b]) + n) :
            at'[b][i] = at[a][i - Len(at[b])]
      /\ \A y \in Place \ {a, b} : at'[y] = at[y]
  BY MoveEffect
<1>2. \A y \in Place : /\ DOMAIN at[y] = 1..Len(at[y]) /\ Len(at[y]) \in Nat
                       /\ DOMAIN at'[y] = 1..Len(at'[y]) /\ Len(at'[y]) \in Nat
  BY <1>1, LenProperties
<1>3. PICK i \in DOMAIN at'[x] : at'[x][i] = m
  BY DEF Holds
<1>4. CASE x = a
  <2>1. i \in 1..(Len(at[a]) - n) /\ i + n \in DOMAIN at[a]
    BY <1>1, <1>2, <1>3, <1>4
  <2> QED
    BY <1>1, <1>3, <1>4, <2>1 DEF Holds
<1>5. CASE x = b /\ i <= Len(at[b])
  <2>1. i \in 1..Len(at[b])
    BY <1>2, <1>3, <1>5
  <2> QED
    BY <1>1, <1>2, <1>3, <1>5, <2>1 DEF Holds
<1>6. CASE x = b /\ i > Len(at[b])
  <2>1. i \in (Len(at[b]) + 1)..(Len(at[b]) + n) /\ i - Len(at[b]) \in 1..n
    BY <1>1, <1>2, <1>3, <1>6
  <2>2. at[a][i - Len(at[b])] = m
    BY <1>1, <1>3, <1>6, <2>1
  <2> QED
    BY <1>6, <2>1, <2>2
<1>7. CASE x \notin {a, b}
  BY <1>1, <1>3, <1>7 DEF Holds
<1>8. i <= Len(at[b]) \/ i > Len(at[b])
  BY <1>2, <1>3
<1> QED
  BY <1>4, <1>5, <1>6, <1>7, <1>8

(* A move keeps the routing if what it brings to the ring, the defsend     *)
(* thread or a TX queue belongs there.                                     *)
LEMMA RouteMove ==
  ASSUME Core, RouteInv,
         NEW a \in Place, NEW b \in Place, a # b,
         NEW n \in 0..Len(at[a]),
         Move(n, a, b),
         \A x \in Place : x # Pool =>
            \A m \in Mbuf : Holds(x, m) => pkt'[m] = pkt[m],
         b \in {Ring, Def} => /\ a # Pool
                              /\ \A i \in 1..n : ToDefault(pkt[at[a][i]]),
         \A p \in Port, q \in TxQueue :
            b = Tx(p, q) => /\ a # Pool
                            /\ \A i \in 1..n : Fits(pkt[at[a][i]], p, q)
  PROVE  RouteInv'
<1>1. \A x \in Place, m \in Mbuf :
         Holds(x, m)' => Holds(x, m) \/ (x = b /\ \E i \in 1..n : at[a][i] = m)
  BY MoveHolds DEF Core, TypeOK
<1>2. \A i \in 1..n : i \in DOMAIN at[a]
  <2>1. DOMAIN at[a] = 1..Len(at[a]) /\ Len(at[a]) \in Nat
    BY LenProperties DEF Core, TypeOK
  <2> QED
    BY <2>1
<1>3. \A i \in 1..n : Holds(a, at[a][i])
  BY <1>2 DEF Holds
<1>4. RingDefault'
  <2> SUFFICES ASSUME NEW m \in Mbuf, NEW x \in {Ring, Def}, Holds(x, m)'
               PROVE  ToDefault(pkt'[m])
    BY DEF RingDefault
  <2>1. x \in Place /\ x # Pool
    BY PlaceFacts
  <2>2. CASE Holds(x, m)
    BY <2>1, <2>2 DEF RouteInv, RingDefault
  <2>3. CASE x = b /\ \E i \in 1..n : at[a][i] = m
    <3>1. PICK i \in 1..n : at[a][i] = m
      BY <2>3
    <3>2. Holds(a, m) /\ a # Pool /\ ToDefault(pkt[m])
      BY <1>3, <2>3, <3>1
    <3> QED
      BY <3>2
  <2> QED
    BY <1>1, <2>1, <2>2, <2>3
<1>5. RouteKept'
  <2> SUFFICES ASSUME NEW p \in Port, NEW q \in TxQueue, NEW m \in Mbuf,
                      Holds(Tx(p, q), m)'
               PROVE  Fits(pkt'[m], p, q)
    BY DEF RouteKept, Fits
  <2>1. Tx(p, q) \in Place /\ Tx(p, q) # Pool
    BY PlaceFacts
  <2>2. CASE Holds(Tx(p, q), m)
    <3>1. pkt'[m] = pkt[m]
      BY <2>1, <2>2
    <3> QED
      BY <2>2, <3>1 DEF RouteInv, RouteKept, Fits
  <2>3. CASE Tx(p, q) = b /\ \E i \in 1..n : at[a][i] = m
    <3>1. PICK i \in 1..n : at[a][i] = m
      BY <2>3
    <3>2. Holds(a, m) /\ a # Pool /\ Fits(pkt[m], p, q)
      BY <1>3, <2>3, <3>1
    <3> QED
      BY <3>2
  <2> QED
    BY <1>1, <2>1, <2>2, <2>3
<1> QED
  BY <1>4, <1>5 DEF RouteInv

LEMMA RouteNext == Core /\ RouteInv /\ [Next]_vars => RouteInv'
<1> SUFFICES ASSUME Core, RouteInv, [Next]_vars PROVE RouteInv'
  OBVIOUS
<1>0. /\ at \in [Place -> Seq(Mbuf)] /\ pkt \in [Mbuf -> Packet]
      /\ BurstSize \in Nat \ {0}
      /\ BurstHeld /\ RouteInv
  BY ForwardAssumption DEF Core, TypeOK
<1>1. \A i \in 1..1 : i = 1
  OBVIOUS
<1>2. ASSUME NEW p \in RxPort, NEW c \in Lcore, NEW f \in Packet, Arrive(p, c, f)
      PROVE  RouteInv'
  <2>1. /\ at[Pool] # << >> /\ Move(1, Pool, Rx(p, Queue(c)))
        /\ pkt' = [pkt EXCEPT ![Head(at[Pool])] = f]
    BY <1>2 DEF Arrive
  <2>2. \A x \in Place : x # Pool => \A m \in Mbuf : Holds(x, m) => pkt'[m] = pkt[m]
    BY <1>0, <2>1, PoolHead
  <2>3. /\ Rx(p, Queue(c)) \in Place /\ Rx(p, Queue(c)) \notin {Pool, Ring, Def}
        /\ \A r \in Port, q \in TxQueue : Rx(p, Queue(c)) # Tx(r, q)
    BY PlaceFacts
  <2>4. Pool \in Place /\ 1 \in 0..Len(at[Pool])
    BY <1>0, <2>1, HeadFacts, PlaceFacts
  <2> QED
    BY <2>1, <2>2, <2>3, <2>4, RouteMove
<1>3. ASSUME NEW p \in Port, NEW q \in TxQueue, TxDone(p, q)
      PROVE  RouteInv'
  <2>1. at[Tx(p, q)] # << >> /\ Move(1, Tx(p, q), Pool) /\ pkt' = pkt
    BY <1>3 DEF TxDone
  <2>2. /\ Tx(p, q) \in Place /\ Pool \in Place /\ Pool # Tx(p, q)
        /\ 1 \in 0..Len(at[Tx(p, q)]) /\ Pool \notin {Ring, Def}
        /\ \A r \in Port, u \in TxQueue : Pool # Tx(r, u)
    BY <1>0, <2>1, HeadFacts, PlaceFacts
  <2> QED
    BY <2>1, <2>2, RouteMove
<1>4. ASSUME NEW c \in Lcore, LcoreRx(c)
      PROVE  RouteInv'
  <2> DEFINE rxq == Rx(PolledPort(c), Queue(c))
             n   == IF Len(at[rxq]) < BurstSize THEN Len(at[rxq]) ELSE BurstSize
  <2>1. /\ rxq \in Place /\ Cpu(c) \in Place /\ rxq # Cpu(c)
        /\ Cpu(c) \notin {Ring, Def}
        /\ \A r \in Port, u \in TxQueue : Cpu(c) # Tx(r, u)
    BY PlaceFacts, PortFacts DEF PolledPort
  <2>2. Len(at[rxq]) \in Nat /\ n \in 0..Len(at[rxq])
    BY <1>0, <2>1, HeadFacts
  <2>3. pkt' = pkt /\ (UNCHANGED at \/ Move(n, rxq, Cpu(c)))
    BY <1>4 DEF LcoreRx
  <2>4. CASE UNCHANGED at
    BY <1>0, <2>3, <2>4 DEF RouteInv, RouteKept, RingDefault, Holds
  <2>5. CASE Move(n, rxq, Cpu(c))
    <3> HIDE DEF rxq, n
    <3> QED
      BY <2>1, <2>2, <2>3, <2>5, RouteMove
  <2> QED
    BY <2>3, <2>4, <2>5
<1>5. ASSUME NEW c \in Lcore, LcoreDefault(c)
      PROVE  RouteInv'
  <2> DEFINE b == IF RingFull THEN Pool ELSE Ring
  <2>1. /\ pc[c] = "fwd" /\ ToDefault(pkt[Head(at[Cpu(c)])])
        /\ Move(1, Cpu(c), b) /\ pkt' = pkt
    BY <1>5 DEF LcoreDefault
  <2>2. at[Cpu(c)] # << >> /\ Cpu(c) \in Place
    BY <1>0, <2>1, PlaceFacts DEF BurstHeld
  <2>3. 1 \in 0..Len(at[Cpu(c)]) /\ Head(at[Cpu(c)]) = at[Cpu(c)][1]
    BY <1>0, <2>2, HeadFacts
  <2>4. /\ b \in Place /\ b # Cpu(c) /\ Cpu(c) # Pool
        /\ \A r \in Port, u \in TxQueue : b # Tx(r, u)
    BY PlaceFacts
  <2> HIDE DEF b
  <2> QED
    BY <1>1, <2>1, <2>2, <2>3, <2>4, RouteMove
<1>6. ASSUME NEW c \in Lcore, LcoreTx(c)
      PROVE  RouteInv'
  <2> DEFINE p == pkt[Head(at[Cpu(c)])].route
             b == IF TxFull(p, Queue(c)) THEN Pool ELSE Tx(p, Queue(c))
  <2>1. pc[c] = "tx" /\ Move(1, Cpu(c), b) /\ pkt' = pkt
    BY <1>6 DEF LcoreTx
  <2>2. at[Cpu(c)] # << >> /\ Cpu(c) \in Place
    BY <1>0, <2>1, PlaceFacts DEF BurstHeld
  <2>3. 1 \in 0..Len(at[Cpu(c)]) /\ Head(at[Cpu(c)]) = at[Cpu(c)][1]
    BY <1>0, <2>2, HeadFacts
  <2>4. p \in Port /\ Queue(c) \in TxQueue
    BY <2>1, CpuHead, PortFacts
  <2>5. /\ b \in Place /\ b # Cpu(c) /\ Cpu(c) # Pool /\ b \notin {Ring, Def}
        /\ \A r \in Port, u \in TxQueue : b = Tx(r, u) => r = p /\ u = Queue(c)
    BY <2>4, PlaceFacts
  <2>6. ~ToDefault(pkt[Head(at[Cpu(c)])])
    BY <2>1 DEF Core, Sending
  <2>7. Fits(pkt[at[Cpu(c)][1]], p, Queue(c))
    BY <2>3, <2>6 DEF Fits
  <2> HIDE DEF b, p
  <2>8. \A r \in Port, u \in TxQueue :
           b = Tx(r, u) => /\ Cpu(c) # Pool
                           /\ \A i \in 1..1 : Fits(pkt[at[Cpu(c)][i]], r, u)
    BY <2>5, <2>7
  <2> QED
    BY <2>1, <2>2, <2>3, <2>5, <2>8, RouteMove
<1>7. CASE DefPop
  <2>1. pkt' = pkt /\ (UNCHANGED at \/ (at[Ring] # << >> /\ Move(1, Ring, Def)))
    BY <1>7 DEF DefPop
  <2>2. CASE UNCHANGED at
    BY <1>0, <2>1, <2>2 DEF RouteInv, RouteKept, RingDefault, Holds
  <2>3. CASE at[Ring] # << >> /\ Move(1, Ring, Def)
    <3>1. /\ Ring \in Place /\ Def \in Place /\ Ring # Def /\ Ring # Pool
          /\ \A r \in Port, u \in TxQueue : Def # Tx(r, u)
          /\ 1 \in 0..Len(at[Ring]) /\ 1 \in DOMAIN at[Ring]
          /\ at[Ring][1] \in Mbuf
      BY <1>0, <2>3, HeadFacts, PlaceFacts
    <3>2. ToDefault(pkt[at[Ring][1]])
      BY <1>0, <3>1 DEF RouteInv, RingDefault, Holds
    <3> QED
      BY <1>1, <2>1, <2>3, <3>1, <3>2, RouteMove
  <2> QED
    BY <2>1, <2>2, <2>3
<1>8. CASE DefTx
  <2> DEFINE b == IF TxFull(DefaultPort, dqueue) THEN Pool ELSE Tx(DefaultPort, dqueue)
  <2>1. dpc = "tx" /\ Move(1, Def, b) /\ pkt' = pkt
    BY <1>8 DEF DefTx
  <2>2. at[Def] # << >> /\ Def \in Place /\ Def # Pool
    BY <1>0, <2>1, PlaceFacts DEF BurstHeld
  <2>3. /\ 1 \in 0..Len(at[Def]) /\ 1 \in DOMAIN at[Def] /\ at[Def][1] \in Mbuf
    BY <1>0, <2>2, HeadFacts
  <2>4. dqueue \in DefQueue
    BY DEF Core, TypeOK
  <2>5. /\ b \in Place /\ b # Def /\ b \notin {Ring, Def}
        /\ \A r \in Port, u \in TxQueue : b = Tx(r, u) => r = DefaultPort /\ u = dqueue
    BY <2>4, PlaceFacts, PortFacts
  <2>6. Fits(pkt[at[Def][1]], DefaultPort, dqueue)
    BY <1>0, <2>3, <2>4 DEF RouteInv, RingDefault, Holds, Fits
  <2> HIDE DEF b
  <2>7. \A r \in Port, u \in TxQueue :
           b = Tx(r, u) => /\ Def # Pool
                           /\ \A i \in 1..1 : Fits(pkt[at[Def][i]], r, u)
    BY <2>2, <2>5, <2>6
  <2> QED
    BY <2>1, <2>2, <2>3, <2>5, <2>7, RouteMove
<1>9. CASE UNCHANGED <<at, pkt>>
  BY <1>0, <1>9 DEF RouteInv, RouteKept, RingDefault, Holds
<1>10. StopSignal \/ DefTest \/ UNCHANGED vars => UNCHANGED <<at, pkt>>
  BY DEF StopSignal, DefTest, vars
<1>11. \A c \in Lcore : LcoreTest(c) \/ LcoreRoute(c) => UNCHANGED <<at, pkt>>
  BY DEF LcoreTest, LcoreRoute
<1> QED
  BY <1>2, <1>3, <1>4, <1>5, <1>6, <1>7, <1>8, <1>9, <1>10, <1>11
  DEF Next, LcoreStep, DefStep

-------------------------------------------------------------------------------
(* Refinement: every step is a step of FlowMbuf, or changes no owner.      *)

LEMMA StageFacts ==
  /\ StageOf(Pool) = "pool" /\ StageOf(Ring) = "app" /\ StageOf(Def) = "app"
  /\ \A c : StageOf(Cpu(c)) = "app"
  /\ \A p, q : StageOf(Rx(p, q)) = "rx" /\ StageOf(Tx(p, q)) = "tx"
  BY DEF StageOf, Pool, Ring, Def, Cpu, Rx, Tx

(* The stage of a buffer is that of any place that holds it.               *)
LEMMA StageIs ==
  ASSUME MbufOwned, NEW m \in Mbuf, NEW a \in Place, Holds(a, m)
  PROVE  Stage[m] = StageOf(a)
<1>1. \E x \in Place : Holds(x, m)
  OBVIOUS
<1> DEFINE x == CHOOSE y \in Place : Holds(y, m)
<1>2. x \in Place /\ Holds(x, m)
  BY <1>1
<1>3. Stage[m] = StageOf(x)
  BY DEF Stage
<1> HIDE DEF x
<1>4. x = a
  BY <1>2 DEF MbufOwned, MbufUnique, Holds
<1> QED
  BY <1>3, <1>4

LEMMA StageIsNext ==
  ASSUME MbufOwned', NEW m \in Mbuf, NEW a \in Place, Holds(a, m)'
  PROVE  Stage'[m] = StageOf(a)
<1>1. \E x \in Place : \E i \in DOMAIN at'[x] : at'[x][i] = m
  BY DEF Holds
<1> DEFINE x == CHOOSE y \in Place : \E i \in DOMAIN at'[y] : at'[y][i] = m
<1>2. x \in Place /\ \E i \in DOMAIN at'[x] : at'[x][i] = m
  BY <1>1
<1>3. Stage'[m] = StageOf(x)
  BY DEF Stage, Holds
<1> HIDE DEF x
<1>4. x = a
  BY <1>2 DEF MbufOwned, MbufUnique, Holds
<1> QED
  BY <1>3, <1>4

(* The buffers that Move(n, a, b) moves.                                   *)
Moved(n, a) == {at[a][i] : i \in 1..n}

(* A move passes its buffers from the owner of a to that of b.             *)
LEMMA MovePass ==
  ASSUME Core, NEW a \in Place, NEW b \in Place, a # b, NEW n \in 1..Len(at[a]), Move(n, a, b)
  PROVE  /\ Moved(n, a) \subseteq Mbuf
         /\ StageOf(a) # StageOf(b) => Abs!Pass(Moved(n, a), StageOf(a), StageOf(b))
         /\ StageOf(a) = StageOf(b) => UNCHANGED Stage
<1> DEFINE S == Moved(n, a)
<1>1. /\ at \in [Place -> Seq(Mbuf)] /\ MbufOwned
      /\ Len(at[a]) \in Nat /\ Len(at[b]) \in Nat
      /\ DOMAIN at[a] = 1..Len(at[a])
  BY LenProperties DEF Core, TypeOK
<1>2. n \in 0..Len(at[a]) /\ n \in Nat /\ 1 \in 1..n
  BY <1>1
<1>3. /\ at' \in [Place -> Seq(Mbuf)]
      /\ Len(at'[b]) = Len(at[b]) + n
      /\ \A i \in (Len(at[b]) + 1)..(Len(at[b]) + n) : at'[b][i] = at[a][i - Len(at[b])]
  BY <1>1, <1>2, MoveEffect
<1>4. MbufOwned'
  BY <1>1, <1>2, MoveOwned
<1>5. \A i \in 1..n : i \in DOMAIN at[a] /\ at[a][i] \in Mbuf
  BY <1>1, <1>2, ElementOfSeq
<1>6. S \subseteq Mbuf /\ S # {}
  BY <1>2, <1>5 DEF Moved
<1>7. ASSUME NEW m \in S PROVE Stage[m] = StageOf(a) /\ Stage'[m] = StageOf(b)
  <2>1. PICK i \in 1..n : m = at[a][i]
    BY DEF Moved
  <2>2. Holds(a, m)
    BY <1>5, <2>1 DEF Holds
  <2>3. DOMAIN at'[b] = 1..(Len(at[b]) + n)
    BY <1>3, LenProperties
  <2>4. /\ i + Len(at[b]) \in (Len(at[b]) + 1)..(Len(at[b]) + n)
        /\ i + Len(at[b]) \in DOMAIN at'[b] /\ (i + Len(at[b])) - Len(at[b]) = i
    BY <1>1, <1>2, <2>3
  <2>5. Holds(b, m)'
    BY <1>3, <2>1, <2>4 DEF Holds
  <2> QED BY <1>1, <1>4, <1>6, <2>2, <2>5, StageIs, StageIsNext
<1>8. ASSUME NEW m \in Mbuf, m \notin S PROVE Stage'[m] = Stage[m]
  <2>1. PICK x \in Place : Holds(x, m)'
    BY <1>4 DEF MbufOwned, MbufComplete
  <2>2. Holds(x, m) \/ (x = b /\ \E i \in 1..n : at[a][i] = m)
    BY <1>1, <1>2, <2>1, MoveHolds
  <2>3. Holds(x, m)
    BY <1>8, <2>2 DEF Moved
  <2> QED BY <1>1, <1>4, <2>1, <2>3, StageIs, StageIsNext
<1>9. Stage = [m \in Mbuf |-> Stage[m]] /\ Stage' = [m \in Mbuf |-> Stage'[m]]
  BY DEF Stage
<1> HIDE DEF S
<1>10. Stage' = [m \in Mbuf |-> IF m \in S THEN StageOf(b) ELSE Stage[m]]
  BY <1>7, <1>8, <1>9
<1>11. StageOf(a) = StageOf(b) => UNCHANGED Stage
  BY <1>6, <1>7, <1>8, <1>9
<1> QED
  BY <1>6, <1>7, <1>10, <1>11 DEF Abs!Pass, S

(* The same for one buffer.                                                *)
LEMMA MoveOne ==
  ASSUME Core, NEW a \in Place, NEW b \in Place, a # b, at[a] # << >>, Move(1, a, b)
  PROVE  \E m \in Mbuf :
           /\ StageOf(a) # StageOf(b) => Abs!Pass({m}, StageOf(a), StageOf(b))
           /\ StageOf(a) = StageOf(b) => UNCHANGED Stage
<1>1. 1 \in 1..Len(at[a]) /\ at[a][1] \in Mbuf
  BY HeadFacts DEF Core, TypeOK
<1>2. Moved(1, a) = {at[a][1]}
  BY DEF Moved
<1> QED
  BY <1>1, <1>2, MovePass

LEMMA AbsNext ==
  ASSUME Core, [Next]_vars
  PROVE  [Abs!Next]_Stage
<1>1. ASSUME NEW b \in Place, StageOf(b) = "rx", at[Pool] # << >>, Move(1, Pool, b)
      PROVE  Abs!Next
  <2>1. Pool \in Place /\ StageOf(Pool) = "pool" /\ StageOf(Pool) # StageOf(b) /\ Pool # b
    BY <1>1, StageFacts, PlaceFacts
  <2>2. \E m \in Mbuf : Abs!Pass({m}, "pool", "rx")
    BY <1>1, <2>1, MoveOne
  <2> QED BY <2>2 DEF Abs!Next, Abs!Fill
<1>2. ASSUME NEW a \in Place, StageOf(a) = "tx", at[a] # << >>, Move(1, a, Pool)
      PROVE  Abs!Next
  <2>1. Pool \in Place /\ StageOf(Pool) = "pool" /\ StageOf(Pool) # StageOf(a) /\ a # Pool
    BY <1>2, StageFacts, PlaceFacts
  <2>2. \E m \in Mbuf : Abs!Pass({m}, "tx", "pool")
    BY <1>2, <2>1, MoveOne
  <2> QED BY <2>2 DEF Abs!Next, Abs!Sent
<1>3. ASSUME NEW a \in Place, NEW b \in Place, StageOf(a) = "app", a # b,
             StageOf(b) \in {"pool", "app", "tx"}, at[a] # << >>, Move(1, a, b)
      PROVE  Abs!Next \/ UNCHANGED Stage
  BY <1>3, MoveOne DEF Abs!Next, Abs!Free, Abs!Transmit
<1>4. ASSUME NEW p \in RxPort, NEW c \in Lcore, NEW f \in Packet, Arrive(p, c, f)
      PROVE  Abs!Next
  BY <1>1, <1>4, PlaceFacts, StageFacts DEF Arrive
<1>5. ASSUME NEW p \in Port, NEW q \in TxQueue, TxDone(p, q)
      PROVE  Abs!Next
  BY <1>2, <1>5, PlaceFacts, StageFacts DEF TxDone
<1>6. ASSUME NEW c \in Lcore, LcoreRx(c)
      PROVE  Abs!Next \/ UNCHANGED Stage
  <2> DEFINE rxq == Rx(PolledPort(c), Queue(c))
             n   == IF Len(at[rxq]) < BurstSize THEN Len(at[rxq]) ELSE BurstSize
  <2>1. /\ rxq \in Place /\ Cpu(c) \in Place /\ rxq # Cpu(c)
        /\ StageOf(rxq) = "rx" /\ StageOf(Cpu(c)) = "app"
    BY PlaceFacts, PortFacts, StageFacts DEF PolledPort
  <2>2. Len(at[rxq]) \in Nat /\ BurstSize \in Nat /\ n \in 0..Len(at[rxq])
    BY <2>1, HeadFacts, ForwardAssumption DEF Core, TypeOK
  <2>3. CASE UNCHANGED at
    BY <2>3 DEF Stage, Holds
  <2>4. CASE n > 0 /\ Move(n, rxq, Cpu(c))
    <3>1. n \in 1..Len(at[rxq])
      BY <2>2, <2>4
    <3> HIDE DEF rxq, n
    <3>2. Moved(n, rxq) \in SUBSET Mbuf /\ Abs!Pass(Moved(n, rxq), "rx", "app")
      BY <2>1, <2>4, <3>1, MovePass
    <3> QED BY <3>2 DEF Abs!Next, Abs!Receive
  <2> QED BY <1>6, <2>3, <2>4 DEF LcoreRx
<1>7. ASSUME NEW c \in Lcore, pc[c] \in {"fwd", "tx"}, NEW b \in Place, Cpu(c) # b,
             StageOf(b) \in {"pool", "app", "tx"}, Move(1, Cpu(c), b)
      PROVE  Abs!Next \/ UNCHANGED Stage
  <2>1. Cpu(c) \in Place /\ at[Cpu(c)] # << >> /\ StageOf(Cpu(c)) = "app"
    BY <1>7, PlaceFacts, StageFacts DEF Core, BurstHeld
  <2> QED BY <1>3, <1>7, <2>1
<1>8. ASSUME NEW c \in Lcore, LcoreDefault(c)
      PROVE  Abs!Next \/ UNCHANGED Stage
  <2> DEFINE b == IF RingFull THEN Pool ELSE Ring
  <2>1. b \in Place /\ Cpu(c) # b /\ StageOf(b) \in {"pool", "app", "tx"}
    BY PlaceFacts, StageFacts
  <2>2. pc[c] \in {"fwd", "tx"} /\ Move(1, Cpu(c), b)
    BY <1>8 DEF LcoreDefault
  <2> HIDE DEF b
  <2> QED BY <1>7, <2>1, <2>2
<1>9. ASSUME NEW c \in Lcore, LcoreTx(c)
      PROVE  Abs!Next \/ UNCHANGED Stage
  <2> DEFINE p == pkt[Head(at[Cpu(c)])].route
             b == IF TxFull(p, Queue(c)) THEN Pool ELSE Tx(p, Queue(c))
  <2>1. pc[c] = "tx" /\ Move(1, Cpu(c), b)
    BY <1>9 DEF LcoreTx
  <2>2. p \in Port /\ Queue(c) \in TxQueue
    BY <2>1, CpuHead, PortFacts
  <2>3. b \in Place /\ Cpu(c) # b /\ StageOf(b) \in {"pool", "app", "tx"}
    BY <2>2, PlaceFacts, StageFacts
  <2> HIDE DEF b
  <2> QED BY <1>7, <2>1, <2>3
<1>10. ASSUME DefPop PROVE Abs!Next \/ UNCHANGED Stage
  <2>1. CASE UNCHANGED at
    BY <2>1 DEF Stage, Holds
  <2>2. CASE at[Ring] # << >> /\ Move(1, Ring, Def)
    BY <1>3, <2>2, PlaceFacts, StageFacts
  <2> QED BY <1>10, <2>1, <2>2 DEF DefPop
<1>11. ASSUME DefTx PROVE Abs!Next \/ UNCHANGED Stage
  <2> DEFINE b == IF TxFull(DefaultPort, dqueue) THEN Pool ELSE Tx(DefaultPort, dqueue)
  <2>1. dpc = "tx" /\ Move(1, Def, b)
    BY <1>11 DEF DefTx
  <2>2. at[Def] # << >> /\ Def \in Place /\ StageOf(Def) = "app"
    BY <2>1, PlaceFacts, StageFacts DEF Core, BurstHeld
  <2>3. dqueue \in TxQueue
    BY PortFacts DEF Core, TypeOK
  <2>4. b \in Place /\ Def # b /\ StageOf(b) \in {"pool", "app", "tx"}
    BY <2>3, PlaceFacts, PortFacts, StageFacts
  <2> HIDE DEF b
  <2> QED BY <1>3, <2>1, <2>2, <2>4
<1>12. CASE UNCHANGED at
  BY <1>12 DEF Stage, Holds
<1>13. StopSignal \/ DefTest \/ UNCHANGED vars => UNCHANGED at
  BY DEF StopSignal, DefTest, vars
<1>14. \A c \in Lcore : LcoreTest(c) \/ LcoreRoute(c) => UNCHANGED at
  BY DEF LcoreTest, LcoreRoute
<1> QED
  BY <1>4, <1>5, <1>6, <1>8, <1>9, <1>10, <1>11, <1>12, <1>13, <1>14 DEF Next, LcoreStep, DefStep

LEMMA AbsInit == Init => Abs!Init
<1> SUFFICES ASSUME Init PROVE Abs!Init
  OBVIOUS
<1>1. PICK s \in PoolOrder : at = [a \in Place |-> IF a = Pool THEN s ELSE << >>]
  BY DEF Init
<1>2. MbufOwned
  BY CoreInit DEF Core
<1>3. ASSUME NEW m \in Mbuf PROVE Stage[m] = "pool"
  <2>1. Holds(Pool, m)
    BY <1>1, PlaceFacts DEF PoolOrder, Holds
  <2> QED BY <1>2, <2>1, StageIs, StageFacts, PlaceFacts
<1>4. Stage = [m \in Mbuf |-> Stage[m]]
  BY DEF Stage
<1> QED
  BY <1>3, <1>4 DEF Abs!Init

-------------------------------------------------------------------------------
(* The theorems.                                                           *)

(* The state of the forwarding plane is always well-typed.                 *)
THEOREM TypeCorrect == Spec => []TypeOK
  BY CoreAlways, PTL DEF Core

(* No buffer is lost or freed twice, for every number of buffers, lcores   *)
(* and ports, every burst size and every ring size.                        *)
THEOREM MbufSafe == Spec => []MbufOwned
  BY CoreAlways, PTL DEF Core

(* No thread leaves its loop or starts a burst with a buffer in hand.      *)
THEOREM BurstSafe == Spec => []BurstHeld
  BY CoreAlways, PTL DEF Core

(* Flow by User-Agent: every frame in a TX queue was routed there or took  *)
(* the default path.                                                       *)
THEOREM RouteSafe == Spec => []RouteKept
<1>1. Spec => [](Core /\ RouteInv)
  <2>1. Init => Core /\ RouteInv
    BY CoreInit, RouteInit
  <2>2. Core /\ RouteInv /\ [Next]_vars => (Core /\ RouteInv)'
    BY CoreNext, RouteNext
  <2> QED
    BY <2>1, <2>2, PTL DEF Spec
<1>2. Core /\ RouteInv => RouteKept
  BY DEF RouteInv
<1> QED
  BY <1>1, <1>2, PTL

(* Seen as owners of buffers, the forwarding plane is FlowMbuf: threads,   *)
(* rings and bursts take every buffer over once and give it up once, for   *)
(* any number of each.                                                     *)
THEOREM Refinement == Spec => MbufProtocol
<1>1. Init => Abs!Init
  BY AbsInit
<1>2. Core /\ [Next]_vars => [Abs!Next]_Stage
  BY AbsNext
<1> QED
  BY <1>1, <1>2, CoreAlways, PTL DEF Spec, MbufProtocol, Abs!Spec

(* What an lcore has to do for its burst: two steps for each mbuf, one less *)
(* for the first if it is already being sent.                              *)
BurstWork(c) == 2 * Len(at[Cpu(c)]) + (IF pc[c] = "fwd" THEN 1 ELSE 0)

(* Each step of the lcore is one of them, and nobody else adds to them.    *)
BurstShrinks ==
  [][\A c \in Lcore : at[Cpu(c)] # << >> =>
       IF LcoreStep(c) THEN BurstWork(c)' \in Nat /\ BurstWork(c)' < BurstWork(c)
       ELSE at'[Cpu(c)] = at[Cpu(c)] /\ pc'[c] = pc[c]]_vars

LEMMA OwnStep ==
  ASSUME Core, NEW c \in Lcore, at[Cpu(c)] # << >>, LcoreStep(c)
  PROVE  BurstWork(c)' \in Nat /\ BurstWork(c)' < BurstWork(c)
<1>1. /\ at \in [Place -> Seq(Mbuf)] /\ Cpu(c) \in Place /\ pc[c] \in {"fwd", "tx"}
      /\ pc \in [Lcore -> {"test", "rx", "fwd", "tx", "exit"}]
  BY PlaceFacts DEF Core, TypeOK, BurstHeld
<1>2. /\ 1 \in 0..Len(at[Cpu(c)]) /\ Len(at[Cpu(c)]) \in Nat
  BY <1>1, HeadFacts
<1>3. CASE LcoreRoute(c)
  <2>1. at' = at /\ pc[c] = "fwd" /\ pc'[c] = "tx"
    BY <1>1, <1>3 DEF LcoreRoute, Goto
  <2> QED BY <1>2, <2>1 DEF BurstWork
<1>4. ASSUME NEW b \in Place, Cpu(c) # b, Move(1, Cpu(c), b), AfterPacket(c)
      PROVE  BurstWork(c)' \in Nat /\ BurstWork(c)' < BurstWork(c)
  <2>1. Len(at'[Cpu(c)]) = Len(at[Cpu(c)]) - 1
    BY <1>1, <1>2, <1>4, MoveEffect
  <2>2. pc'[c] = "fwd" => Len(at[Cpu(c)]) > 1 \/ pc'[c] # "fwd"
    BY <1>1, <1>4 DEF AfterPacket, NextIteration, Goto
  <2>3. pc[c] = "tx" => 2 * (Len(at[Cpu(c)]) - 1) + 1 < 2 * Len(at[Cpu(c)])
    BY <1>2
  <2> QED BY <1>1, <1>2, <2>1, <2>3 DEF BurstWork
<1>5. CASE LcoreDefault(c)
  <2> DEFINE b == IF RingFull THEN Pool ELSE Ring
  <2>1. b \in Place /\ Cpu(c) # b
    BY PlaceFacts
  <2>2. Move(1, Cpu(c), b) /\ AfterPacket(c)
    BY <1>5 DEF LcoreDefault
  <2> HIDE DEF b
  <2> QED BY <1>4, <2>1, <2>2
<1>6. CASE LcoreTx(c)
  <2> DEFINE p == pkt[Head(at[Cpu(c)])].route
             b == IF TxFull(p, Queue(c)) THEN Pool ELSE Tx(p, Queue(c))
  <2>1. pc[c] = "tx" /\ Move(1, Cpu(c), b) /\ AfterPacket(c)
    BY <1>6 DEF LcoreTx
  <2>2. p \in Port
    BY <2>1, CpuHead
  <2> HIDE DEF p
  <2>3. b \in Place /\ Cpu(c) # b
    BY <2>2, PlaceFacts, PortFacts
  <2> HIDE DEF b
  <2> QED BY <1>4, <2>1, <2>3
<1> QED BY <1>1, <1>3, <1>5, <1>6 DEF LcoreStep, LcoreTest, LcoreRx

LEMMA OtherStep ==
  ASSUME Core, NEW c \in Lcore, Next, ~LcoreStep(c)
  PROVE  at'[Cpu(c)] = at[Cpu(c)] /\ pc'[c] = pc[c]
<1>1. /\ at \in [Place -> Seq(Mbuf)] /\ Cpu(c) \in Place
      /\ pc \in [Lcore -> {"test", "rx", "fwd", "tx", "exit"}]
  BY PlaceFacts DEF Core, TypeOK
<1>2. ASSUME NEW n, NEW a \in Place \ {Cpu(c)}, NEW b \in Place \ {Cpu(c)}, Move(n, a, b)
      PROVE  at'[Cpu(c)] = at[Cpu(c)]
  BY <1>1, <1>2 DEF Move
<1>3. ASSUME NEW p \in RxPort, NEW d \in Lcore, NEW f \in Packet, Arrive(p, d, f)
      PROVE  at'[Cpu(c)] = at[Cpu(c)] /\ pc'[c] = pc[c]
  BY <1>2, <1>3, PlaceFacts DEF Arrive
<1>4. ASSUME NEW p \in Port, NEW q \in TxQueue, TxDone(p, q)
      PROVE  at'[Cpu(c)] = at[Cpu(c)] /\ pc'[c] = pc[c]
  BY <1>2, <1>4, PlaceFacts DEF TxDone
<1>5. CASE StopSignal
  BY <1>5 DEF StopSignal
<1>6. ASSUME NEW d \in Lcore, LcoreStep(d)
      PROVE  at'[Cpu(c)] = at[Cpu(c)] /\ pc'[c] = pc[c]
  <2>1. d # c /\ Cpu(d) \in Place \ {Cpu(c)}
    BY <1>6, PlaceFacts
  <2>2. CASE LcoreTest(d) \/ LcoreRoute(d)
    BY <1>1, <2>1, <2>2 DEF LcoreTest, LcoreRoute, Goto
  <2>3. CASE LcoreRx(d)
    <3>1. pc'[c] = pc[c]
      BY <1>1, <2>1, <2>3 DEF LcoreRx, NextIteration, Goto
    <3>2. Rx(PolledPort(d), Queue(d)) \in Place \ {Cpu(c)}
      BY PlaceFacts, PortFacts DEF PolledPort
    <3> QED BY <1>2, <2>1, <2>3, <3>1, <3>2 DEF LcoreRx
  <2>4. AfterPacket(d) => pc'[c] = pc[c]
    BY <1>1, <2>1 DEF AfterPacket, NextIteration, Goto
  <2>5. CASE LcoreDefault(d)
    <3> DEFINE b == IF RingFull THEN Pool ELSE Ring
    <3>1. b \in Place \ {Cpu(c)}
      BY PlaceFacts
    <3>2. Move(1, Cpu(d), b) /\ AfterPacket(d)
      BY <2>5 DEF LcoreDefault
    <3> HIDE DEF b
    <3> QED BY <1>2, <2>1, <2>4, <3>1, <3>2
  <2>6. CASE LcoreTx(d)
    <3> DEFINE p == pkt[Head(at[Cpu(d)])].route
               b == IF TxFull(p, Queue(d)) THEN Pool ELSE Tx(p, Queue(d))
    <3>1. pc[d] = "tx" /\ Move(1, Cpu(d), b) /\ AfterPacket(d)
      BY <2>6 DEF LcoreTx
    <3>2. p \in Port
      BY <3>1, CpuHead
    <3> HIDE DEF p
    <3>3. b \in Place \ {Cpu(c)}
      BY <3>2, PlaceFacts, PortFacts
    <3> HIDE DEF b
    <3> QED BY <1>2, <2>1, <2>4, <3>1, <3>3
  <2> QED BY <1>6, <2>2, <2>3, <2>5, <2>6 DEF LcoreStep
<1>7. CASE DefStep
  <2>1. pc' = pc
    BY <1>7 DEF DefStep, DefTest, DefPop, DefTx
  <2>2. CASE DefTest
    BY <2>1, <2>2 DEF DefTest
  <2>3. CASE DefPop
    <3>1. at' = at \/ Move(1, Ring, Def)
      BY <2>3 DEF DefPop
    <3> QED BY <1>2, <2>1, <3>1, PlaceFacts
  <2>4. CASE DefTx
    <3> DEFINE b == IF TxFull(DefaultPort, dqueue) THEN Pool ELSE Tx(DefaultPort, dqueue)
    <3>1. b \in Place \ {Cpu(c)}
      BY PlaceFacts, PortFacts DEF Core, TypeOK
    <3>2. Move(1, Def, b)
      BY <2>4 DEF DefTx
    <3> HIDE DEF b
    <3> QED BY <1>2, <2>1, <3>1, <3>2, PlaceFacts
  <2> QED BY <1>7, <2>2, <2>3, <2>4 DEF DefStep
<1> QED BY <1>3, <1>4, <1>5, <1>6, <1>7 DEF Next

(* For any burst, full queues and full ring included: an lcore is through  *)
(* with a burst of n frames after at most 2n + 1 steps of its own, as      *)
(* flow_forward_module_forward never waits for a queue or tries again.     *)
THEOREM BurstBounded == Spec => BurstShrinks
<1>1. ASSUME Core, Next, NEW c \in Lcore, at[Cpu(c)] # << >>
      PROVE  IF LcoreStep(c) THEN BurstWork(c)' \in Nat /\ BurstWork(c)' < BurstWork(c)
             ELSE at'[Cpu(c)] = at[Cpu(c)] /\ pc'[c] = pc[c]
  BY <1>1, OwnStep, OtherStep
<1>2. Core /\ [Next]_vars =>
        [\A c \in Lcore : at[Cpu(c)] # << >> =>
           IF LcoreStep(c) THEN BurstWork(c)' \in Nat /\ BurstWork(c)' < BurstWork(c)
           ELSE at'[Cpu(c)] = at[Cpu(c)] /\ pc'[c] = pc[c]]_vars
  BY <1>1
<1> QED BY <1>2, CoreAlways, PTL DEF Spec, BurstShrinks

-------------------------------------------------------------------------------
(* The order of frames: the history.                                       *)

(* No frame is numbered beyond the arrivals.                               *)
Stamped ==
  /\ arrived \in Nat
  /\ stamp \in [Mbuf -> Nat]
  /\ source \in [Mbuf -> Place]
  /\ \A m \in Mbuf : stamp[m] <= arrived

(* A frame in an RX queue came in there; one in a burst came in on the     *)
(* queue its lcore polls.                                                  *)
Sourced ==
  /\ \A p \in RxPort, c \in Lcore, m \in Mbuf :
       Holds(Rx(p, Queue(c)), m) => source[m] = Rx(p, Queue(c))
  /\ \A c \in Lcore, m \in Mbuf :
       Holds(Cpu(c), m) => source[m] = Rx(PolledPort(c), Queue(c))

History == Stamped /\ Sourced

OInv == Core /\ RouteInv /\ History /\ InOrder

LEMMA StationFacts ==
  /\ \A p, q : Station(Rx(p, q)) = 1
  /\ \A c : Station(Cpu(c)) = 2
  /\ Station(Ring) = 3
  /\ Station(Def) = 4
  /\ \A p, q : Station(Tx(p, q)) = 5
  BY DEF Station, Rx, Cpu, Ring, Def, Tx

(* The places of each station.                                             *)
LEMMA StationPlaces ==
  ASSUME NEW x \in Place \ {Pool}
  PROVE  /\ Station(x) \in 1..5
         /\ Station(x) = 1 => \E p \in RxPort, c \in Lcore : x = Rx(p, Queue(c))
         /\ Station(x) = 2 => \E c \in Lcore : x = Cpu(c)
         /\ Station(x) = 3 => x = Ring
         /\ Station(x) = 4 => x = Def
<1>1. CASE x = Ring
  BY <1>1, StationFacts
<1>2. CASE x = Def
  BY <1>2, StationFacts
<1>3. CASE \E c \in Lcore : x = Cpu(c)
  BY <1>3, StationFacts
<1>4. CASE \E p \in RxPort, c \in Lcore : x = Rx(p, Queue(c))
  BY <1>4, StationFacts
<1>5. CASE \E p \in Port, q \in TxQueue : x = Tx(p, q)
  BY <1>5, StationFacts
<1> QED
  BY <1>1, <1>2, <1>3, <1>4, <1>5 DEF Place

(* Where lcores and queues coincide.                                       *)
LEMMA RxFacts ==
  \A p, q, r, s : Rx(p, q) = Rx(r, s) => p = r /\ q = s
  BY DEF Rx

-------------------------------------------------------------------------------
(* Moves and the order.                                                    *)

(* Where a buffer of a place was before Move(n, a, b).                     *)
LEMMA MoveOrigin ==
  ASSUME NEW a \in Place, NEW b \in Place, a # b,
         at \in [Place -> Seq(Mbuf)],
         NEW n \in 0..Len(at[a]),
         Move(n, a, b),
         NEW x \in Place, NEW i \in DOMAIN at'[x]
  PROVE  /\ i \in Nat /\ i >= 1
         /\ \/ /\ x = b /\ i > Len(at[b])
               /\ i - Len(at[b]) \in 1..n /\ i - Len(at[b]) \in DOMAIN at[a]
               /\ at'[x][i] = at[a][i - Len(at[b])]
            \/ /\ x = a /\ i + n \in DOMAIN at[a]
               /\ at'[x][i] = at[a][i + n]
            \/ /\ x # a /\ i \in DOMAIN at[x] /\ (x = b => i <= Len(at[b]))
               /\ at'[x][i] = at[x][i]
<1>1. /\ at' \in [Place -> Seq(Mbuf)]
      /\ Len(at'[a]) = Len(at[a]) - n
      /\ Len(at'[b]) = Len(at[b]) + n
      /\ \A k \in 1..(Len(at[a]) - n) : at'[a][k] = at[a][k + n]
      /\ \A k \in 1..Len(at[b]) : at'[b][k] = at[b][k]
      /\ \A k \in (Len(at[b]) + 1)..(Len(at[b]) + n) :
            at'[b][k] = at[a][k - Len(at[b])]
      /\ \A y \in Place \ {a, b} : at'[y] = at[y]
  BY MoveEffect
<1>2. \A y \in Place : /\ DOMAIN at[y] = 1..Len(at[y]) /\ Len(at[y]) \in Nat
                       /\ DOMAIN at'[y] = 1..Len(at'[y]) /\ Len(at'[y]) \in Nat
  BY <1>1, LenProperties
<1>3. i \in Nat /\ i >= 1 /\ n \in Nat
  BY <1>2
<1>4. CASE x = a
  <2>1. i \in 1..(Len(at[a]) - n) /\ i + n \in DOMAIN at[a]
    BY <1>1, <1>2, <1>3, <1>4
  <2> QED
    BY <1>1, <1>3, <1>4, <2>1
<1>5. CASE x = b /\ i > Len(at[b])
  <2>1. /\ i \in (Len(at[b]) + 1)..(Len(at[b]) + n)
        /\ i - Len(at[b]) \in 1..n /\ i - Len(at[b]) \in DOMAIN at[a]
    BY <1>1, <1>2, <1>3, <1>5
  <2> QED
    BY <1>1, <1>3, <1>5, <2>1
<1>6. CASE x = b /\ ~(i > Len(at[b]))
  <2>1. i \in 1..Len(at[b]) /\ i \in DOMAIN at[b] /\ i <= Len(at[b])
    BY <1>2, <1>3, <1>6
  <2> QED
    BY <1>1, <1>3, <1>6, <2>1
<1>7. CASE x \notin {a, b}
  BY <1>1, <1>3, <1>7
<1> QED
  BY <1>4, <1>5, <1>6, <1>7

(* A move forward keeps the order if no buffer it overtakes is on the path *)
(* of one it moves; a move to the pool keeps it anyway.                    *)
LEMMA MoveOrder ==
  ASSUME Core, InOrder,
         NEW a \in Place \ {Pool}, NEW b \in Place, a # b,
         NEW n \in 0..Len(at[a]),
         Move(n, a, b), UNCHANGED <<pkt, stamp, source>>,
         b # Pool =>
           /\ Station(a) < Station(b)
           /\ \A x \in Place \ {Pool, a} :
                Station(a) <= Station(x) /\ Station(x) < Station(b) =>
                  \A i \in DOMAIN at[x], k \in 1..n : ~SamePath(at[x][i], at[a][k])
  PROVE  InOrder'
<1> SUFFICES ASSUME NEW x \in Place \ {Pool}, NEW y \in Place \ {Pool},
                    NEW i \in DOMAIN at'[x], NEW j \in DOMAIN at'[y],
                    Ahead(y, j, x, i), SamePath(at'[x][i], at'[y][j])
             PROVE  stamp[at'[y][j]] < stamp[at'[x][i]]
  BY DEF InOrder, SamePath, Ahead
<1>1. at \in [Place -> Seq(Mbuf)] /\ Len(at[b]) \in Nat /\ n \in Nat
  BY HeadFacts DEF Core, TypeOK
<1> DEFINE MovedTo(z, k) == /\ z = b /\ k > Len(at[b])
                            /\ k - Len(at[b]) \in 1..n /\ k - Len(at[b]) \in DOMAIN at[a]
                            /\ at'[z][k] = at[a][k - Len(at[b])]
           Shifted(z, k) == z = a /\ k + n \in DOMAIN at[a] /\ at'[z][k] = at[a][k + n]
           Kept(z, k) == /\ z # a /\ k \in DOMAIN at[z] /\ (z = b => k <= Len(at[b]))
                         /\ at'[z][k] = at[z][k]
<1>2. i \in Nat /\ j \in Nat /\ i >= 1 /\ j >= 1
  BY <1>1, MoveOrigin
<1>3. MovedTo(x, i) \/ Shifted(x, i) \/ Kept(x, i)
  BY <1>1, MoveOrigin
<1>4. MovedTo(y, j) \/ Shifted(y, j) \/ Kept(y, j)
  BY <1>1, MoveOrigin
<1>5. /\ Station(x) \in 1..5 /\ Station(y) \in 1..5 /\ Station(a) \in 1..5
      /\ b # Pool => Station(b) \in 1..5
  BY StationPlaces
<1>6. ASSUME NEW X \in Place \ {Pool}, NEW Y \in Place \ {Pool},
             NEW I \in DOMAIN at[X], NEW J \in DOMAIN at[Y],
             at'[x][i] = at[X][I], at'[y][j] = at[Y][J], Ahead(Y, J, X, I)
      PROVE  stamp[at'[y][j]] < stamp[at'[x][i]]
  BY <1>6 DEF InOrder
<1> HIDE DEF MovedTo, Shifted, Kept
<1>7. CASE MovedTo(x, i) /\ MovedTo(y, j)
  <2>1. j - Len(at[b]) < i - Len(at[b])
    BY <1>1, <1>2, <1>5, <1>7 DEF MovedTo, Ahead
  <2> QED
    BY <1>6, <1>7, <2>1 DEF MovedTo, Ahead
<1>8. CASE MovedTo(x, i) /\ Shifted(y, j)
  BY <1>5, <1>8 DEF MovedTo, Shifted, Ahead
<1>9. CASE MovedTo(x, i) /\ Kept(y, j)
  <2>1. Station(a) < Station(y)
    BY <1>1, <1>2, <1>5, <1>9 DEF MovedTo, Kept, Ahead
  <2> QED
    BY <1>6, <1>9, <2>1 DEF MovedTo, Kept, Ahead
<1>10. CASE Shifted(x, i) /\ MovedTo(y, j)
  <2>1. j - Len(at[b]) < i + n
    BY <1>1, <1>2, <1>10 DEF MovedTo
  <2> QED
    BY <1>6, <1>10, <2>1 DEF MovedTo, Shifted, Ahead
<1>11. CASE Shifted(x, i) /\ Shifted(y, j)
  <2>1. j + n < i + n
    BY <1>1, <1>2, <1>5, <1>11 DEF Shifted, Ahead
  <2> QED
    BY <1>6, <1>11, <2>1 DEF Shifted, Ahead
<1>12. CASE Shifted(x, i) /\ Kept(y, j)
  <2>1. Station(x) < Station(y)
    BY <1>12 DEF Shifted, Kept, Ahead
  <2> QED
    BY <1>6, <1>12, <2>1 DEF Shifted, Kept, Ahead
<1>13. CASE Kept(x, i) /\ MovedTo(y, j)
  <2>1. x # a /\ Station(x) < Station(b) /\ b # Pool
    BY <1>1, <1>2, <1>13 DEF Kept, MovedTo, Ahead
  <2>2. ~(Station(a) <= Station(x))
    BY <1>13, <2>1 DEF Kept, MovedTo, SamePath
  <2>3. Station(x) < Station(a)
    BY <1>5, <2>2
  <2> QED
    BY <1>6, <1>13, <2>3 DEF Kept, MovedTo, Ahead
<1>14. CASE Kept(x, i) /\ Shifted(y, j)
  <2>1. Station(x) < Station(y)
    BY <1>14 DEF Shifted, Kept, Ahead
  <2> QED
    BY <1>6, <1>14, <2>1 DEF Shifted, Kept, Ahead
<1>15. CASE Kept(x, i) /\ Kept(y, j)
  BY <1>6, <1>15 DEF Kept, Ahead
<1> QED
  BY <1>3, <1>4, <1>7, <1>8, <1>9, <1>10, <1>11, <1>12, <1>13, <1>14, <1>15

-------------------------------------------------------------------------------
(* The history is kept.                                                    *)

(* A move from an RX queue to its lcore, or to a place that says nothing   *)
(* of sources, keeps Sourced.                                              *)
LEMMA MoveSourced ==
  ASSUME Core, Sourced,
         NEW a \in Place, NEW b \in Place, a # b,
         NEW n \in 0..Len(at[a]),
         Move(n, a, b), UNCHANGED source,
         \A p \in RxPort, c \in Lcore : b # Rx(p, Queue(c)),
         \A c \in Lcore : b = Cpu(c) => a = Rx(PolledPort(c), Queue(c))
  PROVE  Sourced'
<1>1. at \in [Place -> Seq(Mbuf)] /\ n \in Nat
  BY HeadFacts DEF Core, TypeOK
<1>2. \A k \in 1..n : k \in DOMAIN at[a] /\ at[a][k] \in Mbuf
  BY <1>1, HeadFacts, LenProperties, ElementOfSeq
<1>3. ASSUME NEW x \in Place, NEW m \in Mbuf, Holds(x, m)'
      PROVE  Holds(x, m) \/ (x = b /\ Holds(a, m))
  <2>1. Holds(x, m) \/ (x = b /\ \E i \in 1..n : at[a][i] = m)
    BY <1>1, <1>3, MoveHolds
  <2>2. (\E i \in 1..n : at[a][i] = m) => Holds(a, m)
    BY <1>2 DEF Holds
  <2> QED
    BY <2>1, <2>2
<1>4. ASSUME NEW p \in RxPort, NEW c \in Lcore, NEW m \in Mbuf, Holds(Rx(p, Queue(c)), m)'
      PROVE  source'[m] = Rx(p, Queue(c))
  BY <1>3, <1>4, PlaceFacts DEF Sourced
<1>5. ASSUME NEW c \in Lcore, NEW m \in Mbuf, Holds(Cpu(c), m)'
      PROVE  source'[m] = Rx(PolledPort(c), Queue(c))
  <2>1. Holds(Cpu(c), m) \/ (Cpu(c) = b /\ Holds(a, m))
    BY <1>3, <1>5, PlaceFacts
  <2>2. PolledPort(c) \in RxPort
    BY PortFacts DEF PolledPort
  <2> QED
    BY <2>1, <2>2 DEF Sourced
<1> QED
  BY <1>4, <1>5 DEF Sourced

(* The frames of different bursts came in on different queues.             *)
LEMMA BurstsApart ==
  ASSUME Core, Sourced, NEW c \in Lcore, NEW d \in Lcore, c # d,
         NEW m \in Mbuf, NEW k \in Mbuf, Holds(Cpu(c), m), Holds(Cpu(d), k)
  PROVE  ~SamePath(k, m)
  BY PortFacts, RxFacts DEF Sourced, SamePath

(* Both parts of the invariant across a move out of a burst: the others at *)
(* the same station are on other RX queues, and what is in the ring or     *)
(* with the defsend thread takes the other path if the frame is sent.      *)
LEMMA LcoreMove ==
  ASSUME Core, RingDefault, Sourced, InOrder, NEW c \in Lcore, at[Cpu(c)] # << >>,
         NEW b \in Place,
         b = Pool \/ b = Ring
           \/ (~ToDefault(pkt[at[Cpu(c)][1]]) /\ \E p \in Port, q \in TxQueue : b = Tx(p, q)),
         Move(1, Cpu(c), b), UNCHANGED <<pkt, stamp, source>>
  PROVE  InOrder' /\ Sourced'
<1>1. /\ Cpu(c) \in Place \ {Pool} /\ Cpu(c) # b
      /\ \A p \in RxPort, d \in Lcore : b # Rx(p, Queue(d))
      /\ \A d \in Lcore : b # Cpu(d)
  BY PlaceFacts
<1>2. /\ at \in [Place -> Seq(Mbuf)] /\ 1 \in 0..Len(at[Cpu(c)]) /\ 1 \in DOMAIN at[Cpu(c)]
      /\ at[Cpu(c)][1] \in Mbuf
  BY <1>1, HeadFacts DEF Core, TypeOK
<1>3. b # Pool => Station(Cpu(c)) < Station(b) /\ Station(b) \in {3, 5}
  BY StationFacts
<1>4. ASSUME b # Pool, NEW x \in Place \ {Pool, Cpu(c)},
             2 <= Station(x), Station(x) < Station(b), NEW i \in DOMAIN at[x]
      PROVE  ~SamePath(at[x][i], at[Cpu(c)][1])
  <2>1. at[x][i] \in Mbuf /\ Holds(x, at[x][i]) /\ Holds(Cpu(c), at[Cpu(c)][1])
    BY <1>2, ElementOfSeq, LenProperties DEF Holds
  <2>2. CASE \E d \in Lcore : x = Cpu(d)
    BY <1>2, <1>4, <2>1, <2>2, BurstsApart
  <2>3. CASE x = Ring \/ x = Def
    <3>1. ToDefault(pkt[at[x][i]])
      BY <2>1, <2>3 DEF RingDefault
    <3>2. b # Ring
      BY <1>4, <2>3, StationFacts
    <3>3. ~ToDefault(pkt[at[Cpu(c)][1]])
      BY <1>4, <3>2
    <3> QED
      BY <3>1, <3>3 DEF SamePath
  <2>4. Station(x) \in {2, 3, 4}
    BY <1>3, <1>4, StationPlaces
  <2> QED
    BY <2>2, <2>3, <2>4, StationPlaces
<1>5. b # Pool => \A x \in Place \ {Pool, Cpu(c)} :
         Station(Cpu(c)) <= Station(x) /\ Station(x) < Station(b) =>
           \A i \in DOMAIN at[x], k \in 1..1 : ~SamePath(at[x][i], at[Cpu(c)][k])
  <2>1. Station(Cpu(c)) = 2 /\ \A k \in 1..1 : k = 1
    BY StationFacts
  <2> QED
    BY <1>4, <2>1
<1>6. InOrder'
  BY <1>1, <1>2, <1>3, <1>5, MoveOrder
<1>7. Sourced'
  BY <1>1, <1>2, MoveSourced
<1> QED
  BY <1>6, <1>7

-------------------------------------------------------------------------------
(* Every step keeps the invariant.                                         *)

(* A frame that arrives is the youngest, and last in its queue; its buffer *)
(* was in no other place, so nothing else changes its number or its path.  *)
LEMMA ArriveOrder ==
  ASSUME OInv, NEW p \in RxPort, NEW c \in Lcore, NEW f \in Packet, HArrive(p, c, f)
  PROVE  History' /\ InOrder'
<1> DEFINE b == Rx(p, Queue(c))
           h == Head(at[Pool])
<1>1. /\ at[Pool] # << >> /\ Move(1, Pool, b) /\ pkt' = [pkt EXCEPT ![h] = f]
      /\ arrived' = arrived + 1 /\ stamp' = [stamp EXCEPT ![h] = arrived']
      /\ source' = [source EXCEPT ![h] = b]
  BY DEF HArrive, Arrive
<1>2. /\ Core /\ Stamped /\ Sourced /\ InOrder
      /\ at \in [Place -> Seq(Mbuf)] /\ pkt \in [Mbuf -> Packet]
  BY DEF OInv, History, Core, TypeOK
<1>3. Pool \in Place /\ b \in Place /\ Pool # b /\ Station(b) = 1
  BY PlaceFacts, StationFacts
<1>4. /\ 1 \in 0..Len(at[Pool]) /\ 1 \in DOMAIN at[Pool]
      /\ at[Pool][1] = h /\ h \in Mbuf /\ Len(at[b]) \in Nat
  BY <1>1, <1>2, <1>3, HeadFacts
<1> HIDE DEF b, h
<1>5. Stamped'
  BY <1>1, <1>2, <1>3, <1>4 DEF Stamped
<1>6. ASSUME NEW x \in Place \ {Pool}, NEW i \in DOMAIN at'[x]
      PROVE  \/ /\ x = b /\ i = Len(at[b]) + 1 /\ at'[x][i] = h
             \/ /\ i \in DOMAIN at[x] /\ at'[x][i] = at[x][i] /\ at[x][i] \in Mbuf
                /\ at[x][i] # h /\ (x = b => i <= Len(at[b]))
  <2>1. \/ /\ x = b /\ i > Len(at[b]) /\ i - Len(at[b]) \in 1..1
           /\ at'[x][i] = at[Pool][i - Len(at[b])]
        \/ /\ i \in DOMAIN at[x] /\ (x = b => i <= Len(at[b])) /\ at'[x][i] = at[x][i]
    <3>1. x \in Place /\ x # Pool
      OBVIOUS
    <3>2. \/ /\ x = b /\ i > Len(at[b])
             /\ i - Len(at[b]) \in 1..1 /\ i - Len(at[b]) \in DOMAIN at[Pool]
             /\ at'[x][i] = at[Pool][i - Len(at[b])]
          \/ /\ x = Pool /\ i + 1 \in DOMAIN at[Pool]
             /\ at'[x][i] = at[Pool][i + 1]
          \/ /\ x # Pool /\ i \in DOMAIN at[x] /\ (x = b => i <= Len(at[b]))
             /\ at'[x][i] = at[x][i]
      BY <1>1, <1>2, <1>3, <1>4, <3>1, MoveOrigin
    <3> QED
      BY <3>1, <3>2
  <2>2. i \in Nat
    BY <1>1, <1>2, <1>3, <1>4, MoveOrigin
  <2>3. i - Len(at[b]) \in 1..1 => i = Len(at[b]) + 1 /\ i - Len(at[b]) = 1
    BY <1>4, <2>2
  <2>4. i \in DOMAIN at[x] => at[x][i] \in Mbuf /\ at[x][i] # h
    <3>1. ASSUME i \in DOMAIN at[x] PROVE at[x][i] \in Mbuf /\ Holds(x, at[x][i])
      BY <1>2, <3>1, ElementOfSeq, LenProperties DEF Holds
    <3> QED
      BY <1>1, <1>2, <3>1, PoolHead DEF h
  <2> QED
    BY <1>4, <2>1, <2>3, <2>4
<1>7. \A m \in Mbuf : m # h => /\ stamp'[m] = stamp[m] /\ stamp[m] <= arrived
                               /\ source'[m] = source[m] /\ pkt'[m] = pkt[m]
  BY <1>1, <1>2 DEF Stamped
<1>8. stamp'[h] = arrived + 1 /\ source'[h] = b /\ arrived \in Nat /\ stamp \in [Mbuf -> Nat]
  BY <1>1, <1>2, <1>4 DEF Stamped
<1>9. Sourced'
  <2>1. ASSUME NEW x \in Place \ {Pool}, NEW m \in Mbuf, Holds(x, m)'
        PROVE  (x = b /\ m = h) \/ (Holds(x, m) /\ m # h)
    BY <1>6, <2>1 DEF Holds
  <2>2. ASSUME NEW q \in RxPort, NEW d \in Lcore, NEW m \in Mbuf, Holds(Rx(q, Queue(d)), m)'
        PROVE  source'[m] = Rx(q, Queue(d))
    <3>1. Rx(q, Queue(d)) \in Place \ {Pool}
      BY PlaceFacts
    <3> QED
      BY <1>2, <1>7, <1>8, <2>1, <2>2, <3>1 DEF Sourced
  <2>3. ASSUME NEW d \in Lcore, NEW m \in Mbuf, Holds(Cpu(d), m)'
        PROVE  source'[m] = Rx(PolledPort(d), Queue(d))
    <3>1. Cpu(d) \in Place \ {Pool} /\ Cpu(d) # b
      BY PlaceFacts DEF b
    <3> QED
      BY <1>2, <1>7, <2>1, <2>3, <3>1 DEF Sourced
  <2> QED
    BY <2>2, <2>3 DEF Sourced
<1>10. InOrder'
  <2> SUFFICES ASSUME NEW x \in Place \ {Pool}, NEW y \in Place \ {Pool},
                      NEW i \in DOMAIN at'[x], NEW j \in DOMAIN at'[y],
                      Ahead(y, j, x, i),
                      source'[at'[x][i]] = source'[at'[y][j]],
                      ToDefault(pkt'[at'[x][i]]) = ToDefault(pkt'[at'[y][j]])
               PROVE  stamp'[at'[y][j]] < stamp'[at'[x][i]]
    BY DEF InOrder, SamePath, Ahead
  <2>1. Station(x) \in 1..5
    BY StationPlaces
  <2>2. CASE y = b /\ j = Len(at[b]) + 1 /\ at'[y][j] = h
    <3>1. x = b /\ j < i
      BY <1>3, <2>1, <2>2 DEF Ahead
    <3>2. ~(i = Len(at[b]) + 1) /\ ~(i <= Len(at[b]))
      <4>1. i \in Nat
        BY <1>1, <1>2, <1>3, <1>4, MoveOrigin
      <4> QED
        BY <1>4, <2>2, <3>1, <4>1
    <3> QED
      BY <1>6, <3>1, <3>2
  <2>3. CASE at'[y][j] # h /\ at'[x][i] = h
    <3>1. at'[y][j] \in Mbuf
      BY <1>6, <2>3
    <3>2. stamp'[at'[y][j]] <= arrived /\ stamp'[at'[y][j]] \in Nat
      BY <1>7, <1>8, <2>3, <3>1
    <3> QED
      BY <1>8, <2>3, <3>2
  <2>4. CASE at'[y][j] # h /\ at'[x][i] # h
    <3>1. /\ i \in DOMAIN at[x] /\ at'[x][i] = at[x][i] /\ at[x][i] \in Mbuf
          /\ j \in DOMAIN at[y] /\ at'[y][j] = at[y][j] /\ at[y][j] \in Mbuf
      BY <1>6, <2>4
    <3>2. SamePath(at[x][i], at[y][j])
      BY <1>7, <2>4, <3>1 DEF SamePath
    <3>3. stamp[at[y][j]] < stamp[at[x][i]]
      BY <1>2, <3>1, <3>2 DEF InOrder
    <3> QED
      BY <1>7, <2>4, <3>1, <3>3
  <2> QED
    BY <1>6, <2>2, <2>3, <2>4
<1> QED
  BY <1>5, <1>9, <1>10 DEF History

(* A burst passes from an RX queue to its lcore: the other RX queues hold  *)
(* frames of other sources.                                                *)
LEMMA ReceiveOrder ==
  ASSUME OInv, UNCHANGED <<stamp, source>>, NEW c \in Lcore, LcoreRx(c)
  PROVE  Sourced' /\ InOrder'
<1> DEFINE rxq == Rx(PolledPort(c), Queue(c))
           n   == IF Len(at[rxq]) < BurstSize THEN Len(at[rxq]) ELSE BurstSize
<1>1. /\ Core /\ Sourced /\ InOrder /\ at \in [Place -> Seq(Mbuf)]
      /\ UNCHANGED pkt /\ (UNCHANGED at \/ Move(n, rxq, Cpu(c)))
  BY DEF OInv, History, Core, TypeOK, LcoreRx
<1>2. /\ rxq \in Place \ {Pool} /\ Cpu(c) \in Place /\ rxq # Cpu(c) /\ Cpu(c) # Pool
      /\ PolledPort(c) \in RxPort
      /\ \A p \in RxPort, d \in Lcore : Cpu(c) # Rx(p, Queue(d))
      /\ \A d \in Lcore : Cpu(c) = Cpu(d) => c = d
      /\ Station(rxq) = 1 /\ Station(Cpu(c)) = 2
  BY PlaceFacts, PortFacts, StationFacts DEF PolledPort
<1>3. Len(at[rxq]) \in Nat /\ BurstSize \in Nat /\ n \in 0..Len(at[rxq])
  BY <1>1, <1>2, HeadFacts, ForwardAssumption
<1>4. ASSUME NEW x \in Place \ {Pool, rxq}, Station(x) < 2,
             NEW i \in DOMAIN at[x], NEW k \in 1..n
      PROVE  ~SamePath(at[x][i], at[rxq][k])
  <2>1. PICK p \in RxPort, d \in Lcore : x = Rx(p, Queue(d))
    BY <1>4, StationPlaces
  <2>2. at[x][i] \in Mbuf /\ Holds(x, at[x][i])
    BY <1>1, ElementOfSeq, LenProperties DEF Holds
  <2>3. k \in DOMAIN at[rxq] /\ at[rxq][k] \in Mbuf
    <3>1. k \in 1..Len(at[rxq])
      BY <1>3
    <3> QED
      BY <1>1, <1>2, <3>1, ElementOfSeq, LenProperties
  <2>4. Holds(rxq, at[rxq][k])
    BY <2>3 DEF Holds
  <2>5. source[at[x][i]] = x /\ source[at[rxq][k]] = rxq
    BY <1>1, <1>2, <2>1, <2>2, <2>3, <2>4 DEF Sourced
  <2> QED
    BY <2>5 DEF SamePath
<1> HIDE DEF n
<1>5. CASE UNCHANGED at
  <2>1. UNCHANGED <<at, pkt, stamp, source>>
    BY <1>1, <1>5
  <2> QED
    BY <1>1, <2>1 DEF Sourced, InOrder, SamePath, Holds
<1>6. CASE Move(n, rxq, Cpu(c))
  <2>1. Sourced'
    BY <1>1, <1>2, <1>3, <1>6, MoveSourced
  <2> HIDE DEF rxq
  <2>2. InOrder'
    BY <1>1, <1>2, <1>3, <1>4, <1>6, MoveOrder
  <2> QED
    BY <2>1, <2>2
<1> QED
  BY <1>1, <1>5, <1>6

(* The steps that take one buffer on, or back to the pool.                 *)
LEMMA RestOrder ==
  ASSUME OInv, HRest
  PROVE  Sourced' /\ InOrder'
<1>0. /\ Core /\ RingDefault /\ Sourced /\ InOrder /\ at \in [Place -> Seq(Mbuf)]
      /\ BurstHeld /\ UNCHANGED <<stamp, source>>
  BY DEF OInv, History, RouteInv, Core, TypeOK, HRest
<1>1. ASSUME UNCHANGED <<at, pkt>> PROVE Sourced' /\ InOrder'
  BY <1>0, <1>1 DEF Sourced, InOrder, SamePath, Holds
<1>2. ASSUME NEW p \in Port, NEW q \in TxQueue, TxDone(p, q)
      PROVE  Sourced' /\ InOrder'
  <2>1. /\ Tx(p, q) \in Place \ {Pool} /\ Pool \in Place /\ Tx(p, q) # Pool
        /\ \A r \in RxPort, d \in Lcore : Pool # Rx(r, Queue(d))
        /\ \A d \in Lcore : Pool # Cpu(d)
    BY PlaceFacts
  <2>2. at[Tx(p, q)] # << >> /\ Move(1, Tx(p, q), Pool) /\ UNCHANGED pkt
    BY <1>2 DEF TxDone
  <2>3. 1 \in 0..Len(at[Tx(p, q)])
    BY <1>0, <2>1, <2>2, HeadFacts
  <2> QED
    BY <1>0, <2>1, <2>2, <2>3, MoveOrder, MoveSourced
<1>3. ASSUME NEW c \in Lcore, LcoreRx(c)
      PROVE  Sourced' /\ InOrder'
  BY <1>0, <1>3, ReceiveOrder
<1>4. ASSUME NEW c \in Lcore, LcoreDefault(c)
      PROVE  Sourced' /\ InOrder'
  <2>1. /\ pc[c] = "fwd" /\ UNCHANGED pkt
        /\ Move(1, Cpu(c), IF RingFull THEN Pool ELSE Ring)
    BY <1>4 DEF LcoreDefault
  <2>2. at[Cpu(c)] # << >>
    BY <1>0, <2>1 DEF BurstHeld
  <2> QED
    BY <1>0, <2>1, <2>2, LcoreMove, PlaceFacts
<1>5. ASSUME NEW c \in Lcore, LcoreTx(c)
      PROVE  Sourced' /\ InOrder'
  <2> DEFINE p == pkt[Head(at[Cpu(c)])].route
             b == IF TxFull(p, Queue(c)) THEN Pool ELSE Tx(p, Queue(c))
  <2>1. pc[c] = "tx" /\ UNCHANGED pkt /\ Move(1, Cpu(c), b)
    BY <1>5 DEF LcoreTx
  <2>2. at[Cpu(c)] # << >> /\ Cpu(c) \in Place
    BY <1>0, <2>1, PlaceFacts DEF BurstHeld
  <2>3. p \in Port /\ Queue(c) \in TxQueue
    BY <1>0, <2>1, CpuHead, PortFacts
  <2>4. ~ToDefault(pkt[at[Cpu(c)][1]])
    BY <1>0, <2>1, <2>2, HeadFacts DEF Core, Sending
  <2>5. b \in Place /\ (b = Pool \/ \E r \in Port, q \in TxQueue : b = Tx(r, q))
    BY <2>3, PlaceFacts
  <2> HIDE DEF b
  <2> QED
    BY <1>0, <2>1, <2>2, <2>4, <2>5, LcoreMove
<1>6. ASSUME DefPop PROVE Sourced' /\ InOrder'
  <2>1. UNCHANGED pkt /\ (UNCHANGED at \/ (at[Ring] # << >> /\ Move(1, Ring, Def)))
    BY <1>6 DEF DefPop
  <2>2. /\ Ring \in Place \ {Pool} /\ Def \in Place /\ Ring # Def
        /\ \A r \in RxPort, d \in Lcore : Def # Rx(r, Queue(d))
        /\ \A d \in Lcore : Def # Cpu(d)
        /\ Station(Ring) = 3 /\ Station(Def) = 4
    BY PlaceFacts, StationFacts
  <2>3. \A x \in Place \ {Pool, Ring} : ~(Station(Ring) <= Station(x) /\ Station(x) < Station(Def))
    BY <2>2, StationPlaces
  <2>4. at[Ring] # << >> => 1 \in 0..Len(at[Ring])
    BY <1>0, <2>2, HeadFacts
  <2> QED
    BY <1>0, <1>1, <2>1, <2>2, <2>3, <2>4, MoveOrder, MoveSourced
<1>7. ASSUME DefTx PROVE Sourced' /\ InOrder'
  <2> DEFINE b == IF TxFull(DefaultPort, dqueue) THEN Pool ELSE Tx(DefaultPort, dqueue)
  <2>1. dpc = "tx" /\ UNCHANGED pkt /\ Move(1, Def, b)
    BY <1>7 DEF DefTx
  <2>2. dqueue \in TxQueue
    BY PortFacts DEF OInv, Core, TypeOK
  <2>3. /\ Def \in Place \ {Pool} /\ b \in Place /\ Def # b
        /\ \A r \in RxPort, d \in Lcore : b # Rx(r, Queue(d))
        /\ \A d \in Lcore : b # Cpu(d)
        /\ Station(Def) = 4 /\ (b # Pool => Station(b) = 5)
    BY <2>2, PlaceFacts, PortFacts, StationFacts
  <2> HIDE DEF b
  <2>4. \A x \in Place \ {Pool, Def} : ~(Station(Def) <= Station(x) /\ Station(x) < 5)
    BY <2>3, StationPlaces
  <2>5. 1 \in 0..Len(at[Def])
    BY <1>0, <2>1, <2>3, HeadFacts DEF BurstHeld
  <2> QED
    BY <1>0, <2>1, <2>3, <2>4, <2>5, MoveOrder, MoveSourced
<1>8. StopSignal \/ DefTest => UNCHANGED <<at, pkt>>
  BY DEF StopSignal, DefTest
<1>9. \A c \in Lcore : LcoreTest(c) \/ LcoreRoute(c) => UNCHANGED <<at, pkt>>
  BY DEF LcoreTest, LcoreRoute
<1> QED
  BY <1>1, <1>2, <1>3, <1>4, <1>5, <1>6, <1>7, <1>8, <1>9 DEF HRest, LcoreStep, DefStep

LEMMA OrderInit == HInit => OInv
<1> SUFFICES ASSUME HInit PROVE OInv
  OBVIOUS
<1>1. PICK s \in PoolOrder : at = [a \in Place |-> IF a = Pool THEN s ELSE << >>]
  BY DEF HInit, Init
<1>2. \A a \in Place \ {Pool} : DOMAIN at[a] = {}
  BY <1>1
<1>3. Core /\ RouteInv
  BY CoreInit, RouteInit DEF HInit
<1>4. Stamped
  BY PlaceFacts DEF HInit, Stamped
<1>5. Sourced
  BY <1>2, PlaceFacts DEF Sourced, Holds
<1>6. InOrder
  BY <1>2 DEF InOrder
<1> QED
  BY <1>3, <1>4, <1>5, <1>6 DEF OInv, History

LEMMA OrderNext == OInv /\ [HNext]_hvars => OInv'
<1> SUFFICES ASSUME OInv, [HNext]_hvars PROVE OInv'
  OBVIOUS
<1>1. [Next]_vars
  BY DEF HNext, HRest, HArrive, Next, hvars
<1>2. Core' /\ RouteInv'
  BY <1>1, CoreNext, RouteNext DEF OInv
<1>3. CASE HRest
  <2>1. Stamped'
    BY <1>3 DEF HRest, OInv, History, Stamped
  <2> QED
    BY <1>2, <1>3, <2>1, RestOrder DEF OInv, History
<1>4. CASE \E p \in RxPort, c \in Lcore, f \in Packet : HArrive(p, c, f)
  BY <1>2, <1>4, ArriveOrder DEF OInv
<1>5. CASE UNCHANGED hvars
  BY <1>2, <1>5
  DEF OInv, History, Stamped, Sourced, InOrder, SamePath, Holds, hvars, vars
<1> QED
  BY <1>3, <1>4, <1>5 DEF HNext

-------------------------------------------------------------------------------
(* Frames that come in on one RX queue and take the same path are never    *)
(* overtaken by one another, between bursts, the ring that all lcores      *)
(* share, the defsend thread and the TX queues, for any number of lcores,  *)
(* ports and frames.                                                       *)
THEOREM OrderKept == HSpec => []InOrder
<1>1. OInv => InOrder
  BY DEF OInv
<1> QED
  BY <1>1, OrderInit, OrderNext, PTL DEF HSpec
===============================================================================
