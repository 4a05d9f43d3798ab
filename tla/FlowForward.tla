----------------------------- MODULE FlowForward ------------------------------
(***************************************************************************)
(* The forwarding plane: the worker lcores of flow_dpdk.c and              *)
(* flow_forward.c, the dispatch decision of flow_ua_common.c, the default  *)
(* path of flow_forward_defsend.c (a ring and the thread that drains it),  *)
(* and the NIC around them.                                                *)
(*                                                                         *)
(* Every packet buffer sits in exactly one place, a queue or a thread, and *)
(* every step moves buffers from one place to another; `at' records the    *)
(* contents of each place in order.  A frame's contents are abstracted to  *)
(* what the code branches on (Packet).  The NIC and the DPDK ring are      *)
(* outside the repository and are modelled from their use here.            *)
(***************************************************************************)
EXTENDS Integers, Sequences, FiniteSets

CONSTANTS
  Mbuf,          \* the mbufs of flow_pktmbuf_pool
  Lcore,         \* worker lcores with an RX queue (0 is the master lcore)
  Port,          \* Ethernet ports
  RxPorts,       \* flow_config_rx_idx_list: the RX ports, in order
  DefaultPort,   \* flow_config_tx_idx_list[0]->idx
  DefQueue,      \* the values byte 17 of a frame & getaliq() may take
  Packet,        \* the kinds of frames that arrive
  BurstSize,     \* MAX_PKT_BURST
  RingSize,      \* slots of flow_forward_defsend_ring
  TxDesc         \* descriptors of one TX queue

(* queueid = lcore_id - 1: an lcore polls and feeds the queue of its own   *)
(* number.                                                                 *)
Queue(c) == c - 1

RxPort == {RxPorts[i] : i \in DOMAIN RxPorts}

TxQueue == {Queue(c) : c \in Lcore} \cup DefQueue

(* A frame: the NIC's L3 flag; whether it is TCP with a payload; whether   *)
(* the parser saw a header value (node.oncplt); and the port the search    *)
(* for that value yields, -1 for no match.                                 *)
Frame == [l3 : {"v4", "v6", "none"}, tcp : BOOLEAN, ua : BOOLEAN,
          route : Port \cup {-1}]

ASSUME ForwardAssumption ==
  /\ IsFiniteSet(Mbuf)
  /\ Lcore \subseteq Nat \ {0}
  /\ Port \subseteq Nat
  /\ RxPorts \in Seq(Port) /\ RxPorts # << >>
  /\ DefaultPort \in Port
  /\ DefQueue \subseteq Nat /\ DefQueue # {}
  /\ Packet \subseteq Frame /\ Packet # {}
  /\ BurstSize \in Nat \ {0}
  /\ RingSize \in Nat \ {0}
  /\ TxDesc \in Nat \ {0}

VARIABLES
  at,        \* at[place]: the mbufs there, in order
  pkt,       \* pkt[m]: the frame in mbuf m
  pc,        \* pc[c]: where lcore c is
  iter,      \* iter[c]: the variable i of flow_forward_module_forward
  dpc,       \* where the defsend thread is
  dqueue,    \* the defsend thread's queueid
  runflag    \* flow_dpdk_core_run_flag: set when the program must stop

vars == <<at, pkt, pc, iter, dpc, dqueue, runflag>>

(* The places a buffer can be in. *)
Pool      == <<"pool", 0, 0>>
Rx(p, q)  == <<"rx", p, q>>
Cpu(c)    == <<"lcore", c, 0>>
Ring      == <<"ring", 0, 0>>
Def       == <<"defsend", 0, 0>>
Tx(p, q)  == <<"tx", p, q>>

Place ==
  {Pool, Ring, Def} \cup {Cpu(c) : c \in Lcore}
    \cup {Rx(p, Queue(c)) : p \in RxPort, c \in Lcore}
    \cup {Tx(p, q) : p \in Port, q \in TxQueue}

(* Mutant of Move: a queue is filled at its head.                          *)
MoveLifo(n, a, b) ==
  at' = [at EXCEPT ![a] = SubSeq(@, n + 1, Len(@)),
                   ![b] = SubSeq(at[a], 1, n) \o @]

(* Mutant of Move: a queue is emptied from its tail.                       *)
MoveNewest(n, a, b) ==
  at' = [at EXCEPT ![a] = SubSeq(@, 1, Len(@) - n),
                   ![b] = @ \o SubSeq(at[a], Len(at[a]) - n + 1, Len(at[a]))]

(* The first n buffers of place a go, in order, to the end of place b.     *)
Move(n, a, b) ==
  at' = [at EXCEPT ![a] = SubSeq(@, n + 1, Len(@)),
                   ![b] = @ \o SubSeq(at[a], 1, n)]

(* The pool starts with every mbuf, each once, in some order.              *)
PoolOrder ==
  {s \in [1..Cardinality(Mbuf) -> Mbuf] :
     /\ \A m \in Mbuf : \E i \in DOMAIN s : s[i] = m
     /\ \A i, j \in DOMAIN s : s[i] = s[j] => i = j}

Init ==
  /\ \E s \in PoolOrder :
       at = [a \in Place |-> IF a = Pool THEN s ELSE << >>]
  /\ \E f \in Packet : pkt = [m \in Mbuf |-> f]
  /\ pc = [c \in Lcore |-> "test"]
  /\ iter = [c \in Lcore |-> 1]
  /\ dpc = "test"
  /\ \E d \in DefQueue : dqueue = d
  /\ runflag = FALSE

-------------------------------------------------------------------------------
(* The NIC, and the signal handler that asks the program to stop.          *)

Arrive(p, c, f) ==
  /\ at[Pool] # << >>
  /\ Move(1, Pool, Rx(p, Queue(c)))
  /\ pkt' = [pkt EXCEPT ![Head(at[Pool])] = f]
  /\ UNCHANGED <<pc, iter, dpc, dqueue, runflag>>

TxDone(p, q) ==
  /\ at[Tx(p, q)] # << >>
  /\ Move(1, Tx(p, q), Pool)
  /\ UNCHANGED <<pkt, pc, iter, dpc, dqueue, runflag>>

StopSignal ==
  /\ ~runflag
  /\ runflag' = TRUE
  /\ UNCHANGED <<at, pkt, pc, iter, dpc, dqueue>>

-------------------------------------------------------------------------------
(* A worker lcore.                                                         *)

Goto(c, l) == pc' = [pc EXCEPT ![c] = l]


(* while(!*runflag): one call of forward, or the end of the loop.          *)
LcoreTest(c) ==
  /\ pc[c] = "test"
  /\ Goto(c, IF runflag THEN "exit" ELSE "rx")
  /\ iter' = [iter EXCEPT ![c] = 1]
  /\ UNCHANGED <<at, pkt, dpc, dqueue, runflag>>

(* Mutant of NextIteration: i <= rxsize.                                   *)
NextIterationPast(c) ==
  IF iter[c] <= Len(RxPorts)
  THEN iter' = [iter EXCEPT ![c] = @ + 1] /\ Goto(c, "rx")
  ELSE Goto(c, "test") /\ UNCHANGED iter

(* The end of one iteration of forward's loop over the RX ports.           *)
NextIteration(c) ==
  IF iter[c] < Len(RxPorts)
  THEN iter' = [iter EXCEPT ![c] = @ + 1] /\ Goto(c, "rx")
  ELSE Goto(c, "test") /\ UNCHANGED iter

(* idx is computed once, before the loop: every iteration reads the queue  *)
(* of the first RX port.                                                   *)
PolledPort(c) == RxPorts[1]

LcoreRx(c) ==
  LET rxq == Rx(PolledPort(c), Queue(c))
      n   == IF Len(at[rxq]) < BurstSize THEN Len(at[rxq]) ELSE BurstSize
  IN /\ pc[c] = "rx"
     /\ \/ n = 0 /\ NextIteration(c) /\ UNCHANGED at
        \/ n > 0 /\ Move(n, rxq, Cpu(c)) /\ Goto(c, "fwd") /\ UNCHANGED iter
     /\ UNCHANGED <<pkt, dpc, dqueue, runflag>>

(* Mutant of AfterPacket: the last packet of the burst is forgotten.       *)
AfterPacketEarly(c) ==
  IF Len(at[Cpu(c)]) > 2
  THEN Goto(c, "fwd") /\ UNCHANGED iter
  ELSE NextIteration(c)

(* After a packet of the burst: the next one, or the next iteration.       *)
AfterPacket(c) ==
  IF Len(at[Cpu(c)]) > 1
  THEN Goto(c, "fwd") /\ UNCHANGED iter
  ELSE NextIteration(c)

(* No L3 flag, not TCP, too short, no header value seen, or a search       *)
(* result that is not a positive port: the frame takes the default path.   *)
ToDefault(f) == f.l3 = "none" \/ ~f.tcp \/ ~f.ua \/ f.route <= 0

(* rte_ring_enqueue fails with one slot of the ring still empty.           *)
RingFull == Len(at[Ring]) >= RingSize - 1

(* Mutant of LcoreDefault: freed also when the ring took it.               *)
LcoreDefaultFree(c) ==
  /\ pc[c] = "fwd"
  /\ ToDefault(pkt[Head(at[Cpu(c)])])
  /\ at' = [at EXCEPT ![Cpu(c)] = Tail(@), ![Pool] = Append(@, Head(at[Cpu(c)])),
                      ![Ring] = IF RingFull THEN @ ELSE Append(@, Head(at[Cpu(c)]))]
  /\ AfterPacket(c)
  /\ UNCHANGED <<pkt, dpc, dqueue, runflag>>

(* send_pkt_default: push to the ring, or free the mbuf if push fails.     *)
LcoreDefault(c) ==
  /\ pc[c] = "fwd"
  /\ ToDefault(pkt[Head(at[Cpu(c)])])
  /\ Move(1, Cpu(c), IF RingFull THEN Pool ELSE Ring)
  /\ AfterPacket(c)
  /\ UNCHANGED <<pkt, dpc, dqueue, runflag>>

(* httphandle found a port: the lcore enters rte_eth_tx_burst.             *)
LcoreRoute(c) ==
  /\ pc[c] = "fwd"
  /\ ~ToDefault(pkt[Head(at[Cpu(c)])])
  /\ Goto(c, "tx")
  /\ UNCHANGED <<at, pkt, iter, dpc, dqueue, runflag>>

TxFull(p, q) == Len(at[Tx(p, q)]) >= TxDesc

(* Mutant of LcoreTx: a frame the TX queue does not take is not freed.     *)
LcoreTxLeak(c) ==
  LET p == pkt[Head(at[Cpu(c)])].route IN
  /\ pc[c] = "tx"
  /\ IF TxFull(p, Queue(c)) THEN at' = [at EXCEPT ![Cpu(c)] = Tail(@)]
     ELSE Move(1, Cpu(c), Tx(p, Queue(c)))
  /\ AfterPacket(c)
  /\ UNCHANGED <<pkt, dpc, dqueue, runflag>>


(* The burst of one returns: sent, or freed if there was no descriptor.    *)
LcoreTx(c) ==
  LET p == pkt[Head(at[Cpu(c)])].route IN
  /\ pc[c] = "tx"
  /\ Move(1, Cpu(c), IF TxFull(p, Queue(c)) THEN Pool ELSE Tx(p, Queue(c)))
  /\ AfterPacket(c)
  /\ UNCHANGED <<pkt, dpc, dqueue, runflag>>

LcoreStep(c) ==
  LcoreTest(c) \/ LcoreRx(c) \/ LcoreDefault(c) \/ LcoreRoute(c) \/ LcoreTx(c)

-------------------------------------------------------------------------------
(* The defsend thread, once past its wait (see FlowStart).                 *)

DefTest ==
  /\ dpc = "test"
  /\ dpc' = IF runflag THEN "exit" ELSE "pop"
  /\ UNCHANGED <<at, pkt, pc, iter, dqueue, runflag>>

(* Mutant of DefPop: break for continue when the ring is empty.            *)
DefPopBreak ==
  /\ dpc = "pop"
  /\ IF at[Ring] = << >>
     THEN dpc' = "exit" /\ UNCHANGED <<at, dqueue>>
     ELSE /\ Move(1, Ring, Def)
          /\ \E q \in DefQueue : dqueue' = q
          /\ dpc' = "tx"
  /\ UNCHANGED <<pkt, pc, iter, runflag>>

DefPop ==
  /\ dpc = "pop"
  /\ IF at[Ring] = << >>
     THEN dpc' = "test" /\ UNCHANGED <<at, dqueue>>
     ELSE /\ Move(1, Ring, Def)
          /\ \E q \in DefQueue : dqueue' = q
          /\ dpc' = "tx"
  /\ UNCHANGED <<pkt, pc, iter, runflag>>

(* Mutant of DefTx: the first RX port is taken for the default port.       *)
DefTxRxPort ==
  /\ dpc = "tx"
  /\ Move(1, Def, IF TxFull(RxPorts[1], dqueue) THEN Pool
                  ELSE Tx(RxPorts[1], dqueue))
  /\ dpc' = "test"
  /\ UNCHANGED <<pkt, pc, iter, dqueue, runflag>>

DefTx ==
  /\ dpc = "tx"
  /\ Move(1, Def, IF TxFull(DefaultPort, dqueue) THEN Pool
                  ELSE Tx(DefaultPort, dqueue))
  /\ dpc' = "test"
  /\ UNCHANGED <<pkt, pc, iter, dqueue, runflag>>

DefStep == DefTest \/ DefPop \/ DefTx

-------------------------------------------------------------------------------
Next ==
  \/ \E p \in RxPort, c \in Lcore, f \in Packet : Arrive(p, c, f)
  \/ \E p \in Port, q \in TxQueue : TxDone(p, q)
  \/ StopSignal
  \/ \E c \in Lcore : LcoreStep(c)
  \/ DefStep

(* EAL pins each lcore to a CPU of its own.  The defsend thread pins       *)
(* itself, on a host of three CPUs to that of a worker, where the kernel's *)
(* time slices serve both.  No loop blocks: weak fairness.                 *)
Fairness ==
  /\ \A c \in Lcore : WF_vars(LcoreStep(c))
  /\ WF_vars(DefStep)

Spec == Init /\ [][Next]_vars

FairSpec == Spec /\ Fairness

-------------------------------------------------------------------------------
(* Properties.                                                             *)

Holds(a, m) == \E i \in DOMAIN at[a] : at[a][i] = m

TypeOK ==
  /\ at \in [Place -> Seq(Mbuf)]
  /\ pkt \in [Mbuf -> Packet]
  /\ pc \in [Lcore -> {"test", "rx", "fwd", "tx", "exit"}]
  /\ iter \in [Lcore -> 1..Len(RxPorts)]
  /\ dpc \in {"test", "pop", "tx", "exit"}
  /\ dqueue \in DefQueue
  /\ runflag \in BOOLEAN

(* Every mbuf is in one place and once there: no path through the error    *)
(* branches of send, push and pop loses a buffer or frees it twice.        *)
MbufUnique ==
  \A a, b \in Place : \A i \in DOMAIN at[a], j \in DOMAIN at[b] :
     at[a][i] = at[b][j] => a = b /\ i = j

MbufComplete == \A m \in Mbuf : \E a \in Place : Holds(a, m)

MbufOwned == MbufUnique /\ MbufComplete

(* A thread handles a buffer exactly while it holds one: the stack array   *)
(* pkts_burst is never read past the burst, and no thread leaves its loop, *)
(* or starts a new burst over an unfinished one, with a buffer in hand.    *)
BurstHeld ==
  /\ \A c \in Lcore : pc[c] \in {"fwd", "tx"} <=> at[Cpu(c)] # << >>
  /\ \A c \in Lcore : Len(at[Cpu(c)]) <= BurstSize
  /\ dpc = "tx" <=> at[Def] # << >>
  /\ Len(at[Def]) <= 1

(* Flow by User-Agent: whatever the interleaving of lcores and defsend     *)
(* thread, a frame queued on port p was routed to p by its search result,  *)
(* on its lcore's queue, or took the default path and p is the default.    *)
RouteKept ==
  \A p \in Port, q \in TxQueue, m \in Mbuf :
    Holds(Tx(p, q), m) =>
      IF ToDefault(pkt[m])
      THEN p = DefaultPort /\ q \in DefQueue
      ELSE p = pkt[m].route /\ \E c \in Lcore : q = Queue(c)

(* The ring and the defsend thread carry default-path frames only.         *)
RingDefault ==
  \A m \in Mbuf : Holds(Ring, m) \/ Holds(Def, m) => ToDefault(pkt[m])


(* The default path delivers or drops every frame unless the program stops *)
(* first: the ring is drained although lcores keep filling it.             *)
RingDrained == \A m \in Mbuf : Holds(Ring, m) ~> (~Holds(Ring, m) \/ runflag)

(* Frames of every RX port that is configured are picked up by the lcore   *)
(* of their queue.                                                         *)
EveryPortRead ==
  \A p \in RxPort, c \in Lcore, m \in Mbuf :
    Holds(Rx(p, Queue(c)), m) ~> (~Holds(Rx(p, Queue(c)), m) \/ runflag)


-------------------------------------------------------------------------------
(* Refinement: the owner of a buffer, read off the place it is in.         *)
StageOf(a) == IF a[1] \in {"pool", "rx", "tx"} THEN a[1] ELSE "app"

Stage == [m \in Mbuf |-> StageOf(CHOOSE a \in Place : Holds(a, m))]

Abs == INSTANCE FlowMbuf WITH stage <- Stage

(* Seen as owners of buffers, the threads, rings and bursts implement      *)
(* FlowMbuf: taken over once, given up once.                               *)
MbufProtocol == Abs!Spec
===============================================================================
