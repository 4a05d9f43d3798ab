--------------------------- MODULE FlowForwardOrder ---------------------------
(***************************************************************************)
(* FlowForward with a history: the order in which frames arrived and the   *)
(* RX queue each came in on, to state that forwarding keeps frames of one  *)
(* RX queue and one path in order.                                         *)
(***************************************************************************)
EXTENDS FlowForward

CONSTANT MaxArrive   \* bound on the number of frames that arrive

VARIABLES
  arrived,   \* number of frames so far
  stamp,     \* stamp[m]: the number of the frame in m
  source     \* source[m]: the RX queue the frame in m came in on

hvars == <<vars, arrived, stamp, source>>

HInit ==
  /\ Init
  /\ arrived = 0
  /\ stamp = [m \in Mbuf |-> 0]
  /\ source = [m \in Mbuf |-> Pool]

HArrive(p, c, f) ==
  /\ arrived < MaxArrive
  /\ Arrive(p, c, f)
  /\ arrived' = arrived + 1
  /\ stamp' = [stamp EXCEPT ![Head(at[Pool])] = arrived']
  /\ source' = [source EXCEPT ![Head(at[Pool])] = Rx(p, Queue(c))]

HRest ==
  /\ \/ \E p \in Port, q \in TxQueue : TxDone(p, q)
     \/ StopSignal
     \/ \E c \in Lcore : LcoreStep(c)
     \/ DefStep
  /\ UNCHANGED <<arrived, stamp, source>>

HNext == HRest \/ \E p \in RxPort, c \in Lcore, f \in Packet : HArrive(p, c, f)

HSpec == HInit /\ [][HNext]_hvars

SamePath(m, n) ==
  source[m] = source[n] /\ ToDefault(pkt[m]) = ToDefault(pkt[n])

(* The stations a frame passes on its path, first to last.                 *)
Station(a) ==
  CASE a[1] = "rx"      -> 1
    [] a[1] = "lcore"   -> 2
    [] a[1] = "ring"    -> 3
    [] a[1] = "defsend" -> 4
    [] a[1] = "tx"      -> 5

(* at[b][j] is further along than at[a][i]: nearer to the head of the same *)
(* place, or at a later station.                                           *)
Ahead(b, j, a, i) == (a = b /\ j < i) \/ Station(a) < Station(b)

(* Frames of one RX queue that take the same path never overtake: not in a *)
(* burst, not in the ring that all lcores share, not in a TX queue, nor    *)
(* from one station to the next.  What is further along arrived earlier.   *)
InOrder ==
  \A a, b \in Place \ {Pool} : \A i \in DOMAIN at[a], j \in DOMAIN at[b] :
    Ahead(b, j, a, i) /\ SamePath(at[a][i], at[b][j])
      => stamp[at[b][j]] < stamp[at[a][i]]
===============================================================================
