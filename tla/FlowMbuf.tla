------------------------------- MODULE FlowMbuf -------------------------------
(***************************************************************************)
(* What the forwarding plane promises about packet buffers, whatever its   *)
(* threads, rings and bursts look like: an mbuf the NIC filled is taken    *)
(* over by the application once, and the application gives it up once,     *)
(* either to a TX queue or back to the pool.  FlowForward is shown to      *)
(* implement this module.                                                  *)
(***************************************************************************)
CONSTANT Mbuf          \* the packet buffers

VARIABLE stage         \* stage[m]: who owns mbuf m

Stages == {"pool", "rx", "app", "tx"}

Init == stage = [m \in Mbuf |-> "pool"]

(* The buffers of S pass together from owner s to owner t. *)
Pass(S, s, t) ==
  /\ S # {}
  /\ \A m \in S : stage[m] = s
  /\ stage' = [m \in Mbuf |-> IF m \in S THEN t ELSE stage[m]]

Fill(m)     == Pass({m}, "pool", "rx")    \* a frame arrives in an RX queue
Receive(S)  == Pass(S, "rx", "app")       \* a burst is read from an RX queue
Transmit(m) == Pass({m}, "app", "tx")     \* handed to a TX queue
Free(m)     == Pass({m}, "app", "pool")   \* dropped by the application
Sent(m)     == Pass({m}, "tx", "pool")    \* the NIC is done with it

Next ==
  \/ \E m \in Mbuf : Fill(m) \/ Transmit(m) \/ Free(m) \/ Sent(m)
  \/ \E S \in SUBSET Mbuf : Receive(S)

Spec == Init /\ [][Next]_stage
===============================================================================
