------------------------------ MODULE FlowStartMC -----------------------------
(* Small instances of FlowStart for TLC.                                   *)
EXTENDS FlowStart

Dev(rx, tx) == [rx |-> rx, tx |-> tx]

On(cpus, dev0, dev1, parts) ==
  [cpus |-> cpus, device |-> [p \in Port |-> IF p = 0 THEN dev0 ELSE dev1],
   made |-> parts]

(* Two workers and a port with more queues before one with less, or none:  *)
(* everything is made, or the lists and the pool fail, or the ring and the *)
(* thread.  Four workers, one queue to poll, and TX queues of a number     *)
(* that is no power of two on a port behind one with a single queue.       *)
MCHosts ==
  {On(3, Dev(3, 3), Dev(1, 0), parts) :
     parts \in {Parts, {"ring", "thread"}, {"lists", "pool"}}}
  \cup {On(6, Dev(1, 1), Dev(1, 3), Parts)}
===============================================================================
