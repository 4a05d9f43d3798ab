------------------------------ MODULE FlowCurrent ------------------------------
(***************************************************************************)
(* The clock of flow_current.c: one number that main writes and the worker *)
(* lcores read, behind a read-write lock of DPDK.  An action is one step   *)
(* of update or of get; the threads that take the steps are in FlowStart.  *)
(***************************************************************************)
EXTENDS Integers

CONSTANT Times    \* what gettimeofday may yield, in milliseconds

VARIABLES
  time,     \* flow_current_time
  cnt       \* flow_current_time_lck: -1 with a writer, else its readers

clock == <<time, cnt>>

ClockInit == time \in Times /\ cnt = 0

(* Mutant of WriteLock: a writer takes the lock from the readers.          *)
WriteLockGrab == cnt' = -1 /\ UNCHANGED time

(* rte_rwlock: a thread spins until the lock is free for it.  Readers do   *)
(* not wait for a writer that waits.                                       *)
WriteLock   == cnt = 0 /\ cnt' = -1 /\ UNCHANGED time
WriteUnlock == cnt' = cnt + 1 /\ UNCHANGED time
ReadLock    == cnt >= 0 /\ cnt' = cnt + 1 /\ UNCHANGED time
ReadUnlock  == cnt' = cnt - 1 /\ UNCHANGED time

(* init and the middle of update.  The host's clock may be set back, and   *)
(* milliseconds wrap at 2^32: any time may follow any other.               *)
Getime == time' \in Times /\ UNCHANGED cnt
===============================================================================
