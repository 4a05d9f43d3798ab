------------------------------- MODULE FlowDpdk -------------------------------
(***************************************************************************)
(* The choices of flow_dpdk.c: which CPUs are lcores, how many queues each *)
(* port gets, and which TX queues the defsend thread spreads frames over.  *)
(***************************************************************************)
EXTENDS Integers, FiniteSets, FiniteSetsExt

(* The EAL core mask for a number of CPUs, as the set of lcores; lcore 0   *)
(* is the master.                                                          *)
LcoresFor(ncpu) ==
  IF ncpu \in {4, 6, 8, 12, 16, 18, 24, 32} THEN 0..(ncpu - 2) ELSE 0..2

MaxSlot == 32     \* FLOW_LCORE_MAX_SLOT

(* The CPU the defsend thread binds itself to.                             *)
BindId(ncpu) == IF ncpu - 1 \in 0..(MaxSlot - 1) THEN ncpu - 1 ELSE 0

(* Mutant of QueueCount: the master counted as a worker.                   *)
QueueCountMaster(max, workers) == IF max > workers + 1 THEN workers + 1 ELSE max

(* Queues of a port: what the device has, at most one for each worker.     *)
QueueCount(max, workers) == IF max > workers THEN workers ELSE max

(* (n - 1) & n = 0 holds of 0 as well.                                     *)
IsPowerOf2(n) == n \in {0, 1} \/ \E e \in 1..n : n = 2^e

(* Mutant of Aliq: the power of two itself.                                *)
AliqWhole(txnum) == Max({n \in 0..txnum : IsPowerOf2(n)})

(* getaliq: count down from the number of TX queues to a power of two; the *)
(* mask is one less.  For no queue at all it has every bit set.            *)
Aliq(txnum) == Max({n \in 0..txnum : IsPowerOf2(n)}) - 1

(* byte & mask, for the masks Aliq yields.                                 *)
AndMask(byte, mask) == IF mask = -1 THEN byte ELSE byte % (mask + 1)
===============================================================================
