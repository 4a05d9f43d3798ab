---------------------------- MODULE FlowStartProof ----------------------------
(***************************************************************************)
(* Proofs about FlowStart, for any number of CPUs, ports and queues.       *)
(***************************************************************************)
EXTENDS FlowStart, FiniteSetTheorems, WellFoundedInduction, TLAPS

-------------------------------------------------------------------------------
(* The choices of FlowDpdk.                                                *)

(* A set of numbers with a bound has a greatest one.                       *)
LEMMA MaxFacts ==
  ASSUME NEW n \in Nat, NEW S \in SUBSET (0..n), S # {}
  PROVE  Max(S) \in S /\ \A x \in S : x <= Max(S)
<1> DEFINE T == {n - x : x \in S}
           R == OpToRel(<, Nat)
<1>1. IsWellFoundedOn(R, Nat)
  BY NatLessThanWellFounded
<1>2. T \subseteq Nat /\ T # {}
  <2>1. \A x \in S : n - x \in Nat
    OBVIOUS
  <2> QED BY <2>1
<1>3. PICK t \in T : \A y \in T : ~(<<y, t>> \in R)
  <2> HIDE DEF T, R
  <2> QED BY <1>1, <1>2, WFMin
<1>4. \A y \in T : ~(y < t)
  BY <1>2, <1>3 DEF OpToRel
<1>5. PICK m \in S : t = n - m
  OBVIOUS
<1>6. \A x \in S : m >= x
  <2> SUFFICES ASSUME NEW x \in S PROVE m >= x
    OBVIOUS
  <2>1. ~(n - x < n - m)
    BY <1>4, <1>5
  <2> QED BY <2>1
<1> QED
  BY <1>6 DEF Max

(* With a TX queue at all the mask is that of some of the queues; without  *)
(* one it is -1.                                                           *)
LEMMA AliqFacts ==
  ASSUME NEW n \in Nat
  PROVE  /\ Aliq(n) \in Int
         /\ n > 0 => Aliq(n) \in 0..(n - 1)
<1> DEFINE powers == {m \in 0..n : IsPowerOf2(m)}
<1>1. 0 \in powers /\ (n > 0 => 1 \in powers)
  BY DEF IsPowerOf2
<1>2. Max(powers) \in powers /\ \A m \in powers : m <= Max(powers)
  <2> HIDE DEF powers
  <2>1. powers \in SUBSET (0..n)
    BY DEF powers
  <2> QED BY <1>1, <2>1, MaxFacts
<1>3. Aliq(n) = Max(powers) - 1
  BY DEF Aliq
<1>4. Max(powers) \in 0..n
  BY <1>2
<1>5. n > 0 => 1 <= Max(powers)
  <2> HIDE DEF powers
  <2> QED BY <1>1, <1>2
<1> QED
  <2> HIDE DEF powers
  <2> QED BY <1>3, <1>4, <1>5

(* Any byte is mapped to one of those queues.                              *)
LEMMA AndMaskFacts ==
  ASSUME NEW byte \in 0..255, NEW m \in Nat
  PROVE  AndMask(byte, m) \in 0..m
<1>1. byte % (m + 1) \in 0..m
  OBVIOUS
<1>2. m # -1
  OBVIOUS
<1> QED
  BY <1>1, <1>2 DEF AndMask

(* There are at least two workers, and they are numbered from 1.           *)
LEMMA WorkerFacts ==
  ASSUME OnHost
  PROVE  /\ IsFiniteSet(Workers)
         /\ Cardinality(lcores) \in Nat /\ Cardinality(lcores) > 1
         /\ Workers = 1..(Cardinality(lcores) - 1)
<1>1. PICK h \in Hosts : lcores = LcoresFor(h.cpus)
  BY DEF OnHost
<1>2. h.cpus \in Nat /\ h.cpus > 2
  BY StartAssumption DEF Host
<1> DEFINE n == h.cpus
<1>3. lcores = LcoresFor(n) /\ n \in Nat /\ n > 2
  BY <1>1, <1>2
<1> HIDE DEF n
<1>4. PICK k \in Nat : k >= 2 /\ lcores = 0..k
  <2>1. CASE n \in {4, 6, 8, 12, 16, 18, 24, 32}
    <3>1. n - 2 \in Nat /\ n - 2 >= 2 /\ lcores = 0..(n - 2)
      BY <1>3, <2>1 DEF LcoresFor
    <3> QED BY <3>1
  <2>2. CASE n \notin {4, 6, 8, 12, 16, 18, 24, 32}
    BY <1>3, <2>2 DEF LcoresFor
  <2> QED BY <2>1, <2>2
<1>5. IsFiniteSet(0..k) /\ Cardinality(0..k) = k + 1
  BY FS_Interval
<1>6. IsFiniteSet(Workers)
  BY <1>4, <1>5, FS_RemoveElement DEF Workers
<1>7. Cardinality(lcores) = k + 1 /\ Workers = 1..k
  BY <1>4, <1>5 DEF Workers
<1> QED
  BY <1>4, <1>6, <1>7

(* What the devices have.                                                  *)
LEMMA DeviceFacts ==
  ASSUME OnHost
  PROVE  device \in [Port -> [rx : Nat, tx : Nat]]
BY StartAssumption DEF OnHost, Host

(* What a step of an lcore leaves alone.                                   *)
LEMMA LcoreFrame ==
  ASSUME NEW c, Lcore(c)
  PROVE  UNCHANGED <<host, mpc, port, devices, defsend, signals, time>>
BY DEF Lcore, LcoreStart, LcoreStop, LcorePoll, LcoreReadLock, LcoreReadUnlock, LcorePolled,
       LcoreCrash, LcoreStep, ReadLock, ReadUnlock, clock

-------------------------------------------------------------------------------
(* Types.                                                                  *)

LEMMA QueueCountType ==
  ASSUME NEW m \in Nat, NEW w \in Nat
  PROVE  QueueCount(m, w) \in Nat /\ (m > 0 /\ w > 0 => QueueCount(m, w) > 0)
BY DEF QueueCount

LEMMA InitType == Init => TypeOK
<1> SUFFICES ASSUME Init PROVE TypeOK
  OBVIOUS
<1>1. 0 \in Port
  BY StartAssumption DEF Port
<1>2. /\ OnHost
      /\ conf \in [Port -> [rx : Nat, tx : Nat]]
      /\ lpc \in [Workers -> {"off", "start", "loop", "poll", "read", "exit", "null", "crash"}]
  BY DEF Init
<1>3. runptr \in BOOLEAN /\ runflag \in BOOLEAN /\ dumpsig \in BOOLEAN /\ asked \in BOOLEAN
  BY DEF Init
<1>4. /\ mpc = "init" /\ port = 0 /\ rxnum = 0 /\ txnum = 0 /\ rxmask = {}
      /\ dpc = "none" /\ mask = 0 /\ time \in Times /\ cnt = 0
  BY DEF Init, ClockInit
<1>5. made \subseteq Parts
  BY <1>2, StartAssumption DEF OnHost, Host
<1> QED
  BY <1>1, <1>2, <1>3, <1>4, <1>5 DEF TypeOK

(* A step that leaves the host alone is still on it.                       *)
LEMMA HostStays ==
  ASSUME OnHost, UNCHANGED host
  PROVE  OnHost' /\ Workers' = Workers
BY DEF OnHost, host, Workers

LEMMA SetconfType ==
  ASSUME TypeOK, MainSetconf
  PROVE  TypeOK'
<1>0. device \in [Port -> [rx : Nat, tx : Nat]] /\ port \in Port
  BY DeviceFacts DEF TypeOK
<1>1. /\ Cardinality(lcores) - 1 \in Nat
      /\ device[port].rx \in Nat /\ device[port].tx \in Nat
  BY <1>0, WorkerFacts DEF TypeOK
<1> DEFINE rx == QueueCount(device[port].rx, Cardinality(lcores) - 1)
           tx == QueueCount(device[port].tx, Cardinality(lcores) - 1)
<1>2. rx \in Nat /\ tx \in Nat
  BY <1>1, QueueCountType
<1>3. /\ rxnum' = rx /\ txnum' = tx
      /\ conf' = [conf EXCEPT ![port] = [rx |-> rx, tx |-> tx]]
      /\ rxmask' = rxmask \cup 0..(rx - 1)
      /\ mpc' \in {"launch", "setconf"}
      /\ port' = port \/ (port # Ports - 1 /\ port' = port + 1)
      /\ UNCHANGED <<host, lpc, defsend, signals, clock>>
  BY DEF MainSetconf
<1> HIDE DEF rx, tx
<1>4. rxnum' \in Nat /\ txnum' \in Nat /\ rxmask' \subseteq Nat
      /\ conf' \in [Port -> [rx : Nat, tx : Nat]]
  BY <1>2, <1>3 DEF TypeOK
<1>5. port' \in Port
  <2>1. port \in 0..(Ports - 1) /\ Ports \in Nat
    BY StartAssumption DEF TypeOK, Port
  <2> QED BY <1>3, <2>1 DEF Port
<1>6. OnHost' /\ Workers' = Workers
  BY <1>3, HostStays DEF TypeOK
<1> QED
  BY <1>3, <1>4, <1>5, <1>6 DEF TypeOK, host, defsend, signals, clock

LEMMA MainType ==
  ASSUME TypeOK, Main \/ MainFail
  PROVE  TypeOK'
<1>0. UNCHANGED host
  BY DEF Main, MainInit, MainSetconf, MainFail, MainLaunch, MainSetFlag, MainSignal,
         MainDumpTest, MainClear, MainDump, MainDumped, MainStopTest, MainUpdate, MainExit
<1>00. OnHost' /\ Workers' = Workers /\ made' = made
  BY <1>0, HostStays DEF TypeOK, host
<1> USE <1>00 DEF TypeOK, MainAt, defsend, signals, devices, clock
<1>1. CASE MainInit
  BY <1>1 DEF MainInit, Getime
<1>2. CASE MainSetconf
  BY <1>2, SetconfType
<1>3. CASE MainFail
  BY <1>3 DEF MainFail
<1>4. CASE MainLaunch
  BY <1>4 DEF MainLaunch
<1>5. CASE MainSetFlag
  BY <1>5 DEF MainSetFlag
<1>6. CASE MainSignal
  BY <1>6 DEF MainSignal
<1>7. CASE MainDumpTest \/ MainClear \/ MainDump \/ MainDumped
  BY <1>7 DEF MainDumpTest, MainClear, MainDump, MainDumped
<1>8. CASE MainStopTest \/ MainExit
  BY <1>8 DEF MainStopTest, MainExit
<1>9. CASE MainUpdate
  BY <1>9 DEF MainUpdate, WriteLock, Getime, WriteUnlock
<1> QED
  BY <1>1, <1>2, <1>3, <1>4, <1>5, <1>6, <1>7, <1>8, <1>9 DEF Main

LEMMA LcoreType ==
  ASSUME TypeOK, NEW c \in Workers, Lcore(c)
  PROVE  TypeOK'
<1>1. UNCHANGED <<host, mpc, port, devices, defsend, signals, time>>
  BY LcoreFrame
<1>2. PICK m \in {"loop", "null", "exit", "poll", "read", "crash"} : lpc' = [lpc EXCEPT ![c] = m]
  BY DEF Lcore, LcoreStart, LcoreStop, LcorePoll, LcoreReadLock, LcoreReadUnlock, LcorePolled,
         LcoreCrash, LcoreStep
<1>3. cnt' \in Int
  BY DEF TypeOK, Lcore, LcoreStart, LcoreStop, LcorePoll, LcoreReadLock, LcoreReadUnlock,
         LcorePolled, LcoreCrash, ReadLock, ReadUnlock, clock
<1>4. OnHost' /\ Workers' = Workers
  BY <1>1, HostStays DEF TypeOK
<1> QED
  BY <1>1, <1>2, <1>3, <1>4 DEF TypeOK, host, devices, defsend, signals

(* The mask is some number whatever the devices are.                       *)
LEMMA DefsendType ==
  ASSUME TypeOK, Defsend
  PROVE  TypeOK'
<1>1. Aliq(txnum) \in Int
  BY AliqFacts DEF TypeOK
<1>2. /\ UNCHANGED <<host, mpc, port, devices, lpc, runptr, signals, clock>>
      /\ dpc' \in {"wait", "aliq", "test", "loop", "exit", "crash"}
      /\ mask' \in {mask, Aliq(txnum)}
  BY DEF Defsend, DefWait, DefTimeout, DefCrash, DefAliq, DefTest, DefBody, DefStep
<1>3. OnHost' /\ Workers' = Workers
  BY <1>2, HostStays DEF TypeOK
<1> QED
  BY <1>1, <1>2, <1>3 DEF TypeOK, host, devices, signals, clock

LEMMA SignalType ==
  ASSUME TypeOK, SigInt \/ SigUsr1
  PROVE  TypeOK'
<1>1. runflag' \in BOOLEAN /\ dumpsig' \in BOOLEAN /\ asked' \in BOOLEAN
  BY DEF SigInt, SigUsr1, TypeOK
<1>2. UNCHANGED <<host, mpc, port, devices, lpc, defsend, clock>>
  BY DEF SigInt, SigUsr1
<1>3. OnHost' /\ Workers' = Workers
  BY <1>2, HostStays DEF TypeOK
<1> QED
  BY <1>1, <1>2, <1>3 DEF TypeOK, host, devices, defsend, clock

LEMMA NextType == TypeOK /\ [Next]_vars => TypeOK'
<1>1. ASSUME TypeOK, UNCHANGED vars PROVE TypeOK'
  BY <1>1 DEF vars, TypeOK, OnHost, Workers, clock
<1>2. ASSUME TypeOK, Next PROVE TypeOK'
  BY <1>2, MainType, LcoreType, DefsendType, SignalType DEF Next
<1> QED
  BY <1>1, <1>2

(* The type invariant of the start, for any host.                          *)
THEOREM TypeCorrect == Spec => []TypeOK
  BY InitType, NextType, PTL DEF Spec

-------------------------------------------------------------------------------
(* The clock's lock.                                                       *)

(* The counter of the lock is the number of the lcores that read, or -1    *)
(* when main writes, and then nobody reads.                                *)
Lock ==
  /\ mpc \in {"init", "setconf", "launch", "fail"} => \A c \in Workers : lpc[c] = "off"
  /\ mpc \in {"getime", "unlock"} => cnt = -1 /\ Readers = {}
  /\ mpc \notin {"getime", "unlock"} => cnt = Cardinality(Readers)

LEMMA ReadersFacts ==
  ASSUME TypeOK
  PROVE  /\ IsFiniteSet(Readers) /\ Cardinality(Readers) \in Nat
         /\ Cardinality(Readers) = 0 => Readers = {}
<1>1. IsFiniteSet(Workers)
  BY WorkerFacts DEF TypeOK
<1>2. IsFiniteSet(Readers)
  BY <1>1, FS_Subset DEF Readers
<1> QED
  BY <1>2, FS_CardinalityType, FS_EmptySet

LEMMA LockMain ==
  ASSUME TypeOK, Lock, Main \/ MainFail
  PROVE  Lock' /\ (time' # time => Readers = {})
<1> USE DEF Lock, MainAt, clock, host
<1>1. CASE MainInit
  <2>1. Readers = {}
    BY <1>1 DEF MainInit, Readers
  <2> QED BY <1>1, <2>1 DEF MainInit, Getime, Readers, Workers
<1>2. CASE MainSetconf
  BY <1>2 DEF MainSetconf, Readers, Workers
<1>3. CASE MainFail
  BY <1>3 DEF MainFail, Readers, Workers
<1>4. CASE MainLaunch
  <2>1. Readers = {} /\ Readers' = {}
    BY <1>4 DEF MainLaunch, Readers, Workers
  <2> QED BY <1>4, <2>1 DEF MainLaunch
<1>5. CASE MainSetFlag \/ MainSignal
  BY <1>5 DEF MainSetFlag, MainSignal, Readers, Workers
<1>6. CASE MainDumpTest \/ MainClear \/ MainDump \/ MainDumped
  BY <1>6 DEF MainDumpTest, MainClear, MainDump, MainDumped, Readers, Workers
<1>7. CASE MainStopTest \/ MainExit
  BY <1>7 DEF MainStopTest, MainExit, Readers, Workers
<1>8. CASE MainUpdate
  <2>1. Readers' = Readers /\ Workers' = Workers /\ lpc' = lpc
    BY <1>8 DEF MainUpdate, Readers, Workers
  <2>2. CASE MainAt("writelock", "getime") /\ WriteLock
    BY <2>1, <2>2, ReadersFacts DEF WriteLock
  <2>3. CASE MainAt("getime", "unlock") /\ Getime
    BY <2>1, <2>3 DEF Getime
  <2>4. CASE MainAt("unlock", "dumptest") /\ WriteUnlock
    BY <2>1, <2>4, FS_EmptySet DEF WriteUnlock
  <2> QED BY <1>8, <2>2, <2>3, <2>4 DEF MainUpdate
<1> QED
  BY <1>1, <1>2, <1>3, <1>4, <1>5, <1>6, <1>7, <1>8 DEF Main

LEMMA LockLcore ==
  ASSUME TypeOK, Lock, NEW c \in Workers, Lcore(c)
  PROVE  Lock'
<1>1. /\ Workers' = Workers /\ mpc' = mpc /\ lpc[c] # "off" /\ c \in DOMAIN lpc
      /\ lpc \in [Workers -> {"off", "start", "loop", "poll", "read", "exit", "null", "crash"}]
  BY LcoreFrame DEF TypeOK, Workers, host, Lcore, LcoreStart, LcoreStop, LcorePoll, LcoreReadLock,
                    LcoreReadUnlock, LcorePolled, LcoreCrash, LcoreStep
<1>2. mpc \notin {"init", "setconf", "launch", "fail"}
  BY <1>1 DEF Lock
<1>3. CASE LcoreReadLock(c)
  <2>1. c \notin Readers /\ Readers' = Readers \cup {c} /\ cnt >= 0 /\ cnt' = cnt + 1
    BY <1>1, <1>3 DEF LcoreReadLock, LcoreStep, ReadLock, Readers
  <2>2. mpc \notin {"getime", "unlock"} /\ cnt = Cardinality(Readers)
    BY <2>1 DEF Lock
  <2>3. Cardinality(Readers') = Cardinality(Readers) + 1
    BY <2>1, ReadersFacts, FS_AddElement
  <2> QED BY <1>1, <1>2, <2>1, <2>2, <2>3 DEF Lock
<1>4. CASE LcoreReadUnlock(c)
  <2>1. c \in Readers /\ Readers' = Readers \ {c} /\ cnt' = cnt - 1
    BY <1>1, <1>4 DEF LcoreReadUnlock, LcoreStep, ReadUnlock, Readers
  <2>2. mpc \notin {"getime", "unlock"} /\ cnt = Cardinality(Readers)
    BY <2>1 DEF Lock
  <2>3. Cardinality(Readers') = Cardinality(Readers) - 1
    BY <2>1, ReadersFacts, FS_RemoveElement
  <2> QED BY <1>1, <1>2, <2>1, <2>2, <2>3 DEF Lock
<1>5. CASE LcoreStart(c) \/ LcoreStop(c) \/ LcorePoll(c) \/ LcorePolled(c) \/ LcoreCrash(c)
  <2>1. Readers' = Readers /\ cnt' = cnt
    BY <1>1, <1>5 DEF LcoreStart, LcoreStop, LcorePoll, LcorePolled, LcoreCrash, LcoreStep,
                        Readers, clock
  <2> QED BY <1>1, <1>2, <2>1 DEF Lock
<1> QED
  BY <1>3, <1>4, <1>5 DEF Lcore

LEMMA LockNext ==
  ASSUME TypeOK, Lock, [Next]_vars
  PROVE  Lock' /\ (time' # time => Readers = {})
<1>1. CASE UNCHANGED vars
  BY <1>1 DEF vars, clock, Lock, Readers, Workers
<1>2. ASSUME NEW c \in Workers, Lcore(c) PROVE Lock' /\ time' = time
  BY <1>2, LockLcore, LcoreFrame
<1>3. CASE Defsend
  BY <1>3 DEF Defsend, DefWait, DefTimeout, DefCrash, DefAliq, DefTest, DefBody, DefStep,
              clock, host, Lock, Readers, Workers
<1>4. CASE SigInt \/ SigUsr1
  BY <1>4 DEF SigInt, SigUsr1, clock, host, Lock, Readers, Workers
<1> QED
  BY <1>1, <1>2, <1>3, <1>4, LockMain DEF Next

LEMMA LockInit == Init => Lock
<1> SUFFICES ASSUME Init PROVE Lock
  OBVIOUS
<1>1. mpc = "init" /\ cnt = 0 /\ \A c \in Workers : lpc[c] = "off"
  BY DEF Init, ClockInit
<1>2. Readers = {}
  BY <1>1 DEF Readers
<1> QED
  BY <1>1, <1>2, FS_EmptySet DEF Lock

(* For any number of lcores the clock does not change while one reads it.  *)
THEOREM ClockSafe == Spec => ClockHeld
<1>1. Init => TypeOK /\ Lock
  BY InitType, LockInit
<1>2. TypeOK /\ Lock /\ [Next]_vars => (TypeOK /\ Lock)'
  BY NextType, LockNext
<1>3. TypeOK /\ Lock /\ [Next]_vars => [Readers # {} => UNCHANGED time]_vars
  BY LockNext
<1> QED
  BY <1>1, <1>2, <1>3, PTL DEF Spec, ClockHeld

-------------------------------------------------------------------------------
(* The queues.                                                             *)

(* The queues of a port set up so far are in the mask and each is that of  *)
(* a worker; who has found its task missing is not in the mask.            *)
Served ==
  /\ \A p \in Port : /\ conf[p].rx <= Cardinality(lcores) - 1
                     /\ 0..(conf[p].rx - 1) \subseteq rxmask
  /\ \A c \in Workers : /\ lpc[c] = "null" => Queue(c) \notin rxmask
                        /\ lpc[c] = "exit" => runflag

LEMMA ServedInit == Init => Served
<1> SUFFICES ASSUME Init PROVE Served
  OBVIOUS
<1>1. \A p \in Port : conf[p].rx = 0
  BY DEF Init
<1>2. \A c \in Workers : lpc[c] = "off"
  BY DEF Init
<1>3. 0 <= Cardinality(lcores) - 1
  BY WorkerFacts DEF Init
<1> QED
  BY <1>1, <1>2, <1>3 DEF Served

LEMMA ServedSetconf ==
  ASSUME TypeOK, Lock, Served, MainSetconf
  PROVE  Served'
<1> DEFINE w == Cardinality(lcores) - 1
           rx == QueueCount(device[port].rx, w)
           tx == QueueCount(device[port].tx, w)
<1>1. port \in Port /\ device[port].rx \in Nat /\ w \in Nat
  BY DeviceFacts, WorkerFacts DEF TypeOK
<1>2. rx <= w
  BY <1>1 DEF QueueCount
<1>3. /\ conf' = [conf EXCEPT ![port] = [rx |-> rx, tx |-> tx]]
      /\ rxmask' = rxmask \cup 0..(rx - 1)
      /\ UNCHANGED <<lcores, lpc, runflag>> /\ mpc = "setconf"
  BY DEF MainSetconf, host, signals
<1>4. conf \in [Port -> [rx : Nat, tx : Nat]]
  BY DEF TypeOK
<1> HIDE DEF rx, tx, w
<1>5. ASSUME NEW p \in Port
      PROVE  conf'[p].rx <= w /\ 0..(conf'[p].rx - 1) \subseteq rxmask'
  <2>1. CASE p = port
    <3>1. conf'[p].rx = rx
      BY <1>1, <1>3, <1>4, <2>1
    <3> QED BY <1>2, <1>3, <3>1
  <2>2. CASE p # port
    <3>1. conf'[p] = conf[p]
      BY <1>1, <1>3, <1>4, <2>2
    <3> QED BY <1>3, <3>1 DEF Served, w
  <2> QED BY <2>1, <2>2
<1>6. \A c \in Workers : lpc'[c] = "off"
  BY <1>3 DEF Lock
<1>7. Workers' = Workers /\ Cardinality(lcores') - 1 = w
  BY <1>3 DEF Workers, w
<1> QED
  BY <1>5, <1>6, <1>7 DEF Served

LEMMA ServedNext ==
  ASSUME TypeOK, Lock, Served, [Next]_vars
  PROVE  Served'
<1>1. CASE UNCHANGED vars
  BY <1>1 DEF vars, Served, Workers, Queue
<1>2. ASSUME Main \/ MainFail, ~MainSetconf PROVE Served'
  <2>1. UNCHANGED <<lcores, conf, rxmask, runflag>>
    BY <1>2 DEF Main, MainInit, MainFail, MainLaunch, MainSetFlag, MainSignal, MainDumpTest,
                MainClear, MainDump, MainDumped, MainStopTest, MainUpdate, MainExit,
                host, devices, signals
  <2>2. lpc' = lpc \/ lpc' = [c \in Workers |-> "start"]
    BY <1>2 DEF Main, MainInit, MainFail, MainLaunch, MainSetFlag, MainSignal, MainDumpTest,
                MainClear, MainDump, MainDumped, MainStopTest, MainUpdate, MainExit
  <2> QED BY <2>1, <2>2 DEF Served, Workers, Queue
<1>3. ASSUME NEW c \in Workers, Lcore(c) PROVE Served'
  <2>1. UNCHANGED <<lcores, conf, rxmask, runflag>>
    BY <1>3, LcoreFrame DEF host, devices, signals
  <2>2. /\ lpc'[c] = "null" => Queue(c) \notin rxmask
        /\ lpc'[c] = "exit" => runflag
    BY <1>3 DEF TypeOK, Lcore, LcoreStart, LcoreStop, LcorePoll, LcoreReadLock,
                LcoreReadUnlock, LcorePolled, LcoreCrash, LcoreStep
  <2>3. \A d \in Workers \ {c} : lpc'[d] = lpc[d]
    BY <1>3 DEF TypeOK, Lcore, LcoreStart, LcoreStop, LcorePoll, LcoreReadLock,
                LcoreReadUnlock, LcorePolled, LcoreCrash, LcoreStep
  <2> QED BY <2>1, <2>2, <2>3 DEF Served, Workers, Queue
<1>4. CASE Defsend
  BY <1>4 DEF Defsend, DefWait, DefTimeout, DefCrash, DefAliq, DefTest, DefBody, DefStep,
              host, devices, signals, Served, Workers, Queue
<1>5. CASE SigInt \/ SigUsr1
  BY <1>5 DEF SigInt, SigUsr1, host, devices, Served, Workers, Queue
<1> QED
  BY <1>1, <1>2, <1>3, <1>4, <1>5, ServedSetconf DEF Next

(* Whatever the devices have, each RX queue that is set up is polled by a  *)
(* worker from the launch of the lcores to the stop: for any number of     *)
(* CPUs, ports and queues, equal or not.                                   *)
THEOREM QueuesSafe == Spec => []QueuesServed
<1>1. Init => TypeOK /\ Lock /\ Served
  BY InitType, LockInit, ServedInit
<1>2. TypeOK /\ Lock /\ Served /\ [Next]_vars => (TypeOK /\ Lock /\ Served)'
  BY NextType, LockNext, ServedNext
<1>3. ASSUME TypeOK, Served PROVE QueuesServed
  <2> SUFFICES ASSUME NEW p \in Port, NEW q \in 0..(conf[p].rx - 1)
               PROVE  \E c \in Workers :
                        Queue(c) = q /\ lpc[c] # "null" /\ (lpc[c] = "exit" => runflag)
    BY DEF QueuesServed
  <2>1. conf[p].rx \in Nat /\ conf[p].rx <= Cardinality(lcores) - 1 /\ q \in rxmask
    BY <1>3 DEF TypeOK, Served
  <2>2. Cardinality(lcores) \in Nat /\ Workers = 1..(Cardinality(lcores) - 1)
    BY <1>3, WorkerFacts DEF TypeOK
  <2>3. q + 1 \in Workers /\ Queue(q + 1) = q
    BY <2>1, <2>2 DEF Queue
  <2>4. lpc[q + 1] # "null" /\ (lpc[q + 1] = "exit" => runflag)
    BY <1>3, <2>1, <2>3 DEF Served
  <2> QED BY <2>3, <2>4
<1> QED
  BY <1>1, <1>2, <1>3, PTL DEF Spec

(* The mask fits the queues counted when it is taken, for any number of    *)
(* them.                                                                   *)
THEOREM MaskSafe == Spec => MaskFits
<1>1. ASSUME TypeOK, [Next]_vars, dpc = "aliq", dpc' = "test", txnum > 0,
             NEW byte \in 0..255
      PROVE  AndMask(byte, mask') < txnum
  <2>1. DefAliq
    <3>1. \A c \in Workers : ~Lcore(c)
      BY <1>1, LcoreFrame DEF defsend
    <3>2. ~Main /\ ~MainFail
      BY <1>1 DEF Main, MainInit, MainSetconf, MainFail, MainLaunch, MainSetFlag, MainSignal,
                  MainDumpTest, MainClear, MainDump, MainDumped, MainStopTest, MainUpdate,
                  MainExit, defsend
    <3>3. ~SigInt /\ ~SigUsr1 /\ ~(UNCHANGED vars)
      BY <1>1 DEF SigInt, SigUsr1, vars, defsend
    <3>4. Defsend
      BY <1>1, <3>1, <3>2, <3>3 DEF Next
    <3> QED BY <1>1, <3>4 DEF Defsend, DefWait, DefTimeout, DefCrash, DefTest, DefBody, DefStep
  <2>2. mask' = Aliq(txnum) /\ txnum \in Nat
    BY <1>1, <2>1 DEF DefAliq, TypeOK
  <2>3. mask' \in 0..(txnum - 1)
    BY <1>1, <2>2, AliqFacts
  <2>4. \A m \in Nat : AndMask(byte, m) \in 0..m
    BY AndMaskFacts
  <2>5. mask' \in Nat
    BY <2>2, <2>3
  <2> QED BY <2>2, <2>3, <2>4, <2>5
<1>2. TypeOK /\ [Next]_vars =>
        [dpc = "aliq" /\ dpc' = "test" /\ txnum > 0 =>
           \A byte \in 0..255 : AndMask(byte, mask') < txnum]_vars
  BY <1>1
<1> QED
  BY <1>2, TypeCorrect, PTL DEF Spec, MaskFits
===============================================================================
