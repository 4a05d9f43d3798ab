------------------------------- MODULE FlowStart ------------------------------
(***************************************************************************)
(* The life of the program: main of flow_start.c with its signal handlers, *)
(* the device set-up and the launch of the lcores in flow_dpdk.c, the      *)
(* defsend thread's handshake with main in flow_forward_defsend.c, and the *)
(* clock that main updates while the lcores read it, from the installation *)
(* of the handlers to the end of the process.                              *)
(*                                                                         *)
(* The modules main initialises before it creates the defsend thread touch *)
(* no state shared with another thread and are one step here; main looks   *)
(* at none of their results, so that any of them may have failed when it   *)
(* goes on.  What the loops do between two tests of the run flag is        *)
(* FlowForward, but for the readings of the clock: one stands for those of *)
(* a whole poll.                                                           *)
(***************************************************************************)
EXTENDS FlowDpdk, FlowCurrent

CONSTANTS
  Ports,         \* number of Ethernet ports, numbered 0..Ports-1
  Hosts          \* where the program may start

Port == 0..(Ports - 1)

(* What may fail without main noticing: the configuration's lists of       *)
(* ports, of which one may stay empty (see FlowConfig), the pool of the    *)
(* scan detector, the ring, and the defsend thread, created after it.      *)
Parts == {"lists", "pool", "ring", "thread"}

(* A host has some CPUs, enough for the lcores, devices with some queues,  *)
(* and memory for some of the parts.                                       *)
Host ==
  {h \in [cpus : Nat \ {0, 1, 2}, device : [Port -> [rx : Nat, tx : Nat]],
          made : SUBSET Parts] : "thread" \in h.made => "ring" \in h.made}

ASSUME StartAssumption ==
  /\ Ports \in Nat \ {0}
  /\ Hosts \subseteq Host

VARIABLES
  lcores,     \* the lcores EAL runs
  device,     \* the devices of the host
  made,       \* what the module inits can make of Parts
  mpc,        \* where main is
  port,       \* the port setconf is at
  rxnum, txnum,   \* flow_dpdk_rx_queue_num, flow_dpdk_tx_queue_num
  rxmask,     \* {q : flow_dpdk_rx_queue_mask[q] # 0}
  conf,       \* conf[p]: the RX and TX queues set up on port p
  lpc,        \* where each lcore is
  dpc,        \* where the defsend thread is
  runptr,     \* flow_forward_defsend_arg.runflag # NULL
  mask,       \* the defsend thread's mask
  runflag,    \* flow_dpdk_core_run_flag
  dumpsig,    \* flow_start_dump_configure_signum
  asked       \* history: SIGUSR1 arrived after the last dump began

vars == <<lcores, device, made, mpc, port, rxnum, txnum, rxmask, conf, lpc,
          dpc, runptr, mask, runflag, dumpsig, asked, clock>>

host    == <<lcores, device, made>>
devices == <<rxnum, txnum, rxmask, conf>>
defsend == <<dpc, runptr, mask>>
signals == <<runflag, dumpsig, asked>>

Workers == lcores \ {0}
Queue(c) == c - 1

(* The lcores that hold the clock's lock.                                  *)
Readers == {c \in Workers : lpc[c] = "read"}

(* The process is there: main has not ended it, no thread has crashed it.  *)
Alive ==
  /\ mpc \notin {"exit", "fail"}
  /\ dpc # "crash" /\ \A c \in Workers : lpc[c] # "crash"

OnHost ==
  \E h \in Hosts :
    lcores = LcoresFor(h.cpus) /\ device = h.device /\ made = h.made

Init ==
  /\ OnHost
  /\ mpc = "init" /\ port = 0
  /\ rxnum = 0 /\ txnum = 0 /\ rxmask = {}
  /\ conf = [p \in Port |-> [rx |-> 0, tx |-> 0]]
  /\ lpc = [c \in Workers |-> "off"]
  /\ dpc = "none" /\ runptr = FALSE /\ mask = 0
  /\ runflag = FALSE /\ dumpsig = FALSE /\ asked = FALSE
  /\ ClockInit

-------------------------------------------------------------------------------
(* main                                                                    *)

MainAt(l, m) == Alive /\ mpc = l /\ mpc' = m

(* The init calls up to the defsend module's, which creates its thread     *)
(* once it has the ring; whatever fails but EAL, main goes on.             *)
MainInit ==
  /\ MainAt("init", "setconf")
  /\ dpc' = IF "thread" \in made THEN "start" ELSE "none"
  /\ Getime
  /\ UNCHANGED <<host, port, devices, lpc, runptr, mask, signals>>

(* Mutant of MainSetconf: one port too many.                               *)
MainSetconfPast ==
  /\ Alive /\ mpc = "setconf"
  /\ IF port = Ports THEN mpc' = "launch" /\ UNCHANGED port
     ELSE port' = port + 1 /\ UNCHANGED mpc
  /\ UNCHANGED <<host, devices, lpc, defsend, signals, clock>>

(* Mutant of MainSetconf: the queue mask is that of the last port.         *)
MainSetconfLast ==
  LET workers == Cardinality(lcores) - 1
      rx == QueueCount(device[port].rx, workers)
      tx == QueueCount(device[port].tx, workers)
  IN /\ Alive /\ mpc = "setconf"
     /\ rxnum' = rx /\ txnum' = tx
     /\ conf' = [conf EXCEPT ![port] = [rx |-> rx, tx |-> tx]]
     /\ rxmask' = 0..(rx - 1)
     /\ IF port = Ports - 1
        THEN mpc' = "launch" /\ UNCHANGED port
        ELSE port' = port + 1 /\ UNCHANGED mpc
     /\ UNCHANGED <<host, lpc, defsend, signals, clock>>

(* setconf for one port; the two counters keep the values of the last one. *)
MainSetconf ==
  LET workers == Cardinality(lcores) - 1
      rx == QueueCount(device[port].rx, workers)
      tx == QueueCount(device[port].tx, workers)
  IN /\ Alive /\ mpc = "setconf"
     /\ rxnum' = rx /\ txnum' = tx
     /\ conf' = [conf EXCEPT ![port] = [rx |-> rx, tx |-> tx]]
     /\ rxmask' = rxmask \cup 0..(rx - 1)
     /\ IF port = Ports - 1
        THEN mpc' = "launch" /\ UNCHANGED port
        ELSE port' = port + 1 /\ UNCHANGED mpc
     /\ UNCHANGED <<host, lpc, defsend, signals, clock>>

(* rte_exit: too few CPUs, EAL or a device call of setconf fails.          *)
MainFail ==
  /\ \E l \in {"init", "setconf"} : MainAt(l, "fail")
  /\ UNCHANGED <<host, port, devices, lpc, defsend, signals, clock>>

(* handler: every worker lcore starts cores_loop.                          *)
MainLaunch ==
  /\ MainAt("launch", "setflag")
  /\ lpc' = [c \in Workers |-> "start"]
  /\ UNCHANGED <<host, port, devices, defsend, signals, clock>>

(* defsend run: set the pointer, then signal, without the lock.            *)
MainSetFlag ==
  /\ MainAt("setflag", "signal")
  /\ runptr' = TRUE
  /\ UNCHANGED <<host, port, devices, lpc, dpc, mask, signals, clock>>

MainSignal ==
  /\ MainAt("signal", "dumptest")
  /\ dpc' = IF dpc = "wait" THEN "aliq" ELSE dpc
  /\ UNCHANGED <<host, port, devices, lpc, runptr, mask, signals, clock>>

(* The main loop.                                                          *)
MainDumpTest ==
  /\ Alive /\ mpc = "dumptest"
  /\ mpc' = IF dumpsig THEN "clear" ELSE "stoptest"
  /\ UNCHANGED <<host, port, devices, lpc, defsend, signals, clock>>

MainClear ==
  /\ MainAt("clear", "dump")
  /\ dumpsig' = FALSE
  /\ UNCHANGED <<host, port, devices, lpc, defsend, runflag, asked, clock>>

(* The two dumps begin; a later signal asks for another one.               *)
MainDump ==
  /\ MainAt("dump", "dumping")
  /\ asked' = FALSE
  /\ UNCHANGED <<host, port, devices, lpc, defsend, runflag, dumpsig, clock>>

(* Mutant of MainDumped: the request is cleared after the dumps.           *)
MainDumpedClear ==
  /\ MainAt("dumping", "stoptest")
  /\ dumpsig' = FALSE
  /\ UNCHANGED <<host, port, devices, lpc, defsend, runflag, asked, clock>>

MainDumped ==
  /\ MainAt("dumping", "stoptest")
  /\ UNCHANGED <<host, port, devices, lpc, defsend, signals, clock>>

(* Mutant of MainStopTest: the loop never ends.                            *)
MainStopTestNever ==
  /\ MainAt("stoptest", "dumptest")
  /\ UNCHANGED <<host, port, devices, lpc, defsend, signals, clock>>

(* sleep(3) when the flag is set, else update the time.                    *)
MainStopTest ==
  /\ Alive /\ mpc = "stoptest"
  /\ mpc' = IF runflag THEN "grace" ELSE "writelock"
  /\ UNCHANGED <<host, port, devices, lpc, defsend, signals, clock>>

(* update, and then usleep(1000).                                          *)
MainUpdate ==
  /\ \/ MainAt("writelock", "getime") /\ WriteLock
     \/ MainAt("getime", "unlock")    /\ Getime
     \/ MainAt("unlock", "dumptest")  /\ WriteUnlock
  /\ UNCHANGED <<host, port, devices, lpc, defsend, signals>>

(* return from main: the process ends, whatever its threads do.            *)
MainExit ==
  /\ MainAt("grace", "exit")
  /\ UNCHANGED <<host, port, devices, lpc, defsend, signals, clock>>

Main ==
  \/ MainInit \/ MainSetconf \/ MainLaunch \/ MainSetFlag \/ MainSignal
  \/ MainDumpTest \/ MainClear \/ MainDump \/ MainDumped
  \/ MainStopTest \/ MainUpdate \/ MainExit

-------------------------------------------------------------------------------
(* The worker lcores: cores_loop.                                          *)

LcoreStep(c, l, m) ==
  /\ Alive /\ lpc[c] = l /\ lpc' = [lpc EXCEPT ![c] = m]
  /\ UNCHANGED <<host, mpc, port, devices, defsend, signals>>

LcoreStart(c) ==
  /\ LcoreStep(c, "start", IF Queue(c) \in rxmask THEN "loop" ELSE "null")
  /\ UNCHANGED clock

(* The test of the run flag.                                               *)
LcoreStop(c) == LcoreStep(c, "loop", "exit") /\ runflag /\ UNCHANGED clock
LcorePoll(c) == LcoreStep(c, "loop", "poll") /\ ~runflag /\ UNCHANGED clock

(* The scan detector asks for the time, for each TCP frame.                *)
LcoreReadLock(c)   == LcoreStep(c, "poll", "read") /\ ReadLock
LcoreReadUnlock(c) == LcoreStep(c, "read", "loop") /\ ReadUnlock

(* No frame, or none that the detector sees.                               *)
LcorePolled(c) == LcoreStep(c, "poll", "loop") /\ UNCHANGED clock

(* A poll that needs what is not there follows a NULL pointer: the list of *)
(* RX ports, the ring for a frame that takes the default path, the pool    *)
(* for a new address.                                                      *)
LcoreCrash(c) ==
  /\ LcoreStep(c, "poll", "crash")
  /\ ~({"lists", "ring", "pool"} \subseteq made)
  /\ UNCHANGED clock

Lcore(c) ==
  \/ LcoreStart(c) \/ LcoreStop(c) \/ LcorePoll(c)
  \/ LcoreReadLock(c) \/ LcoreReadUnlock(c) \/ LcorePolled(c)
  \/ LcoreCrash(c)

-------------------------------------------------------------------------------
(* The defsend thread: main_loop.                                          *)

DefStep(l) ==
  /\ Alive /\ dpc = l
  /\ UNCHANGED <<host, mpc, port, devices, lpc, runptr, signals, clock>>

(* Detach, pin, take the lock and wait at most two seconds.                *)
DefWait == DefStep("start") /\ dpc' = "wait" /\ UNCHANGED mask

(* Mutant of DefTimeout: a wait without a timeout.                         *)
DefTimeoutNever == FALSE

(* The two seconds are over, wherever main is, or the wait ends            *)
(* spuriously.  A signal sent before the wait began is lost; then this is  *)
(* how the thread goes on.                                                 *)
DefTimeout == DefStep("wait") /\ dpc' = "aliq" /\ UNCHANGED mask

(* The list of TX ports has no entry: its first is read through NULL.      *)
DefCrash ==
  DefStep("aliq") /\ "lists" \notin made /\ dpc' = "crash" /\ UNCHANGED mask

(* The mask is made from the number of TX queues of the port that setconf  *)
(* was at last.                                                            *)
DefAliq == DefStep("aliq") /\ mask' = Aliq(txnum) /\ dpc' = "test"

(* while(!*runflag): the pointer is NULL until main has set it.            *)
DefTest ==
  /\ DefStep("test")
  /\ dpc' = IF ~runptr THEN "crash" ELSE IF runflag THEN "exit" ELSE "loop"
  /\ UNCHANGED mask

(* One pass of the loop body, in FlowForward.                              *)
DefBody == DefStep("loop") /\ dpc' = "test" /\ UNCHANGED mask

Defsend == DefWait \/ DefTimeout \/ DefCrash \/ DefAliq \/ DefTest \/ DefBody

-------------------------------------------------------------------------------
(* The signals: SIGINT and SIGUSR1.                                        *)

SigInt ==
  /\ Alive /\ runflag' = TRUE
  /\ UNCHANGED <<host, mpc, port, devices, lpc, defsend, dumpsig, asked, clock>>

SigUsr1 ==
  /\ Alive /\ dumpsig' = TRUE /\ asked' = TRUE
  /\ UNCHANGED <<host, mpc, port, devices, lpc, defsend, runflag, clock>>

Next ==
  \/ Main \/ MainFail
  \/ \E c \in Workers : Lcore(c)
  \/ Defsend
  \/ SigInt \/ SigUsr1

(* Each thread runs on; the devices may always fail, never have to.        *)
Fairness ==
  /\ WF_vars(Main)
  /\ \A c \in UNION {LcoresFor(h.cpus) : h \in Hosts} \ {0} :
       WF_vars(c \in Workers /\ Lcore(c))
  /\ WF_vars(Defsend)

Spec == Init /\ [][Next]_vars

FairSpec == Spec /\ Fairness

-------------------------------------------------------------------------------
(* Properties.                                                             *)

TypeOK ==
  /\ OnHost
  /\ mpc \in {"init", "setconf", "launch", "setflag", "signal", "dumptest",
              "clear", "dump", "dumping", "stoptest", "writelock", "getime",
              "unlock", "grace", "exit", "fail"}
  /\ port \in Port
  /\ rxnum \in Nat /\ txnum \in Nat /\ rxmask \subseteq Nat
  /\ conf \in [Port -> [rx : Nat, tx : Nat]]
  /\ lpc \in [Workers -> {"off", "start", "loop", "poll", "read", "exit", "null",
                          "crash"}]
  /\ dpc \in {"none", "start", "wait", "aliq", "test", "loop", "exit", "crash"}
  /\ runptr \in BOOLEAN
  /\ mask \in Int
  /\ runflag \in BOOLEAN /\ dumpsig \in BOOLEAN /\ asked \in BOOLEAN
  /\ time \in Times /\ cnt \in Int

(* No queue is set up without an lcore for it: once main has launched the  *)
(* lcores, the number of each RX queue of each port, whatever numbers of   *)
(* queues their devices have, is that of a worker lcore which does not     *)
(* find its task missing and leaves its loop only for a stop.              *)
QueuesServed ==
  mpc \notin {"init", "setconf", "launch", "fail"} =>
    \A p \in Port : \A q \in 0..(conf[p].rx - 1) :
      \E c \in Workers :
        Queue(c) = q /\ lpc[c] # "null" /\ (lpc[c] = "exit" => runflag)

(* With the mask it takes the defsend thread selects no queue beyond those *)
(* counted at that moment, whichever port main is at and whether their     *)
(* number is a power of two or not; with none counted it selects any.      *)
MaskFits ==
  [][dpc = "aliq" /\ dpc' = "test" /\ txnum > 0 =>
       \A byte \in 0..255 : AndMask(byte, mask') < txnum]_vars

(* The time does not change under a reader: from the moment an lcore has   *)
(* the lock until it gives it back, update has to wait.                    *)
ClockHeld == [][Readers # {} => UNCHANGED time]_vars

(* Every dump request is followed by a dump that begins after it, unless   *)
(* the program is told to stop: a signal during a dump asks for another.   *)
(* This needs the lcores' readings to end some time: the lock lets readers *)
(* in while main waits for it, and as long as their readings overlap main  *)
(* neither updates the clock nor comes back to the test for the request.   *)
DumpServed ==
  <>[](Readers = {}) => (asked ~> (~asked \/ runflag \/ ~Alive))

(* SIGINT, at any moment of the start-up or later, ends the program: also  *)
(* when main waits for the lock, as the lcores stop reading then.          *)
StopEnds == runflag ~> ~Alive

(* Started workers and the defsend thread, if there is one, reach their    *)
(* loops: the handshake does not hang, also when the signal came before    *)
(* the wait.                                                               *)
ThreadsStart ==
  mpc = "dumptest" ~>
    \/ runflag \/ ~Alive
    \/ /\ "thread" \in made => dpc = "loop"
       /\ \A c \in Workers : lpc[c] \notin {"off", "start"}
===============================================================================
