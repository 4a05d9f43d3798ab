------------------------------- MODULE FlowDdos -------------------------------
(***************************************************************************)
(* The scan detector of flow_ddos.c.  Each lcore keeps, for IPv4 and for   *)
(* IPv6, an array of buckets; a bucket is a list of nodes, one per source  *)
(* address, each with the ports it has seen.  All buckets take their nodes *)
(* from one mempool and never give one back.                               *)
(*                                                                         *)
(* v4detect and v6detect do the same to lists of their own and are one     *)
(* action; a bucket is a list head, of whatever lcore, version and hash.   *)
(* A bucket belongs to one lcore, so a call of detect interleaves with     *)
(* nothing but the clock, which main advances between its three readings,  *)
(* and with the other lcores' use of the pool.                             *)
(***************************************************************************)
EXTENDS Integers, Sequences, FiniteSets, Functions

CONSTANTS
  Bucket,       \* the list heads
  Node,         \* the nodes of flow_ddos_pool
  NULL,
  Addr,         \* source addresses
  BucketOf,     \* BucketOf[a]: the bucket a hashes to
  SrcPort,      \* the values of the port field
  ListMax,      \* 10: a longer list is not built, a node is reused
  ScanNumber,   \* flow_ddos_scan_number
  ScanMs,       \* flow_ddos_scan_millisecond
  EntryMax,     \* FLOW_DDOS_EVERYNODE_ENTRY_MAX_SZ
  TimeMod,      \* 2^32: the clock and its arithmetic are uint32_t
  TimeFactor,   \* 1000
  TimeStart,    \* the clock when the program starts
  TimeNever,    \* 3000000000: the age no node is older than, to begin with
  MaxClock,     \* bound on the milliseconds since the start
  SetBack       \* TRUE: the system clock may be set back, too

Entry == Bucket \cup Node

L == INSTANCE FlowList

ASSUME DdosAssumption ==
  /\ IsFiniteSet(Node) /\ IsFiniteSet(SrcPort)
  /\ Bucket \cap Node = {} /\ NULL \notin Entry
  /\ BucketOf \in [Addr -> Bucket]
  /\ NULL \notin Addr
  /\ ListMax \in Nat \ {0} /\ ScanNumber \in Nat /\ ScanMs \in Nat
  /\ EntryMax \in Nat /\ TimeMod \in Nat \ {0} /\ TimeFactor \in Nat \ {0}
  /\ TimeStart \in 0..(TimeMod - 1) /\ TimeNever \in 0..(TimeMod - 1)
  /\ MaxClock \in Nat /\ SetBack \in BOOLEAN

VARIABLES
  nx, pv,     \* the list links
  addr,       \* addr[n]: the address of node n
  modtime,    \* modtime[n]: when n was last used
  entries,    \* entries[n]: the first n_packets entries of n, by port
  free,       \* the nodes in the pool
  clock,      \* what flow_current_time holds, as milliseconds since the start
  outcome,    \* outcome[b]: what the last call on bucket b came to
  seen,       \* history: seen[a][p]: when a was last seen with port p, since
              \* the last alarm for a; -1 for never
  reused      \* history: the buckets in which a node has been reused

vars == <<nx, pv, addr, modtime, entries, free, clock, outcome, seen, reused>>

(* Mutant of Time: not truncated to 32 bits, in a finer unit.              *)
TimeWide(t) == (TimeStart + t) * TimeFactor

(* flow_current_time, when t milliseconds have passed.                     *)
Time(t) == (TimeStart + t) % TimeMod

None == [a |-> NULL, res |-> FALSE, ports |-> {}, recent |-> {}, end |-> "return"]

Init ==
  /\ nx = [e \in Entry |-> IF e \in Bucket THEN e ELSE NULL]
  /\ pv = nx
  /\ addr = [n \in Node |-> NULL]
  /\ modtime = [n \in Node |-> 0]
  /\ entries = [n \in Node |-> << >>]
  /\ free = Node
  /\ clock = 0
  /\ outcome = [b \in Bucket |-> None]
  /\ seen = [a \in Addr |-> [p \in SrcPort |-> -1]]
  /\ reused = {}

(* What flow_current_time may read after it has read t: main may be late   *)
(* by any number of milliseconds, and gettimeofday follows the system      *)
(* clock.  A call of detect reads the time two or three times, and main    *)
(* may update it before each reading.  What a new node's first two say     *)
(* decides nothing, as it has no entries to drop: there the third is used. *)
Later(t) == {u \in 0..MaxClock : SetBack \/ t <= u}

(* main's update of flow_current_time.                                     *)
Tick ==
  /\ clock' \in Later(clock)
  /\ UNCHANGED <<nx, pv, addr, modtime, entries, free, outcome, seen, reused>>

-------------------------------------------------------------------------------
(* list_for_each_entry over bucket b: the entry after i steps.             *)
Steps(b) ==
  LET at[i \in 0..(Cardinality(Node) + 1)] ==
        IF i = 0 THEN nx[b]
        ELSE LET e == at[i - 1] IN IF e \in Node THEN nx[e] ELSE e
  IN at

(* The walk comes back to its head, and the nodes it visits until then.    *)
Ends(b) == Steps(b)[Cardinality(Node) + 1] = b

Listed(b) ==
  LET at == Steps(b)
      len == CHOOSE i \in DOMAIN at : at[i] \notin Node /\ \A j \in 0..(i - 1) : at[j] \in Node
  IN [i \in 1..len |-> at[i - 1]]

(* The nodes the walk visits, whether or not it ends.                      *)
Visited(b) == {Steps(b)[i] : i \in DOMAIN Steps(b)} \cap Node

Found(b, a) == {n \in Visited(b) : addr[n] = a}

(* The first of the nodes with the least modtime below TimeNever, or NULL. *)
Oldest(s) ==
  LET young(i) == modtime[s[i]] < TimeNever
      best == {i \in DOMAIN s :
                 /\ young(i)
                 /\ \A j \in DOMAIN s : modtime[s[i]] <= modtime[s[j]]
                 /\ \A j \in 1..(i - 1) : modtime[s[i]] < modtime[s[j]]}
  IN IF best = {} THEN NULL ELSE s[CHOOSE i \in best : TRUE]

(* (modtime - now) * 1000 > scan_millisecond, in uint32_t.                 *)
WindowOver(then, now) == ((then - Time(now)) * TimeFactor) % TimeMod > ScanMs

-------------------------------------------------------------------------------
(* Mutant of Record: one entry more before the alarm.                     *)
RecordLate(b, a, p, n, then, old, now, last) ==
  LET kept  == IF WindowOver(then, now) THEN << >> ELSE old
      known == p \in Range(kept)
      full  == Len(kept) > ScanNumber
      since == [seen[a] EXCEPT ![p] = last]
  IN /\ modtime' = [modtime EXCEPT ![n] = Time(last)]
     /\ entries' = [entries EXCEPT ![n] =
                      IF known THEN kept ELSE IF full THEN << >> ELSE Append(kept, p)]
     /\ outcome' = [outcome EXCEPT ![b] =
                      [a |-> a, res |-> ~known /\ full, end |-> "return",
                       ports |-> {q \in SrcPort : since[q] >= 0},
                       recent |-> {q \in SrcPort : since[q] >= 0 /\ last - since[q] \in 0..ScanMs}]]
     /\ seen' = [seen EXCEPT ![a] =
                   IF ~known /\ full THEN [q \in SrcPort |-> -1] ELSE since]
     /\ clock' = last

(* From the window check on: node n, whose modtime is `then', has been     *)
(* found or made, with the entries old.                                    *)
Record(b, a, p, n, then, old, now, last) ==
  LET kept  == IF WindowOver(then, now) THEN << >> ELSE old
      known == p \in Range(kept)
      full  == Len(kept) + 1 > ScanNumber
      since == [seen[a] EXCEPT ![p] = last]
  IN /\ modtime' = [modtime EXCEPT ![n] = Time(last)]
     /\ entries' = [entries EXCEPT ![n] =
                      IF known THEN kept ELSE IF full THEN << >> ELSE Append(kept, p)]
     /\ outcome' = [outcome EXCEPT ![b] =
                      [a |-> a, res |-> ~known /\ full, end |-> "return",
                       ports |-> {q \in SrcPort : since[q] >= 0},
                       recent |-> {q \in SrcPort : since[q] >= 0 /\ last - since[q] \in 0..ScanMs}]]
     /\ seen' = [seen EXCEPT ![a] =
                   IF ~known /\ full THEN [q \in SrcPort |-> -1] ELSE since]
     /\ clock' = last

(* The address has a node.                                                 *)
DetectKnown(a, p) ==
  LET b == BucketOf[a] IN
  /\ outcome[b].end = "return"
  /\ Found(b, a) # {}
  /\ \E n \in Found(b, a), now \in Later(clock) : \E last \in Later(now) :
       Record(b, a, p, n, modtime[n], entries[n], now, last)
  /\ UNCHANGED <<nx, pv, addr, free, reused>>

(* Mutant of Insert: the address is not copied into the node.              *)
InsertNoAddr(b, a, n) ==
  LET new == L!AddTail(L!SelfLinked(nx, n), L!SelfLinked(pv, n), n, b) IN
  /\ nx' = new.next /\ pv' = new.prev
  /\ UNCHANGED addr

Insert(b, a, n) ==
  LET new == L!AddTail(L!SelfLinked(nx, n), L!SelfLinked(pv, n), n, b) IN
  /\ nx' = new.next /\ pv' = new.prev
  /\ addr' = [addr EXCEPT ![n] = a]

(* A new node from the pool.                                               *)
DetectNew(a, p) ==
  LET b == BucketOf[a] IN
  /\ outcome[b].end = "return"
  /\ Found(b, a) = {} /\ Ends(b) /\ Len(Listed(b)) # ListMax
  /\ \E n \in free, last \in Later(clock) :
       /\ Insert(b, a, n)
       /\ free' = free \ {n}
       /\ Record(b, a, p, n, Time(last), << >>, last, last)
  /\ UNCHANGED reused

(* The pool is empty: the packet is not counted.                           *)
DetectNoNode(a) ==
  LET b == BucketOf[a] IN
  /\ outcome[b].end = "return"
  /\ Found(b, a) = {} /\ Ends(b) /\ Len(Listed(b)) # ListMax
  /\ free = {}
  /\ outcome' = [outcome EXCEPT ![b] = [None EXCEPT !.a = a]]
  /\ UNCHANGED <<nx, pv, addr, modtime, entries, free, clock, seen, reused>>

(* Mutant of DetectReuse: the node is given back to the pool as well.      *)
DetectReuseFree(a, p) ==
  LET b == BucketOf[a]
      n == Oldest(Listed(b))
  IN /\ outcome[b].end = "return"
     /\ Found(b, a) = {} /\ Ends(b) /\ Len(Listed(b)) = ListMax
     /\ n # NULL
     /\ \E last \in Later(clock) :
          /\ Insert(b, a, n)
          /\ Record(b, a, p, n, Time(last), << >>, last, last)
     /\ reused' = reused \cup {b}
     /\ free' = free \cup {n}

(* Mutant of DetectReuse: the node is not cleared.                         *)
DetectReuseDirty(a, p) ==
  LET b == BucketOf[a]
      n == Oldest(Listed(b))
  IN /\ outcome[b].end = "return"
     /\ Found(b, a) = {} /\ Ends(b) /\ Len(Listed(b)) = ListMax
     /\ n # NULL
     /\ \E last \in Later(clock) :
          /\ Insert(b, a, n)
          /\ Record(b, a, p, n, Time(last), entries[n], last, last)
     /\ reused' = reused \cup {b}
     /\ UNCHANGED free

(* The list is full: its oldest node is cleared, and added to the tail of  *)
(* the list it is still in.                                                *)
DetectReuse(a, p) ==
  LET b == BucketOf[a]
      n == Oldest(Listed(b))
  IN /\ outcome[b].end = "return"
     /\ Found(b, a) = {} /\ Ends(b) /\ Len(Listed(b)) = ListMax
     /\ n # NULL
     /\ \E last \in Later(clock) :
          /\ Insert(b, a, n)
          /\ Record(b, a, p, n, Time(last), << >>, last, last)
     /\ reused' = reused \cup {b}
     /\ UNCHANGED free

Dead(b, how) ==
  /\ outcome[b].end = "return"
  /\ outcome' = [outcome EXCEPT ![b].end = how]
  /\ UNCHANGED <<nx, pv, addr, modtime, entries, free, clock, seen, reused>>

(* No node is older than TimeNever: the NULL pointer is cleared.           *)
DetectNull(a) ==
  LET b == BucketOf[a] IN
  /\ Found(b, a) = {} /\ Ends(b) /\ Len(Listed(b)) = ListMax
  /\ Oldest(Listed(b)) = NULL
  /\ Dead(b, "crash")

(* The walk neither finds the address nor ends.                            *)
DetectForever(a) ==
  /\ Found(BucketOf[a], a) = {} /\ ~Ends(BucketOf[a])
  /\ Dead(BucketOf[a], "loop")

Next ==
  \/ Tick
  \/ \E a \in Addr :
       \/ \E p \in SrcPort : DetectKnown(a, p) \/ DetectNew(a, p) \/ DetectReuse(a, p)
       \/ DetectNoNode(a) \/ DetectNull(a) \/ DetectForever(a)

Spec == Init /\ [][Next]_vars

-------------------------------------------------------------------------------
(* Properties.                                                             *)

TypeOK ==
  /\ nx \in [Entry -> Entry \cup {NULL}] /\ pv \in [Entry -> Entry \cup {NULL}]
  /\ addr \in [Node -> Addr \cup {NULL}]
  /\ modtime \in [Node -> 0..(TimeMod - 1)]
  /\ entries \in [Node -> Seq(SrcPort)]
  /\ free \subseteq Node
  /\ clock \in 0..MaxClock /\ reused \subseteq Bucket
  /\ \A b \in Bucket : outcome[b].end \in {"return", "crash", "loop"}

(* No walk follows a NULL pointer, into another bucket or into the pool,   *)
(* whatever reuse has done to the links.                                   *)
WalkSafe ==
  \A b \in Bucket :
    /\ \A i \in DOMAIN Steps(b) : Steps(b)[i] \in Node \cup {b}
    /\ Visited(b) \cap free = {}
    /\ \A c \in Bucket \ {b} : Visited(b) \cap Visited(c) = {}

(* An address is looked up in its own bucket and has at most one node      *)
(* there: its ports are not counted in two places.                         *)
OneNode ==
  \A b \in Bucket :
    /\ \A n \in Visited(b) : addr[n] \in Addr /\ BucketOf[addr[n]] = b
    /\ \A m, n \in Visited(b) : addr[m] = addr[n] => m = n

(* The entry array is not overrun: the entry a call writes has an index    *)
(* below EntryMax, as far as the configured number is.                     *)
EntryBound ==
  ScanNumber < EntryMax =>
    \A n \in Node : Len(entries[n]) <= ScanNumber /\ Len(entries[n]) < EntryMax

(* An alarm is raised only for an address seen with more than ScanNumber   *)
(* ports since its last alarm: no port is counted twice, and none is left  *)
(* over from the address a reused node served before.                      *)
AlarmSound ==
  \A b \in Bucket : outcome[b].res => Cardinality(outcome[b].ports) > ScanNumber

(* More than ScanNumber ports within ScanMs milliseconds raise an alarm.   *)
(* They do not: the window check takes the modtime minus the time, not the *)
(* time minus the modtime, and drops the entries as soon as a millisecond  *)
(* has passed.                                                             *)
WindowAlarm ==
  \A b \in Bucket :
    Cardinality(outcome[b].recent) > ScanNumber => outcome[b].res

(* Until a node is reused every list is whole, in both directions, and     *)
(* every node is in the pool or in a list, when the pool runs empty too.   *)
ListWhole ==
  /\ \A b \in Bucket \ reused : Ends(b) /\ L!IsList(nx, pv, b, Listed(b))
  /\ reused = {} => free = Node \ UNION {Visited(b) : b \in Bucket}
===============================================================================
