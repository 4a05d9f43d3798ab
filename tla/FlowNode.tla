-------------------------------- MODULE FlowNode -------------------------------
(***************************************************************************)
(* A node of the matcher's trie, flow_core_node.c: its outgoing edges in   *)
(* their vector, from the creation of the edges to their lookup by binary  *)
(* search; and the pool that all the trie's nodes come from.  An edge is   *)
(* known by its letter.                                                    *)
(*                                                                         *)
(* FlowAho takes the lookup for what LookupRight says of it.               *)
(***************************************************************************)
EXTENDS FlowMpool, Functions

CONSTANTS
  Letter,       \* AC_ALPHABET_t, a signed char
  Depth,        \* the node's depth
  NodeSize,     \* sizeof(ACT_NODE_t)
  TextLens,     \* lengths of texts that are copied into the pool
  MaxElse,      \* bound on what else is taken from the pool
  NULL          \* the null pointer

ASSUME NodeAssumption ==
  /\ Letter \subseteq Int
  /\ Depth \in Nat /\ NodeSize \in Nat \ {0}
  /\ TextLens \subseteq Nat /\ MaxElse \in Nat
  /\ NULL \notin Int

VARIABLES
  pool,         \* the trie's mpool
  outgoing,     \* the letters of the edges, in the order of the vector
  capacity,     \* outgoing_capacity
  pc,           \* "add", "ready", "search"
  alpha, min, max,    \* node_find_next_bs's variables
  next,         \* what it returned: the edge's index, from 0, or NULL
  other          \* what else has been taken from the pool

edges  == <<outgoing, capacity>>
lookup == <<alpha, min, max, next>>
vars   == <<pool, edges, pc, lookup, other>>

Init ==
  /\ pool = Malloc(NewPool, NodeSize)
  /\ outgoing = << >> /\ capacity = 0
  /\ pc = "add"
  /\ alpha = NULL /\ min = 0 /\ max = 0 /\ next = NULL
  /\ other = 0

(* node_find_next: one edge after the other.                               *)
FindNext(a) == \E i \in DOMAIN outgoing : outgoing[i] = a

(* node_grow_outgoing_vector: the nearer the root the more.                *)
GrowFactor == 8 \div (Depth + 1) + 1

(* node_create_next: no new edge if there is one, else a new node.          *)
CreateNext(a) ==
  /\ pc = "add"
  /\ ~FindNext(a)
  /\ pool' = Malloc(pool, NodeSize)
  /\ capacity' = IF Len(outgoing) = capacity THEN capacity + GrowFactor ELSE capacity
  /\ outgoing' = Append(outgoing, a)
  /\ UNCHANGED <<pc, lookup, other>>

(* Another node of the trie, or the copy of a pattern's text.              *)
TakeElse ==
  /\ pc = "add"
  /\ other < MaxElse /\ other' = other + 1
  /\ \/ pool' = Malloc(pool, NodeSize)
     \/ \E n \in TextLens : pool' = Strndup(pool, n)
  /\ UNCHANGED <<edges, pc, lookup>>

Ascending(s) == \A i, j \in DOMAIN s : i < j => s[i] < s[j]

(* Mutant of SortEdges: the edges stay as they were added.                 *)
SortEdgesNot ==
  /\ pc = "add" /\ pc' = "ready"
  /\ UNCHANGED <<pool, edges, lookup, other>>

(* node_sort_edges, when the trie is finalized: qsort, external.           *)
SortEdges ==
  /\ pc = "add" /\ pc' = "ready"
  /\ \E s \in [DOMAIN outgoing -> Range(outgoing)] :
       Ascending(s) /\ Range(s) = Range(outgoing) /\ outgoing' = s
  /\ UNCHANGED <<pool, capacity, lookup, other>>

-------------------------------------------------------------------------------
(* node_find_next_bs                                                       *)

FindBegin(a) ==
  /\ pc = "ready" /\ pc' = "search"
  /\ alpha' = a /\ next' = NULL
  /\ min' = 0 /\ max' = Len(outgoing) - 1
  /\ UNCHANGED <<pool, edges, other>>

(* Mutant of FindStep: the middle stays in the range.                      *)
FindStepStuck ==
  LET mid  == (min + max) \div 2
      amid == outgoing[mid + 1]
  IN /\ pc = "search" /\ min <= max
     /\ \/ alpha > amid /\ min' = mid /\ UNCHANGED <<pc, max, next>>
        \/ alpha < amid /\ max' = mid - 1 /\ UNCHANGED <<pc, min, next>>
        \/ alpha = amid /\ next' = mid /\ pc' = "ready" /\ UNCHANGED <<min, max>>
     /\ UNCHANGED <<pool, edges, alpha, other>>

(* One turn of the loop.                                                   *)
FindStep ==
  LET mid  == (min + max) \div 2
      amid == outgoing[mid + 1]
  IN /\ pc = "search" /\ min <= max
     /\ \/ alpha > amid /\ min' = mid + 1 /\ UNCHANGED <<pc, max, next>>
        \/ alpha < amid /\ max' = mid - 1 /\ UNCHANGED <<pc, min, next>>
        \/ alpha = amid /\ next' = mid /\ pc' = "ready" /\ UNCHANGED <<min, max>>
     /\ UNCHANGED <<pool, edges, alpha, other>>

FindEnd ==
  /\ pc = "search" /\ min > max
  /\ next' = NULL /\ pc' = "ready"
  /\ UNCHANGED <<pool, edges, alpha, min, max, other>>

Next ==
  \/ \E a \in Letter : CreateNext(a)
  \/ TakeElse
  \/ SortEdges
  \/ \E a \in Letter : FindBegin(a)
  \/ FindStep \/ FindEnd

Spec == Init /\ [][Next]_vars

FairSpec == Spec /\ WF_vars(FindStep \/ FindEnd)

-------------------------------------------------------------------------------
(* Properties.                                                             *)

(* What the nodes and texts of a trie are kept in is theirs alone, also    *)
(* when a block is filled to its last byte, when its rest is too small,    *)
(* and when a text is longer than a block; and the edges fit their vector. *)
AreasApart == Apart(pool) /\ Len(outgoing) <= capacity

(* A lookup by binary search finds the edge that a search one by one would *)
(* find, and none that is not there.  While it goes on, an edge that it    *)
(* looks for lies between min and max, and these within the vector.        *)
LookupRight ==
  /\ pc = "ready" /\ alpha # NULL =>
       IF next = NULL THEN ~FindNext(alpha)
       ELSE next + 1 \in DOMAIN outgoing /\ outgoing[next + 1] = alpha
  /\ pc = "search" =>
       /\ min >= 0 /\ max < Len(outgoing)
       /\ \A i \in DOMAIN outgoing : outgoing[i] = alpha => i - 1 \in min..max

(* A lookup ends, also in a node without edges.                            *)
LookupEnds == pc = "search" ~> pc = "ready"
===============================================================================
