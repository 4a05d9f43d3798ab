---------------------------- MODULE FlowDdosProof -----------------------------
(***************************************************************************)
(* Proofs about FlowDdos, for any number of buckets, nodes and addresses,  *)
(* any sizes of lists and entry arrays, and any clock.                     *)
(***************************************************************************)
EXTENDS FlowDdos, FiniteSetTheorems, WellFoundedInduction, TLAPS

-------------------------------------------------------------------------------
(* Walks.  Walk(f, b) are the Steps from b when the next pointers are f.   *)

Last == Cardinality(Node) + 1

Walk(f, b) ==
  LET at[i \in 0..(Cardinality(Node) + 1)] ==
        IF i = 0 THEN f[b]
        ELSE LET e == at[i - 1] IN IF e \in Node THEN f[e] ELSE e
  IN at

LEMMA LastFacts == Last \in Nat \ {0}
BY DdosAssumption, FS_CardinalityType DEF Last

(* A set that has 0, and i + 1 with every i, has all numbers up to n.      *)
LEMMA Reach ==
  ASSUME NEW n \in Nat, NEW S, 0 \in S, \A i \in 0..(n - 1) : i \in S => i + 1 \in S
  PROVE  \A i \in 0..n : i \in S
<1> DEFINE T == (0..n) \ S
           R == OpToRel(<, Nat)
<1> SUFFICES ASSUME T # {} PROVE FALSE
  OBVIOUS
<1>1. IsWellFoundedOn(R, Nat)
  BY NatLessThanWellFounded
<1>2. PICK t \in T : \A y \in T : ~(<<y, t>> \in R)
  <2>1. T \subseteq Nat
    OBVIOUS
  <2> HIDE DEF T, R
  <2> QED BY <1>1, <2>1, WFMin
<1>3. \A y \in T : ~(y < t)
  <2>1. T \subseteq Nat
    OBVIOUS
  <2> HIDE DEF T
  <2> QED BY <1>2, <2>1 DEF OpToRel
<1>4. t \in Nat /\ t # 0 /\ t - 1 \in 0..(n - 1) /\ t - 1 \notin T
  BY <1>3
<1> QED
  BY <1>4

(* A set of numbers with an element has a least one.                       *)
LEMMA Least ==
  ASSUME NEW T \in SUBSET Nat, T # {}
  PROVE  \E t \in T : \A y \in T : t <= y
<1> DEFINE R == OpToRel(<, Nat)
<1>1. IsWellFoundedOn(R, Nat)
  BY NatLessThanWellFounded
<1>2. PICK t \in T : \A y \in T : ~(<<y, t>> \in R)
  <2> HIDE DEF R
  <2> QED BY <1>1, WFMin
<1>3. \A y \in T : ~(y < t)
  BY <1>2 DEF OpToRel
<1> QED
  BY <1>3

(* The walk is what its equation says.                                     *)
LEMMA WalkFacts ==
  ASSUME NEW f, NEW b
  PROVE  /\ DOMAIN Walk(f, b) = 0..Last
         /\ Walk(f, b)[0] = f[b]
         /\ \A i \in 0..(Last - 1) :
              Walk(f, b)[i + 1] = IF Walk(f, b)[i] \in Node THEN f[Walk(f, b)[i]]
                                  ELSE Walk(f, b)[i]
<1> DEFINE Eq(at, k) ==
             at = [i \in 0..k |-> IF i = 0 THEN f[b]
                                  ELSE IF at[i - 1] \in Node THEN f[at[i - 1]] ELSE at[i - 1]]
           G == {k \in 0..Last : \E at : Eq(at, k)}
<1>1. 0 \in G
  <2> DEFINE at == [i \in 0..0 |-> f[b]]
  <2>1. Eq(at, 0)
    OBVIOUS
  <2> HIDE DEF Eq, at
  <2>2. \E w : Eq(w, 0)
    BY <2>1
  <2> QED BY <2>2, LastFacts
<1>2. \A k \in 0..(Last - 1) : k \in G => k + 1 \in G
  <2> SUFFICES ASSUME NEW k \in 0..(Last - 1), NEW at, Eq(at, k) PROVE k + 1 \in G
    OBVIOUS
  <2> DEFINE step == IF at[k] \in Node THEN f[at[k]] ELSE at[k]
             new == [i \in 0..(k + 1) |-> IF i = k + 1 THEN step ELSE at[i]]
  <2>1. \A i \in 0..k : at[i] = IF i = 0 THEN f[b]
                                ELSE IF at[i - 1] \in Node THEN f[at[i - 1]] ELSE at[i - 1]
    OBVIOUS
  <2>2. \A i \in 0..(k + 1) :
          new[i] = IF i = 0 THEN f[b]
                   ELSE IF new[i - 1] \in Node THEN f[new[i - 1]] ELSE new[i - 1]
    <3> HIDE DEF Eq
    <3> SUFFICES ASSUME NEW i \in 0..(k + 1)
                 PROVE  new[i] = IF i = 0 THEN f[b]
                                 ELSE IF new[i - 1] \in Node THEN f[new[i - 1]] ELSE new[i - 1]
      OBVIOUS
    <3>1. CASE i = k + 1
      <4>1. new[i] = step /\ i # 0 /\ i - 1 = k /\ new[i - 1] = at[k]
        BY <3>1, LastFacts
      <4> QED BY <4>1
    <3>2. CASE i # k + 1
      <4>1. i \in 0..k /\ new[i] = at[i] /\ (i # 0 => new[i - 1] = at[i - 1])
        BY <3>2, LastFacts
      <4> QED BY <4>1, <2>1
    <3> QED BY <3>1, <3>2
  <2>3. Eq(new, k + 1)
    <3> HIDE DEF step
    <3> QED BY <2>2
  <2>4. k + 1 \in 0..Last
    BY LastFacts
  <2> HIDE DEF Eq, new
  <2> QED BY <2>3, <2>4
<1>3. Last \in G
  <2> HIDE DEF G
  <2> QED BY <1>1, <1>2, Reach, LastFacts
<1>4. \E at : Eq(at, Last)
  BY <1>3
<1>5. Walk(f, b) = CHOOSE at : Eq(at, Last)
  BY DEF Walk, Last
<1>6. Eq(Walk(f, b), Last)
  <2> HIDE DEF Eq
  <2> QED BY <1>4, <1>5
<1> DEFINE w == Walk(f, b)
<1>7. w = [i \in 0..Last |-> IF i = 0 THEN f[b]
                             ELSE IF w[i - 1] \in Node THEN f[w[i - 1]] ELSE w[i - 1]]
  BY <1>6
<1> HIDE DEF w
<1>8. /\ DOMAIN w = 0..Last
      /\ w[0] = f[b]
      /\ \A i \in 0..(Last - 1) : w[i + 1] = IF w[i] \in Node THEN f[w[i]] ELSE w[i]
  BY <1>7, LastFacts
<1> QED
  BY <1>8 DEF w

(* A walk stays in a set that is closed under f.                           *)
LEMMA WalkIn ==
  ASSUME NEW f, NEW b, NEW S, f[b] \in S, \A n \in S \cap Node : f[n] \in S
  PROVE  \A i \in 0..Last : Walk(f, b)[i] \in S
<1> DEFINE G == {i \in 0..Last : Walk(f, b)[i] \in S}
<1>1. 0 \in G
  BY WalkFacts, LastFacts
<1>2. \A i \in 0..(Last - 1) : i \in G => i + 1 \in G
  BY WalkFacts, LastFacts
<1>3. \A i \in 0..Last : i \in G
  <2> HIDE DEF G
  <2> QED BY <1>1, <1>2, Reach, LastFacts
<1> QED
  BY <1>3

(* Two walks that start alike and go on alike are the same.                *)
LEMMA WalkSame ==
  ASSUME NEW f, NEW g, NEW b, NEW S, f[b] = g[b], f[b] \in S,
         \A n \in S \cap Node : f[n] = g[n] /\ f[n] \in S
  PROVE  \A i \in 0..Last : Walk(f, b)[i] = Walk(g, b)[i]
<1> DEFINE G == {i \in 0..Last : Walk(f, b)[i] = Walk(g, b)[i]}
<1>1. 0 \in G
  BY WalkFacts, LastFacts
<1>2. \A i \in 0..(Last - 1) : i \in G => i + 1 \in G
  <2> SUFFICES ASSUME NEW i \in 0..(Last - 1), i \in G PROVE i + 1 \in G
    OBVIOUS
  <2>1. Walk(f, b)[i] = Walk(g, b)[i] /\ Walk(f, b)[i] \in S
    BY WalkIn, LastFacts
  <2>2. Walk(f, b)[i + 1] = Walk(g, b)[i + 1]
    BY <2>1, WalkFacts
  <2> QED BY <2>2, LastFacts
<1>3. \A i \in 0..Last : i \in G
  <2> HIDE DEF G
  <2> QED BY <1>1, <1>2, Reach, LastFacts
<1> QED
  BY <1>3

(* The nodes a walk visits.                                                *)
On(f, b) == {Walk(f, b)[i] : i \in 0..Last} \cap Node

LEMMA VisitedFacts ==
  ASSUME NEW b
  PROVE  Steps(b) = Walk(nx, b) /\ DOMAIN Steps(b) = 0..Last /\ Visited(b) = On(nx, b)
<1>1. Steps(b) = Walk(nx, b)
  BY DEF Steps, Walk
<1>2. DOMAIN Steps(b) = 0..Last
  BY <1>1, WalkFacts
<1> QED
  BY <1>1, <1>2 DEF Visited, On

LEMMA VisitedNext ==
  ASSUME NEW b
  PROVE  Visited(b)' = On(nx', b)
<1>1. Steps(b)' = Walk(nx', b)
  BY DEF Steps, Walk
<1>2. DOMAIN Walk(nx', b) = 0..Last
  BY WalkFacts
<1> QED
  BY <1>1, <1>2 DEF Visited, On

(* A node that is reused is one that the walk has visited.                 *)
LEMMA OldestFacts ==
  ASSUME NEW b \in Bucket, Ends(b), Oldest(Listed(b)) # NULL
  PROVE  Oldest(Listed(b)) \in Visited(b)
<1> DEFINE at == Steps(b)
           stop(i) == at[i] \notin Node /\ \A j \in 0..(i - 1) : at[j] \in Node
           len == CHOOSE i \in DOMAIN at : stop(i)
           T == {i \in 0..Last : at[i] \notin Node}
           s == Listed(b)
<1>1. DOMAIN at = 0..Last
  BY VisitedFacts
<1>2. Last \in T
  BY LastFacts, DdosAssumption DEF Ends, Last
<1>3. PICK t \in T : \A y \in T : t <= y
  <2>1. T \subseteq Nat
    BY LastFacts
  <2> HIDE DEF T
  <2> QED BY <1>2, <2>1, Least
<1>4. t \in DOMAIN at /\ stop(t)
  BY <1>1, <1>3, LastFacts
<1>5. len \in DOMAIN at /\ stop(len)
  <2> HIDE DEF at, stop
  <2> QED BY <1>4
<1>6. s = [i \in 1..len |-> at[i - 1]]
  BY DEF Listed
<1>7. len \in 0..Last
  BY <1>1, <1>5
<1>8. ASSUME NEW i \in DOMAIN s PROVE s[i] \in Visited(b)
  <2> HIDE DEF s, at, len
  <2>1. i \in 1..len /\ s[i] = at[i - 1]
    BY <1>6
  <2>2. i - 1 \in 0..Last /\ i - 1 \in 0..(len - 1)
    BY <2>1, <1>7, LastFacts
  <2>3. at[i - 1] \in Node
    BY <1>5, <2>2
  <2> QED BY <1>1, <2>1, <2>2, <2>3 DEF Visited, at
<1>9. \E i \in DOMAIN s : Oldest(s) = s[i]
  <2> DEFINE young(i) == modtime[s[i]] < TimeNever
             best == {i \in DOMAIN s :
                       /\ young(i)
                       /\ \A j \in DOMAIN s : modtime[s[i]] <= modtime[s[j]]
                       /\ \A j \in 1..(i - 1) : modtime[s[i]] < modtime[s[j]]}
  <2>1. Oldest(s) = IF best = {} THEN NULL ELSE s[CHOOSE i \in best : TRUE]
    BY DEF Oldest
  <2>2. best # {} /\ best \subseteq DOMAIN s
    BY <2>1
  <2> HIDE DEF best, s
  <2>3. (CHOOSE i \in best : TRUE) \in best
    BY <2>2
  <2> QED BY <2>1, <2>2, <2>3
<1> QED
  BY <1>8, <1>9

-------------------------------------------------------------------------------
(* The inductive invariant.                                                *)

(* The nodes that serve an address of bucket b, whether or not a walk      *)
(* still comes by.                                                         *)
Own(b) == {n \in Node \ free : addr[n] \in Addr /\ BucketOf[addr[n]] = b}

(* No link leads out of them.                                              *)
Closed ==
  \A b \in Bucket : \A e \in Own(b) \cup {b} :
    nx[e] \in Own(b) \cup {b} /\ pv[e] \in Own(b) \cup {b}

(* A walk meets an address once.                                           *)
Distinct == \A b \in Bucket : \A m, n \in Visited(b) : addr[m] = addr[n] => m = n

(* The entries of a node are ports its address was seen with.              *)
Counted ==
  \A b \in Bucket : \A n \in Visited(b) :
    /\ \A i, j \in 1..Len(entries[n]) : entries[n][i] = entries[n][j] => i = j
    /\ \A i \in 1..Len(entries[n]) : seen[addr[n]][entries[n][i]] >= 0

Bounded == \A n \in Node : Len(entries[n]) <= ScanNumber

HistoryOK ==
  /\ seen \in [Addr -> [SrcPort -> Int]]
  /\ outcome \in [Bucket -> [a : Addr \cup {NULL}, res : BOOLEAN, end : {"return", "crash", "loop"},
                             ports : SUBSET SrcPort, recent : SUBSET SrcPort]]

DInv == TypeOK /\ HistoryOK /\ Closed /\ Distinct /\ Counted /\ Bounded /\ AlarmSound

LEMMA VisitedOwn ==
  ASSUME Closed, NEW b \in Bucket
  PROVE  /\ \A i \in 0..Last : Steps(b)[i] \in Own(b) \cup {b}
         /\ Visited(b) \subseteq Own(b)
<1>1. nx[b] \in Own(b) \cup {b} /\ \A n \in Own(b) : nx[n] \in Own(b) \cup {b}
  BY DEF Closed
<1>2. (Own(b) \cup {b}) \cap Node \subseteq Own(b)
  BY DdosAssumption DEF Own
<1>3. \A i \in 0..Last : Walk(nx, b)[i] \in Own(b) \cup {b}
  BY <1>1, <1>2, WalkIn
<1> QED
  BY <1>2, <1>3, VisitedFacts DEF On

(* While a walk ends, what it visits is closed.                            *)
LEMMA VisitedClosed ==
  ASSUME Closed, NEW b \in Bucket, Ends(b)
  PROVE  nx[b] \in Visited(b) \cup {b} /\ \A n \in Visited(b) : nx[n] \in Visited(b) \cup {b}
<1>1. \A i \in 0..Last : Steps(b)[i] \in Own(b) \cup {b}
  BY VisitedOwn
<1>2. Own(b) \subseteq Node
  BY DEF Own
<1>3. \A i \in 0..Last : Steps(b)[i] \in Visited(b) \cup {b}
  BY <1>1, <1>2, VisitedFacts DEF On
<1>4. nx[b] \in Visited(b) \cup {b}
  BY <1>3, VisitedFacts, WalkFacts, LastFacts
<1>5. ASSUME NEW n \in Visited(b) PROVE nx[n] \in Visited(b) \cup {b}
  <2>1. PICK i \in 0..Last : n = Steps(b)[i]
    BY VisitedFacts DEF On
  <2>2. n \in Node
    BY DEF Visited
  <2>3. i # Last
    BY <2>1, <2>2, DdosAssumption DEF Ends, Last
  <2>4. i \in 0..(Last - 1) /\ i + 1 \in 0..Last
    BY <2>3, LastFacts
  <2>5. Steps(b)[i + 1] = nx[n]
    BY <2>1, <2>2, <2>4, WalkFacts, VisitedFacts
  <2> QED BY <1>3, <2>4, <2>5
<1> QED
  BY <1>4, <1>5

-------------------------------------------------------------------------------
(* Adding a node to the tail of a list, a new one or one that is in it.    *)

LEMMA Links ==
  ASSUME TypeOK, Closed, NEW b \in Bucket, NEW a \in Addr, NEW n \in Node, Insert(b, a, n)
  PROVE  /\ nx' \in [Entry -> Entry \cup {NULL}] /\ pv' \in [Entry -> Entry \cup {NULL}]
         /\ pv[b] \in Own(b) \cup {b}
         /\ \A e \in Entry : nx'[e] = IF e = pv[b] THEN n ELSE IF e = n THEN b ELSE nx[e]
         /\ \A e \in Entry : pv'[e] = IF e = n THEN pv[b] ELSE IF e = b THEN n ELSE pv[e]
<1>1. pv[b] \in Own(b) \cup {b} /\ Own(b) \subseteq Node /\ n # b
  BY DdosAssumption DEF Closed, Own
<1>2. b \in Entry /\ n \in Entry /\ pv[b] \in Entry
  BY <1>1 DEF Entry
<1>3. nx \in [Entry -> Entry \cup {NULL}] /\ pv \in [Entry -> Entry \cup {NULL}]
  BY DEF TypeOK
<1> DEFINE p == [pv EXCEPT ![n] = n]
           q == [nx EXCEPT ![n] = n]
<1>4. p[b] = pv[b]
  BY <1>1, <1>2, <1>3
<1>5. nx' = [[q EXCEPT ![n] = b] EXCEPT ![p[b]] = n] /\ pv' = [[p EXCEPT ![b] = n] EXCEPT ![n] = p[b]]
  BY DEF Insert, L!AddTail, L!SelfLinked
<1>6. nx' = [[q EXCEPT ![n] = b] EXCEPT ![pv[b]] = n] /\ pv' = [[p EXCEPT ![b] = n] EXCEPT ![n] = pv[b]]
  BY <1>4, <1>5
<1>7. \A e \in Entry : nx'[e] = IF e = pv[b] THEN n ELSE IF e = n THEN b ELSE nx[e]
  BY <1>2, <1>3, <1>6
<1>8. \A e \in Entry : pv'[e] = IF e = n THEN pv[b] ELSE IF e = b THEN n ELSE pv[e]
  BY <1>2, <1>3, <1>6
<1>9. nx' \in [Entry -> Entry \cup {NULL}] /\ pv' \in [Entry -> Entry \cup {NULL}]
  BY <1>2, <1>3, <1>6
<1> QED
  BY <1>1, <1>7, <1>8, <1>9

(* n is in the pool, or the walk has visited it.                           *)
Taken(b, n) ==
  \/ n \in free /\ free' = free \ {n}
  \/ n \in Visited(b) /\ free' = free

(* The nodes of the bucket are now those and n; the other buckets and the  *)
(* links of their nodes are as they were.                                  *)
LEMMA OwnAfter ==
  ASSUME TypeOK, Closed, NEW a \in Addr, NEW n \in Node,
         Insert(BucketOf[a], a, n), Taken(BucketOf[a], n)
  PROVE  /\ Own(BucketOf[a])' = Own(BucketOf[a]) \cup {n}
         /\ \A c \in Bucket \ {BucketOf[a]} :
              /\ Own(c)' = Own(c) /\ n \notin Own(c)
              /\ \A e \in Own(c) \cup {c} : nx'[e] = nx[e] /\ pv'[e] = pv[e]
<1> DEFINE b == BucketOf[a]
<1>1. b \in Bucket
  BY DdosAssumption
<1>2. addr' = [addr EXCEPT ![n] = a] /\ addr \in [Node -> Addr \cup {NULL}]
  BY DEF Insert, TypeOK
<1>3. addr' \in [Node -> Addr \cup {NULL}] /\ addr'[n] = a /\ \A m \in Node \ {n} : addr'[m] = addr[m]
  BY <1>2
<1>4. (n \in free /\ free' = free \ {n}) \/ (n \in Own(b) /\ free' = free)
  BY <1>1, VisitedOwn DEF Taken
<1>5. Own(b)' = Own(b) \cup {n}
  <2>1. n \in Own(b)'
    BY <1>3, <1>4 DEF Own
  <2>2. \A m \in Node \ {n} : m \in Own(b)' <=> m \in Own(b)
    BY <1>3, <1>4 DEF Own
  <2> QED BY <2>1, <2>2 DEF Own
<1>6. ASSUME NEW c \in Bucket, c # b PROVE Own(c)' = Own(c) /\ n \notin Own(c)
  <2>1. n \notin Own(c)
    BY <1>4, <1>6 DEF Own
  <2>2. n \notin Own(c)'
    BY <1>3, <1>6 DEF Own
  <2>3. \A m \in Node \ {n} : m \in Own(c)' <=> m \in Own(c)
    BY <1>3, <1>4 DEF Own
  <2> QED BY <2>1, <2>2, <2>3 DEF Own
<1>7. \A c \in Bucket : Own(c) \subseteq Node
  BY DEF Own
<1> HIDE DEF b
<1>8. /\ pv[b] \in Own(b) \cup {b}
      /\ \A e \in Entry : nx'[e] = IF e = pv[b] THEN n ELSE IF e = n THEN b ELSE nx[e]
      /\ \A e \in Entry : pv'[e] = IF e = n THEN pv[b] ELSE IF e = b THEN n ELSE pv[e]
  BY <1>1, Links DEF b
<1>9. ASSUME NEW c \in Bucket, c # b, NEW e \in Own(c) \cup {c}
      PROVE  nx'[e] = nx[e] /\ pv'[e] = pv[e]
  <2>1. e \in Entry /\ e # n /\ e # b
    BY <1>1, <1>6, <1>7, <1>9, DdosAssumption DEF Entry
  <2>2. e # pv[b]
    BY <1>1, <1>7, <1>8, <1>9, DdosAssumption DEF Own
  <2> QED BY <1>8, <2>1, <2>2
<1> QED
  BY <1>5, <1>6, <1>9 DEF b

LEMMA Inserted ==
  ASSUME TypeOK, Closed, Distinct, NEW a \in Addr, NEW n \in Node, Ends(BucketOf[a]),
         Found(BucketOf[a], a) = {}, Insert(BucketOf[a], a, n), Taken(BucketOf[a], n)
  PROVE  /\ addr' \in [Node -> Addr \cup {NULL}] /\ addr'[n] = a
         /\ Closed' /\ Distinct'
         /\ \A c \in Bucket : \A m \in Visited(c)' \ {n} :
              m \in Visited(c) /\ addr'[m] = addr[m] /\ addr[m] # a
<1> DEFINE b == BucketOf[a]
<1>1. b \in Bucket
  BY DdosAssumption
<1>2. addr' = [addr EXCEPT ![n] = a] /\ addr \in [Node -> Addr \cup {NULL}]
  BY DEF Insert, TypeOK
<1>3. addr' \in [Node -> Addr \cup {NULL}] /\ addr'[n] = a /\ \A m \in Node \ {n} : addr'[m] = addr[m]
  BY <1>2
<1>5. Own(b)' = Own(b) \cup {n}
  BY OwnAfter
<1>6. ASSUME NEW c \in Bucket, c # b PROVE Own(c)' = Own(c) /\ n \notin Own(c)
  BY <1>6, OwnAfter
<1>7. \A c \in Bucket : Own(c) \subseteq Node
  BY DEF Own
<1>9. ASSUME NEW c \in Bucket, c # b, NEW e \in Own(c) \cup {c}
      PROVE  nx'[e] = nx[e] /\ pv'[e] = pv[e]
  BY <1>9, OwnAfter
<1> HIDE DEF b
<1>8. /\ pv[b] \in Own(b) \cup {b}
      /\ \A e \in Entry : nx'[e] = IF e = pv[b] THEN n ELSE IF e = n THEN b ELSE nx[e]
      /\ \A e \in Entry : pv'[e] = IF e = n THEN pv[b] ELSE IF e = b THEN n ELSE pv[e]
  BY <1>1, Links DEF b
<1>10. Closed'
  <2>1. ASSUME NEW e \in Own(b) \cup {n, b}
        PROVE  nx'[e] \in Own(b) \cup {n, b} /\ pv'[e] \in Own(b) \cup {n, b}
    <3>1. e \in Entry
      BY <1>1, <1>7 DEF Entry
    <3>2. e # n => nx[e] \in Own(b) \cup {b} /\ pv[e] \in Own(b) \cup {b}
      BY <1>1, <2>1 DEF Closed
    <3> QED BY <1>8, <3>1, <3>2
  <2>2. ASSUME NEW c \in Bucket, NEW e \in Own(c)' \cup {c}
        PROVE  nx'[e] \in Own(c)' \cup {c} /\ pv'[e] \in Own(c)' \cup {c}
    <3>1. CASE c = b
      BY <1>5, <2>1, <2>2, <3>1
    <3>2. CASE c # b
      BY <1>6, <1>9, <2>2, <3>2 DEF Closed
    <3> QED BY <3>1, <3>2
  <2> QED BY <2>2 DEF Closed
<1>11. Visited(b)' \subseteq Visited(b) \cup {n}
  <2> DEFINE S == Visited(b) \cup {n, b}
  <2>1. nx[b] \in Visited(b) \cup {b} /\ \A m \in Visited(b) : nx[m] \in Visited(b) \cup {b}
    BY <1>1, VisitedClosed DEF b
  <2>2. Visited(b) \subseteq Node /\ S \subseteq Entry /\ b \notin Node
    BY <1>1, DdosAssumption DEF Visited, Entry
  <2>3. nx'[b] \in S /\ \A m \in S \cap Node : nx'[m] \in S
    BY <1>8, <2>1, <2>2
  <2>4. \A i \in 0..Last : Walk(nx', b)[i] \in S
    <3> HIDE DEF S
    <3> QED BY <2>3, WalkIn
  <2>5. Visited(b)' = On(nx', b)
    BY <1>1, VisitedNext DEF b
  <2> QED BY <2>2, <2>4, <2>5 DEF On
<1>12. ASSUME NEW c \in Bucket, c # b PROVE Visited(c)' = Visited(c)
  <2> DEFINE S == Own(c) \cup {c}
  <2>1. nx[c] = nx'[c] /\ nx[c] \in S /\ \A m \in S \cap Node : nx[m] = nx'[m] /\ nx[m] \in S
    BY <1>9, <1>12 DEF Closed
  <2>2. \A i \in 0..Last : Walk(nx, c)[i] = Walk(nx', c)[i]
    <3> HIDE DEF S
    <3> QED BY <2>1, WalkSame
  <2>3. On(nx, c) = On(nx', c)
    BY <2>2 DEF On
  <2> QED BY <2>3, VisitedFacts, VisitedNext
<1>13. ASSUME NEW c \in Bucket, NEW m \in Visited(c)', m # n
       PROVE  m \in Visited(c) /\ addr'[m] = addr[m] /\ addr[m] # a
  <2>1. m \in Visited(c)
    BY <1>11, <1>12, <1>13
  <2>2. m \in Own(c)
    BY <2>1, VisitedOwn
  <2>3. c = b => addr[m] # a
    BY <2>1 DEF Found, b
  <2>4. c # b => addr[m] # a
    BY <2>2 DEF Own, b
  <2> QED BY <1>3, <1>7, <1>13, <2>1, <2>2, <2>3, <2>4
<1>14. Distinct'
  <2> SUFFICES ASSUME NEW c \in Bucket, NEW l \in Visited(c)', NEW m \in Visited(c)',
                      addr'[l] = addr'[m]
               PROVE  l = m
    BY DEF Distinct
  <2> QED BY <1>3, <1>13 DEF Distinct
<1> QED
  BY <1>3, <1>10, <1>13, <1>14

-------------------------------------------------------------------------------
(* Recording a port.                                                       *)

(* Different entries are no more than there are ports of that kind.        *)
LEMMA EntriesCount ==
  ASSUME NEW P, IsFiniteSet(P), NEW s \in Seq(P),
         \A i, j \in 1..Len(s) : s[i] = s[j] => i = j
  PROVE  Len(s) <= Cardinality(P)
<1>1. s \in [1..Len(s) -> P]
  OBVIOUS
<1>2. s \in Injection(1..Len(s), P)
  BY <1>1 DEF Injection, IsInjective
<1>3. Cardinality(1..Len(s)) <= Cardinality(P)
  BY <1>2, FS_Injection
<1> QED
  BY <1>3, FS_Interval

(* What a node has counted: different ports, at most ScanNumber, with      *)
(* which the address has been seen.                                        *)
Tally(s, since) ==
  /\ s \in Seq(SrcPort) /\ Len(s) <= ScanNumber
  /\ \A i, j \in 1..Len(s) : s[i] = s[j] => i = j
  /\ \A i \in 1..Len(s) : since[s[i]] >= 0

LEMMA Recorded ==
  ASSUME DInv, NEW a \in Addr, NEW b \in Bucket, NEW p \in SrcPort, NEW n \in Node, NEW then,
         NEW old, Tally(old, seen[a]), NEW now, NEW last \in 0..MaxClock,
         Record(b, a, p, n, then, old, now, last), addr'[n] = a,
         \A c \in Bucket : \A m \in Visited(c)' \ {n} :
           m \in Visited(c) /\ addr'[m] = addr[m] /\ addr[m] # a
  PROVE  /\ modtime' \in [Node -> 0..(TimeMod - 1)]
         /\ entries' \in [Node -> Seq(SrcPort)]
         /\ clock' \in 0..MaxClock
         /\ HistoryOK' /\ Counted' /\ Bounded' /\ AlarmSound'
<1> DEFINE kept  == IF WindowOver(then, now) THEN << >> ELSE old
           known == p \in Range(kept)
           full  == Len(kept) + 1 > ScanNumber
           since == [seen[a] EXCEPT ![p] = last]
           ports == {q \in SrcPort : since[q] >= 0}
           recent == {q \in SrcPort : since[q] >= 0 /\ last - since[q] \in 0..ScanMs}
           new   == IF known THEN kept ELSE IF full THEN << >> ELSE Append(kept, p)
           alarm == ~known /\ full
           result == [a |-> a, res |-> alarm, end |-> "return", ports |-> ports, recent |-> recent]
<1>1. /\ modtime' = [modtime EXCEPT ![n] = Time(last)]
      /\ entries' = [entries EXCEPT ![n] = new]
      /\ outcome' = [outcome EXCEPT ![b] = result]
      /\ seen' = [seen EXCEPT ![a] = IF alarm THEN [q \in SrcPort |-> -1] ELSE since]
      /\ clock' = last
  BY DEF Record
<1>2. /\ modtime \in [Node -> 0..(TimeMod - 1)] /\ entries \in [Node -> Seq(SrcPort)]
      /\ seen \in [Addr -> [SrcPort -> Int]]
  BY DEF DInv, TypeOK, HistoryOK
<1>3. since \in [SrcPort -> Int] /\ since[p] >= 0 /\ \A q \in SrcPort \ {p} : since[q] = seen[a][q]
  BY <1>2, DdosAssumption
<1>4. Tally(kept, since)
  <2>1. since[p] >= 0 /\ \A q \in SrcPort : since[q] = seen[a][q] \/ since[q] >= 0
    BY <1>3
  <2>2. Tally(old, since)
    <3> HIDE DEF since
    <3> QED BY <2>1 DEF Tally
  <2>3. Tally(<< >>, since)
    BY DdosAssumption DEF Tally
  <2> QED BY <2>2, <2>3
<1> HIDE DEF kept, since
<1>5. ~known =>
        /\ Append(kept, p) \in Seq(SrcPort) /\ Len(Append(kept, p)) = Len(kept) + 1
        /\ \A i, j \in 1..Len(Append(kept, p)) :
              Append(kept, p)[i] = Append(kept, p)[j] => i = j
        /\ \A i \in 1..Len(Append(kept, p)) : since[Append(kept, p)[i]] >= 0
  <2> SUFFICES ASSUME ~known
               PROVE  /\ Append(kept, p) \in Seq(SrcPort) /\ Len(Append(kept, p)) = Len(kept) + 1
                      /\ \A i, j \in 1..Len(Append(kept, p)) :
                            Append(kept, p)[i] = Append(kept, p)[j] => i = j
                      /\ \A i \in 1..Len(Append(kept, p)) : since[Append(kept, p)[i]] >= 0
    OBVIOUS
  <2>1. \A i \in 1..Len(kept) : kept[i] # p
    <3>1. kept \in Seq(SrcPort) /\ DOMAIN kept = 1..Len(kept)
      BY <1>4 DEF Tally
    <3> QED BY <3>1 DEF Range
  <2>2. kept \in Seq(SrcPort) /\ Len(kept) \in Nat
    BY <1>4 DEF Tally
  <2>3. /\ Append(kept, p) \in Seq(SrcPort) /\ Len(Append(kept, p)) = Len(kept) + 1
        /\ \A i \in 1..Len(kept) : Append(kept, p)[i] = kept[i]
        /\ Append(kept, p)[Len(kept) + 1] = p
    BY <2>2
  <2>4. \A i \in 1..(Len(kept) + 1) : i \in 1..Len(kept) \/ i = Len(kept) + 1
    BY <2>2
  <2>5. /\ \A i, j \in 1..Len(kept) : kept[i] = kept[j] => i = j
        /\ \A i \in 1..Len(kept) : since[kept[i]] >= 0
    BY <1>4 DEF Tally
  <2> DEFINE s == Append(kept, p)
  <2> HIDE DEF s, known
  <2>6. \A i, j \in 1..(Len(kept) + 1) : s[i] = s[j] => i = j
    BY <2>1, <2>3, <2>4, <2>5 DEF s
  <2>7. \A i \in 1..(Len(kept) + 1) : since[s[i]] >= 0
    BY <1>3, <2>3, <2>4, <2>5 DEF s
  <2> QED BY <2>3, <2>6, <2>7 DEF s
<1>6. Tally(new, since)
  <2>1. Tally(<< >>, since)
    BY DdosAssumption DEF Tally
  <2>2. ~known /\ ~full => Tally(Append(kept, p), since)
    <3>1. kept \in Seq(SrcPort)
      BY <1>4 DEF Tally
    <3>2. Len(kept) \in Nat /\ ScanNumber \in Nat
      BY <3>1, DdosAssumption
    <3> HIDE DEF known
    <3> QED BY <1>5, <3>2 DEF Tally
  <2> QED BY <1>4, <2>1, <2>2
<1>7. alarm => Cardinality(ports) > ScanNumber
  <2> SUFFICES ASSUME alarm PROVE Cardinality(ports) > ScanNumber
    OBVIOUS
  <2> DEFINE s == Append(kept, p)
  <2>1. IsFiniteSet(ports)
    BY FS_Subset, DdosAssumption
  <2>2. s \in Seq(SrcPort) /\ \A i \in 1..Len(s) : s[i] \in ports
    BY <1>5
  <2>3. s \in Seq(ports)
    <3> HIDE DEF s, ports
    <3> QED BY <2>2
  <2>4. Len(s) <= Cardinality(ports)
    <3> HIDE DEF ports
    <3> QED BY <1>5, <2>1, <2>3, EntriesCount
  <2>5. Cardinality(ports) \in Nat
    BY <2>1, FS_CardinalityType
  <2>6. Len(kept) \in Nat
    BY <1>4 DEF Tally
  <2> HIDE DEF ports
  <2> QED BY <1>5, <2>4, <2>5, <2>6, DdosAssumption
<1>8. new = << >> \/ ~alarm
  OBVIOUS
<1> HIDE DEF known, full, new, ports, recent
<1>9. /\ modtime' \in [Node -> 0..(TimeMod - 1)] /\ clock' \in 0..MaxClock
  <2>1. Time(last) \in 0..(TimeMod - 1)
    BY DdosAssumption DEF Time
  <2> QED BY <1>1, <1>2, <2>1
<1>10. entries' \in [Node -> Seq(SrcPort)] /\ entries'[n] = new /\ \A m \in Node \ {n} : entries'[m] = entries[m]
  BY <1>1, <1>2, <1>6 DEF Tally
<1>11. Bounded'
  BY <1>6, <1>10 DEF Bounded, DInv, Tally
<1>12. /\ seen' \in [Addr -> [SrcPort -> Int]]
       /\ seen'[a] = IF alarm THEN [q \in SrcPort |-> -1] ELSE since
       /\ \A c \in Addr \ {a} : seen'[c] = seen[c]
  BY <1>1, <1>2, <1>3
<1>13. ports \subseteq SrcPort /\ recent \subseteq SrcPort /\ alarm \in BOOLEAN
  BY DEF ports, recent
<1>14. HistoryOK'
  <2>1. result \in [a : Addr \cup {NULL}, res : BOOLEAN, end : {"return", "crash", "loop"},
                    ports : SUBSET SrcPort, recent : SUBSET SrcPort]
    BY <1>13
  <2> HIDE DEF result
  <2> QED BY <1>1, <1>12, <2>1 DEF HistoryOK, DInv
<1>15. AlarmSound'
  <2>1. outcome'[b].res = alarm /\ outcome'[b].ports = ports
    BY <1>1 DEF HistoryOK, DInv
  <2>2. \A c \in Bucket \ {b} : outcome'[c] = outcome[c]
    BY <1>1 DEF HistoryOK, DInv
  <2> HIDE DEF alarm
  <2> QED BY <1>7, <2>1, <2>2 DEF AlarmSound, DInv
<1>16. Counted'
  <2> SUFFICES ASSUME NEW c \in Bucket, NEW m \in Visited(c)'
               PROVE  /\ \A i, j \in 1..Len(entries'[m]) : entries'[m][i] = entries'[m][j] => i = j
                      /\ \A i \in 1..Len(entries'[m]) : seen'[addr'[m]][entries'[m][i]] >= 0
    BY DEF Counted
  <2>1. CASE m = n
    <3>1. entries'[m] = new /\ addr'[m] = a
      BY <1>10, <2>1
    <3>2. CASE alarm
      BY <1>8, <3>1, <3>2
    <3>3. CASE ~alarm
      <4>1. seen'[a] = since
        BY <1>12, <3>3
      <4> QED BY <1>6, <3>1, <4>1 DEF Tally
    <3> QED BY <3>2, <3>3
  <2>2. CASE m # n
    <3>1. m \in Visited(c) /\ addr'[m] = addr[m] /\ addr[m] # a
      BY <2>2
    <3>2. m \in Node /\ addr[m] \in Addr
      BY <3>1, VisitedOwn DEF DInv, Own
    <3>3. entries'[m] = entries[m] /\ seen'[addr'[m]] = seen[addr[m]]
      BY <1>10, <1>12, <2>2, <3>1, <3>2
    <3> QED BY <3>1, <3>3 DEF Counted, DInv
  <2> QED BY <2>1, <2>2
<1> QED
  BY <1>9, <1>10, <1>11, <1>14, <1>15, <1>16

-------------------------------------------------------------------------------
(* The steps.                                                              *)

LEMMA InitInv == Init => DInv
<1> SUFFICES ASSUME Init PROVE DInv
  OBVIOUS
<1>1. TypeOK
  <2>1. outcome = [b \in Bucket |-> None] /\ None.end = "return"
    BY DEF Init, None
  <2>2. \A e \in Entry : (e \in Bucket => nx[e] = e) /\ (e \notin Bucket => nx[e] = NULL)
    BY DEF Init
  <2>3. nx \in [Entry -> Entry \cup {NULL}]
    BY DEF Init, Entry
  <2> QED BY <2>1, <2>3, DdosAssumption DEF Init, TypeOK
<1>2. HistoryOK
  BY DdosAssumption DEF Init, HistoryOK, None
<1>3. \A b \in Bucket : Own(b) = {} /\ nx[b] = b /\ pv[b] = b
  BY DEF Init, Own, Entry
<1>4. Closed
  BY <1>3 DEF Closed
<1>5. \A b \in Bucket : Visited(b) = {}
  BY <1>3, <1>4, VisitedOwn
<1>6. Bounded
  BY DdosAssumption DEF Init, Bounded
<1>7. AlarmSound
  BY DEF Init, AlarmSound, None
<1> QED
  BY <1>1, <1>2, <1>4, <1>5, <1>6, <1>7 DEF DInv, Distinct, Counted

LEMMA SameLinks ==
  ASSUME DInv, UNCHANGED <<nx, pv, addr, free>>
  PROVE  /\ Closed' /\ Distinct'
         /\ \A c \in Bucket : Visited(c)' = Visited(c)
<1>1. \A c \in Bucket : Visited(c)' = Visited(c)
  BY VisitedFacts, VisitedNext
<1>2. \A c \in Bucket : Own(c)' = Own(c)
  BY DEF Own
<1> QED
  BY <1>1, <1>2 DEF DInv, Closed, Distinct

LEMMA KnownInv ==
  ASSUME DInv, NEW a \in Addr, NEW p \in SrcPort, DetectKnown(a, p)
  PROVE  DInv'
<1> DEFINE b == BucketOf[a]
<1>1. PICK n \in Found(b, a), now \in 0..MaxClock, last \in 0..MaxClock :
        Record(b, a, p, n, modtime[n], entries[n], now, last)
  BY DEF DetectKnown, Later
<1>2. UNCHANGED <<nx, pv, addr, free, reused>> /\ b \in Bucket
  BY DdosAssumption DEF DetectKnown
<1>3. n \in Visited(b) /\ n \in Node /\ addr[n] = a
  BY DEF Found, Visited
<1>5. Tally(entries[n], seen[a])
  BY <1>2, <1>3 DEF DInv, TypeOK, Counted, Bounded, Tally
<1>6. Closed' /\ Distinct' /\ \A c \in Bucket : Visited(c)' = Visited(c)
  BY <1>2, SameLinks
<1>7. ASSUME NEW c \in Bucket, NEW m \in Visited(c)', m # n
      PROVE  m \in Visited(c) /\ addr'[m] = addr[m] /\ addr[m] # a
  <2>1. m \in Visited(c) /\ addr'[m] = addr[m]
    BY <1>2, <1>6
  <2>2. c = b => addr[m] # a
    BY <1>2, <1>3, <1>7, <2>1 DEF DInv, Distinct
  <2>3. c # b => addr[m] # a
    BY <2>1, VisitedOwn DEF DInv, Own
  <2> QED BY <2>1, <2>2, <2>3
<1>8. /\ addr'[n] = a
      /\ \A c \in Bucket : \A m \in Visited(c)' \ {n} :
           m \in Visited(c) /\ addr'[m] = addr[m] /\ addr[m] # a
  BY <1>2, <1>3, <1>7
<1> HIDE DEF b
<1>9. /\ modtime' \in [Node -> 0..(TimeMod - 1)]
      /\ entries' \in [Node -> Seq(SrcPort)]
      /\ clock' \in 0..MaxClock
      /\ HistoryOK' /\ Counted' /\ Bounded' /\ AlarmSound'
  BY <1>1, <1>2, <1>3, <1>5, <1>8, Recorded
<1>10. TypeOK'
  BY <1>2, <1>9 DEF DInv, TypeOK, HistoryOK
<1> QED
  BY <1>6, <1>9, <1>10 DEF DInv

(* A node that has been cleared.                                           *)
LEMMA ClearedInv ==
  ASSUME DInv, NEW a \in Addr, NEW p \in SrcPort, NEW n \in Node,
         NEW last \in 0..MaxClock,
         Found(BucketOf[a], a) = {}, Ends(BucketOf[a]), Insert(BucketOf[a], a, n),
         Taken(BucketOf[a], n), reused' \subseteq Bucket,
         Record(BucketOf[a], a, p, n, Time(last), << >>, last, last)
  PROVE  DInv'
<1> DEFINE b == BucketOf[a]
<1>1. b \in Bucket
  BY DdosAssumption
<1>3. Tally(<< >>, seen[a])
  BY DdosAssumption DEF Tally
<1>4. /\ addr' \in [Node -> Addr \cup {NULL}] /\ addr'[n] = a
      /\ Closed' /\ Distinct'
      /\ \A c \in Bucket : \A m \in Visited(c)' \ {n} :
           m \in Visited(c) /\ addr'[m] = addr[m] /\ addr[m] # a
  BY Inserted DEF DInv
<1>5. nx' \in [Entry -> Entry \cup {NULL}] /\ pv' \in [Entry -> Entry \cup {NULL}]
  BY <1>1, Links DEF DInv
<1>6. free' \subseteq Node
  BY DEF Taken, DInv, TypeOK
<1> HIDE DEF b
<1>7. /\ modtime' \in [Node -> 0..(TimeMod - 1)]
      /\ entries' \in [Node -> Seq(SrcPort)]
      /\ clock' \in 0..MaxClock
      /\ HistoryOK' /\ Counted' /\ Bounded' /\ AlarmSound'
  BY <1>1, <1>3, <1>4, Recorded DEF b
<1>8. TypeOK'
  BY <1>4, <1>5, <1>6, <1>7 DEF TypeOK, HistoryOK
<1> QED
  BY <1>4, <1>7, <1>8 DEF DInv

LEMMA NewInv ==
  ASSUME DInv, NEW a \in Addr, NEW p \in SrcPort, DetectNew(a, p)
  PROVE  DInv'
<1>1. PICK n \in free, last \in 0..MaxClock :
        /\ Insert(BucketOf[a], a, n)
        /\ free' = free \ {n}
        /\ Record(BucketOf[a], a, p, n, Time(last), << >>, last, last)
  BY DEF DetectNew, Later
<1>2. Found(BucketOf[a], a) = {} /\ Ends(BucketOf[a]) /\ reused' \subseteq Bucket
  BY DEF DetectNew, DInv, TypeOK
<1>3. n \in Node /\ Taken(BucketOf[a], n)
  BY <1>1 DEF Taken, DInv, TypeOK
<1> QED
  BY <1>1, <1>2, <1>3, ClearedInv

LEMMA ReuseInv ==
  ASSUME DInv, NEW a \in Addr, NEW p \in SrcPort, DetectReuse(a, p)
  PROVE  DInv'
<1> DEFINE b == BucketOf[a]
           n == Oldest(Listed(b))
<1>1. PICK last \in 0..MaxClock :
        /\ Insert(b, a, n)
        /\ Record(b, a, p, n, Time(last), << >>, last, last)
  BY DEF DetectReuse, Later
<1>2. /\ Found(b, a) = {} /\ Ends(b) /\ n # NULL
      /\ reused' = reused \cup {b} /\ free' = free /\ b \in Bucket
  BY DdosAssumption DEF DetectReuse
<1>3. n \in Visited(b)
  BY <1>2, OldestFacts
<1>4. n \in Node /\ Taken(b, n) /\ reused' \subseteq Bucket
  BY <1>2, <1>3 DEF Taken, Visited, DInv, TypeOK
<1> HIDE DEF n
<1> QED
  BY <1>1, <1>2, <1>4, ClearedInv

(* Steps that only say what a call came to.                                *)
LEMMA OutcomeInv ==
  ASSUME DInv, UNCHANGED <<nx, pv, addr, modtime, entries, free, clock, seen, reused>>,
         NEW b \in Bucket, NEW o, outcome' = [outcome EXCEPT ![b] = o],
         o \in [a : Addr \cup {NULL}, res : BOOLEAN, end : {"return", "crash", "loop"},
                ports : SUBSET SrcPort, recent : SUBSET SrcPort],
         o.res => Cardinality(o.ports) > ScanNumber
  PROVE  DInv'
<1>1. Closed' /\ Distinct' /\ \A c \in Bucket : Visited(c)' = Visited(c)
  BY SameLinks
<1>2. HistoryOK'
  BY DEF DInv, HistoryOK
<1>3. Counted' /\ Bounded'
  BY <1>1 DEF DInv, Counted, Bounded
<1>4. AlarmSound'
  BY DEF DInv, HistoryOK, AlarmSound
<1>5. TypeOK'
  BY <1>2 DEF DInv, TypeOK, HistoryOK
<1> QED
  BY <1>1, <1>2, <1>3, <1>4, <1>5 DEF DInv

LEMMA DeadInv ==
  ASSUME DInv, NEW b \in Bucket, NEW how \in {"crash", "loop"}, Dead(b, how)
  PROVE  DInv'
<1> DEFINE o == [outcome[b] EXCEPT !.end = how]
<1>1. outcome' = [outcome EXCEPT ![b] = o] /\ outcome[b] \in
        [a : Addr \cup {NULL}, res : BOOLEAN, end : {"return", "crash", "loop"},
         ports : SUBSET SrcPort, recent : SUBSET SrcPort]
  BY DEF Dead, DInv, HistoryOK
<1>2. /\ o \in [a : Addr \cup {NULL}, res : BOOLEAN, end : {"return", "crash", "loop"},
                ports : SUBSET SrcPort, recent : SUBSET SrcPort]
      /\ o.res = outcome[b].res /\ o.ports = outcome[b].ports
  BY <1>1
<1>3. o.res => Cardinality(o.ports) > ScanNumber
  BY <1>2 DEF DInv, AlarmSound
<1> HIDE DEF o
<1> QED
  BY <1>1, <1>2, <1>3, OutcomeInv DEF Dead

LEMMA NextInv == DInv /\ [Next]_vars => DInv'
<1> SUFFICES ASSUME DInv, [Next]_vars PROVE DInv'
  OBVIOUS
<1>1. CASE UNCHANGED vars
  <2>1. Closed' /\ Distinct' /\ \A c \in Bucket : Visited(c)' = Visited(c)
    BY <1>1, SameLinks DEF vars
  <2> QED BY <1>1, <2>1 DEF vars, DInv, TypeOK, HistoryOK, Counted, Bounded, AlarmSound
<1>2. CASE Tick
  <2>1. Closed' /\ Distinct' /\ \A c \in Bucket : Visited(c)' = Visited(c)
    BY <1>2, SameLinks DEF Tick
  <2>2. clock' \in 0..MaxClock
    BY <1>2 DEF Tick, Later
  <2> QED BY <1>2, <2>1, <2>2 DEF Tick, DInv, TypeOK, HistoryOK, Counted, Bounded, AlarmSound
<1>3. ASSUME NEW a \in Addr, NEW p \in SrcPort,
             DetectKnown(a, p) \/ DetectNew(a, p) \/ DetectReuse(a, p)
      PROVE  DInv'
  BY <1>3, KnownInv, NewInv, ReuseInv
<1>4. ASSUME NEW a \in Addr, DetectNoNode(a) PROVE DInv'
  <2> DEFINE o == [None EXCEPT !.a = a]
  <2>1. o \in [a : Addr \cup {NULL}, res : BOOLEAN, end : {"return", "crash", "loop"},
              ports : SUBSET SrcPort, recent : SUBSET SrcPort] /\ ~o.res
    BY DEF None
  <2>2. BucketOf[a] \in Bucket /\ outcome' = [outcome EXCEPT ![BucketOf[a]] = o]
    BY <1>4, DdosAssumption DEF DetectNoNode
  <2>3. UNCHANGED <<nx, pv, addr, modtime, entries, free, clock, seen, reused>>
    BY <1>4 DEF DetectNoNode
  <2> HIDE DEF o
  <2> QED BY <2>1, <2>2, <2>3, OutcomeInv
<1>5. ASSUME NEW a \in Addr, DetectNull(a) \/ DetectForever(a) PROVE DInv'
  <2>1. BucketOf[a] \in Bucket /\ (Dead(BucketOf[a], "crash") \/ Dead(BucketOf[a], "loop"))
    BY <1>5, DdosAssumption DEF DetectNull, DetectForever
  <2> QED BY <2>1, DeadInv
<1> QED
  BY <1>1, <1>2, <1>3, <1>4, <1>5 DEF Next

LEMMA Inductive == Spec => []DInv
BY InitInv, NextInv, PTL DEF Spec

-------------------------------------------------------------------------------
(* The types, whatever the sizes.                                          *)
THEOREM TypeCorrect == Spec => []TypeOK
<1>1. DInv => TypeOK
  BY DEF DInv
<1> QED BY <1>1, Inductive, PTL

(* No walk leaves its bucket, though the reuse of a node breaks its list:  *)
(* links lead only to nodes that serve addresses of the bucket.            *)
THEOREM WalksSafe == Spec => []WalkSafe
<1>1. ASSUME DInv PROVE WalkSafe
  <2> SUFFICES ASSUME NEW b \in Bucket
               PROVE  /\ \A i \in DOMAIN Steps(b) : Steps(b)[i] \in Node \cup {b}
                      /\ Visited(b) \cap free = {}
                      /\ \A c \in Bucket \ {b} : Visited(b) \cap Visited(c) = {}
    BY DEF WalkSafe
  <2>1. \A c \in Bucket : Visited(c) \subseteq Own(c)
    BY <1>1, VisitedOwn DEF DInv
  <2>2. \A i \in DOMAIN Steps(b) : Steps(b)[i] \in Own(b) \cup {b}
    BY <1>1, VisitedOwn, VisitedFacts DEF DInv
  <2>3. Own(b) \subseteq Node /\ Own(b) \cap free = {} /\ \A c \in Bucket \ {b} : Own(b) \cap Own(c) = {}
    BY DEF Own
  <2> QED BY <2>1, <2>2, <2>3
<1> QED BY <1>1, Inductive, PTL

(* An address has at most one node in the walk of its bucket.              *)
THEOREM OneNodeEach == Spec => []OneNode
<1>1. ASSUME DInv PROVE OneNode
  <2>1. \A b \in Bucket : \A n \in Visited(b) : addr[n] \in Addr /\ BucketOf[addr[n]] = b
    BY <1>1, VisitedOwn DEF DInv, Own
  <2> QED BY <1>1, <2>1 DEF DInv, Distinct, OneNode
<1> QED BY <1>1, Inductive, PTL

(* The entry array of a node is not overrun when the configured number is  *)
(* below its size.                                                         *)
THEOREM EntriesBound == Spec => []EntryBound
<1>1. ASSUME DInv PROVE EntryBound
  <2>1. \A n \in Node : Len(entries[n]) \in Nat
    BY <1>1 DEF DInv, TypeOK
  <2> QED BY <1>1, <2>1, DdosAssumption DEF DInv, Bounded, EntryBound
<1> QED BY <1>1, Inductive, PTL

(* Every alarm is for more than the configured number of ports, although   *)
(* nodes are reused and lists break.                                       *)
THEOREM AlarmsSound == Spec => []AlarmSound
<1>1. DInv => AlarmSound
  BY DEF DInv
<1> QED BY <1>1, Inductive, PTL

-------------------------------------------------------------------------------
(* Lists that no node of has been reused.                                  *)

(* The list of b is s, and has every node that serves an address of b.     *)
Chain(b, s) == L!IsList(nx, pv, b, s) /\ {s[i] : i \in 1..Len(s)} = Own(b)

WInv ==
  /\ DInv
  /\ \A n \in Node \ free : addr[n] \in Addr
  /\ \A b \in Bucket \ reused : \E s \in Seq(Node) : Chain(b, s)

(* The walk goes along the list and stays at the head.                     *)
LEMMA ChainWalk ==
  ASSUME NEW b \in Bucket, NEW s \in Seq(Node), Chain(b, s)
  PROVE  Ends(b) /\ Listed(b) = s /\ Visited(b) = Own(b)
<1> DEFINE at == Steps(b)
           G == {i \in 0..Last : at[i] = IF i < Len(s) THEN s[i + 1] ELSE b}
           stop(i) == at[i] \notin Node /\ \A j \in 0..(i - 1) : at[j] \in Node
<1>1. /\ Len(s) \in Nat /\ b \notin Node
      /\ \A i \in 1..Len(s) : s[i] \in Node
  BY DdosAssumption
<1>2. /\ \A i, j \in 1..Len(s) : s[i] = s[j] => i = j
      /\ nx[b] = IF s = << >> THEN b ELSE s[1]
      /\ \A i \in 1..Len(s) : nx[s[i]] = IF i = Len(s) THEN b ELSE s[i + 1]
  BY DEF Chain, L!IsList, L!Walks, L!Back
<1>3. Len(s) < Last
  BY <1>1, <1>2, EntriesCount, DdosAssumption, FS_CardinalityType DEF Last
<1>4. /\ DOMAIN at = 0..Last /\ at[0] = nx[b]
      /\ \A i \in 0..(Last - 1) : at[i + 1] = IF at[i] \in Node THEN nx[at[i]] ELSE at[i]
      /\ Visited(b) = {at[i] : i \in 0..Last} \cap Node
  BY VisitedFacts, WalkFacts DEF On
<1> HIDE DEF at
<1>5. 0 \in G
  BY <1>1, <1>2, <1>4, LastFacts
<1>6. \A i \in 0..(Last - 1) : i \in G => i + 1 \in G
  <2> SUFFICES ASSUME NEW i \in 0..(Last - 1), at[i] = IF i < Len(s) THEN s[i + 1] ELSE b
               PROVE  i + 1 \in 0..Last /\ at[i + 1] = IF i + 1 < Len(s) THEN s[(i + 1) + 1] ELSE b
    OBVIOUS
  <2>1. i \in Nat /\ i + 1 \in 0..Last
    BY LastFacts
  <2>2. CASE i < Len(s)
    <3>1. i + 1 \in 1..Len(s) /\ at[i] = s[i + 1] /\ at[i] \in Node
      BY <1>1, <2>1, <2>2
    <3>2. at[i + 1] = IF i + 1 = Len(s) THEN b ELSE s[(i + 1) + 1]
      BY <1>2, <1>4, <3>1
    <3> QED BY <1>1, <2>1, <2>2, <3>2
  <2>3. CASE ~(i < Len(s))
    BY <1>1, <1>4, <2>1, <2>3
  <2> QED BY <2>1, <2>2, <2>3
<1>7. \A i \in 0..Last : at[i] = IF i < Len(s) THEN s[i + 1] ELSE b
  <2>1. \A i \in 0..Last : i \in G
    <3> HIDE DEF G
    <3> QED BY <1>5, <1>6, Reach, LastFacts
  <2> QED BY <2>1
<1>8. Ends(b)
  BY <1>1, <1>3, <1>7, LastFacts DEF Ends, Last, at
<1>9. Listed(b) = s
  <2>1. Len(s) \in 0..Last /\ stop(Len(s))
    <3>1. \A j \in 0..(Len(s) - 1) : j \in 0..Last /\ j < Len(s) /\ j + 1 \in 1..Len(s)
      BY <1>1, <1>3, LastFacts
    <3>2. Len(s) \in 0..Last
      BY <1>1, <1>3, LastFacts
    <3> QED BY <1>1, <1>7, <3>1, <3>2
  <2>2. \A i \in 0..Last : stop(i) => i = Len(s)
    <3> SUFFICES ASSUME NEW i \in 0..Last, stop(i) PROVE i = Len(s)
      OBVIOUS
    <3>1. ~(i < Len(s))
      BY <1>1, <1>7
    <3>2. ~(Len(s) < i)
      <4>1. Len(s) < i => Len(s) \in 0..(i - 1)
        BY <1>1
      <4>2. at[Len(s)] \notin Node
        BY <2>1
      <4> QED BY <4>1, <4>2
    <3> QED BY <1>1, <3>1, <3>2
  <2> DEFINE len == CHOOSE i \in DOMAIN at : stop(i)
  <2> HIDE DEF stop
  <2>3. len = Len(s)
    BY <1>4, <2>1, <2>2
  <2>4. Listed(b) = [i \in 1..len |-> at[i - 1]]
    BY DEF Listed, at, stop
  <2> HIDE DEF len
  <2>5. \A i \in 1..Len(s) : at[i - 1] = s[i]
    <3> TAKE i \in 1..Len(s)
    <3>1. i - 1 \in 0..Last /\ i - 1 < Len(s) /\ (i - 1) + 1 = i
      BY <1>1, <1>3, LastFacts
    <3> QED BY <1>7, <3>1
  <2>6. s = [i \in 1..Len(s) |-> s[i]]
    OBVIOUS
  <2> QED BY <2>3, <2>4, <2>5, <2>6
<1>10. Visited(b) = Own(b)
  <2>1. ASSUME NEW i \in 1..Len(s) PROVE \E j \in 0..Last : at[j] = s[i]
    <3>1. i - 1 \in 0..Last /\ i - 1 < Len(s) /\ (i - 1) + 1 = i
      BY <1>1, <1>3, LastFacts
    <3> QED BY <1>7, <3>1
  <2>2. ASSUME NEW j \in 0..Last, at[j] \in Node PROVE \E i \in 1..Len(s) : at[j] = s[i]
    <3>1. j < Len(s)
      BY <1>1, <1>7, <2>2
    <3>2. j + 1 \in 1..Len(s) /\ at[j] = s[j + 1]
      BY <1>1, <1>7, <3>1
    <3> QED BY <3>2
  <2> QED BY <1>1, <1>4, <2>1, <2>2 DEF Chain
<1> QED
  BY <1>8, <1>9, <1>10

(* list_add_tail of a node from the pool makes the list longer by it.      *)
LEMMA ChainNew ==
  ASSUME DInv, NEW a \in Addr, NEW n \in free, free' = free \ {n}, Insert(BucketOf[a], a, n),
         NEW s \in Seq(Node), Chain(BucketOf[a], s)
  PROVE  \E t \in Seq(Node) : Chain(BucketOf[a], t)'
<1> DEFINE b == BucketOf[a]
           t == Append(s, n)
<1>1. n \in Node /\ Taken(b, n) /\ b \in Bucket /\ b # n
  BY DdosAssumption DEF DInv, TypeOK, Taken
<1>2. Own(b)' = Own(b) \cup {n} /\ n \notin Own(b)
  BY <1>1, OwnAfter DEF DInv, Own
<1>3. /\ \A e \in Entry : nx'[e] = IF e = pv[b] THEN n ELSE IF e = n THEN b ELSE nx[e]
      /\ \A e \in Entry : pv'[e] = IF e = n THEN pv[b] ELSE IF e = b THEN n ELSE pv[e]
  BY <1>1, Links DEF DInv
<1>4. /\ \A i, j \in 1..Len(s) : s[i] = s[j] => i = j
      /\ nx[b] = IF s = << >> THEN b ELSE s[1]
      /\ \A i \in 1..Len(s) : nx[s[i]] = IF i = Len(s) THEN b ELSE s[i + 1]
      /\ pv[b] = IF s = << >> THEN b ELSE s[Len(s)]
      /\ \A i \in 1..Len(s) : pv[s[i]] = IF i = 1 THEN b ELSE s[i - 1]
      /\ {s[i] : i \in 1..Len(s)} = Own(b)
  BY DEF Chain, L!IsList, L!Walks, L!Back
<1> HIDE DEF b
<1>5. /\ Len(s) \in Nat
      /\ \A i \in 1..Len(s) : s[i] \in Node /\ s[i] \in Own(b) /\ s[i] # n /\ s[i] # b
      /\ s = << >> <=> Len(s) = 0
      /\ b \notin Node
  BY <1>1, <1>2, <1>4, DdosAssumption
<1>6. /\ t \in Seq(Node) /\ t # << >> /\ Len(t) = Len(s) + 1
      /\ \A i \in 1..Len(s) : t[i] = s[i]
      /\ t[Len(s) + 1] = n
  BY <1>1
<1> HIDE DEF t
<1>7. \A i \in 1..Len(t) : (i \in 1..Len(s) /\ t[i] = s[i]) \/ (i = Len(s) + 1 /\ t[i] = n)
  BY <1>5, <1>6
<1>8. \A i, j \in 1..Len(t) : t[i] = t[j] => i = j
  BY <1>4, <1>5, <1>7
<1>9. b \in Entry /\ n \in Entry /\ \A i \in 1..Len(s) : s[i] \in Entry
  BY <1>1, <1>5 DEF Entry
<1>10. nx'[b] = t[1]
  <2>1. CASE s = << >>
    BY <1>3, <1>4, <1>5, <1>6, <1>9, <2>1
  <2>2. CASE s # << >>
    <3>1. Len(s) \in 1..Len(s) /\ 1 \in 1..Len(s)
      BY <1>5, <2>2
    <3>2. b # pv[b] /\ b # n /\ nx[b] = s[1]
      BY <1>1, <1>4, <1>5, <2>2, <3>1
    <3> QED BY <1>3, <1>6, <1>9, <3>1, <3>2
  <2> QED BY <2>1, <2>2
<1>11. ASSUME NEW i \in 1..Len(t) PROVE nx'[t[i]] = IF i = Len(t) THEN b ELSE t[i + 1]
  <2>1. CASE i = Len(s) + 1
    <3>1. t[i] = n /\ i = Len(t)
      BY <1>6, <2>1
    <3>2. n # pv[b]
      <4>1. s # << >> => Len(s) \in 1..Len(s)
        BY <1>5
      <4> QED BY <1>1, <1>4, <1>5, <4>1
    <3> QED BY <1>3, <1>9, <3>1, <3>2
  <2>2. CASE i = Len(s)
    <3>1. i \in 1..Len(s) /\ t[i] = s[i] /\ s # << >> /\ t[i + 1] = n /\ i # Len(t)
      BY <1>5, <1>6, <2>2
    <3>2. s[i] = pv[b]
      BY <1>4, <2>2, <3>1
    <3> QED BY <1>3, <1>9, <3>1, <3>2
  <2>3. CASE i < Len(s)
    <3>1. /\ i \in 1..Len(s) /\ i + 1 \in 1..Len(s) /\ Len(s) \in 1..Len(s) /\ s # << >>
          /\ t[i] = s[i] /\ t[i + 1] = s[i + 1] /\ i # Len(t) /\ i # Len(s)
      BY <1>5, <1>6, <2>3
    <3>2. s[i] # pv[b] /\ s[i] # n /\ nx[s[i]] = s[i + 1]
      BY <1>4, <1>5, <3>1
    <3> QED BY <1>3, <1>9, <3>1, <3>2
  <2> QED BY <1>5, <1>6, <2>1, <2>2, <2>3
<1>12. pv'[b] = t[Len(t)]
  BY <1>1, <1>3, <1>6, <1>9
<1>13. ASSUME NEW i \in 1..Len(t) PROVE pv'[t[i]] = IF i = 1 THEN b ELSE t[i - 1]
  <2>1. CASE i = Len(s) + 1
    <3>1. t[i] = n /\ pv'[n] = pv[b] /\ i - 1 = Len(s)
      BY <1>3, <1>5, <1>6, <1>9, <2>1
    <3>2. CASE s = << >>
      BY <1>4, <1>5, <2>1, <3>1, <3>2
    <3>3. CASE s # << >>
      <4>1. Len(s) \in 1..Len(s) /\ i # 1
        BY <1>5, <2>1, <3>3
      <4> QED BY <1>4, <1>6, <3>1, <3>3, <4>1
    <3> QED BY <3>2, <3>3
  <2>2. CASE i \in 1..Len(s)
    <3>1. t[i] = s[i] /\ pv'[s[i]] = pv[s[i]]
      BY <1>3, <1>5, <1>6, <1>9, <2>2
    <3>2. i # 1 => i - 1 \in 1..Len(s) /\ t[i - 1] = s[i - 1]
      BY <1>5, <1>6, <2>2
    <3> QED BY <1>4, <2>2, <3>1, <3>2
  <2> QED BY <1>7, <2>1, <2>2
<1>14. t \in Seq(Entry \ {b})
  <2>1. Node \subseteq Entry \ {b}
    BY <1>5 DEF Entry
  <2> QED BY <1>6, <2>1
<1>15. {t[i] : i \in 1..Len(t)} = Own(b)'
  <2>1. \A i \in 1..Len(t) : t[i] \in Own(b) \cup {n}
    BY <1>5, <1>7
  <2>2. \A m \in Own(b) : \E i \in 1..Len(t) : t[i] = m
    <3> TAKE m \in Own(b)
    <3>1. PICK i \in 1..Len(s) : s[i] = m
      BY <1>4
    <3>2. i \in 1..Len(t) /\ t[i] = m
      BY <1>5, <1>6, <3>1
    <3> QED BY <3>2
  <2>3. Len(s) + 1 \in 1..Len(t)
    BY <1>5, <1>6
  <2> QED BY <1>2, <1>6, <2>1, <2>2, <2>3
<1>16. Chain(b, t)'
  BY <1>6, <1>8, <1>10, <1>11, <1>12, <1>13, <1>14, <1>15 DEF Chain, L!IsList, L!Walks, L!Back
<1> QED
  BY <1>6, <1>16 DEF b

(* A list whose links and nodes are as they were.                          *)
LEMMA ChainSame ==
  ASSUME NEW b, NEW s \in Seq(Node), Chain(b, s), Own(b)' = Own(b),
         \A e \in Own(b) \cup {b} : nx'[e] = nx[e] /\ pv'[e] = pv[e]
  PROVE  Chain(b, s)'
<1>1. \A i \in 1..Len(s) : s[i] \in Own(b)
  BY DEF Chain
<1> QED
  BY <1>1 DEF Chain, L!IsList, L!Walks, L!Back

LEMMA WholeInit == Init => WInv
<1> SUFFICES ASSUME Init PROVE WInv
  OBVIOUS
<1>1. DInv
  BY InitInv
<1>2. \A n \in Node \ free : addr[n] \in Addr
  BY DEF Init
<1>3. ASSUME NEW b \in Bucket PROVE Chain(b, << >>) /\ << >> \in Seq(Node)
  <2>1. Own(b) = {} /\ nx[b] = b /\ pv[b] = b
    BY DEF Init, Own, Entry
  <2> QED BY <2>1 DEF Chain, L!IsList, L!Walks, L!Back
<1> QED
  BY <1>1, <1>2, <1>3 DEF WInv

(* A node is added to the list of b: the others stay whole, and so does    *)
(* that of b if the node is from the pool.                                 *)
LEMMA WholeInsert ==
  ASSUME WInv, NEW a \in Addr, NEW n \in Node,
         Insert(BucketOf[a], a, n), Taken(BucketOf[a], n),
         \/ n \in free /\ free' = free \ {n} /\ reused' = reused
         \/ free' = free /\ reused' = reused \cup {BucketOf[a]}
  PROVE  /\ \A m \in Node \ free' : addr'[m] \in Addr
         /\ \A c \in Bucket \ reused' : \E s \in Seq(Node) : Chain(c, s)'
<1>1. TypeOK /\ Closed /\ DInv
  BY DEF WInv, DInv
<1>2. ASSUME NEW m \in Node, m \notin free' PROVE addr'[m] \in Addr
  <2>1. m = n \/ m \notin free
    BY <1>2
  <2>2. addr' = [addr EXCEPT ![n] = a] /\ addr \in [Node -> Addr \cup {NULL}]
    BY <1>1 DEF Insert, TypeOK
  <2> QED BY <2>1, <2>2 DEF WInv
<1>3. ASSUME NEW c \in Bucket, c \notin reused' PROVE \E s \in Seq(Node) : Chain(c, s)'
  <2>1. PICK s \in Seq(Node) : Chain(c, s)
    BY <1>3 DEF WInv
  <2>2. CASE c = BucketOf[a]
    <3>1. n \in free /\ free' = free \ {n}
      BY <1>3, <2>2
    <3> QED BY <1>1, <2>1, <2>2, <3>1, ChainNew
  <2>3. CASE c # BucketOf[a]
    <3>1. Own(c)' = Own(c) /\ \A e \in Own(c) \cup {c} : nx'[e] = nx[e] /\ pv'[e] = pv[e]
      BY <1>1, <2>3, OwnAfter
    <3> QED BY <2>1, <3>1, ChainSame
  <2> QED BY <2>2, <2>3
<1> QED
  BY <1>2, <1>3

LEMMA WholeNext == WInv /\ [Next]_vars => WInv'
<1> SUFFICES ASSUME WInv, [Next]_vars PROVE WInv'
  OBVIOUS
<1>1. DInv'
  BY NextInv DEF WInv
<1>2. CASE UNCHANGED <<nx, pv, addr, free, reused>>
  <2>1. \A b \in Bucket : Own(b)' = Own(b)
    BY <1>2 DEF Own
  <2>2. \A b \in Bucket, s \in Seq(Node) : Chain(b, s) => Chain(b, s)'
    BY <1>2, <2>1, ChainSame
  <2> QED BY <1>1, <1>2, <2>2 DEF WInv
<1>3. ASSUME NEW a \in Addr, NEW p \in SrcPort, DetectNew(a, p) PROVE WInv'
  <2>1. PICK n \in free : Insert(BucketOf[a], a, n) /\ free' = free \ {n}
    BY <1>3 DEF DetectNew
  <2>2. n \in Node /\ Taken(BucketOf[a], n) /\ reused' = reused
    BY <1>3, <2>1 DEF DetectNew, Taken, WInv, DInv, TypeOK
  <2> QED BY <1>1, <2>1, <2>2, WholeInsert DEF WInv
<1>4. ASSUME NEW a \in Addr, NEW p \in SrcPort, DetectReuse(a, p) PROVE WInv'
  <2> DEFINE n == Oldest(Listed(BucketOf[a]))
  <2>1. Insert(BucketOf[a], a, n) /\ free' = free /\ reused' = reused \cup {BucketOf[a]}
    BY <1>4 DEF DetectReuse
  <2>2. n \in Visited(BucketOf[a])
    BY <1>4, OldestFacts, DdosAssumption DEF DetectReuse
  <2> HIDE DEF n
  <2>3. n \in Node /\ Taken(BucketOf[a], n)
    BY <2>1, <2>2 DEF Taken, Visited
  <2> QED BY <1>1, <2>1, <2>3, WholeInsert DEF WInv
<1>5. Tick \/ UNCHANGED vars => UNCHANGED <<nx, pv, addr, free, reused>>
  BY DEF Tick, vars
<1>6. \A a \in Addr : DetectNoNode(a) \/ DetectNull(a) \/ DetectForever(a)
        => UNCHANGED <<nx, pv, addr, free, reused>>
  BY DEF DetectNoNode, DetectNull, DetectForever, Dead
<1>7. \A a \in Addr, p \in SrcPort : DetectKnown(a, p) => UNCHANGED <<nx, pv, addr, free, reused>>
  BY DEF DetectKnown
<1> QED
  BY <1>2, <1>3, <1>4, <1>5, <1>6, <1>7 DEF Next

(* Until a node of it is reused every list is a list in both directions,   *)
(* and has every node that serves an address of its bucket.                *)
THEOREM ListsWhole == Spec => []ListWhole
<1>1. Spec => []WInv
  BY WholeInit, WholeNext, PTL DEF Spec
<1>2. ASSUME WInv PROVE ListWhole
  <2>1. ASSUME NEW b \in Bucket \ reused
        PROVE  Ends(b) /\ L!IsList(nx, pv, b, Listed(b)) /\ Visited(b) = Own(b)
    <3>1. PICK s \in Seq(Node) : Chain(b, s)
      BY <1>2 DEF WInv
    <3>2. Ends(b) /\ Listed(b) = s /\ Visited(b) = Own(b)
      BY <3>1, ChainWalk
    <3> QED BY <3>1, <3>2 DEF Chain
  <2>2. ASSUME reused = {} PROVE free = Node \ UNION {Visited(b) : b \in Bucket}
    <3>1. \A n \in Node \ free : addr[n] \in Addr /\ n \in Own(BucketOf[addr[n]])
      BY <1>2 DEF WInv, Own
    <3>2. \A b \in Bucket : Visited(b) = Own(b) /\ Own(b) \subseteq Node \ free
      BY <2>1, <2>2 DEF Own
    <3>3. \A n \in Node \ free : BucketOf[addr[n]] \in Bucket
      BY <3>1, DdosAssumption
    <3>4. free \subseteq Node
      BY <1>2 DEF WInv, DInv, TypeOK
    <3> QED BY <3>1, <3>2, <3>3, <3>4
  <2> QED BY <2>1, <2>2 DEF ListWhole
<1> QED
  BY <1>1, <1>2, PTL
===============================================================================
