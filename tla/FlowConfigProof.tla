---------------------------- MODULE FlowConfigProof ----------------------------
(***************************************************************************)
(* Proofs about FlowConfig, for every file, every number of slots, ports   *)
(* and rules: the index lists are the file's items in its order, and the   *)
(* routing table is the one the file asks for.                             *)
(***************************************************************************)
EXTENDS FlowConfig, FiniteSetTheorems, NaturalsInduction, TLAPS

-------------------------------------------------------------------------------
(* The least of a set, and the number of an element                        *)

LEMMA MinFacts ==
  ASSUME NEW S \in SUBSET Nat, S # {}
  PROVE  Min(S) \in S /\ \A i \in S : Min(S) <= i
<1> DEFINE R == OpToRel(<, Nat)
<1>1. PICK m \in S : \A i \in S : ~(<<i, m>> \in R)
  <2>1. IsWellFoundedOn(R, Nat)
    BY NatLessThanWellFounded
  <2> HIDE DEF R
  <2> QED BY <2>1, WFMin
<1>2. ASSUME NEW i \in S PROVE m <= i
  <2>1. i \in Nat /\ m \in Nat
    OBVIOUS
  <2>2. ~(i < m)
    BY <1>1, <2>1 DEF OpToRel
  <2> QED BY <2>1, <2>2
<1> QED BY <1>2 DEF Min

LEMMA MinIs ==
  ASSUME NEW S \in SUBSET Nat, NEW m \in S, \A i \in S : m <= i
  PROVE  Min(S) = m
<1>1. Min(S) \in S /\ Min(S) <= m
  BY MinFacts
<1>2. Min(S) \in Nat /\ m \in Nat /\ m <= Min(S)
  BY <1>1
<1> QED BY <1>1, <1>2

(* One more element, behind the others.                                    *)
LEMMA MinMore ==
  ASSUME NEW S \in SUBSET Nat, NEW n \in Nat, \A i \in S : i < n
  PROVE  Min(S \cup {n}) = IF S = {} THEN n ELSE Min(S)
<1>1. CASE S = {}
  <2>1. S \cup {n} = {n} /\ {n} \in SUBSET Nat /\ n <= n
    BY <1>1
  <2>2. Min({n}) = n
    BY <2>1, MinIs
  <2> QED BY <1>1, <2>1, <2>2
<1>2. CASE S # {}
  <2>1. Min(S) \in S /\ \A i \in S : Min(S) <= i
    BY <1>2, MinFacts
  <2>2. Min(S) \in Nat /\ Min(S) < n
    BY <2>1
  <2>3. Min(S) <= n
    BY <2>2
  <2>4. \A i \in S \cup {n} : Min(S) <= i
    BY <2>1, <2>3
  <2>5. Min(S \cup {n}) = Min(S)
    BY <2>1, <2>4, MinIs
  <2> QED BY <1>2, <2>5
<1> QED BY <1>1, <1>2

LEMMA RankFacts ==
  ASSUME NEW S \in SUBSET Nat, IsFiniteSet(S), NEW i \in S
  PROVE  /\ Rank(S, i) \in 1..Cardinality(S)
         /\ \A j \in S : i < j => Rank(S, i) < Rank(S, j)
<1> DEFINE upto(j) == {k \in S : k <= j}
<1>1. \A j \in S : upto(j) \in SUBSET S /\ j \in upto(j)
  OBVIOUS
<1> HIDE DEF upto
<1>2. \A j \in S : /\ IsFiniteSet(upto(j)) /\ Cardinality(upto(j)) \in Nat
                   /\ Cardinality(upto(j)) <= Cardinality(S) /\ Cardinality(upto(j)) # 0
  BY <1>1, FS_Subset, FS_CardinalityType, FS_EmptySet
<1>3. Cardinality(S) \in Nat
  BY FS_CardinalityType
<1>4. ASSUME NEW j \in S, i < j
      PROVE  Cardinality(upto(i)) < Cardinality(upto(j))
  <2>0. i \in Nat /\ j \in Nat /\ \A k \in S : k \in Nat
    OBVIOUS
  <2>1. upto(i) \in SUBSET upto(j) /\ j \notin upto(i)
    <3>1. ~(j <= i) /\ \A k \in S : k <= i => k <= j
      BY <1>4, <2>0
    <3> QED BY <3>1 DEF upto
  <2>2. upto(i) # upto(j)
    BY <1>1, <2>1
  <2>3. /\ Cardinality(upto(i)) <= Cardinality(upto(j))
        /\ Cardinality(upto(i)) # Cardinality(upto(j))
    BY <1>2, <2>1, <2>2, FS_Subset
  <2> QED BY <1>2, <2>3
<1>5. \A j \in S : Rank(S, j) = Cardinality(upto(j))
  BY DEF Rank, upto
<1> QED BY <1>2, <1>3, <1>4, <1>5

(* One more element, behind the others.                                    *)
LEMMA RankMore ==
  ASSUME NEW S \in SUBSET Nat, IsFiniteSet(S), NEW n \in Nat, \A i \in S : i < n
  PROVE  /\ IsFiniteSet(S \cup {n}) /\ Cardinality(S \cup {n}) = Cardinality(S) + 1
         /\ Rank(S \cup {n}, n) = Cardinality(S) + 1
         /\ \A i \in S : Rank(S \cup {n}, i) = Rank(S, i)
<1>1. n \notin S
  OBVIOUS
<1>2. IsFiniteSet(S \cup {n}) /\ Cardinality(S \cup {n}) = Cardinality(S) + 1
  BY <1>1, FS_AddElement
<1>0. \A i \in S : i \in Nat /\ i <= n /\ ~(n <= i)
  <2>1. \A i \in S : i \in Nat /\ i < n
    OBVIOUS
  <2> QED BY <2>1
<1>3. {j \in S \cup {n} : j <= n} = S \cup {n}
  <2>1. n <= n
    OBVIOUS
  <2> QED BY <1>0, <2>1
<1>4. \A i \in S : {j \in S \cup {n} : j <= i} = {j \in S : j <= i}
  BY <1>0
<1> QED BY <1>2, <1>3, <1>4 DEF Rank

-------------------------------------------------------------------------------
(* Lists in the file's order                                               *)

(* The list l has the values f gives the places of S, in their order.      *)
Ordered(l, S, f) ==
  /\ l \in Seq({f[i] : i \in S}) /\ Len(l) = Cardinality(S)
  /\ \A i \in S : Rank(S, i) \in 1..Len(l) /\ l[Rank(S, i)] = f[i]
  /\ \A j \in 1..Len(l) : \E i \in S : Rank(S, i) = j

LEMMA OrderedNone ==
  ASSUME NEW f
  PROVE  Ordered(<< >>, {}, f)
<1>1. << >> \in Seq({f[i] : i \in {}}) /\ Len(<< >>) = 0 /\ 1..0 = {}
  OBVIOUS
<1> QED BY <1>1, FS_EmptySet DEF Ordered

LEMMA OrderedEmpty ==
  ASSUME NEW l, NEW f, Ordered(l, {}, f)
  PROVE  l = << >>
<1>1. l \in Seq({f[i] : i \in {}}) /\ Len(l) = 0
  BY FS_EmptySet DEF Ordered
<1> QED BY <1>1

LEMMA OrderedMore ==
  ASSUME NEW S \in SUBSET Nat, IsFiniteSet(S), NEW n \in Nat, \A i \in S : i < n,
         NEW l, NEW f, Ordered(l, S, f)
  PROVE  Ordered(Append(l, f[n]), S \cup {n}, f)
<1> DEFINE T == S \cup {n}
           V == {f[i] : i \in T}
           m == Append(l, f[n])
<1>1. l \in Seq(V) /\ Len(l) = Cardinality(S) /\ Len(l) \in Nat /\ f[n] \in V
  <2>1. l \in Seq({f[i] : i \in S}) /\ {f[i] : i \in S} \subseteq V
    BY DEF Ordered
  <2>2. f[n] \in V
    OBVIOUS
  <2> HIDE DEF V
  <2> QED BY <2>1, <2>2 DEF Ordered
<1>2. /\ Cardinality(T) = Len(l) + 1 /\ Rank(T, n) = Len(l) + 1
      /\ \A i \in S : Rank(T, i) = Rank(S, i)
  BY <1>1, RankMore
<1> HIDE DEF V, T
<1>3. /\ m \in Seq(V) /\ Len(m) = Len(l) + 1 /\ m[Len(l) + 1] = f[n]
      /\ \A j \in 1..Len(l) : m[j] = l[j]
  BY <1>1
<1> HIDE DEF m
<1>4. ASSUME NEW i \in T
      PROVE  Rank(T, i) \in 1..Len(m) /\ m[Rank(T, i)] = f[i]
  <2>0. i \in S \/ i = n
    BY DEF T
  <2>1. CASE i = n
    BY <1>1, <1>2, <1>3, <2>1
  <2>2. CASE i \in S
    <3>1. Rank(S, i) \in 1..Len(l) /\ l[Rank(S, i)] = f[i]
      BY <2>2 DEF Ordered
    <3> QED BY <1>1, <1>2, <1>3, <2>2, <3>1
  <2> QED BY <2>0, <2>1, <2>2
<1>5. ASSUME NEW j \in 1..Len(m)
      PROVE  \E i \in T : Rank(T, i) = j
  <2>1. CASE j = Len(l) + 1
    BY <1>2, <2>1 DEF T
  <2>2. CASE j \in 1..Len(l)
    <3>1. PICK i \in S : Rank(S, i) = j
      BY <2>2 DEF Ordered
    <3> QED BY <1>2, <3>1 DEF T
  <2>3. j = Len(l) + 1 \/ j \in 1..Len(l)
    BY <1>1, <1>3
  <2> QED BY <2>1, <2>2, <2>3
<1>6. Ordered(m, T, f)
  BY <1>2, <1>3, <1>4, <1>5 DEF Ordered, V
<1> QED BY <1>6 DEF m, T

(* What is earlier in the list is earlier in the file.                     *)
LEMMA OrderedBefore ==
  ASSUME NEW S \in SUBSET Nat, IsFiniteSet(S), NEW l, NEW f, Ordered(l, S, f),
         NEW i \in S, NEW j \in 1..Len(l), j < Rank(S, i)
  PROVE  \E k \in S : k < i /\ Rank(S, k) = j /\ l[j] = f[k]
<1>1. PICK k \in S : Rank(S, k) = j
  BY DEF Ordered
<1>2. Rank(S, i) \in Nat /\ Rank(S, k) \in Nat /\ (i < k => Rank(S, i) < Rank(S, k))
  BY RankFacts
<1>3. k < i
  BY <1>1, <1>2
<1> QED BY <1>1, <1>3 DEF Ordered

-------------------------------------------------------------------------------
(* The file and the searches in it                                         *)

LEMMA ContentsFacts ==
  ASSUME file \in Files, NEW name
  PROVE  /\ Contents(name) \in Seq(Range(Contents(name)))
         /\ \A i \in DOMAIN Contents(name) : Complete(Contents(name)[i])
<1> DEFINE cs    == file.root.children
           parts == {i \in DOMAIN cs : cs[i].tag = name}
           c     == Contents(name)
<1>1. /\ cs \in Seq(Range(cs))
      /\ \A t \in Range(cs) : /\ t.children \in Seq(Range(t.children))
                             /\ \A e \in Range(t.children) : Complete(e)
  BY FilesAssumption
<1>2. DOMAIN cs \subseteq Nat
  <2> HIDE DEF cs
  <2> QED BY <1>1
<1>3. CASE ~Readable \/ parts = {}
  <2>1. c = << >>
    BY <1>3 DEF Contents
  <2>2. << >> \in Seq(Range(<< >>)) /\ DOMAIN << >> = {}
    OBVIOUS
  <2> QED BY <2>1, <2>2
<1>4. CASE Readable /\ parts # {}
  <2>1. c = cs[Min(parts)].children
    BY <1>4 DEF Contents
  <2>2. Min(parts) \in parts
    <3>1. parts \in SUBSET Nat
      BY <1>2
    <3> HIDE DEF parts
    <3> QED BY <1>4, <3>1, MinFacts
  <2>3. cs[Min(parts)] \in Range(cs)
    BY <2>2 DEF Range
  <2>4. c \in Seq(Range(c)) /\ \A e \in Range(c) : Complete(e)
    BY <1>1, <2>1, <2>3
  <2> QED BY <2>4 DEF Range
<1> QED BY <1>3, <1>4

LEMMA PlaceFacts ==
  ASSUME file \in Files
  PROVE  /\ ItemPlaces \in SUBSET Nat /\ IsFiniteSet(ItemPlaces) /\ 0 \notin ItemPlaces
         /\ KeyPlaces \in SUBSET Nat /\ IsFiniteSet(KeyPlaces) /\ 0 \notin KeyPlaces
         /\ \A i \in ItemPlaces : /\ Capmode[i] # NULL
                                 /\ Capmode[i].id \in Int /\ Capmode[i].type \in {"rx", "tx"}
                                 /\ Capmode[i].name \in DOMAIN Extends
         /\ \A k \in KeyPlaces : Flow[k].id \in Int
<1>1. ASSUME NEW name
      PROVE  \E n \in Nat : DOMAIN Contents(name) = 1..n
  BY ContentsFacts
<1>2. ASSUME NEW name, NEW S \in SUBSET DOMAIN Contents(name)
      PROVE  S \in SUBSET Nat /\ IsFiniteSet(S) /\ 0 \notin S
  <2>1. PICK n \in Nat : DOMAIN Contents(name) = 1..n
    BY <1>1
  <2>2. IsFiniteSet(1..n)
    BY FS_Interval
  <2> QED BY <2>1, <2>2, FS_Subset
<1>3. ItemPlaces \in SUBSET DOMAIN Contents("Capmode")
  BY DEF ItemPlaces, Capmode
<1>4. KeyPlaces \in SUBSET DOMAIN Contents("Flow")
  BY DEF KeyPlaces, Flow
<1>5. \A i \in ItemPlaces : /\ Capmode[i] # NULL
                           /\ Capmode[i].id \in Int /\ Capmode[i].type \in {"rx", "tx"}
                           /\ Capmode[i].name \in DOMAIN Extends
  BY ContentsFacts DEF ItemPlaces, Capmode, Complete
<1>6. \A k \in KeyPlaces : Flow[k].id \in Int
  BY ContentsFacts DEF KeyPlaces, Flow, Complete
<1> QED BY <1>2, <1>3, <1>4, <1>5, <1>6

(* p is the first place of the name v in l, from i on; 0 if there is none. *)
FirstFrom(l, i, v, p) ==
  \/ p = 0 /\ \A j \in DOMAIN l : j >= i => l[j].tag # v
  \/ /\ p \in DOMAIN l /\ p >= i /\ l[p].tag = v
     /\ \A j \in DOMAIN l : j >= i /\ j < p => l[j].tag # v

(* A search by name finds it.                                              *)
LEMMA SearchFacts ==
  ASSUME NEW l, l \in Seq(Range(l)), NEW i \in Nat \ {0}, NEW v
  PROVE  FirstFrom(l, i, v, SearchList(l, i, v))
<1> DEFINE hits == {j \in i..Len(l) : l[j].tag = v}
<1>1. Len(l) \in Nat /\ DOMAIN l = 1..Len(l)
  OBVIOUS
<1>2. \A j \in DOMAIN l : j >= i => j \in i..Len(l)
  BY <1>1
<1>3. i..Len(l) \subseteq DOMAIN l /\ \A j \in i..Len(l) : j >= i
  BY <1>1
<1>4. CASE hits = {}
  BY <1>2, <1>4 DEF SearchList, FirstFrom
<1>5. CASE hits # {}
  <2>1. hits \in SUBSET Nat
    BY <1>1
  <2> DEFINE p == Min(hits)
  <2>2. p \in hits /\ \A j \in hits : p <= j
    <3> HIDE DEF hits
    <3> QED BY <1>5, <2>1, MinFacts
  <2>3. SearchList(l, i, v) = p
    BY <1>5 DEF SearchList
  <2> HIDE DEF p
  <2>4. p \in DOMAIN l /\ p >= i /\ l[p].tag = v /\ p \in Nat
    BY <1>3, <2>1, <2>2
  <2>5. ASSUME NEW j \in DOMAIN l, j >= i, j < p
        PROVE  l[j].tag # v
    <3>1. j \in Nat /\ ~(p <= j)
      BY <1>1, <2>4, <2>5
    <3> QED BY <1>2, <2>2, <2>5, <3>1
  <2> QED BY <2>3, <2>4, <2>5 DEF FirstFrom
<1> QED BY <1>4, <1>5

(* load searches what the file contains.                                   *)
LEMMA SectionFacts ==
  ASSUME file \in Files, file.exists, file.reads["UTF-8"] = "root", NEW name
  PROVE  Section(file.root, "UAFlow", name) = Contents(name)
<1> DEFINE cs    == file.root.children
           parts == {i \in DOMAIN cs : cs[i].tag = name}
           hits  == {i \in 1..Len(cs) : cs[i].tag = name}
<1>1. cs \in Seq(Range(cs))
  BY FilesAssumption
<1>2. DOMAIN cs = 1..Len(cs) /\ Len(cs) \in Nat
  <2> HIDE DEF cs
  <2> QED BY <1>1
<1>3. parts = hits
  BY <1>2
<1>4. SearchChildren(cs, name) = IF parts = {} THEN 0 ELSE Min(parts)
  BY <1>3 DEF SearchChildren, SearchList
<1>5. parts # {} => Min(parts) # 0
  <2>1. parts \in SUBSET Nat /\ 0 \notin parts
    BY <1>2
  <2> HIDE DEF parts
  <2> QED BY <2>1, MinFacts
<1>6. Section(file.root, "UAFlow", name) =
        IF file.root.tag # "UAFlow" \/ SearchChildren(cs, name) = 0 THEN << >>
        ELSE cs[SearchChildren(cs, name)].children
  BY DEF Section
<1>7. Contents(name) = IF file.root.tag # "UAFlow" \/ parts = {} THEN << >>
                       ELSE cs[Min(parts)].children
  BY DEF Contents, Readable
<1> HIDE DEF cs, parts
<1> QED BY <1>4, <1>5, <1>6, <1>7

(* The port that is attached is one that may stand for the name.           *)
LEMMA AttachFacts ==
  ASSUME NEW name \in DOMAIN Extends
  PROVE  MayStandFor(AttachSelf(name), name)
<1> DEFINE fits == {p \in Port : RuleNames[p] \cap Extends[name] # {}}
<1>1. SUFFICES ASSUME NEW p \in Port, name \in RuleNames[p],
                      \A q \in Port \ {p} : RuleNames[q] \cap Extends[name] = {}
               PROVE  AttachSelf(name) = p
  BY DEF MayStandFor
<1>2. name \in Extends[name]
  BY ConfigAssumption
<1>3. fits = {p}
  BY <1>1, <1>2
<1>4. p \in Nat
  BY ConfigAssumption DEF Port
<1>5. AttachSelf(name) = Min({p})
  BY <1>3 DEF AttachSelf
<1>6. Min({p}) = p
  BY <1>4, MinIs
<1> QED BY <1>5, <1>6

-------------------------------------------------------------------------------
(* The inductive invariant                                                 *)

Entries ==
  [i \in ItemPlaces |->
     [itemid |-> Capmode[i].id, idx |-> AttachSelf(Capmode[i].name), to |-> TRUE]]

(* The places load is through with.                                        *)
ItemsSeen == {i \in ItemPlaces : pc # "load" /\ (pc = "items" /\ pos # 0 => i < pos)}
KeysSeen  == {k \in KeyPlaces : pc \notin {"load", "items"} /\ (pc = "keys" /\ pos # 0 => k < pos)}

(* load is at an element of the section it should be in.                   *)
Walk ==
  /\ file \in Files
  /\ pc \in {"items", "keys"} => tree = file.root /\ file.exists /\ file.reads["UTF-8"] = "root"
  /\ pc = "items" /\ pos # 0 => pos \in DOMAIN Capmode /\ Capmode[pos].tag = "Item"
  /\ pc = "keys" /\ pos # 0 => pos \in DOMAIN Flow /\ Flow[pos].tag = "UAKey"
  /\ pos \in Nat /\ slot \in 0..Slots
  /\ pc = "build" => pos # 0
  /\ pc \in {"load", "items", "keys"} => slot = 0

(* The index lists have the items seen, in order.                          *)
IdxKept ==
  /\ Ordered(rxidx, {i \in ItemsSeen : Capmode[i].type = "rx"}, Entries)
  /\ Ordered(txidx, {i \in ItemsSeen : Capmode[i].type = "tx"}, Entries)

Hits(l, id) == {j \in DOMAIN l : l[j].id = id}
Of(S, id)   == {i \in S : Capmode[i].id = id}

(* In its slot an id is first met where it is first met in the file.       *)
ItemsKept ==
  /\ items \in [0..(Slots - 1) -> Seq(Range(Capmode))]
  /\ \A id \in Int :
       /\ Hits(items[Slot(id)], id) = {} <=> Of(ItemsSeen, id) = {}
       /\ Of(ItemsSeen, id) # {} =>
            items[Slot(id)][Min(Hits(items[Slot(id)], id))] = Capmode[Min(Of(ItemsSeen, id))]

(* The keys seen are all in the slot of the last item.                     *)
KeysKept ==
  /\ keys \in [0..(Slots - 1) -> Seq(Range(Flow))]
  /\ item = NULL <=> ItemsSeen = {}
  /\ item # NULL => item \in Int /\ Ordered(keys[Slot(item)], KeysSeen, Flow)
  /\ item = NULL => KeysSeen = {}
  /\ \A s \in 0..(Slots - 1) : item = NULL \/ s # Slot(item) => keys[s] = << >>

(* The keys build is through with: what they ask for is in the table, and  *)
(* nothing else is.                                                        *)
Done ==
  {k \in KeyPlaces :
     \/ pc \in {"start", "run"}
     \/ pc = "build" /\ Slot(item) < slot
     \/ pc = "build" /\ Slot(item) = slot /\ Rank(KeyPlaces, k) < pos}

TableKept ==
  /\ \A i \in DOMAIN trie : \E k \in WantedKeys \cap Done :
       trie[i].text = Flow[k].text /\ trie[i].idx = AttachSelf(ItemOf(Flow[k].id).name)
  /\ \A k \in Done : Routed(k) => \E i \in DOMAIN trie : trie[i].text = Flow[k].text

Unique ==
  /\ trie \in Seq(Range(trie))
  /\ \A i, j \in DOMAIN trie : trie[i].text = trie[j].text => i = j

Kept == IdxKept /\ ItemsKept /\ KeysKept /\ TableKept

Plain == ~file.tight /\ \A t \in {"rx", "tx"} : Cardinality(OfType(t)) \in 1..IdxSlots

IInv ==
  /\ Walk /\ Unique
  /\ ~file.tight /\ pc \notin {"crash", "undefined"} => Kept
  /\ Plain => pc \notin {"crash", "undefined"}

LEMMA SlotFacts ==
  ASSUME NEW id \in Int
  PROVE  Slot(id) \in 0..(Slots - 1)
<1> QED BY ConfigAssumption DEF Slot

(* No step changes the file, and with it what it asks for.                 *)
LEMMA SameFile ==
  ASSUME file' = file
  PROVE  /\ Capmode' = Capmode /\ Flow' = Flow
         /\ ItemPlaces' = ItemPlaces /\ KeyPlaces' = KeyPlaces
         /\ Entries' = Entries /\ WantedKeys' = WantedKeys /\ Plain' = Plain
         /\ \A t : OfType(t)' = OfType(t)
         /\ \A id : PlacesOf(id)' = PlacesOf(id) /\ ItemOf(id)' = ItemOf(id)
         /\ \A k : Routed(k)' = Routed(k)
<1>1. Capmode' = Capmode /\ Flow' = Flow
  BY DEF Capmode, Flow, Contents, Readable
<1>2. ItemPlaces' = ItemPlaces /\ KeyPlaces' = KeyPlaces
  BY <1>1 DEF ItemPlaces, KeyPlaces
<1>3. /\ \A t : OfType(t)' = OfType(t)
      /\ \A id : PlacesOf(id)' = PlacesOf(id)
  BY <1>1, <1>2 DEF OfType, PlacesOf
<1>4. \A id : ItemOf(id)' = ItemOf(id)
  BY <1>1, <1>3 DEF ItemOf
<1>5. \A k : Routed(k)' = Routed(k)
  BY <1>1, <1>3, <1>4 DEF Routed
<1>6. WantedKeys' = WantedKeys
  BY <1>1, <1>2, <1>5 DEF WantedKeys
<1>7. Entries' = Entries
  BY <1>1, <1>2 DEF Entries
<1>8. Plain' = Plain
  BY <1>3 DEF Plain
<1> QED BY <1>1, <1>2, <1>3, <1>4, <1>5, <1>6, <1>7, <1>8

(* The steps that fill no list.                                            *)
LEMMA SameKept ==
  ASSUME Kept, file' = file, UNCHANGED <<item, lists, trie>>,
         ItemsSeen' = ItemsSeen, KeysSeen' = KeysSeen, Done' = Done
  PROVE  Kept'
<1>1. /\ item' = item /\ items' = items /\ rxidx' = rxidx /\ txidx' = txidx
      /\ keys' = keys /\ trie' = trie
  BY DEF lists
<1>2. /\ Capmode' = Capmode /\ Flow' = Flow /\ Entries' = Entries /\ WantedKeys' = WantedKeys
      /\ \A id : ItemOf(id)' = ItemOf(id) /\ \A k : Routed(k)' = Routed(k)
  BY SameFile
<1>3. IdxKept'
  BY <1>1, <1>2 DEF Kept, IdxKept
<1>4. ItemsKept'
  BY <1>1, <1>2 DEF Kept, ItemsKept, Of
<1>5. KeysKept'
  BY <1>1, <1>2 DEF Kept, KeysKept
<1>6. TableKept'
  BY <1>1, <1>2 DEF Kept, TableKept
<1> QED BY <1>3, <1>4, <1>5, <1>6 DEF Kept

LEMMA InitInv == Init => IInv
<1> SUFFICES ASSUME Init PROVE IInv
  OBVIOUS
<1>1. /\ file \in Files /\ pc = "load" /\ pos = 0 /\ slot = 0 /\ item = NULL
      /\ rxidx = << >> /\ txidx = << >> /\ trie = << >>
      /\ items = [n \in 0..(Slots - 1) |-> << >>] /\ keys = items
  BY DEF Init
<1>2. Walk
  <2>1. Slots \in Nat
    BY ConfigAssumption
  <2> QED BY <1>1, <2>1 DEF Walk
<1>3. ItemsSeen = {} /\ KeysSeen = {} /\ Done = {}
  BY <1>1 DEF ItemsSeen, KeysSeen, Done
<1>4. << >> \in Seq(Range(<< >>)) /\ DOMAIN << >> = {}
  OBVIOUS
<1>5. Unique
  BY <1>1, <1>4 DEF Unique
<1>6. IdxKept
  <2>1. {i \in ItemsSeen : Capmode[i].type = "rx"} = {}
    BY <1>3
  <2>2. {i \in ItemsSeen : Capmode[i].type = "tx"} = {}
    BY <1>3
  <2> QED BY <1>1, <2>1, <2>2, OrderedNone DEF IdxKept
<1>7. ItemsKept
  <2>1. ASSUME NEW n \in 0..(Slots - 1)
        PROVE  items[n] = << >> /\ items[n] \in Seq(Range(Capmode)) /\ DOMAIN items[n] = {}
    BY <1>1
  <2>2. items \in [0..(Slots - 1) -> Seq(Range(Capmode))]
    BY <1>1, <2>1
  <2> QED BY <1>3, <2>1, <2>2, SlotFacts DEF ItemsKept, Hits, Of
<1>8. KeysKept
  <2>1. ASSUME NEW n \in 0..(Slots - 1)
        PROVE  keys[n] = << >> /\ keys[n] \in Seq(Range(Flow))
    BY <1>1
  <2>2. keys \in [0..(Slots - 1) -> Seq(Range(Flow))]
    BY <1>1, <2>1
  <2> QED BY <1>1, <1>3, <2>2 DEF KeysKept
<1>9. TableKept
  BY <1>1, <1>3, <1>4 DEF TableKept
<1> QED BY <1>1, <1>2, <1>5, <1>6, <1>7, <1>8, <1>9 DEF IInv, Kept

-------------------------------------------------------------------------------
(* load                                                                    *)

LEMMA LoadInv ==
  ASSUME IInv, Load
  PROVE  IInv'
<1>1. /\ pc = "load" /\ tree' = ConfigLoad(file) /\ file' = file
      /\ UNCHANGED <<slot, item, lists, trie>>
  BY DEF Load
<1>2. Walk /\ Unique /\ file \in Files /\ slot = 0 /\ (~file.tight => Kept)
  BY <1>1 DEF IInv, Walk
<1>3. ItemsSeen = {} /\ KeysSeen = {} /\ Done = {}
  BY <1>1 DEF ItemsSeen, KeysSeen, Done
<1>4. Unique'
  BY <1>1, <1>2 DEF Unique
<1>5. /\ Capmode' = Capmode /\ ItemPlaces' = ItemPlaces /\ KeyPlaces' = KeyPlaces
  BY <1>1, SameFile
<1>6. CASE tree' = NULL
  <2>1. pc' = "build" /\ pos' = 1
    BY <1>6 DEF Load
  <2>2. ~Readable
    <3>1. file.root # NULL
      BY <1>2, FilesAssumption
    <3>2. "root" # "none" /\ "UTF-8" \in Encodings
      BY DEF Encodings
    <3> QED BY <1>1, <1>6, <3>1, <3>2 DEF ConfigLoad, Readable
  <2>3. ItemPlaces = {} /\ KeyPlaces = {}
    <3>1. Capmode = << >> /\ Flow = << >>
      BY <2>2 DEF Capmode, Flow, Contents
    <3> QED BY <3>1 DEF ItemPlaces, KeyPlaces
  <2>4. ItemsSeen' = {} /\ KeysSeen' = {} /\ Done' = {}
    BY <1>5, <2>3 DEF ItemsSeen, KeysSeen, Done
  <2>5. Walk'
    BY <1>1, <1>2, <2>1 DEF Walk
  <2>6. ~file'.tight => Kept'
    BY <1>1, <1>2, <1>3, <2>4, SameKept
  <2> QED BY <1>4, <2>1, <2>5, <2>6 DEF IInv
<1>7. CASE tree' # NULL
  <2>1. /\ pc' = "items" /\ pos' = Search3(tree', "UAFlow", "Capmode", "Item")
    BY <1>7 DEF Load, First, Loop
  <2>2. tree' = file.root /\ file.exists /\ file.reads["UTF-8"] = "root"
    BY <1>1, <1>7 DEF ConfigLoad
  <2>3. pos' = SearchList(Capmode, 1, "Item")
    BY <1>2, <2>1, <2>2, SectionFacts DEF Search3, SearchChildren, Capmode
  <2>4. Capmode \in Seq(Range(Capmode))
    BY <1>2, ContentsFacts DEF Capmode
  <2>5. \A j \in DOMAIN Capmode : j \in Nat /\ j >= 1
    BY <2>4
  <2>6. \/ pos' = 0 /\ \A j \in DOMAIN Capmode : Capmode[j].tag # "Item"
        \/ /\ pos' \in DOMAIN Capmode /\ Capmode[pos'].tag = "Item"
           /\ \A j \in DOMAIN Capmode : j < pos' => Capmode[j].tag # "Item"
    <3>1. FirstFrom(Capmode, 1, "Item", pos')
      BY <2>3, <2>4, SearchFacts
    <3> QED BY <2>5, <3>1 DEF FirstFrom
  <2>7. ItemsSeen' = {}
    <3>1. \A i \in ItemPlaces : pos' # 0 /\ ~(i < pos')
      BY <2>5, <2>6 DEF ItemPlaces
    <3> QED BY <1>5, <2>1, <3>1 DEF ItemsSeen
  <2>8. KeysSeen' = {} /\ Done' = {}
    BY <2>1 DEF KeysSeen, Done
  <2>9. Walk'
    BY <1>1, <1>2, <1>5, <2>1, <2>2, <2>5, <2>6 DEF Walk
  <2>10. ~file'.tight => Kept'
    BY <1>1, <1>2, <1>3, <2>7, <2>8, SameKept
  <2> QED BY <1>4, <2>1, <2>9, <2>10 DEF IInv
<1> QED BY <1>6, <1>7

(* The items loop is at an element, and goes on to the next.               *)
LEMMA ItemsStep ==
  ASSUME IInv, At("items")
  PROVE  /\ pc = "items" /\ file \in Files /\ Walk /\ Unique /\ (~file.tight => Kept)
         /\ Here = Capmode[pos] /\ (Here.ok <=> pos \in ItemPlaces)
         /\ pos \in Nat /\ pos \notin ItemsSeen
         /\ ItemsSeen = {i \in ItemPlaces : i < pos}
         /\ NextNode =>
              /\ Walk' /\ pc' = "items" /\ file' = file
              /\ ItemsSeen' = ItemsSeen \cup ({pos} \cap ItemPlaces)
              /\ KeysSeen = {} /\ KeysSeen' = {} /\ Done = {} /\ Done' = {}
<1>1. /\ pc = "items" /\ pos # 0 /\ Walk /\ Unique /\ (~file.tight => Kept)
  BY DEF At, IInv
<1>2. /\ file \in Files /\ tree = file.root /\ file.exists /\ file.reads["UTF-8"] = "root"
      /\ pos \in DOMAIN Capmode /\ Capmode[pos].tag = "Item" /\ pos \in Nat
  BY <1>1 DEF Walk
<1>3. Elements("items") = Capmode
  BY <1>2, SectionFacts DEF Elements, Loop, Capmode
<1>4. Here = Capmode[pos] /\ (Here.ok <=> pos \in ItemPlaces)
  BY <1>1, <1>2, <1>3 DEF Here, ItemPlaces
<1>5. ItemsSeen = {i \in ItemPlaces : i < pos}
  BY <1>1 DEF ItemsSeen
<1>6. pos \notin ItemsSeen
  BY <1>2, <1>5
<1>7. ASSUME NextNode
      PROVE  /\ Walk' /\ pc' = "items" /\ file' = file
             /\ ItemsSeen' = ItemsSeen \cup ({pos} \cap ItemPlaces)
             /\ KeysSeen = {} /\ KeysSeen' = {} /\ Done = {} /\ Done' = {}
  <2>1. /\ pos' = SearchList(Capmode, pos + 1, "Item")
        /\ pc' = "items" /\ file' = file /\ tree' = tree /\ slot' = slot
    BY <1>1, <1>3, <1>7 DEF NextNode, Loop, SearchNext
  <2>2. Capmode' = Capmode /\ ItemPlaces' = ItemPlaces
    BY <2>1, SameFile
  <2>3. Capmode \in Seq(Range(Capmode))
    BY <1>2, ContentsFacts DEF Capmode
  <2>4. \A j \in DOMAIN Capmode : j \in Nat /\ j >= 1
    BY <2>3
  <2>5. \/ pos' = 0 /\ \A j \in DOMAIN Capmode : j >= pos + 1 => Capmode[j].tag # "Item"
        \/ /\ pos' \in DOMAIN Capmode /\ pos' >= pos + 1 /\ Capmode[pos'].tag = "Item"
           /\ \A j \in DOMAIN Capmode : j >= pos + 1 /\ j < pos' => Capmode[j].tag # "Item"
    <3>1. FirstFrom(Capmode, pos + 1, "Item", pos')
      BY <1>2, <2>1, <2>3, SearchFacts
    <3> QED BY <3>1 DEF FirstFrom
  <2>6. Walk'
    BY <1>1, <1>2, <2>1, <2>2, <2>4, <2>5 DEF Walk
  <2>7. ASSUME NEW i \in ItemPlaces
        PROVE  (pos' # 0 => i < pos') <=> (i < pos \/ i = pos)
    <3>1. i \in DOMAIN Capmode /\ Capmode[i].tag = "Item" /\ i \in Nat
      BY <2>4 DEF ItemPlaces
    <3>2. CASE pos' = 0
      BY <1>2, <2>5, <3>1, <3>2
    <3>3. CASE pos' # 0
      <4>1. pos' \in Nat
        BY <2>4, <2>5, <3>3
      <4> QED BY <1>2, <2>5, <3>1, <3>3, <4>1
    <3> QED BY <3>2, <3>3
  <2>8. ItemsSeen' = {i \in ItemPlaces : pos' # 0 => i < pos'}
    BY <2>1, <2>2 DEF ItemsSeen
  <2>9. ItemsSeen' = ItemsSeen \cup ({pos} \cap ItemPlaces)
    BY <1>5, <2>7, <2>8
  <2>10. KeysSeen = {} /\ KeysSeen' = {} /\ Done = {} /\ Done' = {}
    BY <1>1, <2>1 DEF KeysSeen, Done
  <2> QED BY <2>1, <2>6, <2>9, <2>10
<1> QED BY <1>1, <1>2, <1>4, <1>5, <1>6, <1>7

LEMMA SkipItemInv ==
  ASSUME IInv, SkipItem \/ ItemNoMemory \/ IdxNoMemory
  PROVE  IInv'
<1>1. At("items") /\ file' = file /\ trie' = trie
  BY DEF SkipItem, ItemNoMemory, IdxNoMemory, NextNode
<1>2. Unique' /\ Plain' = Plain
  BY <1>1, ItemsStep, SameFile DEF Unique
<1>3. CASE SkipItem
  <2>1. NextNode /\ ~Here.ok /\ UNCHANGED <<item, lists, trie>>
    BY <1>3 DEF SkipItem
  <2>2. /\ Walk' /\ pc' = "items" /\ ItemsSeen' = ItemsSeen /\ KeysSeen' = KeysSeen
        /\ Done' = Done /\ (~file.tight => Kept)
    BY <1>1, <2>1, ItemsStep
  <2>3. ~file'.tight => Kept'
    BY <1>1, <2>1, <2>2, SameKept
  <2> QED BY <1>2, <2>2, <2>3 DEF IInv
<1>4. CASE ItemNoMemory
  <2>1. NextNode /\ file.tight
    BY <1>4 DEF ItemNoMemory
  <2>2. Walk' /\ pc' = "items"
    BY <1>1, <2>1, ItemsStep
  <2> QED BY <1>1, <1>2, <2>1, <2>2 DEF IInv
<1>5. CASE IdxNoMemory
  <2>1. /\ file.tight /\ pc' = "crash" /\ pos' = pos /\ slot' = slot
    BY <1>5 DEF IdxNoMemory
  <2>2. Walk'
    BY <1>1, <2>1 DEF IInv, Walk
  <2> QED BY <1>1, <1>2, <2>1, <2>2 DEF IInv, Plain
<1> QED BY <1>3, <1>4, <1>5

(* An index list has no more entries than the file has items of its type,  *)
(* and fewer while there is one to come.                                   *)
LEMMA RoomFacts ==
  ASSUME IInv, At("items"), Here.ok, ~file.tight
  PROVE  /\ Here.type = "rx" => Len(rxidx) < Cardinality(OfType("rx"))
         /\ Here.type # "rx" => Len(txidx) < Cardinality(OfType("tx"))
<1>1. /\ file \in Files /\ Kept /\ Here = Capmode[pos] /\ pos \in ItemPlaces
      /\ pos \notin ItemsSeen /\ ItemsSeen \subseteq ItemPlaces
  BY ItemsStep
<1>2. ASSUME NEW t, Capmode[pos].type = t
      PROVE  Cardinality({i \in ItemsSeen : Capmode[i].type = t}) < Cardinality(OfType(t))
  <2> DEFINE S == {i \in ItemsSeen : Capmode[i].type = t}
  <2>1. S \in SUBSET OfType(t) /\ pos \in OfType(t) /\ pos \notin S
    BY <1>1, <1>2 DEF OfType
  <2>2. IsFiniteSet(OfType(t))
    <3>1. OfType(t) \in SUBSET ItemPlaces
      BY DEF OfType
    <3> QED BY <1>1, <3>1, PlaceFacts, FS_Subset
  <2> HIDE DEF S
  <2>3. /\ Cardinality(S) <= Cardinality(OfType(t)) /\ Cardinality(S) # Cardinality(OfType(t))
        /\ IsFiniteSet(S)
    BY <2>1, <2>2, FS_Subset
  <2>4. Cardinality(S) \in Nat /\ Cardinality(OfType(t)) \in Nat
    BY <2>2, <2>3, FS_CardinalityType
  <2>5. Cardinality(S) < Cardinality(OfType(t))
    BY <2>3, <2>4
  <2> QED BY <2>5 DEF S
<1>3. Capmode[pos].type \in {"rx", "tx"}
  BY <1>1, PlaceFacts
<1>4. /\ Len(rxidx) = Cardinality({i \in ItemsSeen : Capmode[i].type = "rx"})
      /\ Len(txidx) = Cardinality({i \in ItemsSeen : Capmode[i].type = "tx"})
  BY <1>1 DEF Kept, IdxKept, Ordered
<1> QED BY <1>1, <1>2, <1>3, <1>4

LEMMA OverrunInv ==
  ASSUME IInv, IdxOverrun
  PROVE  IInv'
<1>1. /\ At("items") /\ Here.ok /\ file' = file /\ trie' = trie
      /\ pc' = "undefined" /\ pos' = pos /\ slot' = slot
      /\ Len(IF Here.type = "rx" THEN rxidx ELSE txidx) >= IdxSlots
  BY DEF IdxOverrun
<1>2. Unique' /\ Plain' = Plain
  BY <1>1, ItemsStep, SameFile DEF Unique
<1>3. Walk'
  BY <1>1 DEF IInv, Walk
<1>4. ~Plain
  <2>1. SUFFICES ASSUME Plain PROVE FALSE
    OBVIOUS
  <2>2. ~file.tight /\ Kept
    BY <1>1, <2>1, ItemsStep DEF Plain
  <2>3. /\ Cardinality(OfType("rx")) \in 1..IdxSlots /\ Cardinality(OfType("tx")) \in 1..IdxSlots
        /\ IdxSlots \in Nat
    BY <2>1, ConfigAssumption DEF Plain
  <2>4. Len(rxidx) \in Nat /\ Len(txidx) \in Nat
    BY <2>2 DEF Kept, IdxKept, Ordered
  <2>5. CASE Here.type = "rx"
    <3>1. Len(rxidx) >= IdxSlots /\ Len(rxidx) < Cardinality(OfType("rx"))
      BY <1>1, <2>2, <2>5, RoomFacts
    <3> QED BY <2>3, <2>4, <3>1
  <2>6. CASE Here.type # "rx"
    <3>1. Len(txidx) >= IdxSlots /\ Len(txidx) < Cardinality(OfType("tx"))
      BY <1>1, <2>2, <2>6, RoomFacts
    <3> QED BY <2>3, <2>4, <3>1
  <2> QED BY <2>5, <2>6
<1> QED BY <1>1, <1>2, <1>3, <1>4 DEF IInv

(* Where an id is first met in a list that grows at its end.               *)
HitsGrow(l, e, id) ==
  LET m == Append(l, e) IN
  /\ Hits(m, id) = {} <=> Hits(l, id) = {} /\ e.id # id
  /\ Hits(l, id) # {} => m[Min(Hits(m, id))] = l[Min(Hits(l, id))]
  /\ Hits(l, id) = {} /\ e.id = id => m[Min(Hits(m, id))] = e

LEMMA HitsMore ==
  ASSUME NEW V, NEW l \in Seq(V), NEW e \in V, NEW id
  PROVE  HitsGrow(l, e, id)
<1> DEFINE m == Append(l, e)
           old == {j \in DOMAIN l : l[j].id = id}
           new == {j \in DOMAIN m : m[j].id = id}
<1>1. /\ Len(l) \in Nat /\ DOMAIN l = 1..Len(l) /\ DOMAIN m = 1..(Len(l) + 1)
      /\ m[Len(l) + 1] = e /\ \A j \in 1..Len(l) : m[j] = l[j]
  OBVIOUS
<1>2. 1..(Len(l) + 1) = 1..Len(l) \cup {Len(l) + 1} /\ Len(l) + 1 \notin 1..Len(l)
  BY <1>1
<1>3. /\ old \in SUBSET Nat /\ old \subseteq 1..Len(l) /\ Len(l) + 1 \in Nat
      /\ \A j \in old : j < Len(l) + 1
  BY <1>1
<1>4. Hits(l, id) = old /\ Hits(m, id) = new
  BY DEF Hits
<1> HIDE DEF m
<1>5. old # {} => Min(old) \in old
  <2> HIDE DEF old
  <2> QED BY <1>3, MinFacts
<1>6. CASE e.id # id
  <2>1. new = old
    BY <1>1, <1>2, <1>6
  <2> QED BY <1>1, <1>3, <1>4, <1>5, <1>6, <2>1 DEF HitsGrow, m
<1>7. CASE e.id = id
  <2>1. new = old \cup {Len(l) + 1}
    BY <1>1, <1>2, <1>7
  <2>2. Min(new) = IF old = {} THEN Len(l) + 1 ELSE Min(old)
    <3> HIDE DEF old, new
    <3> QED BY <1>3, <2>1, MinMore
  <2> HIDE DEF old, new
  <2>3. old # {} => m[Min(new)] = l[Min(old)]
    BY <1>1, <1>3, <1>5, <2>2
  <2>4. old = {} => m[Min(new)] = e
    BY <1>1, <2>2
  <2> QED BY <1>4, <1>7, <2>1, <2>3, <2>4 DEF HitsGrow, m
<1> QED BY <1>6, <1>7

(* The item is put where its id is first met after all with its id.        *)
LEMMA AddItemKept ==
  ASSUME ItemsKept, file' = file, NEW n \in ItemPlaces, ItemPlaces \in SUBSET Nat,
         Capmode[n].id \in Int, \A i \in ItemsSeen : i < n, ItemsSeen \subseteq ItemPlaces,
         ItemsSeen' = ItemsSeen \cup {n},
         items' = [items EXCEPT ![Slot(Capmode[n].id)] = Append(@, Capmode[n])]
  PROVE  ItemsKept'
<1> DEFINE e == Capmode[n]
<1>1. /\ Capmode' = Capmode /\ e \in Range(Capmode) /\ n \in Nat
      /\ items \in [0..(Slots - 1) -> Seq(Range(Capmode))]
  BY SameFile DEF ItemPlaces, Range, ItemsKept
<1>2. Slot(e.id) \in 0..(Slots - 1) /\ Append(items[Slot(e.id)], e) \in Seq(Range(Capmode))
  <2>1. Slot(e.id) \in 0..(Slots - 1)
    BY SlotFacts
  <2>2. items[Slot(e.id)] \in Seq(Range(Capmode))
    BY <1>1, <2>1
  <2> HIDE DEF e
  <2> QED BY <1>1, <2>1, <2>2
<1>3. items' \in [0..(Slots - 1) -> Seq(Range(Capmode))]
  BY <1>1, <1>2
<1>4. ASSUME NEW id \in Int
      PROVE  /\ Of(ItemsSeen', id) = {} <=> Of(ItemsSeen, id) = {} /\ e.id # id
             /\ Of(ItemsSeen, id) # {} => Min(Of(ItemsSeen', id)) = Min(Of(ItemsSeen, id))
             /\ Of(ItemsSeen, id) = {} /\ e.id = id => Min(Of(ItemsSeen', id)) = n
  <2> DEFINE old == Of(ItemsSeen, id)
             new == Of(ItemsSeen', id)
  <2>1. old \in SUBSET Nat /\ \A i \in old : i < n
    BY DEF Of
  <2>2. CASE e.id # id
    <3>1. new = old
      BY <2>2 DEF Of
    <3> QED BY <2>2, <3>1
  <2>3. CASE e.id = id
    <3>1. new = old \cup {n}
      BY <2>3 DEF Of
    <3>2. Min(new) = IF old = {} THEN n ELSE Min(old)
      <4> HIDE DEF old, new
      <4> QED BY <1>1, <2>1, <3>1, MinMore
    <3> QED BY <2>3, <3>1, <3>2
  <2> QED BY <2>2, <2>3
<1>5. ASSUME NEW id \in Int
      PROVE  /\ Hits(items'[Slot(id)], id) = {} <=> Of(ItemsSeen', id) = {}
             /\ Of(ItemsSeen', id) # {} =>
                  items'[Slot(id)][Min(Hits(items'[Slot(id)], id))]
                    = Capmode[Min(Of(ItemsSeen', id))]
  <2> DEFINE l == items[Slot(id)]
             m == items'[Slot(id)]
  <2>1. Slot(id) \in 0..(Slots - 1) /\ l \in Seq(Range(Capmode))
    BY <1>1, SlotFacts
  <2>2. /\ Hits(l, id) = {} <=> Of(ItemsSeen, id) = {}
        /\ Of(ItemsSeen, id) # {} => l[Min(Hits(l, id))] = Capmode[Min(Of(ItemsSeen, id))]
    BY DEF ItemsKept
  <2>3. CASE Slot(id) = Slot(e.id)
    <3>1. m = Append(l, e)
      BY <1>1, <1>2, <2>3
    <3> HIDE DEF l, m
    <3>2. /\ Hits(m, id) = {} <=> Hits(l, id) = {} /\ e.id # id
          /\ Hits(l, id) # {} => m[Min(Hits(m, id))] = l[Min(Hits(l, id))]
          /\ Hits(l, id) = {} /\ e.id = id => m[Min(Hits(m, id))] = e
      <4> HIDE DEF e
      <4>1. e \in Range(Capmode) /\ l \in Seq(Range(Capmode))
        BY <1>1, <2>1
      <4>2. \A ll \in Seq(Range(Capmode)) : \A ee \in Range(Capmode) : HitsGrow(ll, ee, id)
        BY HitsMore
      <4> QED BY <3>1, <4>1, <4>2 DEF HitsGrow
    <3>3. /\ Hits(m, id) = {} <=> Of(ItemsSeen', id) = {}
          /\ Of(ItemsSeen', id) # {} => m[Min(Hits(m, id))] = Capmode[Min(Of(ItemsSeen', id))]
      BY <1>4, <2>2, <3>2
    <3> QED BY <3>3 DEF m
  <2>4. CASE Slot(id) # Slot(e.id)
    <3>1. m = l /\ e.id # id
      BY <1>1, <2>1, <2>4
    <3> HIDE DEF l, m
    <3>2. /\ Hits(m, id) = {} <=> Of(ItemsSeen', id) = {}
          /\ Of(ItemsSeen', id) # {} => m[Min(Hits(m, id))] = Capmode[Min(Of(ItemsSeen', id))]
      BY <1>4, <2>2, <3>1
    <3> QED BY <3>2 DEF m
  <2> QED BY <2>3, <2>4
<1>6. \A id : Of(ItemsSeen, id)' = Of(ItemsSeen', id)
  BY <1>1 DEF Of
<1> QED BY <1>1, <1>3, <1>5, <1>6 DEF ItemsKept

LEMMA AddItemInv ==
  ASSUME IInv, AddItem
  PROVE  IInv'
<1> DEFINE e   == Capmode[pos]
           idx == [itemid |-> e.id, idx |-> AttachSelf(e.name), to |-> TRUE]
<1>1. At("items") /\ NextNode /\ Here.ok
  BY DEF AddItem
<1>2. /\ pc = "items" /\ file \in Files /\ Walk /\ Unique /\ (~file.tight => Kept)
      /\ Here = e /\ pos \in ItemPlaces /\ pos \in Nat /\ pos \notin ItemsSeen
      /\ ItemsSeen = {i \in ItemPlaces : i < pos}
      /\ Walk' /\ pc' = "items" /\ file' = file /\ ItemsSeen' = ItemsSeen \cup {pos}
      /\ KeysSeen = {} /\ KeysSeen' = {} /\ Done = {} /\ Done' = {}
  <2>1. ItemsSeen' = ItemsSeen \cup ({pos} \cap ItemPlaces) /\ pos \in ItemPlaces
    BY <1>1, ItemsStep
  <2>2. ItemsSeen' = ItemsSeen \cup {pos}
    BY <2>1
  <2> QED BY <1>1, <2>1, <2>2, ItemsStep
<1>3. /\ item' = e.id /\ items' = [items EXCEPT ![Slot(e.id)] = Append(@, e)]
      /\ IF e.type = "rx" THEN rxidx' = Append(rxidx, idx) /\ txidx' = txidx
         ELSE txidx' = Append(txidx, idx) /\ rxidx' = rxidx
      /\ keys' = keys /\ trie' = trie
  BY <1>2 DEF AddItem
<1>4. /\ e.id \in Int /\ e.type \in {"rx", "tx"} /\ ItemPlaces \in SUBSET Nat
      /\ IsFiniteSet(ItemPlaces) /\ e.id # NULL
  BY <1>2, PlaceFacts, FilesAssumption
<1>5. /\ Capmode' = Capmode /\ Flow' = Flow /\ Entries' = Entries /\ WantedKeys' = WantedKeys
      /\ \A id : ItemOf(id)' = ItemOf(id) /\ \A k : Routed(k)' = Routed(k)
  BY <1>2, SameFile
<1>6. Unique'
  BY <1>2, <1>3 DEF Unique
<1>7. SUFFICES ASSUME ~file.tight, Kept PROVE Kept'
  BY <1>2, <1>6 DEF IInv
<1>8. IdxKept'
  <2> DEFINE S(t) == {i \in ItemsSeen : Capmode[i].type = t}
  <2>1. Entries[pos] = idx
    BY <1>2 DEF Entries
  <2>2. \A t : /\ S(t) \in SUBSET Nat /\ IsFiniteSet(S(t)) /\ \A i \in S(t) : i < pos
    <3>1. \A t : S(t) \in SUBSET ItemPlaces /\ \A i \in S(t) : i < pos
      BY <1>2
    <3> QED BY <1>4, <3>1, FS_Subset
  <2>3. ASSUME NEW t
        PROVE  {i \in ItemsSeen' : Capmode'[i].type = t}
                 = IF e.type = t THEN S(t) \cup {pos} ELSE S(t)
    BY <1>2, <1>5
  <2>4. Ordered(rxidx, S("rx"), Entries) /\ Ordered(txidx, S("tx"), Entries)
    BY <1>7 DEF Kept, IdxKept
  <2> HIDE DEF S, e, idx
  <2>5. Ordered(rxidx', IF e.type = "rx" THEN S("rx") \cup {pos} ELSE S("rx"), Entries)
    <3>1. CASE e.type = "rx"
      <4>1. rxidx' = Append(rxidx, Entries[pos])
        BY <1>3, <2>1, <3>1
      <4> QED BY <1>2, <2>2, <2>4, <3>1, <4>1, OrderedMore
    <3>2. CASE e.type # "rx"
      BY <1>3, <2>4, <3>2
    <3> QED BY <3>1, <3>2
  <2>6. Ordered(txidx', IF e.type = "tx" THEN S("tx") \cup {pos} ELSE S("tx"), Entries)
    <3>1. CASE e.type = "tx"
      <4>1. txidx' = Append(txidx, Entries[pos])
        BY <1>3, <2>1, <3>1
      <4> QED BY <1>2, <2>2, <2>4, <3>1, <4>1, OrderedMore
    <3>2. CASE e.type = "rx"
      BY <1>3, <2>4, <3>2
    <3> QED BY <1>4, <3>1, <3>2
  <2> QED BY <1>5, <2>3, <2>5, <2>6 DEF IdxKept
<1>9. ItemsKept'
  <2>1. ItemsKept /\ ItemsSeen \subseteq ItemPlaces /\ \A i \in ItemsSeen : i < pos
    BY <1>2, <1>7 DEF Kept
  <2> QED BY <1>2, <1>3, <1>4, <2>1, AddItemKept
<1>10. KeysKept'
  <2>1. ASSUME NEW n \in 0..(Slots - 1)
        PROVE  keys[n] = << >>
    <3>1. CASE item = NULL \/ n # Slot(item)
      BY <1>7, <3>1 DEF Kept, KeysKept
    <3>2. CASE item # NULL /\ n = Slot(item)
      <4>1. Ordered(keys[n], {}, Flow)
        BY <1>2, <1>7, <3>2 DEF Kept, KeysKept
      <4> QED BY <4>1, OrderedEmpty
    <3> QED BY <3>1, <3>2
  <2>2. item' # NULL /\ item' \in Int /\ Slot(item') \in 0..(Slots - 1)
    BY <1>3, <1>4, SlotFacts
  <2>3. Ordered(keys'[Slot(item')], KeysSeen', Flow')
    BY <1>2, <1>3, <1>5, <2>1, <2>2, OrderedNone
  <2>4. ItemsSeen' # {}
    BY <1>2
  <2>5. keys' \in [0..(Slots - 1) -> Seq(Range(Flow'))]
    BY <1>3, <1>5, <1>7 DEF Kept, KeysKept
  <2> QED BY <1>3, <2>1, <2>2, <2>3, <2>4, <2>5 DEF KeysKept
<1>11. TableKept'
  BY <1>2, <1>3, <1>5, <1>7 DEF Kept, TableKept
<1> QED BY <1>8, <1>9, <1>10, <1>11 DEF Kept

LEMMA ItemsDoneInv ==
  ASSUME IInv, ItemsDone
  PROVE  IInv'
<1>1. /\ pc = "items" /\ pos = 0 /\ pc' = "keys" /\ pos' = First(tree, "keys")
      /\ file' = file /\ tree' = tree /\ UNCHANGED <<slot, item, lists, trie>>
  BY DEF ItemsDone
<1>2. /\ Walk /\ Unique /\ file \in Files /\ slot = 0 /\ (~file.tight => Kept)
      /\ tree = file.root /\ file.exists /\ file.reads["UTF-8"] = "root"
  BY <1>1 DEF IInv, Walk
<1>3. Unique'
  BY <1>1, <1>2 DEF Unique
<1>4. /\ Flow' = Flow /\ ItemPlaces' = ItemPlaces /\ KeyPlaces' = KeyPlaces
  BY <1>1, SameFile
<1>5. pos' = SearchList(Flow, 1, "UAKey")
  BY <1>1, <1>2, SectionFacts DEF First, Loop, Search3, SearchChildren, Flow
<1>6. Flow \in Seq(Range(Flow))
  BY <1>2, ContentsFacts DEF Flow
<1>7. \A j \in DOMAIN Flow : j \in Nat /\ j >= 1
  BY <1>6
<1>8. \/ pos' = 0 /\ \A j \in DOMAIN Flow : Flow[j].tag # "UAKey"
      \/ /\ pos' \in DOMAIN Flow /\ Flow[pos'].tag = "UAKey"
         /\ \A j \in DOMAIN Flow : j < pos' => Flow[j].tag # "UAKey"
  <2>1. FirstFrom(Flow, 1, "UAKey", pos')
    BY <1>5, <1>6, SearchFacts
  <2> QED BY <1>7, <2>1 DEF FirstFrom
<1>9. ItemsSeen' = ItemsSeen
  BY <1>1, <1>4 DEF ItemsSeen
<1>10. KeysSeen = {} /\ KeysSeen' = {}
  <2>1. \A k \in KeyPlaces : k \in DOMAIN Flow /\ Flow[k].tag = "UAKey"
    BY DEF KeyPlaces
  <2>2. \A k \in KeyPlaces : pos' # 0 /\ ~(k < pos')
    BY <1>7, <1>8, <2>1
  <2> QED BY <1>1, <1>4, <2>2 DEF KeysSeen
<1>11. Done = {} /\ Done' = {}
  BY <1>1 DEF Done
<1>12. Walk'
  BY <1>1, <1>2, <1>4, <1>7, <1>8 DEF Walk
<1>13. ~file'.tight => Kept'
  BY <1>1, <1>2, <1>9, <1>10, <1>11, SameKept
<1> QED BY <1>1, <1>3, <1>12, <1>13 DEF IInv

(* The keys loop is at an element, and goes on to the next.                *)
LEMMA KeysStep ==
  ASSUME IInv, At("keys")
  PROVE  /\ pc = "keys" /\ file \in Files /\ Walk /\ Unique /\ (~file.tight => Kept)
         /\ Here = Flow[pos] /\ (Here.ok <=> pos \in KeyPlaces)
         /\ pos \in Nat /\ KeysSeen = {k \in KeyPlaces : k < pos} /\ ItemsSeen = ItemPlaces
         /\ NextNode =>
              /\ Walk' /\ pc' = "keys" /\ file' = file
              /\ KeysSeen' = KeysSeen \cup ({pos} \cap KeyPlaces)
              /\ ItemsSeen' = ItemsSeen /\ Done = {} /\ Done' = {}
<1>1. /\ pc = "keys" /\ pos # 0 /\ Walk /\ Unique /\ (~file.tight => Kept)
  BY DEF At, IInv
<1>2. /\ file \in Files /\ tree = file.root /\ file.exists /\ file.reads["UTF-8"] = "root"
      /\ pos \in DOMAIN Flow /\ Flow[pos].tag = "UAKey" /\ pos \in Nat
  BY <1>1 DEF Walk
<1>3. Elements("keys") = Flow
  BY <1>2, SectionFacts DEF Elements, Loop, Flow
<1>4. Here = Flow[pos] /\ (Here.ok <=> pos \in KeyPlaces)
  BY <1>1, <1>2, <1>3 DEF Here, KeyPlaces
<1>5. KeysSeen = {k \in KeyPlaces : k < pos} /\ ItemsSeen = ItemPlaces
  BY <1>1 DEF KeysSeen, ItemsSeen
<1>6. ASSUME NextNode
      PROVE  /\ Walk' /\ pc' = "keys" /\ file' = file
             /\ KeysSeen' = KeysSeen \cup ({pos} \cap KeyPlaces)
             /\ ItemsSeen' = ItemsSeen /\ Done = {} /\ Done' = {}
  <2>1. /\ pos' = SearchList(Flow, pos + 1, "UAKey")
        /\ pc' = "keys" /\ file' = file /\ tree' = tree /\ slot' = slot
    BY <1>1, <1>3, <1>6 DEF NextNode, Loop, SearchNext
  <2>2. Flow' = Flow /\ ItemPlaces' = ItemPlaces /\ KeyPlaces' = KeyPlaces
    BY <2>1, SameFile
  <2>3. Flow \in Seq(Range(Flow))
    BY <1>2, ContentsFacts DEF Flow
  <2>4. \A j \in DOMAIN Flow : j \in Nat /\ j >= 1
    BY <2>3
  <2>5. \/ pos' = 0 /\ \A j \in DOMAIN Flow : j >= pos + 1 => Flow[j].tag # "UAKey"
        \/ /\ pos' \in DOMAIN Flow /\ pos' >= pos + 1 /\ Flow[pos'].tag = "UAKey"
           /\ \A j \in DOMAIN Flow : j >= pos + 1 /\ j < pos' => Flow[j].tag # "UAKey"
    <3>1. FirstFrom(Flow, pos + 1, "UAKey", pos')
      BY <1>2, <2>1, <2>3, SearchFacts
    <3> QED BY <3>1 DEF FirstFrom
  <2>6. Walk'
    BY <1>1, <1>2, <2>1, <2>2, <2>4, <2>5 DEF Walk
  <2>7. ASSUME NEW k \in KeyPlaces
        PROVE  (pos' # 0 => k < pos') <=> (k < pos \/ k = pos)
    <3>1. k \in DOMAIN Flow /\ Flow[k].tag = "UAKey" /\ k \in Nat
      BY <2>4 DEF KeyPlaces
    <3>2. CASE pos' = 0
      BY <1>2, <2>5, <3>1, <3>2
    <3>3. CASE pos' # 0
      <4>1. pos' \in Nat
        BY <2>4, <2>5, <3>3
      <4> QED BY <1>2, <2>5, <3>1, <3>3, <4>1
    <3> QED BY <3>2, <3>3
  <2>8. KeysSeen' = {k \in KeyPlaces : pos' # 0 => k < pos'}
    BY <2>1, <2>2 DEF KeysSeen
  <2>9. KeysSeen' = KeysSeen \cup ({pos} \cap KeyPlaces)
    BY <1>5, <2>7, <2>8
  <2>10. ItemsSeen' = ItemsSeen /\ Done = {} /\ Done' = {}
    BY <1>1, <2>1, <2>2 DEF ItemsSeen, Done
  <2> QED BY <2>1, <2>6, <2>9, <2>10
<1> QED BY <1>1, <1>2, <1>4, <1>5, <1>6

LEMMA SkipKeyInv ==
  ASSUME IInv, SkipKey
  PROVE  IInv'
<1>1. /\ At("keys") /\ NextNode /\ (~Here.ok \/ file.tight)
      /\ UNCHANGED <<item, lists, trie>>
  BY DEF SkipKey
<1>2. /\ Walk' /\ pc' = "keys" /\ file' = file /\ Unique
      /\ KeysSeen' = KeysSeen \cup ({pos} \cap KeyPlaces) /\ (Here.ok <=> pos \in KeyPlaces)
      /\ ItemsSeen' = ItemsSeen /\ Done' = Done /\ (~file.tight => Kept)
  BY <1>1, KeysStep
<1>3. Unique'
  BY <1>1, <1>2 DEF Unique
<1>4. ~file'.tight => Kept'
  <2>1. SUFFICES ASSUME ~file.tight PROVE Kept'
    BY <1>2
  <2>2. KeysSeen' = KeysSeen
    BY <1>1, <1>2, <2>1
  <2> QED BY <1>1, <1>2, <2>1, <2>2, SameKept
<1> QED BY <1>2, <1>3, <1>4 DEF IInv

(* With an item of each type, one has been filed.                          *)
LEMMA ItemThere ==
  ASSUME Plain, KeysKept, ItemsSeen = ItemPlaces
  PROVE  item # NULL
<1>1. Cardinality(OfType("rx")) # 0
  BY ConfigAssumption DEF Plain
<1>2. OfType("rx") # {}
  BY <1>1, FS_EmptySet
<1> QED BY <1>2 DEF OfType, KeysKept

LEMMA AddKeyInv ==
  ASSUME IInv, AddKey
  PROVE  IInv'
<1>1. /\ At("keys") /\ Here.ok /\ UNCHANGED <<item, items, rxidx, txidx, trie>>
  BY DEF AddKey
<1>2. /\ pc = "keys" /\ file \in Files /\ Walk /\ Unique /\ (~file.tight => Kept)
      /\ Here = Flow[pos] /\ pos \in KeyPlaces /\ pos \in Nat
      /\ KeysSeen = {k \in KeyPlaces : k < pos} /\ ItemsSeen = ItemPlaces
  BY <1>1, KeysStep
<1>3. CASE item = NULL
  <2>1. /\ pc' = "crash" /\ file' = file /\ trie' = trie /\ pos' = pos /\ slot' = slot
    BY <1>3 DEF AddKey
  <2>2. Walk'
    BY <1>2, <2>1 DEF Walk
  <2>3. Unique' /\ Plain' = Plain
    BY <1>2, <2>1, SameFile DEF Unique
  <2>4. ~Plain
    BY <1>2, <1>3, ItemThere DEF Plain, Kept
  <2> QED BY <2>1, <2>2, <2>3, <2>4 DEF IInv
<1>4. CASE item # NULL
  <2>1. NextNode /\ keys' = [keys EXCEPT ![Slot(item)] = Append(@, Flow[pos])]
    BY <1>2, <1>4 DEF AddKey
  <2>2. /\ Walk' /\ pc' = "keys" /\ file' = file /\ ItemsSeen' = ItemsSeen
        /\ KeysSeen' = KeysSeen \cup {pos} /\ Done' = Done
    <3>1. KeysSeen' = KeysSeen \cup ({pos} \cap KeyPlaces)
      BY <1>1, <2>1, KeysStep
    <3>2. KeysSeen' = KeysSeen \cup {pos}
      BY <1>2, <3>1
    <3> QED BY <1>1, <2>1, <3>2, KeysStep
  <2>3. Unique'
    BY <1>1, <1>2 DEF Unique
  <2>4. SUFFICES ASSUME ~file.tight, Kept PROVE Kept'
    BY <1>2, <2>2, <2>3 DEF IInv
  <2>5. /\ Capmode' = Capmode /\ Flow' = Flow /\ Entries' = Entries /\ WantedKeys' = WantedKeys
        /\ \A id : ItemOf(id)' = ItemOf(id) /\ \A k : Routed(k)' = Routed(k)
    BY <2>2, SameFile
  <2>6. IdxKept'
    BY <1>1, <2>2, <2>4, <2>5 DEF Kept, IdxKept
  <2>7. ItemsKept'
    BY <1>1, <2>2, <2>4, <2>5 DEF Kept, ItemsKept, Of
  <2>8. TableKept'
    BY <1>1, <2>2, <2>4, <2>5 DEF Kept, TableKept
  <2>9. KeysKept'
    <3>1. item \in Int /\ Slot(item) \in 0..(Slots - 1)
      BY <1>4, <2>4, SlotFacts DEF Kept, KeysKept
    <3>2. Ordered(keys[Slot(item)], KeysSeen, Flow)
      BY <1>4, <2>4 DEF Kept, KeysKept
    <3>3. KeysSeen \in SUBSET Nat /\ IsFiniteSet(KeysSeen) /\ \A k \in KeysSeen : k < pos
      <4>1. KeysSeen \in SUBSET KeyPlaces
        BY <1>2
      <4> QED BY <1>2, <4>1, PlaceFacts, FS_Subset
    <3>4. Ordered(Append(keys[Slot(item)], Flow[pos]), KeysSeen', Flow)
      BY <1>2, <2>2, <3>2, <3>3, OrderedMore
    <3>5. keys \in [0..(Slots - 1) -> Seq(Range(Flow))] /\ keys[Slot(item)] \in Seq(Range(Flow))
      BY <2>4, <3>1 DEF Kept, KeysKept
    <3>6. Append(keys[Slot(item)], Flow[pos]) \in Seq(Range(Flow))
      <4>1. Flow[pos] \in Range(Flow)
        BY <1>2 DEF KeyPlaces, Range
      <4> QED BY <3>5, <4>1
    <3>7. /\ keys' \in [0..(Slots - 1) -> Seq(Range(Flow'))]
          /\ keys'[Slot(item)] = Append(keys[Slot(item)], Flow[pos])
          /\ \A n \in 0..(Slots - 1) : n # Slot(item) => keys'[n] = keys[n]
      BY <2>1, <2>5, <3>1, <3>5, <3>6
    <3> QED BY <1>1, <1>4, <2>2, <2>4, <2>5, <3>1, <3>4, <3>7 DEF Kept, KeysKept
  <2> QED BY <2>6, <2>7, <2>8, <2>9 DEF Kept
<1> QED BY <1>3, <1>4

LEMMA KeysDoneInv ==
  ASSUME IInv, KeysDone
  PROVE  IInv'
<1>1. /\ pc = "keys" /\ pos = 0 /\ pc' = "build" /\ pos' = 1
      /\ file' = file /\ UNCHANGED <<slot, item, lists, trie>>
  BY DEF KeysDone
<1>2. /\ Walk /\ Unique /\ file \in Files /\ slot = 0 /\ (~file.tight => Kept)
  BY <1>1 DEF IInv, Walk
<1>3. Unique'
  BY <1>1, <1>2 DEF Unique
<1>4. /\ ItemPlaces' = ItemPlaces /\ KeyPlaces' = KeyPlaces
  BY <1>1, SameFile
<1>5. ItemsSeen' = ItemsSeen /\ KeysSeen' = KeysSeen /\ KeysSeen = KeyPlaces
  BY <1>1, <1>4 DEF ItemsSeen, KeysSeen
<1>6. Walk'
  BY <1>1, <1>2 DEF Walk
<1>7. ASSUME ~file.tight
      PROVE  Kept'
  <2>1. Done = {}
    BY <1>1 DEF Done
  <2>2. Done' = {}
    <3>1. CASE KeyPlaces = {}
      BY <1>4, <3>1 DEF Done
    <3>2. CASE KeyPlaces # {}
      <4>1. item \in Int /\ Slot(item) \in Nat
        <5>1. item \in Int
          BY <1>2, <1>5, <1>7, <3>2 DEF Kept, KeysKept
        <5>2. \A n \in 0..(Slots - 1) : n \in Nat
          BY ConfigAssumption
        <5> QED BY <5>1, <5>2, SlotFacts
      <4>2. \A k \in KeyPlaces : Rank(KeyPlaces, k) \in Nat \ {0}
        BY <1>2, PlaceFacts, RankFacts
      <4>3. /\ ~(Slot(item) < 0) /\ \A k \in KeyPlaces : ~(Rank(KeyPlaces, k) < 1)
        BY <4>1, <4>2
      <4>4. Done' = {k \in KeyPlaces :
                       \/ Slot(item) < 0
                       \/ Slot(item) = 0 /\ Rank(KeyPlaces, k) < 1}
        BY <1>1, <1>2, <1>4 DEF Done
      <4> QED BY <4>3, <4>4
    <3> QED BY <3>1, <3>2
  <2> QED BY <1>1, <1>2, <1>5, <1>7, <2>1, <2>2, SameKept
<1> QED BY <1>1, <1>3, <1>6, <1>7 DEF IInv

-------------------------------------------------------------------------------
(* build                                                                   *)

(* What find_item and the search of the TX list find.                      *)
LEMMA FindItemFacts ==
  ASSUME ItemsKept, ItemsSeen = ItemPlaces, NEW k, k.id \in Int
  PROVE  FindItem(k) = IF PlacesOf(k.id) = {} THEN NULL ELSE ItemOf(k.id)
<1>1. Of(ItemsSeen, k.id) = PlacesOf(k.id)
  BY DEF Of, PlacesOf
<1>2. FindItem(k) = IF Hits(items[Slot(k.id)], k.id) = {} THEN NULL
                    ELSE items[Slot(k.id)][Min(Hits(items[Slot(k.id)], k.id))]
  BY DEF FindItem, Hits
<1>3. /\ Hits(items[Slot(k.id)], k.id) = {} <=> PlacesOf(k.id) = {}
      /\ PlacesOf(k.id) # {} =>
           items[Slot(k.id)][Min(Hits(items[Slot(k.id)], k.id))] = Capmode[Min(PlacesOf(k.id))]
  BY <1>1 DEF ItemsKept
<1> QED BY <1>2, <1>3 DEF ItemOf

LEMMA FindPortFacts ==
  ASSUME file \in Files, IdxKept, ItemsSeen = ItemPlaces, NEW k, PlacesOf(k.id) # {},
         ItemOf(k.id).type = "tx"
  PROVE  FindPort(k) = AttachSelf(ItemOf(k.id).name)
<1> DEFINE S    == {i \in ItemsSeen : Capmode[i].type = "tx"}
           hits == {i \in DOMAIN txidx : txidx[i].itemid = k.id /\ txidx[i].to}
           p    == Min(PlacesOf(k.id))
           r    == Rank(S, p)
<1>1. /\ ItemPlaces \in SUBSET Nat /\ IsFiniteSet(ItemPlaces)
      /\ S \in SUBSET ItemPlaces /\ PlacesOf(k.id) \in SUBSET Nat
  BY PlaceFacts DEF PlacesOf
<1>2. p \in PlacesOf(k.id) /\ \A i \in PlacesOf(k.id) : p <= i
  BY <1>1, MinFacts
<1>3. /\ p \in S /\ p \in Nat /\ Capmode[p].id = k.id /\ ItemOf(k.id) = Capmode[p]
      /\ S \in SUBSET Nat /\ IsFiniteSet(S)
  BY <1>1, <1>2, FS_Subset DEF PlacesOf, ItemOf
<1>4. \A i \in S : /\ Entries[i].itemid = Capmode[i].id /\ Entries[i].to
                  /\ Entries[i].idx = AttachSelf(Capmode[i].name)
  BY <1>1 DEF Entries
<1>5. Ordered(txidx, S, Entries) /\ DOMAIN txidx = 1..Len(txidx) /\ Len(txidx) \in Nat
  <2>1. Ordered(txidx, S, Entries)
    BY DEF IdxKept
  <2> HIDE DEF S
  <2>2. txidx \in Seq({Entries[i] : i \in S})
    BY <2>1 DEF Ordered
  <2> QED BY <2>1, <2>2
<1>6. \A i \in S : i \in PlacesOf(Capmode[i].id)
  BY <1>1 DEF PlacesOf
<1> HIDE DEF S, p
<1>7. r \in 1..Len(txidx) /\ txidx[r] = Entries[p]
  BY <1>3, <1>5 DEF Ordered
<1>8. r \in hits /\ hits \in SUBSET Nat
  BY <1>3, <1>4, <1>5, <1>7
<1>9. ASSUME NEW j \in hits PROVE r <= j
  <2>1. j \in 1..Len(txidx) /\ txidx[j].itemid = k.id
    BY <1>5
  <2>2. ASSUME j < r PROVE FALSE
    <3>1. PICK q \in S : q < p /\ txidx[j] = Entries[q]
      BY <1>3, <1>5, <2>1, <2>2, OrderedBefore
    <3>2. Capmode[q].id = k.id
      BY <1>4, <2>1, <3>1
    <3>3. p <= q /\ q \in Nat
      BY <1>2, <1>3, <1>6, <3>2
    <3> QED BY <1>3, <3>1, <3>3
  <2>3. j \in Nat /\ r \in Nat
    BY <1>5, <1>7, <2>1
  <2> QED BY <2>2, <2>3
<1>10. Min(hits) = r
  <2> HIDE DEF hits, r
  <2> QED BY <1>8, <1>9, MinIs
<1>11. FindPort(k) = txidx[r].idx
  BY <1>8, <1>10 DEF FindPort
<1> QED BY <1>3, <1>4, <1>7, <1>11

LEMMA AppendFacts ==
  ASSUME NEW V, NEW l \in Seq(V), NEW e
  PROVE  /\ DOMAIN Append(l, e) = 1..(Len(l) + 1) /\ Append(l, e)[Len(l) + 1] = e
         /\ \A i \in 1..Len(l) : Append(l, e)[i] = l[i]
<1> QED OBVIOUS

(* No text is twice in the trie.                                           *)
LEMMA TrieAddUnique ==
  ASSUME Unique, NEW k, trie' = trie \/ trie' = TrieAdd(k)
  PROVE  Unique'
<1> DEFINE new == [text |-> k.text, itemid |-> k.id, idx |-> FindPort(k)]
<1>1. CASE trie' = trie
  BY <1>1 DEF Unique
<1>2. CASE trie' = Append(trie, new) /\ \A i \in DOMAIN trie : trie[i].text # k.text
  <2>1. new.text = k.text
    OBVIOUS
  <2> HIDE DEF new
  <2>2. trie \in Seq(Range(trie)) /\ DOMAIN trie = 1..Len(trie) /\ Len(trie) \in Nat
    BY DEF Unique
  <2>3. /\ DOMAIN trie' = 1..(Len(trie) + 1) /\ trie'[Len(trie) + 1] = new
        /\ \A i \in 1..Len(trie) : trie'[i] = trie[i]
    <3>1. trie' = Append(trie, new)
      BY <1>2
    <3>2. trie \in Seq(Range(trie))
      BY <2>2
    <3>3. /\ DOMAIN Append(trie, new) = 1..(Len(trie) + 1)
          /\ Append(trie, new)[Len(trie) + 1] = new
          /\ \A i \in 1..Len(trie) : Append(trie, new)[i] = trie[i]
      BY <3>2, AppendFacts
    <3> QED BY <3>1, <3>3
  <2>4. trie' \in Seq(Range(trie'))
    <3> DEFINE V == Range(trie')
    <3>1. /\ \A i \in 1..Len(trie) : trie[i] \in V
          /\ new \in V
      <4>1. Len(trie) + 1 \in DOMAIN trie' /\ \A i \in 1..Len(trie) : i \in DOMAIN trie'
        BY <2>2, <2>3
      <4> QED BY <2>3, <4>1 DEF Range
    <3> HIDE DEF V
    <3>2. trie \in Seq(V)
      BY <2>2, <3>1
    <3>3. trie' \in Seq(V)
      BY <1>2, <3>1, <3>2
    <3> QED BY <3>3 DEF V
  <2>5. ASSUME NEW i \in DOMAIN trie', NEW j \in DOMAIN trie', trie'[i].text = trie'[j].text
        PROVE  i = j
    <3>1. /\ i = Len(trie) + 1 \/ i \in 1..Len(trie)
          /\ j = Len(trie) + 1 \/ j \in 1..Len(trie)
      BY <2>2, <2>3
    <3> QED BY <1>2, <2>1, <2>2, <2>3, <2>5, <3>1 DEF Unique
  <2> QED BY <2>4, <2>5 DEF Unique
<1> QED BY <1>1, <1>2 DEF TrieAdd

(* The key build is at, and the keys it is through with.                   *)
LEMMA BuildFacts ==
  ASSUME file \in Files, Walk, KeysKept, KeysSeen = KeyPlaces, pc = "build", slot < Slots,
         pos <= Len(keys[slot])
  PROVE  \E p \in KeyPlaces : /\ keys[slot][pos] = Flow[p] /\ Slot(item) = slot
                              /\ Done = {k \in KeyPlaces : k < p}
                              /\ \A k \in KeyPlaces : Rank(KeyPlaces, k) < pos + 1 <=> k < p \/ k = p
<1>1. slot \in 0..(Slots - 1) /\ pos \in Nat /\ pos # 0 /\ slot \in Nat
  BY ConfigAssumption DEF Walk
<1>2. keys[slot] # << >>
  <2>1. Len(<< >>) = 0
    OBVIOUS
  <2> QED BY <1>1, <2>1
<1>3. item # NULL /\ slot = Slot(item) /\ Ordered(keys[slot], KeyPlaces, Flow)
  BY <1>1, <1>2 DEF KeysKept
<1>4. pos \in 1..Len(keys[slot])
  <2>1. Len(keys[slot]) \in Nat
    BY <1>3 DEF Ordered
  <2> QED BY <1>1, <2>1
<1>5. PICK p \in KeyPlaces : Rank(KeyPlaces, p) = pos
  BY <1>3, <1>4 DEF Ordered
<1>6. keys[slot][pos] = Flow[p]
  BY <1>3, <1>5 DEF Ordered
<1>7. KeyPlaces \in SUBSET Nat /\ IsFiniteSet(KeyPlaces)
  BY PlaceFacts
<1>8. ASSUME NEW k \in KeyPlaces
      PROVE  /\ Rank(KeyPlaces, k) < pos <=> k < p
             /\ Rank(KeyPlaces, k) < pos + 1 <=> k < p \/ k = p
  <2>1. /\ Rank(KeyPlaces, k) \in Nat /\ k \in Nat /\ p \in Nat
        /\ k < p => Rank(KeyPlaces, k) < pos
        /\ p < k => pos < Rank(KeyPlaces, k)
    BY <1>5, <1>7, RankFacts
  <2>2. k < p \/ k = p \/ p < k
    BY <2>1
  <2> QED BY <1>1, <1>5, <2>1, <2>2
<1>9. Done = {k \in KeyPlaces : Rank(KeyPlaces, k) < pos}
  BY <1>1, <1>3 DEF Done
<1> QED BY <1>3, <1>6, <1>8, <1>9

LEMMA BuildKeyInv ==
  ASSUME IInv, BuildKey
  PROVE  IInv'
<1> DEFINE k == keys[slot][pos]
<1>1. /\ pc = "build" /\ pc' = "build" /\ slot < Slots /\ pos <= Len(keys[slot])
      /\ pos' = pos + 1 /\ slot' = slot /\ file' = file /\ UNCHANGED <<item, lists>>
      /\ trie' = IF k.text = Empty \/ FindItem(k) = NULL THEN trie
                 ELSE IF FindItem(k).type = "rx" THEN trie
                 ELSE TrieAdd(k)
  BY DEF BuildKey
<1>2. Walk /\ Unique /\ file \in Files /\ (~file.tight => Kept)
  BY <1>1 DEF IInv, Walk
<1>3. Walk'
  BY <1>1, <1>2 DEF Walk
<1>4. Unique'
  <2>1. trie' = trie \/ trie' = TrieAdd(k)
    BY <1>1
  <2> QED BY <1>2, <2>1, TrieAddUnique
<1>5. SUFFICES ASSUME ~file.tight, Kept PROVE Kept'
  BY <1>1, <1>2, <1>3, <1>4 DEF IInv
<1>6. /\ Capmode' = Capmode /\ Flow' = Flow /\ Entries' = Entries /\ WantedKeys' = WantedKeys
      /\ ItemPlaces' = ItemPlaces /\ KeyPlaces' = KeyPlaces
      /\ \A id : ItemOf(id)' = ItemOf(id) /\ \A q : Routed(q)' = Routed(q)
  BY <1>1, SameFile
<1>7. /\ ItemsSeen = ItemPlaces /\ ItemsSeen' = ItemsSeen
      /\ KeysSeen = KeyPlaces /\ KeysSeen' = KeysSeen
  BY <1>1, <1>6 DEF ItemsSeen, KeysSeen
<1>8. IdxKept' /\ ItemsKept' /\ KeysKept'
  <2>1. /\ item' = item /\ items' = items /\ rxidx' = rxidx /\ txidx' = txidx
        /\ keys' = keys
    BY <1>1 DEF lists
  <2>2. IdxKept'
    BY <1>5, <1>6, <1>7, <2>1 DEF Kept, IdxKept
  <2>3. ItemsKept'
    <3>1. ItemsKept /\ ItemsSeen' = ItemsSeen /\ Capmode' = Capmode /\ items' = items
      BY <1>5, <1>6, <1>7, <2>1 DEF Kept
    <3> QED BY <3>1 DEF ItemsKept, Of
  <2>4. KeysKept'
    BY <1>5, <1>6, <1>7, <2>1 DEF Kept, KeysKept
  <2> QED BY <2>2, <2>3, <2>4
<1>9. PICK p \in KeyPlaces : /\ k = Flow[p] /\ Slot(item) = slot
                             /\ Done = {q \in KeyPlaces : q < p}
                             /\ \A q \in KeyPlaces : Rank(KeyPlaces, q) < pos + 1 <=> q < p \/ q = p
  BY <1>1, <1>2, <1>5, <1>7, BuildFacts DEF Kept
<1>10. Done' = Done \cup {p}
  <2>1. ~(slot < slot)
    BY <1>2 DEF Walk
  <2>2. Done' = {q \in KeyPlaces : Rank(KeyPlaces, q) < pos + 1}
    BY <1>1, <1>6, <1>9, <2>1 DEF Done
  <2> QED BY <1>9, <2>2
<1>11. /\ FindItem(k) = NULL <=> PlacesOf(k.id) = {}
       /\ PlacesOf(k.id) # {} =>
            /\ FindItem(k) = ItemOf(k.id)
            /\ ItemOf(k.id).type \in {"rx", "tx"}
            /\ ItemOf(k.id).type = "tx" => FindPort(k) = AttachSelf(ItemOf(k.id).name)
  <2>1. k.id \in Int
    BY <1>2, <1>9, PlaceFacts
  <2>2. PlacesOf(k.id) # {} => ItemOf(k.id) # NULL /\ ItemOf(k.id).type \in {"rx", "tx"}
    <3>1. PlacesOf(k.id) \in SUBSET ItemPlaces /\ ItemPlaces \in SUBSET Nat
      BY <1>2, PlaceFacts DEF PlacesOf
    <3>2. PlacesOf(k.id) # {} => Min(PlacesOf(k.id)) \in ItemPlaces
      BY <3>1, MinFacts
    <3> QED BY <1>2, <3>2, PlaceFacts DEF ItemOf
  <2>3. FindItem(k) = IF PlacesOf(k.id) = {} THEN NULL ELSE ItemOf(k.id)
    BY <1>5, <1>7, <2>1, FindItemFacts DEF Kept
  <2>4. PlacesOf(k.id) # {} /\ ItemOf(k.id).type = "tx" =>
          FindPort(k) = AttachSelf(ItemOf(k.id).name)
    BY <1>2, <1>5, <1>7, FindPortFacts DEF Kept
  <2> QED BY <2>2, <2>3, <2>4
<1>12. Routed(p) <=> k.text \notin Long \cup {Empty} /\ PlacesOf(k.id) # {} /\ ItemOf(k.id).type = "tx"
  BY <1>9 DEF Routed
<1> HIDE DEF k
<1>13. CASE trie' = trie /\ (Routed(p) => \E i \in DOMAIN trie : trie[i].text = k.text)
  <2>1. TableKept'
    BY <1>5, <1>6, <1>9, <1>10, <1>13 DEF Kept, TableKept
  <2> QED BY <1>8, <2>1 DEF Kept
<1>14. CASE /\ Routed(p) /\ \A i \in DOMAIN trie : trie[i].text # k.text
            /\ trie' = Append(trie, [text |-> k.text, itemid |-> k.id, idx |-> FindPort(k)])
  <2> DEFINE new == [text |-> k.text, itemid |-> k.id, idx |-> FindPort(k)]
  <2>1. new.text = k.text /\ new.idx = AttachSelf(ItemOf(k.id).name)
    BY <1>11, <1>12, <1>14
  <2>2. trie' = Append(trie, new)
    BY <1>14
  <2> HIDE DEF new
  <2>3. trie \in Seq(Range(trie)) /\ DOMAIN trie = 1..Len(trie) /\ Len(trie) \in Nat
    BY <1>2 DEF Unique
  <2>4. /\ DOMAIN trie' = 1..(Len(trie) + 1) /\ trie'[Len(trie) + 1] = new
        /\ \A i \in 1..Len(trie) : trie'[i] = trie[i]
        /\ Len(trie) + 1 \in 1..(Len(trie) + 1)
        /\ \A i \in 1..(Len(trie) + 1) : i = Len(trie) + 1 \/ i \in 1..Len(trie)
        /\ \A i \in 1..Len(trie) : i \in 1..(Len(trie) + 1)
    BY <2>2, <2>3
  <2>5. p \in WantedKeys
    <3>1. ASSUME NEW j \in KeyPlaces, j < p, Routed(j)
          PROVE  Flow[j].text # Flow[p].text
      <4>1. j \in Done
        BY <1>9, <3>1
      <4>2. PICK i \in DOMAIN trie : trie[i].text = Flow[j].text
        BY <1>5, <3>1, <4>1 DEF Kept, TableKept
      <4> QED BY <1>9, <1>14, <4>2
    <3> QED BY <1>14, <3>1 DEF WantedKeys
  <2>6. ASSUME NEW i \in DOMAIN trie'
        PROVE  \E q \in WantedKeys' \cap Done' :
                 trie'[i].text = Flow'[q].text /\ trie'[i].idx = AttachSelf(ItemOf(Flow[q].id).name)
    <3>1. CASE i = Len(trie) + 1
      BY <1>6, <1>9, <1>10, <2>1, <2>4, <2>5, <3>1
    <3>2. CASE i \in 1..Len(trie)
      <4>1. PICK q \in WantedKeys \cap Done :
              trie[i].text = Flow[q].text /\ trie[i].idx = AttachSelf(ItemOf(Flow[q].id).name)
        BY <1>5, <2>3, <3>2 DEF Kept, TableKept
      <4> QED BY <1>6, <1>10, <2>4, <3>2, <4>1
    <3> QED BY <2>4, <3>1, <3>2
  <2>7. ASSUME NEW q \in Done', Routed(q)
        PROVE  \E i \in DOMAIN trie' : trie'[i].text = Flow'[q].text
    <3>1. CASE q = p
      BY <1>6, <1>9, <2>1, <2>4, <3>1
    <3>2. CASE q \in Done
      <4>1. PICK i \in DOMAIN trie : trie[i].text = Flow[q].text
        BY <1>5, <2>7, <3>2 DEF Kept, TableKept
      <4> QED BY <1>6, <2>3, <2>4, <4>1
    <3> QED BY <1>10, <3>1, <3>2
  <2>8. TableKept'
    BY <1>6, <2>6, <2>7 DEF TableKept
  <2> QED BY <1>8, <2>8 DEF Kept
<1>15. \/ trie' = trie /\ (Routed(p) => \E i \in DOMAIN trie : trie[i].text = k.text)
       \/ /\ Routed(p) /\ \A i \in DOMAIN trie : trie[i].text # k.text
          /\ trie' = Append(trie, [text |-> k.text, itemid |-> k.id, idx |-> FindPort(k)])
  <2>1. trie' = IF k.text = Empty \/ FindItem(k) = NULL THEN trie
                ELSE IF FindItem(k).type = "rx" THEN trie
                ELSE TrieAdd(k)
    BY <1>1 DEF k
  <2>2. CASE Routed(p)
    <3>1. trie' = TrieAdd(k)
      BY <1>11, <1>12, <2>1, <2>2
    <3> QED BY <1>12, <2>2, <3>1 DEF TrieAdd
  <2>3. CASE ~Routed(p)
    BY <1>11, <1>12, <2>1, <2>3 DEF TrieAdd
  <2> QED BY <2>2, <2>3
<1> QED BY <1>13, <1>14, <1>15

LEMMA NextSlotInv ==
  ASSUME IInv, NextSlot
  PROVE  IInv'
<1>1. /\ pc = "build" /\ pc' = "build" /\ slot < Slots /\ pos > Len(keys[slot])
      /\ slot' = slot + 1 /\ pos' = 1 /\ file' = file /\ UNCHANGED <<item, lists, trie>>
  BY DEF NextSlot
<1>2. Walk /\ Unique /\ file \in Files /\ (~file.tight => Kept)
  BY <1>1 DEF IInv, Walk
<1>3. slot \in 0..(Slots - 1) /\ slot \in Nat /\ pos \in Nat /\ slot + 1 \in 0..Slots
  BY <1>1, <1>2, ConfigAssumption DEF Walk
<1>4. Walk'
  BY <1>1, <1>2, <1>3 DEF Walk
<1>5. Unique'
  BY <1>1, <1>2 DEF Unique
<1>6. ItemPlaces' = ItemPlaces /\ KeyPlaces' = KeyPlaces
  BY <1>1, SameFile
<1>7. ItemsSeen' = ItemsSeen /\ KeysSeen' = KeysSeen /\ KeysSeen = KeyPlaces
  BY <1>1, <1>6 DEF ItemsSeen, KeysSeen
<1>8. ASSUME ~file.tight
      PROVE  Kept'
  <2>1. Done' = Done
    <3>1. CASE KeyPlaces = {}
      BY <1>6, <3>1 DEF Done
    <3>2. CASE KeyPlaces # {}
      <4>1. item \in Int /\ Ordered(keys[Slot(item)], KeyPlaces, Flow)
        BY <1>2, <1>7, <1>8, <3>2 DEF Kept, KeysKept
      <4>2. Slot(item) \in Nat
        <5>1. \A n \in 0..(Slots - 1) : n \in Nat
          BY ConfigAssumption
        <5> QED BY <4>1, <5>1, SlotFacts
      <4>3. \A k \in KeyPlaces : /\ Rank(KeyPlaces, k) \in 1..Len(keys[Slot(item)])
                                 /\ Len(keys[Slot(item)]) \in Nat
        BY <4>1 DEF Ordered
      <4>4. Done = {k \in KeyPlaces : \/ Slot(item) < slot
                                      \/ Slot(item) = slot /\ Rank(KeyPlaces, k) < pos}
        BY <1>1 DEF Done
      <4>5. Done' = {k \in KeyPlaces : \/ Slot(item) < slot + 1
                                       \/ Slot(item) = slot + 1 /\ Rank(KeyPlaces, k) < 1}
        BY <1>1, <1>6 DEF Done
      <4>6. ASSUME NEW k \in KeyPlaces
            PROVE  (\/ Slot(item) < slot
                    \/ Slot(item) = slot /\ Rank(KeyPlaces, k) < pos)
                   <=> (\/ Slot(item) < slot + 1
                        \/ Slot(item) = slot + 1 /\ Rank(KeyPlaces, k) < 1)
        <5>1. /\ Rank(KeyPlaces, k) \in Nat /\ ~(Rank(KeyPlaces, k) < 1)
              /\ Slot(item) = slot => Rank(KeyPlaces, k) < pos
          BY <1>1, <1>3, <4>3
        <5> QED BY <1>3, <4>2, <5>1
      <4> QED BY <4>4, <4>5, <4>6
    <3> QED BY <3>1, <3>2
  <2> QED BY <1>1, <1>2, <1>7, <1>8, <2>1, SameKept
<1> QED BY <1>1, <1>4, <1>5, <1>8 DEF IInv

LEMMA KeysBuiltInv ==
  ASSUME IInv, KeysBuilt
  PROVE  IInv'
<1>1. /\ pc = "build" /\ pc' = "start" /\ slot = Slots /\ slot' = slot /\ pos' = pos
      /\ file' = file /\ UNCHANGED <<item, lists, trie>>
  BY DEF KeysBuilt
<1>2. Walk /\ Unique /\ file \in Files /\ (~file.tight => Kept)
  BY <1>1 DEF IInv, Walk
<1>3. Walk'
  BY <1>1, <1>2 DEF Walk
<1>4. Unique'
  BY <1>1, <1>2 DEF Unique
<1>5. ItemPlaces' = ItemPlaces /\ KeyPlaces' = KeyPlaces
  BY <1>1, SameFile
<1>6. ItemsSeen' = ItemsSeen /\ KeysSeen' = KeysSeen /\ KeysSeen = KeyPlaces
  BY <1>1, <1>5 DEF ItemsSeen, KeysSeen
<1>7. ASSUME ~file.tight
      PROVE  Kept'
  <2>1. Done' = KeyPlaces
    BY <1>1, <1>5 DEF Done
  <2>2. Done = KeyPlaces
    <3>1. CASE KeyPlaces = {}
      BY <3>1 DEF Done
    <3>2. CASE KeyPlaces # {}
      <4>1. item \in Int
        BY <1>2, <1>6, <1>7, <3>2 DEF Kept, KeysKept
      <4>2. Slot(item) < slot
        <5>1. \A n \in 0..(Slots - 1) : n < Slots
          BY ConfigAssumption
        <5> QED BY <1>1, <4>1, <5>1, SlotFacts
      <4> QED BY <1>1, <4>2 DEF Done
    <3> QED BY <3>1, <3>2
  <2> QED BY <1>1, <1>2, <1>6, <1>7, <2>1, <2>2, SameKept
<1> QED BY <1>1, <1>3, <1>4, <1>7 DEF IInv

(* With an item of each type, both index lists have a first entry.         *)
LEMMA FirstUseInv ==
  ASSUME IInv, FirstUse
  PROVE  IInv'
<1>1. /\ pc = "start" /\ slot' = slot /\ pos' = pos /\ file' = file
      /\ pc' = IF rxidx = << >> \/ txidx = << >> THEN "crash" ELSE "run"
      /\ UNCHANGED <<item, lists, trie>>
  BY DEF FirstUse
<1>2. Walk /\ Unique /\ file \in Files /\ (~file.tight => Kept)
  BY <1>1 DEF IInv, Walk
<1>3. Walk'
  BY <1>1, <1>2 DEF Walk
<1>4. Unique'
  BY <1>1, <1>2 DEF Unique
<1>5. ItemPlaces' = ItemPlaces /\ KeyPlaces' = KeyPlaces /\ Plain' = Plain
  BY <1>1, SameFile
<1>6. pc' = "run" => /\ ItemsSeen' = ItemsSeen /\ KeysSeen' = KeysSeen /\ Done' = Done
  BY <1>1, <1>5 DEF ItemsSeen, KeysSeen, Done
<1>7. ~file.tight /\ pc' = "run" => Kept'
  BY <1>1, <1>2, <1>6, SameKept
<1>8. ASSUME Plain
      PROVE  pc' = "run"
  <2>1. ItemsSeen = ItemPlaces /\ Kept
    BY <1>1, <1>2, <1>8 DEF ItemsSeen, Plain
  <2>2. \A t : {i \in ItemsSeen : Capmode[i].type = t} = OfType(t)
    BY <2>1 DEF OfType
  <2>3. Len(rxidx) = Cardinality(OfType("rx")) /\ Len(txidx) = Cardinality(OfType("tx"))
    BY <2>1, <2>2 DEF Kept, IdxKept, Ordered
  <2>4. Len(rxidx) # 0 /\ Len(txidx) # 0
    BY <1>8, <2>3, ConfigAssumption DEF Plain
  <2>5. Len(<< >>) = 0
    OBVIOUS
  <2> QED BY <1>1, <2>4, <2>5
<1> QED BY <1>1, <1>3, <1>4, <1>5, <1>7, <1>8 DEF IInv

-------------------------------------------------------------------------------
(* What the lists hold, also when memory is short                          *)

(* Every index entry is that of an item of its type, every TX item in a    *)
(* slot has an index entry with its id, and every pattern is asked for.    *)
ItemList(l) ==
  /\ l \in Seq({Capmode[i] : i \in ItemPlaces})
  /\ \A j \in DOMAIN l :
       l[j].type = "tx" => \E x \in DOMAIN txidx : txidx[x].itemid = l[j].id

AskedFor(x) ==
  \E k \in KeyPlaces : \E i \in PlacesOf(Flow[k].id) \cap OfType("tx") :
    x.text = Flow[k].text /\ x.idx = AttachSelf(Capmode[i].name)

Part ==
  /\ rxidx \in Seq({Entries[i] : i \in OfType("rx")})
  /\ txidx \in Seq({Entries[i] : i \in OfType("tx")})
  /\ DOMAIN items = 0..(Slots - 1) /\ \A n \in 0..(Slots - 1) : ItemList(items[n])
  /\ keys \in [0..(Slots - 1) -> Seq({Flow[k] : k \in KeyPlaces})]
  /\ \A i \in DOMAIN trie : AskedFor(trie[i])

LEMMA PartInit == Init => Part
<1> SUFFICES ASSUME Init PROVE Part
  OBVIOUS
<1>1. /\ rxidx = << >> /\ txidx = << >> /\ trie = << >>
      /\ items = [n \in 0..(Slots - 1) |-> << >>] /\ keys = items
  BY DEF Init
<1>2. \A V : << >> \in Seq(V)
  OBVIOUS
<1>3. DOMAIN << >> = {}
  OBVIOUS
<1>4. ASSUME NEW n \in 0..(Slots - 1) PROVE ItemList(items[n])
  <2>1. items[n] = << >>
    BY <1>1
  <2> QED BY <1>2, <1>3, <2>1 DEF ItemList
<1>5. keys \in [0..(Slots - 1) -> Seq({Flow[k] : k \in KeyPlaces})]
  BY <1>1, <1>2
<1> QED BY <1>1, <1>2, <1>3, <1>4, <1>5 DEF Part

(* What the lists are compared with does not change.                       *)
LEMMA PartFile ==
  ASSUME file' = file
  PROVE  /\ Capmode' = Capmode /\ Flow' = Flow /\ Entries' = Entries
         /\ ItemPlaces' = ItemPlaces /\ KeyPlaces' = KeyPlaces
         /\ \A t : OfType(t)' = OfType(t)
         /\ \A x : AskedFor(x)' = AskedFor(x)
<1>1. /\ Capmode' = Capmode /\ Flow' = Flow /\ Entries' = Entries
      /\ ItemPlaces' = ItemPlaces /\ KeyPlaces' = KeyPlaces
      /\ \A t : OfType(t)' = OfType(t) /\ \A id : PlacesOf(id)' = PlacesOf(id)
  BY SameFile
<1> QED BY <1>1 DEF AskedFor

LEMMA PartSame ==
  ASSUME Part, file' = file, UNCHANGED <<lists, trie>>
  PROVE  Part'
<1>1. rxidx' = rxidx /\ txidx' = txidx /\ items' = items /\ keys' = keys /\ trie' = trie
  BY DEF lists
<1>2. \A n \in 0..(Slots - 1) : ItemList(items[n])'
  BY <1>1, PartFile DEF Part, ItemList
<1> QED BY <1>1, <1>2, PartFile DEF Part

LEMMA PartAddItem ==
  ASSUME IInv, Part, AddItem
  PROVE  Part'
<1> DEFINE e   == Capmode[pos]
           idx == [itemid |-> e.id, idx |-> AttachSelf(e.name), to |-> TRUE]
           RX  == {Entries[i] : i \in OfType("rx")}
           TX  == {Entries[i] : i \in OfType("tx")}
           V   == {Capmode[i] : i \in ItemPlaces}
<1>1. At("items") /\ NextNode /\ Here.ok
  BY DEF AddItem
<1>2. file \in Files /\ Here = e /\ pos \in ItemPlaces /\ file' = file
  BY <1>1, ItemsStep
<1>3. /\ items' = [items EXCEPT ![Slot(e.id)] = Append(@, e)]
      /\ IF e.type = "rx" THEN rxidx' = Append(rxidx, idx) /\ txidx' = txidx
         ELSE txidx' = Append(txidx, idx) /\ rxidx' = rxidx
      /\ keys' = keys /\ trie' = trie
  BY <1>2 DEF AddItem
<1>4. e.type \in {"rx", "tx"} /\ idx = Entries[pos] /\ idx.itemid = e.id
  BY <1>2, PlaceFacts DEF Entries
<1>5. (e.type = "rx" => idx \in RX) /\ (e.type = "tx" => idx \in TX) /\ e \in V
  BY <1>2, <1>4 DEF OfType
<1>6. rxidx \in Seq(RX) /\ txidx \in Seq(TX)
  BY DEF Part
<1> HIDE DEF e, idx, RX, TX, V
<1>7. rxidx' \in Seq(RX) /\ txidx' \in Seq(TX)
  <2>1. CASE e.type = "rx"
    BY <1>3, <1>5, <1>6, <2>1
  <2>2. CASE e.type = "tx"
    BY <1>3, <1>5, <1>6, <2>2
  <2> QED BY <1>4, <2>1, <2>2
<1>8. \A x \in DOMAIN txidx : x \in DOMAIN txidx' /\ txidx'[x] = txidx[x]
  <2>1. txidx' = txidx \/ txidx' = Append(txidx, idx)
    BY <1>3
  <2>2. DOMAIN txidx = 1..Len(txidx) /\ Len(txidx) \in Nat
    BY <1>6
  <2>3. /\ DOMAIN Append(txidx, idx) = 1..(Len(txidx) + 1)
        /\ \A x \in 1..Len(txidx) : Append(txidx, idx)[x] = txidx[x]
    BY <1>6, AppendFacts
  <2> QED BY <2>1, <2>2, <2>3
<1>9. e.type = "tx" => \E x \in DOMAIN txidx' : txidx'[x].itemid = e.id
  <2>1. SUFFICES ASSUME e.type = "tx"
                 PROVE  \E x \in DOMAIN txidx' : txidx'[x].itemid = e.id
    OBVIOUS
  <2>2. txidx' = Append(txidx, idx) /\ Len(txidx) \in Nat
    BY <1>3, <1>6, <2>1
  <2>3. /\ DOMAIN Append(txidx, idx) = 1..(Len(txidx) + 1)
        /\ Append(txidx, idx)[Len(txidx) + 1] = idx
    BY <1>6, AppendFacts
  <2>4. Len(txidx) + 1 \in 1..(Len(txidx) + 1)
    BY <2>2
  <2> QED BY <1>4, <2>2, <2>3, <2>4
<1>10. ASSUME NEW n \in 0..(Slots - 1)
       PROVE  ItemList(items[n])'
  <2>1. /\ items[n] \in Seq(V)
        /\ \A j \in DOMAIN items[n] : items[n][j].type = "tx" =>
             \E x \in DOMAIN txidx : txidx[x].itemid = items[n][j].id
    BY DEF Part, ItemList, V
  <2>2. \A j \in DOMAIN items[n] : items[n][j].type = "tx" =>
          \E x \in DOMAIN txidx' : txidx'[x].itemid = items[n][j].id
    BY <1>8, <2>1
  <2>3. items'[n] = items[n] \/ items'[n] = Append(items[n], e)
    BY <1>3 DEF Part
  <2>4. /\ Append(items[n], e) \in Seq(V)
        /\ \A j \in DOMAIN Append(items[n], e) :
             \/ j \in DOMAIN items[n] /\ Append(items[n], e)[j] = items[n][j]
             \/ Append(items[n], e)[j] = e
    <3>1. items[n] \in Seq(V) /\ e \in V /\ DOMAIN items[n] = 1..Len(items[n])
          /\ Len(items[n]) \in Nat
      BY <1>5, <2>1
    <3>2. /\ DOMAIN Append(items[n], e) = 1..(Len(items[n]) + 1)
          /\ Append(items[n], e)[Len(items[n]) + 1] = e
          /\ \A j \in 1..Len(items[n]) : Append(items[n], e)[j] = items[n][j]
      BY <3>1, AppendFacts
    <3>3. Append(items[n], e) \in Seq(V)
      BY <3>1
    <3>4. \A j \in 1..(Len(items[n]) + 1) : j = Len(items[n]) + 1 \/ j \in 1..Len(items[n])
      BY <3>1
    <3> QED BY <3>1, <3>2, <3>3, <3>4
  <2>5. V' = V
    BY <1>2, PartFile DEF V
  <2>6. /\ items'[n] \in Seq(V)
        /\ \A j \in DOMAIN items'[n] : items'[n][j].type = "tx" =>
             \E x \in DOMAIN txidx' : txidx'[x].itemid = items'[n][j].id
    <3>1. CASE items'[n] = items[n]
      BY <2>1, <2>2, <3>1
    <3>2. CASE items'[n] = Append(items[n], e)
      BY <1>9, <2>2, <2>4, <3>2
    <3> QED BY <2>3, <3>1, <3>2
  <2> QED BY <2>5, <2>6 DEF ItemList, V
<1>11. DOMAIN items' = 0..(Slots - 1)
  BY <1>3 DEF Part
<1>12. RX' = RX /\ TX' = TX
  BY <1>2, PartFile DEF RX, TX
<1>13. keys' \in [0..(Slots - 1) -> Seq({Flow[k] : k \in KeyPlaces}')]
  BY <1>2, <1>3, PartFile DEF Part
<1>14. \A i \in DOMAIN trie' : AskedFor(trie[i])'
  BY <1>2, <1>3, PartFile DEF Part
<1> QED BY <1>7, <1>10, <1>11, <1>12, <1>13, <1>14 DEF Part, RX, TX

LEMMA PartAddKey ==
  ASSUME IInv, Part, AddKey
  PROVE  Part'
<1> DEFINE V == {Flow[k] : k \in KeyPlaces}
<1>1. /\ At("keys") /\ Here.ok
      /\ items' = items /\ rxidx' = rxidx /\ txidx' = txidx /\ trie' = trie
  BY DEF AddKey
<1>2. Here = Flow[pos] /\ pos \in KeyPlaces
  BY <1>1, KeysStep
<1>3. file' = file /\ (keys' = keys \/ keys' = [keys EXCEPT ![Slot(item)] = Append(@, Here)])
  BY DEF AddKey, NextNode
<1>4. keys \in [0..(Slots - 1) -> Seq(V)] /\ Here \in V
  BY <1>2 DEF Part
<1> HIDE DEF V
<1>5. keys' \in [0..(Slots - 1) -> Seq(V)]
  <2>1. \A l \in Seq(V) : Append(l, Here) \in Seq(V)
    BY <1>4
  <2> QED BY <1>3, <1>4, <2>1
<1>6. V' = V
  BY <1>3, PartFile DEF V
<1>7. \A n \in 0..(Slots - 1) : ItemList(items[n])'
  <2>1. file' = file /\ \A n \in 0..(Slots - 1) : ItemList(items[n])
    BY <1>3 DEF Part
  <2>2. Capmode' = Capmode /\ ItemPlaces' = ItemPlaces
    BY <2>1, PartFile
  <2> QED BY <1>1, <2>1, <2>2 DEF ItemList
<1> QED BY <1>1, <1>3, <1>5, <1>6, <1>7, PartFile DEF Part, V

(* A pattern goes to the port of the first index entry with the key's id,  *)
(* and there is one, as the item find_item has found is in its slot.       *)
LEMMA PartBuildKey ==
  ASSUME IInv, Part, BuildKey
  PROVE  Part'
<1> DEFINE k    == keys[slot][pos]
           new  == [text |-> k.text, itemid |-> k.id, idx |-> FindPort(k)]
           l    == items[Slot(k.id)]
           hits == {i \in DOMAIN l : l[i].id = k.id}
           at   == {i \in DOMAIN txidx : txidx[i].itemid = k.id /\ txidx[i].to}
<1>1. /\ pc = "build" /\ slot < Slots /\ pos <= Len(keys[slot])
      /\ file' = file /\ UNCHANGED lists
      /\ trie' = IF k.text = Empty \/ FindItem(k) = NULL THEN trie
                 ELSE IF FindItem(k).type = "rx" THEN trie
                 ELSE TrieAdd(k)
  BY DEF BuildKey
<1>2. CASE trie' = trie
  BY <1>1, <1>2, PartSame
<1>3. CASE trie' = Append(trie, new) /\ FindItem(k) # NULL /\ FindItem(k).type # "rx"
  <2>1. file \in Files /\ slot \in 0..(Slots - 1) /\ pos \in Nat /\ pos # 0
    BY <1>1, ConfigAssumption DEF IInv, Walk
  <2>2. PICK q \in KeyPlaces : k = Flow[q]
    <3>1. keys[slot] \in Seq({Flow[j] : j \in KeyPlaces})
      BY <2>1 DEF Part
    <3>2. pos \in 1..Len(keys[slot])
      BY <1>1, <2>1, <3>1
    <3>3. keys[slot][pos] \in {Flow[j] : j \in KeyPlaces}
      BY <3>1, <3>2
    <3> QED BY <3>3
  <2>3. k.id \in Int
    BY <2>1, <2>2, PlaceFacts
  <2>4. ItemList(l)
    BY <2>3, SlotFacts DEF Part
  <2>5. hits # {} /\ FindItem(k) = l[Min(hits)]
    BY <1>3 DEF FindItem
  <2>6. Min(hits) \in DOMAIN l /\ l[Min(hits)].id = k.id
    <3>1. hits \in SUBSET Nat
      <4>1. l \in Seq({Capmode[i] : i \in ItemPlaces})
        BY <2>4 DEF ItemList
      <4> HIDE DEF l
      <4> QED BY <4>1
    <3>2. Min(hits) \in hits
      <4> HIDE DEF hits
      <4> QED BY <2>5, <3>1, MinFacts
    <3> QED BY <3>2
  <2>7. PICK x \in DOMAIN txidx : txidx[x].itemid = k.id
    <3>1. PICK i \in ItemPlaces : l[Min(hits)] = Capmode[i]
      <4>1. l \in Seq({Capmode[i] : i \in ItemPlaces})
        BY <2>4 DEF ItemList
      <4> HIDE DEF l, hits
      <4>2. l[Min(hits)] \in {Capmode[i] : i \in ItemPlaces}
        BY <2>6, <4>1
      <4> QED BY <4>2
    <3>2. l[Min(hits)].type = "tx"
      BY <1>3, <2>1, <2>5, <3>1, PlaceFacts
    <3> HIDE DEF l, hits
    <3> QED BY <2>4, <2>6, <3>2 DEF ItemList
  <2>8. ASSUME NEW y \in DOMAIN txidx
        PROVE  \E i \in OfType("tx") : txidx[y] = Entries[i]
    <3>1. txidx \in Seq({Entries[i] : i \in OfType("tx")})
      BY DEF Part
    <3>2. txidx[y] \in {Entries[i] : i \in OfType("tx")}
      BY <3>1
    <3> QED BY <3>2
  <2>9. \A i \in OfType("tx") : /\ Entries[i].itemid = Capmode[i].id /\ Entries[i].to
                                /\ Entries[i].idx = AttachSelf(Capmode[i].name)
    BY DEF Entries, OfType
  <2>10. at # {} /\ Min(at) \in at
    <3>1. x \in at
      BY <2>7, <2>8, <2>9
    <3>2. at \in SUBSET Nat
      <4>1. txidx \in Seq({Entries[i] : i \in OfType("tx")})
        BY DEF Part
      <4> QED BY <4>1
    <3> HIDE DEF at
    <3> QED BY <3>1, <3>2, MinFacts
  <2>11. PICK i \in OfType("tx") : txidx[Min(at)] = Entries[i]
    BY <2>8, <2>10
  <2>12. Capmode[i].id = k.id /\ FindPort(k) = AttachSelf(Capmode[i].name)
    <3>1. FindPort(k) = txidx[Min(at)].idx
      BY <2>10 DEF FindPort
    <3>2. txidx[Min(at)].itemid = k.id
      BY <2>10
    <3> HIDE DEF at
    <3> QED BY <2>9, <2>11, <3>1, <3>2
  <2>13. AskedFor(new)
    <3>1. i \in PlacesOf(Flow[q].id)
      BY <2>2, <2>12 DEF PlacesOf, OfType
    <3>2. new.text = Flow[q].text /\ new.idx = AttachSelf(Capmode[i].name)
      BY <2>2, <2>12
    <3> HIDE DEF new
    <3> QED BY <3>1, <3>2 DEF AskedFor
  <2> HIDE DEF new
  <2>14. \A j \in DOMAIN trie' : AskedFor(trie'[j])
    <3>1. trie \in Seq(Range(trie)) /\ DOMAIN trie = 1..Len(trie) /\ Len(trie) \in Nat
      BY DEF IInv, Unique
    <3>2. /\ DOMAIN Append(trie, new) = 1..(Len(trie) + 1) /\ Append(trie, new)[Len(trie) + 1] = new
          /\ \A j \in 1..Len(trie) : Append(trie, new)[j] = trie[j]
      BY <3>1, AppendFacts
    <3>3. \A j \in DOMAIN trie' : j = Len(trie) + 1 \/ j \in DOMAIN trie
      BY <1>3, <3>1, <3>2
    <3> QED BY <1>3, <2>13, <3>1, <3>2, <3>3 DEF Part
  <2>15. rxidx' = rxidx /\ txidx' = txidx /\ items' = items /\ keys' = keys
    BY <1>1 DEF lists
  <2>16. \A n \in 0..(Slots - 1) : ItemList(items[n])'
    BY <1>1, <2>15, PartFile DEF Part, ItemList
  <2>17. \A j \in DOMAIN trie' : AskedFor(trie[j])'
    BY <1>1, <2>14, PartFile
  <2> QED BY <1>1, <2>15, <2>16, <2>17, PartFile DEF Part
<1>4. \/ trie' = trie
      \/ trie' = Append(trie, new) /\ FindItem(k) # NULL /\ FindItem(k).type # "rx"
  BY <1>1 DEF TrieAdd
<1> QED BY <1>2, <1>3, <1>4

LEMMA PartNext ==
  ASSUME IInv, Part, [Next]_vars
  PROVE  Part'
<1>1. CASE UNCHANGED vars
  BY <1>1, PartSame DEF vars
<1>2. CASE Load \/ SkipItem \/ ItemNoMemory \/ IdxNoMemory \/ IdxOverrun \/ ItemsDone
           \/ SkipKey \/ KeysDone \/ NextSlot \/ KeysBuilt \/ FirstUse
  <2>1. file' = file /\ UNCHANGED <<lists, trie>>
    BY <1>2 DEF Load, SkipItem, ItemNoMemory, IdxNoMemory, IdxOverrun, ItemsDone, SkipKey,
                KeysDone, NextSlot, KeysBuilt, FirstUse, NextNode
  <2> QED BY <2>1, PartSame
<1> QED BY <1>1, <1>2, PartAddItem, PartAddKey, PartBuildKey DEF Next

-------------------------------------------------------------------------------
(* The theorems                                                            *)

LEMMA NextInv ==
  ASSUME IInv, [Next]_vars
  PROVE  IInv'
<1>1. CASE Next
  BY <1>1, LoadInv, SkipItemInv, AddItemInv, OverrunInv, ItemsDoneInv, SkipKeyInv, AddKeyInv,
     KeysDoneInv, BuildKeyInv, NextSlotInv, KeysBuiltInv, FirstUseInv DEF Next
<1>2. CASE vars' = vars
  <2>1. /\ file' = file /\ tree' = tree /\ pc' = pc /\ pos' = pos /\ slot' = slot
        /\ UNCHANGED <<item, lists, trie>>
    BY <1>2 DEF vars
  <2>2. ItemPlaces' = ItemPlaces /\ KeyPlaces' = KeyPlaces /\ Plain' = Plain
        /\ Capmode' = Capmode /\ Flow' = Flow
    BY <2>1, SameFile
  <2>3. ItemsSeen' = ItemsSeen /\ KeysSeen' = KeysSeen /\ Done' = Done
    BY <2>1, <2>2 DEF ItemsSeen, KeysSeen, Done
  <2>4. Kept => Kept'
    BY <2>1, <2>3, SameKept
  <2>5. Walk' /\ Unique'
    BY <2>1, <2>2 DEF IInv, Walk, Unique
  <2> QED BY <2>1, <2>2, <2>4, <2>5 DEF IInv
<1> QED BY <1>1, <1>2

LEMMA Inductive == Spec => [](IInv /\ Part)
<1>1. IInv /\ Part /\ [Next]_vars => (IInv /\ Part)'
  BY NextInv, PartNext
<1> QED BY <1>1, InitInv, PartInit, PTL DEF Spec

(* The table of a program that runs is the one the file asks for, without  *)
(* the texts the matcher cannot hold and with no text twice; with memory   *)
(* short what is in it is asked for by the file; and a file with items of  *)
(* each type, not more than the index lists hold, comes to run when memory *)
(* lasts: load and build of flow_config_parser.c keep what UAFlow.conf     *)
(* says, although a key is filed by the item before it and found by its    *)
(* own id.                                                                 *)
THEOREM RoutingTable == Spec => []TableRight
<1>1. IInv /\ Part => TableRight
  <2> SUFFICES ASSUME IInv, Part PROVE TableRight
    OBVIOUS
  <2> DEFINE table == {<<trie[i].text, trie[i].idx>> : i \in DOMAIN trie}
  <2>1. ASSUME pc = "run", ~file.tight
        PROVE  table = Wanted
    <3>1. TableKept /\ Done = KeyPlaces
      BY <2>1 DEF IInv, Kept, Done
    <3>2. ASSUME NEW i \in DOMAIN trie
          PROVE  <<trie[i].text, trie[i].idx>> \in Wanted
      BY <3>1 DEF TableKept, Wanted
    <3>3. ASSUME NEW k \in WantedKeys
          PROVE  <<Flow[k].text, AttachSelf(ItemOf(Flow[k].id).name)>> \in table
      <4>1. k \in KeyPlaces /\ Routed(k)
        BY DEF WantedKeys
      <4>2. PICK i \in DOMAIN trie : trie[i].text = Flow[k].text
        BY <3>1, <4>1 DEF TableKept
      <4>3. PICK q \in WantedKeys :
              trie[i].text = Flow[q].text /\ trie[i].idx = AttachSelf(ItemOf(Flow[q].id).name)
        BY <3>1 DEF TableKept
      <4>4. q = k
        <5>1. q \in Nat /\ k \in Nat
          BY PlaceFacts DEF IInv, Walk, WantedKeys
        <5>2. ~(q < k) /\ ~(k < q)
          BY <4>2, <4>3 DEF WantedKeys
        <5> QED BY <5>1, <5>2
      <4> QED BY <4>2, <4>3, <4>4
    <3> HIDE DEF table
    <3>4. \A x \in table : x \in Wanted
      BY <3>2 DEF table
    <3>5. \A x \in Wanted : x \in table
      BY <3>3 DEF Wanted
    <3> QED BY <3>4, <3>5
  <2>2. \A i, j \in DOMAIN trie : trie[i].text = trie[j].text => i = j
    BY DEF IInv, Unique
  <2>3. ~file.tight /\ (\A t \in {"rx", "tx"} : Cardinality(OfType(t)) \in 1..IdxSlots)
          => pc \notin {"crash", "undefined"}
    BY DEF IInv, Plain
  <2>4. \A i \in DOMAIN trie : <<trie[i].text, trie[i].idx>> \in Asked
    <3> TAKE i \in DOMAIN trie
    <3>1. PICK k \in KeyPlaces : \E j \in PlacesOf(Flow[k].id) \cap OfType("tx") :
            trie[i].text = Flow[k].text /\ trie[i].idx = AttachSelf(Capmode[j].name)
      BY DEF Part, AskedFor
    <3>2. <<trie[i].text, trie[i].idx>> \in
            {<<Flow[k].text, AttachSelf(Capmode[j].name)>> :
               j \in PlacesOf(Flow[k].id) \cap OfType("tx")}
      BY <3>1
    <3> QED BY <3>2 DEF Asked
  <2>5. table \subseteq Asked
    BY <2>4
  <2> QED BY <2>1, <2>2, <2>3, <2>5 DEF TableRight
<1> QED BY <1>1, Inductive, PTL

(* Once the items are loaded the index lists are the items of each type in *)
(* the file's order, each bound to the port of its name, also when two     *)
(* items share an id: flow_config_parser.c binds the first unbound entry   *)
(* of the id, and there is never more than one.  With memory short there   *)
(* are fewer of them, but none that is not an item's.                      *)
THEOREM IndexLists == Spec => []IdxLists
<1>1. IInv /\ Part => IdxLists
  <2> SUFFICES ASSUME IInv, Part PROVE IdxLists
    OBVIOUS
  <2> DEFINE Fits(entry, i) ==
        entry.itemid = Capmode[i].id /\ MayStandFor(entry.idx, Capmode[i].name)
  <2>1. file \in Files /\ \A t : OfType(t) \subseteq ItemPlaces
    BY DEF IInv, Walk, OfType
  <2>2. \A i \in ItemPlaces : Fits(Entries[i], i)
    BY <2>1, PlaceFacts, AttachFacts DEF Entries
  <2> HIDE DEF Fits
  <2>3. ASSUME NEW l, NEW t, l \in Seq({Entries[i] : i \in OfType(t)})
        PROVE  \A j \in DOMAIN l : \E i \in OfType(t) : Fits(l[j], i)
    <3> TAKE j \in DOMAIN l
    <3>1. l[j] \in {Entries[i] : i \in OfType(t)}
      BY <2>3
    <3> QED BY <2>1, <2>2, <3>1
  <2>4. ASSUME ~file.tight, pc \in {"keys", "build", "start", "run"}
        PROVE  /\ Ordered(rxidx, OfType("rx"), Entries)
               /\ Ordered(txidx, OfType("tx"), Entries)
    <3>1. ItemsSeen = ItemPlaces /\ IdxKept
      BY <2>4 DEF ItemsSeen, IInv, Kept
    <3>2. \A t : {i \in ItemsSeen : Capmode[i].type = t} = OfType(t)
      BY <3>1 DEF OfType
    <3> QED BY <3>1, <3>2 DEF IdxKept
  <2>5. ASSUME NEW l, NEW t, Ordered(l, OfType(t), Entries)
        PROVE  /\ Len(l) = Cardinality(OfType(t))
               /\ \A i \in OfType(t) : Fits(l[Rank(OfType(t), i)], i)
    BY <2>1, <2>2, <2>5 DEF Ordered
  <2>6. /\ \A j \in DOMAIN rxidx : \E i \in OfType("rx") : Fits(rxidx[j], i)
        /\ \A j \in DOMAIN txidx : \E i \in OfType("tx") : Fits(txidx[j], i)
    BY <2>3 DEF Part
  <2> QED BY <2>4, <2>5, <2>6 DEF IdxLists, Fits
<1> QED BY <1>1, Inductive, PTL
===============================================================================
