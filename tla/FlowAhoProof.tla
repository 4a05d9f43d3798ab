----------------------------- MODULE FlowAhoProof ------------------------------
(***************************************************************************)
(* Proofs about FlowAho: whatever the patterns and the texts, the search   *)
(* never leaves behind a longer beginning of a pattern than the one it is  *)
(* in, so that it loses no match, and it answers with the first place      *)
(* where a pattern ends and all the patterns that end there.               *)
(***************************************************************************)
EXTENDS FlowAho, FiniteSetTheorems, NaturalsInduction, WellFoundedInduction, TLAPS

-------------------------------------------------------------------------------
(* Suffixes                                                                *)

LEMMA SuffixAt ==
  ASSUME NEW S, NEW s \in Seq(S), NEW w \in Seq(S)
  PROVE  IsSuffixOf(s, w) <=>
           /\ Len(s) <= Len(w)
           /\ \A i \in 1..Len(s) : s[i] = w[Len(w) - Len(s) + i]
<1>1. Len(s) \in Nat /\ Len(w) \in Nat
  OBVIOUS
<1>2. ASSUME Len(s) <= Len(w)
      PROVE  /\ SubSeq(w, Len(w) - Len(s) + 1, Len(w)) \in Seq(S)
             /\ Len(SubSeq(w, Len(w) - Len(s) + 1, Len(w))) = Len(s)
             /\ \A i \in 1..Len(s) :
                  SubSeq(w, Len(w) - Len(s) + 1, Len(w))[i] = w[Len(w) - Len(s) + i]
  BY <1>1, <1>2
<1>3. ASSUME NEW t \in Seq(S), Len(t) = Len(s), \A i \in 1..Len(s) : t[i] = s[i]
      PROVE  t = s
  BY <1>3
<1> QED
  BY <1>1, <1>2, <1>3 DEF IsSuffixOf

LEMMA SuffixTrans ==
  ASSUME NEW S, NEW r \in Seq(S), NEW s \in Seq(S), NEW w \in Seq(S),
         IsSuffixOf(r, s), IsSuffixOf(s, w)
  PROVE  IsSuffixOf(r, w)
<1>1. Len(r) \in Nat /\ Len(s) \in Nat /\ Len(w) \in Nat
  OBVIOUS
<1>2. Len(r) <= Len(s) /\ Len(s) <= Len(w)
  BY SuffixAt
<1>3. ASSUME NEW i \in 1..Len(r)
      PROVE  r[i] = w[Len(w) - Len(r) + i]
  <2>1. r[i] = s[Len(s) - Len(r) + i]
    BY SuffixAt
  <2>2. Len(s) - Len(r) + i \in 1..Len(s)
    BY <1>1, <1>2
  <2>3. s[Len(s) - Len(r) + i] = w[Len(w) - Len(s) + (Len(s) - Len(r) + i)]
    BY <2>2, SuffixAt
  <2>4. Len(w) - Len(s) + (Len(s) - Len(r) + i) = Len(w) - Len(r) + i
    BY <1>1
  <2> QED BY <2>1, <2>3, <2>4
<1> QED BY <1>1, <1>2, <1>3, SuffixAt

(* Of two suffixes of one word the shorter is a suffix of the longer.      *)
LEMMA SuffixNest ==
  ASSUME NEW S, NEW r \in Seq(S), NEW s \in Seq(S), NEW w \in Seq(S),
         IsSuffixOf(r, w), IsSuffixOf(s, w), Len(r) <= Len(s)
  PROVE  IsSuffixOf(r, s)
<1>1. Len(r) \in Nat /\ Len(s) \in Nat /\ Len(w) \in Nat
  OBVIOUS
<1>2. Len(r) <= Len(w) /\ Len(s) <= Len(w)
  BY SuffixAt
<1>3. ASSUME NEW i \in 1..Len(r)
      PROVE  r[i] = s[Len(s) - Len(r) + i]
  <2>1. r[i] = w[Len(w) - Len(r) + i]
    BY SuffixAt
  <2>2. Len(s) - Len(r) + i \in 1..Len(s)
    BY <1>1
  <2>3. s[Len(s) - Len(r) + i] = w[Len(w) - Len(s) + (Len(s) - Len(r) + i)]
    BY <2>2, SuffixAt
  <2>4. Len(w) - Len(s) + (Len(s) - Len(r) + i) = Len(w) - Len(r) + i
    BY <1>1
  <2> QED BY <2>1, <2>3, <2>4
<1> QED BY <1>1, <1>2, <1>3, SuffixAt

LEMMA SuffixNone ==
  ASSUME NEW S, NEW w \in Seq(S)
  PROVE  IsSuffixOf(<< >>, w)
<1>1. << >> \in Seq(S) /\ Len(<< >>) = 0
  OBVIOUS
<1>2. 0 <= Len(w) /\ 1..0 = {}
  OBVIOUS
<1> QED BY <1>1, <1>2, SuffixAt

LEMMA SuffixSame ==
  ASSUME NEW S, NEW s \in Seq(S), NEW w \in Seq(S), IsSuffixOf(s, w), Len(s) = Len(w)
  PROVE  s = w
<1>1. Len(s) \in Nat
  OBVIOUS
<1>2. \A i \in 1..Len(s) : s[i] = w[i]
  BY <1>1, SuffixAt
<1> QED BY <1>2

LEMMA FrontFacts ==
  ASSUME NEW S, NEW s \in Seq(S), NEW k \in 0..Len(s)
  PROVE  /\ SubSeq(s, 1, k) \in Seq(S) /\ Len(SubSeq(s, 1, k)) = k
         /\ \A i \in 1..k : SubSeq(s, 1, k)[i] = s[i]
<1>1. k \in Nat /\ Len(s) \in Nat /\ k <= Len(s)
  OBVIOUS
<1>2. SubSeq(s, 1, k) = [i \in 1..k |-> s[i]]
  BY <1>1
<1> QED BY <1>1, <1>2

(* The suffixes of a word that grew by one letter.                         *)
LEMMA SuffixGrown ==
  ASSUME NEW S, NEW w \in Seq(S), NEW c \in S, NEW s \in Seq(S),
         IsSuffixOf(s, Append(w, c)), s # << >>
  PROVE  \E r \in Seq(S) :
           /\ s = Append(r, c) /\ r = SubSeq(s, 1, Len(s) - 1)
           /\ IsSuffixOf(r, w)
<1> DEFINE v == Append(w, c)
           r == SubSeq(s, 1, Len(s) - 1)
<1>1. /\ Len(s) \in Nat /\ Len(w) \in Nat
      /\ v \in Seq(S) /\ Len(v) = Len(w) + 1
      /\ \A i \in 1..Len(w) : v[i] = w[i]
      /\ v[Len(w) + 1] = c
  OBVIOUS
<1>0. Len(s) >= 1
  <2>1. Len(s) # 0
    OBVIOUS
  <2> QED BY <2>1, <1>1
<1>2. /\ r \in Seq(S) /\ Len(r) = Len(s) - 1
      /\ \A i \in 1..(Len(s) - 1) : r[i] = s[i]
  <2>1. Len(s) - 1 \in 0..Len(s)
    BY <1>0, <1>1
  <2> QED BY <2>1, FrontFacts
<1> HIDE DEF r, v
<1>3. Len(s) <= Len(w) + 1 /\ \A i \in 1..Len(s) : s[i] = v[Len(w) + 1 - Len(s) + i]
  <2>1. IsSuffixOf(s, v)
    BY DEF v
  <2>2. Len(s) <= Len(v) /\ \A i \in 1..Len(s) : s[i] = v[Len(v) - Len(s) + i]
    BY <1>1, <2>1, SuffixAt
  <2> QED BY <2>2, <1>1
<1>4. s[Len(s)] = c
  <2>1. Len(s) \in 1..Len(s) /\ Len(w) + 1 - Len(s) + Len(s) = Len(w) + 1
    BY <1>0, <1>1
  <2> QED BY <2>1, <1>1, <1>3
<1>5. s = Append(r, c)
  <2>1. Append(r, c) \in Seq(S) /\ Len(Append(r, c)) = Len(s)
    BY <1>1, <1>2
  <2>2. \A i \in 1..Len(s) : Append(r, c)[i] = s[i]
    BY <1>0, <1>1, <1>2, <1>4
  <2> QED BY <2>1, <2>2
<1>6. IsSuffixOf(r, w)
  <2>1. ASSUME NEW i \in 1..Len(r)
        PROVE  r[i] = w[Len(w) - Len(r) + i]
    <3>1. i \in 1..Len(s) /\ r[i] = s[i]
      BY <1>1, <1>2
    <3>2. Len(w) + 1 - Len(s) + i = Len(w) - Len(r) + i /\ Len(w) - Len(r) + i \in 1..Len(w)
      BY <1>1, <1>2, <1>3
    <3> QED BY <3>1, <3>2, <1>1, <1>3
  <2>2. Len(r) <= Len(w)
    BY <1>1, <1>2, <1>3
  <2> QED BY <1>2, <2>1, <2>2, SuffixAt
<1> QED BY <1>2, <1>5, <1>6 DEF r

LEMMA SuffixGrows ==
  ASSUME NEW S, NEW w \in Seq(S), NEW c \in S, NEW s \in Seq(S), IsSuffixOf(s, w)
  PROVE  IsSuffixOf(Append(s, c), Append(w, c))
<1> DEFINE v == Append(w, c)
           t == Append(s, c)
<1>1. /\ Len(s) \in Nat /\ Len(w) \in Nat
      /\ v \in Seq(S) /\ Len(v) = Len(w) + 1
      /\ \A i \in 1..Len(w) : v[i] = w[i]
      /\ v[Len(w) + 1] = c
  OBVIOUS
<1>2. /\ t \in Seq(S) /\ Len(t) = Len(s) + 1
      /\ \A i \in 1..Len(s) : t[i] = s[i]
      /\ t[Len(s) + 1] = c
  OBVIOUS
<1> HIDE DEF t, v
<1>3. Len(s) <= Len(w) /\ \A i \in 1..Len(s) : s[i] = w[Len(w) - Len(s) + i]
  BY SuffixAt
<1>4. ASSUME NEW i \in 1..Len(t)
      PROVE  t[i] = v[Len(v) - Len(t) + i]
  <2>1. Len(v) - Len(t) + i = Len(w) - Len(s) + i
    BY <1>1, <1>2
  <2>2. CASE i = Len(s) + 1
    <3>1. Len(w) - Len(s) + i = Len(w) + 1
      BY <2>2, <1>1
    <3> QED BY <2>1, <2>2, <3>1, <1>1, <1>2
  <2>3. CASE i \in 1..Len(s)
    <3>1. Len(w) - Len(s) + i \in 1..Len(w)
      BY <2>3, <1>1, <1>3
    <3> QED BY <2>1, <2>3, <3>1, <1>1, <1>2, <1>3
  <2> QED BY <1>1, <1>2, <2>2, <2>3
<1>5. Len(t) <= Len(v)
  BY <1>1, <1>2, <1>3
<1>6. IsSuffixOf(t, v)
  BY <1>1, <1>2, <1>4, <1>5, SuffixAt
<1> QED BY <1>6 DEF t, v

(* A proper suffix, as SubSeq yields it.                                   *)
LEMMA ProperFacts ==
  ASSUME NEW S, NEW n \in Seq(S), NEW s \in Seq(S)
  PROVE  s \in ProperSuffixes(n) <=> s # << >> /\ Len(s) < Len(n) /\ IsSuffixOf(s, n)
<1>1. Len(n) \in Nat /\ Len(s) \in Nat
  OBVIOUS
<1>2. ASSUME NEW i \in 1..(Len(n) - 1), s = SubSeq(n, i + 1, Len(n))
      PROVE  s # << >> /\ Len(s) < Len(n) /\ IsSuffixOf(s, n)
  <2>1. Len(s) = Len(n) - i
    BY <1>1, <1>2
  <2>2. i + 1 = Len(n) - Len(s) + 1 /\ Len(s) < Len(n) /\ Len(s) # 0
    BY <1>1, <2>1
  <2>3. SubSeq(n, Len(n) - Len(s) + 1, Len(n)) = s
    BY <1>2, <2>2
  <2>4. Len(s) <= Len(n)
    BY <1>1, <2>2
  <2> QED BY <2>2, <2>3, <2>4 DEF IsSuffixOf
<1>3. ASSUME s # << >>, Len(s) < Len(n), IsSuffixOf(s, n)
      PROVE  \E i \in 1..(Len(n) - 1) : s = SubSeq(n, i + 1, Len(n))
  <2>1. Len(s) # 0
    BY <1>3
  <2>2. Len(n) - Len(s) \in 1..(Len(n) - 1)
    BY <1>1, <1>3, <2>1
  <2> QED BY <1>3, <2>2 DEF IsSuffixOf
<1> QED BY <1>2, <1>3 DEF ProperSuffixes

-------------------------------------------------------------------------------
(* Failure nodes                                                           *)

(* The nodes are words, with the root, and with a word its beginnings.     *)
Trie ==
  /\ nodes \subseteq Seq(Letter) /\ Root \in nodes
  /\ \A n \in nodes : n # Root => SubSeq(n, 1, Len(n) - 1) \in nodes

(* A set of words with an element and a bound on the lengths has a longest. *)
LEMMA Longest ==
  ASSUME NEW k \in Nat, NEW W \in SUBSET Seq(Letter), W # {}, \A w \in W : Len(w) <= k
  PROVE  \E s \in W : \A r \in W : Len(r) <= Len(s)
<1> DEFINE T == {k - Len(w) : w \in W}
           R == OpToRel(<, Nat)
<1>1. IsWellFoundedOn(R, Nat)
  BY NatLessThanWellFounded
<1>2. T \subseteq Nat /\ T # {}
  <2>1. \A w \in W : Len(w) \in Nat /\ k - Len(w) \in Nat
    OBVIOUS
  <2> QED BY <2>1
<1>3. PICK t \in T : \A y \in T : ~(<<y, t>> \in R)
  <2> HIDE DEF T, R
  <2> QED BY <1>1, <1>2, WFMin
<1>4. \A y \in T : ~(y < t)
  BY <1>2, <1>3 DEF OpToRel
<1>5. PICK s \in W : t = k - Len(s)
  OBVIOUS
<1>6. ASSUME NEW r \in W PROVE Len(r) <= Len(s)
  <2>1. ~(k - Len(r) < k - Len(s))
    BY <1>4, <1>5
  <2>2. Len(r) \in Nat /\ Len(s) \in Nat
    OBVIOUS
  <2> QED BY <2>1, <2>2
<1> QED BY <1>6

(* A failure node is the longest node that is a proper suffix.             *)
LEMMA FailureFacts ==
  ASSUME Trie, NEW n \in nodes, n # Root
  PROVE  /\ FailureNode(n) \in nodes
         /\ IsSuffixOf(FailureNode(n), n) /\ Len(FailureNode(n)) < Len(n)
         /\ \A s \in nodes : IsSuffixOf(s, n) /\ Len(s) < Len(n) => Len(s) <= Len(FailureNode(n))
<1> DEFINE found == ProperSuffixes(n) \cap nodes
<1>1. n \in Seq(Letter) /\ nodes \subseteq Seq(Letter) /\ Len(n) \in Nat
  BY DEF Trie
<1>2. \A s \in nodes : s \in found <=> s # << >> /\ Len(s) < Len(n) /\ IsSuffixOf(s, n)
  BY <1>1, ProperFacts
<1>3. \A s \in nodes : Len(s) \in Nat /\ (Len(s) = 0 <=> s = << >>)
  BY <1>1
<1> HIDE DEF found
<1>4. CASE found = {}
  <2>1. FailureNode(n) = << >>
    BY <1>4 DEF FailureNode, Root, found
  <2>2. IsSuffixOf(<< >>, n)
    BY <1>1, SuffixNone
  <2>3. << >> \in nodes /\ Len(<< >>) = 0
    BY DEF Trie, Root
  <2>4. \A s \in nodes : IsSuffixOf(s, n) /\ Len(s) < Len(n) => s = << >>
    BY <1>2, <1>4
  <2>5. Len(n) # 0
    BY <1>1 DEF Root
  <2> QED BY <1>1, <2>1, <2>2, <2>3, <2>4, <2>5
<1>5. CASE found # {}
  <2>1. \E s \in found : \A r \in found : Len(r) <= Len(s)
    <3>1. found \in SUBSET Seq(Letter) /\ \A w \in found : Len(w) <= Len(n)
      <4>1. found \subseteq nodes
        BY DEF found
      <4> QED BY <1>1, <1>2, <1>3, <4>1
    <3> QED BY <1>1, <1>5, <3>1, Longest
  <2>2. FailureNode(n) \in found /\ \A r \in found : Len(r) <= Len(FailureNode(n))
    BY <1>5, <2>1 DEF FailureNode, found
  <2>3. found \subseteq nodes
    BY DEF found
  <2>4. ASSUME NEW s \in nodes, IsSuffixOf(s, n), Len(s) < Len(n)
        PROVE  Len(s) <= Len(FailureNode(n))
    <3>1. CASE s = << >>
      BY <1>3, <2>2, <2>3, <3>1
    <3>2. CASE s # << >>
      BY <1>2, <2>2, <2>4, <3>2
    <3> QED BY <3>1, <3>2
  <2> QED BY <1>2, <2>2, <2>3, <2>4
<1> QED BY <1>4, <1>5

-------------------------------------------------------------------------------
(* The search                                                              *)

(* Node n is what a search that has read p characters should be in.        *)
LongestAt(n, p) ==
  LET read == SubSeq(text, 1, p) IN
  /\ IsSuffixOf(n, read)
  /\ \A m \in nodes :
       IsSuffixOf(m, read) /\ Len(m) > Len(n)
         => p < Len(text) /\ Append(m, text[p + 1]) \notin nodes

LEMMA ReadOn ==
  ASSUME NEW t \in Seq(Letter), NEW p \in Nat, p < Len(t)
  PROVE  /\ SubSeq(t, 1, p) \in Seq(Letter)
         /\ t[p + 1] \in Letter
         /\ SubSeq(t, 1, p + 1) = Append(SubSeq(t, 1, p), t[p + 1])
<1>1. Len(t) \in Nat /\ p + 1 \in 1..Len(t) /\ p \in 0..Len(t) /\ p + 1 \in 0..Len(t)
  OBVIOUS
<1>2. t[p + 1] \in Letter
  BY <1>1
<1> DEFINE a == SubSeq(t, 1, p)
           b == SubSeq(t, 1, p + 1)
<1>3. a \in Seq(Letter) /\ Len(a) = p /\ \A i \in 1..p : a[i] = t[i]
  BY <1>1, FrontFacts
<1>4. b \in Seq(Letter) /\ Len(b) = p + 1 /\ \A i \in 1..(p + 1) : b[i] = t[i]
  BY <1>1, FrontFacts
<1> HIDE DEF a, b
<1>5. /\ Append(a, t[p + 1]) \in Seq(Letter) /\ Len(Append(a, t[p + 1])) = p + 1
      /\ \A i \in 1..(p + 1) : Append(a, t[p + 1])[i] = t[i]
  BY <1>2, <1>3
<1>6. b = Append(a, t[p + 1])
  BY <1>4, <1>5
<1> QED BY <1>2, <1>3, <1>6 DEF a, b

(* A node that is continued in the text, longer or shorter than n.         *)
LEMMA Continued ==
  ASSUME Trie, text \in Seq(Letter), NEW p \in Nat, p < Len(text),
         NEW m \in nodes, m # Root, IsSuffixOf(m, SubSeq(text, 1, p + 1))
  PROVE  \E r \in nodes :
           /\ m = Append(r, text[p + 1]) /\ Len(m) = Len(r) + 1
           /\ IsSuffixOf(r, SubSeq(text, 1, p))
<1>1. m \in Seq(Letter) /\ SubSeq(m, 1, Len(m) - 1) \in nodes
  BY DEF Trie
<1> DEFINE read == SubSeq(text, 1, p)
           c == text[p + 1]
<1>0. read \in Seq(Letter) /\ c \in Letter /\ IsSuffixOf(m, Append(read, c))
  BY ReadOn
<1>2. PICK r \in Seq(Letter) : /\ m = Append(r, c) /\ r = SubSeq(m, 1, Len(m) - 1)
                               /\ IsSuffixOf(r, read)
  <2> HIDE DEF read, c
  <2> QED BY <1>0, <1>1, SuffixGrown DEF Root
<1>3. Len(m) = Len(r) + 1
  BY <1>2, ReadOn
<1> QED BY <1>1, <1>2, <1>3

(* Along an edge.                                                          *)
LEMMA EdgeStep ==
  ASSUME Trie, text \in Seq(Letter), NEW p \in Nat, p < Len(text), NEW n \in nodes,
         LongestAt(n, p), Append(n, text[p + 1]) \in nodes
  PROVE  /\ LongestAt(Append(n, text[p + 1]), p + 1)
         /\ \A m \in nodes : IsSuffixOf(m, SubSeq(text, 1, p + 1))
                             => Len(m) <= Len(Append(n, text[p + 1]))
<1> DEFINE along == Append(n, text[p + 1])
<1>1. n \in Seq(Letter) /\ nodes \subseteq Seq(Letter)
  BY DEF Trie
<1>2. Len(along) = Len(n) + 1 /\ Len(n) \in Nat
  BY <1>1, ReadOn
<1>3. IsSuffixOf(along, SubSeq(text, 1, p + 1))
  <2> DEFINE read == SubSeq(text, 1, p)
             c == text[p + 1]
  <2>1. /\ read \in Seq(Letter) /\ c \in Letter /\ IsSuffixOf(n, read)
        /\ SubSeq(text, 1, p + 1) = Append(read, c)
    BY ReadOn DEF LongestAt
  <2>2. IsSuffixOf(Append(n, c), Append(read, c))
    <3> HIDE DEF read, c
    <3> QED BY <1>1, <2>1, SuffixGrows
  <2> QED BY <2>1, <2>2
<1>4. ASSUME NEW m \in nodes, IsSuffixOf(m, SubSeq(text, 1, p + 1)), Len(m) > Len(along)
      PROVE  FALSE
  <2>1. m # Root
    BY <1>2, <1>4 DEF Root
  <2>2. PICK r \in nodes : /\ m = Append(r, text[p + 1]) /\ Len(m) = Len(r) + 1
                           /\ IsSuffixOf(r, SubSeq(text, 1, p))
    BY <1>4, <2>1, Continued
  <2>3. Len(r) \in Nat
    BY <1>1
  <2>4. Len(r) > Len(n)
    BY <1>2, <1>4, <2>2, <2>3
  <2> QED BY <1>4, <2>2, <2>4 DEF LongestAt
<1>5. ASSUME NEW m \in nodes, IsSuffixOf(m, SubSeq(text, 1, p + 1))
      PROVE  Len(m) <= Len(along)
  <2>1. Len(m) \in Nat
    BY <1>1
  <2> QED BY <1>2, <1>4, <1>5, <2>1
<1> QED BY <1>3, <1>4, <1>5 DEF LongestAt

(* No edge, in the root.                                                   *)
LEMMA RootStep ==
  ASSUME Trie, text \in Seq(Letter), NEW p \in Nat, p < Len(text),
         LongestAt(Root, p), Append(Root, text[p + 1]) \notin nodes
  PROVE  /\ LongestAt(Root, p + 1)
         /\ \A m \in nodes : IsSuffixOf(m, SubSeq(text, 1, p + 1)) => m = Root
<1>1. Root \in Seq(Letter) /\ Len(Root) = 0 /\ nodes \subseteq Seq(Letter)
  BY DEF Trie, Root
<1>2. IsSuffixOf(Root, SubSeq(text, 1, p + 1))
  <2>1. SubSeq(text, 1, p + 1) \in Seq(Letter)
    BY ReadOn
  <2> QED BY <2>1, SuffixNone DEF Root
<1>3. ASSUME NEW m \in nodes, IsSuffixOf(m, SubSeq(text, 1, p + 1)), Len(m) > Len(Root)
      PROVE  FALSE
  <2>1. m # Root
    BY <1>1, <1>3
  <2>2. PICK r \in nodes : /\ m = Append(r, text[p + 1]) /\ Len(m) = Len(r) + 1
                           /\ IsSuffixOf(r, SubSeq(text, 1, p))
    BY <1>3, <2>1, Continued
  <2>3. r # Root
    BY <1>3, <2>2
  <2>4. Len(r) > Len(Root)
    <3>1. r \in Seq(Letter)
      BY <1>1
    <3> QED BY <1>1, <2>3, <3>1 DEF Root
  <2> QED BY <1>3, <2>2, <2>4 DEF LongestAt
<1>4. ASSUME NEW m \in nodes, IsSuffixOf(m, SubSeq(text, 1, p + 1))
      PROVE  m = Root
  <2>1. m \in Seq(Letter) /\ Len(m) \in Nat /\ (Len(m) = 0 <=> m = << >>)
    BY <1>1
  <2> QED BY <1>1, <1>3, <1>4, <2>1 DEF Root
<1> QED BY <1>2, <1>3, <1>4 DEF LongestAt

(* No edge: to the failure node.                                           *)
LEMMA FailureStep ==
  ASSUME Trie, text \in Seq(Letter), NEW p \in Nat, p < Len(text), NEW n \in nodes, n # Root,
         LongestAt(n, p), Append(n, text[p + 1]) \notin nodes
  PROVE  LongestAt(FailureNode(n), p)
<1> DEFINE f == FailureNode(n)
<1>1. f \in nodes /\ IsSuffixOf(f, n)
  BY FailureFacts
<1>2. n \in Seq(Letter) /\ nodes \subseteq Seq(Letter) /\ SubSeq(text, 1, p) \in Seq(Letter)
  BY ReadOn DEF Trie
<1>0. ASSUME NEW m \in nodes, IsSuffixOf(m, SubSeq(text, 1, p)), Len(m) <= Len(n)
      PROVE  IsSuffixOf(m, n)
  <2> DEFINE read == SubSeq(text, 1, p)
  <2>1. m \in Seq(Letter) /\ read \in Seq(Letter) /\ IsSuffixOf(n, read) /\ IsSuffixOf(m, read)
    BY <1>0, <1>2 DEF LongestAt
  <2> HIDE DEF read
  <2> QED BY <1>0, <1>2, <2>1, SuffixNest
<1> HIDE DEF f
<1>3. IsSuffixOf(f, SubSeq(text, 1, p))
  <2>1. IsSuffixOf(n, SubSeq(text, 1, p))
    BY DEF LongestAt
  <2>2. f \in Seq(Letter)
    BY <1>1, <1>2
  <2> QED BY <1>1, <1>2, <2>1, <2>2, SuffixTrans
<1>4. ASSUME NEW m \in nodes, IsSuffixOf(m, SubSeq(text, 1, p)), Len(m) > Len(f)
      PROVE  Append(m, text[p + 1]) \notin nodes
  <2>1. m \in Seq(Letter) /\ Len(m) \in Nat /\ Len(n) \in Nat
    BY <1>2
  <2>3. CASE Len(m) > Len(n)
    BY <1>4, <2>3 DEF LongestAt
  <2>4. CASE Len(m) = Len(n)
    <3>1. IsSuffixOf(m, n)
      BY <1>0, <1>4, <2>1, <2>4
    <3>2. m = n
      BY <1>2, <2>1, <2>4, <3>1, SuffixSame
    <3> QED BY <3>2
  <2>5. CASE Len(m) < Len(n)
    <3>1. IsSuffixOf(m, n)
      BY <1>0, <1>4, <2>1, <2>5
    <3>2. Len(m) <= Len(f)
      BY <2>5, <3>1, FailureFacts DEF f
    <3>3. Len(f) \in Nat
      BY <1>1, <1>2
    <3> QED BY <1>4, <2>1, <3>2, <3>3
  <2> QED BY <2>1, <2>3, <2>4, <2>5
<1> QED BY <1>3, <1>4 DEF LongestAt, f
-------------------------------------------------------------------------------
(* The inductive invariant.                                                *)

Searching ==
  /\ text \in Seq(Letter) /\ pos \in 0..Len(text) /\ position \in 0..Len(text)
  /\ current \in nodes /\ last_node \in nodes

(* What a search may be resumed from is as good as what it is in.          *)
IInv ==
  /\ Trie /\ Searching
  /\ pc # "add" => failure = [n \in nodes |-> FailureNode(n)]
  /\ pc # "idle" => match = NoMatch
  /\ pc = "search" => LongestAt(current, pos)
  /\ pc = "idle" /\ match.size > 0 => LongestAt(last_node, position)

LEMMA InitInv == Init => IInv
<1> SUFFICES ASSUME Init PROVE IInv
  OBVIOUS
<1>1. Trie
  BY DEF Init, Trie, Root
<1>2. Searching
  BY DEF Init, Searching, Root
<1> QED BY <1>1, <1>2 DEF Init, IInv

(* The beginnings of a word have their beginnings among them.              *)
LEMMA PrefixFacts ==
  ASSUME NEW w \in Seq(Letter)
  PROVE  /\ Prefixes(w) \subseteq Seq(Letter)
         /\ \A n \in Prefixes(w) : n # Root => SubSeq(n, 1, Len(n) - 1) \in Prefixes(w)
<1>1. ASSUME NEW k \in 0..Len(w), k # 0
      PROVE  SubSeq(SubSeq(w, 1, k), 1, k - 1) = SubSeq(w, 1, k - 1)
  <2> DEFINE n == SubSeq(w, 1, k)
             r == SubSeq(n, 1, k - 1)
             q == SubSeq(w, 1, k - 1)
  <2>1. n \in Seq(Letter) /\ Len(n) = k /\ \A i \in 1..k : n[i] = w[i]
    BY FrontFacts
  <2>2. k - 1 \in 0..Len(w) /\ k - 1 \in 0..Len(n) /\ k \in Nat
    BY <1>1, <2>1
  <2>3. q \in Seq(Letter) /\ Len(q) = k - 1 /\ \A i \in 1..(k - 1) : q[i] = w[i]
    BY <2>2, FrontFacts
  <2>4. r \in Seq(Letter) /\ Len(r) = k - 1 /\ \A i \in 1..(k - 1) : r[i] = n[i]
    <3> HIDE DEF n
    <3> QED BY <2>1, <2>2, FrontFacts
  <2> HIDE DEF n, r, q
  <2>5. r = q
    BY <2>1, <2>2, <2>3, <2>4
  <2> QED BY <2>5 DEF n, r, q
<1>2. ASSUME NEW k \in 0..Len(w)
      PROVE  /\ SubSeq(w, 1, k) \in Seq(Letter) /\ Len(SubSeq(w, 1, k)) = k
             /\ k # 0 => k - 1 \in 0..Len(w)
  BY FrontFacts
<1>3. ASSUME NEW k \in 0..Len(w), SubSeq(w, 1, k) # Root
      PROVE  k # 0
  <2>1. SubSeq(w, 1, k) \in Seq(Letter) /\ Len(SubSeq(w, 1, k)) = k
    BY FrontFacts
  <2> QED BY <1>3, <2>1 DEF Root
<1>4. ASSUME NEW n \in Prefixes(w), n # Root
      PROVE  SubSeq(n, 1, Len(n) - 1) \in Prefixes(w)
  <2>1. PICK k \in 0..Len(w) : n = SubSeq(w, 1, k)
    BY DEF Prefixes
  <2>2. k # 0 /\ Len(n) = k
    BY <1>2, <1>3, <1>4, <2>1
  <2> QED BY <1>1, <1>2, <2>1, <2>2 DEF Prefixes
<1> QED BY <1>2, <1>4 DEF Prefixes

LEMMA AddInv ==
  ASSUME IInv, NEW w \in Words, Add(w)
  PROVE  IInv'
<1>1. w \in Seq(Letter)
  BY AhoAssumption
<1>2. Trie'
  <2>1. nodes' = nodes \cup Prefixes(w)
    BY DEF Add
  <2>2. Trie
    BY DEF IInv
  <2>3. nodes' \subseteq Seq(Letter) /\ Root \in nodes'
    BY <1>1, <2>1, <2>2, PrefixFacts DEF Trie
  <2>4. ASSUME NEW n \in nodes', n # Root
        PROVE  SubSeq(n, 1, Len(n) - 1) \in nodes'
    BY <1>1, <2>1, <2>2, <2>4, PrefixFacts DEF Trie
  <2> QED BY <2>3, <2>4 DEF Trie
<1>3. pc = "add" /\ pc' = "add" /\ nodes \subseteq nodes' /\ UNCHANGED search
  BY DEF Add
<1> QED BY <1>2, <1>3 DEF IInv, Searching, search

(* The steps that change no node.                                          *)
LEMMA SameTrie ==
  ASSUME IInv, UNCHANGED nodes
  PROVE  /\ Trie'
         /\ \A n \in nodes : FailureNode(n)' = FailureNode(n)
<1> QED BY DEF IInv, Trie, FailureNode

LEMMA BuildInv ==
  ASSUME IInv,
         \/ SetFailures \/ (\E n \in nodes : Collect(n))
         \/ AcceptPattern \/ NextSuffix \/ CloseTrie
  PROVE  IInv'
<1>1. UNCHANGED <<nodes, search>>
  BY DEF SetFailures, Collect, AcceptPattern, NextSuffix, CloseTrie, trie
<1>2. Trie' /\ nodes' = nodes /\ \A n \in nodes : FailureNode(n)' = FailureNode(n)
  BY <1>1, SameTrie
<1>3. failure' = [n \in nodes |-> FailureNode(n)]
  BY DEF IInv, SetFailures, Collect, AcceptPattern, NextSuffix, CloseTrie, trie
<1>4. match = NoMatch /\ match' = NoMatch /\ pc' # "search"
  BY <1>1 DEF IInv, SetFailures, Collect, AcceptPattern, NextSuffix, CloseTrie, search
<1>5. Searching'
  BY <1>1 DEF IInv, Searching, search
<1>6. failure' = [n \in nodes |-> FailureNode(n)]'
  BY <1>2, <1>3
<1> QED BY <1>2, <1>4, <1>5, <1>6 DEF IInv, NoMatch

LEMMA StartInv ==
  ASSUME IInv, (\E t \in Texts : SetText(t)) \/ FindNext
  PROVE  IInv'
<1>1. UNCHANGED trie /\ pc = "idle" /\ pc' = "search" /\ match' = NoMatch
  BY DEF SetText, FindNext, StartSearch
<1>2. Trie' /\ nodes' = nodes /\ \A n \in nodes : FailureNode(n)' = FailureNode(n)
  BY <1>1, SameTrie DEF trie
<1>3. failure' = [n \in nodes |-> FailureNode(n)]'
  BY <1>1, <1>2 DEF IInv, trie
<1>4. CASE \E t \in Texts : SetText(t)
  <2>1. PICK t \in Texts : SetText(t)
    BY <1>4
  <2>2. /\ t \in Seq(Letter) /\ text' = t /\ position' = 0 /\ pos' = 0
        /\ current' = Root /\ last_node' = Root
    BY <2>1, AhoAssumption DEF SetText, StartSearch
  <2>3. Searching'
    <3>1. Root \in nodes' /\ 0 \in 0..Len(t)
      BY <1>2, <2>2 DEF Trie
    <3> QED BY <2>2, <3>1 DEF Searching
  <2>4. SubSeq(t, 1, 0) = << >> /\ << >> \in Seq(Letter) /\ Len(<< >>) = 0
    BY <2>2
  <2>5. IsSuffixOf(Root, SubSeq(t, 1, 0))
    BY <2>4, SuffixNone DEF Root
  <2>6. ASSUME NEW m \in nodes', IsSuffixOf(m, SubSeq(t, 1, 0))
        PROVE  ~(Len(m) > Len(Root))
    <3>1. Len(m) <= Len(SubSeq(t, 1, 0))
      BY <2>6 DEF IsSuffixOf
    <3>2. m \in Seq(Letter) /\ Len(m) \in Nat
      BY <1>2 DEF Trie
    <3> QED BY <2>4, <3>1, <3>2 DEF Root
  <2>7. LongestAt(current, pos)'
    BY <2>2, <2>5, <2>6 DEF LongestAt
  <2> QED BY <1>1, <1>2, <1>3, <2>3, <2>7 DEF IInv
<1>5. CASE FindNext
  <2>1. /\ match.size > 0 /\ pos' = position /\ current' = last_node
        /\ UNCHANGED <<text, position, last_node>>
    BY <1>5 DEF FindNext, StartSearch
  <2>2. LongestAt(last_node, position)
    BY <1>1, <2>1 DEF IInv
  <2>3. Searching'
    BY <1>2, <2>1 DEF IInv, Searching
  <2>4. LongestAt(current, pos)'
    BY <1>2, <2>1, <2>2 DEF LongestAt
  <2> QED BY <1>1, <1>2, <1>3, <2>3, <2>4 DEF IInv
<1> QED BY <1>4, <1>5

LEMMA StepInv ==
  ASSUME IInv, SearchStep
  PROVE  IInv'
<1> DEFINE c == text[pos + 1]
           along == Append(current, c)
<1>1. /\ UNCHANGED <<trie, text>> /\ pc = "search" /\ pos < Len(text)
      /\ pos \in Nat /\ pos + 1 \in 0..Len(text) /\ text \in Seq(Letter)
      /\ current \in nodes /\ last_node \in nodes /\ LongestAt(current, pos) /\ Trie
  <2>1. UNCHANGED <<trie, text>> /\ pc = "search" /\ pos < Len(text)
    BY DEF SearchStep, Found
  <2>2. /\ text \in Seq(Letter) /\ pos \in 0..Len(text) /\ current \in nodes
        /\ last_node \in nodes /\ LongestAt(current, pos) /\ Trie
    BY <2>1 DEF IInv, Searching
  <2> QED BY <2>1, <2>2
<1>2. Trie' /\ nodes' = nodes /\ \A n \in nodes : FailureNode(n)' = FailureNode(n)
  BY <1>1, SameTrie DEF trie
<1>3. failure' = [n \in nodes |-> FailureNode(n)]' /\ failure = [n \in nodes |-> FailureNode(n)]
  BY <1>1, <1>2 DEF IInv, trie
<1>4. CASE along \in nodes /\ along \in final
  <2>1. /\ current' = along /\ pos' = pos + 1 /\ position' = pos + 1
        /\ last_node' = along /\ pc' = "idle"
    BY <1>4 DEF SearchStep, Found
  <2>2. LongestAt(along, pos + 1)
    BY <1>1, <1>4, EdgeStep
  <2>3. LongestAt(last_node, position)'
    <3> HIDE DEF along
    <3> QED BY <1>1, <1>2, <2>1, <2>2 DEF LongestAt
  <2>4. Searching'
    BY <1>1, <1>2, <1>4, <2>1 DEF Searching
  <2> QED BY <1>2, <1>3, <2>1, <2>3, <2>4 DEF IInv
<1>5. CASE along \in nodes /\ along \notin final
  <2>1. /\ current' = along /\ pos' = pos + 1 /\ UNCHANGED <<position, last_node, pc, match>>
    BY <1>5 DEF SearchStep
  <2>2. LongestAt(along, pos + 1)
    BY <1>1, <1>5, EdgeStep
  <2>3. LongestAt(current, pos)'
    <3> HIDE DEF along
    <3> QED BY <1>1, <1>2, <2>1, <2>2 DEF LongestAt
  <2>4. Searching'
    BY <1>1, <1>2, <1>5, <2>1 DEF IInv, Searching
  <2> QED BY <1>1, <1>2, <1>3, <2>1, <2>3, <2>4 DEF IInv
<1>6. CASE along \notin nodes /\ current = Root
  <2>1. /\ current' = Root /\ pos' = pos + 1 /\ UNCHANGED <<position, last_node, pc, match>>
    BY <1>6 DEF SearchStep
  <2>2. LongestAt(Root, pos + 1)
    BY <1>1, <1>6, RootStep
  <2>3. LongestAt(current, pos)'
    BY <1>1, <1>2, <2>1, <2>2 DEF LongestAt
  <2>4. Searching'
    BY <1>1, <1>2, <2>1 DEF IInv, Searching, Trie
  <2> QED BY <1>1, <1>2, <1>3, <2>1, <2>3, <2>4 DEF IInv
<1>7. CASE along \notin nodes /\ current # Root
  <2>1. /\ current' = failure[current] /\ pos' = pos
        /\ UNCHANGED <<position, last_node, pc, match>>
    BY <1>7 DEF SearchStep
  <2>2. failure[current] = FailureNode(current)
    BY <1>1, <1>3
  <2>3. LongestAt(FailureNode(current), pos) /\ FailureNode(current) \in nodes
    BY <1>1, <1>7, FailureStep, FailureFacts
  <2>4. LongestAt(current, pos)'
    BY <1>1, <1>2, <2>1, <2>2, <2>3 DEF LongestAt
  <2>5. Searching'
    BY <1>1, <1>2, <2>1, <2>2, <2>3 DEF IInv, Searching
  <2> QED BY <1>1, <1>2, <1>3, <2>1, <2>4, <2>5 DEF IInv
<1> QED BY <1>4, <1>5, <1>6, <1>7

LEMMA EndInv ==
  ASSUME IInv, SearchEnd
  PROVE  IInv'
<1>1. /\ UNCHANGED <<trie, text, position, current, pos, match>>
      /\ last_node' = current /\ pc = "search" /\ pc' = "idle"
  BY DEF SearchEnd
<1>2. Trie' /\ nodes' = nodes /\ \A n \in nodes : FailureNode(n)' = FailureNode(n)
  BY <1>1, SameTrie DEF trie
<1>3. failure' = [n \in nodes |-> FailureNode(n)]'
  BY <1>1, <1>2 DEF IInv, trie
<1>4. match' = NoMatch
  BY <1>1 DEF IInv
<1>5. Searching'
  BY <1>1, <1>2 DEF IInv, Searching
<1> QED BY <1>1, <1>2, <1>3, <1>4, <1>5 DEF IInv, NoMatch

LEMMA NextInv == IInv /\ [Next]_vars => IInv'
<1> SUFFICES ASSUME IInv, [Next]_vars PROVE IInv'
  OBVIOUS
<1>1. CASE \E w \in Words : Add(w)
  BY <1>1, AddInv
<1>2. CASE \/ SetFailures \/ (\E n \in nodes : Collect(n))
           \/ AcceptPattern \/ NextSuffix \/ CloseTrie
  BY <1>2, BuildInv
<1>3. CASE (\E t \in Texts : SetText(t)) \/ FindNext
  BY <1>3, StartInv
<1>4. CASE SearchStep
  BY <1>4, StepInv
<1>5. CASE SearchEnd
  BY <1>5, EndInv
<1>6. CASE UNCHANGED vars
  <2>1. UNCHANGED <<trie, pc, search>> /\ UNCHANGED nodes
    BY <1>6 DEF vars, trie
  <2>2. Trie' /\ \A n \in nodes : FailureNode(n)' = FailureNode(n)
    BY <2>1, SameTrie
  <2>3. failure' = failure
    BY <2>1 DEF trie
  <2> QED BY <2>1, <2>2, <2>3 DEF IInv, Searching, LongestAt, search
<1> QED BY <1>1, <1>2, <1>3, <1>4, <1>5, <1>6 DEF Next

LEMMA Inductive == Spec => []IInv
  BY InitInv, NextInv, PTL DEF Spec

-------------------------------------------------------------------------------
(* The lists of matches.                                                   *)

(* The patterns that end where n does.                                     *)
Ends(n) == {p \in Patterns : IsSuffixOf(p, n)}

(* Each node's list has patterns that end where it does, none of them      *)
(* twice, and if it has any, the longest of them comes first.              *)
Lists ==
  /\ matched \in [nodes -> Seq(nodes)]
  /\ Root \notin Patterns
  /\ \A n \in nodes : Range(matched[n]) \subseteq Ends(n)
  /\ \A n \in nodes : IsInjective(matched[n])
  /\ \A n \in nodes : matched[n] # << >> =>
       \A p \in Ends(n) : Len(p) <= Len(matched[n][1])

(* Before the lists are collected a node's own pattern is all it has.      *)
Own == pc = "add" => \A n \in nodes : matched[n] \in {<< >>, <<n>>}

(* The final nodes are those with matches; only the node that is being     *)
(* collected may be late, until it is through with its failure node.       *)
Final ==
  /\ final \subseteq nodes
  /\ \A n \in final : matched[n] # << >>
  /\ \A n \in nodes : matched[n] # << >> =>
       n \in final \/ (pc = "accept" /\ n = nod /\ suffix \in final)

(* A node that is through has all its patterns.                            *)
Through ==
  /\ collected \subseteq nodes
  /\ \A n \in collected : Ends(n) \subseteq Range(matched[n])
  /\ pc \in {"idle", "search"} => collected = nodes
  /\ pc = "add" => collected = {}

(* A node that is not yet through has those longer than the failure node   *)
(* it is at, and the first of that node's own.                             *)
Accepting ==
  pc = "accept" =>
    /\ nod \in nodes \ {Root} /\ suffix \in nodes
    /\ IsSuffixOf(suffix, nod) /\ Len(suffix) < Len(nod)
    /\ at \in 1..(Len(matched[suffix]) + 1)
    /\ \A p \in Ends(nod) : Len(p) > Len(suffix) => p \in Range(matched[nod])
    /\ \A i \in 1..(at - 1) : matched[suffix][i] \in Range(matched[nod])

MInv == Lists /\ Own /\ Final /\ Through /\ Accepting

(* A sequence without duplicates has as many elements as its range.        *)
LEMMA DistinctCount ==
  ASSUME NEW S, NEW s \in Seq(S), IsInjective(s)
  PROVE  Cardinality(Range(s)) = Len(s)
<1>1. Len(s) \in Nat /\ DOMAIN s = 1..Len(s)
  OBVIOUS
<1>2. s \in [1..Len(s) -> Range(s)]
  BY <1>1 DEF Range
<1>3. s \in Bijection(1..Len(s), Range(s))
  BY <1>1, <1>2 DEF Bijection, Injection, Surjection, Range
<1>4. ExistsBijection(1..Len(s), Range(s))
  BY <1>3 DEF ExistsBijection
<1> QED BY <1>1, <1>4, FS_CountingElements

LEMMA AppendFacts ==
  ASSUME NEW S, NEW s \in Seq(S), NEW e \in S
  PROVE  /\ Append(s, e) \in Seq(S) /\ Append(s, e) # << >>
         /\ Range(Append(s, e)) = Range(s) \cup {e}
         /\ s # << >> => Append(s, e)[1] = s[1]
         /\ s = << >> => Append(s, e)[1] = e
         /\ IsInjective(s) /\ e \notin Range(s) => IsInjective(Append(s, e))
<1> DEFINE t == Append(s, e)
<1>1. /\ Len(s) \in Nat /\ DOMAIN s = 1..Len(s)
      /\ t \in Seq(S) /\ Len(t) = Len(s) + 1 /\ DOMAIN t = 1..(Len(s) + 1)
      /\ t[Len(s) + 1] = e /\ \A i \in 1..Len(s) : t[i] = s[i]
      /\ s # << >> => Len(s) # 0
      /\ s = << >> => Len(s) = 0
  OBVIOUS
<1> HIDE DEF t
<1>2. t # << >>
  BY <1>1
<1>3. 1..(Len(s) + 1) = 1..Len(s) \cup {Len(s) + 1}
  BY <1>1
<1>4. Range(t) = Range(s) \cup {e}
  BY <1>1, <1>3 DEF Range
<1>5. s # << >> => t[1] = s[1]
  BY <1>1
<1>6. s = << >> => t[1] = e
  BY <1>1
<1>7. ASSUME IsInjective(s), e \notin Range(s)
      PROVE  IsInjective(t)
  <2>1. ASSUME NEW i \in 1..(Len(s) + 1), NEW j \in 1..(Len(s) + 1), t[i] = t[j]
        PROVE  i = j
    <3>1. CASE i \in 1..Len(s) /\ j \in 1..Len(s)
      BY <1>1, <1>7, <2>1, <3>1 DEF IsInjective
    <3>2. CASE i \in 1..Len(s) /\ j = Len(s) + 1
      BY <1>1, <1>7, <2>1, <3>2 DEF Range
    <3>3. CASE i = Len(s) + 1 /\ j \in 1..Len(s)
      BY <1>1, <1>7, <2>1, <3>3 DEF Range
    <3> QED BY <1>3, <3>1, <3>2, <3>3
  <2> QED BY <1>1, <2>1 DEF IsInjective
<1> QED BY <1>1, <1>2, <1>4, <1>5, <1>6, <1>7 DEF t

LEMMA PatternFacts ==
  ASSUME Lists, NEW p \in Patterns
  PROVE  /\ p \in nodes /\ matched[p] # << >> /\ matched[p][1] = p
         /\ Len(matched[p]) \in Nat \ {0}
         /\ 1 \in DOMAIN matched[p] /\ p \in Range(matched[p])
<1>1. p \in nodes /\ matched[p] # << >> /\ matched[p][1] = p
  BY DEF Patterns
<1>2. matched[p] \in Seq(nodes)
  BY <1>1 DEF Lists
<1>3. 1 \in DOMAIN matched[p] /\ Len(matched[p]) \in Nat \ {0}
  BY <1>1, <1>2
<1> QED BY <1>1, <1>3 DEF Range

LEMMA SuffixSelf ==
  ASSUME NEW S, NEW w \in Seq(S)
  PROVE  IsSuffixOf(w, w)
<1>1. Len(w) \in Nat /\ \A i \in 1..Len(w) : w[i] = w[Len(w) - Len(w) + i]
  OBVIOUS
<1> QED BY <1>1, SuffixAt

LEMMA EndsFacts ==
  ASSUME nodes \subseteq Seq(Letter), NEW w, NEW p \in Ends(w)
  PROVE  /\ p \in Patterns /\ p \in nodes /\ p \in Seq(Letter) /\ Len(p) \in Nat
         /\ IsSuffixOf(p, w) /\ Len(p) <= Len(w)
<1> QED BY DEF Ends, Patterns, IsSuffixOf

LEMMA EmptyList ==
  ASSUME NEW e, e = << >>
  PROVE  Range(e) = {} /\ IsInjective(e)
<1>1. DOMAIN e = {}
  OBVIOUS
<1> QED BY <1>1 DEF Range, IsInjective

LEMMA InitLists == Init => MInv
<1> SUFFICES ASSUME Init PROVE MInv
  OBVIOUS
<1>1. nodes = {Root} /\ matched = [n \in {Root} |-> << >>] /\ final = {} /\ collected = {}
  BY DEF Init
<1>2. pc = "add"
  BY DEF Init
<1>3. Lists
  <2>1. \A n \in nodes : matched[n] \in Seq(nodes) /\ matched[n] = << >>
    BY <1>1
  <2>2. \A n \in nodes : Range(matched[n]) = {} /\ IsInjective(matched[n])
    BY <2>1, EmptyList
  <2>3. matched \in [nodes -> Seq(nodes)]
    BY <1>1, <2>1
  <2> QED BY <2>1, <2>2, <2>3 DEF Lists, Patterns
<1> QED BY <1>1, <1>2, <1>3 DEF MInv, Own, Final, Through, Accepting

LEMMA AddLists ==
  ASSUME IInv, IInv', MInv, NEW w \in Words, Add(w)
  PROVE  MInv'
<1>1. /\ pc = "add" /\ pc' = "add" /\ nodes' = nodes \cup Prefixes(w)
      /\ final' = final \cup {w} /\ collected' = collected /\ Len(w) \in 1..MaxPattern
      /\ matched' = [n \in nodes' |-> IF n = w THEN <<w>>
                                     ELSE IF n \in nodes THEN matched[n] ELSE << >>]
  BY DEF Add
<1>2. w \in Seq(Letter) /\ w # Root
  BY <1>1, AhoAssumption DEF Root
<1>3. w \in nodes' /\ nodes' \subseteq Seq(Letter) /\ Root \in nodes'
  <2>1. Len(w) \in 0..Len(w) /\ SubSeq(w, 1, Len(w)) = w
    BY <1>2
  <2>2. w \in Prefixes(w)
    BY <2>1 DEF Prefixes
  <2>3. Trie'
    BY DEF IInv
  <2> QED BY <1>1, <2>2, <2>3 DEF Trie
<1>4. ASSUME NEW n \in nodes'
      PROVE  matched'[n] = << >> \/ matched'[n] = <<n>>
  <2>1. \A m \in nodes : matched[m] \in {<< >>, <<m>>}
    BY <1>1 DEF MInv, Own
  <2> QED BY <1>1, <2>1
<1>5. matched'[Root] = << >>
  <2>1. CASE Root \in nodes
    <3>1. matched[Root] \in {<< >>, <<Root>>} /\ Root \notin Patterns
      BY <1>1, <2>1 DEF MInv, Own, Lists
    <3>2. matched[Root] = << >>
      BY <2>1, <3>1 DEF Patterns
    <3> QED BY <1>1, <1>2, <1>3, <2>1, <3>2
  <2>2. CASE Root \notin nodes
    BY <1>1, <1>2, <1>3, <2>2
  <2> QED BY <2>1, <2>2
<1>6. Lists'
  <2>1. ASSUME NEW n \in nodes'
        PROVE  /\ matched'[n] \in Seq(nodes') /\ IsInjective(matched'[n])
               /\ Range(matched'[n]) \subseteq Ends(n)'
               /\ matched'[n] # << >> =>
                    \A p \in Ends(n)' : Len(p) <= Len(matched'[n][1])
    <3>1. CASE matched'[n] = << >>
      <4>1. matched'[n] \in Seq(nodes')
        BY <3>1
      <4> QED BY <3>1, <4>1, EmptyList
    <3>2. CASE matched'[n] = <<n>>
      <4> DEFINE l == <<n>>
      <4>1. l \in Seq(nodes') /\ DOMAIN l = {1} /\ l[1] = n /\ l # << >>
        OBVIOUS
      <4>2. Range(l) = {n} /\ IsInjective(l)
        BY <4>1 DEF Range, IsInjective
      <4>3. n \in Patterns'
        BY <3>2, <4>1 DEF Patterns
      <4>4. n \in Ends(n)'
        BY <1>3, <4>3, SuffixSelf DEF Ends
      <4>5. \A p \in Ends(n)' : Len(p) <= Len(n)
        BY DEF Ends, IsSuffixOf
      <4> QED BY <3>2, <4>1, <4>2, <4>4, <4>5
    <3> QED BY <1>4, <3>1, <3>2
  <2>2. matched' \in [nodes' -> Seq(nodes')]
    BY <1>1, <2>1
  <2>3. Root \notin Patterns'
    BY <1>5 DEF Patterns
  <2> QED BY <2>1, <2>2, <2>3 DEF Lists
<1>7. Final'
  <2>1. /\ final \subseteq nodes /\ \A n \in final : matched[n] # << >>
        /\ \A n \in nodes : matched[n] # << >> => n \in final
    BY <1>1 DEF MInv, Final
  <2>2. ASSUME NEW n \in nodes'
        PROVE  matched'[n] # << >> <=> n \in final'
    BY <1>1, <2>1
  <2>3. final' \subseteq nodes'
    BY <1>1, <1>3, <2>1
  <2> QED BY <2>2, <2>3 DEF Final
<1>8. Own' /\ Through' /\ Accepting'
  <2>1. collected' = {}
    BY <1>1 DEF MInv, Through
  <2> QED BY <1>1, <1>4, <2>1 DEF Own, Through, Accepting
<1> QED BY <1>6, <1>7, <1>8 DEF MInv

(* The steps that change no list.                                          *)
LEMMA SameLists ==
  ASSUME Lists, nodes' = nodes, matched' = matched
  PROVE  Lists' /\ Patterns' = Patterns /\ \A n : Ends(n)' = Ends(n)
<1>1. Patterns' = Patterns
  BY DEF Patterns
<1>2. \A n : Ends(n)' = Ends(n)
  BY <1>1 DEF Ends
<1> QED BY <1>1, <1>2 DEF Lists

LEMMA FailuresLists ==
  ASSUME IInv, MInv, SetFailures
  PROVE  MInv'
<1>1. /\ pc = "add" /\ pc' = "collect"
      /\ nodes' = nodes /\ matched' = matched /\ final' = final /\ collected' = collected
  BY DEF SetFailures
<1>2. Lists' /\ \A n : Ends(n)' = Ends(n)
  BY <1>1, SameLists DEF MInv
<1>3. Final' /\ Through'
  BY <1>1, <1>2 DEF MInv, Final, Through
<1> QED BY <1>1, <1>2, <1>3 DEF MInv, Own, Accepting

LEMMA CollectLists ==
  ASSUME IInv, MInv, NEW n \in nodes, Collect(n)
  PROVE  MInv'
<1>1. /\ pc = "collect" /\ pc' \in {"collect", "accept"}
      /\ nodes' = nodes /\ matched' = matched /\ final' = final
  BY DEF Collect
<1>2. Lists' /\ \A m : Ends(m)' = Ends(m)
  BY <1>1, SameLists DEF MInv
<1>3. nodes \subseteq Seq(Letter) /\ Root \in nodes
  BY DEF IInv, Trie
<1>4. Own' /\ Final'
  BY <1>1 DEF MInv, Own, Final
<1>5. CASE n = Root
  <2>1. collected' = {Root} /\ pc' = "collect"
    BY <1>1, <1>5 DEF Collect
  <2>2. Ends(Root) = {}
    <3>1. ASSUME NEW p \in Patterns, IsSuffixOf(p, Root)
          PROVE  FALSE
      <4>1. p \in Seq(Letter) /\ Len(p) <= Len(Root) /\ p # Root
        BY <1>3, <3>1 DEF MInv, Lists, Patterns, IsSuffixOf
      <4> QED BY <4>1 DEF Root
    <3> QED BY <3>1 DEF Ends
  <2>3. Through'
    BY <1>1, <1>2, <1>3, <2>1, <2>2 DEF Through
  <2> QED BY <1>2, <1>4, <2>1, <2>3 DEF MInv, Accepting
<1>6. CASE n # Root
  <2>1. /\ pc' = "accept" /\ nod' = n /\ suffix' = FailureNode(n) /\ at' = 1
        /\ collected' = collected
    BY <1>1, <1>6 DEF Collect, IInv
  <2>2. Through'
    BY <1>1, <1>2, <2>1 DEF MInv, Through
  <2>3. /\ FailureNode(n) \in nodes /\ IsSuffixOf(FailureNode(n), n)
        /\ Len(FailureNode(n)) < Len(n)
        /\ \A s \in nodes : IsSuffixOf(s, n) /\ Len(s) < Len(n)
             => Len(s) <= Len(FailureNode(n))
    BY <1>6, FailureFacts DEF IInv
  <2>5. ASSUME NEW p \in Ends(n), Len(p) > Len(FailureNode(n))
        PROVE  p \in Range(matched[n])
    <3>1. p \in Patterns /\ p \in nodes /\ p \in Seq(Letter) /\ IsSuffixOf(p, n)
      BY <1>3 DEF Ends, Patterns
    <3>2. Len(p) <= Len(n) /\ Len(p) \in Nat /\ Len(n) \in Nat /\ Len(FailureNode(n)) \in Nat
      BY <1>3, <2>3, <3>1 DEF IsSuffixOf
    <3>3. ~(Len(p) < Len(n))
      BY <2>3, <2>5, <3>1, <3>2
    <3>4. p = n
      BY <1>3, <3>1, <3>2, <3>3, SuffixSame
    <3> QED BY <3>1, <3>4, PatternFacts DEF MInv
  <2>6. 1 \in 1..(Len(matched[FailureNode(n)]) + 1) /\ 1..(1 - 1) = {}
    <3>1. Len(matched[FailureNode(n)]) \in Nat
      BY <2>3 DEF MInv, Lists
    <3> QED BY <3>1
  <2> HIDE DEF FailureNode
  <2>7. Accepting'
    BY <1>1, <1>2, <1>6, <2>1, <2>3, <2>5, <2>6 DEF Accepting
  <2> QED BY <1>2, <1>4, <2>2, <2>7 DEF MInv
<1> QED BY <1>5, <1>6

LEMMA AcceptLists ==
  ASSUME IInv, MInv, AcceptPattern
  PROVE  MInv'
<1> DEFINE p == matched[suffix][at]
           l == matched[nod]
<1>1. /\ pc = "accept" /\ pc' = "accept" /\ at <= Len(matched[suffix]) /\ at' = at + 1
      /\ matched' = [matched EXCEPT ![nod] = IF p \in Range(l) THEN l ELSE Append(l, p)]
      /\ nodes' = nodes /\ final' = final /\ collected' = collected
      /\ nod' = nod /\ suffix' = suffix
  BY DEF AcceptPattern
<1>2. /\ nodes \subseteq Seq(Letter) /\ Lists /\ Final /\ Through /\ Accepting
      /\ matched \in [nodes -> Seq(nodes)]
  BY DEF IInv, Trie, MInv, Lists
<1>3. /\ nod \in nodes /\ suffix \in nodes /\ nod # suffix /\ nod # Root
      /\ IsSuffixOf(suffix, nod) /\ Len(suffix) < Len(nod)
      /\ at \in 1..Len(matched[suffix]) /\ Len(suffix) \in Nat /\ Len(nod) \in Nat
  BY <1>1, <1>2 DEF Accepting
<1>4. p \in Ends(suffix) /\ p \in Range(matched[suffix])
  <2>1. at \in DOMAIN matched[suffix]
    BY <1>2, <1>3
  <2> QED BY <1>2, <1>3, <2>1 DEF Lists, Range
<1>5. /\ p \in Patterns /\ p \in nodes /\ p \in Seq(Letter) /\ Len(p) \in Nat
      /\ IsSuffixOf(p, suffix) /\ Len(p) <= Len(suffix)
  BY <1>2, <1>4, EndsFacts
<1>6. IsSuffixOf(p, nod)
  BY <1>2, <1>3, <1>5, SuffixTrans
<1>7. l \in Seq(nodes)
  BY <1>2, <1>3
<1> DEFINE m == IF p \in Range(l) THEN l ELSE Append(l, p)
<1> HIDE DEF p, l
<1>8. /\ m \in Seq(nodes) /\ m # << >> /\ IsInjective(m)
      /\ Range(m) = Range(l) \cup {p}
      /\ l # << >> => m[1] = l[1]
      /\ l = << >> => m[1] = p
  <2>1. IsInjective(l)
    BY <1>2, <1>3 DEF Lists, l
  <2>2. CASE p \notin Range(l)
    BY <1>5, <1>7, <2>1, <2>2, AppendFacts
  <2>3. CASE p \in Range(l)
    <3>1. l # << >>
      BY <2>3, EmptyList
    <3> QED BY <1>7, <2>1, <2>3, <3>1
  <2> QED BY <2>2, <2>3
<1>9. matched' = [matched EXCEPT ![nod] = m]
  BY <1>1
<1> HIDE DEF m
<1>10. matched' \in [nodes -> Seq(nodes)] /\ matched'[nod] = m
       /\ \A n \in nodes : n # nod => matched'[n] = matched[n]
  BY <1>2, <1>3, <1>8, <1>9
<1>11. Patterns' = Patterns
  <2>1. p # nod
    BY <1>3, <1>5
  <2>2. m[1] = nod <=> l # << >> /\ l[1] = nod
    BY <1>8, <2>1
  <2> QED BY <1>1, <1>3, <1>8, <1>10, <2>2 DEF Patterns, l
<1>12. \A n : Ends(n)' = Ends(n)
  BY <1>11 DEF Ends
<1>13. \A q \in Ends(nod) : Len(q) <= Len(m[1])
  <2>1. CASE l # << >>
    BY <1>2, <1>3, <1>8, <2>1 DEF Lists, l
  <2>2. CASE l = << >>
    <3>1. Range(l) = {}
      BY <2>2, EmptyList
    <3>2. at = 1
      <4>1. \A i \in 1..(at - 1) : FALSE
        BY <1>1, <1>2, <3>1 DEF Accepting, l
      <4> QED BY <1>3, <4>1
    <3>3. ASSUME NEW q \in Ends(nod)
          PROVE  Len(q) <= Len(p)
      <4>1. q \in Patterns /\ q \in Seq(Letter) /\ Len(q) \in Nat /\ IsSuffixOf(q, nod)
        BY <1>2 DEF Ends, Patterns
      <4>2. ~(Len(q) > Len(suffix))
        BY <1>1, <1>2, <3>1 DEF Accepting, l
      <4>3. IsSuffixOf(q, suffix)
        BY <1>2, <1>3, <4>1, <4>2, SuffixNest
      <4>4. q \in Ends(suffix) /\ matched[suffix] # << >>
        BY <1>3, <4>1, <4>3 DEF Ends
      <4>5. Len(q) <= Len(matched[suffix][1])
        BY <1>2, <1>3, <4>4 DEF Lists
      <4> QED BY <3>2, <4>5 DEF p
    <3> QED BY <1>8, <2>2, <3>3
  <2> QED BY <2>1, <2>2
<1>14. Lists'
  <2>1. ASSUME NEW n \in nodes
        PROVE  /\ IsInjective(matched'[n]) /\ Range(matched'[n]) \subseteq Ends(n)
               /\ matched'[n] # << >> => \A q \in Ends(n) : Len(q) <= Len(matched'[n][1])
    <3>1. CASE n = nod
      <4>1. Range(l) \subseteq Ends(nod) /\ p \in Ends(nod)
        BY <1>2, <1>3, <1>5, <1>6 DEF Lists, Ends, l
      <4> QED BY <1>8, <1>10, <1>13, <3>1, <4>1
    <3>2. CASE n # nod
      BY <1>2, <1>10, <3>2 DEF Lists
    <3> QED BY <3>1, <3>2
  <2>2. Root \notin Patterns'
    BY <1>2, <1>11 DEF Lists
  <2> QED BY <1>1, <1>10, <1>12, <2>1, <2>2 DEF Lists
<1>15. Final'
  <2>1. suffix \in final
    <3>1. matched[suffix] # << >>
      BY <1>3
    <3> QED BY <1>2, <1>3, <3>1 DEF Final
  <2> QED BY <1>1, <1>2, <1>8, <1>10, <2>1 DEF Final
<1>16. Through'
  <2>1. \A n \in nodes : Range(matched[n]) \subseteq Range(matched'[n])
    BY <1>8, <1>10 DEF l
  <2> QED BY <1>1, <1>2, <1>12, <2>1 DEF Through
<1>17. Accepting'
  <2>1. matched'[suffix] = matched[suffix] /\ Range(matched[nod]) \subseteq Range(matched'[nod])
    BY <1>3, <1>8, <1>10 DEF l
  <2>2. Len(matched[suffix]) \in Nat
    BY <1>2, <1>3
  <2>3. at' \in 1..(Len(matched'[suffix]) + 1)
    BY <1>1, <1>3, <2>1, <2>2
  <2>4. \A i \in 1..(at' - 1) : i = at \/ i \in 1..(at - 1)
    BY <1>1, <1>3, <2>2
  <2>5. \A i \in 1..(at' - 1) : matched'[suffix][i] \in Range(matched'[nod])
    <3>1. p \in Range(matched'[nod])
      BY <1>8, <1>10
    <3> QED BY <1>1, <1>2, <2>1, <2>4, <3>1 DEF Accepting, p
  <2>6. \A q \in Ends(nod) : Len(q) > Len(suffix) => q \in Range(matched'[nod])
    BY <1>1, <1>2, <2>1 DEF Accepting
  <2> QED BY <1>1, <1>3, <1>12, <2>3, <2>5, <2>6 DEF Accepting
<1>18. Own'
  BY <1>1 DEF Own
<1> QED BY <1>14, <1>15, <1>16, <1>17, <1>18 DEF MInv

LEMMA NextSuffixLists ==
  ASSUME IInv, MInv, NextSuffix
  PROVE  MInv'
<1>1. /\ pc = "accept" /\ at > Len(matched[suffix])
      /\ nodes' = nodes /\ matched' = matched
      /\ final' = IF suffix \in final THEN final \cup {nod} ELSE final
  BY DEF NextSuffix
<1>2. /\ nodes \subseteq Seq(Letter) /\ Root \in nodes
      /\ Lists /\ Final /\ Through /\ Accepting /\ matched \in [nodes -> Seq(nodes)]
  BY DEF IInv, Trie, MInv, Lists
<1>3. /\ nod \in nodes /\ nod # Root /\ suffix \in nodes
      /\ IsSuffixOf(suffix, nod) /\ Len(suffix) < Len(nod)
      /\ Len(suffix) \in Nat /\ Len(nod) \in Nat /\ Len(matched[suffix]) \in Nat
      /\ at = Len(matched[suffix]) + 1
  <2>1. /\ nod \in nodes /\ nod # Root /\ suffix \in nodes
        /\ IsSuffixOf(suffix, nod) /\ Len(suffix) < Len(nod)
        /\ at \in 1..(Len(matched[suffix]) + 1)
    BY <1>1, <1>2 DEF Accepting
  <2>2. Len(matched[suffix]) \in Nat /\ Len(suffix) \in Nat /\ Len(nod) \in Nat
    BY <1>2, <2>1
  <2> QED BY <1>1, <2>1, <2>2
<1>4. Lists' /\ Patterns' = Patterns /\ \A n : Ends(n)' = Ends(n)
  BY <1>1, <1>2, SameLists
<1>5. \A i \in 1..Len(matched[suffix]) : matched[suffix][i] \in Range(matched[nod])
  BY <1>1, <1>2, <1>3 DEF Accepting
<1>6. Own'
  BY <1>1 DEF Own, NextSuffix
<1>7. Final'
  <2>1. suffix \in final => matched[nod] # << >>
    <3>1. ASSUME suffix \in final
          PROVE  matched[nod] # << >>
      <4>1. 1 \in 1..Len(matched[suffix])
        BY <1>2, <1>3, <3>1 DEF Final
      <4>2. Range(matched[nod]) # {}
        BY <1>5, <4>1
      <4> QED BY <4>2, EmptyList
    <3> QED BY <3>1
  <2>2. \A n \in nodes : matched[n] # << >> => n \in final'
    BY <1>1, <1>2 DEF Final
  <2> QED BY <1>1, <1>2, <1>3, <2>1, <2>2 DEF Final
<1>8. CASE suffix = Root
  <2>1. /\ collected' = collected \cup {nod} /\ pc' = "collect"
    BY <1>8 DEF NextSuffix
  <2>2. ASSUME NEW q \in Ends(nod)
        PROVE  q \in Range(matched[nod])
    <3>1. q \in Seq(Letter) /\ q # Root
      BY <1>2 DEF Ends, Patterns, Lists
    <3>2. Len(q) > Len(suffix)
      BY <1>8, <3>1 DEF Root
    <3> QED BY <1>1, <1>2, <3>2 DEF Accepting
  <2>3. Through'
    BY <1>1, <1>2, <1>3, <1>4, <2>1, <2>2 DEF Through
  <2> QED BY <1>4, <1>6, <1>7, <2>1, <2>3 DEF MInv, Accepting
<1>9. CASE suffix # Root
  <2>1. /\ suffix' = FailureNode(suffix) /\ at' = 1
        /\ collected' = collected /\ nod' = nod /\ pc' = "accept"
    BY <1>1, <1>3, <1>9 DEF NextSuffix, IInv
  <2>2. /\ FailureNode(suffix) \in nodes /\ IsSuffixOf(FailureNode(suffix), suffix)
        /\ \A s \in nodes : IsSuffixOf(s, suffix) /\ Len(s) < Len(suffix)
             => Len(s) <= Len(FailureNode(suffix))
    BY <1>3, <1>9, FailureFacts DEF IInv
  <2> DEFINE f == FailureNode(suffix)
  <2> HIDE DEF f
  <2>3. /\ f \in nodes /\ f \in Seq(Letter) /\ Len(f) \in Nat /\ IsSuffixOf(f, suffix)
        /\ Len(f) <= Len(suffix) /\ Len(matched[f]) \in Nat /\ suffix' = f
    BY <1>2, <2>1, <2>2 DEF IsSuffixOf, f
  <2>4. IsSuffixOf(f, nod) /\ Len(f) < Len(nod)
    BY <1>2, <1>3, <2>3, SuffixTrans
  <2>5. ASSUME NEW q \in Ends(nod), Len(q) > Len(f)
        PROVE  q \in Range(matched[nod])
    <3>1. /\ q \in Patterns /\ q \in nodes /\ q \in Seq(Letter) /\ Len(q) \in Nat
          /\ IsSuffixOf(q, nod)
      BY <1>2 DEF Ends, Patterns
    <3>2. CASE Len(q) > Len(suffix)
      BY <1>1, <1>2, <3>2 DEF Accepting
    <3>3. CASE Len(q) <= Len(suffix)
      <4>1. IsSuffixOf(q, suffix)
        BY <1>2, <1>3, <3>1, <3>3, SuffixNest
      <4>2. ~(Len(q) < Len(suffix))
        BY <2>2, <2>3, <2>5, <3>1, <4>1 DEF f
      <4>3. q = suffix
        BY <1>2, <1>3, <3>1, <3>3, <4>1, <4>2, SuffixSame
      <4>4. q = matched[suffix][1] /\ 1 \in 1..Len(matched[suffix])
        BY <1>2, <1>3, <3>1, <4>3, PatternFacts
      <4> QED BY <1>5, <4>4
    <3> QED BY <1>3, <3>1, <3>2, <3>3
  <2>6. 1 \in 1..(Len(matched[f]) + 1) /\ 1..(1 - 1) = {}
    BY <2>3
  <2>7. Accepting'
    BY <1>1, <1>3, <1>4, <2>1, <2>3, <2>4, <2>5, <2>6 DEF Accepting
  <2>8. Through'
    BY <1>1, <1>2, <1>4, <2>1 DEF Through
  <2> QED BY <1>4, <1>6, <1>7, <2>7, <2>8 DEF MInv
<1> QED BY <1>8, <1>9

(* The steps after those.                                                  *)
LEMMA RestLists ==
  ASSUME MInv, UNCHANGED trie,
         \/ UNCHANGED pc
         \/ pc = "collect" /\ collected = nodes /\ pc' = "idle"
         \/ pc \in {"idle", "search"} /\ pc' \in {"idle", "search"}
  PROVE  MInv'
<1>1. /\ nodes' = nodes /\ matched' = matched /\ final' = final /\ collected' = collected
      /\ nod' = nod /\ suffix' = suffix /\ at' = at
  BY DEF trie, loop
<1>2. Lists' /\ \A n : Ends(n)' = Ends(n)
  BY <1>1, SameLists DEF MInv
<1>3. Through /\ Final /\ Own /\ Accepting
  BY DEF MInv
<1>4. Through'
  BY <1>1, <1>2, <1>3 DEF Through
<1>5. Final' /\ Own'
  BY <1>1, <1>3 DEF Final, Own
<1>6. Accepting'
  BY <1>1, <1>2, <1>3 DEF Accepting
<1> QED BY <1>2, <1>4, <1>5, <1>6 DEF MInv

-------------------------------------------------------------------------------
(* The answers.                                                            *)

(* No pattern ends between where the search began and where it is.         *)
Quiet ==
  /\ pc = "search" =>
       /\ base_position = 0 /\ from \in 0..pos
       /\ \A e \in (from + 1)..pos : Ends(SubSeq(text, 1, e)) = {}
  /\ pc = "idle" /\ match.size > 0 => base_position = 0
  /\ pc \notin {"idle", "search"} => text = << >> /\ from = 0

AInv == Quiet /\ FindRight

LEMMA AfterFacts ==
  ASSUME NEW t, NEW k, NEW e
  PROVE  e \in EndsAfter(t, k) <=> e \in (k + 1)..Len(t) /\ Ends(SubSeq(t, 1, e)) # {}
<1> QED BY DEF EndsAfter, Ends

(* A node that is reached is right as an answer.                           *)
LEMMA NodeAnswers ==
  ASSUME Trie, Lists, Final, Through, text \in Seq(Letter), pc \in {"idle", "search"},
         NEW e \in 1..Len(text), NEW n \in nodes, IsSuffixOf(n, SubSeq(text, 1, e)),
         \A m \in nodes : IsSuffixOf(m, SubSeq(text, 1, e)) => Len(m) <= Len(n)
  PROVE  /\ Ends(SubSeq(text, 1, e)) = Range(matched[n])
         /\ n \in final <=> matched[n] # << >>
         /\ n \in final =>
              /\ Len(matched[n]) \in Nat /\ Len(matched[n]) > 0
              /\ Cardinality(Ends(SubSeq(text, 1, e))) = Len(matched[n])
              /\ Ends(SubSeq(text, 1, e)) # {}
              /\ \A p \in Ends(SubSeq(text, 1, e)) : Len(p) <= Len(matched[n][1])
<1>1. nodes \subseteq Seq(Letter) /\ n \in Seq(Letter) /\ SubSeq(text, 1, e) \in Seq(Letter)
  BY FrontFacts DEF Trie
<1> DEFINE read == SubSeq(text, 1, e)
<1> HIDE DEF read
<1>2. Ends(read) = Ends(n)
  <2>1. ASSUME NEW p \in Ends(read)
        PROVE  p \in Ends(n)
    <3>1. /\ p \in Patterns /\ p \in nodes /\ p \in Seq(Letter)
          /\ IsSuffixOf(p, read) /\ Len(p) <= Len(n)
      BY <1>1, EndsFacts DEF read
    <3>2. IsSuffixOf(p, n)
      BY <1>1, <3>1, SuffixNest DEF read
    <3> QED BY <3>1, <3>2 DEF Ends
  <2>2. ASSUME NEW p \in Ends(n)
        PROVE  p \in Ends(read)
    <3>1. p \in Patterns /\ p \in Seq(Letter) /\ IsSuffixOf(p, n)
      BY <1>1, EndsFacts
    <3>2. IsSuffixOf(p, read)
      BY <1>1, <3>1, SuffixTrans DEF read
    <3> QED BY <3>1, <3>2 DEF Ends
  <2> QED BY <2>1, <2>2
<1>3. Range(matched[n]) = Ends(n) /\ matched[n] \in Seq(nodes) /\ IsInjective(matched[n])
  BY DEF Lists, Through
<1>4. n \in final <=> matched[n] # << >>
  BY DEF Final
<1>5. ASSUME n \in final
      PROVE  /\ Len(matched[n]) \in Nat /\ Len(matched[n]) > 0
             /\ Cardinality(Ends(n)) = Len(matched[n]) /\ Ends(n) # {}
             /\ \A p \in Ends(n) : Len(p) <= Len(matched[n][1])
  <2>1. Cardinality(Range(matched[n])) = Len(matched[n])
    BY <1>3, DistinctCount
  <2>2. Len(matched[n]) \in Nat /\ Len(matched[n]) > 0 /\ 1 \in DOMAIN matched[n]
    BY <1>3, <1>4, <1>5
  <2>3. Range(matched[n]) # {}
    BY <2>2 DEF Range
  <2> QED BY <1>3, <1>4, <1>5, <2>1, <2>2, <2>3 DEF Lists
<1> QED BY <1>2, <1>3, <1>4, <1>5 DEF read

LEMMA BuildAnswers ==
  ASSUME IInv, AInv,
         \/ (\E w \in Words : Add(w)) \/ SetFailures \/ (\E n \in nodes : Collect(n))
         \/ AcceptPattern \/ NextSuffix \/ CloseTrie
  PROVE  AInv'
<1>1. pc \notin {"idle", "search"} /\ UNCHANGED search
  BY DEF Add, SetFailures, Collect, AcceptPattern, NextSuffix, CloseTrie
<1>2. text' = << >> /\ from' = 0 /\ match' = NoMatch
  BY <1>1 DEF IInv, AInv, Quiet, search
<1>3. pc' # "search"
  BY DEF Add, SetFailures, Collect, AcceptPattern, NextSuffix, CloseTrie
<1>4. Quiet'
  BY <1>2, <1>3 DEF Quiet, NoMatch
<1>5. EndsAfter(text, from)' = {}
  <2>1. \A e \in (0 + 1)..Len(<< >>) : FALSE
    OBVIOUS
  <2> QED BY <1>2, <2>1 DEF EndsAfter
<1>6. FindRight'
  BY <1>2, <1>5 DEF FindRight, NoMatch
<1> QED BY <1>4, <1>6 DEF AInv

LEMMA StartAnswers ==
  ASSUME IInv, AInv, (\E t \in Texts : SetText(t)) \/ FindNext
  PROVE  AInv'
<1>1. pc' = "search" /\ from' = pos' /\ base_position' = 0 /\ pos' \in Nat
  <2>1. CASE \E t \in Texts : SetText(t)
    BY <2>1 DEF SetText, StartSearch
  <2>2. CASE FindNext
    BY <2>2 DEF FindNext, StartSearch, AInv, Quiet, IInv, Searching
  <2> QED BY <2>1, <2>2
<1>2. \A k \in Nat : k \in 0..k /\ (k + 1)..k = {}
  OBVIOUS
<1>3. from' \in 0..pos' /\ (from' + 1)..pos' = {}
  BY <1>1, <1>2
<1>4. Quiet'
  BY <1>1, <1>3 DEF Quiet
<1> QED BY <1>1, <1>4 DEF AInv, FindRight

LEMMA StepAnswers ==
  ASSUME IInv, MInv, AInv, SearchStep
  PROVE  AInv'
<1> DEFINE along == Append(current, text[pos + 1])
           read  == SubSeq(text, 1, pos + 1)
<1>1. /\ UNCHANGED <<trie, text, base_position, from>> /\ pc = "search" /\ pos < Len(text)
      /\ nodes' = nodes /\ matched' = matched
  BY DEF SearchStep, Found, trie
<1>2. /\ text \in Seq(Letter) /\ pos \in Nat /\ Len(text) \in Nat /\ pos + 1 \in 1..Len(text)
      /\ current \in nodes /\ LongestAt(current, pos) /\ Trie
      /\ base_position = 0 /\ from \in 0..pos
      /\ \A e \in (from + 1)..pos : Ends(SubSeq(text, 1, e)) = {}
  <2>1. /\ text \in Seq(Letter) /\ pos \in 0..Len(text) /\ current \in nodes
        /\ LongestAt(current, pos) /\ Trie
    BY <1>1 DEF IInv, Searching
  <2>2. /\ base_position = 0 /\ from \in 0..pos
        /\ \A e \in (from + 1)..pos : Ends(SubSeq(text, 1, e)) = {}
    BY <1>1 DEF AInv, Quiet
  <2> QED BY <1>1, <2>1, <2>2
<1>3. Lists /\ Final /\ Through
  BY DEF MInv
<1>4. \A w : Ends(w)' = Ends(w)
  BY <1>1, <1>3, SameLists
<1>5. ASSUME along \in nodes
      PROVE  /\ IsSuffixOf(along, read)
             /\ \A m \in nodes : IsSuffixOf(m, read) => Len(m) <= Len(along)
  BY <1>1, <1>2, <1>5, EdgeStep DEF LongestAt
<1>6. ASSUME Ends(read) = {}
      PROVE  \A e \in (from + 1)..(pos + 1) : Ends(SubSeq(text, 1, e)) = {}
  <2>1. \A e \in (from + 1)..(pos + 1) : e \in (from + 1)..pos \/ e = pos + 1
    BY <1>2
  <2> HIDE DEF along
  <2> QED BY <1>2, <1>6, <2>1
<1>7. CASE along \in nodes /\ along \in final
  <2>1. /\ match' = [size |-> Len(matched[along]), position |-> pos + 1 + base_position,
                     patterns |-> matched[along]]
        /\ pc' = "idle"
    BY <1>7 DEF SearchStep, Found
  <2> HIDE DEF along
  <2>2. match'.size = Len(matched[along]) /\ match'.patterns = matched[along]
        /\ match'.position = pos + 1
    BY <1>2, <2>1
  <2>3. /\ match'.size > 0 /\ Cardinality(Ends(read)) = match'.size /\ Ends(read) # {}
        /\ Range(match'.patterns) = Ends(read)
        /\ \A p \in Ends(read) : Len(p) <= Len(match'.patterns[1])
    BY <1>1, <1>2, <1>3, <1>5, <1>7, <2>2, NodeAnswers
  <2> HIDE DEF read
  <2>4. pos + 1 \in EndsAfter(text, from)
    <3>1. pos + 1 \in (from + 1)..Len(text)
      BY <1>2
    <3> QED BY <2>3, <3>1, AfterFacts DEF read
  <2>5. ASSUME NEW e \in EndsAfter(text, from)
        PROVE  pos + 1 <= e
    <3>1. e \in (from + 1)..Len(text) /\ Ends(SubSeq(text, 1, e)) # {}
      BY <2>5, AfterFacts
    <3>2. e \notin (from + 1)..pos
      BY <1>2, <3>1
    <3> QED BY <1>2, <3>1, <3>2
  <2>6. EndsAfter(text, from)' = EndsAfter(text, from) /\ Patterns' = Patterns
    BY <1>1 DEF EndsAfter, Patterns
  <2>7. Ends(read) = {p \in Patterns' : IsSuffixOf(p, SubSeq(text', 1, match'.position))}
    BY <1>1, <2>2, <2>6 DEF Ends, read
  <2>8. FindRight'
    BY <2>2, <2>3, <2>4, <2>5, <2>6, <2>7 DEF FindRight
  <2>9. Quiet'
    BY <1>1, <1>2, <2>1 DEF Quiet
  <2> QED BY <2>8, <2>9 DEF AInv
<1>8. CASE along \in nodes /\ along \notin final
  <2>1. pc' = "search" /\ pos' = pos + 1
    BY <1>1, <1>8 DEF SearchStep
  <2>2. Ends(read) = {}
    <3> HIDE DEF along
    <3> QED BY <1>1, <1>2, <1>3, <1>5, <1>8, NodeAnswers, EmptyList
  <2> HIDE DEF along, read
  <2>3. Quiet'
    BY <1>1, <1>2, <1>4, <1>6, <2>1, <2>2 DEF Quiet
  <2> QED BY <2>1, <2>3 DEF AInv, FindRight
<1>9. CASE along \notin nodes /\ current = Root
  <2>1. pc' = "search" /\ pos' = pos + 1
    BY <1>1, <1>9 DEF SearchStep
  <2>2. \A m \in nodes : IsSuffixOf(m, read) => m = Root
    BY <1>1, <1>2, <1>9, RootStep
  <2>3. Ends(read) = {}
    BY <1>3, <2>2 DEF Ends, Patterns, Lists
  <2> HIDE DEF along, read
  <2>4. Quiet'
    BY <1>1, <1>2, <1>4, <1>6, <2>1, <2>3 DEF Quiet
  <2> QED BY <2>1, <2>4 DEF AInv, FindRight
<1>10. CASE along \notin nodes /\ current # Root
  <2>1. pc' = "search" /\ pos' = pos
    BY <1>1, <1>10 DEF SearchStep
  <2> HIDE DEF along, read
  <2>2. Quiet'
    BY <1>1, <1>2, <1>4, <2>1 DEF Quiet
  <2> QED BY <2>1, <2>2 DEF AInv, FindRight
<1> QED BY <1>7, <1>8, <1>9, <1>10

LEMMA EndAnswers ==
  ASSUME IInv, MInv, AInv, SearchEnd
  PROVE  AInv'
<1>1. /\ UNCHANGED <<trie, text, pos, match, from>> /\ pc = "search" /\ pc' = "idle"
      /\ pos >= Len(text) /\ nodes' = nodes /\ matched' = matched
  BY DEF SearchEnd, trie
<1>2. match' = NoMatch /\ pos \in 0..Len(text) /\ Len(text) \in Nat
  BY <1>1 DEF IInv, Searching
<1>3. /\ from \in 0..pos /\ \A e \in (from + 1)..pos : Ends(SubSeq(text, 1, e)) = {}
  BY <1>1 DEF AInv, Quiet
<1>4. pos = Len(text)
  BY <1>1, <1>2
<1>5. EndsAfter(text, from) = {}
  BY <1>3, <1>4, AfterFacts
<1>6. EndsAfter(text, from)' = EndsAfter(text, from)
  BY <1>1 DEF EndsAfter, Patterns
<1>7. FindRight'
  BY <1>2, <1>5, <1>6 DEF FindRight, NoMatch
<1>8. Quiet'
  BY <1>1, <1>2 DEF Quiet, NoMatch
<1> QED BY <1>7, <1>8 DEF AInv

LEMMA AnswerInv == IInv /\ IInv' /\ MInv /\ AInv /\ [Next]_vars => MInv' /\ AInv'
<1> SUFFICES ASSUME IInv, IInv', MInv, AInv, [Next]_vars PROVE MInv' /\ AInv'
  OBVIOUS
<1>1. CASE \E w \in Words : Add(w)
  BY <1>1, AddLists, BuildAnswers
<1>2. CASE SetFailures
  BY <1>2, FailuresLists, BuildAnswers
<1>3. CASE \E n \in nodes : Collect(n)
  BY <1>3, CollectLists, BuildAnswers
<1>4. CASE AcceptPattern
  BY <1>4, AcceptLists, BuildAnswers
<1>5. CASE NextSuffix
  BY <1>5, NextSuffixLists, BuildAnswers
<1>6. CASE CloseTrie
  <2>1. UNCHANGED trie /\ pc = "collect" /\ collected = nodes /\ pc' = "idle"
    BY <1>6 DEF CloseTrie
  <2> QED BY <1>6, <2>1, RestLists, BuildAnswers
<1>7. CASE (\E t \in Texts : SetText(t)) \/ FindNext
  <2>1. UNCHANGED trie /\ pc \in {"idle", "search"} /\ pc' \in {"idle", "search"}
    BY <1>7 DEF SetText, FindNext, StartSearch
  <2> QED BY <1>7, <2>1, RestLists, StartAnswers
<1>8. CASE SearchStep
  <2>1. UNCHANGED trie /\ pc \in {"idle", "search"} /\ pc' \in {"idle", "search"}
    BY <1>8 DEF SearchStep, Found
  <2> QED BY <1>8, <2>1, RestLists, StepAnswers
<1>9. CASE SearchEnd
  <2>1. UNCHANGED trie /\ pc \in {"idle", "search"} /\ pc' \in {"idle", "search"}
    BY <1>9 DEF SearchEnd
  <2> QED BY <1>9, <2>1, RestLists, EndAnswers
<1>10. CASE UNCHANGED vars
  <2>1. UNCHANGED <<trie, pc, search>>
    BY <1>10 DEF vars
  <2>2. MInv'
    BY <2>1, RestLists
  <2>3. Patterns' = Patterns
    BY <2>1 DEF Patterns, trie
  <2>4. Quiet'
    BY <2>1, <2>3 DEF AInv, Quiet, Ends, search
  <2>5. FindRight'
    BY <2>1, <2>3 DEF AInv, FindRight, EndsAfter, search, trie
  <2> QED BY <2>2, <2>4, <2>5 DEF AInv
<1> QED BY <1>1, <1>2, <1>3, <1>4, <1>5, <1>6, <1>7, <1>8, <1>9, <1>10 DEF Next

-------------------------------------------------------------------------------
(* Theorems                                                                *)

(* For every set of patterns and every text, over any alphabet: the search *)
(* is in the longest node that could still lead to a match.                *)
THEOREM NothingLost == Spec => []CurrentLongest
<1>1. IInv => CurrentLongest
  BY DEF IInv, LongestAt, CurrentLongest
<1> QED BY <1>1, Inductive, PTL

(* For every set of patterns and every series of texts: findnext returns   *)
(* the first place behind the last one where a pattern ends, with as many  *)
(* patterns as end there, the longest first, and it returns nothing only   *)
(* if no pattern ends in the rest of the text.                             *)
THEOREM FirstMatch == Spec => []FindRight
<1>1. Init => MInv /\ AInv
  <2>1. Init => AInv
    <3> SUFFICES ASSUME Init PROVE AInv
      OBVIOUS
    <3>1. pc = "add" /\ text = << >> /\ from = 0
      BY DEF Init
    <3> QED BY <3>1 DEF AInv, Quiet, FindRight
  <2> QED BY <2>1, InitLists
<1>2. AInv => FindRight
  BY DEF AInv
<1> QED BY <1>1, <1>2, AnswerInv, Inductive, PTL DEF Spec

(* What is left of a search: two turns for each character not read, and    *)
(* one for each letter of the node.                                        *)
Left == 2 * (Len(text) - pos) + Len(current)

(* The turns of the loop use up what is left, although only an edge or the *)
(* root consumes a character.                                              *)
LeftShrinks == [][pc = "search" /\ pc' = "search" => Left' \in Nat /\ Left' < Left]_vars

(* For every set of patterns and every text: the loop of ac_trie_search    *)
(* takes no more turns than twice the text it has left and the depth of    *)
(* the node it begins in, and so cannot follow failure nodes for ever.     *)
THEOREM SearchBounded == Spec => LeftShrinks
<1>1. ASSUME IInv, Next, pc = "search", pc' = "search"
      PROVE  Left' \in Nat /\ Left' < Left
  <2> DEFINE along == Append(current, text[pos + 1])
  <2>1. SearchStep
    BY <1>1 DEF Next, Add, SetFailures, Collect, AcceptPattern, NextSuffix, CloseTrie, SetText,
                FindNext, SearchEnd
  <2>2. /\ pos \in Nat /\ pos < Len(text) /\ Len(text) \in Nat /\ text \in Seq(Letter)
        /\ current \in nodes /\ Trie /\ text' = text
        /\ failure = [n \in nodes |-> FailureNode(n)]
    BY <1>1, <2>1 DEF IInv, Searching, SearchStep, Found
  <2>3. current \in Seq(Letter) /\ Len(current) \in Nat
    BY <2>2 DEF Trie
  <2>4. CASE along \in nodes
    <3>1. current' = along /\ pos' = pos + 1
      BY <2>1, <2>4 DEF SearchStep
    <3>2. Len(along) = Len(current) + 1
      BY <2>3
    <3> HIDE DEF along
    <3> QED BY <2>2, <2>3, <3>1, <3>2 DEF Left
  <2>5. CASE along \notin nodes /\ current = Root
    <3>1. current' = current /\ pos' = pos + 1
      BY <2>1, <2>5 DEF SearchStep
    <3> QED BY <2>2, <2>3, <3>1 DEF Left
  <2>6. CASE along \notin nodes /\ current # Root
    <3>1. current' = FailureNode(current) /\ pos' = pos
      BY <2>1, <2>2, <2>6 DEF SearchStep
    <3>2. FailureNode(current) \in nodes /\ Len(FailureNode(current)) < Len(current)
      BY <2>2, <2>6, FailureFacts
    <3>3. Len(FailureNode(current)) \in Nat
      BY <2>2, <3>2 DEF Trie
    <3> QED BY <2>2, <2>3, <3>1, <3>2, <3>3 DEF Left
  <2> QED BY <2>4, <2>5, <2>6
<1>2. IInv /\ [Next]_vars
        => [pc = "search" /\ pc' = "search" => Left' \in Nat /\ Left' < Left]_vars
  BY <1>1
<1> QED BY <1>2, Inductive, PTL DEF Spec, LeftShrinks
===============================================================================
