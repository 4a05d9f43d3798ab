------------------------------ MODULE FlowDdosMC ------------------------------
(* Small instances of FlowDdos for TLC.                                    *)
EXTENDS FlowDdos, TLC

CONSTANTS b1, b2, n1, n2, n3, a1, a2, a3, a4, p1, p2

OneBucket  == {b1}
TwoBuckets == {b1, b2}
ThreeNodes == {n1, n2, n3}
OneAddr    == {a1}
ThreeAddrs == {a1, a2, a3}
FourAddrs  == {a1, a2, a3, a4}
TwoPorts   == {p1, p2}
AllInOne   == [a \in Addr |-> b1]
Apart      == [a \in Addr |-> IF a = a4 THEN b2 ELSE b1]
NodesAndPorts == Permutations(Node) \cup Permutations(SrcPort)
(* The addresses of bucket b1 may be exchanged, that of b2 stays.         *)
Buckets       == NodesAndPorts \cup Permutations(ThreeAddrs)
(* What tells two states apart when the clock may be set back: its value   *)
(* then bounds no reading to come, and of the times in seen and the last   *)
(* outcome the properties of the run ask only what is here.                *)
View == <<nx, pv, addr, modtime, entries, free, reused,
          [b \in Bucket |-> outcome[b].end],
          {b \in Bucket : outcome[b].res /\ Cardinality(outcome[b].ports) <= ScanNumber},
          [a \in Addr |-> {p \in SrcPort : seen[a][p] >= 0}]>>
===============================================================================
