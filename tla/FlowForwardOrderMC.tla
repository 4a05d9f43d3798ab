-------------------------- MODULE FlowForwardOrderMC --------------------------
(* A small instance of FlowForwardOrder for TLC.                           *)
EXTENDS FlowForwardOrder, TLC

CONSTANTS m1, m2, m3

Routed    == [l3 |-> "v4", tcp |-> TRUE, ua |-> TRUE, route |-> 2]
Unmatched == [l3 |-> "v6", tcp |-> TRUE, ua |-> TRUE, route |-> -1]

MCMbuf     == {m1, m2, m3}
MCLcore    == {1, 2}
MCPort     == {0, 1, 2}
MCRxPorts  == <<0>>
MCDefQueue == {0, 1}
MCPacket   == {Routed, Unmatched}
Symmetry   == Permutations(MCMbuf)
===============================================================================
