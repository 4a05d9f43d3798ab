---------------------------- MODULE FlowForwardMC -----------------------------
(* Small instances of FlowForward for TLC.                                 *)
EXTENDS FlowForward, TLC

CONSTANTS m1, m2, m3

Kind(l3, tcp, ua, route) == [l3 |-> l3, tcp |-> tcp, ua |-> ua, route |-> route]

(* A frame that is routed to port 2, one that matched nothing.             *)
Routed    == Kind("v4", TRUE, TRUE, 2)
Unmatched == Kind("v6", TRUE, TRUE, -1)
(* A frame whose User-Agent is routed to the default port.                 *)
ToFirst   == Kind("v4", TRUE, TRUE, 1)

MCTwo      == {m1, m2}
MCLcore    == {1, 2}
MCPort     == {0, 1, 2}
MCRxPorts  == <<0>>
MCRxPorts2 == <<0, 1>>
MCDefQueue == {0, 1}
MCApart    == {Routed, Unmatched}
MCShared   == {ToFirst, Unmatched}
===============================================================================
