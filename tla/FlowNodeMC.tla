------------------------------ MODULE FlowNodeMC ------------------------------
(* A small instance of FlowNode for TLC.                                   *)
EXTENDS FlowNode

(* Letters on both sides of zero.                                          *)
MCLetters == {-3, -1, 2, 6}
===============================================================================
