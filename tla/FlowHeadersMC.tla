---------------------------- MODULE FlowHeadersMC -----------------------------
(* Frames for FlowHeaders: the header sizes of the code, IP headers with   *)
(* and without options, and lengths around the sums of the header sizes.   *)
EXTENDS FlowHeaders

MCFrames ==
  [flag : {"v4", "v6", "none"}, type : {"v4", "v6", "other"}, tcp : BOOLEAN,
   ihl : {5, 6}, iplen : {0, 20, 24, 40, 41, 44, 45, 60, 61, 100}, doff : {5, 8}]
===============================================================================
