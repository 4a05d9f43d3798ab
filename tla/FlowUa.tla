-------------------------------- MODULE FlowUa --------------------------------
(***************************************************************************)
(* flow_ua_common.c: httphandle for one packet after another.  The parser  *)
(* of FlowHttp makes the callbacks, they fill the node, and when the       *)
(* parser is through the node's text is searched or the packet takes the   *)
(* default path.                                                           *)
(*                                                                         *)
(* The node's text is known by where each character comes from: the header *)
(* whose value it was copied from, or NUL.  The parser lets a NUL pass in a *)
(* value; where the first one is, if there is one, is chosen when the      *)
(* value is copied.                                                        *)
(***************************************************************************)
EXTENDS FlowHttp

CONSTANT UaSize      \* sizeof(node->ua), as many characters and a NUL

ASSUME UaAssumption == UaSize \in Nat \ {0, 1}

VARIABLES
  node,      \* onbeg, onurl, onua, oncplt and ua
  decided,   \* what httphandle came to: "search", "default", or "none" yet
  recent,    \* history: the name of the last header with a value
  clean      \* history: no value of this packet had a NUL in it

uvars == <<hvars, node, decided, recent, clean>>

NUL == "nul"

(* Mutant of Zeroed: the text is cut one short.                            *)
ZeroedShort == [onbeg |-> FALSE, onurl |-> FALSE, onua |-> FALSE, oncplt |-> FALSE,
                ua |-> [i \in 1..(UaSize - 1) |-> "nul"]]

Zeroed == [onbeg |-> FALSE, onurl |-> FALSE, onua |-> FALSE, oncplt |-> FALSE,
           ua |-> [i \in 1..UaSize |-> NUL]]

UaInit == HttpInit /\ node = Zeroed /\ decided = "none" /\ recent = NUL
          /\ clean = TRUE

(* strncpy of len characters to the beginning of ua: a value of header h   *)
(* with k characters before its first NUL, which pads the rest.            *)
Copy(ua, h, k, len) ==
  [i \in 1..UaSize |-> IF i > len THEN ua[i] ELSE IF i > k THEN NUL ELSE h]

(* Mutant of OnHeaderValue: the text may fill the array.                   *)
OnHeaderValueFull(n, c, k) ==
  LET len == IF c.len > UaSize THEN UaSize ELSE c.len IN
  IF c.len = 0 THEN n
  ELSE [n EXCEPT !.ua = Copy(@, c.name, k, len), !.onua = FALSE, !.oncplt = TRUE]

(* Mutant of OnHeaderValue: the first value is kept.                       *)
OnHeaderValueOnce(n, c, k) ==
  LET len == IF c.len > UaSize - 1 THEN UaSize - 1 ELSE c.len IN
  IF c.len = 0 \/ n.oncplt THEN n
  ELSE [n EXCEPT !.ua = Copy(@, c.name, k, len), !.onua = FALSE, !.oncplt = TRUE]

(* on_header_value: whatever the header, its value is copied over the      *)
(* beginning of ua; node->ua is an array and never NULL.                   *)
OnHeaderValue(n, c, k) ==
  LET len == IF c.len > UaSize - 1 THEN UaSize - 1 ELSE c.len IN
  IF c.len = 0 THEN n
  ELSE [n EXCEPT !.ua = Copy(@, c.name, k, len), !.onua = FALSE, !.oncplt = TRUE]

OnHeaderField(n, c) ==
  IF n.onbeg /\ n.onurl /\ c.name = "user-agent" THEN [n EXCEPT !.onua = TRUE] ELSE n

(* The callback c on node n; the others do nothing.                        *)
OnCall(n, c, k) ==
  CASE c.cb = "begin" -> [n EXCEPT !.onbeg = TRUE]
    [] c.cb = "url"   -> [n EXCEPT !.onurl = TRUE]
    [] c.cb = "field" -> OnHeaderField(n, c)
    [] c.cb = "value" -> OnHeaderValue(n, c, k)
    [] OTHER          -> n

(* At most one callback in a step: see MarkedIn.                           *)
Parse ==
  /\ decided = "none"
  /\ HttpStep
  /\ IF calls' = << >> THEN UNCHANGED <<node, recent, clean>>
     ELSE LET c == calls'[1] IN
          IF c.cb # "value" \/ c.len = 0
          THEN node' = OnCall(node, c, 0) /\ UNCHANGED <<recent, clean>>
          ELSE \E k \in 0..c.len :
                 /\ node' = OnCall(node, c, k)
                 /\ recent' = IF k = 0 THEN NUL ELSE c.name
                 /\ clean' = (clean /\ k = c.len)
  /\ UNCHANGED decided

Decide ==
  /\ over /\ decided = "none"
  /\ decided' = IF node.oncplt THEN "search" ELSE "default"
  /\ UNCHANGED <<hvars, node, recent, clean>>

(* The next packet: the parser is initialised and the node is zeroed.      *)
NextPacket ==
  /\ decided # "none"
  /\ parser' = Fresh
  /\ held' = NoChar /\ reads' = 0 /\ marks' = {} /\ vlen' = 0
  /\ calls' = << >> /\ last' = "none" /\ over' = FALSE
  /\ node' = Zeroed /\ decided' = "none" /\ recent' = NUL
  /\ clean' = TRUE

UaNext == Parse \/ Decide \/ NextPacket

UaSpec == UaInit /\ [][UaNext]_uvars

-------------------------------------------------------------------------------
(* Properties.                                                             *)

UaTypeOK ==
  /\ HttpTypeOK
  /\ node.ua \in [1..UaSize -> KnownNames \cup {NUL}]
  /\ decided \in {"none", "search", "default"}
  /\ recent \in KnownNames \cup {NUL} /\ clean \in BOOLEAN

(* A text is searched only for a packet with a request line and, after it, *)
(* a header value.  The text is terminated, whatever the values' lengths,  *)
(* and is not empty unless a value has a NUL.                              *)
SearchedAfterUrl ==
  decided = "search" =>
    /\ node.onbeg /\ node.onurl
    /\ node.ua[UaSize] = NUL
    /\ clean => node.ua[1] # NUL

(* The text begins with the value of the last header that has one.         *)
BeginsWithLast == node.ua[1] = recent

(* Flow by User-Agent: what is searched is a User-Agent value.             *)
UaOnly ==
  decided = "search" =>
    \A i \in 1..UaSize : node.ua[i] \in {"user-agent", NUL}
===============================================================================
