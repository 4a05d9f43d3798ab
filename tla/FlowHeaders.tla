----------------------------- MODULE FlowHeaders ------------------------------
(***************************************************************************)
(* From a frame to the bytes the HTTP parser gets: ipv4_fwd_pkts and       *)
(* ipv6_fwd_pkts of flow_forward.c, for one frame after another.  Offsets  *)
(* count from the beginning of the IP header; a length is an int.          *)
(***************************************************************************)
EXTENDS Integers

CONSTANTS
  Frames,        \* the frames that come
  Ipv4Header,    \* sizeof(struct ipv4_hdr), in bytes
  Ipv6Header,    \* sizeof(struct ipv6_hdr)
  TcpHeader      \* sizeof(struct tcp_hdr)

(* A frame: the flag the NIC set, the Ethernet type, the protocol, the     *)
(* IPv4 header length field in words, the IP length field, the TCP data    *)
(* offset in words.                                                        *)
Frame == [flag : {"v4", "v6", "none"}, type : {"v4", "v6", "other"},
          tcp : BOOLEAN, ihl : Nat, iplen : Nat, doff : Nat]

ASSUME HeadersAssumption ==
  /\ Frames \subseteq Frame
  /\ Ipv4Header \in Nat /\ Ipv6Header \in Nat /\ TcpHeader \in Nat \ {0}

VARIABLES
  frame,     \* the frame being handled
  done       \* what became of it: where it went, and the bytes parsed

vars == <<frame, done>>

Waiting == [to |-> "nowhere", at |-> 0, len |-> 0]
Default == [to |-> "default", at |-> 0, len |-> 0]

Init == frame \in Frames /\ done = Waiting

(* Mutant of Parse: > for >=.                                              *)
ParseEmpty(at, totlen) ==
  IF TcpHeader > totlen THEN Default
  ELSE [to |-> "http", at |-> at + TcpHeader, len |-> totlen - TcpHeader]

(* httphandle gets what follows a TCP header without options at offset at, *)
(* as long as totlen says, if anything does.                               *)
Parse(at, totlen) ==
  IF TcpHeader >= totlen THEN Default
  ELSE [to |-> "http", at |-> at + TcpHeader, len |-> totlen - TcpHeader]

(* Mutant of Ipv4Fwd: IP options are ignored.                              *)
Ipv4FwdFixed(f) ==
  IF f.type # "v4" \/ ~f.tcp THEN Default ELSE Parse(Ipv4Header, f.iplen - Ipv4Header)

Ipv4Fwd(f) ==
  LET headerlen == 4 * f.ihl IN
  IF f.type # "v4" \/ ~f.tcp THEN Default
  ELSE Parse(headerlen, f.iplen - headerlen)

(* payload_len is taken for the length of header and payload.              *)
Ipv6Fwd(f) ==
  IF f.type # "v6" \/ ~f.tcp THEN Default
  ELSE Parse(Ipv6Header, f.iplen - Ipv6Header)

Forward ==
  /\ done = Waiting
  /\ done' = CASE frame.flag = "v4" -> Ipv4Fwd(frame)
               [] frame.flag = "v6" -> Ipv6Fwd(frame)
               [] OTHER             -> Default
  /\ UNCHANGED frame

NextFrame ==
  /\ done # Waiting
  /\ frame' \in Frames
  /\ done' = Waiting

Next == Forward \/ NextFrame

Spec == Init /\ [][Next]_vars

-------------------------------------------------------------------------------
(* What the standards say of a frame whose length fields are right.        *)

HeaderOf(f) == IF f.type = "v4" THEN 4 * f.ihl ELSE Ipv6Header

(* Bytes from the beginning of the IP header to the end of the packet.     *)
Total(f) == IF f.type = "v4" THEN f.iplen ELSE Ipv6Header + f.iplen

Wellformed(f) ==
  /\ f.type \in {"v4", "v6"} /\ f.flag = f.type /\ f.tcp
  /\ f.type = "v4" => 4 * f.ihl >= Ipv4Header
  /\ 4 * f.doff >= TcpHeader
  /\ HeaderOf(f) + 4 * f.doff <= Total(f)

PayloadAt(f)  == HeaderOf(f) + 4 * f.doff
PayloadLen(f) == Total(f) - PayloadAt(f)

-------------------------------------------------------------------------------
(* Properties.                                                             *)

(* IPv4, no TCP options: the parser gets the payload, all of it, also when *)
(* the IP header has options; a segment without payload is not parsed.     *)
Ipv4Payload ==
  Wellformed(frame) /\ frame.type = "v4" /\ 4 * frame.doff = TcpHeader
    /\ done # Waiting =>
    IF PayloadLen(frame) = 0 THEN done = Default
    ELSE done = [to |-> "http", at |-> PayloadAt(frame), len |-> PayloadLen(frame)]

(* The parser is given at least one byte, whatever the length fields say,  *)
(* only for a TCP frame of the version that the NIC saw, and never bytes   *)
(* beyond the end of a wellformed packet.                                  *)
ParsedWithin ==
  done.to = "http" =>
    /\ done.len > 0 /\ frame.tcp /\ frame.flag = frame.type
    /\ Wellformed(frame) => done.at + done.len <= Total(frame)
===============================================================================
