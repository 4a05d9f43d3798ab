--------------------------- MODULE FlowHeadersProof ---------------------------
(***************************************************************************)
(* Proofs about FlowHeaders, for frames with any lengths in any fields and *)
(* headers of any size: the runs try lengths at the boundaries.            *)
(***************************************************************************)
EXTENDS FlowHeaders, TLAPS

(* What becomes of a frame.                                                *)
Fate(f) ==
  IF f.flag = "v4" THEN Ipv4Fwd(f) ELSE IF f.flag = "v6" THEN Ipv6Fwd(f) ELSE Default

(* The inductive invariant: a frame that has been handled has met its fate. *)
IInv == frame \in Frame /\ (done = Waiting \/ done = Fate(frame))

LEMMA Inductive == Spec => []IInv
<1>1. Init => IInv
  BY HeadersAssumption DEF Init, IInv
<1>2. IInv /\ [Next]_vars => IInv'
  <2> SUFFICES ASSUME IInv, [Next]_vars PROVE IInv'
    OBVIOUS
  <2>1. CASE Forward
    <3>1. CASE frame.flag = "v4"
      BY <2>1, <3>1 DEF Forward, IInv, Fate
    <3>2. CASE frame.flag = "v6"
      BY <2>1, <3>2 DEF Forward, IInv, Fate
    <3>3. CASE frame.flag # "v4" /\ frame.flag # "v6"
      BY <2>1, <3>3 DEF Forward, IInv, Fate
    <3> QED BY <3>1, <3>2, <3>3
  <2>2. CASE NextFrame
    BY <2>2, HeadersAssumption DEF NextFrame, IInv
  <2>3. CASE UNCHANGED vars
    BY <2>3 DEF vars, IInv
  <2> QED BY <2>1, <2>2, <2>3 DEF Next
<1> QED
  BY <1>1, <1>2, PTL DEF Spec

(* The fields of a frame.                                                  *)
LEMMA FrameFields ==
  ASSUME NEW f \in Frame
  PROVE  /\ f.ihl \in Nat /\ f.iplen \in Nat /\ f.doff \in Nat /\ f.tcp \in BOOLEAN
         /\ Ipv4Header \in Nat /\ Ipv6Header \in Nat /\ TcpHeader \in Nat /\ TcpHeader > 0
BY HeadersAssumption DEF Frame

(* What the parser gets of a frame, as equations between numbers.          *)
LEMMA ParsedBytes ==
  ASSUME NEW f \in Frame, Fate(f).to = "http"
  PROVE  \E header \in {4 * f.ihl, Ipv6Header} :
           /\ f.tcp /\ f.flag = f.type
           /\ header = HeaderOf(f)
           /\ f.iplen - header > TcpHeader
           /\ Fate(f).at = header + TcpHeader
           /\ Fate(f).len = f.iplen - header - TcpHeader
<1>1. Default.to # "http"
  BY DEF Default
<1>2. f.ihl \in Nat /\ f.iplen \in Nat /\ Ipv6Header \in Nat /\ TcpHeader \in Nat
  BY FrameFields
<1>3. CASE f.flag = "v4"
  <2>1. f.type = "v4" /\ f.tcp /\ Fate(f) = Parse(4 * f.ihl, f.iplen - 4 * f.ihl)
    BY <1>1, <1>3 DEF Fate, Ipv4Fwd
  <2>2. ~(TcpHeader >= f.iplen - 4 * f.ihl)
    BY <1>1, <2>1 DEF Parse
  <2>3. Fate(f) = [to |-> "http", at |-> 4 * f.ihl + TcpHeader,
                   len |-> f.iplen - 4 * f.ihl - TcpHeader]
    BY <2>1, <2>2 DEF Parse
  <2> QED BY <1>2, <1>3, <2>1, <2>2, <2>3 DEF HeaderOf
<1>4. CASE f.flag = "v6"
  <2>1. f.type = "v6" /\ f.tcp /\ Fate(f) = Parse(Ipv6Header, f.iplen - Ipv6Header)
    BY <1>1, <1>4 DEF Fate, Ipv6Fwd
  <2>2. ~(TcpHeader >= f.iplen - Ipv6Header)
    BY <1>1, <2>1 DEF Parse
  <2>3. Fate(f) = [to |-> "http", at |-> Ipv6Header + TcpHeader,
                   len |-> f.iplen - Ipv6Header - TcpHeader]
    BY <2>1, <2>2 DEF Parse
  <2> QED BY <1>2, <1>4, <2>1, <2>2, <2>3 DEF HeaderOf
<1> QED
  BY <1>1, <1>3, <1>4 DEF Fate

(* Whatever the length fields say the parser gets at least one byte, and   *)
(* none beyond the end of a wellformed packet.                             *)
THEOREM ParsedSafe == Spec => []ParsedWithin
<1>1. ASSUME IInv, done.to = "http"
      PROVE  /\ done.len > 0 /\ frame.tcp /\ frame.flag = frame.type
             /\ Wellformed(frame) => done.at + done.len <= Total(frame)
  <2>1. frame \in Frame /\ done = Fate(frame)
    BY <1>1 DEF IInv, Waiting
  <2>2. PICK header \in {4 * frame.ihl, Ipv6Header} :
           /\ frame.tcp /\ frame.flag = frame.type
           /\ header = HeaderOf(frame)
           /\ frame.iplen - header > TcpHeader
           /\ done.at = header + TcpHeader
           /\ done.len = frame.iplen - header - TcpHeader
    BY <1>1, <2>1, ParsedBytes
  <2>3. frame.iplen \in Nat /\ header \in Nat /\ TcpHeader \in Nat /\ Ipv6Header \in Nat
    BY <2>1, <2>2, FrameFields
  <2>4. done.len > 0 /\ done.at + done.len = frame.iplen
    BY <2>2, <2>3
  <2>5. frame.iplen <= Total(frame)
    BY <2>3 DEF Total
  <2> QED BY <2>2, <2>4, <2>5
<1>2. IInv => ParsedWithin
  BY <1>1 DEF ParsedWithin
<1> QED
  BY <1>2, Inductive, PTL

(* For IPv4 segments without TCP options the parser gets the payload, all  *)
(* of it and nothing else, whatever the length of the IP header.           *)
THEOREM PayloadRight == Spec => []Ipv4Payload
<1>1. ASSUME IInv, Wellformed(frame), frame.type = "v4", 4 * frame.doff = TcpHeader,
             done # Waiting
      PROVE  IF PayloadLen(frame) = 0 THEN done = Default
             ELSE done = [to |-> "http", at |-> PayloadAt(frame), len |-> PayloadLen(frame)]
  <2> DEFINE header == 4 * frame.ihl
             len    == frame.iplen - header
  <2>1. frame \in Frame /\ done = Fate(frame)
    BY <1>1 DEF IInv
  <2>2. frame.iplen \in Nat /\ header \in Nat /\ TcpHeader \in Nat
    BY <2>1, FrameFields
  <2>3. done = Parse(header, len)
    BY <1>1, <2>1 DEF Fate, Ipv4Fwd, Wellformed
  <2>4. PayloadAt(frame) = header + TcpHeader /\ PayloadLen(frame) = frame.iplen - (header + TcpHeader)
    BY <1>1 DEF PayloadAt, PayloadLen, Total, HeaderOf
  <2>5. header + TcpHeader <= frame.iplen
    BY <1>1 DEF Wellformed, HeaderOf, Total
  <2> HIDE DEF header
  <2>6. CASE PayloadLen(frame) = 0
    BY <2>2, <2>3, <2>4, <2>6 DEF Parse
  <2>7. CASE PayloadLen(frame) # 0
    <3>1. ~(TcpHeader >= len) /\ len - TcpHeader = PayloadLen(frame)
      BY <2>2, <2>4, <2>5, <2>7
    <3> QED BY <3>1, <2>3, <2>4, <2>7 DEF Parse
  <2> QED BY <2>6, <2>7
<1>2. IInv => Ipv4Payload
  BY <1>1 DEF Ipv4Payload
<1> QED
  BY <1>2, Inductive, PTL
===============================================================================
