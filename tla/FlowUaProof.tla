------------------------------ MODULE FlowUaProof ------------------------------
(***************************************************************************)
(* Proofs about FlowUa and the parser of FlowHttp inside it, for every     *)
(* length of values, of numbers and of the node's text.                    *)
(***************************************************************************)
EXTENDS FlowUa, TLAPS

-------------------------------------------------------------------------------
(* The invariant of the parser.                                            *)

Flag == {"upgrade", "conn-upgrade", "keep-alive", "close", "chunked", "trailing"}

HeaderState ==
  {"general", "connection", "content-length", "transfer-encoding", "upgrade",
   "chunked", "token_start", "token", "keep-alive", "close", "conn-upgrade"}

Parser ==
  [state : States, method : {"connect", "other"}, v11 : BOOLEAN,
   hstate : HeaderState, name : Names \cup {"other"}, flags : SUBSET Flag,
   length : Unset..MaxLength, upgrade : BOOLEAN, err : BOOLEAN]

Mark == {"url", "field", "value", "body"}

Callback == {"begin", "url", "field", "value", "headers_complete", "body", "complete"}

Call == [cb : Callback, name : KnownNames, len : Nat]

RequestLine == {"req_method", "req_spaces_before_url", "req_schema", "req_path",
                "req_http_start", "req_http_version", "req_line_almost_done"}

Chunk == {"chunk_size_start", "chunk_size", "chunk_parameters",
          "chunk_size_almost_done", "chunk_data", "chunk_data_almost_done",
          "chunk_data_done"}

(* What is read is marked.                                                 *)
Marked ==
  /\ parser.state \in {"req_schema", "req_path"} => "url" \in marks
  /\ parser.state = "header_field" => "field" \in marks
  /\ parser.state = "header_value" => "value" \in marks

(* The lengths that are counted are numbers, and what AssertionsHold says. *)
Lengths ==
  /\ parser.state = "header_value" /\ parser.hstate = "content-length"
       => parser.length # Unset
  /\ parser.state \in Chunk \ {"chunk_size_start"} => parser.length # Unset
  /\ parser.state \in {"body_identity", "chunk_data"} => parser.length \notin {0, Unset}
  /\ parser.state = "chunk_data_almost_done" => parser.length = 0
  /\ parser.state \in Chunk => "chunked" \in parser.flags
  /\ parser.state = "header_value" =>
       parser.hstate \notin {"connection", "transfer-encoding"}

(* The callback made last, by the state; in the headers also by whether    *)
(* they trail a chunked body.                                              *)
Placed ==
  /\ parser.state = "start_req" => last \in {"none", "complete"}
  /\ parser.state = "dead" => last = "complete"
  /\ parser.state \in {"req_method", "req_spaces_before_url", "req_schema", "req_path"}
       => last = "begin"
  /\ parser.state \in {"req_http_start", "req_http_version", "req_line_almost_done"}
       => last = "url"
  /\ parser.state \in RequestLine => "trailing" \notin parser.flags
  /\ parser.state \in {"header_field_start", "header_field", "headers_almost_done"}
       => IF "trailing" \in parser.flags THEN last \in {"value", "headers_complete", "body"}
                                         ELSE last \in {"url", "value"}
  /\ parser.state \in {"discard_ws", "discard_ws_almost_done", "discard_lws"} => last = "field"
  /\ parser.state = "header_value" => last \in {"field", "value"}
  /\ parser.state \in {"header_almost_done", "header_value_lws", "header_value_start"}
       => last = "value"
  /\ parser.state \in {"headers_done", "body_identity"} => last = "headers_complete"
  /\ parser.state = "message_done" => last = "body"
  /\ parser.state \in Chunk => last \in {"headers_complete", "body"}

Kept ==
  /\ parser \in Parser /\ marks \subseteq Mark /\ MarkedIn
  /\ ~parser.err => Marked /\ Lengths /\ Placed

(* The step makes no callback, or one that may follow the last.            *)
Ordered ==
  calls' = << >> \/ \E k \in Call : calls' = <<k>> /\ k.cb \in Follows[last]

LEMMA FollowsFacts ==
  /\ "begin" \in Follows["none"] /\ "begin" \in Follows["complete"]
  /\ "url" \in Follows["begin"]
  /\ "field" \in Follows["url"] /\ "field" \in Follows["value"]
  /\ "field" \in Follows["headers_complete"] /\ "field" \in Follows["body"]
  /\ "value" \in Follows["field"] /\ "value" \in Follows["value"]
  /\ "headers_complete" \in Follows["url"] /\ "headers_complete" \in Follows["value"]
  /\ "body" \in Follows["headers_complete"] /\ "body" \in Follows["body"]
  /\ "complete" \in Follows["value"] /\ "complete" \in Follows["headers_complete"]
  /\ "complete" \in Follows["body"]
  BY DEF Follows

LEMMA Remembered ==
  ASSUME Remember
  PROVE  /\ calls' = << >> => last' = last
         /\ \A k : calls' = <<k>> => last' = k.cb
<1>1. ASSUME NEW k, calls' = <<k>> PROVE last' = k.cb
  <2>1. calls' # << >> /\ calls'[Len(calls')] = k
    BY <1>1
  <2> QED
    BY <2>1 DEF Remember
<1> QED
  BY <1>1 DEF Remember

(* A turn that fails, and one that only goes to another state.             *)
LEMMA FailKept ==
  ASSUME Kept, ~parser.err, Fail, Remember
  PROVE  Kept' /\ Ordered
  BY DEF Kept, Fail, Update, Eat, Silent, Parser, MarkedIn, Ordered

LEMMA GoKept ==
  ASSUME Kept, ~parser.err, Remember, calls' = << >>, marks' = marks,
         NEW s \in States, parser' = To(s)
  PROVE  /\ parser' \in Parser /\ parser'.state = s /\ last' = last /\ Ordered
         /\ parser'.err = parser.err /\ parser'.flags = parser.flags
         /\ parser'.length = parser.length /\ parser'.hstate = parser.hstate
  BY Remembered DEF Kept, To, Parser, Ordered

(* The callback of a data mark that is set.                                *)
LEMMA DataKept ==
  ASSUME Kept, Remember, NEW cb \in Mark, NEW n \in Nat, Data(cb, n),
         cb \in marks, cb \in Follows[last]
  PROVE  last' = cb /\ marks' = marks \ {cb} /\ Ordered
<1>1. parser.name \in KnownNames
  BY HttpAssumption DEF Kept, Parser, KnownNames
<1> DEFINE k == [cb |-> cb, name |-> parser.name, len |-> n]
<1>2. calls' = <<k>> /\ k.cb = cb /\ k \in Call /\ marks' = marks \ {cb}
  BY <1>1 DEF Data, Call, Callback, Mark
<1> HIDE DEF k
<1>3. last' = cb
  BY <1>2, Remembered
<1> QED
  BY <1>2, <1>3 DEF Ordered

LEMMA NotifyKept ==
  ASSUME Kept, Remember, NEW cb \in Callback, Notify(cb), cb \in Follows[last]
  PROVE  last' = cb /\ Ordered
<1>1. parser.name \in KnownNames
  BY HttpAssumption DEF Kept, Parser, KnownNames
<1> DEFINE k == [cb |-> cb, name |-> parser.name, len |-> 0]
<1>2. calls' = <<k>> /\ k.cb = cb /\ k \in Call
  BY <1>1 DEF Notify, Call
<1> HIDE DEF k
<1>3. last' = cb
  BY <1>2, Remembered
<1> QED
  BY <1>2, <1>3 DEF Ordered

-------------------------------------------------------------------------------
(* One turn of the loop, by the parts of a message.                        *)

LEMMA RequestKept ==
  ASSUME Kept, ~parser.err, Remember, NEW c \in Sym,
         \/ Dead(c) \/ StartReq(c) \/ ReqMethod(c) \/ ReqSpaces(c) \/ ReqSchema(c)
         \/ ReqPath(c) \/ ReqHttpStart(c) \/ ReqHttpVersion(c) \/ ReqLineAlmostDone(c)
  PROVE  Kept' /\ Ordered
<1>1. ASSUME NEW s \in {"dead", "start_req", "req_method", "req_spaces_before_url",
                       "req_http_start", "req_http_version", "req_line_almost_done",
                       "header_field_start"},
             calls' = << >>, marks' = marks, parser' = To(s),
             \/ s = parser.state
             \/ parser.state = "req_method" /\ s = "req_spaces_before_url"
             \/ /\ parser.state \in {"req_http_start", "req_http_version", "req_line_almost_done"}
                /\ s \in {"req_http_version", "req_line_almost_done", "header_field_start"}
      PROVE  Kept' /\ Ordered
  <2>1. s \in States
    BY DEF States
  <2>2. /\ parser' \in Parser /\ parser'.state = s /\ last' = last /\ Ordered
        /\ parser'.err = parser.err /\ parser'.flags = parser.flags
    BY <1>1, <2>1, GoKept
  <2>3. Marked' /\ Lengths'
    BY <2>2 DEF Marked, Lengths, Chunk
  <2>4. Placed'
    BY <1>1, <2>2 DEF Kept, Placed, RequestLine, Chunk
  <2>5. MarkedIn'
    BY <1>1, <2>2 DEF Kept, MarkedIn
  <2> QED
    BY <1>1, <2>2, <2>3, <2>4, <2>5 DEF Kept
<1>2. CASE Dead(c)
  BY <1>1, <1>2, FailKept DEF Dead, Go, Update, Silent
<1>3. CASE StartReq(c)
  <2>1. CASE Go("start_req")
    BY <1>1, <1>3, <2>1 DEF StartReq, Go, Update, Silent
  <2>2. CASE Fail
    BY <2>2, FailKept
  <2>3. ASSUME NEW m \in {"connect", "other"},
               parser' = [parser EXCEPT !.state = "req_method", !.method = m,
                                        !.flags = {}, !.length = Unset],
               Notify("begin"), UNCHANGED marks
        PROVE  Kept' /\ Ordered
    <3>1. last \in {"none", "complete"}
      BY <1>3 DEF Kept, Placed, StartReq
    <3>2. last' = "begin" /\ Ordered
      BY <2>3, <3>1, FollowsFacts, NotifyKept DEF Callback
    <3>3. Unset \in Unset..MaxLength
      BY HttpAssumption DEF Unset
    <3>4. parser' \in Parser /\ parser'.state = "req_method" /\ parser'.flags = {}
      BY <2>3, <3>3 DEF Kept, Parser, States
    <3>5. Marked' /\ Lengths' /\ Placed'
      BY <3>2, <3>4 DEF Marked, Lengths, Placed, RequestLine, Chunk
    <3>6. MarkedIn'
      BY <1>3, <2>3, <3>4 DEF Kept, MarkedIn, StartReq
    <3> QED
      BY <2>3, <3>2, <3>4, <3>5, <3>6 DEF Kept
  <2> QED
    BY <1>3, <2>1, <2>2, <2>3 DEF StartReq, Update
<1>4. CASE ReqMethod(c)
  BY <1>1, <1>4, FailKept DEF ReqMethod, Go, Update, Silent
<1>5. ASSUME NEW s \in {"req_path", "req_schema", parser.state}, Url(s, c), s \in States,
             parser.state \in {"req_spaces_before_url", "req_schema", "req_path"},
             calls' = << >>, marks' = marks \cup {"url"}
      PROVE  Kept' /\ Ordered
  <2>1. \/ parser' = [parser EXCEPT !.err = TRUE]
        \/ parser' = To("req_path") \/ parser' = To("req_schema")
    BY <1>5 DEF Url, UrlChar, Update
  <2>2. /\ parser' \in Parser /\ parser'.flags = parser.flags
        /\ parser'.err \/ parser'.state \in {"req_path", "req_schema"}
        /\ parser'.state \in {"req_spaces_before_url", "req_schema", "req_path"}
    BY <1>5, <2>1 DEF Kept, To, Parser, States
  <2>3. marks \subseteq {"url"} /\ marks' = {"url"}
    BY <1>5 DEF Kept, MarkedIn, Mark
  <2>4. MarkedIn' /\ marks' \subseteq Mark
    BY <2>2, <2>3 DEF MarkedIn, Mark
  <2>5. last' = last /\ Ordered
    BY <1>5, Remembered DEF Ordered
  <2>6. ~parser'.err => Marked' /\ Lengths' /\ Placed'
    BY <1>5, <2>2, <2>5 DEF Kept, Marked, Lengths, Placed, RequestLine, Chunk
  <2> QED
    BY <2>2, <2>4, <2>5, <2>6 DEF Kept
<1>6. CASE ReqSpaces(c)
  <2>1. CASE c = "sp"
    BY <1>1, <1>6, <2>1 DEF ReqSpaces, Go, Update, Silent
  <2>2. CASE c # "sp"
    <3>1. "req_path" \in States /\ "req_spaces_before_url" \in States
      BY DEF States
    <3> QED
      BY <1>5, <1>6, <2>2, <3>1 DEF ReqSpaces
  <2> QED
    BY <2>1, <2>2
<1>7. CASE ReqSchema(c) \/ (ReqPath(c) /\ c \notin {"sp", "cr", "lf"})
  <2>1. marks = marks \cup {"url"} /\ "req_path" \in States /\ "req_schema" \in States
    BY <1>7 DEF Kept, Marked, States, ReqSchema, ReqPath
  <2> QED
    BY <1>5, <1>7, <2>1, FailKept DEF ReqSchema, ReqPath, Silent
<1>8. CASE ReqPath(c) /\ c \in {"sp", "cr", "lf"}
  <2> DEFINE s == CASE c = "sp" -> "req_http_start"
                    [] c = "cr" -> "req_line_almost_done"
                    [] c = "lf" -> "header_field_start"
  <2>1. /\ parser.state = "req_path" /\ Data("url", 0)
        /\ parser' = [To(s) EXCEPT !.v11 = IF c = "sp" THEN @ ELSE FALSE]
    BY <1>8 DEF ReqPath, Update
  <2>2. s \in {"req_http_start", "req_line_almost_done", "header_field_start"}
    BY <1>8
  <2> HIDE DEF s
  <2>3. /\ parser' \in Parser /\ parser'.state = s /\ parser'.err = parser.err
        /\ parser'.flags = parser.flags
    BY <2>1, <2>2 DEF Kept, To, Parser, States
  <2>4. "url" \in marks /\ last = "begin" /\ "trailing" \notin parser.flags
    BY <2>1 DEF Kept, Marked, Placed, RequestLine
  <2>5. last' = "url" /\ marks' = marks \ {"url"} /\ Ordered
    BY <2>1, <2>4, FollowsFacts, DataKept DEF Mark
  <2>6. marks' = {} /\ MarkedIn'
    BY <2>1, <2>4, <2>5 DEF Kept, MarkedIn
  <2>7. Marked' /\ Lengths' /\ Placed'
    BY <2>2, <2>3, <2>4, <2>5 DEF Marked, Lengths, Placed, RequestLine, Chunk
  <2> QED
    BY <2>3, <2>5, <2>6, <2>7 DEF Kept
<1>9. CASE ReqHttpStart(c)
  <2>1. ASSUME NEW v \in BOOLEAN, Silent,
               parser' = [parser EXCEPT !.state = "req_http_version", !.v11 = v]
        PROVE  Kept' /\ Ordered
    <3>1. last' = last /\ Ordered /\ marks' = marks
      BY <2>1, Remembered DEF Ordered, Silent
    <3>2. /\ parser' \in Parser /\ parser'.state = "req_http_version"
          /\ parser'.flags = parser.flags
      BY <2>1 DEF Kept, Parser, States
    <3>3. Marked' /\ Lengths' /\ Placed' /\ MarkedIn'
      BY <1>9, <3>1, <3>2 DEF Kept, Marked, Lengths, Placed, RequestLine, Chunk, MarkedIn, ReqHttpStart
    <3> QED
      BY <3>1, <3>2, <3>3 DEF Kept
  <2> QED
    BY <1>1, <1>9, <2>1, FailKept DEF ReqHttpStart, Go, Update, Silent
<1>10. CASE ReqHttpVersion(c)
  BY <1>1, <1>10, FailKept DEF ReqHttpVersion, Go, Update, Silent
<1>11. CASE ReqLineAlmostDone(c)
  BY <1>1, <1>11, FailKept DEF ReqLineAlmostDone, Go, Update, Silent
<1> QED
  BY <1>2, <1>3, <1>4, <1>6, <1>7, <1>8, <1>9, <1>10, <1>11

(* The end of a message.                                                   *)
LEMMA CompleteKept ==
  ASSUME Kept, ~parser.err, Remember, Complete, marks = {}, "complete" \in Follows[last]
  PROVE  Kept' /\ Ordered
<1>1. last' = "complete" /\ Ordered /\ marks' = {}
  BY NotifyKept DEF Complete, Callback
<1>2. /\ parser' \in Parser /\ parser'.state \in {"start_req", "dead"}
  BY DEF Kept, Complete, Update, To, Parser, States
<1>3. MarkedIn' /\ Marked' /\ Lengths' /\ Placed'
  BY <1>1, <1>2 DEF MarkedIn, Marked, Lengths, Placed, RequestLine, Chunk
<1> QED
  BY <1>1, <1>2, <1>3 DEF Kept

(* The value of a header begins, or goes on in a new line.                 *)
LEMMA ValueStartKept ==
  ASSUME Kept, ~parser.err, Remember, NEW c \in Sym, ValueStart(c),
         parser.state \in {"discard_ws", "header_value_start"}
  PROVE  Kept' /\ Ordered
<1> DEFINE h == parser.hstate
<1>1. CASE Fail
  BY <1>1, FailKept
<1>2. ASSUME NEW g \in StartValue(h, c), h = "content-length" => c \in Digit,
             parser' = [parser EXCEPT
               !.state = "header_value", !.hstate = g,
               !.flags = IF h = "upgrade" THEN @ \cup {"upgrade"} ELSE @,
               !.length = IF h = "content-length" THEN Value(c) ELSE @],
             calls' = << >>, marks' = marks \cup {"value"}
      PROVE  Kept' /\ Ordered
  <2>1. /\ h \in HeaderState /\ g \in HeaderState
        /\ g \notin {"connection", "transfer-encoding"}
        /\ g = "content-length" => h = "content-length"
    BY <1>2 DEF Kept, Parser, StartValue, HeaderState, ConnectionToken
  <2>2. Value(c) \in 0..1 /\ Value(c) \in Unset..MaxLength /\ Value(c) # Unset
    BY HttpAssumption DEF Value, Unset
  <2>3. /\ parser' \in Parser /\ parser'.state = "header_value" /\ parser'.hstate = g
        /\ h = "content-length" => parser'.length # Unset
    BY <1>2, <2>1, <2>2 DEF Kept, Parser, States, Flag
  <2>4. marks' = {"value"}
    BY <1>2 DEF Kept, MarkedIn, Mark
  <2>5. last' = last /\ Ordered /\ last \in {"field", "value"}
    BY <1>2, Remembered DEF Ordered, Kept, Placed
  <2>6. MarkedIn' /\ marks' \subseteq Mark
    BY <2>3, <2>4 DEF MarkedIn, Mark
  <2>7. Marked' /\ Lengths' /\ Placed'
    BY <2>1, <2>3, <2>4, <2>5 DEF Marked, Lengths, Placed, RequestLine, Chunk
  <2> QED
    BY <2>3, <2>5, <2>6, <2>7 DEF Kept
<1> QED
  BY <1>1, <1>2 DEF ValueStart, Update

(* A header is finished: the next line begins.                             *)
LEMMA FieldDoneKept ==
  ASSUME Kept, ~parser.err, parser' = FieldDone, marks' = marks, last' = "value",
         parser.state \in {"header_value_lws", "discard_lws"}
  PROVE  Kept'
<1>1. /\ parser' \in Parser /\ parser'.state = "header_field_start"
  BY DEF Kept, FieldDone, Parser, States, Flag
<1>2. MarkedIn'
  BY <1>1 DEF Kept, MarkedIn
<1>3. Marked' /\ Lengths' /\ Placed'
  BY <1>1 DEF Marked, Lengths, Placed, RequestLine, Chunk
<1> QED
  BY <1>1, <1>2, <1>3 DEF Kept

(* One more character of a value, or its end.                              *)
LEMMA HeaderValueKept ==
  ASSUME Kept, ~parser.err, Remember, vlen \in Nat, NEW c \in Sym, HeaderValue(c)
  PROVE  Kept' /\ Ordered
<1> DEFINE h     == parser.hstate
           digit == h = "content-length" /\ c # "sp"
<1>0. parser.state = "header_value" /\ "value" \in marks /\ last \in {"field", "value"}
  BY DEF HeaderValue, Kept, Marked, Placed
<1>1. CASE Fail
  BY <1>1, FailKept
<1>2. CASE parser' = To("header_almost_done") /\ Data("value", vlen)
  <2>1. last' = "value" /\ marks' = marks \ {"value"} /\ Ordered
    BY <1>0, <1>2, FollowsFacts, DataKept DEF Mark
  <2>2. parser' \in Parser /\ parser'.state = "header_almost_done"
    BY <1>2 DEF Kept, To, Parser, States
  <2>3. marks' = {} /\ MarkedIn'
    BY <1>0, <2>1 DEF Kept, MarkedIn
  <2>4. Marked' /\ Lengths' /\ Placed'
    BY <2>1, <2>2 DEF Marked, Lengths, Placed, RequestLine, Chunk
  <2> QED
    BY <2>1, <2>2, <2>3, <2>4 DEF Kept
<1>3. ASSUME NEW g \in NextValue(h, c), Silent,
             digit => c \in Digit /\ ~(MoreDigits(parser.length, c) > MaxLength),
             parser' = [parser EXCEPT
               !.hstate = g,
               !.flags = IF c = "comma" /\ h \in ConnectionToken \ {"token"}
                         THEN @ \cup {h} ELSE @,
               !.length = IF digit THEN MoreDigits(@, c) ELSE @]
      PROVE  Kept' /\ Ordered
  <2>1. /\ h \in HeaderState /\ parser.length \in Unset..MaxLength
        /\ h \notin {"connection", "transfer-encoding"}
        /\ h = "content-length" => parser.length # Unset
    BY <1>0 DEF Kept, Parser, Lengths
  <2>2. /\ g \in HeaderState /\ g \notin {"connection", "transfer-encoding"}
        /\ g = "content-length" => h = "content-length"
    BY <1>3, <2>1 DEF NextValue, HeaderState, ConnectionToken
  <2>3. digit => /\ MoreDigits(parser.length, c) \in Unset..MaxLength
                 /\ MoreDigits(parser.length, c) # Unset
    BY <1>3, <2>1, HttpAssumption DEF MoreDigits, Value, Unset
  <2>4. h \in ConnectionToken \ {"token"} => h \in Flag
    BY DEF ConnectionToken, Flag
  <2>5. /\ parser' \in Parser /\ parser'.state = "header_value" /\ parser'.hstate = g
        /\ h = "content-length" => parser'.length # Unset
    BY <1>0, <1>3, <2>1, <2>2, <2>3, <2>4 DEF Kept, Parser
  <2>6. last' = last /\ Ordered /\ marks' = marks
    BY <1>3, Remembered DEF Ordered, Silent
  <2>7. MarkedIn' /\ Marked' /\ Lengths' /\ Placed'
    BY <1>0, <2>2, <2>5, <2>6 DEF Kept, MarkedIn, Marked, Lengths, Placed, RequestLine, Chunk
  <2> QED
    BY <2>5, <2>6, <2>7 DEF Kept
<1> QED
  BY <1>1, <1>2, <1>3 DEF HeaderValue, Update

LEMMA HeaderKept ==
  ASSUME Kept, ~parser.err, Remember, vlen \in Nat, NEW c \in Sym,
         \/ HeaderFieldStart(c) \/ HeaderField(c) \/ DiscardWs(c) \/ HeaderValueStart(c)
         \/ HeaderValue(c) \/ HeaderAlmostDone(c) \/ HeaderValueLws(c)
         \/ DiscardWsAlmostDone(c) \/ DiscardLws(c) \/ HeadersAlmostDone(c)
  PROVE  Kept' /\ Ordered
<1>1. ASSUME NEW s, <<parser.state, s>> \in
               {<<"header_field_start", "headers_almost_done">>, <<"header_field", "header_field">>,
                <<"discard_ws", "discard_ws">>, <<"discard_ws", "discard_ws_almost_done">>,
                <<"discard_ws", "discard_lws">>, <<"discard_ws_almost_done", "discard_lws">>,
                <<"discard_lws", "discard_ws">>, <<"header_almost_done", "header_value_lws">>,
                <<"header_value_lws", "header_value_start">>},
             calls' = << >>, marks' = marks, parser' = To(s)
      PROVE  Kept' /\ Ordered
  <2>1. s \in States
    BY <1>1 DEF States
  <2>2. /\ parser' \in Parser /\ parser'.state = s /\ last' = last /\ Ordered
        /\ parser'.err = parser.err /\ parser'.flags = parser.flags
    BY <1>1, <2>1, GoKept
  <2>3. Marked' /\ Lengths' /\ Placed' /\ MarkedIn'
    BY <1>1, <2>2 DEF Kept, MarkedIn, Marked, Lengths, Placed, RequestLine, Chunk
  <2> QED
    BY <1>1, <2>2, <2>3 DEF Kept
<1>2. CASE HeaderFieldStart(c)
  <2>1. ASSUME NEW n \in Names, calls' = << >>, marks' = marks \cup {"field"},
               parser' = [parser EXCEPT !.state = "header_field", !.name = n,
                                        !.hstate = NameState(n)]
        PROVE  Kept' /\ Ordered
    <3>1. NameState(n) \in HeaderState
      BY HttpAssumption DEF NameState, HeaderState, KnownNames
    <3>2. /\ parser' \in Parser /\ parser'.state = "header_field"
          /\ parser'.flags = parser.flags
      BY <2>1, <3>1 DEF Kept, Parser, States
    <3>3. marks' = {"field"} /\ parser.state = "header_field_start"
      BY <1>2, <2>1 DEF Kept, MarkedIn, Mark, HeaderFieldStart
    <3>4. last' = last /\ Ordered
      BY <2>1, Remembered DEF Ordered
    <3>5. MarkedIn' /\ marks' \subseteq Mark
      BY <3>2, <3>3 DEF MarkedIn, Mark
    <3>6. Marked' /\ Lengths' /\ Placed'
      BY <3>2, <3>3, <3>4 DEF Kept, Marked, Lengths, Placed, RequestLine, Chunk
    <3> QED
      BY <3>2, <3>4, <3>5, <3>6 DEF Kept
  <2>2. CASE c \in {"cr", "lf"} /\ parser' = To("headers_almost_done") /\ Silent
    <3>1. parser.state = "header_field_start" /\ calls' = << >> /\ marks' = marks
      BY <1>2, <2>2 DEF HeaderFieldStart, Silent
    <3> QED
      BY <1>1, <2>2, <3>1
  <2> QED
    BY <1>2, <2>1, <2>2, FailKept DEF HeaderFieldStart, Go, Again, Update
<1>3. CASE HeaderField(c)
  <2>1. CASE parser' = To("discard_ws") /\ Data("field", 1)
    <3>1. /\ parser.state = "header_field" /\ "field" \in marks
          /\ last \in {"url", "value", "headers_complete", "body"}
      BY <1>3 DEF HeaderField, Kept, Marked, Placed
    <3>2. last' = "field" /\ marks' = marks \ {"field"} /\ Ordered
      BY <2>1, <3>1, FollowsFacts, DataKept DEF Mark
    <3>3. parser' \in Parser /\ parser'.state = "discard_ws"
      BY <2>1 DEF Kept, To, Parser, States
    <3>4. marks' = {} /\ MarkedIn'
      BY <3>1, <3>2 DEF Kept, MarkedIn
    <3>5. Marked' /\ Lengths' /\ Placed'
      BY <3>2, <3>3 DEF Marked, Lengths, Placed, RequestLine, Chunk
    <3> QED
      BY <3>2, <3>3, <3>4, <3>5 DEF Kept
  <2> QED
    BY <1>1, <1>3, <2>1, FailKept DEF HeaderField, Go, Update, Silent
<1>4. CASE DiscardWs(c)
  BY <1>1, <1>4, ValueStartKept DEF DiscardWs, Go, Update, Silent
<1>5. CASE HeaderValueStart(c)
  BY <1>5, ValueStartKept DEF HeaderValueStart
<1>6. CASE HeaderValue(c)
  BY <1>6, HeaderValueKept
<1>7. CASE HeaderAlmostDone(c) \/ DiscardWsAlmostDone(c)
  BY <1>1, <1>7, FailKept DEF HeaderAlmostDone, DiscardWsAlmostDone, Go, Update, Silent
<1>8. CASE HeaderValueLws(c)
  <2>1. CASE parser' = FieldDone /\ Silent
    <3>1. last' = last /\ Ordered /\ marks' = marks /\ last = "value"
      BY <1>8, <2>1, Remembered DEF Ordered, Silent, HeaderValueLws, Kept, Placed
    <3> QED
      BY <1>8, <2>1, <3>1, FieldDoneKept DEF HeaderValueLws
  <2> QED
    BY <1>1, <1>8, <2>1 DEF HeaderValueLws, Again, Update, Silent
<1>9. CASE DiscardLws(c)
  <2> DEFINE k == [cb |-> "value", name |-> parser.name, len |-> 0]
  <2>1. CASE parser' = FieldDone /\ calls' = <<k>> /\ marks' = marks
    <3>1. parser.name \in KnownNames /\ last = "field"
      BY <1>9, HttpAssumption DEF Kept, Parser, KnownNames, DiscardLws, Placed
    <3>2. k \in Call /\ k.cb = "value"
      BY <3>1 DEF Call, Callback
    <3> HIDE DEF k
    <3>3. last' = "value" /\ Ordered
      BY <2>1, <3>1, <3>2, FollowsFacts, Remembered DEF Ordered
    <3> QED
      BY <1>9, <2>1, <3>3, FieldDoneKept DEF DiscardLws
  <2> QED
    BY <1>1, <1>9, <2>1 DEF DiscardLws, Go, Update, Silent
<1>10. CASE HeadersAlmostDone(c)
  <2>0. parser.state = "headers_almost_done" /\ marks = {}
    BY <1>10 DEF HeadersAlmostDone, Kept, MarkedIn, Mark
  <2>1. CASE Fail
    BY <2>1, FailKept
  <2>2. CASE "trailing" \in parser.flags /\ Complete
    BY <2>0, <2>2, CompleteKept, FollowsFacts DEF Kept, Placed
  <2>3. ASSUME "trailing" \notin parser.flags, NEW u \in BOOLEAN,
               parser' = [parser EXCEPT !.state = "headers_done", !.upgrade = u],
               Notify("headers_complete"), UNCHANGED marks
        PROVE  Kept' /\ Ordered
    <3>1. last \in {"url", "value"}
      BY <2>0, <2>3 DEF Kept, Placed
    <3>2. last' = "headers_complete" /\ Ordered
      BY <2>3, <3>1, FollowsFacts, NotifyKept DEF Callback
    <3>3. parser' \in Parser /\ parser'.state = "headers_done"
      BY <2>3 DEF Kept, Parser, States
    <3>4. MarkedIn' /\ Marked' /\ Lengths' /\ Placed'
      BY <2>0, <2>3, <3>2, <3>3 DEF MarkedIn, Marked, Lengths, Placed, RequestLine, Chunk
    <3> QED
      BY <2>0, <2>3, <3>2, <3>3, <3>4 DEF Kept
  <2> QED
    BY <1>10, <2>1, <2>2, <2>3 DEF HeadersAlmostDone, Update
<1> QED
  BY <1>2, <1>3, <1>4, <1>5, <1>6, <1>7, <1>8, <1>9, <1>10

(* One character of the body is counted.                                   *)
LEMMA CountKept ==
  ASSUME Kept, NEW n \in Unset..MaxLength, NEW s \in States,
         parser' = [parser EXCEPT !.length = n, !.state = s]
  PROVE  /\ parser' \in Parser /\ parser'.state = s /\ parser'.length = n
         /\ parser'.flags = parser.flags
  BY DEF Kept, Parser

LEMMA BodyKept ==
  ASSUME Kept, ~parser.err, Remember, NEW c \in Sym,
         \/ HeadersDone(c) \/ BodyIdentity(c) \/ MessageDone(c) \/ ChunkSizeStart(c)
         \/ ChunkSize(c) \/ ChunkParameters(c) \/ ChunkSizeAlmostDone(c) \/ ChunkData(c)
         \/ ChunkDataAlmostDone(c) \/ ChunkDataDone(c)
  PROVE  Kept' /\ Ordered
<1>1. ASSUME NEW s, parser' = To(s), calls' = << >>, marks' = marks,
             \/ /\ parser.state = "headers_done"
                /\ \/ s = "chunk_size_start" /\ "chunked" \in parser.flags
                   \/ s = "body_identity" /\ parser.length \notin {0, Unset}
             \/ /\ parser.state \in {"chunk_size", "chunk_parameters"}
                /\ s \in {"chunk_parameters", "chunk_size_almost_done"}
             \/ /\ parser.state = "chunk_size_almost_done" /\ s = "chunk_data"
                /\ parser.length # 0
             \/ parser.state = "chunk_data_done" /\ s = "chunk_size_start"
      PROVE  Kept' /\ Ordered
  <2>1. s \in States
    BY <1>1 DEF States
  <2>2. /\ parser' \in Parser /\ parser'.state = s /\ last' = last /\ Ordered
        /\ parser'.err = parser.err /\ parser'.flags = parser.flags
        /\ parser'.length = parser.length
    BY <1>1, <2>1, GoKept
  <2>3. Marked' /\ MarkedIn' /\ Placed'
    BY <1>1, <2>2 DEF Kept, MarkedIn, Marked, Placed, RequestLine, Chunk
  <2>4. Lengths'
    BY <1>1, <2>2 DEF Kept, Lengths, Chunk
  <2> QED
    BY <1>1, <2>2, <2>3, <2>4 DEF Kept
<1>2. ASSUME NEW n \in Unset..MaxLength, n # Unset, Silent,
             parser.state \in {"chunk_size_start", "chunk_size"},
             parser' = [parser EXCEPT !.state = "chunk_size", !.length = n]
      PROVE  Kept' /\ Ordered
  <2>1. last' = last /\ Ordered /\ marks' = marks
    BY <1>2, Remembered DEF Ordered, Silent
  <2>2. /\ parser' \in Parser /\ parser'.state = "chunk_size" /\ parser'.length = n
        /\ parser'.flags = parser.flags
    BY <1>2 DEF Kept, Parser, States
  <2>3. MarkedIn' /\ Marked' /\ Lengths' /\ Placed'
    BY <1>2, <2>1, <2>2 DEF Kept, MarkedIn, Marked, Lengths, Placed, RequestLine, Chunk
  <2> QED
    BY <2>1, <2>2, <2>3 DEF Kept
<1>3. ASSUME NEW c1 \in Sym
      PROVE  Value(c1) \in Unset..MaxLength /\ Value(c1) # Unset
  BY HttpAssumption DEF Value, Unset
<1>4. CASE HeadersDone(c)
  <2>1. CASE Complete
    <3>1. marks = {} /\ last = "headers_complete"
      BY <1>4 DEF HeadersDone, Kept, MarkedIn, Mark, Placed
    <3> QED
      BY <2>1, <3>1, CompleteKept, FollowsFacts
  <2> QED
    BY <1>1, <1>4, <2>1, FailKept DEF HeadersDone, Go, Update, Silent
<1>5. CASE BodyIdentity(c)
  <2>1. /\ parser.state = "body_identity" /\ last = "headers_complete"
        /\ parser.length \in 1..MaxLength /\ marks \subseteq {"body"}
    BY <1>5, HttpAssumption DEF BodyIdentity, Kept, Parser, Lengths, Placed, MarkedIn, Mark, Unset
  <2>2. CASE parser.length = 1
    <3> DEFINE k == [cb |-> "body", name |-> parser.name, len |-> 1]
    <3>1. calls' = <<k>> /\ marks' = {} /\ k \in Call /\ k.cb = "body"
      BY <1>5, <2>1, <2>2, HttpAssumption
      DEF BodyIdentity, Kept, Parser, Call, Callback, KnownNames
    <3> HIDE DEF k
    <3>2. last' = "body" /\ Ordered
      BY <2>1, <3>1, Remembered, FollowsFacts DEF Ordered
    <3>3. parser' \in Parser /\ parser'.state = "message_done"
      <4>1. /\ 0 \in Unset..MaxLength /\ "message_done" \in States
            /\ parser' = [parser EXCEPT !.length = 0, !.state = "message_done"]
        BY <1>5, <2>2, HttpAssumption DEF BodyIdentity, Update, States, Unset
      <4> QED
        BY <4>1, CountKept
    <3>4. MarkedIn' /\ Marked' /\ Lengths' /\ Placed'
      BY <3>1, <3>2, <3>3 DEF MarkedIn, Marked, Lengths, Placed, RequestLine, Chunk
    <3> QED
      BY <3>1, <3>2, <3>3, <3>4 DEF Kept
  <2>3. CASE parser.length # 1
    <3>1. calls' = << >> /\ marks' = {"body"} /\ last' = last /\ Ordered
      BY <1>5, <2>1, <2>3, Remembered DEF BodyIdentity, Ordered
    <3>2. parser.length - 1 \in 1..MaxLength
      BY <2>1, <2>3, HttpAssumption
    <3>3. /\ parser' \in Parser /\ parser'.state = "body_identity"
          /\ parser'.length \notin {0, Unset}
      <4> DEFINE n == parser.length - 1
      <4>1. /\ n \in Unset..MaxLength /\ n \notin {0, Unset} /\ "body_identity" \in States
            /\ parser' = [parser EXCEPT !.length = n, !.state = "body_identity"]
        BY <1>5, <2>1, <2>3, <3>2, HttpAssumption DEF BodyIdentity, Update, States, Unset
      <4> HIDE DEF n
      <4> QED
        BY <4>1, CountKept
    <3>4. MarkedIn' /\ Marked' /\ Lengths' /\ Placed' /\ marks' \subseteq Mark
      BY <2>1, <3>1, <3>3 DEF MarkedIn, Marked, Lengths, Placed, RequestLine, Chunk, Mark
    <3> QED
      BY <3>1, <3>3, <3>4 DEF Kept
  <2> QED
    BY <2>2, <2>3
<1>6. CASE MessageDone(c)
  <2>1. marks = {} /\ last = "body"
    BY <1>6 DEF MessageDone, Kept, MarkedIn, Mark, Placed
  <2> QED
    BY <1>6, <2>1, CompleteKept, FollowsFacts DEF MessageDone
<1>7. CASE ChunkSizeStart(c)
  BY <1>2, <1>3, <1>7, FailKept DEF ChunkSizeStart, Update
<1>8. CASE ChunkSize(c)
  <2>1. ASSUME ~(MoreDigits(parser.length, c) > MaxLength), Silent,
               parser' = [parser EXCEPT !.length = MoreDigits(@, c)]
        PROVE  Kept' /\ Ordered
    <3>1. parser.state = "chunk_size" /\ parser.length \in 0..MaxLength
      BY <1>8, HttpAssumption DEF ChunkSize, Kept, Parser, Lengths, Chunk, Unset
    <3>2. /\ MoreDigits(parser.length, c) \in Unset..MaxLength
          /\ MoreDigits(parser.length, c) # Unset
      BY <2>1, <3>1, HttpAssumption DEF MoreDigits, Value, Unset
    <3>3. parser' = [parser EXCEPT !.state = "chunk_size",
                                   !.length = MoreDigits(parser.length, c)]
      BY <2>1, <3>1 DEF Kept, Parser
    <3> QED
      BY <1>2, <2>1, <3>1, <3>2, <3>3
  <2>2. parser.state = "chunk_size"
    BY <1>8 DEF ChunkSize
  <2> QED
    BY <1>1, <1>8, <2>1, <2>2, FailKept DEF ChunkSize, Go, Update, Silent
<1>9. CASE ChunkParameters(c)
  BY <1>1, <1>9 DEF ChunkParameters, Go, Update, Silent
<1>10. CASE ChunkSizeAlmostDone(c)
  <2>1. CASE /\ Silent
             /\ parser' = [parser EXCEPT !.state = "header_field_start",
                                         !.flags = @ \cup {"trailing"}]
    <3>1. last' = last /\ Ordered /\ marks' = marks
      BY <2>1, Remembered DEF Ordered, Silent
    <3>2. /\ parser' \in Parser /\ parser'.state = "header_field_start"
          /\ "trailing" \in parser'.flags
      BY <2>1 DEF Kept, Parser, States, Flag
    <3>3. MarkedIn' /\ Marked' /\ Lengths' /\ Placed'
      BY <1>10, <3>1, <3>2
      DEF ChunkSizeAlmostDone, Kept, MarkedIn, Marked, Lengths, Placed, RequestLine, Chunk
    <3> QED
      BY <3>1, <3>2, <3>3 DEF Kept
  <2> QED
    BY <1>1, <1>10, <2>1, FailKept DEF ChunkSizeAlmostDone, Go, Update, Silent
<1>11. CASE ChunkData(c)
  <2>1. /\ parser.state = "chunk_data" /\ last \in {"headers_complete", "body"}
        /\ parser.length \in 1..MaxLength /\ marks \subseteq {"body"}
        /\ "chunked" \in parser.flags
    BY <1>11, HttpAssumption
    DEF ChunkData, Kept, Parser, Lengths, Placed, MarkedIn, Mark, Unset, Chunk
  <2>2. calls' = << >> /\ marks' = {"body"} /\ last' = last /\ Ordered
    BY <1>11, <2>1, Remembered DEF ChunkData, Ordered
  <2>3. parser.length - 1 \in 0..MaxLength /\ (parser.length - 1 = 0 <=> parser.length = 1)
    BY <2>1, HttpAssumption
  <2>4. /\ parser' \in Parser /\ parser'.flags = parser.flags
        /\ parser'.length = parser.length - 1
        /\ parser'.state = IF parser.length = 1 THEN "chunk_data_almost_done" ELSE "chunk_data"
    <3> DEFINE n == parser.length - 1
               s == IF parser.length = 1 THEN "chunk_data_almost_done" ELSE "chunk_data"
    <3>1. /\ n \in Unset..MaxLength /\ s \in States
          /\ parser' = [parser EXCEPT !.length = n, !.state = s]
      BY <1>11, <2>1, <2>3, HttpAssumption DEF ChunkData, Update, States, Unset
    <3> HIDE DEF n, s
    <3>2. /\ parser' \in Parser /\ parser'.state = s /\ parser'.length = n
          /\ parser'.flags = parser.flags
      BY <3>1, CountKept
    <3> QED
      BY <3>2 DEF n, s
  <2>5. MarkedIn' /\ Marked' /\ Placed' /\ marks' \subseteq Mark
    BY <2>1, <2>2, <2>4 DEF MarkedIn, Marked, Placed, RequestLine, Chunk, Mark
  <2>6. Lengths'
    BY <2>1, <2>3, <2>4 DEF Lengths, Chunk, Unset
  <2> QED
    BY <2>2, <2>4, <2>5, <2>6 DEF Kept
<1>12. CASE ChunkDataAlmostDone(c)
  <2>1. CASE parser' = To("chunk_data_done") /\ Data("body", 1)
    <3>1. /\ parser.state = "chunk_data_almost_done" /\ marks \subseteq {"body"}
          /\ last \in {"headers_complete", "body"} /\ "chunked" \in parser.flags
          /\ parser.length = 0
      BY <1>12 DEF ChunkDataAlmostDone, Kept, MarkedIn, Mark, Placed, Lengths, Chunk
    <3>2. last' \in {"headers_complete", "body"} /\ Ordered /\ marks' = {}
      <4>1. CASE "body" \in marks
        <5>1. last' = "body" /\ marks' = marks \ {"body"} /\ Ordered
          BY <2>1, <3>1, <4>1, FollowsFacts, DataKept DEF Mark
        <5> QED
          BY <3>1, <5>1
      <4>2. CASE "body" \notin marks
        BY <2>1, <3>1, <4>2, Remembered DEF Data, Ordered
      <4> QED
        BY <4>1, <4>2
    <3>3. /\ parser' \in Parser /\ parser'.state = "chunk_data_done"
          /\ parser'.flags = parser.flags /\ parser'.length = 0
      BY <2>1, <3>1 DEF Kept, To, Parser, States
    <3>4. MarkedIn' /\ Marked' /\ Lengths' /\ Placed'
      BY <3>1, <3>2, <3>3 DEF MarkedIn, Marked, Lengths, Placed, RequestLine, Chunk, Unset
    <3> QED
      BY <3>2, <3>3, <3>4 DEF Kept
  <2> QED
    BY <1>12, <2>1, FailKept DEF ChunkDataAlmostDone, Update
<1>13. CASE ChunkDataDone(c)
  BY <1>1, <1>13, FailKept DEF ChunkDataDone, Go, Update, Silent
<1> QED
  BY <1>4, <1>5, <1>6, <1>7, <1>8, <1>9, <1>10, <1>11, <1>12, <1>13

-------------------------------------------------------------------------------
(* A character that is read again.                                         *)

(* The states in which a character is held, and how often it was read.     *)
Reread ==
  /\ held \in Sym \cup {NoChar} /\ reads \in Nat
  /\ held = NoChar => reads = 0
  /\ held # NoChar =>
       \/ /\ parser.state \in {"header_almost_done", "header_value_start",
                              "header_field_start", "message_done"}
          /\ reads = 1
       \/ parser.state = "headers_almost_done" /\ reads <= 2
       \/ parser.state = "headers_done" /\ reads <= 3

(* The steps that leave the character for the next state.                  *)
Left ==
  \/ parser.state = "header_value" /\ parser'.state = "header_almost_done"
  \/ /\ parser.state \in {"header_value_lws", "discard_lws"}
     /\ parser'.state \in {"header_value_start", "header_field_start"}
  \/ parser.state = "header_field_start" /\ parser'.state = "headers_almost_done"
  \/ parser.state = "headers_almost_done" /\ parser'.state = "headers_done"
  \/ parser.state = "body_identity" /\ parser'.state = "message_done"

LEMMA HeldOrLeft ==
  ASSUME parser \in Parser, NEW c \in Sym, OnChar(c)
  PROVE  held' = NoChar \/ (held' = c /\ Left)
<1>1. CASE \/ Dead(c) \/ StartReq(c) \/ ReqMethod(c) \/ ReqSpaces(c) \/ ReqSchema(c)
           \/ ReqPath(c) \/ ReqHttpStart(c) \/ ReqHttpVersion(c) \/ ReqLineAlmostDone(c)
  BY <1>1 DEF Dead, StartReq, ReqMethod, ReqSpaces, ReqSchema, ReqPath, ReqHttpStart,
              ReqHttpVersion, ReqLineAlmostDone, Go, Fail, Eat
<1>2. CASE HeaderFieldStart(c) \/ HeaderAlmostDone(c) \/ HeaderValueLws(c) \/ DiscardLws(c)
  BY <1>2 DEF HeaderFieldStart, HeaderAlmostDone, HeaderValueLws, DiscardLws, Left, Parser,
              FieldDone, Go, Again, Fail, Eat, Update, To
<1>3. CASE HeaderField(c) \/ DiscardWs(c) \/ HeaderValueStart(c) \/ DiscardWsAlmostDone(c)
  BY <1>3 DEF HeaderField, DiscardWs, HeaderValueStart, DiscardWsAlmostDone, ValueStart,
              Go, Fail, Eat
<1>4. CASE HeaderValue(c)
  BY <1>4 DEF HeaderValue, Left, Parser, Fail, Eat, Update, To
<1>5. CASE HeadersAlmostDone(c)
  BY <1>5 DEF HeadersAlmostDone, Left, Parser, Fail, Eat, Update
<1>6. CASE HeadersDone(c) \/ MessageDone(c) \/ ChunkSizeStart(c) \/ ChunkSize(c)
           \/ ChunkParameters(c) \/ ChunkSizeAlmostDone(c) \/ ChunkData(c)
           \/ ChunkDataAlmostDone(c) \/ ChunkDataDone(c)
  BY <1>6 DEF HeadersDone, MessageDone, ChunkSizeStart, ChunkSize, ChunkParameters,
              ChunkSizeAlmostDone, ChunkData, ChunkDataAlmostDone, ChunkDataDone, Go, Fail, Eat
<1>7. CASE BodyIdentity(c)
  BY <1>7 DEF BodyIdentity, Left, Parser, Eat, Update
<1> QED
  BY <1>1, <1>2, <1>3, <1>4, <1>5, <1>6, <1>7 DEF OnChar

LEMMA RereadKept ==
  ASSUME Kept, Reread, NEW c \in IF held = NoChar THEN Sym ELSE {held}, OnChar(c),
         reads' = IF held' = NoChar THEN 0 ELSE reads + 1
  PROVE  Reread'
<1>1. c \in Sym /\ c # NoChar /\ (held # NoChar => c = held)
  BY DEF Reread, Sym, Token, Digit, NoChar
<1>2. held' = NoChar \/ (held' = c /\ Left)
  BY <1>1, HeldOrLeft DEF Kept
<1>3. held' # NoChar /\ Left => Reread'
  BY <1>1, <1>2 DEF Reread, Left
<1> QED
  BY <1>2, <1>3 DEF Reread

-------------------------------------------------------------------------------
(* The parser as a whole.                                                  *)

HttpInv ==
  /\ parser \in Parser /\ marks \subseteq Mark /\ MarkedIn
  /\ ~parser.err => Lengths
  /\ ~over => Kept /\ ~parser.err
  /\ Reread /\ vlen \in 0..MaxValue /\ over \in BOOLEAN

LEMMA HttpStarts ==
  ASSUME HttpInit
  PROVE  HttpInv
<1> USE DEF HttpInit
<1>1. parser \in Parser /\ parser.state = "start_req" /\ ~parser.err
  BY HttpAssumption DEF Fresh, Parser, States, HeaderState, Unset
<1>2. Marked /\ Lengths /\ Placed /\ MarkedIn
  BY <1>1 DEF Marked, Lengths, Placed, RequestLine, Chunk, MarkedIn
<1>3. Reread /\ vlen \in 0..MaxValue
  BY HttpAssumption DEF Reread
<1> QED
  BY <1>1, <1>2, <1>3 DEF HttpInv, Kept

LEMMA ExecuteKept ==
  ASSUME HttpInv, Execute, Remember
  PROVE  HttpInv' /\ Ordered
<1>1. Kept /\ ~parser.err /\ Reread /\ vlen \in Nat /\ vlen \in 0..MaxValue
  BY HttpAssumption DEF HttpInv, Execute
<1>2. PICK c \in IF held = NoChar THEN Sym ELSE {held} : OnChar(c)
  BY DEF Execute
<1>3. c \in Sym
  BY <1>1, <1>2 DEF Reread
<1>4. Kept' /\ Ordered
  BY <1>1, <1>2, <1>3, RequestKept, HeaderKept, BodyKept DEF OnChar
<1>5. Reread'
  BY <1>1, <1>2, RereadKept DEF Execute
<1>6. vlen' \in 0..MaxValue
  BY <1>1, HttpAssumption DEF Execute
<1>7. over' \in BOOLEAN /\ (~over' => ~parser'.err)
  BY DEF Execute
<1> QED
  BY <1>4, <1>5, <1>6, <1>7 DEF HttpInv, Kept

(* The marks that are set at the end of the packet: at most one.           *)
LEMMA EndKept ==
  ASSUME HttpInv, EndOfData, Remember
  PROVE  HttpInv' /\ Ordered
<1>1. /\ Kept /\ ~parser.err /\ vlen \in Nat /\ UNCHANGED <<parser, held, reads, marks, vlen>>
      /\ over' = TRUE
  BY HttpAssumption DEF HttpInv, EndOfData
<1>2. HttpInv'
  <2>1. MarkedIn' /\ (Lengths => Lengths') /\ Reread'
    BY <1>1 DEF HttpInv, MarkedIn, Lengths, Reread
  <2> QED
    BY <1>1, <2>1 DEF HttpInv
<1>3. CASE marks = {}
  <2>1. calls' = << >> \o << >> \o << >> \o << >>
    BY <1>3 DEF EndOfData, FlushOne
  <2>2. calls' = << >>
    BY <2>1
  <2> QED
    BY <1>2, <2>2 DEF Ordered
<1>4. CASE marks # {}
  <2>1. PICK cb \in Mark : cb \in marks
    BY <1>1, <1>4 DEF Kept
  <2>2. marks = {cb}
    BY <1>1, <2>1 DEF Kept, MarkedIn
  <2>3. cb \in Follows[last]
    BY <1>1, <2>1, FollowsFacts DEF Kept, MarkedIn, Placed, Mark, Chunk
  <2> DEFINE k == [cb |-> cb, name |-> parser.name, len |-> IF cb = "value" THEN vlen ELSE 1]
  <2>4. parser.name \in KnownNames
    BY <1>1, HttpAssumption DEF Kept, Parser, KnownNames
  <2>5. k \in Call /\ k.cb = cb
    BY <1>1, <2>4 DEF Call, Callback, Mark
  <2>6. calls' = <<k>>
    <3>1. calls' = (IF cb = "field" THEN <<k>> ELSE << >>) \o (IF cb = "value" THEN <<k>> ELSE << >>)
                     \o (IF cb = "url" THEN <<k>> ELSE << >>) \o (IF cb = "body" THEN <<k>> ELSE << >>)
      BY <2>2 DEF EndOfData, FlushOne
    <3> HIDE DEF k
    <3>2. cb \in {"url", "field", "value", "body"}
      BY <2>1 DEF Mark
    <3>3. CASE cb = "field"
      BY <3>1, <3>3
    <3>4. CASE cb = "value"
      BY <3>1, <3>4
    <3>5. CASE cb = "url"
      BY <3>1, <3>5
    <3>6. CASE cb = "body"
      BY <3>1, <3>6
    <3> QED
      BY <3>2, <3>3, <3>4, <3>5, <3>6
  <2> QED
    BY <1>2, <2>3, <2>5, <2>6 DEF Ordered
<1> QED
  BY <1>2, <1>3, <1>4

LEMMA HttpKept ==
  ASSUME HttpInv, HttpStep
  PROVE  HttpInv' /\ Ordered
  BY ExecuteKept, EndKept DEF HttpStep

-------------------------------------------------------------------------------
(* The packets one after another.                                          *)

Text == [1..UaSize -> KnownNames \cup {NUL}]

Node == [onbeg : BOOLEAN, onurl : BOOLEAN, onua : BOOLEAN, oncplt : BOOLEAN, ua : Text]

(* What is in the node, by the callback made last.                         *)
Filled ==
  /\ last \in {"none"} \cup Callback
  /\ last # "none" => node.onbeg
  /\ last \notin {"none", "begin"} => node.onurl
  /\ node.oncplt => node.onbeg /\ node.onurl
  /\ node.ua[UaSize] = NUL
  /\ clean /\ node.oncplt => node.ua[1] # NUL
  /\ node.ua[1] = recent

UaInv ==
  /\ HttpInv
  /\ node \in Node /\ recent \in KnownNames \cup {NUL} /\ clean \in BOOLEAN
  /\ decided \in {"none", "search", "default"}
  /\ decided = "search" => node.oncplt
  /\ Filled

LEMMA UaStarts == UaInit => UaInv
<1> SUFFICES ASSUME UaInit PROVE UaInv
  OBVIOUS
<1> DEFINE t == [i \in 1..UaSize |-> NUL]
<1>1. t \in Text /\ t[1] = NUL /\ t[UaSize] = NUL
  BY UaAssumption DEF Text
<1>2. node.ua = t /\ node.oncplt = FALSE /\ (t \in Text => node \in Node)
  BY DEF Zeroed, Node, UaInit
<1> HIDE DEF t
<1>3. HttpInv
  BY HttpStarts DEF UaInit
<1> QED
  BY <1>1, <1>2, <1>3 DEF UaInv, Filled, UaInit, HttpInit

LEMMA UaStartsAgain == UaInit' => UaInv'
  BY UaStarts, PTL

(* The value that was copied: where it ends, and what it begins with.      *)
LEMMA Copied ==
  ASSUME NEW ua \in Text, NEW h \in KnownNames, NEW n \in Nat \ {0},
         NEW k \in Nat, n < UaSize
  PROVE  /\ Copy(ua, h, k, n) \in Text
         /\ Copy(ua, h, k, n)[UaSize] = ua[UaSize]
         /\ Copy(ua, h, k, n)[1] = IF k = 0 THEN NUL ELSE h
  BY UaAssumption DEF Copy, Text

LEMMA ValueCopied ==
  ASSUME node \in Node, NEW c \in Call, c.len # 0, NEW k \in 0..c.len,
         node.ua[UaSize] = NUL
  PROVE  LET n == OnHeaderValue(node, c, k) IN
         /\ n \in Node /\ n.onbeg = node.onbeg /\ n.onurl = node.onurl
         /\ n.ua[UaSize] = NUL /\ n.ua[1] = IF k = 0 THEN NUL ELSE c.name
<1> DEFINE len == IF c.len > UaSize - 1 THEN UaSize - 1 ELSE c.len
           t   == Copy(node.ua, c.name, k, len)
<1>1. len \in Nat \ {0} /\ len < UaSize /\ k \in Nat /\ c.name \in KnownNames
  BY UaAssumption DEF Call
<1>2. node.ua \in Text
  BY DEF Node
<1>3. t \in Text /\ t[UaSize] = NUL /\ t[1] = IF k = 0 THEN NUL ELSE c.name
  <2> HIDE DEF len
  <2> QED
    BY <1>1, <1>2, Copied
<1>4. OnHeaderValue(node, c, k) = [node EXCEPT !.ua = t, !.onua = FALSE, !.oncplt = TRUE]
  BY DEF OnHeaderValue
<1> HIDE DEF t
<1> QED
  BY <1>3, <1>4 DEF Node

LEMMA ParseKept ==
  ASSUME UaInv, Parse
  PROVE  UaInv'
<1>1. HttpInv' /\ Ordered /\ decided' = "none" /\ Remember
  BY HttpKept DEF UaInv, Parse, HttpStep
<1>2. CASE calls' = << >>
  <2>1. last' = last /\ UNCHANGED <<node, recent, clean>>
    BY <1>1, <1>2, Remembered DEF Parse
  <2> QED
    BY <1>1, <2>1 DEF UaInv, Filled
<1>3. CASE calls' # << >>
  <2>1. PICK c \in Call : calls' = <<c>> /\ c.cb \in Follows[last]
    BY <1>1, <1>3 DEF Ordered
  <2>2. calls'[1] = c /\ last' = c.cb
    BY <1>1, <2>1, Remembered
  <2>3. last' \in Callback /\ last' # "none"
    BY <2>2 DEF Call, Callback
  <2>4. /\ c.cb # "begin" => node.onbeg
        /\ c.cb \notin {"begin", "url"} => node.onurl
    <3>1. last \in {"none"} \cup Callback
      BY DEF UaInv, Filled
    <3> QED
      BY <2>1, <3>1 DEF UaInv, Filled, Follows, Callback
  <2>5. CASE c.cb # "value" \/ c.len = 0
    <3>1. node' = OnCall(node, c, 0) /\ UNCHANGED <<recent, clean>>
      BY <1>3, <2>2, <2>5 DEF Parse
    <3>2. \/ node' = node /\ c.cb \notin {"begin", "url"}
          \/ node' = [node EXCEPT !.onbeg = TRUE] /\ c.cb = "begin"
          \/ node' = [node EXCEPT !.onurl = TRUE] /\ c.cb = "url"
          \/ node' = [node EXCEPT !.onua = TRUE] /\ c.cb = "field"
      BY <2>5, <3>1 DEF OnCall, OnHeaderField, OnHeaderValue, Call, Callback
    <3>3. /\ node' \in Node /\ node'.ua = node.ua /\ node'.oncplt = node.oncplt
          /\ node'.onbeg = (node.onbeg \/ c.cb = "begin")
          /\ node'.onurl = (node.onurl \/ c.cb = "url")
      BY <3>2 DEF UaInv, Node
    <3>4. node'.onbeg /\ (last' # "begin" => node'.onurl)
      BY <2>2, <2>4, <3>3
    <3>5. node'.oncplt => node'.onbeg /\ node'.onurl
      BY <3>3 DEF UaInv, Filled
    <3>6. Filled'
      BY <2>3, <3>1, <3>3, <3>4, <3>5 DEF UaInv, Filled
    <3> QED
      BY <1>1, <3>1, <3>3, <3>6 DEF UaInv
  <2>6. CASE c.cb = "value" /\ c.len # 0
    <3>1. PICK k \in 0..c.len :
            /\ node' = OnHeaderValue(node, c, k)
            /\ recent' = IF k = 0 THEN NUL ELSE c.name
            /\ clean' = (clean /\ k = c.len)
      BY <1>3, <2>2, <2>6 DEF Parse, OnCall
    <3>2. /\ node' \in Node /\ node'.onbeg = node.onbeg /\ node'.onurl = node.onurl
          /\ node'.ua[UaSize] = NUL /\ node'.ua[1] = IF k = 0 THEN NUL ELSE c.name
      BY <2>6, <3>1, ValueCopied DEF UaInv, Filled
    <3>3. c.name \in KnownNames /\ c.name # NUL
      BY DEF Call, KnownNames, NUL
    <3>4. Filled'
      <4>1. node'.onbeg /\ node'.onurl
        BY <2>4, <2>6, <3>2
      <4>2. clean' => k # 0
        BY <2>6, <3>1 DEF Call
      <4> QED
        BY <2>3, <3>1, <3>2, <3>3, <4>1, <4>2 DEF Filled
    <3> QED
      BY <1>1, <3>1, <3>2, <3>3, <3>4 DEF UaInv
  <2> QED
    BY <2>5, <2>6
<1> QED
  BY <1>2, <1>3

LEMMA UaInvKept ==
  ASSUME UaInv, [UaNext]_uvars
  PROVE  UaInv'
<1>1. CASE Parse
  BY <1>1, ParseKept
<1>2. CASE Decide
  BY <1>2
  DEF Decide, UaInv, hvars, HttpInv, Kept, MarkedIn, Marked, Lengths, Placed, Reread, Filled
<1>3. CASE NextPacket
  BY <1>3, UaStartsAgain DEF NextPacket, UaInit, HttpInit, Zeroed, Fresh
<1>4. CASE UNCHANGED uvars
  BY <1>4
  DEF uvars, UaInv, hvars, HttpInv, Kept, MarkedIn, Marked, Lengths, Placed, Reread, Filled
<1> QED
  BY <1>1, <1>2, <1>3, <1>4 DEF UaNext

-------------------------------------------------------------------------------
(* The results.                                                            *)

(* The invariant holds in every behaviour of the packets one after         *)
(* another.                                                                *)
THEOREM UaInvariant == UaSpec => []UaInv
<1>1. UaInv /\ [UaNext]_uvars => UaInv'
  BY UaInvKept
<1> QED
  BY UaStarts, <1>1, PTL DEF UaSpec

(* The parser's fields, the node's and what is remembered have their       *)
(* types.                                                                  *)
THEOREM UaTyped == UaSpec => []UaTypeOK
<1>1. UaInv => UaTypeOK
  BY DEF UaInv, HttpInv, UaTypeOK, HttpTypeOK, Parser, Mark, Flag, Node, Text, Reread
<1> QED
  BY UaInvariant, <1>1, PTL

(* A mark is set only while what it marks is read, and never two: see      *)
(* MarkedIn, which http_parser_execute asserts before it flushes.          *)
THEOREM OneMark == UaSpec => []MarkedIn
<1>1. UaInv => MarkedIn
  BY DEF UaInv, HttpInv
<1> QED
  BY UaInvariant, <1>1, PTL

(* The assertions of http_parser_execute in the states of the body and of  *)
(* a header's value hold.                                                  *)
THEOREM Asserted == UaSpec => []AssertionsHold
<1>1. UaInv => AssertionsHold
  BY DEF UaInv, HttpInv, Lengths, AssertionsHold, Chunk
<1> QED
  BY UaInvariant, <1>1, PTL

(* REEXECUTE reads no character more than three times.                     *)
THEOREM Consumed == UaSpec => []HeldConsumed
<1>1. UaInv => HeldConsumed
  BY DEF UaInv, HttpInv, Reread, HeldConsumed
<1> QED
  BY UaInvariant, <1>1, PTL

(* A packet is searched only after a request line and a value, and its     *)
(* text is terminated for any length of the values.                        *)
THEOREM Terminated == UaSpec => []SearchedAfterUrl
<1>1. UaInv => SearchedAfterUrl
  BY DEF UaInv, Filled, SearchedAfterUrl
<1> QED
  BY UaInvariant, <1>1, PTL

(* The text begins with the value that was copied last.                    *)
THEOREM LastValue == UaSpec => []BeginsWithLast
<1>1. UaInv => BeginsWithLast
  BY DEF UaInv, Filled, BeginsWithLast
<1> QED
  BY UaInvariant, <1>1, PTL

(* The callbacks come in the order of Follows, in pipelined messages too.  *)
THEOREM InOrderOfCalls == UaSpec => CallOrder
<1>1. UaInv /\ [UaNext]_uvars =>
        [\A i \in DOMAIN calls' :
           calls'[i].cb \in Follows[IF i = 1 THEN last ELSE calls'[i - 1].cb]]_hvars
  <2> SUFFICES ASSUME UaInv, UaNext, ~UNCHANGED hvars, NEW i \in DOMAIN calls'
               PROVE  calls'[i].cb \in Follows[IF i = 1 THEN last ELSE calls'[i - 1].cb]
    BY DEF uvars
  <2>1. CASE Parse
    <3>1. Ordered
      BY <2>1, HttpKept DEF UaInv, Parse
    <3> QED
      BY <3>1 DEF Ordered
  <2>2. CASE NextPacket
    BY <2>2 DEF NextPacket
  <2> QED
    BY <2>1, <2>2 DEF UaNext, Decide
<1> QED
  BY UaInvariant, <1>1, PTL DEF UaSpec, CallOrder
===============================================================================
