------------------------------- MODULE FlowHttp -------------------------------
(***************************************************************************)
(* http_parser_execute on one packet, for HTTP_REQUEST, compiled with      *)
(* HTTP_PARSER_STRICT: one action per state of the parser (states whose    *)
(* difference is a letter of a constant string are one).  The packet is    *)
(* read character by character and may end anywhere.                       *)
(*                                                                         *)
(* A character is known by its class, and one character of class "tok"     *)
(* stands for a run of letters too: what the letters spell (a method, the  *)
(* version, a header name, a token of a value) is chosen where the run     *)
(* begins.  REEXECUTE leaves the character held for the next state.  A     *)
(* length is read in base two, and MaxLength stands for the last uint64_t  *)
(* that may be read: the parser refuses a length before it comes as near   *)
(* to ULLONG_MAX as that, so that Unset is no length.                      *)
(*                                                                         *)
(* nread is left out.  The parser is new for each packet, and what an IP   *)
(* header can say of its length is less than HTTP_MAX_HEADER_SIZE, so that *)
(* nread is never too large; and it is 1 at the first character of a       *)
(* chunk's size, as is asserted there, because headers_done and            *)
(* chunk_data_done, which lead there, have reset it.                       *)
(***************************************************************************)
EXTENDS Integers, Sequences

CONSTANTS
  Names,        \* the header names that occur
  MaxLength,    \* the largest content length
  MaxValue      \* bound on the counted length of a header value

(* The names the parser or flow_ua_common.c knows, and any other.          *)
KnownNames == {"user-agent", "connection", "content-length", "transfer-encoding",
               "upgrade", "other"}

ASSUME HttpAssumption ==
  /\ Names \subseteq KnownNames /\ Names # {}
  /\ MaxLength \in Nat \ {0} /\ MaxValue \in Nat \ {0}

Digit == {"zero", "one"}
Token == Digit \cup {"tok"}
Sym   == Token \cup {"cr", "lf", "sp", "colon", "comma", "sep"}

Unset  == -1        \* ULLONG_MAX in content_length
NoChar == "none"

VARIABLES
  parser,    \* the parser's fields, and the version as HTTP/1.1 or less
  held,      \* the character to be read again, or NoChar
  reads,     \* history: how often the held character has been read
  marks,     \* the marks that are set: data callbacks to be made
  vlen,      \* the length of the header value, up to MaxValue
  calls,     \* the callbacks of the last step
  last,      \* history: the last callback made
  over       \* the packet is read to its end, or given up

hvars == <<parser, held, reads, marks, vlen, calls, last, over>>

(* http_parser_init.                                                       *)
Fresh == [state |-> "start_req", method |-> "other", v11 |-> FALSE,
          hstate |-> "general", name |-> "other", flags |-> {},
          length |-> 0, upgrade |-> FALSE, err |-> FALSE]

HttpInit ==
  /\ parser = Fresh
  /\ held = NoChar /\ reads = 0 /\ marks = {} /\ vlen = 0
  /\ calls = << >> /\ last = "none" /\ over = FALSE

-------------------------------------------------------------------------------
(* What the states do with the character.                                  *)

Silent      == calls' = << >> /\ UNCHANGED marks
Update(f)   == parser' = f
To(s)       == [parser EXCEPT !.state = s]
Eat         == held' = NoChar
Go(s)       == Update(To(s)) /\ Eat /\ Silent
Again(s, c) == Update(To(s)) /\ held' = c /\ Silent    \* REEXECUTE
Fail        == Update([parser EXCEPT !.err = TRUE]) /\ Eat /\ Silent

Notify(cb) == calls' = <<[cb |-> cb, name |-> parser.name, len |-> 0]>>

(* Mutant of Data: the mark is not cleared after the callback.             *)
DataKeep(cb, n) ==
  /\ calls' = IF cb \in marks THEN <<[cb |-> cb, name |-> parser.name, len |-> n]>>
              ELSE << >>
  /\ UNCHANGED marks

(* CALLBACK_DATA: only if the mark is set; it is cleared.                  *)
Data(cb, n) ==
  /\ calls' = IF cb \in marks THEN <<[cb |-> cb, name |-> parser.name, len |-> n]>>
              ELSE << >>
  /\ marks' = marks \ {cb}

KeepAlive ==
  IF parser.v11 THEN "close" \notin parser.flags ELSE "keep-alive" \in parser.flags

(* NEW_MESSAGE, and on_message_complete.                                   *)
Complete ==
  /\ Update(To(IF KeepAlive THEN "start_req" ELSE "dead"))
  /\ Notify("complete") /\ UNCHANGED marks

-------------------------------------------------------------------------------
(* The request line.                                                       *)

Dead(c) ==
  /\ parser.state = "dead"
  /\ IF c \in {"cr", "lf"} THEN Go("dead") ELSE Fail

StartReq(c) ==
  /\ parser.state = "start_req"
  /\ \/ c \in {"cr", "lf"} /\ Go("start_req")
     \/ c \notin {"cr", "lf"} /\ Fail
     \/ /\ c = "tok"
        /\ \E m \in {"connect", "other"} :
             Update([parser EXCEPT !.state = "req_method", !.method = m,
                                   !.flags = {}, !.length = Unset])
        /\ Eat /\ Notify("begin") /\ UNCHANGED marks

ReqMethod(c) ==
  /\ parser.state = "req_method"
  /\ \/ c = "tok" /\ Go("req_method")
     \/ c = "sp" /\ Go("req_spaces_before_url")
     \/ Fail

(* parse_url_char: the states it may return, "dead" for a character it     *)
(* refuses.  "req_schema" stands for the states up to s_req_server_start,  *)
(* in which the URL may not end, "req_path" for those after.               *)
UrlChar(s, c) ==
  {"dead"} \cup
  CASE c \in {"sp", "cr", "lf"} -> {}
    [] c \notin {"sp", "cr", "lf"} /\ s = "req_path" -> {"req_path"}
    [] c \notin {"sp", "cr", "lf"} /\ s = "req_schema" -> {"req_schema", "req_path"}
    [] c = "tok" /\ s = "req_spaces_before_url" -> {"req_schema", "req_path"}
    [] c = "sep" /\ s = "req_spaces_before_url" -> {"req_path"}
    [] OTHER -> {}

(* The character makes the URL's next state, or none.                      *)
Url(s, c) ==
  \E t \in UrlChar(s, c) :
    Update(IF t = "dead" THEN [parser EXCEPT !.err = TRUE] ELSE To(t))

ReqSpaces(c) ==
  /\ parser.state = "req_spaces_before_url"
  /\ IF c = "sp" THEN Go("req_spaces_before_url")
     ELSE /\ marks' = marks \cup {"url"} /\ calls' = << >> /\ Eat
          /\ Url(IF parser.method = "connect" THEN "req_path" ELSE parser.state, c)

ReqSchema(c) ==
  /\ parser.state = "req_schema"
  /\ IF c \in {"sp", "cr", "lf"} THEN Fail ELSE Url("req_schema", c) /\ Eat /\ Silent

ReqPath(c) ==
  /\ parser.state = "req_path"
  /\ \/ /\ c \in {"sp", "cr", "lf"}
        /\ Update([To(CASE c = "sp" -> "req_http_start"
                        [] c = "cr" -> "req_line_almost_done"
                        [] c = "lf" -> "header_field_start")
                   EXCEPT !.v11 = IF c = "sp" THEN @ ELSE FALSE])
        /\ Eat /\ Data("url", 0)
     \/ c \notin {"sp", "cr", "lf"} /\ Url("req_path", c) /\ Eat /\ Silent

(* The letters HTTP; the rest of the version follows.                      *)
ReqHttpStart(c) ==
  /\ parser.state = "req_http_start"
  /\ \/ c = "sp" /\ Go("req_http_start")
     \/ /\ c = "tok" /\ Eat /\ Silent
        /\ \E v \in BOOLEAN :
             Update([parser EXCEPT !.state = "req_http_version", !.v11 = v])
     \/ c # "sp" /\ Fail

ReqHttpVersion(c) ==
  /\ parser.state = "req_http_version"
  /\ \/ c \in Token \cup {"sep"} /\ Go("req_http_version")
     \/ c = "cr" /\ Go("req_line_almost_done")
     \/ c = "lf" /\ Go("header_field_start")
     \/ Fail

ReqLineAlmostDone(c) ==
  /\ parser.state = "req_line_almost_done"
  /\ IF c = "lf" THEN Go("header_field_start") ELSE Fail

-------------------------------------------------------------------------------
(* The headers.                                                            *)

(* The header_state when the whole name has been read.                     *)
NameState(n) == IF n \in {"user-agent", "other"} THEN "general" ELSE n

HeaderFieldStart(c) ==
  /\ parser.state = "header_field_start"
  /\ \/ c = "cr" /\ Go("headers_almost_done")
     \/ c = "lf" /\ Again("headers_almost_done", c)
     \/ /\ c \in Token
        /\ \E n \in Names :
             Update([parser EXCEPT !.state = "header_field", !.name = n,
                                   !.hstate = NameState(n)])
        /\ Eat /\ calls' = << >> /\ marks' = marks \cup {"field"}
     \/ c \notin Token \cup {"cr", "lf"} /\ Fail

HeaderField(c) ==
  /\ parser.state = "header_field"
  /\ \/ c \in Token /\ Go("header_field")
     \/ c = "colon" /\ Update(To("discard_ws")) /\ Eat /\ Data("field", 1)
     \/ c \notin Token \cup {"colon"} /\ Fail

(* The first character of a value, or of its continuation on a new line.   *)
ConnectionToken == {"keep-alive", "close", "conn-upgrade", "token"}

StartValue(h, c) ==
  CASE h = "transfer-encoding" -> IF c = "tok" THEN {"chunked", "general"} ELSE {"general"}
    [] h = "content-length"    -> {"content-length"}
    [] h = "connection"        -> IF c = "tok" THEN ConnectionToken ELSE {"token"}
    [] h = "token_start"       -> {"token_start"}
    [] OTHER                   -> {"general"}

Value(c) == IF c = "zero" THEN 0 ELSE 1

ValueStart(c) ==
  LET h == parser.hstate IN
  IF h = "content-length" /\ c \notin Digit THEN Fail
  ELSE /\ \E g \in StartValue(h, c) :
            Update([parser EXCEPT
              !.state = "header_value", !.hstate = g,
              !.flags = IF h = "upgrade" THEN @ \cup {"upgrade"} ELSE @,
              !.length = IF h = "content-length" THEN Value(c) ELSE @])
       /\ Eat /\ calls' = << >> /\ marks' = marks \cup {"value"}

DiscardWs(c) ==
  /\ parser.state = "discard_ws"
  /\ \/ c = "sp" /\ Go("discard_ws")
     \/ c = "cr" /\ Go("discard_ws_almost_done")
     \/ c = "lf" /\ Go("discard_lws")
     \/ c \notin {"sp", "cr", "lf"} /\ ValueStart(c)

HeaderValueStart(c) == parser.state = "header_value_start" /\ ValueStart(c)

(* The header_state after one more character of the value.                 *)
NextValue(h, c) ==
  CASE h \in {"general", "content-length"} -> {h}
    [] h = "chunked" -> IF c = "sp" THEN {h} ELSE {"general"}
    [] h = "token_start" ->
         IF c = "tok" THEN ConnectionToken ELSE IF c \in Token THEN {"token"} ELSE {"general"}
    [] h \in {"keep-alive", "close", "conn-upgrade"} ->
         IF c = "comma" THEN {"token_start"} ELSE IF c = "sp" THEN {h} ELSE {"token"}
    [] h = "token" -> IF c = "comma" THEN {"token_start"} ELSE {h}
    [] OTHER -> {"general"}

(* One more digit of a length, or no room for it.                          *)
MoreDigits(n, c) == 2 * n + Value(c)

HeaderValue(c) ==
  LET h     == parser.hstate
      digit == h = "content-length" /\ c # "sp"
  IN
  /\ parser.state = "header_value"
  /\ \/ /\ c \in {"cr", "lf"}
        /\ Update(To("header_almost_done"))
        /\ held' = IF c = "lf" THEN c ELSE NoChar
        /\ Data("value", vlen)
     \/ /\ c \notin {"cr", "lf"}
        /\ IF digit /\ (c \notin Digit \/ MoreDigits(parser.length, c) > MaxLength)
           THEN Fail
           ELSE /\ \E g \in NextValue(h, c) :
                     Update([parser EXCEPT
                       !.hstate = g,
                       !.flags = IF c = "comma" /\ h \in ConnectionToken \ {"token"}
                                 THEN @ \cup {h} ELSE @,
                       !.length = IF digit THEN MoreDigits(@, c) ELSE @])
                /\ Eat /\ Silent

HeaderAlmostDone(c) ==
  /\ parser.state = "header_almost_done"
  /\ IF c = "lf" THEN Go("header_value_lws") ELSE Fail

(* The header is finished: what its value said becomes a flag.  Nothing    *)
(* refers to its name any more.                                            *)
FieldDone ==
  [parser EXCEPT
    !.state = "header_field_start", !.name = "other",
    !.flags = @ \cup ({parser.hstate} \cap {"keep-alive", "close", "conn-upgrade", "chunked"})]

(* Mutant of HeaderValueLws: the state is not left before the reread.      *)
HeaderValueLwsStay(c) ==
  /\ parser.state = "header_value_lws"
  /\ IF c = "sp" THEN Again("header_value_start", c) ELSE Again("header_value_lws", c)

HeaderValueLws(c) ==
  /\ parser.state = "header_value_lws"
  /\ IF c = "sp" THEN Again("header_value_start", c)
     ELSE Update(FieldDone) /\ held' = c /\ Silent

DiscardWsAlmostDone(c) ==
  /\ parser.state = "discard_ws_almost_done"
  /\ IF c = "lf" THEN Go("discard_lws") ELSE Fail

(* Mutant of DiscardLws: an empty value is not reported.                   *)
DiscardLwsSilent(c) ==
  /\ parser.state = "discard_lws"
  /\ IF c = "sp" THEN Go("discard_ws")
     ELSE Update(FieldDone) /\ held' = c /\ Silent

(* An empty value is reported with length zero.                            *)
DiscardLws(c) ==
  /\ parser.state = "discard_lws"
  /\ IF c = "sp" THEN Go("discard_ws")
     ELSE /\ Update(FieldDone) /\ held' = c
          /\ calls' = <<[cb |-> "value", name |-> parser.name, len |-> 0]>>
          /\ UNCHANGED marks

HeadersAlmostDone(c) ==
  /\ parser.state = "headers_almost_done"
  /\ IF c # "lf" THEN Fail
     ELSE IF "trailing" \in parser.flags THEN Complete /\ Eat
     ELSE /\ Update([parser EXCEPT
               !.state = "headers_done",
               !.upgrade = \/ {"upgrade", "conn-upgrade"} \subseteq parser.flags
                           \/ parser.method = "connect"])
          /\ held' = c
          /\ Notify("headers_complete") /\ UNCHANGED marks

(* Mutant of HeadersDone: a length of zero is not special.                 *)
HeadersDoneZero(c) ==
  /\ parser.state = "headers_done"
  /\ IF c # "lf" THEN Fail
     ELSE IF parser.upgrade THEN Complete /\ Eat
     ELSE IF "chunked" \in parser.flags THEN Go("chunk_size_start")
     ELSE IF parser.length = Unset THEN Complete /\ Eat
     ELSE Go("body_identity")

(* After the headers: another protocol, a chunked body, a body of known    *)
(* length, or no body.                                                     *)
HeadersDone(c) ==
  /\ parser.state = "headers_done"
  /\ IF c # "lf" THEN Fail
     ELSE IF parser.upgrade THEN Complete /\ Eat
     ELSE IF "chunked" \in parser.flags THEN Go("chunk_size_start")
     ELSE IF parser.length \in {0, Unset} THEN Complete /\ Eat
     ELSE Go("body_identity")

-------------------------------------------------------------------------------
(* The body.                                                               *)

(* to_read characters at once in the code; the last is seen again.         *)
BodyIdentity(c) ==
  LET done == parser.length = 1 IN
  /\ parser.state = "body_identity"
  /\ Update([parser EXCEPT !.length = @ - 1,
                           !.state = IF done THEN "message_done" ELSE @])
  /\ IF done
     THEN /\ held' = c
          /\ calls' = <<[cb |-> "body", name |-> parser.name, len |-> 1]>>
          /\ marks' = marks \ {"body"}
     ELSE Eat /\ calls' = << >> /\ marks' = marks \cup {"body"}

MessageDone(c) == parser.state = "message_done" /\ Complete /\ Eat

ChunkSizeStart(c) ==
  /\ parser.state = "chunk_size_start"
  /\ \/ /\ c \in Token
        /\ Update([parser EXCEPT !.state = "chunk_size", !.length = Value(c)])
        /\ Eat /\ Silent
     \/ c \notin Digit /\ Fail

ChunkSize(c) ==
  /\ parser.state = "chunk_size"
  /\ \/ c = "cr" /\ Go("chunk_size_almost_done")
     \/ c \in {"sp", "sep"} /\ Go("chunk_parameters")
     \/ /\ c \in Token
        /\ IF MoreDigits(parser.length, c) > MaxLength THEN Fail
           ELSE /\ Update([parser EXCEPT !.length = MoreDigits(@, c)])
                /\ Eat /\ Silent
     \/ c \notin Digit \cup {"cr", "sp"} /\ Fail

ChunkParameters(c) ==
  /\ parser.state = "chunk_parameters"
  /\ Go(IF c = "cr" THEN "chunk_size_almost_done" ELSE "chunk_parameters")

(* The chunk of size zero: trailing headers follow.                        *)
ChunkSizeAlmostDone(c) ==
  /\ parser.state = "chunk_size_almost_done"
  /\ IF c # "lf" THEN Fail
     ELSE IF parser.length = 0
     THEN /\ Update([parser EXCEPT !.state = "header_field_start",
                                   !.flags = @ \cup {"trailing"}])
          /\ Eat /\ Silent
     ELSE Go("chunk_data")

ChunkData(c) ==
  /\ parser.state = "chunk_data"
  /\ Update([parser EXCEPT
       !.length = @ - 1,
       !.state = IF parser.length = 1 THEN "chunk_data_almost_done" ELSE @])
  /\ Eat /\ calls' = << >> /\ marks' = marks \cup {"body"}

ChunkDataAlmostDone(c) ==
  /\ parser.state = "chunk_data_almost_done"
  /\ IF c # "cr" THEN Fail
     ELSE Update(To("chunk_data_done")) /\ Eat /\ Data("body", 1)

ChunkDataDone(c) ==
  /\ parser.state = "chunk_data_done"
  /\ IF c = "lf" THEN Go("chunk_size_start") ELSE Fail

-------------------------------------------------------------------------------
OnChar(c) ==
  \/ Dead(c) \/ StartReq(c) \/ ReqMethod(c) \/ ReqSpaces(c) \/ ReqSchema(c)
  \/ ReqPath(c) \/ ReqHttpStart(c) \/ ReqHttpVersion(c) \/ ReqLineAlmostDone(c)
  \/ HeaderFieldStart(c) \/ HeaderField(c) \/ DiscardWs(c) \/ HeaderValueStart(c)
  \/ HeaderValue(c) \/ HeaderAlmostDone(c) \/ HeaderValueLws(c)
  \/ DiscardWsAlmostDone(c) \/ DiscardLws(c) \/ HeadersAlmostDone(c)
  \/ HeadersDone(c) \/ BodyIdentity(c) \/ MessageDone(c) \/ ChunkSizeStart(c)
  \/ ChunkSize(c) \/ ChunkParameters(c) \/ ChunkSizeAlmostDone(c) \/ ChunkData(c)
  \/ ChunkDataAlmostDone(c) \/ ChunkDataDone(c)

(* One turn of the loop: the held character, or the next one.  An error    *)
(* and a change of protocol end the loop at once.                          *)
Execute ==
  /\ ~over
  /\ \E c \in IF held = NoChar THEN Sym ELSE {held} : OnChar(c)
  /\ reads' = IF held' = NoChar THEN 0 ELSE reads + 1
  /\ vlen' = IF parser'.state # "header_value" THEN 0
             ELSE IF parser.state # "header_value" THEN 1
             ELSE IF vlen < MaxValue THEN vlen + 1 ELSE vlen
  /\ over' = (parser'.err \/ (parser.state = "headers_done" /\ parser.upgrade))

(* The packet ends: the marks that are set are reported as they are.       *)
FlushOne(cb, n) ==
  IF cb \in marks THEN <<[cb |-> cb, name |-> parser.name, len |-> n]>> ELSE << >>

EndOfData ==
  /\ ~over /\ held = NoChar
  /\ calls' = FlushOne("field", 1) \o FlushOne("value", vlen)
                \o FlushOne("url", 1) \o FlushOne("body", 1)
  /\ over' = TRUE
  /\ UNCHANGED <<parser, held, reads, marks, vlen>>

Remember ==
  last' = IF calls' = << >> THEN last ELSE calls'[Len(calls')].cb

HttpStep == (Execute \/ EndOfData) /\ Remember

-------------------------------------------------------------------------------
(* Properties.                                                             *)

States == {"dead", "start_req", "req_method", "req_spaces_before_url",
  "req_schema", "req_path", "req_http_start", "req_http_version",
  "req_line_almost_done", "header_field_start", "header_field", "discard_ws",
  "discard_ws_almost_done", "discard_lws", "header_value_start",
  "header_value", "header_almost_done", "header_value_lws",
  "headers_almost_done", "headers_done", "body_identity", "message_done",
  "chunk_size_start", "chunk_size", "chunk_parameters",
  "chunk_size_almost_done", "chunk_data", "chunk_data_almost_done",
  "chunk_data_done"}

HttpTypeOK ==
  /\ parser.state \in States
  /\ parser.name \in Names \cup {"other"}
  /\ parser.flags \subseteq {"upgrade", "conn-upgrade", "keep-alive", "close",
                           "chunked", "trailing"}
  /\ parser.length \in Unset..MaxLength
  /\ held \in Sym \cup {NoChar} /\ reads \in Nat
  /\ marks \subseteq {"url", "field", "value", "body"}
  /\ vlen \in 0..MaxValue
  /\ over \in BOOLEAN

(* A mark is set only in the states that read what it marks, and at most   *)
(* one is set, as is asserted before the marks are flushed: no run of      *)
(* characters is reported twice or under two names.                        *)
MarkedIn ==
  /\ \A m, n \in marks : m = n
  /\ "url" \in marks => parser.err \/ parser.state \in {"req_schema", "req_path"}
  /\ "field" \in marks => parser.state = "header_field"
  /\ "value" \in marks => parser.state = "header_value"
  /\ "body" \in marks =>
       parser.state \in {"body_identity", "chunk_data", "chunk_data_almost_done"}

(* The assertions in the states: a body is read only with a length to go,  *)
(* a chunk only of a chunked message, and a value is never read with the   *)
(* name's own header state ("Shouldn't get here").                         *)
AssertionsHold ==
  ~parser.err =>
    /\ parser.state \in {"body_identity", "chunk_data"} =>
         parser.length \notin {0, Unset}
    /\ parser.state \in {"chunk_size_start", "chunk_size", "chunk_parameters",
         "chunk_size_almost_done", "chunk_data", "chunk_data_almost_done",
         "chunk_data_done"} => "chunked" \in parser.flags
    /\ parser.state = "chunk_data_almost_done" => parser.length = 0
    /\ parser.state = "header_value" =>
         parser.hstate \notin {"connection", "transfer-encoding"}

(* The order of the callbacks, over pipelined messages, folded values and  *)
(* trailing headers: what may follow what.                                 *)
Follows ==
  [none |-> {"begin"}, begin |-> {"url"},
   url |-> {"field", "headers_complete"},
   field |-> {"value"},
   value |-> {"value", "field", "headers_complete", "complete"},
   headers_complete |-> {"body", "field", "complete"},
   body |-> {"body", "field", "complete"},
   complete |-> {"begin"}]

CallOrder ==
  [][\A i \in DOMAIN calls' :
       calls'[i].cb \in Follows[IF i = 1 THEN last ELSE calls'[i - 1].cb]]_hvars

(* REEXECUTE makes progress: no character is held for ever.  The most is a *)
(* line feed after a header: read as the end of the value, as the start of *)
(* a name, as the end of the headers, and only then consumed.              *)
HeldConsumed == reads <= 3
===============================================================================
