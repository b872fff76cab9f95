----------------------------- MODULE HttpParser -----------------------------
(***************************************************************************)
(* http_parse.hpp, http_parse.cpp: HttpParser, a table of headers, an url, *)
(* a body and two flags, filled by the callbacks of http_parser_execute    *)
(* (http_parser.c), to which Connection feeds a message in pieces as they  *)
(* are read.                                                               *)
(*                                                                         *)
(* What is abstracted.  The parser's input is a sequence of tokens         *)
(* <<kind, text>>, each a run of bytes that http_parser treats alike;      *)
(* buffers may end between any two of them.  A status line is one token,   *)
(* since no callback depends on where it is split; names, values, urls and *)
(* bodies are several.  The method is not CONNECT, and the version is 1.1. *)
(* Lengths are in tokens.                                                  *)
(***************************************************************************)
EXTENDS UrlParser

CONSTANTS
  Conversations,  \* what a client sends, and what webhdfs answers
  MaxHeaders,     \* the size of "headers", 0x10
  FieldCap, ValueCap,   \* what field_buf and value_buf hold
  MaxHeaderSize   \* HTTP_MAX_HEADER_SIZE

(* A message as its sender means it.  "start" are the tokens of its first  *)
(* line; a header is a name and the lines of its value; the body is the    *)
(* sequence of its chunks, one if it is not chunked.  "url" is the target  *)
(* of a request or the location of a redirect, "parts" its fields if it is *)
(* well-formed, "items" those of its query.                                *)
Framings == {"none", "length", "chunked", "eof"}

Header(name, lines) == [name |-> name, lines |-> lines]

Tok(kind) == <<kind, "">>
CRLF == <<Tok("cr"), Tok("lf")>>
Tokens(kind, texts) == [i \in 1..Len(texts) |-> <<kind, texts[i]>>]

(* A value is continued on a line that begins with a space. *)
EncodeValue(lines) ==
  FlattenSeq([i \in 1..Len(lines) |-> <<Tok("sp")>> \o Tokens("value", lines[i]) \o CRLF])

EncodeHeaders(headers) ==
  FlattenSeq([i \in 1..Len(headers) |->
                Tokens("name", headers[i].name) \o <<Tok("colon")>>
                  \o EncodeValue(headers[i].lines)]) \o CRLF

EncodeChunk(chunk) ==
  <<<<"hex", CHOOSE d \in DOMAIN Digit : Digit[d] = Len(chunk)>>>> \o CRLF
    \o Tokens("data", chunk) \o CRLF

EncodeBody(m) ==
  IF m.framing = "chunked"
  THEN FlattenSeq([i \in 1..Len(m.body) |-> EncodeChunk(m.body[i])])
         \o <<<<"hex", "0">>>> \o CRLF \o EncodeHeaders(m.trailers)
  ELSE FlattenSeq([i \in 1..Len(m.body) |-> Tokens("data", m.body[i])])

Encode(m) == m.start \o EncodeHeaders(m.headers) \o EncodeBody(m)

ASSUME ParserAssumption ==
  /\ MaxHeaders \in Nat \ {0} /\ FieldCap \in Nat /\ ValueCap \in Nat
  /\ MaxHeaderSize \in Nat
  /\ \A c \in Conversations :
       /\ Len(c.asked) > 0
       /\ \A m \in ToSet(c.asked \o c.answers) : m.framing \in Framings /\ m.code \in Nat

(* Messages are well-formed where their urls are written from parts.       *)
Messages == UNION {ToSet(c.asked \o c.answers) : c \in Conversations}
ASSUME MessageAssumption ==
  /\ \A c \in Conversations : c.asked \in Seq(Messages) /\ c.answers \in Seq(Messages)
  /\ \A m \in Messages :
       /\ m.url \in Seq(STRING) /\ Len(m.url) <= MaxSpan
       /\ m.wellformed => AreParts(m.parts) /\ m.url = WriteUrl(m.parts)

VARIABLES
  parser,     \* the members of HttpParser and of its http_parser, a record
  input,      \* the messages that arrive, one after the other
  answers,    \* the responses of webhdfs to come
  pos,        \* tokens of the input that were given to the parser
  parsing     \* inside Parse: tokens of this buffer it has read, or -1

vars == <<parser, input, answers, pos, parsing>>

Outside == -1
NoLength == -1   \* ULLONG_MAX
NoMark == [of |-> "none", run |-> <<>>]
Empty == [field |-> <<>>, value |-> <<>>]
----------------------------------------------------------------------------
(* HttpParser's callbacks.  head, tail and header_it are indices of the    *)
(* table; an entry is filled while head points to it and it is not tail.   *)
Upto(s, n) == SubSeq(s, 1, IF Len(s) < n THEN Len(s) ELSE n)
AppendTo(old, new, cap) == Upto(old \o new, cap)

MessageBegin(p) == [p EXCEPT !.header_it = 1]

HeaderField(p, run) ==
  LET q == [p EXCEPT !.head = p.header_it]
  IN  IF q.head = q.tail THEN q
      ELSE [q EXCEPT !.table[q.head].field = AppendTo(@, run, FieldCap)]

HeaderValue(p, run) ==
  IF p.head = p.tail THEN p
  ELSE [p EXCEPT !.header_it = IF p.head = p.header_it THEN @ + 1 ELSE @,
                 !.table[p.head].value = AppendTo(@, run, ValueCap)]

HeadersComplete(p) ==
  [p EXCEPT !.head = 1, !.tail = p.header_it, !.headers_complete = TRUE,
            !.status_code = p.code]

MessageComplete(p) == [p EXCEPT !.message_complete = TRUE]
Url(p, run) == [p EXCEPT !.url = @ \o run]
Body(p, run) == [p EXCEPT !.body = @ \o run]

(* CALLBACK_DATA: report the marked bytes and forget the mark. *)
Report(p) ==
  LET run == p.mark.run
      q == [p EXCEPT !.mark = NoMark]
  IN  CASE p.mark.of = "field" -> HeaderField(q, run)
        [] p.mark.of = "value" -> HeaderValue(q, run)
        [] p.mark.of = "url"   -> Url(q, run)
        [] p.mark.of = "body"  -> Body(q, run)
        [] OTHER -> q
----------------------------------------------------------------------------
(* http_parser_execute, one operator per state or group of states; p is    *)
(* the parser and t the token at hand.                                     *)
To(p, state) == [p EXCEPT !.state = state]
Fail(p) == [p EXCEPT !.errno = TRUE]
Mark(p, of) == IF p.mark.of = "none" THEN [p EXCEPT !.mark = [of |-> of, run |-> <<>>]] ELSE p
Take(p, t) == [p EXCEPT !.mark.run = Append(@, t[2])]
Is(t, kind) == t[1] = kind

NeedsEof(p) ==
  ~p.request /\ p.code \notin (100..199) \cup {204, 304}
    /\ "chunked" \notin p.flags /\ p.length = NoLength
ShouldKeepAlive(p) == "close" \notin p.flags /\ ~NeedsEof(p)
NewMessage(p) == To(p, IF ShouldKeepAlive(p) THEN "start" ELSE "dead")
EndMessage(p) == MessageComplete(NewMessage(p))

OnDead(p, t) == IF Is(t, "cr") \/ Is(t, "lf") THEN p ELSE Fail(p)

OnStartRes(p, t) ==
  LET q == MessageBegin([p EXCEPT !.flags = {}, !.length = NoLength])
  IN  IF Is(t, "line") THEN [To(q, "field_start") EXCEPT !.code = t[2]]
      ELSE IF Is(t, "cr") \/ Is(t, "lf") THEN q ELSE Fail(q)

OnStartReq(p, t) ==
  LET q == [p EXCEPT !.flags = {}, !.length = NoLength]
  IN  IF Is(t, "method")
      THEN MessageBegin([To(q, "before_url") EXCEPT !.url_state = "start", !.method = t[2]])
      ELSE IF Is(t, "cr") \/ Is(t, "lf") THEN p ELSE Fail(q)

(* Every character of the url is checked; the line goes on after a blank,  *)
(* which cannot come before the path or the server of the url.             *)
OnUrl(p, t) ==
  LET us == UrlChar(p.url_state, t[2])
      q == IF p.state = "before_url" THEN Mark(p, "url") ELSE p
  IN  CASE Is(t, "url") /\ us # "dead" -> Take([To(q, "url") EXCEPT !.url_state = us], t)
        [] Is(t, "version") /\ p.url_state \notin
             {"start", "schema", "schema_slash", "schema_slash_slash", "server_start"} ->
             Report(To(p, "field_start"))
        [] OTHER -> Fail(q)

(* Names by which http_parser knows a header, letter by letter in the code *)
(* and so across the end of a buffer.                                      *)
NameState(hs, text) ==
  CASE hs = "start" /\ text = "content-" -> "matching_content_length"
    [] hs = "matching_content_length" /\ text = "length" -> "content_length"
    [] hs = "start" /\ text \in {"transfer_encoding", "connection", "upgrade"} -> text
    [] OTHER -> "general"

OnField(p, t) ==
  CASE Is(t, "name")  -> Take([p EXCEPT !.header_state = NameState(@, t[2])], t)
    [] Is(t, "colon") -> Report(To(p, "value_start"))
    [] Is(t, "cr")    -> Report(To(p, "header_almost_done"))
    [] Is(t, "lf")    -> Report(To(p, "field_start"))
    [] OTHER -> Fail(p)

(* The first bytes of a value, or the next ones. *)
ValueState(p, text) ==
  LET hs == p.header_state
  IN  CASE hs = "transfer_encoding" /\ text = "chunked" -> "transfer_encoding_chunked"
        [] hs = "connection" /\ text = "close" -> "connection_close"
        [] hs = "content_length" -> hs
        [] OTHER -> "general"

(* A length goes on over the pieces of its value. *)
TakeValue(p, t) ==
  LET q == [p EXCEPT !.header_state = ValueState(p, t[2]),
                     !.flags = IF p.header_state = "upgrade" THEN @ \cup {"upgrade"} ELSE @]
      known == IF p.state = "value_start" THEN 0 ELSE p.length
  IN  IF p.header_state # "content_length" THEN Take(q, t)
      ELSE IF t[2] \notin DOMAIN Digit THEN Fail(p)
      ELSE Take([q EXCEPT !.length = 10 * known + Digit[t[2]]], t)

(* s_header_almost_done expects LF and sets the flag of the header. *)
OnHeaderAlmostDone(p, t) ==
  IF ~Is(t, "lf") THEN Fail(p)
  ELSE [To(p, "value_lws") EXCEPT !.flags =
          CASE p.header_state = "transfer_encoding_chunked" -> @ \cup {"chunked"}
            [] p.header_state = "connection_close" -> @ \cup {"close"}
            [] OTHER -> @]

OnValueStart(p, t) ==
  LET q == Mark(p, "value")
  IN  CASE Is(t, "sp") -> p
        [] Is(t, "cr") -> Report([To(q, "header_almost_done") EXCEPT !.header_state = "general"])
        [] Is(t, "lf") -> Report(To(q, "field_start"))
        [] OTHER -> To(TakeValue(q, t), "value")

OnValue(p, t) ==
  CASE Is(t, "cr") -> Report(To(p, "header_almost_done"))
    [] Is(t, "lf") -> OnHeaderAlmostDone(Report(p), t)
    [] OTHER -> TakeValue(p, t)

(* Mutant: a message without a body does not end with its header. *)
HeadersDoneNoBody(p) ==
  LET q == [p EXCEPT !.nread = 0]
  IN  CASE "chunked" \in p.flags -> To(q, "chunk_size_start")
        [] "chunked" \notin p.flags /\ p.length > 0 -> To(q, "body_identity")
        [] OTHER -> To(q, "body_identity_eof")

(* s_headers_done: how the body is delimited.  A message that asks for     *)
(* another protocol ends here, and what follows it is not read.            *)
HeadersDone(p) ==
  LET q == [p EXCEPT !.nread = 0]
  IN  IF "upgrade" \in p.flags THEN [EndMessage(q) EXCEPT !.upgrade = TRUE]
      ELSE IF "chunked" \in p.flags THEN To(q, "chunk_size_start")
      ELSE IF p.length > 0 THEN To(q, "body_identity")
      ELSE IF p.length = NoLength /\ NeedsEof(p) THEN To(q, "body_identity_eof")
      ELSE EndMessage(q)

(* s_headers_almost_done, at the LF of the empty line, and s_headers_done  *)
(* at the same byte.                                                       *)
OnHeadersAlmostDone(p, t) ==
  IF ~Is(t, "lf") THEN Fail(p)
  ELSE IF "trailing" \in p.flags THEN EndMessage(p)
  ELSE HeadersDone(HeadersComplete(p))

OnFieldStart(p, t) ==
  CASE Is(t, "cr")   -> To(p, "headers_almost_done")
    [] Is(t, "lf")   -> OnHeadersAlmostDone(p, t)
    [] Is(t, "name") -> Take([To(Mark(p, "field"), "field") EXCEPT
                                !.header_state = NameState("start", t[2])], t)
    [] OTHER -> Fail(p)

(* Mutant: the byte that shows that the value is not continued is lost. *)
OnValueLwsConsumes(p, t) == To(p, IF Is(t, "sp") THEN "value_start" ELSE "field_start")

OnValueLws(p, t) ==
  IF Is(t, "sp") THEN To(p, "value_start") ELSE OnFieldStart(p, t)

(* A body byte.  The last one of a known length completes the message. *)
OnBodyIdentity(p, t) ==
  LET q == [Take(Mark(p, "body"), t) EXCEPT !.length = @ - 1]
  IN  IF q.length = 0 THEN EndMessage(Report(q)) ELSE q

OnBodyEof(p, t) == Take(Mark(p, "body"), t)

OnChunkSize(p, t) ==
  IF Is(t, "hex") /\ t[2] \in DOMAIN Digit
  THEN [To(p, "chunk_size") EXCEPT
          !.length = Digit[t[2]] + IF p.state = "chunk_size" THEN 16 * @ ELSE 0]
  ELSE IF Is(t, "cr") /\ p.state = "chunk_size" THEN To(p, "chunk_size_almost_done")
  ELSE Fail(p)

(* Mutant: the last chunk is taken for one with data. *)
OnChunkSizeAlmostDoneNoLast(p, t) ==
  IF Is(t, "lf") THEN To([p EXCEPT !.nread = 0], "chunk_data") ELSE Fail(p)

OnChunkSizeAlmostDone(p, t) ==
  LET q == [p EXCEPT !.nread = 0]
  IN  IF ~Is(t, "lf") THEN Fail(p)
      ELSE IF p.length = 0 THEN [To(q, "field_start") EXCEPT !.flags = @ \cup {"trailing"}]
      ELSE To(q, "chunk_data")

OnChunkData(p, t) ==
  LET q == [Take(Mark(p, "body"), t) EXCEPT !.length = @ - 1]
  IN  IF q.length = 0 THEN To(q, "chunk_data_almost_done") ELSE q

(* CR and LF after a chunk's data. *)
OnChunkDataAlmostDone(p, t) ==
  IF Is(t, "cr") THEN Report(To(p, "chunk_data_done")) ELSE Fail(p)

OnChunkDataDone(p, t) ==
  IF Is(t, "lf") THEN [To(p, "chunk_size_start") EXCEPT !.nread = 0] ELSE Fail(p)

HeaderStates ==
  {"dead", "start", "before_url", "url", "field_start", "field", "value_start", "value",
   "value_lws", "header_almost_done", "chunk_size_start", "chunk_size",
   "chunk_size_almost_done", "headers_almost_done"}
BodyStates == {"chunk_data", "chunk_data_almost_done", "chunk_data_done",
               "body_identity", "body_identity_eof"}

OnByte(p, t) ==
  CASE p.state = "dead" -> OnDead(p, t)
    [] p.state = "start" -> IF p.request THEN OnStartReq(p, t) ELSE OnStartRes(p, t)
    [] p.state \in {"before_url", "url"} -> OnUrl(p, t)
    [] p.state = "field_start" -> OnFieldStart(p, t)
    [] p.state = "field" -> OnField(p, t)
    [] p.state = "value_start" -> OnValueStart(p, t)
    [] p.state = "value" -> OnValue(p, t)
    [] p.state = "value_lws" -> OnValueLws(p, t)
    [] p.state = "header_almost_done" -> OnHeaderAlmostDone(p, t)
    [] p.state = "headers_almost_done" -> OnHeadersAlmostDone(p, t)
    [] p.state \in {"chunk_size_start", "chunk_size"} -> OnChunkSize(p, t)
    [] p.state = "chunk_size_almost_done" -> OnChunkSizeAlmostDone(p, t)
    [] p.state = "chunk_data" -> OnChunkData(p, t)
    [] p.state = "chunk_data_almost_done" -> OnChunkDataAlmostDone(p, t)
    [] p.state = "chunk_data_done" -> OnChunkDataDone(p, t)
    [] p.state = "body_identity" -> OnBodyIdentity(p, t)
    [] p.state = "body_identity_eof" -> OnBodyEof(p, t)

(* Bytes outside bodies are counted, and limited. *)
Byte(p, t) ==
  LET q == IF p.state \in HeaderStates THEN [p EXCEPT !.nread = @ + 1] ELSE p
  IN  IF p.upgrade \/ q.nread > MaxHeaderSize THEN Fail(q) ELSE OnByte(q, t)

(* Mutant: what the last buffer left unfinished is not taken up. *)
MarkFirstNever(p) == p

(* A name, a value or an url that the last buffer left unfinished goes on  *)
(* with the first byte of the next.                                        *)
MarkFirst(p) == IF p.state \in {"field", "value", "url"} THEN Mark(p, p.state) ELSE p
----------------------------------------------------------------------------
(* The constructor, and Reset, which Connection calls before it reads the  *)
(* response to each request it sent to webhdfs.                            *)
NewParser ==
  [request |-> TRUE, method |-> "", state |-> "start", url_state |-> "start",
   header_state |-> "general", flags |-> {}, length |-> 0, nread |-> 0, code |-> 0, errno |-> FALSE, upgrade |-> FALSE,
   mark |-> NoMark,
   table |-> [i \in 1..MaxHeaders |-> Empty],
   head |-> 1, tail |-> MaxHeaders + 1, header_it |-> 1,
   url |-> <<>>, status_code |-> -1, body |-> <<>>,
   headers_complete |-> FALSE, message_complete |-> FALSE]

(* Mutant: the entries are not cleared. *)
ClearHeadersPointersOnly(p) ==
  [p EXCEPT !.head = 1, !.tail = MaxHeaders + 1, !.header_it = 1]

ClearHeaders(p) ==
  [p EXCEPT !.table = [i \in 1..MaxHeaders |-> Empty],
            !.head = 1, !.tail = MaxHeaders + 1, !.header_it = 1]

ParserInit(p) ==
  [p EXCEPT !.request = FALSE, !.state = "start", !.header_state = "general",
            !.flags = {}, !.length = 0, !.nread = 0, !.code = 0, !.errno = FALSE,
            !.upgrade = FALSE]

Reset(p) ==
  ParserInit(ClearHeaders([p EXCEPT !.status_code = -1, !.headers_complete = FALSE,
                                    !.message_complete = FALSE, !.url = <<>>]))

Stream == FlattenSeq([i \in 1..Len(input) |-> Encode(input[i])])

Init ==
  /\ parser = NewParser
  /\ \E c \in Conversations : input = c.asked /\ answers = c.answers
  /\ pos = 0
  /\ parsing = Outside

(* Connection reads on until the header of a request, or all of a response *)
(* that is not refused for its code.                                       *)
Wanted ==
  /\ ~parser.errno
  /\ ~parser.headers_complete
       \/ (~parser.request /\ parser.status_code = 200 /\ ~parser.message_complete)

BeginParse ==
  /\ parsing = Outside /\ Wanted /\ pos < Len(Stream)
  /\ parser' = MarkFirst(parser)
  /\ parsing' = 0
  /\ UNCHANGED <<input, answers, pos>>

Execute ==
  /\ parsing # Outside /\ ~parser.errno /\ pos < Len(Stream)
  /\ parser' = Byte(parser, Stream[pos + 1])
  /\ pos' = pos + 1
  /\ parsing' = 1
  /\ UNCHANGED <<input, answers>>

(* The end of the buffer, anywhere: what is marked is reported. *)
EndParse ==
  /\ parsing = 1
  /\ parser' = IF parser.errno THEN parser ELSE Report(parser)
  /\ parsing' = Outside
  /\ UNCHANGED <<input, answers, pos>>

(* handle_write_request, for the request or for a redirect.  The body goes *)
(* to another content, or to one that was rewound.                         *)
NextResponse ==
  /\ parsing = Outside /\ ~parser.errno /\ parser.headers_complete
  /\ parser.request \/ parser.status_code \in {301, 302, 303, 307}
  /\ parser' = [Reset(parser) EXCEPT !.body = <<>>]
  /\ answers # <<>> /\ input' = <<Head(answers)>> /\ answers' = Tail(answers)
  /\ pos' = 0
  /\ UNCHANGED parsing
----------------------------------------------------------------------------
(* Nothing of a second message has been read. *)
InFirst == pos <= Len(Encode(input[1]))

Entry(h) == [field |-> Upto(h.name, FieldCap), value |-> Upto(FlattenSeq(h.lines), ValueCap)]

(* The table holds the headers of the message, in their order, as many and *)
(* as much of each as there is room for - wherever buffers ended, and      *)
(* nothing of an earlier message.                                          *)
HeadersAsSent ==
  parser.headers_complete /\ InFirst =>
    LET h == input[1].headers
        n == IF Len(h) < MaxHeaders THEN Len(h) ELSE MaxHeaders
    IN  /\ parser.tail = n + 1
        /\ \A i \in 1..n : parser.table[i] = Entry(h[i])
        /\ parser.head = 1 \/ "trailing" \in parser.flags

Delivered == parser.body \o IF parser.mark.of = "body" THEN parser.mark.run ELSE <<>>

(* The url is that of the request, whole once its header is complete; and  *)
(* what the content receives is the body of the message: no byte of the    *)
(* chunks' frames, none lost at the end of a buffer, none of what follows. *)
DataAsSent ==
  LET body == FlattenSeq(input[1].body)
  IN  InFirst =>
        /\ parser.request /\ parser.headers_complete => parser.url = input[1].url
        /\ IsPrefix(Delivered, body)
        /\ parser.message_complete => parser.body = body

(* The end of a message is noticed with its last byte, and not before; a   *)
(* body that ends with the connection is never complete.                   *)
CompleteAtEnd ==
  InFirst =>
    (parser.message_complete <=>
       pos = Len(Encode(input[1])) /\ input[1].framing # "eof" /\ ~parser.errno)

(* A well-formed message is accepted, unless its header is too long or it  *)
(* asks for another protocol.                                              *)
WellFormedAccepted ==
  parser.errno /\ InFirst =>
    ~input[1].wellformed \/ parser.nread > MaxHeaderSize \/ parser.upgrade

(* The assertions in http_parser_execute: the count of header bytes starts *)
(* with each chunk, and there is a length wherever data is expected.       *)
Assertions ==
  ~parser.errno =>
    /\ parser.state = "chunk_size_start" => parser.nread = 0
    /\ parser.state \in {"chunk_size_start", "chunk_size", "chunk_size_almost_done", "chunk_data",
                         "chunk_data_almost_done", "chunk_data_done"} => "chunked" \in parser.flags
    /\ parser.state \in {"body_identity", "chunk_data"} => parser.length > 0
    /\ parser.state = "chunk_data_almost_done" => parser.length = 0
=============================================================================
