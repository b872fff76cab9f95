---------------------------- MODULE Conversation ----------------------------
(***************************************************************************)
(* What a Connection makes of the messages that its HttpParser reads: the  *)
(* query of the client's request, the request it writes to webhdfs, the    *)
(* server a redirect sends it to, and the next request.                    *)
(*                                                                         *)
(* The handlers' other work - sockets, cache, documents, pages - is in the *)
(* module Connection; here every resolve, connect and write succeeds, and  *)
(* no image is found in the cache.                                         *)
(***************************************************************************)
EXTENDS HttpParser

CONSTANTS
  OutHost, OutPort,   \* the webhdfs server of the command line
  BufferSize,         \* Connection::buffer
  LongMax,            \* the largest long
  UIntMod             \* 2^32

ASSUME ConversationAssumption ==
  BufferSize \in Nat \ {0} /\ LongMax \in Nat /\ UIntMod \in Nat \ {0}

VARIABLES
  handler,        \* the handler of Connection that is pending, or "none"
  status,         \* of the response sent to the client, 0 before
  query,          \* Connection::query
  server,         \* Connection::host, port and webhdfs_path
  request         \* what was written to webhdfs last

connection == <<handler, status, query, server, request>>
allVars == <<vars, connection>>

Lower(s) ==
  [i \in 1..Len(s) |-> CASE s[i] = "W" -> "w" [] s[i] = "H" -> "h" [] s[i] = "INFO" -> "info"
                         [] OTHER -> s[i]]
EqualsIgnoreCase(a, b) == Lower(a) = Lower(b)

(* StringSplitIterator: the pieces from its first value to its end. *)
Split(s, c) ==
  LET at == <<0>> \o SetToSortSeq({i \in 1..Len(s) : s[i] = c}, <) \o <<Len(s) + 1>>
  IN  IF s = <<>> THEN <<>>
      ELSE [k \in 1..(Len(at) - 1) |-> SubSeq(s, at[k] + 1, at[k + 1] - 1)]

NullRun(n) == [i \in 1..n |-> "null"]
ReadsNull(s) == "null" \in ToSet(s)

(* SplitPair.  The iterator gives an empty piece as a null pointer, from   *)
(* which the second of the pair is then read.                              *)
SplitPair(s, c) ==
  LET pieces == Split(s, c)
      first == IF pieces = <<>> THEN <<>> ELSE pieces[1]
      rest == Len(s) - Len(first) - 1
  IN  [first |-> first,
       second |-> IF Len(pieces) < 2 THEN <<>>
                  ELSE IF pieces[2] = <<>> THEN NullRun(rest)
                  ELSE SubSeq(s, Len(s) - rest + 1, Len(s))]

(* strtoul: the digits at the start, after a sign.  A number too large for *)
(* an unsigned long becomes the largest, a negative one wraps around.      *)
ULongMod == 2 * (LongMax + 1)
Unsigned(s) == IF s # <<>> /\ s[1] \in {"+", "-"} THEN Tail(s) ELSE s
DigitsOf(s) == SelectInSeq(s, LAMBDA ch : ch \notin Num)
Numeral(s) == IF DigitsOf(s) = 0 THEN s ELSE SubSeq(s, 1, DigitsOf(s) - 1)
strtoul(s) ==
  LET n == Decimal(Numeral(Unsigned(s)))
  IN  IF n >= ULongMod THEN ULongMod - 1
      ELSE IF s[1] = "-" /\ n > 0 THEN ULongMod - n ELSE n

(* TryConvert<unsigned int>: what is negative as a long is refused, and    *)
(* with it the largest unsigned long; the cast cuts the others.            *)
TryConvert(s) ==
  IF Numeral(Unsigned(s)) = <<>> THEN [ok |-> FALSE, value |-> 0]
  ELSE [ok |-> strtoul(s) <= LongMax, value |-> strtoul(s) % UIntMod]

NoQuery == [path |-> <<>>, w |-> 0, h |-> 0, json |-> FALSE, threw |-> FALSE]

(* Mutant: what comes after "info" counts as well. *)
TakeItemOnward(q, item) ==
  LET pair == SplitPair(item, "=")
      number == TryConvert(pair.second)
      keys == {k \in {"w", "h"} : EqualsIgnoreCase(pair.first, <<k>>)}
  IN  IF q.threw THEN q
      ELSE IF EqualsIgnoreCase(item, <<"info">>) THEN [q EXCEPT !.json = TRUE]
      ELSE IF keys = {} THEN q
      ELSE IF ReadsNull(pair.second) THEN [q EXCEPT !.threw = TRUE]
      ELSE [q EXCEPT ![CHOOSE k \in keys : TRUE] = IF number.ok THEN number.value ELSE @]

(* One turn of GetQuery's loop, until it breaks or a string is made of the *)
(* null pointer.                                                           *)
TakeItem(q, item) ==
  LET pair == SplitPair(item, "=")
      number == TryConvert(pair.second)
      keys == {k \in {"w", "h"} : EqualsIgnoreCase(pair.first, <<k>>)}
  IN  IF q.json \/ q.threw THEN q
      ELSE IF EqualsIgnoreCase(item, <<"info">>) THEN [q EXCEPT !.json = TRUE]
      ELSE IF keys = {} THEN q
      ELSE IF ReadsNull(pair.second) THEN [q EXCEPT !.threw = TRUE]
      ELSE [q EXCEPT ![CHOOSE k \in keys : TRUE] = IF number.ok THEN number.value ELSE @]

(* GetQuery looks at the fields, whatever http_parser_parse_url returned.  *)
QueryOf(uri, fields) ==
  IF "path" \notin DOMAIN fields THEN NoQuery
  ELSE FoldLeft(TakeItem, [NoQuery EXCEPT !.path = Text(uri, fields.path)],
                IF "query" \in DOMAIN fields THEN Split(Text(uri, fields.query), "&") ELSE <<>>)
GetQuery(uri, garbage) == QueryOf(uri, ParseUrl(uri, garbage).fields)

Prefix == <<"/", "v1">>   \* "/webhdfs/v1"

(* What host, port and path become by the fields of a location: host and  *)
(* port are set before the path is looked for.                             *)
WithoutPrefix(path) == IF IsPrefix(Prefix, path) THEN SubSeq(path, Len(Prefix) + 1, Len(path)) ELSE path
Located(conn, uri, fields, noPort) ==
  LET named == [conn EXCEPT !.host = Text(uri, fields.host),
                            !.port = IF "port" \in DOMAIN fields THEN Text(uri, fields.port) ELSE noPort]
  IN  IF "host" \notin DOMAIN fields THEN [ok |-> FALSE, conn |-> conn]
      ELSE IF "path" \notin DOMAIN fields THEN [ok |-> FALSE, conn |-> named]
      ELSE [ok |-> TRUE, conn |-> [named EXCEPT !.path = WithoutPrefix(Text(uri, fields.path))]]

(* Mutant: a location without a port leaves the port as it was. *)
SetLocationKeepsPort(conn, uri, garbage) ==
  Located(conn, uri, ParseUrl(uri, garbage).fields, conn.port)

(* SetLocation, whatever http_parser_parse_url returned. *)
SetLocation(conn, uri, garbage) ==
  Located(conn, uri, ParseUrl(uri, garbage).fields, <<"80">>)

(* StringAdvance: as much of s as leaves room for a NUL.  StringFormat, at *)
(* the start of the request, does the same.                                *)
StringAdvance(buf, s) == Upto(buf \o s, BufferSize - 1)

WriteHeader(buf, name, value) ==
  FoldLeft(StringAdvance, buf, <<name, <<": ">>, value, <<"crlf">>>>)

BuildRequest(conn) ==
  LET line == StringAdvance(<<>>, <<"GET">> \o Prefix \o conn.path \o <<"?op=OPEN HTTP/1.1", "crlf">>)
      host == WriteHeader(line, <<"Host">>, conn.host)
  IN  StringAdvance(WriteHeader(host, <<"Connection">>, <<"close">>), <<"crlf">>)

(* GetHeader *)
Headers(field) ==
  {i \in parser.head..(parser.tail - 1) : EqualsIgnoreCase(parser.table[i].field, field)}
GetHeader(field) == parser.table[CHOOSE i \in Headers(field) : \A j \in Headers(field) : i <= j].value
----------------------------------------------------------------------------
ConversationInit ==
  /\ Init
  /\ handler = "handle_read_request" /\ status = 0 /\ query = NoQuery /\ request = <<>>
  /\ server = [host |-> OutHost, port |-> OutPort, path |-> <<>>]

SendResponse(code) == handler' = "none" /\ status' = code

(* SendRequest, up to the write of the request. *)
SendRequest(conn) ==
  /\ server' = conn
  /\ IF EqualsIgnoreCase(conn.path, <<"/", "favicon">>)
     THEN SendResponse(404) /\ UNCHANGED request
     ELSE /\ handler' = "handle_write_request" /\ request' = BuildRequest(conn)
          /\ UNCHANGED status

(* The parser reads on for the handler that waits for it. *)
Read ==
  /\ handler \in {"handle_read_request", "handle_read_webhdfs_response"}
  /\ BeginParse \/ Execute \/ EndParse
  /\ UNCHANGED connection

HandlesRead(h) == handler = h /\ parsing = Outside

(* The request is refused by the parser, or ends before its header does. *)
BadRequest ==
  /\ HandlesRead("handle_read_request") /\ (parser.errno \/ ~parser.headers_complete)
  /\ SendResponse(400)
  /\ UNCHANGED <<vars, query, server, request>>

GoodRequest ==
  /\ HandlesRead("handle_read_request") /\ ~parser.errno /\ parser.headers_complete
  /\ \E garbage \in Garbage : query' = GetQuery(parser.url, garbage)
  /\ UNCHANGED vars
  /\ \/ /\ query'.threw
        /\ handler' = "none" /\ UNCHANGED <<status, server, request>>
     \/ /\ ~query'.threw /\ (parser.method # "GET" \/ Len(query'.path) < 2)
        /\ SendResponse(400) /\ UNCHANGED <<server, request>>
     \/ /\ ~query'.threw /\ parser.method = "GET" /\ Len(query'.path) >= 2
        /\ SendRequest([server EXCEPT !.path = query'.path])

HandleWriteRequest ==
  /\ handler = "handle_write_request" /\ NextResponse
  /\ handler' = "handle_read_webhdfs_response"
  /\ UNCHANGED <<status, query, server, request>>

Redirects == {301, 302, 303, 307}

(* A response that the parser refuses, or that ends before its header. *)
BadResponse ==
  /\ HandlesRead("handle_read_webhdfs_response") /\ (parser.errno \/ ~parser.headers_complete)
  /\ SendResponse(500)
  /\ UNCHANGED <<vars, query, server, request>>

RedirectNowhere ==
  /\ HandlesRead("handle_read_webhdfs_response") /\ ~parser.errno /\ parser.headers_complete
  /\ parser.status_code \in Redirects /\ Headers(<<"location">>) = {}
  /\ SendResponse(500)
  /\ UNCHANGED <<vars, query, server, request>>

GoToLocation(r) ==
  IF r.ok THEN SendRequest(r.conn)
  ELSE SendResponse(500) /\ server' = r.conn /\ UNCHANGED request

Redirect ==
  /\ HandlesRead("handle_read_webhdfs_response") /\ ~parser.errno /\ parser.headers_complete
  /\ parser.status_code \in Redirects /\ Headers(<<"location">>) # {}
  /\ \E garbage \in Garbage :
       GoToLocation(SetLocation(server, GetHeader(<<"location">>), garbage))
  /\ UNCHANGED <<vars, query>>

(* Another response: the server's code is passed on; an image is shown     *)
(* when it is complete, and is an error when the connection ends before.   *)
Respond ==
  /\ HandlesRead("handle_read_webhdfs_response") /\ ~parser.errno /\ parser.headers_complete
  /\ parser.status_code \notin Redirects
  /\ IF parser.status_code # 200 \/ parser.message_complete
     THEN SendResponse(parser.status_code) ELSE SendResponse(500)
  /\ UNCHANGED <<vars, query, server, request>>

ConversationNext ==
  \/ Read \/ BadRequest \/ GoodRequest \/ HandleWriteRequest
  \/ BadResponse \/ RedirectNowhere \/ Redirect \/ Respond

ConversationSpec == ConversationInit /\ [][ConversationNext]_allVars
----------------------------------------------------------------------------
FieldsRight(m, r) ==
  /\ FieldsWithin(m.url, r.fields)
  /\ m.wellformed =>
       r.ok /\ [f \in DOMAIN r.fields |-> Text(m.url, r.fields[f])] = m.parts

(* The fields of a well-formed url are found where they were written, none *)
(* missing and none invented.  Since the callers go on with the fields of  *)
(* an url that is refused: these lie in it, too, and do not overlap - but  *)
(* for the port beside a schema without a host, which memory never written *)
(* decides and no caller looks at.                                         *)
FieldsAsWritten ==
  pos = 1 => \A garbage \in Garbage :
               FieldsRight(input[1], ParseUrl(input[1].url, garbage))

(* The page size that is asked for is the last number given for its key    *)
(* before an "info", which asks for no page, and 0 if there is none; other *)
(* items, and values that are not numbers, change nothing.  A number has   *)
(* digits, with a sign or without, and stands for its remainder by 2^64 if *)
(* that is a long: -1 is refused, -(2^64 - 5) is 5.  An item is a key, or  *)
(* a key and a value; values that begin with "=" are left to SplitAtFirst. *)
SignedNumber(s) ==
  LET digits == Numeral(IF s[1] \in {"+", "-"} THEN Tail(s) ELSE s)
  IN  IF s[1] = "-" THEN -Decimal(digits) ELSE Decimal(digits)
Asked(items, key) ==
  LET IsInfo(i) == Len(items[i]) = 1 /\ items[i][1] \in {<<"info">>, <<"INFO">>}
      Gives(i) == /\ Len(items[i]) = 2 /\ Lower(items[i][1]) = <<key>>
                  /\ \E k \in {1, 2} : /\ k <= Len(items[i][2]) /\ items[i][2][k] \in Num
                                       /\ k = 2 => items[i][2][1] \in {"+", "-"}
                  /\ SignedNumber(items[i][2]) \in (1 - ULongMod)..(ULongMod - 1)
                  /\ SignedNumber(items[i][2]) % ULongMod <= LongMax
                  /\ \A j \in 1..i : ~IsInfo(j)
      given == {i \in 1..Len(items) : Gives(i)}
  IN  IF given = {} THEN 0
      ELSE (SignedNumber(items[CHOOSE i \in given : \A j \in given : j <= i][2]) % ULongMod) % UIntMod

QueryAsAsked ==
  LET m == input[1]
      plain == \A i \in 1..Len(m.items) :
                 Len(m.items[i]) = 2 /\ m.items[i][2] # <<>> => m.items[i][2][1] # "="
  IN  parser.request /\ handler # "handle_read_request" /\ InFirst /\ m.wellformed /\ plain =>
        /\ handler = "none" => status \in {400, 404}
        /\ parser.headers_complete /\ "path" \in DOMAIN m.parts =>
             query = [path |-> m.parts.path, threw |-> FALSE,
                      w |-> Asked(m.items, "w"), h |-> Asked(m.items, "h"),
                      json |-> \E i \in 1..Len(m.items) :
                                 Len(m.items[i]) = 1 /\ Lower(m.items[i][1]) = <<"info">>]

(* A request as it should be, for a path that webhdfs serves. *)
WholeRequest(host, path) ==
  <<"GET">> \o path \o <<"?op=OPEN HTTP/1.1", "crlf", "Host", ": ">> \o host
    \o <<"crlf", "Connection", ": ", "close", "crlf", "crlf">>

(* After any number of redirects the next request goes to the server of    *)
(* the last location, port 80 if it names none, and asks for its path, of  *)
(* which the prefix is neither lost nor doubled; a request that does not   *)
(* fit the buffer is cut at its end.  A location that does not fit the     *)
(* table of headers is another location.                                   *)
RedirectFollowed ==
  LET m == input[1]
  IN  handler = "handle_write_request" /\ ~parser.request /\ m.wellformed /\ Len(m.url) <= ValueCap =>
        /\ server.host = m.parts.host
        /\ server.port = IF "port" \in DOMAIN m.parts THEN m.parts.port ELSE <<"80">>
        /\ request = Upto(WholeRequest(m.parts.host,
                            IF IsPrefix(Prefix, m.parts.path) THEN m.parts.path
                            ELSE Prefix \o m.parts.path), BufferSize - 1)

(* connection.cpp: "s.split(c, 1)".  A pair is split at the first          *)
(* separator: its parts and the separator are the string again.            *)
SplitAtFirst ==
  handler = "none" /\ parser.request =>
    \A i \in 1..Len(input[1].items) :
      LET item == input[1].items[i]
      IN  Len(item) = 2 =>
            SplitPair(item[1] \o <<"=">> \o item[2], "=") = [first |-> item[1], second |-> item[2]]
=============================================================================
