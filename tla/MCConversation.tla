--------------------------- MODULE MCConversation ---------------------------
(* Conversation on requests for many urls, responses of every framing, and *)
(* chains of redirects.                                                    *)
EXTENDS Conversation

(* The host is not found; or it is, without a port, or with one that lies  *)
(* in a short url, at its start, or far behind any.                        *)
SomeGarbage ==
  {[ok |-> FALSE, port |-> Span(0, 0)]}
    \cup {[ok |-> ok, port |-> Span(off, len)] : ok \in BOOLEAN, off \in {0, 2, 30}, len \in {1, 20}}
TheHost == <<"a">>
ThePort == <<"1">>

NoParts == [f \in {} |-> <<>>]
Message(start, url, parts, code, headers, framing, body, trailers) ==
  [start |-> start, url |-> url, parts |-> parts, wellformed |-> DOMAIN parts # {}, items |-> <<>>,
   code |-> code, headers |-> headers, framing |-> framing, body |-> body, trailers |-> trailers]

RequestLine(method, url) == <<<<"method", method>>>> \o Tokens("url", url) \o <<Tok("version")>>
Request(method, url, parts, headers) ==
  Message(RequestLine(method, url), url, parts, 0, headers, "none", <<>>, <<>>)
Response(code, headers, framing, body, trailers) ==
  [Message(<<<<"line", code>>>>, <<>>, NoParts, code, headers, framing, body, trailers)
     EXCEPT !.wellformed = TRUE]

Host == Header(<<"ho", "st">>, <<<<"a">>>>)
Long == Header(<<"x", "y", "z">>, <<<<"b", "c">>, <<"d", "e">>>>)
Folded == Header(<<"v">>, <<<<"b">>, <<"c">>>>)
NoValue == Header(<<"w">>, <<<<>>>>)
Location(url) == Header(<<"location">>, <<url>>)
Chunked == Header(<<"transfer_encoding">>, <<<<"chunked">>>>)
Close == Header(<<"connection">>, <<<<"close">>>>)
Upgrade == Header(<<"upgrade">>, <<<<"h2c">>>>)
Length(digits) == Header(<<"content-", "length">>, <<digits>>)

(* Urls. *)
With(parts, field, texts) ==
  {parts} \cup {[f \in DOMAIN parts \cup {field} |-> IF f = field THEN t ELSE parts[f]] : t \in texts}
Add(set, field, texts) == UNION {With(parts, field, texts) : parts \in set}

PathOnly == {[path |-> <<"/">>], [path |-> <<"/", "p">>], [path |-> <<"*">>],
             [path |-> <<"/", "p", ":", "@">>], [path |-> <<"/", "favicon">>]}
Authority == [schema |-> <<"h">>, host |-> <<"a", ".">>]
V6 == [schema |-> <<"h", "w">>, host |-> <<":", "1">>]
Absolute ==
  Add(Add(Add({Authority, V6}, "userinfo", {<<"w">>, <<"w", ":", "1">>}),
          "port", {<<"0">>, <<"2", "0">>}),
      "path", {<<"/">>, <<"/", "p">>})
Written ==
  Add(Add(PathOnly, "query", {<<"p">>, <<"?", "p">>}), "fragment", {<<"p">>, <<"p", "#">>})
    \cup Absolute
    \cup Add({Authority}, "query", {<<"p">>})
    \cup Add(Add({[path |-> <<"/", "p">>, schema |-> <<"h">>, host |-> <<"a">>]},
                 "query", {<<"p">>}), "fragment", {<<"?">>})

Malformed ==
  {<<"a">>, <<"h", ":">>, <<"h", ":", "/">>, <<"h", ":", "/", "/">>, <<"h", ":", "/", "/", "/", "p">>,
   <<"h", ":", "/", "/", "?", "p">>, <<"h", ":", "/", "/", "a", ":", "/", "p">>,
   <<"h", ":", "/", "/", "a", ":", "2", "1", "/", "p">>, <<"h", ":", "/", "/", "@", "/", "p">>,
   <<"h", ":", "/", "/", "a", "@", "@", "/">>, <<"h", ":", "/", "/", "a", "@", "/", "p">>,
   <<"h", ":", "/", "/", "[", "1", "/", "p">>, <<"h", ":", "/", "/", "[", "p", "]", "/", "p">>,
   <<"h", ":", "/", "/", "a", ":", "w", "@", "a", ":", "/", "p">>, <<"?", "p">>, <<"1">>,
   <<"/", "p", "?", "#", "#">>, <<"/", "?">>}

(* Queries, as items, and the urls that carry them. *)
Items == {<<<<"w">>>>, <<<<"info">>>>, <<<<"INFO">>>>, <<<<"W">>, <<"2">>>>, <<<<"w">>, <<"1", "2">>>>,
          <<<<"h">>, <<"3", "p">>>>, <<<<"h">>, <<>>>>, <<<<"w">>, <<"3", "3">>>>, <<<<>>>>,
          <<<<"w">>, <<"p">>>>, <<<<"w">>, <<"-", "1">>>>, <<<<"w">>, <<"+", "2">>>>,
          <<<<"w">>, <<"-", "3", "3">>>>, <<<<"h">>, <<"-", "0">>>>, <<<<"h">>, <<"+">>>>, <<<<"w", "w">>, <<"1">>>>,
          <<<<"w">>, <<"1", "=", "2">>>>}
Queries == {<<i>> : i \in Items \cup {<<<<"w">>, <<"=", "1">>>>, <<<<"p">>, <<"=", "1">>>>}}
             \cup {<<i, j>> : i, j \in Items}
             \cup {<<<<<<"h">>, <<"2">>>>, i, <<<<"w">>, <<"1">>>>>> : i \in Items}
WriteItem(item) == IF Len(item) = 1 THEN item[1] ELSE item[1] \o <<"=">> \o item[2]
WriteQuery(items) ==
  FoldLeft(LAMBDA text, item : text \o <<"&">> \o WriteItem(item), WriteItem(items[1]), Tail(items))
QueryParts(items) ==
  [f \in {"path"} \cup (IF WriteQuery(items) = <<>> THEN {} ELSE {"query"}) |->
     IF f = "path" THEN <<"/", "p">> ELSE WriteQuery(items)]

Ask(url, parts) == Request("GET", url, parts, <<>>)
AskFor(items) ==
  [Ask(WriteUrl(QueryParts(items)), QueryParts(items)) EXCEPT !.items = items]

(* Locations. *)
Paths == {<<"/", "p">>, <<"/", "v1">>, <<"/", "v1", "/", "p">>, <<"/", "v1", "p">>, <<"/", "v1", "/", "favicon">>}
Locations ==
  Add(Add({[schema |-> <<"h">>, host |-> <<"b">>, path |-> p] : p \in Paths},
          "port", {<<"2">>}), "userinfo", {<<"w">>})
    \cup Add({Authority}, "port", {<<"2">>})
RedirectTo(code, url, parts) ==
  [Message(<<<<"line", code>>>>, url, parts, code, <<Location(url), Length(<<"0">>)>>, "none", <<>>, <<>>)
     EXCEPT !.wellformed = "host" \in DOMAIN parts /\ "path" \in DOMAIN parts]
GoTo(parts) == RedirectTo(307, WriteUrl(parts), parts)

SomeResponses ==
  {Response(200, <<Length(<<"0", "3">>), Close>>, "length", <<<<"k", "l", "m">>>>, <<>>),
   Response(200, <<Chunked, Close>>, "chunked", <<<<"k", "l">>, <<"m">>>>, <<>>),
   Response(200, <<Chunked, Folded>>, "chunked", <<<<"k">>>>, <<Host>>),
   Response(200, <<Close>>, "eof", <<<<"k", "l">>>>, <<>>),
   Response(302, <<Host, Length(<<"1">>)>>, "length", <<<<"k">>>>, <<>>),
   Response(404, <<Host>>, "eof", <<<<"n">>>>, <<>>),
   Response(204, <<>>, "none", <<>>, <<>>)}

Get == Ask(<<"/", "p">>, [path |-> <<"/", "p">>])
First == GoTo([schema |-> <<"h">>, host |-> <<"b">>, port |-> <<"3">>, path |-> <<"/", "v1", "/", "w">>])

Talk(requests, responses) == [asked |-> requests, answers |-> responses]
SomeConversations ==
  {Talk(<<Get, Get>>, <<>>),
   Talk(<<Request("GET", <<"/", "p">>, [path |-> <<"/", "p">>], <<Long, NoValue, Folded, Host>>)>>, <<>>),
   Talk(<<Request("GET", <<"/", "p">>, [path |-> <<"/", "p">>], <<Close, Upgrade>>)>>, <<>>),
   Talk(<<Request("POST", <<"/", "p">>, [path |-> <<"/", "p">>], <<Host>>)>>, <<>>)}
  \cup {Talk(<<Ask(WriteUrl(parts), parts)>>, <<>>) : parts \in Written}
  \cup {Talk(<<Ask(url, NoParts)>>, <<>>) : url \in Malformed}
  \cup {Talk(<<AskFor(items)>>, <<>>) : items \in Queries}
  \cup {Talk(<<Get>>, <<m>>) : m \in SomeResponses}
  \cup {Talk(<<Get>>, <<RedirectTo(302, url, NoParts)>>) : url \in Malformed}
  \cup {Talk(<<Get>>, <<First, GoTo(parts)>>) : parts \in Locations}
  \cup {Talk(<<Get>>, <<First, m>>) : m \in SomeResponses}
=============================================================================
