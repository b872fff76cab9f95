------------------------------ MODULE UrlParser ------------------------------
(***************************************************************************)
(* http_parser.c: the automaton parse_url_char that checks an url, and     *)
(* http_parser_parse_url, which finds its fields and takes its host apart. *)
(*                                                                         *)
(* An url is a sequence of characters; a word that the code treats like    *)
(* one letter, or compares as a whole, is one character.                   *)
(***************************************************************************)
EXTENDS Integers, Sequences, SequencesExt

CONSTANTS
  MaxPort,   \* 0xffff
  MaxSpan,   \* 0xffff, the largest place or length of a field
  Garbage    \* what the host may come to when it is read from memory never written

(* http_parse_host then reads anything, from anywhere: it succeeds or not, *)
(* with a port (of length 0: without) that lies anywhere.                  *)
ASSUME UrlAssumption ==
  /\ MaxPort \in Nat /\ MaxSpan \in Nat
  /\ Garbage \subseteq [ok : BOOLEAN, port : [off : 0..MaxSpan, len : 0..MaxSpan]]

Digit == [d \in {"0", "1", "2", "3"} |->
            CASE d = "0" -> 0 [] d = "1" -> 1 [] d = "2" -> 2 [] d = "3" -> 3]

(* Character classes.  A blank is in none of them. *)
Num == DOMAIN Digit
Hex == Num \cup {"a", "b"}
Alpha == {"a", "b", "h", "w", "H", "W", "p", "v1", "info", "INFO", "favicon"}
HostChars == Num \cup Alpha \cup {".", "-"}
UserinfoChars == HostChars \cup {"%", ":", "&", "=", "+", "*"}
UrlChars == UserinfoChars \cup {"/", "@", "[", "]"}
FragmentChars == UrlChars \cup {"?", "#"}

Decimal(digits) == FoldLeft(LAMBDA n, d : 10 * n + Digit[d], 0, digits)

(* parse_url_char: the characters on which a state is left, and for what. *)
ServerArrows == {<<{"/"}, "path">>, <<{"?"}, "query_start">>, <<{"@"}, "server_with_at">>,
                 <<UserinfoChars \cup {"[", "]"}, "server">>}
QueryArrows == {<<UrlChars \cup {"?"}, "query">>, <<{"#"}, "fragment_start">>}
UrlArrows ==
  [dead               |-> {},
   start              |-> {<<{"/", "*"}, "path">>, <<Alpha, "schema">>},
   schema             |-> {<<Alpha, "schema">>, <<{":"}, "schema_slash">>},
   schema_slash       |-> {<<{"/"}, "schema_slash_slash">>},
   schema_slash_slash |-> {<<{"/"}, "server_start">>},
   server_start       |-> ServerArrows,
   server             |-> ServerArrows,
   server_with_at     |-> {a \in ServerArrows : a[1] # {"@"}},
   path               |-> {<<UrlChars, "path">>, <<{"?"}, "query_start">>,
                           <<{"#"}, "fragment_start">>},
   query_start        |-> QueryArrows,
   query              |-> QueryArrows,
   fragment_start     |-> {<<UrlChars \cup {"?"}, "fragment">>, <<{"#"}, "fragment_start">>},
   fragment           |-> {<<FragmentChars, "fragment">>}]

(* http_parse_host_char, the same way. *)
V6Arrow == <<Hex \cup {":", "."}, "v6">>
PortArrow == <<{":"}, "port_start">>
UserinfoArrows == {<<{"@"}, "host_start">>, <<UserinfoChars, "userinfo">>}
HostArrows ==
  [dead           |-> {},
   userinfo_start |-> UserinfoArrows,
   userinfo       |-> UserinfoArrows,
   host_start     |-> {<<{"["}, "v6_start">>, <<HostChars, "host">>},
   host           |-> {<<HostChars, "host">>, PortArrow},
   v6_start       |-> {V6Arrow},
   v6             |-> {V6Arrow, <<{"]"}, "v6_end">>},
   v6_end         |-> {PortArrow},
   port_start     |-> {<<Num, "port">>},
   port           |-> {<<Num, "port">>}]

Follow(arrows, s, ch) ==
  IF \E a \in arrows[s] : ch \in a[1] THEN (CHOOSE a \in arrows[s] : ch \in a[1])[2] ELSE "dead"

UrlChar(s, ch) == Follow(UrlArrows, s, ch)
HostChar(s, ch) == Follow(HostArrows, s, ch)
----------------------------------------------------------------------------
(* Fields are spans of the url: the place before their first character,    *)
(* and their length.  The domain of "fields" is field_set.                 *)
Span(off, len) == [off |-> off, len |-> len]
Text(url, span) == SubSeq(url, span.off + 1, span.off + span.len)
Set(fields, field, span) ==
  [f \in DOMAIN fields \cup {field} |-> IF f = field THEN span ELSE fields[f]]

(* The field a character belongs to by the state it leads to; the others   *)
(* are delimiters.                                                         *)
FieldOfState == [schema |-> "schema", server |-> "host", server_with_at |-> "host",
                 path |-> "path", query |-> "query", fragment |-> "fragment"]

(* One turn of the loop of http_parser_parse_url, at the character after   *)
(* place "at". *)
UrlStep(url, u, at) ==
  LET s == UrlChar(u.s, url[at + 1])
      found_at == u.found_at \/ s = "server_with_at"
  IN  IF u.s = "dead" \/ s \notin DOMAIN FieldOfState THEN [u EXCEPT !.s = s, !.found_at = found_at]
      ELSE LET uf == FieldOfState[s]
           IN  [s |-> s, old_uf |-> uf, found_at |-> found_at,
                fields |-> IF uf = u.old_uf THEN [u.fields EXCEPT ![uf].len = @ + 1]
                           ELSE Set(u.fields, uf, Span(at, 1))]

NewScan == [s |-> "start", old_uf |-> "none", found_at |-> FALSE, fields |-> << >>]

(* What the loop knows after n characters. *)
UrlScans(url) ==
  LET After[n \in Nat] == IF n = 0 THEN NewScan ELSE UrlStep(url, After[n - 1], n - 1) IN After
ScanUrl(url) == UrlScans(url)[Len(url)]

(* Mutant: userinfo and host are not told apart. *)
HostStepOneField(url, h, at) ==
  LET s == HostChar(h.s, url[at + 1])
  IN  IF h.s = "dead" \/ s \notin {"host", "v6", "port", "userinfo"} THEN [h EXCEPT !.s = s]
      ELSE LET f == IF s = "port" THEN s ELSE "host"
           IN  [s |-> s,
                fields |-> IF s = h.s THEN [h.fields EXCEPT ![f].len = @ + 1]
                           ELSE Set(h.fields, f, Span(at, 1))]

(* One turn of the loop of http_parse_host. *)
HostStep(url, h, at) ==
  LET s == HostChar(h.s, url[at + 1])
  IN  IF h.s = "dead" \/ s \notin {"host", "v6", "port", "userinfo"} THEN [h EXCEPT !.s = s]
      ELSE LET f == IF s = "v6" THEN "host" ELSE s
           IN  [s |-> s,
                fields |-> IF s = h.s THEN [h.fields EXCEPT ![f].len = @ + 1]
                           ELSE Set(h.fields, f, Span(at, 1))]

NewHost(u, off) ==
  [s |-> IF u.found_at THEN "userinfo_start" ELSE "host_start",
   fields |-> Set(u.fields, "host", Span(off, 0))]

(* What that loop knows after n characters of a host at place "off". *)
HostScans(url, u, off) ==
  LET After[n \in Nat] ==
        IF n = 0 THEN NewHost(u, off) ELSE HostStep(url, After[n - 1], off + n - 1)
  IN  After

(* http_parse_host on the span found for the host, which it makes shorter. *)
ScanHost(url, u) ==
  LET scanned == HostScans(url, u, u.fields.host.off)[u.fields.host.len]
  IN  [ok |-> /\ scanned.s \in {"host", "v6_end", "port"}
              /\ "port" \in DOMAIN scanned.fields =>
                   Decimal(Text(url, scanned.fields.port)) <= MaxPort,
       fields |-> scanned.fields]

(* http_parse_host when a schema was found and no host: it goes by a span  *)
(* nobody wrote.  The host is still not a field that is set.               *)
ScanNoHost(u, garbage) ==
  [ok |-> garbage.ok,
   fields |-> IF garbage.port.len = 0 THEN u.fields ELSE Set(u.fields, "port", garbage.port)]

(* Whether http_parser_parse_url returns 0, and the fields set by then,    *)
(* from the scan of the url.                                               *)
Parsed(url, u, garbage) ==
  IF u.s = "dead" THEN [ok |-> FALSE, fields |-> u.fields]
  ELSE IF "host" \in DOMAIN u.fields THEN ScanHost(url, u)
  ELSE IF "schema" \in DOMAIN u.fields THEN ScanNoHost(u, garbage)
  ELSE [ok |-> TRUE, fields |-> u.fields]

(* http_parser_parse_url, for anything but CONNECT. *)
ParseUrl(url, garbage) == Parsed(url, ScanUrl(url), garbage)

Within(span, n) == span.off + span.len <= n
Apart(s, t) == s.off + s.len <= t.off \/ t.off + t.len <= s.off

(* The fields lie in the url and do not overlap.  Of the port this is not  *)
(* said when a schema was found and no host: it may be anywhere then.      *)
FieldsWithin(url, fields) ==
  LET placed == IF {"schema", "host"} \cap DOMAIN fields = {"schema"}
                THEN DOMAIN fields \ {"port"} ELSE DOMAIN fields
  IN  /\ \A f \in placed : Within(fields[f], Len(url))
      /\ \A f, g \in placed : f # g => Apart(fields[f], fields[g])

(* Parts of which an url can be written: with a server, or a path alone.   *)
IsV6(parts) == "host" \in DOMAIN parts /\ ":" \in ToSet(parts.host)
PartChars(parts) ==
  [schema |-> Alpha, userinfo |-> UserinfoChars, port |-> Num, path |-> UrlChars,
   host |-> IF IsV6(parts) THEN Hex \cup {":", "."} ELSE HostChars,
   query |-> UrlChars \cup {"?"}, fragment |-> FragmentChars]
AreParts(parts) ==
  /\ DOMAIN parts \subseteq DOMAIN PartChars(parts)
  /\ parts \in [DOMAIN parts -> Seq(FragmentChars) \ {<<>>}]
  /\ \A f \in DOMAIN parts : parts[f] \in Seq(PartChars(parts)[f])
  /\ "schema" \in DOMAIN parts <=> "host" \in DOMAIN parts
  /\ {"userinfo", "port"} \cap DOMAIN parts # {} => "host" \in DOMAIN parts
  /\ "query" \in DOMAIN parts => {"host", "path"} \cap DOMAIN parts # {}
  /\ "fragment" \in DOMAIN parts => {"path", "query"} \cap DOMAIN parts # {} /\ parts.fragment[1] # "#"
  /\ "path" \in DOMAIN parts =>
       parts.path[1] = "/" \/ ("host" \notin DOMAIN parts /\ parts.path[1] = "*")
  /\ "port" \in DOMAIN parts => Decimal(parts.port) <= MaxPort

(* An url as it is written, from the parts that are given. *)
WriteUrl(parts) ==
  LET Given(f, before, after) ==
        IF f \in DOMAIN parts THEN before \o parts[f] \o after ELSE <<>>
  IN  Given("schema", <<>>, <<":", "/", "/">>)
        \o Given("userinfo", <<>>, <<"@">>)
        \o (IF IsV6(parts) THEN Given("host", <<"[">>, <<"]">>) ELSE Given("host", <<>>, <<>>))
        \o Given("port", <<":">>, <<>>)
        \o Given("path", <<>>, <<>>)
        \o Given("query", <<"?">>, <<>>)
        \o Given("fragment", <<"#">>, <<>>)
=============================================================================
