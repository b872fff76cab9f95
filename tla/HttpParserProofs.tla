--------------------------- MODULE HttpParserProofs ---------------------------
(***************************************************************************)
(* The parser's assertions hold and the header iterators stay within the   *)
(* table: proof for every conversation, every size of the tables and every *)
(* buffer, so for messages cut anywhere, and for bytes a peer should not   *)
(* have sent.  One lemma per state of http_parser_execute.                 *)
(*                                                                         *)
(* Then http_parser_parse_url, for urls of every length: the fields found  *)
(* in any url lie in it, and those of a well-formed one are its parts.     *)
(***************************************************************************)
EXTENDS Conversation, Iteration, SequenceTheorems, TLAPS

(* The members of HttpParser and of http_parser: a record has these fields  *)
(* and no others.                                                          *)
Fields ==
  {"request", "method", "state", "url_state", "header_state", "flags", "length", "nread", "code",
   "errno", "upgrade", "mark", "table", "head", "tail", "header_it", "url", "status_code", "body",
   "headers_complete", "message_complete"}
IsParser(p) == p = [f \in Fields |-> p[f]]

(* The iterators of the table stay in their order, and within it. *)
InTable(p) ==
  /\ DOMAIN p.table = 1..MaxHeaders
  /\ p.tail \in 1..(MaxHeaders + 1) /\ p.head \in 1..p.tail /\ p.header_it \in 1..p.tail

ChunkStates ==
  {"chunk_size_start", "chunk_size", "chunk_size_almost_done", "chunk_data",
   "chunk_data_almost_done", "chunk_data_done"}

(* What is known of a body where a state of http_parser_execute needs it. *)
Framed(p) ==
  /\ p.state \in ChunkStates => "chunked" \in p.flags
  /\ p.state \in {"body_identity", "chunk_data"} => p.length > 0
  /\ p.state \in {"chunk_size", "chunk_size_almost_done"} => p.length >= 0
  /\ p.state = "chunk_data_almost_done" => p.length = 0

(* What holds between any two bytes and after each of them. *)
Sound(p) ==
  /\ IsParser(p) /\ InTable(p)
  /\ p.state \in HeaderStates \cup BodyStates /\ p.length \in Int
  /\ ~p.errno => Framed(p)

(* A chunk size starts with a fresh count of the header's bytes.           *)
ParserInv(p) == Sound(p) /\ (~p.errno /\ p.state = "chunk_size_start" => p.nread = 0)

(* q differs from p only in what the callbacks were given. *)
Like(p, q) ==
  /\ IsParser(q) /\ InTable(q)
  /\ q.state = p.state /\ q.length = p.length /\ q.flags = p.flags /\ q.nread = p.nread
  /\ q.errno <=> p.errno

-----------------------------------------------------------------------------
(* The callbacks leave the machine alone, and the iterators in the table.  *)
LEMMA FieldLike == ASSUME NEW p, IsParser(p), InTable(p), NEW run PROVE Like(p, HeaderField(p, run))
<1> DEFINE q == [p EXCEPT !.head = p.header_it]
<1>0. MaxHeaders \in Nat \ {0}
  BY ParserAssumption
<1>1. Like(p, q)
  BY <1>0 DEF IsParser, InTable, Like, Fields
<1>2. ASSUME NEW v PROVE Like(p, [q EXCEPT !.table[q.head].field = v])
  BY <1>0, <1>1 DEF IsParser, InTable, Like, Fields
<1> QED
  BY <1>1, <1>2 DEF HeaderField

LEMMA ValueLike == ASSUME NEW p, IsParser(p), InTable(p), NEW run PROVE Like(p, HeaderValue(p, run))
<1>0. MaxHeaders \in Nat \ {0}
  BY ParserAssumption
<1>1. Like(p, p)
  BY DEF Like
<1>2. ASSUME p.head # p.tail, NEW v
      PROVE  Like(p, [p EXCEPT !.header_it = IF p.head = p.header_it THEN @ + 1 ELSE @,
                               !.table[p.head].value = v])
  <2>1. PICK h : h = IF p.head = p.header_it THEN p.header_it + 1 ELSE p.header_it
    OBVIOUS
  <2>2. h \in 1..p.tail
    BY <1>0, <1>2, <2>1 DEF InTable
  <2>3. Like(p, [p EXCEPT !.header_it = h])
    BY <1>0, <2>2 DEF IsParser, InTable, Like, Fields
  <2>4. \A r : Like(p, r) => Like(p, [r EXCEPT !.table[p.head].value = v])
    BY DEF IsParser, InTable, Like, Fields
  <2>5. Like(p, [[p EXCEPT !.header_it = h] EXCEPT !.table[p.head].value = v])
    BY <2>3, <2>4
  <2> QED
    BY <2>1, <2>5
<1> QED
  BY <1>1, <1>2 DEF HeaderValue

LEMMA ReportLike == ASSUME NEW p, IsParser(p), InTable(p) PROVE Like(p, Report(p))
<1> DEFINE q == [p EXCEPT !.mark = NoMark]
<1>1. Like(p, q)
  BY DEF IsParser, InTable, Like, Fields
<1>2. ASSUME NEW run PROVE Like(p, HeaderField(q, run)) /\ Like(p, HeaderValue(q, run))
  BY <1>1, FieldLike, ValueLike DEF Like
<1>3. ASSUME NEW run PROVE Like(p, Url(q, run)) /\ Like(p, Body(q, run))
  BY <1>1 DEF IsParser, InTable, Like, Fields, Url, Body
<1> HIDE DEF q
<1> QED
  BY <1>1, <1>2, <1>3 DEF Report, q

LEMMA MarkLike ==
  ASSUME NEW p, IsParser(p), InTable(p), NEW of, NEW t
  PROVE  Like(p, Mark(p, of)) /\ Like(p, Take(p, t)) /\ Like(p, MarkFirst(p))
         /\ Like(p, Take(Mark(p, of), t))
<1>1. \A r : IsParser(r) /\ InTable(r) => Like(r, Take(r, t))
  BY DEF IsParser, InTable, Like, Fields, Take
<1>2. \A o : Like(p, Mark(p, o))
  BY DEF IsParser, InTable, Like, Fields, Mark
<1>3. Like(p, p)
  BY DEF Like
<1>4. Like(p, MarkFirst(p))
  BY <1>2, <1>3 DEF MarkFirst
<1>5. Like(p, Take(Mark(p, of), t))
  <2>1. PICK q : q = Mark(p, of)
    OBVIOUS
  <2>2. Like(p, q)
    BY <1>2, <2>1
  <2>3. Like(q, Take(q, t))
    BY <1>1, <2>2 DEF Like
  <2>4. Like(p, Take(q, t))
    BY <2>2, <2>3 DEF Like
  <2> QED BY <2>1, <2>4
<1> QED
  BY <1>1, <1>2, <1>4, <1>5

LEMMA ToState ==
  ASSUME NEW p, IsParser(p), InTable(p), NEW s
  PROVE  /\ IsParser(To(p, s)) /\ InTable(To(p, s)) /\ To(p, s).state = s
         /\ To(p, s).length = p.length /\ To(p, s).flags = p.flags /\ To(p, s).nread = p.nread
         /\ To(p, s).errno <=> p.errno
  BY DEF IsParser, InTable, Fields, To

(* The states that need nothing to be known of the body. *)
Plain == HeaderStates \ ChunkStates

Basic(p) == IsParser(p) /\ InTable(p) /\ p.length \in Int

LEMMA PlainSound ==
  ASSUME NEW p, Basic(p), p.state \in Plain \cup {"body_identity_eof"}
  PROVE  ParserInv(p)
  BY DEF Basic, ParserInv, Sound, Framed, Plain, HeaderStates, BodyStates, ChunkStates

LEMMA PlainTo ==
  ASSUME NEW p, Basic(p), NEW s \in Plain \cup {"body_identity_eof"}
  PROVE  ParserInv(To(p, s)) /\ Basic(To(p, s)) /\ To(p, s).state = s
<1>1. Basic(To(p, s)) /\ To(p, s).state = s
  BY ToState DEF Basic
<1> QED
  BY <1>1, PlainSound

(* The end of a message. *)
LEMMA EndSound == ASSUME NEW p, Basic(p) PROVE ParserInv(EndMessage(p))
<1> DEFINE q == NewMessage(p)
<1>1. Basic(q) /\ q.state \in {"start", "dead"}
  BY PlainTo DEF NewMessage, Plain, HeaderStates, ChunkStates
<1> HIDE DEF q
<1>2. Basic(MessageComplete(q)) /\ MessageComplete(q).state = q.state
  BY <1>1 DEF Basic, IsParser, InTable, Fields, MessageComplete
<1> QED
  BY <1>1, <1>2, PlainSound DEF EndMessage, q, Plain, HeaderStates, ChunkStates

LEMMA BeginBasic ==
  ASSUME NEW p, Basic(p)
  PROVE  Basic(MessageBegin(p)) /\ MessageBegin(p).state = p.state
<1>0. MaxHeaders \in Nat \ {0}
  BY ParserAssumption
<1>1. 1 \in 1..p.tail
  BY <1>0 DEF Basic, InTable
<1>2. PICK q : q = MessageBegin(p)
  OBVIOUS
<1>3. /\ IsParser(q) /\ q.state = p.state /\ q.length = p.length /\ q.header_it = 1
      /\ q.tail = p.tail /\ q.head = p.head /\ q.table = p.table
  BY <1>2 DEF Basic, IsParser, Fields, MessageBegin
<1> QED
  BY <1>1, <1>2, <1>3 DEF Basic, InTable

LEMMA CompleteBasic ==
  ASSUME NEW p, Basic(p)
  PROVE  Basic(HeadersComplete(p)) /\ HeadersComplete(p).state = p.state
<1>0. MaxHeaders \in Nat \ {0}
  BY ParserAssumption
<1>1. 1 \in 1..p.header_it /\ p.header_it \in 1..p.header_it /\ p.header_it \in 1..(MaxHeaders + 1)
  BY <1>0 DEF Basic, InTable
<1>2. PICK q : q = HeadersComplete(p)
  OBVIOUS
<1>3. /\ IsParser(q) /\ q.state = p.state /\ q.length = p.length /\ q.header_it = p.header_it
      /\ q.tail = p.header_it /\ q.head = 1 /\ q.table = p.table
  BY <1>2 DEF Basic, IsParser, Fields, HeadersComplete
<1> QED
  BY <1>1, <1>2, <1>3 DEF Basic, InTable

(* Changes of the members that matter to nothing here. *)
LEMMA OtherBasic ==
  ASSUME NEW p, Basic(p), NEW v
  PROVE  /\ Basic([p EXCEPT !.flags = v]) /\ [p EXCEPT !.flags = v].state = p.state
         /\ Basic([p EXCEPT !.code = v]) /\ [p EXCEPT !.code = v].state = p.state
         /\ Basic([p EXCEPT !.upgrade = v]) /\ [p EXCEPT !.upgrade = v].state = p.state
         /\ Basic([p EXCEPT !.method = v]) /\ [p EXCEPT !.method = v].state = p.state
         /\ Basic([p EXCEPT !.url_state = v]) /\ [p EXCEPT !.url_state = v].state = p.state
         /\ Basic([p EXCEPT !.header_state = v]) /\ [p EXCEPT !.header_state = v].state = p.state
  BY DEF Basic, IsParser, InTable, Fields

LEMMA LikeBasic ==
  ASSUME NEW p, Basic(p), NEW q, Like(p, q)
  PROVE  Basic(q) /\ q.state = p.state
  BY DEF Like, Basic

LEMMA CallsBasic ==
  ASSUME NEW p, Basic(p), NEW of, NEW t
  PROVE  /\ Basic(Report(p)) /\ Report(p).state = p.state
         /\ Basic(Mark(p, of)) /\ Mark(p, of).state = p.state
         /\ Basic(Take(p, t)) /\ Take(p, t).state = p.state
         /\ Basic(MarkFirst(p)) /\ MarkFirst(p).state = p.state
<1>1. IsParser(p) /\ InTable(p)
  BY DEF Basic
<1> QED
  BY <1>1, ReportLike, MarkLike, LikeBasic

(* The header is complete: a body that follows is framed. *)
LEMMA HeadersDoneSound == ASSUME NEW p, Basic(p) PROVE ParserInv(HeadersDone(p))
<1> DEFINE q == [p EXCEPT !.nread = 0]
<1>1. Basic(q) /\ q.nread = 0 /\ q.flags = p.flags /\ q.length = p.length
  BY DEF Basic, IsParser, InTable, Fields
<1>2. /\ DOMAIN EndMessage(q) = DOMAIN EndMessage(q) /\ ParserInv(EndMessage(q))
  BY <1>1, EndSound
<1>3. ParserInv([EndMessage(q) EXCEPT !.upgrade = TRUE])
  BY <1>2 DEF ParserInv, Sound, Framed, IsParser, InTable, Fields
<1> HIDE DEF q
<1>4. ASSUME "chunked" \in p.flags PROVE ParserInv(To(q, "chunk_size_start"))
  BY <1>1, <1>4, ToState DEF Basic, ParserInv, Sound, Framed, HeaderStates, ChunkStates
<1>5. ASSUME p.length > 0 PROVE ParserInv(To(q, "body_identity"))
  BY <1>1, <1>5, ToState DEF Basic, ParserInv, Sound, Framed, BodyStates, ChunkStates
<1>6. ParserInv(To(q, "body_identity_eof"))
  BY <1>1, PlainTo
<1> QED
  BY <1>2, <1>3, <1>4, <1>5, <1>6 DEF HeadersDone, q

(* After an error nothing is read, so nothing has to be known. *)
LEMMA FailInv ==
  ASSUME NEW p, Basic(p), p.state \in HeaderStates \cup BodyStates
  PROVE  ParserInv(Fail(p))
  BY DEF Basic, ParserInv, Sound, IsParser, InTable, Fields, Fail

LEMMA SoundBasic ==
  ASSUME NEW p, Sound(p)
  PROVE  Basic(p) /\ p.state \in HeaderStates \cup BodyStates /\ ParserInv(Fail(p))
  BY FailInv DEF Sound, Basic

-----------------------------------------------------------------------------
(* The states of the first line. *)
LEMMA StartSound ==
  ASSUME NEW p, Sound(p), NEW t, p.state \in {"dead", "start"}
  PROVE  ParserInv(OnDead(p, t)) /\ ParserInv(OnStartRes(p, t)) /\ ParserInv(OnStartReq(p, t))
<1>0. Basic(p) /\ ParserInv(p) /\ ParserInv(Fail(p))
  BY SoundBasic, PlainSound DEF Plain, HeaderStates, ChunkStates
<1> DEFINE fresh == [p EXCEPT !.flags = {}, !.length = NoLength]
           q == MessageBegin(fresh)
<1>1. Basic(fresh) /\ fresh.state = p.state
  <2>1. PICK n \in Int : n = NoLength
    BY DEF NoLength
  <2>2. fresh = [p EXCEPT !.flags = {}, !.length = n]
    BY <2>1
  <2> HIDE DEF fresh
  <2> QED
    BY <1>0, <2>2 DEF Basic, IsParser, InTable, Fields
<1> HIDE DEF fresh
<1>2. Basic(q) /\ q.state = p.state
  BY <1>1, BeginBasic
<1> HIDE DEF q
<1>3. ParserInv(q) /\ ParserInv(fresh)
  BY <1>1, <1>2, PlainSound DEF Plain, HeaderStates, ChunkStates
<1>4. ParserInv(Fail(q)) /\ ParserInv(Fail(fresh))
  BY <1>1, <1>2, FailInv DEF HeaderStates
<1>5. ParserInv([To(q, "field_start") EXCEPT !.code = t[2]])
  <2>1. Basic(To(q, "field_start")) /\ To(q, "field_start").state = "field_start"
    BY <1>2, PlainTo DEF Plain, HeaderStates, ChunkStates
  <2> QED
    BY <2>1, OtherBasic, PlainSound DEF Plain, HeaderStates, ChunkStates
<1>6. ParserInv(MessageBegin([To(fresh, "before_url") EXCEPT !.url_state = "start", !.method = t[2]]))
  <2>1. PICK r : r = To(fresh, "before_url")
    OBVIOUS
  <2>2. Basic(r) /\ r.state = "before_url"
    BY <1>1, <2>1, PlainTo DEF Plain, HeaderStates, ChunkStates
  <2>3. PICK u : u = [r EXCEPT !.url_state = "start"]
    OBVIOUS
  <2>4. Basic(u) /\ u.state = "before_url"
    BY <2>2, <2>3, OtherBasic
  <2>5. PICK v : v = [u EXCEPT !.method = t[2]]
    OBVIOUS
  <2>6. Basic(v) /\ v.state = "before_url"
    BY <2>4, <2>5, OtherBasic
  <2>7. ParserInv(MessageBegin(v))
    BY <2>6, BeginBasic, PlainSound DEF Plain, HeaderStates, ChunkStates
  <2> QED
    BY <2>1, <2>3, <2>5, <2>7
<1>7. ParserInv(OnDead(p, t))
  BY <1>0 DEF OnDead
<1>8. ParserInv(OnStartRes(p, t))
  BY <1>3, <1>4, <1>5 DEF OnStartRes, q, fresh
<1>9. ParserInv(OnStartReq(p, t))
  BY <1>0, <1>4, <1>6 DEF OnStartReq, fresh
<1> QED
  BY <1>7, <1>8, <1>9

LEMMA UrlSound ==
  ASSUME NEW p, Sound(p), NEW t, p.state \in {"before_url", "url"}
  PROVE  ParserInv(OnUrl(p, t))
<1> DEFINE q == IF p.state = "before_url" THEN Mark(p, "url") ELSE p
           us == UrlChar(p.url_state, t[2])
<1>1. Basic(q) /\ q.state = p.state
  BY SoundBasic, CallsBasic
<1> HIDE DEF q, us
<1>2. ParserInv(Fail(q))
  BY <1>1, FailInv DEF HeaderStates
<1>3. ParserInv(Take([To(q, "url") EXCEPT !.url_state = us], t))
  <2>1. PICK r : r = To(q, "url")
    OBVIOUS
  <2>2. Basic(r) /\ r.state = "url"
    BY <1>1, <2>1, PlainTo DEF Plain, HeaderStates, ChunkStates
  <2>3. PICK u : u = [r EXCEPT !.url_state = us]
    OBVIOUS
  <2>4. Basic(u) /\ u.state = "url"
    BY <2>2, <2>3, OtherBasic
  <2>5. ParserInv(Take(u, t))
    BY <2>4, CallsBasic, PlainSound DEF Plain, HeaderStates, ChunkStates
  <2> QED
    BY <2>1, <2>3, <2>5
<1>4. ParserInv(Report(To(p, "field_start")))
  <2>1. Basic(To(p, "field_start")) /\ To(p, "field_start").state = "field_start"
    BY SoundBasic, PlainTo DEF Plain, HeaderStates, ChunkStates
  <2> QED
    BY <2>1, CallsBasic, PlainSound DEF Plain, HeaderStates, ChunkStates
<1> QED
  BY <1>2, <1>3, <1>4 DEF OnUrl, q, us

(* Into a state of the header, with a callback or the first byte of a run. *)
LEMMA HeaderSound ==
  ASSUME NEW p, Basic(p), NEW s \in Plain, NEW t, NEW of, NEW hs
  PROVE  /\ ParserInv(Report(To(p, s)))
         /\ ParserInv(Take([p EXCEPT !.header_state = hs], t)) \/ p.state \notin Plain
         /\ ParserInv(Take([To(Mark(p, of), s) EXCEPT !.header_state = hs], t))
         /\ ParserInv(Report([To(p, s) EXCEPT !.header_state = hs]))
<1>1. PICK r, m, n : r = To(p, s) /\ m = Mark(p, of) /\ n = To(Mark(p, of), s)
  OBVIOUS
<1>2. Basic(r) /\ r.state = s /\ Basic(m)
  BY <1>1, PlainTo, CallsBasic
<1>3. Basic(n) /\ n.state = s
  BY <1>1, <1>2, PlainTo
<1>4. PICK u, v, w : /\ u = [r EXCEPT !.header_state = hs] /\ v = [n EXCEPT !.header_state = hs]
                     /\ w = [p EXCEPT !.header_state = hs]
  OBVIOUS
<1>5. Basic(u) /\ u.state = s /\ Basic(v) /\ v.state = s /\ Basic(w) /\ w.state = p.state
  BY <1>2, <1>3, <1>4, OtherBasic
<1>6. ParserInv(Report(r)) /\ ParserInv(Report(u)) /\ ParserInv(Take(v, t))
  BY <1>2, <1>5, CallsBasic, PlainSound
<1>7. p.state \in Plain => ParserInv(Take(w, t))
  BY <1>5, CallsBasic, PlainSound
<1>8. /\ ParserInv(Report(To(p, s)))
      /\ ParserInv(Report([To(p, s) EXCEPT !.header_state = hs]))
  BY <1>1, <1>4, <1>6
<1>9. ParserInv(Take([To(Mark(p, of), s) EXCEPT !.header_state = hs], t))
  BY <1>1, <1>4, <1>6
<1>10. ParserInv(Take([p EXCEPT !.header_state = hs], t)) \/ p.state \notin Plain
  BY <1>4, <1>7
<1> QED
  BY <1>8, <1>9, <1>10

LEMMA FieldSound ==
  ASSUME NEW p, Sound(p), NEW t, p.state = "field"
  PROVE  ParserInv(OnField(p, t))
<1>1. Basic(p) /\ ParserInv(Fail(p)) /\ p.state \in Plain
  BY SoundBasic DEF Plain, HeaderStates, ChunkStates
<1>2. "value_start" \in Plain /\ "header_almost_done" \in Plain /\ "field_start" \in Plain
  BY DEF Plain, HeaderStates, ChunkStates
<1>3. ParserInv(Take([p EXCEPT !.header_state = NameState(p.header_state, t[2])], t))
  BY <1>1, <1>2, HeaderSound
<1>4. /\ ParserInv(Report(To(p, "value_start"))) /\ ParserInv(Report(To(p, "header_almost_done")))
      /\ ParserInv(Report(To(p, "field_start")))
  BY <1>1, <1>2, HeaderSound
<1> QED
  BY <1>1, <1>3, <1>4 DEF OnField

LEMMA AlmostDoneSound ==
  ASSUME NEW p, Basic(p), p.state \in HeaderStates, NEW t
  PROVE  ParserInv(OnHeaderAlmostDone(p, t)) /\ ParserInv(OnHeadersAlmostDone(p, t))
<1>1. ParserInv(Fail(p)) /\ ParserInv(EndMessage(p)) /\ ParserInv(HeadersDone(HeadersComplete(p)))
  BY FailInv, EndSound, CompleteBasic, HeadersDoneSound
<1>2. \A v : ParserInv([To(p, "value_lws") EXCEPT !.flags = v])
  <2>1. Basic(To(p, "value_lws")) /\ To(p, "value_lws").state = "value_lws"
    BY PlainTo DEF Plain, HeaderStates, ChunkStates
  <2> QED
    BY <2>1, OtherBasic, PlainSound DEF Plain, HeaderStates, ChunkStates
<1>3. ParserInv(OnHeadersAlmostDone(p, t))
  BY <1>1 DEF OnHeadersAlmostDone
<1>4. ParserInv(OnHeaderAlmostDone(p, t))
  BY <1>1, <1>2 DEF OnHeaderAlmostDone
<1> QED
  BY <1>3, <1>4

LEMMA DigitNat == \A d \in DOMAIN Digit : Digit[d] \in Nat
  BY DEF Digit

LEMMA FailBasic == ASSUME NEW p, Basic(p) PROVE Basic(Fail(p)) /\ Fail(p).state = p.state
  BY DEF Basic, IsParser, InTable, Fields, Fail

LEMMA LengthBasic ==
  ASSUME NEW p, Basic(p), NEW n \in Int
  PROVE  LET q == [p EXCEPT !.length = n] 
         IN  Basic(q) /\ q.state = p.state /\ q.length = n /\ q.flags = p.flags /\ (q.errno <=> p.errno)
  BY DEF Basic, IsParser, InTable, Fields

(* A byte of a header's value, which may be a digit of content-length. *)
LEMMA TakeValueBasic ==
  ASSUME NEW p, Basic(p), NEW t
  PROVE  Basic(TakeValue(p, t)) /\ TakeValue(p, t).state = p.state
<1> DEFINE hs == ValueState(p, t[2])
           flags == IF p.header_state = "upgrade" THEN p.flags \cup {"upgrade"} ELSE p.flags
           q == [p EXCEPT !.header_state = hs, !.flags = flags]
           known == IF p.state = "value_start" THEN 0 ELSE p.length
           length == 10 * known + Digit[t[2]]
<1>1. Basic(q) /\ q.state = p.state
  <2> HIDE DEF hs, flags
  <2> QED
    BY DEF Basic, IsParser, InTable, Fields
<1>2. t[2] \in DOMAIN Digit => length \in Int
  BY DigitNat DEF Basic
<1> HIDE DEF q, length
<1>3. t[2] \in DOMAIN Digit => /\ Basic([q EXCEPT !.length = length])
                               /\ [q EXCEPT !.length = length].state = p.state
  BY <1>1, <1>2, LengthBasic
<1>4. t[2] \in DOMAIN Digit => /\ Basic(Take([q EXCEPT !.length = length], t))
                               /\ Take([q EXCEPT !.length = length], t).state = p.state
  BY <1>3, CallsBasic
<1>5. Basic(Take(q, t)) /\ Take(q, t).state = p.state
  BY <1>1, CallsBasic
<1>6. Basic(Fail(p)) /\ Fail(p).state = p.state
  BY FailBasic
<1> QED
  BY <1>4, <1>5, <1>6 DEF TakeValue, q, length

LEMMA ValueStartSound ==
  ASSUME NEW p, Sound(p), NEW t, p.state = "value_start"
  PROVE  ParserInv(OnValueStart(p, t))
<1> DEFINE q == Mark(p, "value")
<1>1. Basic(p) /\ ParserInv(p) /\ Basic(q)
  BY SoundBasic, PlainSound, CallsBasic DEF Plain, HeaderStates, ChunkStates
<1> HIDE DEF q
<1>2. "header_almost_done" \in Plain /\ "field_start" \in Plain /\ "value" \in Plain
  BY DEF Plain, HeaderStates, ChunkStates
<1>3. ParserInv(Report([To(q, "header_almost_done") EXCEPT !.header_state = "general"]))
  BY <1>1, <1>2, HeaderSound
<1>4. ParserInv(Report(To(q, "field_start")))
  BY <1>1, <1>2, HeaderSound
<1>5. ParserInv(To(TakeValue(q, t), "value"))
  BY <1>1, <1>2, TakeValueBasic, PlainTo
<1> QED
  BY <1>1, <1>3, <1>4, <1>5 DEF OnValueStart, q

LEMMA ValueSound ==
  ASSUME NEW p, Sound(p), NEW t, p.state = "value"
  PROVE  ParserInv(OnValue(p, t))
<1>1. Basic(p) /\ "header_almost_done" \in Plain /\ p.state \in Plain
  BY SoundBasic DEF Plain, HeaderStates, ChunkStates
<1>2. ParserInv(Report(To(p, "header_almost_done")))
  BY <1>1, HeaderSound
<1>3. Basic(Report(p)) /\ Report(p).state = p.state
  BY <1>1, CallsBasic
<1>4. ParserInv(OnHeaderAlmostDone(Report(p), t))
  BY <1>1, <1>3, AlmostDoneSound DEF Plain
<1>5. ParserInv(TakeValue(p, t))
  BY <1>1, TakeValueBasic, PlainSound
<1> QED
  BY <1>2, <1>4, <1>5 DEF OnValue

LEMMA FieldStartSound ==
  ASSUME NEW p, Sound(p), NEW t, p.state \in {"field_start", "value_lws"}
  PROVE  ParserInv(OnFieldStart(p, t)) /\ ParserInv(OnValueLws(p, t))
<1>1. /\ Basic(p) /\ ParserInv(Fail(p)) /\ p.state \in Plain /\ p.state \in HeaderStates
      /\ "headers_almost_done" \in Plain /\ "field" \in Plain /\ "value_start" \in Plain
  BY SoundBasic DEF Plain, HeaderStates, ChunkStates
<1>2. ParserInv(To(p, "headers_almost_done")) /\ ParserInv(To(p, "value_start"))
  BY <1>1, PlainTo
<1>3. ParserInv(OnHeadersAlmostDone(p, t))
  BY <1>1, AlmostDoneSound
<1>4. ParserInv(Take([To(Mark(p, "field"), "field") EXCEPT !.header_state = NameState("start", t[2])], t))
  BY <1>1, HeaderSound
<1>5. ParserInv(OnFieldStart(p, t))
  BY <1>1, <1>2, <1>3, <1>4 DEF OnFieldStart
<1> QED
  BY <1>2, <1>5 DEF OnValueLws

(* A byte of a body, with one less to come. *)
LEMMA DataTaken ==
  ASSUME NEW p, Basic(p), NEW t
  PROVE  LET q == [Take(Mark(p, "body"), t) EXCEPT !.length = @ - 1]
         IN  /\ Basic(q) /\ q.state = p.state /\ q.length = p.length - 1 /\ q.flags = p.flags
             /\ q.errno <=> p.errno
<1>1. PICK r : r = Take(Mark(p, "body"), t)
  OBVIOUS
<1>2. Like(p, r) /\ Basic(r)
  BY <1>1, MarkLike, LikeBasic DEF Basic
<1>3. r.length = p.length /\ r.length - 1 \in Int
  BY <1>2 DEF Like, Basic
<1> QED
  BY <1>1, <1>2, <1>3, LengthBasic DEF Like

(* The states of a body that is not chunked, and the data of a chunk. *)
LEMMA BodySound ==
  ASSUME NEW p, Sound(p), ~p.errno, NEW t
  PROVE  /\ p.state = "body_identity" => ParserInv(OnBodyIdentity(p, t))
         /\ p.state = "body_identity_eof" => ParserInv(OnBodyEof(p, t))
         /\ p.state = "chunk_data" => ParserInv(OnChunkData(p, t))
<1> DEFINE q == [Take(Mark(p, "body"), t) EXCEPT !.length = @ - 1]
<1>0. Basic(p) /\ Framed(p)
  BY SoundBasic DEF Sound
<1>1. /\ Basic(q) /\ q.state = p.state /\ q.length = p.length - 1 /\ q.flags = p.flags
      /\ ~q.errno
  BY <1>0, DataTaken
<1> HIDE DEF q
<1>2. ParserInv(EndMessage(Report(q)))
  BY <1>1, CallsBasic, EndSound
<1>3. p.state \in {"body_identity", "chunk_data"} => p.length > 0 /\ p.length \in Int
  BY <1>0 DEF Framed, Basic
<1>4. p.state = "body_identity" /\ q.length # 0 => ParserInv(q)
  BY <1>1, <1>3 DEF ParserInv, Sound, Basic, Framed, BodyStates, ChunkStates
<1>5. ASSUME p.state = "chunk_data" PROVE q.length # 0 => ParserInv(q)
  <2>1. "chunked" \in q.flags
    BY <1>0, <1>1, <1>5 DEF Framed, ChunkStates
  <2> QED
    BY <1>1, <1>3, <1>5, <2>1 DEF ParserInv, Sound, Basic, Framed, BodyStates, ChunkStates
<1>6. ASSUME p.state = "chunk_data", q.length = 0 PROVE ParserInv(To(q, "chunk_data_almost_done"))
  <2>1. "chunked" \in q.flags
    BY <1>0, <1>1, <1>6 DEF Framed, ChunkStates
  <2>2. PICK r : r = To(q, "chunk_data_almost_done")
    OBVIOUS
  <2>3. /\ IsParser(r) /\ InTable(r) /\ r.state = "chunk_data_almost_done"
        /\ r.length = 0 /\ r.flags = q.flags /\ ~r.errno
    BY <1>1, <1>6, <2>2, ToState DEF Basic
  <2> QED
    BY <2>1, <2>2, <2>3 DEF ParserInv, Sound, Framed, BodyStates, ChunkStates
<1>7. p.state = "body_identity_eof" => ParserInv(OnBodyEof(p, t))
  BY <1>0, CallsBasic, PlainSound DEF OnBodyEof
<1>8. p.state = "body_identity" => ParserInv(OnBodyIdentity(p, t))
  BY <1>2, <1>4 DEF OnBodyIdentity, q
<1>9. p.state = "chunk_data" => ParserInv(OnChunkData(p, t))
  BY <1>5, <1>6 DEF OnChunkData, q
<1> QED
  BY <1>7, <1>8, <1>9

(* The framing of chunks. *)
LEMMA ChunkSound ==
  ASSUME NEW p, Sound(p), ~p.errno, NEW t, p.state \in ChunkStates
  PROVE  /\ p.state \in {"chunk_size_start", "chunk_size"} => ParserInv(OnChunkSize(p, t))
         /\ p.state = "chunk_size_almost_done" => ParserInv(OnChunkSizeAlmostDone(p, t))
         /\ p.state = "chunk_data_almost_done" => ParserInv(OnChunkDataAlmostDone(p, t))
         /\ p.state = "chunk_data_done" => ParserInv(OnChunkDataDone(p, t))
<1>0. Basic(p) /\ Framed(p) /\ ParserInv(Fail(p)) /\ "chunked" \in p.flags /\ p.length \in Int
  BY SoundBasic DEF Sound, Framed, Basic
<1>1. ASSUME NEW s, NEW n \in Int
      PROVE  LET r == [To(p, s) EXCEPT !.length = n]
             IN  /\ Basic(r) /\ r.state = s /\ r.length = n /\ r.flags = p.flags /\ ~r.errno
  <2>1. Basic(To(p, s))
    BY <1>0, ToState DEF Basic
  <2> QED
    BY <1>0, <2>1, LengthBasic, ToState DEF Basic
<1>2. ASSUME p.state \in {"chunk_size_start", "chunk_size"} PROVE ParserInv(OnChunkSize(p, t))
  <2> DEFINE n == Digit[t[2]] + IF p.state = "chunk_size" THEN 16 * p.length ELSE 0
  <2>1. ASSUME t[2] \in DOMAIN Digit PROVE ParserInv([To(p, "chunk_size") EXCEPT !.length = n])
    <3>1. p.state = "chunk_size" => p.length >= 0
      BY <1>0 DEF Framed
    <3>2. n \in Int /\ n >= 0
      BY <1>0, <2>1, <3>1, DigitNat
    <3> HIDE DEF n
    <3>3. PICK r : r = [To(p, "chunk_size") EXCEPT !.length = n]
      OBVIOUS
    <3>4. /\ Basic(r) /\ r.state = "chunk_size" /\ r.length = n /\ "chunked" \in r.flags /\ ~r.errno
      BY <1>0, <1>1, <3>2, <3>3
    <3> QED
      BY <3>2, <3>3, <3>4 DEF ParserInv, Sound, Basic, Framed, HeaderStates, ChunkStates
  <2>2. ASSUME p.state = "chunk_size" PROVE ParserInv(To(p, "chunk_size_almost_done"))
    <3>1. PICK r : r = To(p, "chunk_size_almost_done")
      OBVIOUS
    <3>2. /\ Basic(r) /\ r.state = "chunk_size_almost_done" /\ r.length = p.length /\ "chunked" \in r.flags
      BY <1>0, <3>1, ToState DEF Basic
    <3>3. p.length >= 0
      BY <1>0, <2>2 DEF Framed
    <3> QED
      BY <3>1, <3>2, <3>3 DEF ParserInv, Sound, Basic, Framed, HeaderStates, ChunkStates
  <2> HIDE DEF n
  <2>3. To(p, "chunk_size").length = p.length
    BY <1>0, ToState DEF Basic
  <2>4. [To(p, "chunk_size") EXCEPT !.length = Digit[t[2]] + IF p.state = "chunk_size" THEN 16 * @ ELSE 0]
          = [To(p, "chunk_size") EXCEPT !.length = n]
    BY <2>3 DEF n
  <2> QED
    BY <1>0, <2>1, <2>2, <2>4 DEF OnChunkSize
<1>3. ASSUME p.state = "chunk_size_almost_done" PROVE ParserInv(OnChunkSizeAlmostDone(p, t))
  <2> DEFINE q == [p EXCEPT !.nread = 0]
  <2>1. Basic(q) /\ q.flags = p.flags /\ q.length = p.length
    BY <1>0 DEF Basic, IsParser, InTable, Fields
  <2> HIDE DEF q
  <2>2. ParserInv([To(q, "field_start") EXCEPT !.flags = q.flags \cup {"trailing"}])
    <3>1. Basic(To(q, "field_start")) /\ To(q, "field_start").state = "field_start"
      BY <2>1, PlainTo DEF Plain, HeaderStates, ChunkStates
    <3> QED
      BY <3>1, OtherBasic, PlainSound DEF Plain, HeaderStates, ChunkStates
  <2>3. To(q, "field_start").flags = q.flags
    BY <2>1, ToState DEF Basic
  <2>4. ASSUME p.length # 0 PROVE ParserInv(To(q, "chunk_data"))
    <3>1. p.length >= 0
      BY <1>0, <1>3 DEF Framed
    <3>2. PICK r : r = To(q, "chunk_data")
      OBVIOUS
    <3>3. Basic(r) /\ r.state = "chunk_data" /\ r.length = p.length /\ "chunked" \in r.flags
      BY <1>0, <2>1, <3>2, ToState DEF Basic
    <3> QED
      BY <1>0, <2>4, <3>1, <3>2, <3>3 DEF ParserInv, Sound, Basic, Framed, BodyStates, ChunkStates
  <2> QED
    BY <1>0, <2>2, <2>3, <2>4 DEF OnChunkSizeAlmostDone, q
<1>4. ParserInv(OnChunkDataAlmostDone(p, t))
  <2>1. PICK r : r = To(p, "chunk_data_done")
    OBVIOUS
  <2>2. Basic(r) /\ r.state = "chunk_data_done" /\ "chunked" \in r.flags
    BY <1>0, <2>1, ToState DEF Basic
  <2>3. PICK u : u = Report(r) /\ Like(r, u)
    BY <2>2, ReportLike DEF Basic
  <2>4. ParserInv(u)
    BY <2>2, <2>3 DEF Like, ParserInv, Sound, Basic, Framed, BodyStates, ChunkStates
  <2> QED
    BY <1>0, <2>1, <2>3, <2>4 DEF OnChunkDataAlmostDone
<1>5. ParserInv(OnChunkDataDone(p, t))
  <2>1. PICK r : r = [To(p, "chunk_size_start") EXCEPT !.nread = 0]
    OBVIOUS
  <2>2. PICK v : v = To(p, "chunk_size_start")
    OBVIOUS
  <2>3. Basic(v) /\ v.state = "chunk_size_start" /\ "chunked" \in v.flags
    BY <1>0, <2>2, ToState DEF Basic
  <2>4. Basic(r) /\ r.state = "chunk_size_start" /\ "chunked" \in r.flags /\ r.nread = 0
    BY <2>1, <2>2, <2>3 DEF Basic, IsParser, InTable, Fields
  <2>5. ParserInv(r)
    BY <2>4 DEF ParserInv, Sound, Basic, Framed, HeaderStates, ChunkStates
  <2> QED
    BY <1>0, <2>1, <2>5 DEF OnChunkDataDone
<1> QED
  BY <1>2, <1>3, <1>4, <1>5

-----------------------------------------------------------------------------
(* The switch of http_parser_execute. *)
LEMMA OnByteSound ==
  ASSUME NEW p, Sound(p), ~p.errno, NEW t
  PROVE  ParserInv(OnByte(p, t))
<1>1. Basic(p) /\ p.state \in HeaderStates \cup BodyStates
  BY SoundBasic
<1>2. CASE p.state \in {"dead", "start"}
  BY <1>2, StartSound DEF OnByte
<1>3. CASE p.state \in {"before_url", "url"}
  BY <1>3, UrlSound DEF OnByte
<1>4. CASE p.state \in {"field_start", "value_lws"}
  BY <1>4, FieldStartSound DEF OnByte
<1>5. CASE p.state \in {"header_almost_done", "headers_almost_done"}
  BY <1>1, <1>5, AlmostDoneSound DEF OnByte, HeaderStates
<1>6. CASE p.state \in {"field", "value_start", "value"}
  BY <1>6, FieldSound, ValueStartSound, ValueSound DEF OnByte
<1>7. CASE p.state \in {"body_identity", "body_identity_eof", "chunk_data"}
  BY <1>7, BodySound DEF OnByte
<1>8. CASE p.state \in ChunkStates \ {"chunk_data"}
  BY <1>8, ChunkSound DEF OnByte, ChunkStates
<1> QED
  BY <1>1, <1>2, <1>3, <1>4, <1>5, <1>6, <1>7, <1>8 DEF HeaderStates, BodyStates, ChunkStates

LEMMA ByteSound ==
  ASSUME NEW p, ParserInv(p), ~p.errno, NEW t
  PROVE  ParserInv(Byte(p, t))
<1> DEFINE q == IF p.state \in HeaderStates THEN [p EXCEPT !.nread = @ + 1] ELSE p
<1>1. Sound(q) /\ ~q.errno
  BY DEF ParserInv, Sound, Framed, IsParser, InTable, Fields
<1> HIDE DEF q
<1> QED
  BY <1>1, OnByteSound, SoundBasic DEF Byte, q

(* The calls at the end of a buffer and at the start of the next one. *)
LEMMA ReportSound ==
  ASSUME NEW p, ParserInv(p)
  PROVE  ParserInv(Report(p)) /\ ParserInv(MarkFirst(p))
<1>1. \A q : Like(p, q) => ParserInv(q)
  BY DEF Like, ParserInv, Sound, Framed
<1> QED
  BY <1>1, ReportLike, MarkLike DEF ParserInv, Sound

(* HttpParser::Reset, which empties the table. *)
LEMMA ResetSound ==
  ASSUME NEW p, ParserInv(p), NEW b
  PROVE  ParserInv([Reset(p) EXCEPT !.body = b])
<1>0. MaxHeaders \in Nat \ {0}
  BY ParserAssumption
<1>1. 1 \in 1..(MaxHeaders + 1) /\ MaxHeaders + 1 \in 1..(MaxHeaders + 1) 
  BY <1>0
<1>2. PICK q : q = [p EXCEPT !.status_code = -1, !.headers_complete = FALSE,
                             !.message_complete = FALSE, !.url = <<>>]
  OBVIOUS
<1>3. IsParser(q) /\ InTable(q)
  BY <1>2 DEF ParserInv, Sound, IsParser, InTable, Fields
<1>4. PICK c : c = ClearHeaders(q)
  OBVIOUS
<1>5. IsParser(c) /\ InTable(c)
  <2>1. IsParser(c) /\ c.table = [i \in 1..MaxHeaders |-> Empty] /\ c.head = 1 /\ c.header_it = 1
        /\ c.tail = MaxHeaders + 1
    BY <1>3, <1>4 DEF ClearHeaders, IsParser, Fields
  <2> QED
    BY <1>1, <2>1 DEF InTable
<1>6. PICK r : r = [ParserInit(c) EXCEPT !.body = b]
  OBVIOUS
<1>7. IsParser(r) /\ InTable(r) /\ r.state = "start" /\ r.length = 0
  BY <1>5, <1>6 DEF ParserInit, IsParser, InTable, Fields
<1>8. r = [Reset(p) EXCEPT !.body = b]
  BY <1>2, <1>4, <1>6 DEF Reset
<1>9. Basic(r) /\ r.state \in Plain
  BY <1>7 DEF Basic, Plain, HeaderStates, ChunkStates
<1>10. ParserInv(r)
  BY <1>9, PlainSound
<1> QED
  BY <1>8, <1>10

LEMMA NewSound == ParserInv(NewParser)
<1>0. MaxHeaders \in Nat \ {0}
  BY ParserAssumption
<1>1. 1 \in 1..(MaxHeaders + 1) /\ MaxHeaders + 1 \in 1..(MaxHeaders + 1) 
  BY <1>0
<1>2. PICK p : p = NewParser
  OBVIOUS
<1>3. /\ IsParser(p) /\ p.table = [i \in 1..MaxHeaders |-> Empty] /\ p.head = 1 /\ p.header_it = 1
      /\ p.tail = MaxHeaders + 1 /\ p.state = "start" /\ p.length = 0
  BY <1>2 DEF NewParser, IsParser, Fields
<1>4. InTable(p)
  BY <1>1, <1>3 DEF InTable
<1> QED
  BY <1>2, <1>3, <1>4, PlainSound DEF Basic, Plain, HeaderStates, ChunkStates

-----------------------------------------------------------------------------
(* Whatever bytes arrive and wherever the buffers end, the state of        *)
(* http_parser_execute agrees with flags and content_length, and the       *)
(* iterators head, header_it and tail stay in that order in the table of   *)
(* headers, through callbacks, errors and Reset.                           *)
THEOREM ParserInvariant == ConversationSpec => []ParserInv(parser)
<1>1. ConversationInit => ParserInv(parser)
  BY NewSound DEF ConversationInit, Init
<1>2. ParserInv(parser) /\ [ConversationNext]_allVars => ParserInv(parser)'
  <2> SUFFICES ASSUME ParserInv(parser), [ConversationNext]_allVars PROVE ParserInv(parser')
    BY DEF ParserInv, Sound, Framed, IsParser, InTable
  <2>1. CASE Read
    BY <2>1, ByteSound, ReportSound DEF Read, BeginParse, Execute, EndParse
  <2>2. CASE HandleWriteRequest
    <3>1. PICK b : b = <<>>
      OBVIOUS
    <3>2. parser' = [Reset(parser) EXCEPT !.body = b]
      BY <2>2, <3>1 DEF HandleWriteRequest, NextResponse
    <3>3. ParserInv([Reset(parser) EXCEPT !.body = b])
      BY ResetSound
    <3> QED
      BY <3>2, <3>3
  <2>3. CASE UNCHANGED vars
    BY <2>3 DEF vars
  <2> QED
    BY <2>1, <2>2, <2>3 DEF ConversationNext, allVars, BadRequest, GoodRequest, BadResponse,
                            RedirectNowhere, Redirect, Respond
<1> QED
  BY <1>1, <1>2, PTL DEF ConversationSpec

(* Every assert that http_parser_execute evaluates in a body holds: nread   *)
(* is 0 where a chunk size starts, a chunk's states are entered only with  *)
(* F_CHUNKED set, content_length is not 0 where bytes are counted off it   *)
(* and is 0 after the last one.                                            *)
THEOREM AssertionsHold == ConversationSpec => []Assertions
<1>1. ParserInv(parser) => Assertions
  BY DEF ParserInv, Sound, Framed, ChunkStates, Assertions
<1> QED
  BY <1>1, ParserInvariant, PTL

(* The iteration over a message's headers, from head to tail, touches no    *)
(* entry outside the table, though header_value moves header_it and        *)
(* headers_complete sets tail to it.                                       *)
THEOREM WithinTable ==
  ConversationSpec => [](parser.head..(parser.tail - 1) \subseteq DOMAIN parser.table)
<1>1. ParserInv(parser) => parser.head..(parser.tail - 1) \subseteq DOMAIN parser.table
  BY ParserAssumption DEF ParserInv, Sound, InTable
<1> QED
  BY <1>1, ParserInvariant, PTL
-----------------------------------------------------------------------------
(* Urls.  The scans of an url and of its host are taken character by       *)
(* character, by induction over the number of characters.                  *)
UrlStates == {"dead", "start", "schema", "schema_slash", "schema_slash_slash", "server_start", "server",
              "server_with_at", "path", "query_start", "query", "fragment_start", "fragment"}
HostStates == {"dead", "userinfo_start", "userinfo", "host_start", "host", "v6_start", "v6", "v6_end",
               "port_start", "port"}
AllFields == {"schema", "userinfo", "host", "port", "path", "query", "fragment"}
SpanSet == [off : Nat, len : Nat]
FieldSets == UNION {[D -> SpanSet] : D \in SUBSET AllFields}
UrlScanSet == [s : UrlStates, old_uf : AllFields \cup {"none"}, found_at : BOOLEAN, fields : FieldSets]
HostScanSet == [s : HostStates, fields : FieldSets]

(* An arrow leads to a state of the automaton, and the one whose           *)
(* characters have ch is followed.                                         *)
LEMMA Followed ==
  ASSUME NEW arrows, NEW s, NEW ch, NEW a \in arrows[s], ch \in a[1],
         \A b \in arrows[s] : ch \in b[1] => b = a
  PROVE  Follow(arrows, s, ch) = a[2]
BY DEF Follow

(* The states of the automata. *)
LEMMA FollowType ==
  ASSUME NEW arrows, NEW s, NEW ch, NEW S, "dead" \in S, \A a \in arrows[s] : a[2] \in S
  PROVE  Follow(arrows, s, ch) \in S
BY DEF Follow

LEMMA UrlCharType == ASSUME NEW s \in UrlStates, NEW ch PROVE UrlChar(s, ch) \in UrlStates
<1>1. \A a \in UrlArrows[s] : a[2] \in UrlStates
  BY DEF UrlArrows, ServerArrows, QueryArrows, UrlStates
<1>2. "dead" \in UrlStates
  BY DEF UrlStates
<1> QED BY <1>1, <1>2, FollowType DEF UrlChar

LEMMA HostCharType == ASSUME NEW s \in HostStates, NEW ch PROVE HostChar(s, ch) \in HostStates
<1>1. \A a \in HostArrows[s] : a[2] \in HostStates
  BY DEF HostArrows, UserinfoArrows, V6Arrow, PortArrow, HostStates
<1>2. "dead" \in HostStates
  BY DEF HostStates
<1> QED BY <1>1, <1>2, FollowType DEF HostChar

(* Fields that are set, and that grow by a character. *)
LEMMA FieldsIn ==
  ASSUME NEW F \in FieldSets
  PROVE  DOMAIN F \subseteq AllFields /\ \A f \in DOMAIN F : F[f] \in SpanSet
BY DEF FieldSets

LEMMA FieldsOf ==
  ASSUME NEW D \in SUBSET AllFields, NEW F \in [D -> SpanSet] PROVE F \in FieldSets
BY DEF FieldSets

IsSet(G, F, f, sp) ==
  /\ G \in FieldSets /\ DOMAIN G = DOMAIN F \cup {f} /\ G[f] = sp
  /\ \A g \in DOMAIN F : g # f => G[g] = F[g]

LEMMA SetIs ==
  ASSUME NEW F \in FieldSets, NEW f \in AllFields, NEW sp \in SpanSet
  PROVE  IsSet(Set(F, f, sp), F, f, sp)
<1>1. DOMAIN F \subseteq AllFields /\ \A g \in DOMAIN F : F[g] \in SpanSet
  BY FieldsIn
<1>2. PICK D : D = DOMAIN F \cup {f}
  OBVIOUS
<1>3. PICK G : G = [g \in D |-> IF g = f THEN sp ELSE F[g]]
  OBVIOUS
<1>4. G = Set(F, f, sp)
  BY <1>2, <1>3 DEF Set
<1>5. \A g \in D : G[g] \in SpanSet
  BY <1>1, <1>2, <1>3
<1>6. D \in SUBSET AllFields /\ G \in [D -> SpanSet]
  BY <1>1, <1>2, <1>3, <1>5
<1>7. G \in FieldSets
  BY <1>6, FieldsOf
<1>8. DOMAIN G = D /\ G[f] = sp /\ \A g \in DOMAIN F : g # f => G[g] = F[g]
  BY <1>2, <1>3
<1> QED BY <1>2, <1>4, <1>7, <1>8 DEF IsSet

Grow(F, f) == [F EXCEPT ![f].len = @ + 1]

IsGrown(G, F, f) ==
  /\ G \in FieldSets /\ DOMAIN G = DOMAIN F
  /\ f \in DOMAIN F => G[f] = Span(F[f].off, F[f].len + 1)
  /\ \A g \in DOMAIN F : g # f => G[g] = F[g]

LEMMA GrowIs ==
  ASSUME NEW F \in FieldSets, NEW f
  PROVE  IsGrown(Grow(F, f), F, f)
<1>1. DOMAIN F \subseteq AllFields /\ \A g \in DOMAIN F : F[g] \in SpanSet
  BY FieldsIn
<1>2. PICK G : G = Grow(F, f)
  OBVIOUS
<1>3. DOMAIN G = DOMAIN F /\ \A g \in DOMAIN F : g # f => G[g] = F[g]
  BY <1>2 DEF Grow
<1>4. ASSUME f \in DOMAIN F PROVE G[f] = Span(F[f].off, F[f].len + 1) /\ G[f] \in SpanSet
  <2>1. PICK sp \in SpanSet : sp = F[f]
    BY <1>1, <1>4
  <2>2. G[f] = [sp EXCEPT !.len = @ + 1]
    BY <1>2, <1>4, <2>1 DEF Grow
  <2>3. [sp EXCEPT !.len = @ + 1] = Span(sp.off, sp.len + 1) /\ Span(sp.off, sp.len + 1) \in SpanSet
    BY DEF Span, SpanSet
  <2> QED BY <2>1, <2>2, <2>3
<1>5. \A g \in DOMAIN F : G[g] \in SpanSet
  BY <1>1, <1>3, <1>4
<1>6. G \in [DOMAIN F -> SpanSet]
  BY <1>2, <1>3, <1>5 DEF Grow
<1>7. G \in FieldSets
  BY <1>1, <1>6, FieldsOf
<1> QED BY <1>2, <1>3, <1>4, <1>7 DEF IsGrown

(* What a turn of the loop does, by the state its character leads to. *)
UrlStepped(u, at, s, v) ==
  /\ v \in UrlScanSet
  /\ v.s = s /\ v.found_at = (u.found_at \/ s = "server_with_at")
  /\ u.s = "dead" \/ s \notin DOMAIN FieldOfState => v.old_uf = u.old_uf /\ v.fields = u.fields
  /\ ~(u.s = "dead" \/ s \notin DOMAIN FieldOfState) =>
       /\ v.old_uf = FieldOfState[s]
       /\ v.fields = IF FieldOfState[s] = u.old_uf THEN Grow(u.fields, FieldOfState[s])
                     ELSE Set(u.fields, FieldOfState[s], Span(at, 1))

LEMMA UrlStepIs ==
  ASSUME NEW url, NEW u \in UrlScanSet, NEW at \in Nat
  PROVE  UrlStepped(u, at, UrlChar(u.s, url[at + 1]), UrlStep(url, u, at))
<1>s. PICK s, v : s = UrlChar(u.s, url[at + 1]) /\ v = UrlStep(url, u, at)
  OBVIOUS
<1> SUFFICES UrlStepped(u, at, s, v)
  BY <1>s
<1>1. s \in UrlStates
  BY <1>s, UrlCharType DEF UrlScanSet
<1>2. PICK at_ \in BOOLEAN : at_ = (u.found_at \/ s = "server_with_at")
  BY DEF UrlScanSet
<1>4. CASE u.s = "dead" \/ s \notin DOMAIN FieldOfState
  <2>1. v = [u EXCEPT !.s = s, !.found_at = at_]
    BY <1>s, <1>2, <1>4 DEF UrlStep
  <2> QED BY <1>1, <1>2, <1>4, <2>1 DEF UrlScanSet, UrlStepped
<1>5. CASE ~(u.s = "dead" \/ s \notin DOMAIN FieldOfState)
  <2>1. PICK f \in AllFields : f = FieldOfState[s]
    <3>1. FieldOfState[s] \in AllFields
      BY <1>5 DEF FieldOfState, AllFields
    <3> QED BY <3>1
  <2>2. PICK F : F = IF f = u.old_uf THEN Grow(u.fields, f) ELSE Set(u.fields, f, Span(at, 1))
    OBVIOUS
  <2>3. v = [s |-> s, old_uf |-> f, found_at |-> at_, fields |-> F]
    BY <1>s, <1>2, <1>5, <2>1, <2>2, Zenon DEF UrlStep, Grow
  <2>4. F \in FieldSets
    <3>1. u.fields \in FieldSets /\ Span(at, 1) \in SpanSet
      BY DEF UrlScanSet, Span, SpanSet
    <3> QED BY <2>2, <3>1, SetIs, GrowIs DEF IsSet, IsGrown
  <2> QED BY <1>1, <1>2, <1>5, <2>1, <2>2, <2>3, <2>4 DEF UrlScanSet, UrlStepped
<1> QED BY <1>4, <1>5

LEMMA UrlStepType ==
  ASSUME NEW url, NEW u \in UrlScanSet, NEW at \in Nat PROVE UrlStep(url, u, at) \in UrlScanSet
BY UrlStepIs DEF UrlStepped

LEMMA NewScanType == NewScan \in UrlScanSet /\ DOMAIN NewScan.fields = {}
<1>1. << >> \in [{} -> SpanSet] /\ {} \in SUBSET AllFields /\ DOMAIN << >> = {}
  OBVIOUS
<1>2. << >> \in FieldSets
  BY <1>1, FieldsOf
<1>3. "start" \in UrlStates /\ FALSE \in BOOLEAN
  BY DEF UrlStates
<1> QED BY <1>1, <1>2, <1>3 DEF NewScan, UrlScanSet

(* The scans are what the loops know after n turns.                        *)
IsUrlScan(url, U) ==
  /\ U \in [Nat -> UrlScanSet] /\ U[0] = NewScan
  /\ \A n \in Nat : U[n + 1] = UrlStep(url, U[n], n)

LEMMA UrlScansAre == ASSUME NEW url PROVE IsUrlScan(url, UrlScans(url))
<1>1. PICK step : step = [x \in Nat \X UrlScanSet |-> UrlStep(url, x[2], IF x[1] = 0 THEN 0 ELSE x[1] - 1)]
  OBVIOUS
<1>2. ASSUME NEW n \in Nat, NEW u \in UrlScanSet
      PROVE  /\ step[<<n, u>>] = UrlStep(url, u, IF n = 0 THEN 0 ELSE n - 1)
             /\ step[<<n, u>>] \in UrlScanSet
  <2>1. step[<<n, u>>] = UrlStep(url, u, IF n = 0 THEN 0 ELSE n - 1)
    BY <1>1
  <2>2. PICK at \in Nat : at = IF n = 0 THEN 0 ELSE n - 1
    OBVIOUS
  <2>3. UrlStep(url, u, at) \in UrlScanSet
    BY UrlStepType
  <2> QED BY <2>1, <2>2, <2>3
<1>3. step \in [Nat \X UrlScanSet -> UrlScanSet]
  <2>1. \A x \in Nat \X UrlScanSet : step[x] \in UrlScanSet
    BY <1>2
  <2> QED BY <1>1, <2>1
<1>4. PICK f \in [Nat -> UrlScanSet] : Loops(f, NewScan, step)
  BY <1>3, NewScanType, Loop
<1>5. f = [n \in Nat |-> IF n = 0 THEN NewScan ELSE UrlStep(url, f[n - 1], n - 1)]
  <2>1. ASSUME NEW n \in Nat PROVE f[n] = IF n = 0 THEN NewScan ELSE UrlStep(url, f[n - 1], n - 1)
    <3>1. CASE n = 0
      BY <1>4, <3>1 DEF Loops
    <3>2. CASE n # 0
      <4>1. n - 1 \in Nat /\ f[n - 1] \in UrlScanSet
        BY <3>2
      <4>2. f[n] = step[<<n, f[n - 1]>>]
        BY <1>4, <3>2 DEF Loops
      <4> QED BY <1>2, <3>2, <4>1, <4>2
    <3> QED BY <3>1, <3>2
  <2> QED BY <2>1
<1>6. PICK g : g = [n \in Nat |-> IF n = 0 THEN NewScan ELSE UrlStep(url, g[n - 1], n - 1)]
               /\ UrlScans(url) = g
  <2>1. \E g : g = [n \in Nat |-> IF n = 0 THEN NewScan ELSE UrlStep(url, g[n - 1], n - 1)]
    BY <1>5
  <2> QED BY <2>1, Zenon DEF UrlScans
<1>7. g[0] = NewScan /\ \A n \in Nat : g[n + 1] = UrlStep(url, g[n], n)
  <2>1. ASSUME NEW n \in Nat PROVE g[n + 1] = UrlStep(url, g[n], n)
    <3>1. n + 1 \in Nat /\ n + 1 # 0 /\ n + 1 - 1 = n
      OBVIOUS
    <3> QED BY <1>6, <3>1
  <2>2. g[0] = NewScan
    BY <1>6
  <2> QED BY <2>1, <2>2
<1> DEFINE T == {n \in Nat : g[n] \in UrlScanSet}
<1>8. \A n \in Nat : n \in T
  <2>1. 0 \in T
    BY <1>7, NewScanType
  <2>2. ASSUME NEW n \in Nat, n \in T PROVE n + 1 \in T
    BY <1>7, <2>2, UrlStepType
  <2> HIDE DEF T
  <2> QED BY <2>1, <2>2, Induction
<1>9. g \in [Nat -> UrlScanSet]
  BY <1>6, <1>8
<1> QED BY <1>6, <1>7, <1>9 DEF IsUrlScan

(* The same of the host's automaton. *)
HostTexts == {"host", "v6", "port", "userinfo"}
HostField(s) == IF s = "v6" THEN "host" ELSE s

HostStepped(h, at, s, v) ==
  /\ v \in HostScanSet /\ v.s = s
  /\ h.s = "dead" \/ s \notin HostTexts => v.fields = h.fields
  /\ ~(h.s = "dead" \/ s \notin HostTexts) =>
       v.fields = IF s = h.s THEN Grow(h.fields, HostField(s)) ELSE Set(h.fields, HostField(s), Span(at, 1))

LEMMA HostStepIs ==
  ASSUME NEW url, NEW h \in HostScanSet, NEW at \in Nat
  PROVE  HostStepped(h, at, HostChar(h.s, url[at + 1]), HostStep(url, h, at))
<1>s. PICK s, v : s = HostChar(h.s, url[at + 1]) /\ v = HostStep(url, h, at)
  OBVIOUS
<1> SUFFICES HostStepped(h, at, s, v)
  BY <1>s
<1>1. s \in HostStates
  BY <1>s, HostCharType DEF HostScanSet
<1>2. CASE h.s = "dead" \/ s \notin HostTexts
  <2>1. v = [h EXCEPT !.s = s]
    BY <1>s, <1>2 DEF HostStep, HostTexts
  <2> QED BY <1>1, <1>2, <2>1 DEF HostScanSet, HostStepped
<1>3. CASE ~(h.s = "dead" \/ s \notin HostTexts)
  <2>1. PICK f \in AllFields : f = HostField(s)
    BY <1>3 DEF HostField, HostTexts, AllFields
  <2>2. PICK F : F = IF s = h.s THEN Grow(h.fields, f) ELSE Set(h.fields, f, Span(at, 1))
    OBVIOUS
  <2>3. v = [s |-> s, fields |-> F]
    BY <1>s, <1>3, <2>1, <2>2, Zenon DEF HostStep, Grow, HostField, HostTexts
  <2>4. F \in FieldSets
    <3>1. h.fields \in FieldSets /\ Span(at, 1) \in SpanSet
      BY DEF HostScanSet, Span, SpanSet
    <3> QED BY <2>2, <3>1, SetIs, GrowIs DEF IsSet, IsGrown
  <2> QED BY <1>1, <1>3, <2>1, <2>2, <2>3, <2>4 DEF HostScanSet, HostStepped
<1> QED BY <1>2, <1>3

LEMMA HostStepType ==
  ASSUME NEW url, NEW h \in HostScanSet, NEW at \in Nat PROVE HostStep(url, h, at) \in HostScanSet
BY HostStepIs DEF HostStepped

LEMMA NewHostIs ==
  ASSUME NEW u \in UrlScanSet, NEW off \in Nat
  PROVE  /\ NewHost(u, off) \in HostScanSet
         /\ NewHost(u, off).s = IF u.found_at THEN "userinfo_start" ELSE "host_start"
         /\ NewHost(u, off).fields = Set(u.fields, "host", Span(off, 0))
<1>1. u.fields \in FieldSets /\ Span(off, 0) \in SpanSet /\ "host" \in AllFields
  BY DEF UrlScanSet, Span, SpanSet, AllFields
<1>2. PICK F \in FieldSets : F = Set(u.fields, "host", Span(off, 0))
  BY <1>1, SetIs DEF IsSet
<1>3. {"userinfo_start", "host_start"} \subseteq HostStates
  BY DEF HostStates
<1>4. NewHost(u, off) = [s |-> IF u.found_at THEN "userinfo_start" ELSE "host_start", fields |-> F]
  BY <1>2 DEF NewHost
<1> QED BY <1>2, <1>3, <1>4 DEF HostScanSet

IsHostScan(url, u, off, H) ==
  /\ H \in [Nat -> HostScanSet] /\ H[0] = NewHost(u, off)
  /\ \A n \in Nat : H[n + 1] = HostStep(url, H[n], off + n)

LEMMA HostScansAre ==
  ASSUME NEW url, NEW u \in UrlScanSet, NEW off \in Nat
  PROVE  IsHostScan(url, u, off, HostScans(url, u, off))
<1>a. PICK first \in HostScanSet : first = NewHost(u, off)
  BY NewHostIs
<1>1. PICK step : step = [x \in Nat \X HostScanSet |-> HostStep(url, x[2], IF x[1] = 0 THEN 0 ELSE off + x[1] - 1)]
  OBVIOUS
<1>2. ASSUME NEW n \in Nat, NEW h \in HostScanSet
      PROVE  /\ step[<<n, h>>] = HostStep(url, h, IF n = 0 THEN 0 ELSE off + n - 1)
             /\ step[<<n, h>>] \in HostScanSet
  <2>1. step[<<n, h>>] = HostStep(url, h, IF n = 0 THEN 0 ELSE off + n - 1)
    BY <1>1
  <2>2. PICK at \in Nat : at = IF n = 0 THEN 0 ELSE off + n - 1
    OBVIOUS
  <2>3. HostStep(url, h, at) \in HostScanSet
    BY HostStepType
  <2> QED BY <2>1, <2>2, <2>3
<1>3. step \in [Nat \X HostScanSet -> HostScanSet]
  <2>1. \A x \in Nat \X HostScanSet : step[x] \in HostScanSet
    BY <1>2
  <2> QED BY <1>1, <2>1
<1>4. PICK f \in [Nat -> HostScanSet] : Loops(f, first, step)
  BY <1>3, Loop
<1>5. f = [n \in Nat |-> IF n = 0 THEN NewHost(u, off) ELSE HostStep(url, f[n - 1], off + n - 1)]
  <2>1. ASSUME NEW n \in Nat PROVE f[n] = IF n = 0 THEN first ELSE HostStep(url, f[n - 1], off + n - 1)
    <3>1. CASE n = 0
      BY <1>4, <3>1 DEF Loops
    <3>2. CASE n # 0
      <4>1. n - 1 \in Nat /\ f[n - 1] \in HostScanSet
        BY <3>2
      <4>2. f[n] = step[<<n, f[n - 1]>>]
        BY <1>4, <3>2 DEF Loops
      <4> QED BY <1>2, <3>2, <4>1, <4>2
    <3> QED BY <3>1, <3>2
  <2> QED BY <1>a, <2>1
<1>6. PICK g : g = [n \in Nat |-> IF n = 0 THEN NewHost(u, off) ELSE HostStep(url, g[n - 1], off + n - 1)]
               /\ HostScans(url, u, off) = g
  <2>1. \E g : g = [n \in Nat |-> IF n = 0 THEN NewHost(u, off) ELSE HostStep(url, g[n - 1], off + n - 1)]
    BY <1>5
  <2> QED BY <2>1, Zenon DEF HostScans
<1>7. g[0] = NewHost(u, off) /\ \A n \in Nat : g[n + 1] = HostStep(url, g[n], off + n)
  <2>1. ASSUME NEW n \in Nat PROVE g[n + 1] = HostStep(url, g[n], off + n)
    <3>1. n + 1 \in Nat /\ n + 1 # 0 /\ n + 1 - 1 = n /\ off + (n + 1) - 1 = off + n
      OBVIOUS
    <3> QED BY <1>6, <3>1
  <2>2. g[0] = NewHost(u, off)
    BY <1>6
  <2> QED BY <2>1, <2>2
<1> DEFINE T == {n \in Nat : g[n] \in HostScanSet}
<1>8. \A n \in Nat : n \in T
  <2>1. 0 \in T
    BY <1>7, NewHostIs
  <2>2. ASSUME NEW n \in Nat, n \in T PROVE n + 1 \in T
    <3>1. off + n \in Nat
      OBVIOUS
    <3> QED BY <1>7, <2>2, <3>1, HostStepType
  <2> HIDE DEF T
  <2> QED BY <2>1, <2>2, Induction
<1>9. g \in [Nat -> HostScanSet]
  BY <1>6, <1>8
<1> QED BY <1>6, <1>7, <1>9 DEF IsHostScan

(* The fields of S lie between lo and hi, and do not overlap; and f is the *)
(* last of them.                                                           *)
Tidy(F, S, lo, hi) ==
  /\ \A g \in S \cap DOMAIN F : lo <= F[g].off /\ F[g].off + F[g].len <= hi
  /\ \A g, k \in S \cap DOMAIN F : g # k => Apart(F[g], F[k])
LastRead(F, S, f) ==
  f \in DOMAIN F /\ \A g \in S \cap DOMAIN F : g # f => F[g].off + F[g].len <= F[f].off

LEMMA GrowTidy ==
  ASSUME NEW F \in FieldSets, NEW S \in SUBSET AllFields, NEW f \in S, NEW lo \in Nat, NEW hi \in Nat,
         Tidy(F, S, lo, hi), LastRead(F, S, f)
  PROVE  Tidy(Grow(F, f), S, lo, hi + 1) /\ LastRead(Grow(F, f), S, f)
<1>1. PICK G, D : G = Grow(F, f) /\ D = S \cap DOMAIN F
  OBVIOUS
<1>2. /\ DOMAIN G = DOMAIN F /\ f \in D
      /\ G[f] = Span(F[f].off, F[f].len + 1) /\ \A g \in D : g # f => G[g] = F[g]
  BY <1>1, GrowIs DEF IsGrown, LastRead
<1>3. \A g \in D : F[g].off \in Nat /\ F[g].len \in Nat
  BY <1>1, FieldsIn DEF SpanSet
<1>4. G[f].off = F[f].off /\ G[f].len = F[f].len + 1
  BY <1>2 DEF Span
<1>5. \A g \in D : g # f => F[g].off + F[g].len <= F[f].off
  BY <1>1 DEF LastRead
<1>6. \A g \in D : lo <= G[g].off /\ G[g].off + G[g].len <= hi + 1
  <2> SUFFICES ASSUME NEW g \in D PROVE lo <= G[g].off /\ G[g].off + G[g].len <= hi + 1
    OBVIOUS
  <2>1. lo <= F[g].off /\ F[g].off + F[g].len <= hi
    BY <1>1 DEF Tidy
  <2> QED BY <1>2, <1>3, <1>4, <2>1
<1>7. ASSUME NEW g \in D, NEW k \in D, g # k PROVE Apart(G[g], G[k])
  <2>1. Apart(F[g], F[k])
    BY <1>1, <1>7 DEF Tidy
  <2>2. CASE g # f /\ k # f
    BY <1>2, <2>1, <2>2
  <2>3. CASE g = f
    BY <1>2, <1>4, <1>5, <1>7, <2>3 DEF Apart
  <2>4. CASE k = f
    BY <1>2, <1>4, <1>5, <1>7, <2>4 DEF Apart
  <2> QED BY <2>2, <2>3, <2>4
<1>8. LastRead(G, S, f)
  BY <1>1, <1>2, <1>4, <1>5 DEF LastRead
<1> QED BY <1>1, <1>2, <1>6, <1>7, <1>8 DEF Tidy

LEMMA SetTidy ==
  ASSUME NEW F \in FieldSets, NEW S \in SUBSET AllFields, NEW f \in S, NEW lo \in Nat, NEW hi \in Nat,
         lo <= hi, Tidy(F, S, lo, hi)
  PROVE  Tidy(Set(F, f, Span(hi, 1)), S, lo, hi + 1) /\ LastRead(Set(F, f, Span(hi, 1)), S, f)
<1>1. PICK G, D : G = Set(F, f, Span(hi, 1)) /\ D = S \cap DOMAIN G
  OBVIOUS
<1>2. /\ DOMAIN G = DOMAIN F \cup {f} /\ f \in D
      /\ G[f] = Span(hi, 1) /\ \A g \in DOMAIN F : g # f => G[g] = F[g]
  <2>1. Span(hi, 1) \in SpanSet /\ f \in AllFields
    BY DEF Span, SpanSet
  <2>2. IsSet(G, F, f, Span(hi, 1))
    BY <1>1, <2>1, SetIs
  <2> QED BY <1>1, <2>2 DEF IsSet
<1>3. \A g \in DOMAIN F : F[g].off \in Nat /\ F[g].len \in Nat
  BY FieldsIn DEF SpanSet
<1>4. G[f].off = hi /\ G[f].len = 1
  BY <1>2 DEF Span
<1>5. \A g \in D : g # f => /\ g \in S \cap DOMAIN F /\ G[g] = F[g] /\ lo <= G[g].off /\ G[g].off + G[g].len <= hi
                            /\ G[g].off \in Nat /\ G[g].len \in Nat
  <2> SUFFICES ASSUME NEW g \in D, g # f
               PROVE /\ g \in S \cap DOMAIN F /\ G[g] = F[g] /\ lo <= G[g].off /\ G[g].off + G[g].len <= hi
                     /\ G[g].off \in Nat /\ G[g].len \in Nat
    OBVIOUS
  <2>1. g \in S \cap DOMAIN F
    BY <1>1, <1>2
  <2> QED BY <1>2, <1>3, <2>1 DEF Tidy
<1>6. \A g \in D : lo <= G[g].off /\ G[g].off + G[g].len <= hi + 1
  BY <1>4, <1>5
<1>7. ASSUME NEW g \in D, NEW k \in D, g # k PROVE Apart(G[g], G[k])
  <2>2. CASE g # f /\ k # f
    <3>1. Apart(F[g], F[k])
      BY <1>5, <1>7, <2>2 DEF Tidy
    <3> QED BY <1>5, <2>2, <3>1
  <2>3. CASE g = f
    BY <1>4, <1>5, <1>7, <2>3 DEF Apart
  <2>4. CASE k = f
    BY <1>4, <1>5, <1>7, <2>4 DEF Apart
  <2> QED BY <2>2, <2>3, <2>4
<1>8. LastRead(G, S, f)
  BY <1>1, <1>2, <1>4, <1>5 DEF LastRead
<1> QED BY <1>1, <1>6, <1>7, <1>8 DEF Tidy

LEMMA WiderTidy ==
  ASSUME NEW F \in FieldSets, NEW S \in SUBSET AllFields, NEW lo \in Nat, NEW hi \in Nat, Tidy(F, S, lo, hi)
  PROVE  Tidy(F, S, lo, hi + 1)
<1>1. \A g \in S \cap DOMAIN F : F[g].off \in Nat /\ F[g].len \in Nat
  BY FieldsIn DEF SpanSet
<1>2. \A g \in S \cap DOMAIN F : lo <= F[g].off /\ F[g].off + F[g].len <= hi + 1
  BY <1>1 DEF Tidy
<1> QED BY <1>2 DEF Tidy

(* The fields an url was found to have, after n characters. *)
Named == {"schema", "host", "path", "query", "fragment"}
UrlTidy(u, n) ==
  /\ Tidy(u.fields, AllFields, 0, n) /\ DOMAIN u.fields \subseteq Named
  /\ u.old_uf # "none" => u.old_uf \in Named /\ LastRead(u.fields, AllFields, u.old_uf)

LEMMA UrlStaysTidy ==
  ASSUME NEW url, NEW n \in Nat, NEW u \in UrlScanSet, UrlTidy(u, n), NEW v, v = UrlStep(url, u, n)
  PROVE  UrlTidy(v, n + 1)
<1>1. PICK s : s = UrlChar(u.s, url[n + 1])
  OBVIOUS
<1>2. PICK F \in FieldSets : F = u.fields
  BY DEF UrlScanSet
<1>3. Tidy(F, AllFields, 0, n) /\ Tidy(F, AllFields, 0, n + 1)
  BY <1>2, WiderTidy DEF UrlTidy
<1>4. CASE u.s = "dead" \/ s \notin DOMAIN FieldOfState
  <2>1. v.old_uf = u.old_uf /\ v.fields = u.fields
    BY <1>1, <1>4, UrlStepIs DEF UrlStepped
  <2> QED BY <1>2, <1>3, <2>1 DEF UrlTidy
<1>5. CASE ~(u.s = "dead" \/ s \notin DOMAIN FieldOfState)
  <2>1. PICK f \in Named : f = FieldOfState[s]
    <3>1. FieldOfState[s] \in Named
      BY <1>5 DEF FieldOfState, Named
    <3> QED BY <3>1
  <2>2. v.old_uf = f /\ v.fields = IF f = u.old_uf THEN Grow(F, f) ELSE Set(F, f, Span(n, 1))
    BY <1>1, <1>2, <1>5, <2>1, UrlStepIs DEF UrlStepped
  <2>3. f \in AllFields /\ f # "none" /\ DOMAIN F \subseteq Named /\ Span(n, 1) \in SpanSet
    BY <1>2 DEF Named, AllFields, UrlTidy, Span, SpanSet
  <2>4. CASE f = u.old_uf
    <3>1. LastRead(F, AllFields, f)
      BY <1>2, <2>3, <2>4 DEF UrlTidy
    <3>2. Tidy(Grow(F, f), AllFields, 0, n + 1) /\ LastRead(Grow(F, f), AllFields, f)
      BY <1>3, <2>3, <3>1, GrowTidy
    <3> QED BY <2>2, <2>3, <2>4, <3>2, GrowIs DEF IsGrown, UrlTidy
  <2>5. CASE f # u.old_uf
    <3>1. Tidy(Set(F, f, Span(n, 1)), AllFields, 0, n + 1) /\ LastRead(Set(F, f, Span(n, 1)), AllFields, f)
      BY <1>3, <2>3, SetTidy
    <3>2. DOMAIN Set(F, f, Span(n, 1)) = DOMAIN F \cup {f}
      BY <2>3, SetIs DEF IsSet
    <3> QED BY <2>2, <2>3, <2>5, <3>1, <3>2 DEF UrlTidy
  <2> QED BY <2>4, <2>5
<1> QED BY <1>4, <1>5

LEMMA UrlAlwaysTidy ==
  ASSUME NEW url, NEW U, IsUrlScan(url, U) PROVE \A n \in Nat : UrlTidy(U[n], n)
<1> DEFINE T == {n \in Nat : UrlTidy(U[n], n)}
<1>1. 0 \in T
  <2>1. U[0].fields = << >> /\ U[0].old_uf = "none" /\ DOMAIN U[0].fields = {}
    BY NewScanType DEF IsUrlScan, NewScan
  <2> QED BY <2>1 DEF UrlTidy, Tidy
<1>2. ASSUME NEW n \in Nat, n \in T PROVE n + 1 \in T
  <2>1. U[n] \in UrlScanSet /\ U[n + 1] = UrlStep(url, U[n], n)
    BY DEF IsUrlScan
  <2> QED BY <1>2, <2>1, UrlStaysTidy
<1>3. \A n \in Nat : n \in T
  <2> HIDE DEF T
  <2> QED BY <1>1, <1>2, Induction
<1> QED BY <1>3

(* The fields of a host at place off, after n characters of it.            *)
Trio == {"userinfo", "host", "port"}
HostTidy(h, u, off, n) ==
  /\ Tidy(h.fields, Trio, off, off + n)
  /\ DOMAIN h.fields \ Trio = DOMAIN u.fields \ Trio /\ "host" \in DOMAIN h.fields
  /\ \A g \in DOMAIN u.fields \ Trio : h.fields[g] = u.fields[g]
  /\ h.s \in HostTexts => LastRead(h.fields, Trio, HostField(h.s))

LEMMA HostStaysTidy ==
  ASSUME NEW url, NEW u, NEW off \in Nat, NEW n \in Nat, NEW h \in HostScanSet, HostTidy(h, u, off, n),
         NEW v, v = HostStep(url, h, off + n)
  PROVE  HostTidy(v, u, off, n + 1)
<1>a. PICK at \in Nat : at = off + n /\ off <= at /\ off + (n + 1) = at + 1
  OBVIOUS
<1>1. PICK s : at = off + n /\ s = HostChar(h.s, url[at + 1]) /\ off <= at /\ off + (n + 1) = at + 1
  BY <1>a
<1>2. PICK F \in FieldSets : F = h.fields
  BY DEF HostScanSet
<1>t. Trio \in SUBSET AllFields
  BY DEF Trio, AllFields
<1>3. Tidy(F, Trio, off, at) /\ Tidy(F, Trio, off, at + 1)
  BY <1>1, <1>2, <1>t, WiderTidy DEF HostTidy
<1>4. CASE h.s = "dead" \/ s \notin HostTexts
  <2>1. v.s = s /\ v.fields = h.fields
    BY <1>1, <1>4, HostStepIs DEF HostStepped
  <2>2. s \notin HostTexts
    <3>1. h.s = "dead" => s = "dead"
      BY <1>1 DEF HostChar, Follow, HostArrows
    <3> QED BY <1>4, <3>1 DEF HostTexts
  <2> QED BY <1>1, <1>2, <1>3, <2>1, <2>2 DEF HostTidy
<1>5. CASE ~(h.s = "dead" \/ s \notin HostTexts)
  <2>1. PICK f \in Trio : f = HostField(s)
    BY <1>5 DEF HostField, HostTexts, Trio
  <2>2. v.s = s /\ v.fields = IF s = h.s THEN Grow(F, f) ELSE Set(F, f, Span(at, 1))
    BY <1>1, <1>2, <1>5, <2>1, HostStepIs DEF HostStepped
  <2>3. /\ f \in AllFields /\ Span(at, 1) \in SpanSet /\ "host" \in DOMAIN F
        /\ DOMAIN F \ Trio = DOMAIN u.fields \ Trio /\ \A g \in DOMAIN u.fields \ Trio : F[g] = u.fields[g]
    BY <1>2, <1>t DEF Span, SpanSet, HostTidy
  <2>4. CASE s = h.s
    <3>1. LastRead(F, Trio, f)
      BY <1>2, <1>5, <2>1, <2>4 DEF HostTidy
    <3>2. Tidy(Grow(F, f), Trio, off, at + 1) /\ LastRead(Grow(F, f), Trio, f)
      BY <1>3, <1>t, <3>1, GrowTidy
    <3>3. DOMAIN Grow(F, f) = DOMAIN F /\ \A g \in DOMAIN F \ Trio : Grow(F, f)[g] = F[g]
      BY GrowIs DEF IsGrown
    <3> QED BY <1>1, <2>1, <2>2, <2>3, <2>4, <3>2, <3>3 DEF HostTidy
  <2>5. CASE s # h.s
    <3>1. Tidy(Set(F, f, Span(at, 1)), Trio, off, at + 1) /\ LastRead(Set(F, f, Span(at, 1)), Trio, f)
      BY <1>1, <1>3, <1>t, SetTidy
    <3>2. /\ DOMAIN Set(F, f, Span(at, 1)) = DOMAIN F \cup {f}
          /\ \A g \in DOMAIN F \ Trio : Set(F, f, Span(at, 1))[g] = F[g]
      <4>1. IsSet(Set(F, f, Span(at, 1)), F, f, Span(at, 1))
        BY <2>3, SetIs
      <4>2. f \in Trio
        OBVIOUS
      <4> QED BY <4>1, <4>2 DEF IsSet
    <3> QED BY <1>1, <2>1, <2>2, <2>3, <2>5, <3>1, <3>2 DEF HostTidy
  <2> QED BY <2>4, <2>5
<1> QED BY <1>4, <1>5

LEMMA HostAlwaysTidy ==
  ASSUME NEW url, NEW u \in UrlScanSet, NEW off \in Nat, NEW H, IsHostScan(url, u, off, H),
         DOMAIN u.fields \subseteq Named
  PROVE  \A n \in Nat : HostTidy(H[n], u, off, n)
<1> DEFINE T == {n \in Nat : HostTidy(H[n], u, off, n)}
<1>1. 0 \in T
  <2>1. /\ H[0].s = (IF u.found_at THEN "userinfo_start" ELSE "host_start")
        /\ H[0].fields = Set(u.fields, "host", Span(off, 0))
    BY NewHostIs DEF IsHostScan
  <2>2. u.fields \in FieldSets /\ Span(off, 0) \in SpanSet /\ "host" \in AllFields
    BY DEF UrlScanSet, Span, SpanSet, AllFields
  <2>3. PICK G : /\ G = Set(u.fields, "host", Span(off, 0)) /\ DOMAIN G = DOMAIN u.fields \cup {"host"}
                 /\ G["host"] = Span(off, 0) /\ \A g \in DOMAIN u.fields : g # "host" => G[g] = u.fields[g]
    <3>1. IsSet(Set(u.fields, "host", Span(off, 0)), u.fields, "host", Span(off, 0))
      BY <2>2, SetIs
    <3> QED BY <3>1 DEF IsSet
  <2>4. Trio \cap DOMAIN G = {"host"} /\ DOMAIN G \ Trio = DOMAIN u.fields \ Trio
    BY <2>3 DEF Trio, Named
  <2>5. off + 0 = off /\ G["host"].off = off /\ G["host"].len = 0
    BY <2>3 DEF Span
  <2>6. Tidy(G, Trio, off, off + 0)
    BY <2>4, <2>5 DEF Tidy
  <2>7. H[0].s \notin HostTexts
    BY <2>1 DEF HostTexts
  <2>8. \A g \in DOMAIN u.fields \ Trio : G[g] = u.fields[g]
    BY <2>3 DEF Trio
  <2> QED BY <2>1, <2>3, <2>4, <2>6, <2>7, <2>8 DEF HostTidy
<1>2. ASSUME NEW n \in Nat, n \in T PROVE n + 1 \in T
  <2>1. H[n] \in HostScanSet /\ H[n + 1] = HostStep(url, H[n], off + n)
    BY DEF IsHostScan
  <2> QED BY <1>2, <2>1, HostStaysTidy
<1>3. \A n \in Nat : n \in T
  <2> HIDE DEF T
  <2> QED BY <1>1, <1>2, Induction
<1> QED BY <1>3

(* What is found in an url of n characters lies in it. *)
LEMMA UrlFieldsWithin ==
  ASSUME NEW url, Len(url) \in Nat, NEW u \in UrlScanSet, UrlTidy(u, Len(url))
  PROVE  /\ FieldsWithin(url, u.fields)
         /\ \A f \in DOMAIN u.fields : Within(u.fields[f], Len(url))
         /\ \A f, g \in DOMAIN u.fields : f # g => Apart(u.fields[f], u.fields[g])
<1>1. DOMAIN u.fields \subseteq AllFields
  BY FieldsIn DEF UrlScanSet
<1>2. AllFields \cap DOMAIN u.fields = DOMAIN u.fields
  BY <1>1
<1> QED BY <1>2 DEF UrlTidy, Tidy, FieldsWithin, Within

LEMMA ApartInside ==
  ASSUME NEW r, NEW s, NEW t, r.off \in Nat, r.len \in Nat, s.off \in Nat, s.len \in Nat, t.off \in Nat, t.len \in Nat,
         s.off <= r.off, r.off + r.len <= s.off + s.len, Apart(s, t)
  PROVE  Apart(r, t) /\ Apart(t, r)
BY DEF Apart

LEMMA HostFieldsWithin ==
  ASSUME NEW url, Len(url) \in Nat,
         NEW u \in UrlScanSet, UrlTidy(u, Len(url)), "host" \in DOMAIN u.fields
  PROVE  FieldsWithin(url, ScanHost(url, u).fields)
<1>1. PICK n \in Nat : n = Len(url)
  OBVIOUS
<1>3. PICK F \in FieldSets : F = u.fields /\ DOMAIN F \subseteq Named
  BY DEF UrlScanSet, UrlTidy
<1>4. /\ \A f \in DOMAIN F : F[f].off \in Nat /\ F[f].len \in Nat /\ F[f].off + F[f].len <= n
      /\ \A f, g \in DOMAIN F : f # g => Apart(F[f], F[g])
  BY <1>1, <1>3, UrlFieldsWithin, FieldsIn DEF SpanSet, Within
<1>5. PICK span : span = u.fields.host
  OBVIOUS
<1>6. span.off \in Nat /\ span.len \in Nat /\ span.off + span.len <= n /\ span = F["host"] /\ "host" \in DOMAIN F
  BY <1>3, <1>4, <1>5
<1>7. PICK off \in Nat, len \in Nat : off = span.off /\ len = span.len
  BY <1>6
<1>8. PICK H : H = HostScans(url, u, off) /\ IsHostScan(url, u, off, H)
  BY HostScansAre
<1>9. PICK h \in HostScanSet : h = H[len] /\ HostTidy(h, u, off, len)
  BY <1>3, <1>8, HostAlwaysTidy DEF IsHostScan
<1>10. PICK G \in FieldSets : G = h.fields
  BY DEF HostScanSet
<1>11. /\ Tidy(G, Trio, off, off + len)
       /\ DOMAIN G \ Trio = DOMAIN F \ Trio /\ "host" \in DOMAIN G
       /\ \A g \in DOMAIN F \ Trio : G[g] = F[g]
  BY <1>3, <1>9, <1>10 DEF HostTidy
<1>12. PICK R : R = ScanHost(url, u).fields
  OBVIOUS
<1>14. R = G
  BY <1>5, <1>7, <1>8, <1>9, <1>10, <1>12 DEF ScanHost
<1>16. \A f \in DOMAIN R : R[f].off \in Nat /\ R[f].len \in Nat
  BY <1>14, FieldsIn DEF SpanSet
<1>17. \A f \in DOMAIN R : /\ f \in Trio => off <= R[f].off /\ R[f].off + R[f].len <= off + len
                           /\ f \notin Trio => f \in DOMAIN F /\ R[f] = F[f]
  BY <1>11, <1>14 DEF Tidy
<1>18. \A f \in DOMAIN R : Within(R[f], Len(url))
  <2> SUFFICES ASSUME NEW f \in DOMAIN R PROVE R[f].off + R[f].len <= n
    BY <1>1 DEF Within
  <2>1. CASE f \in Trio
    BY <1>6, <1>7, <1>16, <1>17, <2>1
  <2>2. CASE f \notin Trio
    BY <1>4, <1>17, <2>2
  <2> QED BY <2>1, <2>2
<1>19. ASSUME NEW f \in DOMAIN R, NEW g \in DOMAIN R, f # g PROVE Apart(R[f], R[g])
  <2>1. CASE f \in Trio /\ g \in Trio
    BY <1>11, <1>14, <1>19, <2>1 DEF Tidy
  <2>2. CASE f \notin Trio /\ g \notin Trio
    BY <1>4, <1>17, <1>19, <2>2
  <2>3. "host" \in DOMAIN F /\ F["host"] = span
    BY <1>6
  <2>4. CASE f \in Trio /\ g \notin Trio
    <3>1. Apart(span, F[g]) /\ g \in DOMAIN F /\ R[g] = F[g]
      BY <1>4, <1>17, <2>3, <2>4 DEF Trio
    <3>2. /\ off <= R[f].off /\ R[f].off + R[f].len <= off + len
          /\ R[f].off \in Nat /\ R[f].len \in Nat /\ R[g].off \in Nat /\ R[g].len \in Nat
      BY <1>16, <1>17, <2>4
    <3>3. span.off = off /\ span.len = len
      BY <1>7
    <3>4. Apart(span, R[g])
      BY <3>1
    <3> QED BY <3>2, <3>3, <3>4, ApartInside
  <2>5. CASE f \notin Trio /\ g \in Trio
    <3>1. Apart(span, F[f]) /\ f \in DOMAIN F /\ R[f] = F[f]
      BY <1>4, <1>17, <2>3, <2>5 DEF Trio
    <3>2. /\ off <= R[g].off /\ R[g].off + R[g].len <= off + len
          /\ R[g].off \in Nat /\ R[g].len \in Nat /\ R[f].off \in Nat /\ R[f].len \in Nat
      BY <1>16, <1>17, <2>5
    <3>3. span.off = off /\ span.len = len
      BY <1>7
    <3>4. Apart(span, R[f])
      BY <3>1
    <3> QED BY <3>2, <3>3, <3>4, ApartInside
  <2> QED BY <2>1, <2>2, <2>4, <2>5
<1> QED BY <1>12, <1>18, <1>19 DEF FieldsWithin

(* A port from memory never written joins the fields of an url.            *)
LEMMA NoHostFieldsWithin ==
  ASSUME NEW url, Len(url) \in Nat, NEW garbage \in Garbage,
         NEW u \in UrlScanSet, UrlTidy(u, Len(url)), "schema" \in DOMAIN u.fields, "host" \notin DOMAIN u.fields
  PROVE  FieldsWithin(url, ScanNoHost(u, garbage).fields)
<1>1. PICK F \in FieldSets : F = u.fields
  BY DEF UrlScanSet
<1>2. /\ \A f \in DOMAIN F : Within(F[f], Len(url))
      /\ \A f, g \in DOMAIN F : f # g => Apart(F[f], F[g])
  BY <1>1, UrlFieldsWithin
<1>3. PICK R : R = ScanNoHost(u, garbage).fields
  OBVIOUS
<1>4. /\ {"schema", "host"} \cap DOMAIN R = {"schema"}
      /\ \A f \in DOMAIN R \ {"port"} : f \in DOMAIN F /\ R[f] = F[f]
  <2>1. CASE garbage.port.len = 0
    <3>1. R = F
      BY <1>1, <1>3, <2>1 DEF ScanNoHost
    <3> QED BY <1>1, <3>1
  <2>2. CASE garbage.port.len # 0
    <3>1. R = Set(F, "port", garbage.port)
      BY <1>1, <1>3, <2>2 DEF ScanNoHost
    <3>2. garbage.port \in SpanSet /\ "port" \in AllFields
      BY UrlAssumption DEF SpanSet, AllFields
    <3>3. IsSet(R, F, "port", garbage.port)
      BY <3>1, <3>2, SetIs
    <3> QED BY <1>1, <3>3 DEF IsSet
  <2> QED BY <2>1, <2>2
<1> QED BY <1>2, <1>3, <1>4 DEF FieldsWithin

(* Of any url, also one that is refused, the fields lie in it and do not   *)
(* overlap, but for a port that memory never written decides: the callers  *)
(* use them without looking at what http_parser_parse_url returned.        *)
THEOREM FieldsStayWithin ==
  ASSUME NEW url, Len(url) \in Nat, NEW garbage \in Garbage
  PROVE  FieldsWithin(url, ParseUrl(url, garbage).fields)
<1>1. PICK u \in UrlScanSet : u = ScanUrl(url) /\ UrlTidy(u, Len(url))
  <2>1. IsUrlScan(url, UrlScans(url))
    BY UrlScansAre
  <2>2. UrlTidy(UrlScans(url)[Len(url)], Len(url)) /\ UrlScans(url)[Len(url)] \in UrlScanSet
    BY <2>1, UrlAlwaysTidy DEF IsUrlScan
  <2> QED BY <2>2 DEF ScanUrl
<1>2. PICK r : r = ParseUrl(url, garbage) /\ r = Parsed(url, u, garbage)
  BY <1>1 DEF ParseUrl
<1>3. CASE u.s = "dead" \/ {"schema", "host"} \cap DOMAIN u.fields = {}
  <2>1. r.fields = u.fields
    BY <1>2, <1>3 DEF Parsed
  <2> QED BY <1>1, <1>2, <2>1, UrlFieldsWithin
<1>4. CASE u.s # "dead" /\ "host" \in DOMAIN u.fields
  <2>1. r.fields = ScanHost(url, u).fields
    BY <1>2, <1>4 DEF Parsed
  <2> QED BY <1>1, <1>2, <1>4, <2>1, HostFieldsWithin
<1>5. CASE u.s # "dead" /\ "host" \notin DOMAIN u.fields /\ "schema" \in DOMAIN u.fields
  <2>1. r.fields = ScanNoHost(u, garbage).fields
    BY <1>2, <1>5 DEF Parsed
  <2> QED BY <1>1, <1>2, <1>5, <2>1, NoHostFieldsWithin
<1> QED BY <1>3, <1>4, <1>5

(* From u to v, n characters further: all of them belong to the field of   *)
(* state st, which begins at place b.                                      *)
UrlRan(u, v, st, b, n) ==
  /\ v \in UrlScanSet /\ v.s = st /\ v.old_uf = FieldOfState[st]
  /\ v.found_at = (u.found_at \/ st = "server_with_at")
  /\ IsSet(v.fields, u.fields, FieldOfState[st], Span(b, n))

(* The field goes on that was read last, or another begins. *)
Begins(u, f, a, b) ==
  IF u.old_uf = f THEN f \in DOMAIN u.fields /\ u.fields[f] = Span(b, a - b) ELSE b = a

LEMMA FieldStates ==
  ASSUME NEW st \in DOMAIN FieldOfState
  PROVE  st # "dead" /\ FieldOfState[st] \in AllFields /\ FieldOfState[st] # "none"
BY DEF FieldOfState, AllFields

LEMMA UrlRuns ==
  ASSUME NEW url, NEW U, IsUrlScan(url, U), NEW a \in Nat, NEW n \in Nat, n >= 1, NEW b \in 0..a,
         NEW st \in DOMAIN FieldOfState, U[a].s # "dead", Begins(U[a], FieldOfState[st], a, b),
         UrlChar(U[a].s, url[a + 1]) = st, \A i \in 2..n : UrlChar(st, url[a + i]) = st
  PROVE  UrlRan(U[a], U[a + n], st, b, a + n - b)
<1>1. PICK f \in AllFields : f = FieldOfState[st]
  BY FieldStates
<1>2. PICK u \in UrlScanSet, F \in FieldSets : u = U[a] /\ F = u.fields
  BY DEF IsUrlScan, UrlScanSet
<1> DEFINE T == {k \in Nat : k + 1 <= n => UrlRan(u, U[a + (k + 1)], st, b, a + (k + 1) - b)}
<1>3. 0 \in T
  <2>1. PICK v \in UrlScanSet : v = U[a + 1] /\ v = UrlStep(url, u, a)
    BY <1>2 DEF IsUrlScan
  <2>2. UrlStepped(u, a, st, v)
    BY <1>2, <2>1, UrlStepIs
  <2>3. /\ v.s = st /\ v.old_uf = f /\ v.found_at = (u.found_at \/ st = "server_with_at")
        /\ v.fields = IF f = u.old_uf THEN Grow(F, f) ELSE Set(F, f, Span(a, 1))
    BY <1>1, <1>2, <2>2, FieldStates DEF UrlStepped
  <2>4. IsSet(v.fields, F, f, Span(b, a + 1 - b))
    <3>1. CASE f = u.old_uf
      <4>1. f \in DOMAIN F /\ F[f] = Span(b, a - b)
        BY <1>1, <1>2, <3>1 DEF Begins
      <4>2. F[f].off = b /\ F[f].len + 1 = a + 1 - b
        BY <4>1 DEF Span
      <4>3. IsGrown(v.fields, F, f)
        BY <2>3, <3>1, GrowIs
      <4> QED BY <4>1, <4>2, <4>3 DEF IsGrown, IsSet
    <3>2. CASE f # u.old_uf
      <4>1. b = a /\ a + 1 - b = 1
        BY <1>1, <1>2, <3>2 DEF Begins
      <4>2. Span(a, 1) \in SpanSet
        BY DEF Span, SpanSet
      <4> QED BY <2>3, <3>2, <4>1, <4>2, SetIs
    <3> QED BY <3>1, <3>2
  <2>5. a + (0 + 1) = a + 1
    OBVIOUS
  <2>6. UrlRan(u, v, st, b, a + 1 - b)
    BY <1>1, <1>2, <2>3, <2>4, Zenon DEF UrlRan
  <2>7. UrlRan(u, U[a + (0 + 1)], st, b, a + (0 + 1) - b)
    <3>1. a + (0 + 1) - b = a + 1 - b
      OBVIOUS
    <3>2. U[a + (0 + 1)] = v
      BY <2>1, <2>5
    <3> QED BY <2>6, <3>1, <3>2, Zenon
  <2> QED BY <2>7
<1>4. ASSUME NEW k \in Nat, k \in T PROVE k + 1 \in T
  <2> SUFFICES ASSUME k + 1 + 1 <= n PROVE UrlRan(u, U[a + (k + 1 + 1)], st, b, a + (k + 1 + 1) - b)
    OBVIOUS
  <2>1. PICK m \in Nat : m = a + (k + 1) /\ a + (k + 1 + 1) = m + 1 /\ m >= b /\ m - b + 1 = m + 1 - b
    OBVIOUS
  <2>2. UrlRan(u, U[m], st, b, m - b)
    BY <1>4, <2>1
  <2>3. PICK v \in UrlScanSet, w \in UrlScanSet : v = U[m] /\ w = U[m + 1] /\ w = UrlStep(url, v, m)
    BY DEF IsUrlScan
  <2>4. UrlChar(v.s, url[m + 1]) = st
    <3>1. k + 1 + 1 \in 2..n
      OBVIOUS
    <3>2. v.s = st
      BY <2>2, <2>3 DEF UrlRan
    <3> QED BY <2>1, <3>1, <3>2
  <2>5. UrlStepped(v, m, st, w)
    BY <2>3, <2>4, UrlStepIs
  <2>6. v.s = st /\ v.old_uf = f /\ v.found_at = (u.found_at \/ st = "server_with_at")
        /\ IsSet(v.fields, F, f, Span(b, m - b))
    BY <1>1, <1>2, <2>2, <2>3 DEF UrlRan
  <2>7. /\ w.s = st /\ w.old_uf = f /\ w.found_at = (u.found_at \/ st = "server_with_at")
        /\ w.fields = Grow(v.fields, f)
    BY <1>1, <2>5, <2>6, FieldStates DEF UrlStepped
  <2>8. IsSet(w.fields, F, f, Span(b, m + 1 - b))
    <3>1. PICK V \in FieldSets : V = v.fields
      BY DEF UrlScanSet
    <3>2. IsGrown(w.fields, V, f)
      BY <2>7, <3>1, GrowIs
    <3>3. /\ DOMAIN V = DOMAIN F \cup {f} /\ V[f] = Span(b, m - b)
          /\ \A g \in DOMAIN F : g # f => V[g] = F[g]
      BY <2>6, <3>1 DEF IsSet
    <3>4. Span(V[f].off, V[f].len + 1) = Span(b, m + 1 - b)
      BY <2>1, <3>3 DEF Span
    <3> QED BY <3>2, <3>3, <3>4 DEF IsGrown, IsSet
  <2>9. UrlRan(u, w, st, b, m + 1 - b)
    BY <1>1, <1>2, <2>7, <2>8, Zenon DEF UrlRan
  <2>10. a + (k + 1 + 1) - b = m + 1 - b
    BY <2>1
  <2>11. U[a + (k + 1 + 1)] = w
    BY <2>1, <2>3
  <2> QED BY <2>9, <2>10, <2>11, Zenon
<1>5. \A k \in Nat : k \in T
  <2> HIDE DEF T
  <2> QED BY <1>3, <1>4, Induction
<1>6. n - 1 \in Nat /\ n - 1 + 1 = n
  OBVIOUS
<1> QED BY <1>2, <1>5, <1>6

(* A character between two fields. *)
LEMMA UrlSkips ==
  ASSUME NEW url, NEW U, IsUrlScan(url, U), NEW a \in Nat,
         NEW st, st = UrlChar(U[a].s, url[a + 1]), st \notin DOMAIN FieldOfState
  PROVE  /\ U[a + 1].s = st /\ U[a + 1].old_uf = U[a].old_uf /\ U[a + 1].found_at = U[a].found_at
         /\ U[a + 1].fields = U[a].fields
<1>1. PICK u \in UrlScanSet, v \in UrlScanSet : u = U[a] /\ v = U[a + 1] /\ v = UrlStep(url, u, a)
  BY DEF IsUrlScan
<1>2. UrlStepped(u, a, st, v)
  BY <1>1, UrlStepIs
<1>3. st # "server_with_at" /\ u.found_at \in BOOLEAN
  BY DEF FieldOfState, UrlScanSet
<1> QED BY <1>1, <1>2, <1>3 DEF UrlStepped

(* The same of a host.                                                     *)
HostRan(h, v, st, b, n) ==
  v \in HostScanSet /\ v.s = st /\ IsSet(v.fields, h.fields, HostField(st), Span(b, n))

LEMMA HostStateFields ==
  ASSUME NEW st \in HostTexts PROVE st # "dead" /\ HostField(st) \in AllFields
BY DEF HostTexts, HostField, AllFields

LEMMA HostRuns ==
  ASSUME NEW url, NEW u, NEW off \in Nat, NEW H, IsHostScan(url, u, off, H), NEW a \in Nat, NEW n \in Nat, n >= 1,
         NEW st \in HostTexts, H[a].s # "dead", H[a].s # st,
         HostChar(H[a].s, url[off + a + 1]) = st, \A i \in 2..n : HostChar(st, url[off + a + i]) = st
  PROVE  HostRan(H[a], H[a + n], st, off + a, n)
<1>1. PICK f \in AllFields : f = HostField(st)
  BY HostStateFields
<1>2. PICK h \in HostScanSet, F \in FieldSets, b \in Nat : h = H[a] /\ F = h.fields /\ b = off + a
  <2>1. H[a] \in HostScanSet
    BY DEF IsHostScan
  <2>2. H[a].fields \in FieldSets /\ off + a \in Nat
    BY <2>1 DEF HostScanSet
  <2> QED BY <2>1, <2>2
<1> DEFINE T == {k \in Nat : k + 1 <= n => HostRan(h, H[a + (k + 1)], st, b, k + 1)}
<1>3. 0 \in T
  <2>1. PICK v \in HostScanSet : v = H[a + 1] /\ v = HostStep(url, h, b)
    BY <1>2 DEF IsHostScan
  <2>2. HostStepped(h, b, st, v)
    BY <1>2, <2>1, HostStepIs
  <2>3. v.s = st /\ v.fields = Set(F, f, Span(b, 1))
    BY <1>1, <1>2, <2>2, HostStateFields DEF HostStepped
  <2>4. IsSet(v.fields, F, f, Span(b, 1))
    <3>1. Span(b, 1) \in SpanSet
      BY DEF Span, SpanSet
    <3> QED BY <2>3, <3>1, SetIs
  <2>5. a + (0 + 1) = a + 1 /\ 0 + 1 = 1
    OBVIOUS
  <2> QED BY <1>1, <1>2, <2>1, <2>3, <2>4, <2>5 DEF HostRan
<1>4. ASSUME NEW k \in Nat, k \in T PROVE k + 1 \in T
  <2> SUFFICES ASSUME k + 1 + 1 <= n PROVE HostRan(h, H[a + (k + 1 + 1)], st, b, k + 1 + 1)
    OBVIOUS
  <2>1. PICK m \in Nat : m = a + (k + 1) /\ a + (k + 1 + 1) = m + 1 /\ off + m = b + (k + 1)
                         /\ off + m + 1 = off + a + (k + 1 + 1) /\ off + m \in Nat
    BY <1>2
  <2>2. HostRan(h, H[m], st, b, k + 1)
    BY <1>4, <2>1
  <2>3. PICK v \in HostScanSet, w \in HostScanSet : v = H[m] /\ w = H[m + 1] /\ w = HostStep(url, v, off + m)
    BY DEF IsHostScan
  <2>4. HostChar(v.s, url[off + m + 1]) = st
    <3>1. k + 1 + 1 \in 2..n
      OBVIOUS
    <3>2. v.s = st
      BY <2>2, <2>3 DEF HostRan
    <3> QED BY <2>1, <3>1, <3>2
  <2>5. HostStepped(v, off + m, st, w)
    BY <2>1, <2>3, <2>4, HostStepIs
  <2>6. v.s = st /\ IsSet(v.fields, F, f, Span(b, k + 1))
    BY <1>1, <1>2, <2>2, <2>3 DEF HostRan
  <2>7. w.s = st /\ w.fields = Grow(v.fields, f)
    BY <1>1, <2>5, <2>6, HostStateFields DEF HostStepped
  <2>8. IsSet(w.fields, F, f, Span(b, k + 1 + 1))
    <3>1. PICK V \in FieldSets : V = v.fields
      BY DEF HostScanSet
    <3>2. IsGrown(w.fields, V, f)
      BY <2>7, <3>1, GrowIs
    <3>3. /\ DOMAIN V = DOMAIN F \cup {f} /\ V[f] = Span(b, k + 1)
          /\ \A g \in DOMAIN F : g # f => V[g] = F[g]
      BY <2>6, <3>1 DEF IsSet
    <3>4. Span(V[f].off, V[f].len + 1) = Span(b, k + 1 + 1)
      BY <3>3 DEF Span
    <3> QED BY <3>2, <3>3, <3>4 DEF IsGrown, IsSet
  <2> QED BY <1>1, <1>2, <2>1, <2>3, <2>7, <2>8 DEF HostRan
<1>5. \A k \in Nat : k \in T
  <2> HIDE DEF T
  <2> QED BY <1>3, <1>4, Induction
<1>6. n - 1 \in Nat /\ n - 1 + 1 = n
  OBVIOUS
<1> QED BY <1>2, <1>5, <1>6

(* The text t lies in the url between the places a and b. *)
Lies(url, a, t, b) ==
  /\ a \in Nat /\ b \in Nat /\ b = a + Len(t) /\ b <= Len(url)
  /\ \A i \in 1..Len(t) : url[a + i] = t[i]

LEMMA LiesCat ==
  ASSUME NEW url \in Seq(FragmentChars), NEW s \in Seq(FragmentChars), NEW t \in Seq(FragmentChars),
         NEW a \in Nat, NEW c \in Nat, Lies(url, a, s \o t, c)
  PROVE  \E b \in Nat : Lies(url, a, s, b) /\ Lies(url, b, t, c)
<1>1. PICK m \in Nat, n \in Nat, L \in Nat : m = Len(s) /\ n = Len(t) /\ L = Len(url)
  OBVIOUS
<1>2. PICK w : w = s \o t
  OBVIOUS
<1>3. /\ Len(w) = m + n /\ \A i \in 1..m : w[i] = s[i]
      /\ \A i \in 1..n : w[m + i] = t[i]
  <2>1. Len(w) = m + n
    BY <1>1, <1>2
  <2>2. \A i \in 1..m : w[i] = s[i]
    BY <1>1, <1>2
  <2>3. \A i \in 1..n : w[m + i] = t[i]
    BY <1>1, <1>2
  <2> QED BY <2>1, <2>2, <2>3
<1>4. c = a + (m + n) /\ c <= L /\ \A i \in 1..(m + n) : url[a + i] = w[i]
  BY <1>1, <1>2, <1>3 DEF Lies
<1>5. PICK b \in Nat : b = a + m
  OBVIOUS
<1>6. Lies(url, a, s, b)
  <2>1. \A i \in 1..m : url[a + i] = s[i]
    <3> SUFFICES ASSUME NEW i \in 1..m PROVE url[a + i] = s[i]
      OBVIOUS
    <3>1. i \in 1..(m + n)
      OBVIOUS
    <3> QED BY <1>3, <1>4, <3>1
  <2>2. b <= L
    BY <1>4, <1>5
  <2> QED BY <1>1, <1>5, <2>1, <2>2 DEF Lies
<1>7. Lies(url, b, t, c)
  <2>1. \A i \in 1..n : url[b + i] = t[i]
    <3> SUFFICES ASSUME NEW i \in 1..n PROVE url[b + i] = t[i]
      OBVIOUS
    <3>1. m + i \in 1..(m + n) /\ a + (m + i) = b + i
      BY <1>5
    <3> QED BY <1>3, <1>4, <3>1
  <2>2. c = b + n /\ c <= L
    BY <1>4, <1>5
  <2> QED BY <1>1, <1>5, <2>1, <2>2 DEF Lies
<1> QED BY <1>6, <1>7

(* What lies there is the text of the span. *)
LEMMA LiesText ==
  ASSUME NEW url \in Seq(FragmentChars), NEW t \in Seq(FragmentChars), NEW a \in Nat, NEW b \in Nat, Lies(url, a, t, b)
  PROVE  a <= b /\ b - a = Len(t) /\ Span(a, b - a) \in SpanSet /\ Text(url, Span(a, b - a)) = t
<1>1. PICK n \in Nat, L \in Nat : n = Len(t) /\ L = Len(url) /\ b = a + n /\ b - a = n /\ b <= L
  BY DEF Lies
<1>2. SubSeq(url, a + 1, a + n) = [i \in 1..n |-> url[a + i]]
  BY <1>1
<1>3. [i \in 1..n |-> url[a + i]] = [i \in 1..n |-> t[i]]
  BY <1>1 DEF Lies
<1>4. t = [i \in 1..n |-> t[i]]
  BY <1>1
<1>5. Text(url, Span(a, b - a)) = SubSeq(url, a + 1, a + n)
  BY <1>1 DEF Text, Span
<1>6. Span(a, b - a) \in SpanSet
  BY <1>1 DEF Span, SpanSet
<1>7. Text(url, Span(a, b - a)) = t
  BY <1>2, <1>3, <1>4, <1>5, Zenon
<1> QED BY <1>1, <1>6, <1>7

PieceLies(url, parts, f, a, pre, post, b) ==
  /\ a \in Nat /\ b \in Nat
  /\ f \notin DOMAIN parts => b = a
  /\ f \in DOMAIN parts =>
       \E c, d \in Nat : Lies(url, a, pre, c) /\ Lies(url, c, parts[f], d) /\ Lies(url, d, post, b)

GivenPiece(parts, f, pre, post) == IF f \in DOMAIN parts THEN pre \o parts[f] \o post ELSE <<>>

LEMMA PiecePlaces ==
  ASSUME NEW url \in Seq(FragmentChars), NEW parts, NEW f,
         NEW pre \in Seq(FragmentChars), NEW post \in Seq(FragmentChars),
         f \in DOMAIN parts => parts[f] \in Seq(FragmentChars),
         NEW a \in Nat, NEW b \in Nat, Lies(url, a, GivenPiece(parts, f, pre, post), b)
  PROVE  PieceLies(url, parts, f, a, pre, post, b)
<1>1. CASE f \notin DOMAIN parts
  <2>1. Lies(url, a, <<>>, b) /\ Len(<<>>) = 0
    BY <1>1 DEF GivenPiece
  <2> QED BY <1>1, <2>1 DEF Lies, PieceLies
<1>2. CASE f \in DOMAIN parts
  <2>1. PICK t \in Seq(FragmentChars) : t = parts[f]
    BY <1>2
  <2>2. Lies(url, a, (pre \o t) \o post, b)
    BY <1>2, <2>1 DEF GivenPiece
  <2>3. pre \o t \in Seq(FragmentChars)
    OBVIOUS
  <2>4. PICK d \in Nat : Lies(url, a, pre \o t, d) /\ Lies(url, d, post, b)
    BY <2>2, <2>3, LiesCat
  <2>5. PICK c \in Nat : Lies(url, a, pre, c) /\ Lies(url, c, t, d)
    BY <2>4, LiesCat
  <2> QED BY <1>2, <2>1, <2>4, <2>5 DEF PieceLies
<1> QED BY <1>1, <1>2

LEMMA PieceType ==
  ASSUME NEW parts, NEW f, NEW pre \in Seq(FragmentChars), NEW post \in Seq(FragmentChars),
         f \in DOMAIN parts => parts[f] \in Seq(FragmentChars)
  PROVE  GivenPiece(parts, f, pre, post) \in Seq(FragmentChars)
<1>1. CASE f \notin DOMAIN parts
  BY <1>1 DEF GivenPiece
<1>2. CASE f \in DOMAIN parts
  <2>1. PICK t \in Seq(FragmentChars) : t = parts[f]
    BY <1>2
  <2>2. pre \o t \in Seq(FragmentChars)
    OBVIOUS
  <2>3. (pre \o t) \o post \in Seq(FragmentChars)
    BY <2>2
  <2> QED BY <1>2, <2>1, <2>3 DEF GivenPiece
<1> QED BY <1>1, <1>2

(* The parts' characters. *)
LEMMA CharsAreIn ==
  /\ Num \subseteq FragmentChars /\ Alpha \subseteq FragmentChars /\ Hex \subseteq FragmentChars
  /\ HostChars \subseteq FragmentChars /\ UserinfoChars \subseteq FragmentChars /\ UrlChars \subseteq FragmentChars
  /\ {":", "/", "@", "[", "]", "?", "#", "."} \subseteq FragmentChars
<1>1. Num \subseteq HostChars /\ Alpha \subseteq HostChars /\ "." \in HostChars
  BY DEF HostChars
<1>2. HostChars \subseteq UserinfoChars /\ ":" \in UserinfoChars
  BY DEF UserinfoChars
<1>3. UserinfoChars \subseteq UrlChars /\ {"/", "@", "[", "]"} \subseteq UrlChars
  BY DEF UrlChars
<1>4. UrlChars \subseteq FragmentChars /\ {"?", "#"} \subseteq FragmentChars
  BY DEF FragmentChars
<1>5. Hex \subseteq HostChars
  <2>1. {"a", "b"} \subseteq Alpha
    BY DEF Alpha
  <2> QED BY <1>1, <2>1 DEF Hex
<1> QED BY <1>1, <1>2, <1>3, <1>4, <1>5

LEMMA PartsDomain == ASSUME NEW parts PROVE DOMAIN PartChars(parts) = AllFields
BY DEF PartChars, AllFields

LEMMA PartIs ==
  ASSUME NEW parts, AreParts(parts), NEW f \in DOMAIN parts
  PROVE  /\ f \in AllFields /\ parts[f] \in Seq(FragmentChars) /\ parts[f] # <<>>
         /\ Len(parts[f]) \in Nat /\ Len(parts[f]) >= 1
         /\ \A i \in 1..Len(parts[f]) : parts[f][i] \in PartChars(parts)[f]
<1>1. f \in AllFields
  BY PartsDomain DEF AreParts
<1>2. PICK t \in Seq(FragmentChars) : t = parts[f] /\ t # <<>>
  <2>1. parts[f] \in Seq(FragmentChars) \ {<<>>}
    BY DEF AreParts
  <2> QED BY <2>1
<1>3. PICK C : C = PartChars(parts)[f]
  OBVIOUS
<1>4. t \in Seq(C)
  BY <1>2, <1>3 DEF AreParts
<1>5. Len(t) \in Nat /\ Len(t) >= 1 /\ \A i \in 1..Len(t) : t[i] \in C
  BY <1>2, <1>4
<1> QED BY <1>1, <1>2, <1>3, <1>5

(* An url as it is written. *)
Before(parts, f) ==
  CASE f = "host" /\ IsV6(parts) -> <<"[">> [] f = "port" -> <<":">> [] f = "query" -> <<"?">>
    [] f = "fragment" -> <<"#">> [] OTHER -> <<>>
Behind(parts, f) ==
  CASE f = "schema" -> <<":", "/", "/">> [] f = "userinfo" -> <<"@">>
    [] f = "host" /\ IsV6(parts) -> <<"]">> [] OTHER -> <<>>
Piece(parts, f) == GivenPiece(parts, f, Before(parts, f), Behind(parts, f))
FieldLies(url, parts, f, a, b) == PieceLies(url, parts, f, a, Before(parts, f), Behind(parts, f), b)

LEMMA Delimiters ==
  ASSUME NEW parts, NEW f PROVE Before(parts, f) \in Seq(FragmentChars) /\ Behind(parts, f) \in Seq(FragmentChars)
<1>1. /\ <<"[">> \in Seq(FragmentChars) /\ <<":">> \in Seq(FragmentChars) /\ <<"?">> \in Seq(FragmentChars)
      /\ <<"#">> \in Seq(FragmentChars) /\ <<":", "/", "/">> \in Seq(FragmentChars)
      /\ <<"@">> \in Seq(FragmentChars) /\ <<"]">> \in Seq(FragmentChars) /\ <<>> \in Seq(FragmentChars)
  BY CharsAreIn
<1> QED BY <1>1, Zenon DEF Before, Behind

LEMMA WrittenAs ==
  ASSUME NEW parts
  PROVE  WriteUrl(parts) = Piece(parts, "schema") \o Piece(parts, "userinfo") \o Piece(parts, "host")
                             \o Piece(parts, "port") \o Piece(parts, "path") \o Piece(parts, "query")
                             \o Piece(parts, "fragment")
<1>1. Piece(parts, "host") = IF IsV6(parts) THEN GivenPiece(parts, "host", <<"[">>, <<"]">>)
                             ELSE GivenPiece(parts, "host", <<>>, <<>>)
  BY DEF Piece, Before, Behind
<1>2. /\ Piece(parts, "schema") = GivenPiece(parts, "schema", <<>>, <<":", "/", "/">>)
      /\ Piece(parts, "userinfo") = GivenPiece(parts, "userinfo", <<>>, <<"@">>)
      /\ Piece(parts, "port") = GivenPiece(parts, "port", <<":">>, <<>>)
      /\ Piece(parts, "path") = GivenPiece(parts, "path", <<>>, <<>>)
      /\ Piece(parts, "query") = GivenPiece(parts, "query", <<"?">>, <<>>)
      /\ Piece(parts, "fragment") = GivenPiece(parts, "fragment", <<"#">>, <<>>)
  BY DEF Piece, Before, Behind
<1> QED BY <1>1, <1>2, Zenon DEF WriteUrl, GivenPiece

Written(url, parts, p2, p3, p4, p5, p6, p7) ==
  /\ FieldLies(url, parts, "schema", 0, p2) /\ FieldLies(url, parts, "userinfo", p2, p3)
  /\ FieldLies(url, parts, "host", p3, p4) /\ FieldLies(url, parts, "port", p4, p5)
  /\ FieldLies(url, parts, "path", p5, p6) /\ FieldLies(url, parts, "query", p6, p7)
  /\ FieldLies(url, parts, "fragment", p7, Len(url))

LEMMA JoinedParts ==
  ASSUME NEW s \in Seq(FragmentChars), NEW t \in Seq(FragmentChars) PROVE s \o t \in Seq(FragmentChars)
OBVIOUS

LEMMA WrittenPlaces ==
  ASSUME NEW parts, AreParts(parts), NEW url, url = WriteUrl(parts)
  PROVE  /\ url \in Seq(FragmentChars)
         /\ \E p2, p3, p4, p5, p6, p7 \in Nat : Written(url, parts, p2, p3, p4, p5, p6, p7)
<1>1. ASSUME NEW f PROVE Piece(parts, f) \in Seq(FragmentChars)
  BY PartIs, Delimiters, PieceType DEF Piece
<1>2. PICK s1 \in Seq(FragmentChars), s2 \in Seq(FragmentChars), s3 \in Seq(FragmentChars),
           s4 \in Seq(FragmentChars), s5 \in Seq(FragmentChars),
           s6 \in Seq(FragmentChars), s7 \in Seq(FragmentChars) :
        /\ s1 = Piece(parts, "schema") /\ s2 = Piece(parts, "userinfo") /\ s3 = Piece(parts, "host")
        /\ s4 = Piece(parts, "port") /\ s5 = Piece(parts, "path") /\ s6 = Piece(parts, "query")
        /\ s7 = Piece(parts, "fragment")
  BY <1>1
<1>3. PICK t2 \in Seq(FragmentChars), t3 \in Seq(FragmentChars), t4 \in Seq(FragmentChars),
           t5 \in Seq(FragmentChars), t6 \in Seq(FragmentChars) :
        t2 = s1 \o s2 /\ t3 = t2 \o s3 /\ t4 = t3 \o s4 /\ t5 = t4 \o s5 /\ t6 = t5 \o s6
  <2>1. PICK t2 \in Seq(FragmentChars) : t2 = s1 \o s2
    BY JoinedParts
  <2>2. PICK t3 \in Seq(FragmentChars) : t3 = t2 \o s3
    BY JoinedParts
  <2>3. PICK t4 \in Seq(FragmentChars) : t4 = t3 \o s4
    BY JoinedParts
  <2>4. PICK t5 \in Seq(FragmentChars) : t5 = t4 \o s5
    BY JoinedParts
  <2>5. PICK t6 \in Seq(FragmentChars) : t6 = t5 \o s6
    BY JoinedParts
  <2> QED BY <2>1, <2>2, <2>3, <2>4, <2>5
<1>4. url = t6 \o s7
  BY <1>2, <1>3, WrittenAs
<1>5. url \in Seq(FragmentChars)
  BY <1>4
<1>6. Lies(url, 0, t6 \o s7, Len(url))
  <2>1. Len(url) \in Nat /\ Len(url) = 0 + Len(url) /\ \A i \in 1..Len(url) : url[0 + i] = url[i]
    BY <1>5
  <2>2. Lies(url, 0, url, Len(url))
    BY <2>1 DEF Lies
  <2> QED BY <1>4, <2>2
<1>7. PICK L \in Nat : L = Len(url)
  BY <1>5
<1>8. PICK p7 \in Nat : Lies(url, 0, t6, p7) /\ Lies(url, p7, s7, L)
  BY <1>5, <1>6, <1>7, LiesCat
<1>9. PICK p6 \in Nat : Lies(url, 0, t5, p6) /\ Lies(url, p6, s6, p7)
  BY <1>3, <1>5, <1>8, LiesCat
<1>10. PICK p5 \in Nat : Lies(url, 0, t4, p5) /\ Lies(url, p5, s5, p6)
  BY <1>3, <1>5, <1>9, LiesCat
<1>11. PICK p4 \in Nat : Lies(url, 0, t3, p4) /\ Lies(url, p4, s4, p5)
  BY <1>3, <1>5, <1>10, LiesCat
<1>12. PICK p3 \in Nat : Lies(url, 0, t2, p3) /\ Lies(url, p3, s3, p4)
  BY <1>3, <1>5, <1>11, LiesCat
<1>13. PICK p2 \in Nat : Lies(url, 0, s1, p2) /\ Lies(url, p2, s2, p3)
  BY <1>3, <1>5, <1>12, LiesCat
<1>14. ASSUME NEW f, NEW a \in Nat, NEW b \in Nat, Lies(url, a, Piece(parts, f), b)
       PROVE  FieldLies(url, parts, f, a, b)
  <2>1. f \in DOMAIN parts => parts[f] \in Seq(FragmentChars)
    BY PartIs
  <2>2. Before(parts, f) \in Seq(FragmentChars) /\ Behind(parts, f) \in Seq(FragmentChars)
    BY Delimiters
  <2> QED BY <1>5, <1>14, <2>1, <2>2, PiecePlaces DEF Piece, FieldLies
<1>15. Written(url, parts, p2, p3, p4, p5, p6, p7)
  BY <1>2, <1>7, <1>8, <1>9, <1>10, <1>11, <1>12, <1>13, <1>14 DEF Written
<1> QED BY <1>5, <1>15

ServerChars == UserinfoChars \cup {"[", "]"}

(* From state s the character ch leads to state "to": its arrow is the     *)
(* only one with that character.                                           *)
Leads(arrows, s, ch, chars, to) ==
  ch \in chars /\ <<chars, to>> \in arrows[s] /\ \A b \in arrows[s] : ch \in b[1] => b = <<chars, to>>

LEMMA FollowedTo ==
  ASSUME NEW arrows, NEW s, NEW ch, NEW chars, NEW to, Leads(arrows, s, ch, chars, to)
  PROVE  Follow(arrows, s, ch) = to
<1>1. PICK a \in arrows[s] : a = <<chars, to>>
  BY DEF Leads
<1>2. a[1] = chars /\ a[2] = to
  BY <1>1
<1>3. Follow(arrows, s, ch) = a[2]
  BY <1>1, <1>2, Followed DEF Leads
<1> QED BY <1>2, <1>3

(* Where the characters of a well-formed url lead. *)
LEMMA StartChars ==
  ASSUME NEW ch
  PROVE  /\ ch \in Alpha => UrlChar("start", ch) = "schema" /\ UrlChar("schema", ch) = "schema"
         /\ ch \in {"/", "*"} => UrlChar("start", ch) = "path"
<1>1. ASSUME ch \in Alpha PROVE UrlChar("start", ch) = "schema"
  <2>1. Leads(UrlArrows, "start", ch, Alpha, "schema")
    BY <1>1 DEF Leads, UrlArrows, Alpha
  <2> QED BY <2>1, FollowedTo DEF UrlChar
<1>2. ASSUME ch \in Alpha PROVE UrlChar("schema", ch) = "schema"
  <2>1. Leads(UrlArrows, "schema", ch, Alpha, "schema")
    BY <1>2 DEF Leads, UrlArrows, Alpha
  <2> QED BY <2>1, FollowedTo DEF UrlChar
<1>3. ASSUME ch \in {"/", "*"} PROVE UrlChar("start", ch) = "path"
  <2>1. Leads(UrlArrows, "start", ch, {"/", "*"}, "path")
    BY <1>3 DEF Leads, UrlArrows, Alpha
  <2> QED BY <2>1, FollowedTo DEF UrlChar
<1> QED BY <1>1, <1>2, <1>3

LEMMA SchemaDelimiters ==
  /\ UrlChar("schema", ":") = "schema_slash" /\ UrlChar("schema_slash", "/") = "schema_slash_slash"
  /\ UrlChar("schema_slash_slash", "/") = "server_start"
<1>1. Leads(UrlArrows, "schema", ":", {":"}, "schema_slash")
  BY DEF Leads, UrlArrows, Alpha
<1>2. Leads(UrlArrows, "schema_slash", "/", {"/"}, "schema_slash_slash")
  BY DEF Leads, UrlArrows
<1>3. Leads(UrlArrows, "schema_slash_slash", "/", {"/"}, "server_start")
  BY DEF Leads, UrlArrows
<1> QED BY <1>1, <1>2, <1>3, FollowedTo DEF UrlChar

LEMMA InServerChars == \A c \in ServerChars : c \notin {"/", "?", "@"}
BY DEF ServerChars, UserinfoChars, HostChars, Num, Alpha, Digit

LEMMA ServerLeads ==
  ASSUME NEW s \in {"server_start", "server", "server_with_at"}, NEW ch
  PROVE  /\ ch \in ServerChars => UrlChar(s, ch) = "server"
         /\ ch = "/" => UrlChar(s, ch) = "path"
         /\ ch = "?" => UrlChar(s, ch) = "query_start"
         /\ ch = "@" /\ s # "server_with_at" => UrlChar(s, ch) = "server_with_at"
<1>1. UrlArrows[s] = IF s = "server_with_at" THEN {a \in ServerArrows : a[1] # {"@"}} ELSE ServerArrows
  <2>1. /\ UrlArrows["server_start"] = ServerArrows /\ UrlArrows["server"] = ServerArrows
        /\ UrlArrows["server_with_at"] = {a \in ServerArrows : a[1] # {"@"}}
    BY DEF UrlArrows
  <2> QED BY <2>1
<1>2. ServerArrows = {<<{"/"}, "path">>, <<{"?"}, "query_start">>, <<{"@"}, "server_with_at">>,
                      <<ServerChars, "server">>}
  BY DEF ServerArrows, ServerChars
<1>3. \A b \in UrlArrows[s] : b \in ServerArrows
  BY <1>1
<1>4. \A b \in ServerArrows : b[1] # {"@"} \/ s # "server_with_at" => b \in UrlArrows[s]
  BY <1>1
<1>5. ServerChars # {"@"} /\ {"/"} # {"@"} /\ {"?"} # {"@"}
  BY InServerChars
<1>6. ASSUME ch \in ServerChars PROVE Leads(UrlArrows, s, ch, ServerChars, "server")
  BY <1>2, <1>3, <1>4, <1>5, <1>6, InServerChars DEF Leads
<1>7. ASSUME ch = "/" PROVE Leads(UrlArrows, s, ch, {"/"}, "path")
  BY <1>2, <1>3, <1>4, <1>5, <1>7, InServerChars DEF Leads
<1>8. ASSUME ch = "?" PROVE Leads(UrlArrows, s, ch, {"?"}, "query_start")
  BY <1>2, <1>3, <1>4, <1>5, <1>8, InServerChars DEF Leads
<1>9. ASSUME ch = "@", s # "server_with_at" PROVE Leads(UrlArrows, s, ch, {"@"}, "server_with_at")
  BY <1>2, <1>3, <1>4, <1>9, InServerChars DEF Leads
<1> QED BY <1>6, <1>7, <1>8, <1>9, FollowedTo DEF UrlChar

LEMMA InUrlChars == "?" \notin UrlChars /\ "#" \notin UrlChars
BY DEF UrlChars, UserinfoChars, HostChars, Num, Alpha, Digit

LEMMA PathLeads ==
  ASSUME NEW ch
  PROVE  /\ ch \in UrlChars => UrlChar("path", ch) = "path"
         /\ ch = "?" => UrlChar("path", ch) = "query_start"
         /\ ch = "#" => UrlChar("path", ch) = "fragment_start"
<1>1. UrlArrows["path"] = {<<UrlChars, "path">>, <<{"?"}, "query_start">>, <<{"#"}, "fragment_start">>}
  BY DEF UrlArrows
<1>2. ASSUME ch \in UrlChars PROVE Leads(UrlArrows, "path", ch, UrlChars, "path")
  BY <1>1, <1>2, InUrlChars DEF Leads
<1>3. ASSUME ch = "?" PROVE Leads(UrlArrows, "path", ch, {"?"}, "query_start")
  BY <1>1, <1>3, InUrlChars DEF Leads
<1>4. ASSUME ch = "#" PROVE Leads(UrlArrows, "path", ch, {"#"}, "fragment_start")
  BY <1>1, <1>4, InUrlChars DEF Leads
<1> QED BY <1>2, <1>3, <1>4, FollowedTo DEF UrlChar

LEMMA QueryLeads ==
  ASSUME NEW s \in {"query_start", "query"}, NEW ch
  PROVE  /\ ch \in UrlChars \cup {"?"} => UrlChar(s, ch) = "query"
         /\ ch = "#" => UrlChar(s, ch) = "fragment_start"
<1>1. UrlArrows[s] = {<<UrlChars \cup {"?"}, "query">>, <<{"#"}, "fragment_start">>}
  BY DEF UrlArrows, QueryArrows
<1>2. ASSUME ch \in UrlChars \cup {"?"} PROVE Leads(UrlArrows, s, ch, UrlChars \cup {"?"}, "query")
  BY <1>1, <1>2, InUrlChars DEF Leads
<1>3. ASSUME ch = "#" PROVE Leads(UrlArrows, s, ch, {"#"}, "fragment_start")
  BY <1>1, <1>3, InUrlChars DEF Leads
<1> QED BY <1>2, <1>3, FollowedTo DEF UrlChar

LEMMA FragmentLeads ==
  ASSUME NEW ch \in FragmentChars
  PROVE  /\ ch # "#" => UrlChar("fragment_start", ch) = "fragment"
         /\ UrlChar("fragment", ch) = "fragment"
<1>1. UrlArrows["fragment_start"] = {<<UrlChars \cup {"?"}, "fragment">>, <<{"#"}, "fragment_start">>}
      /\ UrlArrows["fragment"] = {<<FragmentChars, "fragment">>}
  BY DEF UrlArrows
<1>2. ASSUME ch # "#" PROVE Leads(UrlArrows, "fragment_start", ch, UrlChars \cup {"?"}, "fragment")
  <2>1. ch \in UrlChars \cup {"?"}
    BY <1>2 DEF FragmentChars
  <2> QED BY <1>1, <1>2, <2>1 DEF Leads
<1>3. Leads(UrlArrows, "fragment", ch, FragmentChars, "fragment")
  BY <1>1 DEF Leads
<1> QED BY <1>2, <1>3, FollowedTo DEF UrlChar

(* All the characters between the places a and b are in S. *)
CharsIn(url, a, b, S) == a \in Nat /\ b \in Nat /\ a <= b /\ \A i \in (a + 1)..b : url[i] \in S

LEMMA LiesChars ==
  ASSUME NEW url, NEW t \in Seq(FragmentChars), NEW a, NEW b, Lies(url, a, t, b), NEW S, \A i \in 1..Len(t) : t[i] \in S
  PROVE  CharsIn(url, a, b, S)
<1>1. PICK n \in Nat : n = Len(t)
  OBVIOUS
<1>2. a \in Nat /\ b \in Nat /\ b = a + n /\ \A i \in 1..n : url[a + i] = t[i] /\ t[i] \in S
  BY <1>1 DEF Lies
<1>3. ASSUME NEW i \in (a + 1)..b PROVE url[i] \in S
  <2>1. PICK j \in 1..n : i = a + j
    <3>1. i - a \in 1..n /\ i = a + (i - a)
      BY <1>2
    <3> QED BY <3>1
  <2> QED BY <1>2, <2>1
<1> QED BY <1>2, <1>3 DEF CharsIn

LEMMA CharsCat ==
  ASSUME NEW url, NEW a, NEW b, NEW c, NEW S, CharsIn(url, a, b, S), CharsIn(url, b, c, S)
  PROVE  CharsIn(url, a, c, S)
<1>1. ASSUME NEW i \in (a + 1)..c PROVE url[i] \in S
  BY DEF CharsIn
<1> QED BY <1>1 DEF CharsIn

(* The host and the port of a server are characters of state "server".     *)
LEMMA ServerCharsIn ==
  /\ HostChars \subseteq ServerChars /\ Num \subseteq ServerChars /\ UserinfoChars \subseteq ServerChars
  /\ Hex \cup {":", "."} \subseteq ServerChars /\ {":", "[", "]"} \subseteq ServerChars
<1>1. Num \subseteq HostChars /\ Alpha \subseteq HostChars /\ "." \in HostChars
  BY DEF HostChars
<1>2. HostChars \subseteq UserinfoChars /\ ":" \in UserinfoChars
  BY DEF UserinfoChars
<1>3. Hex \subseteq HostChars
  <2>1. {"a", "b"} \subseteq Alpha
    BY DEF Alpha
  <2> QED BY <1>1, <2>1 DEF Hex
<1> QED BY <1>1, <1>2, <1>3 DEF ServerChars

LEMMA OneChar ==
  ASSUME NEW c \in FragmentChars, NEW S, c \in S
  PROVE  <<c>> \in Seq(FragmentChars) /\ \A i \in 1..Len(<<c>>) : <<c>>[i] \in S
OBVIOUS

LEMMA NoChar == ASSUME NEW S PROVE <<>> \in Seq(FragmentChars) /\ \A i \in 1..Len(<<>>) : <<>>[i] \in S
OBVIOUS

LEMMA HostIsServer ==
  ASSUME NEW url, NEW parts, AreParts(parts), "host" \in DOMAIN parts, NEW a, NEW b, NEW c,
         FieldLies(url, parts, "host", a, b), FieldLies(url, parts, "port", b, c)
  PROVE  a < c /\ CharsIn(url, a, c, ServerChars)
<1>1. PICK d \in Nat, e \in Nat :
        /\ a \in Nat /\ b \in Nat /\ Lies(url, a, Before(parts, "host"), d)
        /\ Lies(url, d, parts["host"], e) /\ Lies(url, e, Behind(parts, "host"), b)
  BY DEF FieldLies, PieceLies
<1>2. PICK t \in Seq(FragmentChars) : /\ t = parts["host"] /\ Len(t) >= 1
                                      /\ \A i \in 1..Len(t) : t[i] \in PartChars(parts)["host"]
  BY PartIs
<1>3. PartChars(parts)["host"] \subseteq ServerChars
  BY ServerCharsIn DEF PartChars
<1>4. CharsIn(url, d, e, ServerChars) /\ d < e
  <2>1. Lies(url, d, t, e) /\ \A i \in 1..Len(t) : t[i] \in ServerChars
    BY <1>1, <1>2, <1>3
  <2>2. CharsIn(url, d, e, ServerChars)
    BY <2>1, LiesChars
  <2> QED BY <1>2, <2>1, <2>2 DEF Lies
<1>5. CharsIn(url, a, d, ServerChars) /\ CharsIn(url, e, b, ServerChars)
  <2>1. CASE IsV6(parts)
    <3>1. Lies(url, a, <<"[">>, d) /\ Lies(url, e, <<"]">>, b)
      BY <1>1, <2>1 DEF Before, Behind
    <3>2. "[" \in FragmentChars /\ "]" \in FragmentChars /\ "[" \in ServerChars /\ "]" \in ServerChars
      BY CharsAreIn, ServerCharsIn
    <3> QED BY <3>1, <3>2, OneChar, LiesChars
  <2>2. CASE ~IsV6(parts)
    <3>1. Lies(url, a, <<>>, d) /\ Lies(url, e, <<>>, b)
      BY <1>1, <2>2 DEF Before, Behind
    <3> QED BY <3>1, NoChar, LiesChars
  <2> QED BY <2>1, <2>2
<1>6. CharsIn(url, a, b, ServerChars) /\ a < b
  <2>1. CharsIn(url, a, e, ServerChars)
    BY <1>4, <1>5, CharsCat
  <2>2. CharsIn(url, a, b, ServerChars)
    BY <1>5, <2>1, CharsCat
  <2> QED BY <1>4, <1>5, <2>2 DEF CharsIn
<1>7. CharsIn(url, b, c, ServerChars)
  <2>1. CASE "port" \notin DOMAIN parts
    BY <2>1 DEF FieldLies, PieceLies, CharsIn
  <2>2. CASE "port" \in DOMAIN parts
    <3>1. PICK x \in Nat, y \in Nat :
            /\ Lies(url, b, Before(parts, "port"), x)
            /\ Lies(url, x, parts["port"], y) /\ Lies(url, y, Behind(parts, "port"), c)
      BY <2>2 DEF FieldLies, PieceLies
    <3>2. PICK p \in Seq(FragmentChars) : /\ p = parts["port"]
                                          /\ \A i \in 1..Len(p) : p[i] \in PartChars(parts)["port"]
      BY <2>2, PartIs
    <3>3. PartChars(parts)["port"] \subseteq ServerChars
      BY ServerCharsIn DEF PartChars
    <3>4. CharsIn(url, x, y, ServerChars)
      <4>1. Lies(url, x, p, y) /\ \A i \in 1..Len(p) : p[i] \in ServerChars
        BY <3>1, <3>2, <3>3
      <4> QED BY <4>1, LiesChars
    <3>5. Before(parts, "port") = <<":">> /\ Behind(parts, "port") = <<>>
      BY DEF Before, Behind
    <3>6. ":" \in FragmentChars /\ ":" \in ServerChars
      BY CharsAreIn, ServerCharsIn
    <3>7. CharsIn(url, b, x, ServerChars)
      BY <3>1, <3>5, <3>6, OneChar, LiesChars
    <3>8. CharsIn(url, y, c, ServerChars)
      BY <3>1, <3>5, NoChar, LiesChars
    <3> QED BY <3>4, <3>7, <3>8, CharsCat
  <2> QED BY <2>1, <2>2
<1>8. CharsIn(url, a, c, ServerChars)
  BY <1>6, <1>7, CharsCat
<1> QED BY <1>6, <1>7, <1>8 DEF CharsIn

(* What the scan of a well-formed url knows at a place in it: the fields D *)
(* are found.                                                              *)
ScanAt(url, u, parts, D, s, found, host) ==
  /\ u \in UrlScanSet /\ u.s = s /\ u.found_at = found
  /\ DOMAIN u.fields = D /\ u.old_uf \in D \cup {"none"}
  /\ \A f \in D : IF f = "host" THEN u.fields[f] = host ELSE Text(url, u.fields[f]) = parts[f]

(* The n characters after place a lead into state st, and stay there.      *)
Enters(url, s, a, n, st) == UrlChar(s, url[a + 1]) = st /\ \A i \in 2..n : UrlChar(st, url[a + i]) = st

LEMMA UrlRunsTo ==
  ASSUME NEW url, NEW U, IsUrlScan(url, U), NEW a \in Nat, NEW n \in Nat, n >= 1, NEW b \in Nat, b <= a,
         NEW st \in DOMAIN FieldOfState, U[a].s # "dead", Begins(U[a], FieldOfState[st], a, b),
         Enters(url, U[a].s, a, n, st), NEW c, c = a + n, NEW m, m = c - b
  PROVE  UrlRan(U[a], U[c], st, b, m)
<1>1. b \in 0..a
  OBVIOUS
<1>2. UrlRan(U[a], U[a + n], st, b, a + n - b)
  BY <1>1, UrlRuns, Zenon DEF Enters
<1> QED BY <1>2

(* The characters of t lead from state s into state st, and stay there. *)
Fills(t, s, st) == UrlChar(s, t[1]) = st /\ \A i \in 2..Len(t) : UrlChar(st, t[i]) = st

LEMMA ReadField ==
  ASSUME NEW url \in Seq(FragmentChars), NEW U, IsUrlScan(url, U), NEW parts, NEW D, NEW s, NEW found, NEW host,
         NEW a, NEW b, NEW t \in Seq(FragmentChars), Lies(url, a, t, b), Len(t) >= 1,
         ScanAt(url, U[a], parts, D, s, found, host), s # "dead",
         NEW st \in DOMAIN FieldOfState \ {"server", "server_with_at"},
         NEW f, f = FieldOfState[st], f \notin D, parts[f] = t, Fills(t, s, st), NEW E, E = D \cup {f}
  PROVE  ScanAt(url, U[b], parts, E, st, found, host)
<1>1. f \in AllFields /\ f = FieldOfState[st] /\ f # "host" /\ f # "none"
  BY DEF FieldOfState, AllFields
<1>2. PICK n \in Nat : n = Len(t) /\ n >= 1
  OBVIOUS
<1>3. a \in Nat /\ b \in Nat /\ b = a + n /\ \A i \in 1..n : url[a + i] = t[i]
  BY <1>2 DEF Lies
<1>4. PICK u \in UrlScanSet, v \in UrlScanSet : u = U[a] /\ v = U[b] /\ u.s = s
  BY <1>3 DEF IsUrlScan, ScanAt
<1>5. Begins(u, f, a, a)
  BY <1>1, <1>4 DEF Begins, ScanAt
<1>6. UrlChar(u.s, url[a + 1]) = st /\ \A i \in 2..n : UrlChar(st, url[a + i]) = st
  BY <1>2, <1>3, <1>4 DEF Fills
<1>7. UrlRan(u, v, st, a, b - a)
  <2>1. PICK m : m = b - a
    OBVIOUS
  <2>2. UrlRan(U[a], U[b], st, a, m)
    <3>1. Begins(U[a], FieldOfState[st], a, a) /\ U[a].s # "dead" /\ st \in DOMAIN FieldOfState
      BY <1>1, <1>4, <1>5
    <3>2. Enters(url, U[a].s, a, n, st)
      BY <1>4, <1>6 DEF Enters
    <3>3. a <= a
      BY <1>3
    <3> QED BY <1>2, <1>3, <2>1, <3>1, <3>2, <3>3, UrlRunsTo
  <2> QED BY <1>4, <2>1, <2>2
<1>8. Text(url, Span(a, b - a)) = t
  BY <1>3, LiesText
<1>9. v.s = st /\ v.old_uf = f /\ v.found_at = found
  <2>1. u.found_at = found /\ found \in BOOLEAN /\ st # "server_with_at"
    BY <1>4 DEF ScanAt, UrlScanSet
  <2> QED BY <1>1, <1>7, <2>1 DEF UrlRan
<1>10. IsSet(v.fields, u.fields, f, Span(a, b - a)) /\ DOMAIN u.fields = D
  BY <1>1, <1>4, <1>7 DEF UrlRan, ScanAt
<1>11. DOMAIN v.fields = D \cup {f}
  BY <1>10 DEF IsSet
<1>12. ASSUME NEW g \in D \cup {f}
       PROVE  IF g = "host" THEN v.fields[g] = host ELSE Text(url, v.fields[g]) = parts[g]
  <2>1. CASE g = f
    BY <1>1, <1>8, <1>10, <2>1 DEF IsSet
  <2>2. CASE g # f
    <3>1. g \in D /\ v.fields[g] = u.fields[g]
      BY <1>10, <2>2 DEF IsSet
    <3> QED BY <1>4, <3>1 DEF ScanAt
  <2> QED BY <2>1, <2>2
<1> QED BY <1>1, <1>4, <1>9, <1>11, <1>12 DEF ScanAt

LEMMA ReadDelimiter ==
  ASSUME NEW url \in Seq(FragmentChars), NEW U, IsUrlScan(url, U), NEW parts, NEW D, NEW s, NEW found, NEW host,
         NEW a, NEW b, NEW c, Lies(url, a, <<c>>, b), ScanAt(url, U[a], parts, D, s, found, host),
         NEW st, UrlChar(s, c) = st, st \notin DOMAIN FieldOfState
  PROVE  ScanAt(url, U[b], parts, D, st, found, host)
<1>1. a \in Nat /\ b \in Nat /\ b = a + 1 /\ url[a + 1] = c
  BY DEF Lies
<1>2. PICK u \in UrlScanSet, v \in UrlScanSet : u = U[a] /\ v = U[b] /\ u.s = s
  <2>1. U[a] \in UrlScanSet /\ U[b] \in UrlScanSet
    BY <1>1 DEF IsUrlScan
  <2>2. U[a].s = s
    BY DEF ScanAt
  <2> QED BY <2>1, <2>2
<1>3. v.s = st /\ v.old_uf = u.old_uf /\ v.found_at = u.found_at /\ v.fields = u.fields
  <2>1. st = UrlChar(U[a].s, url[a + 1]) /\ U[a + 1] = v
    BY <1>1, <1>2
  <2> QED BY <1>1, <1>2, <2>1, UrlSkips
<1> QED BY <1>2, <1>3 DEF ScanAt

(* A part that is given, with what is written before and behind it.        *)
Opens(url, parts, f, a, b, c, d, t) ==
  /\ t = parts[f] /\ Len(t) >= 1 /\ \A i \in 1..Len(t) : t[i] \in PartChars(parts)[f]
  /\ Lies(url, a, Before(parts, f), c) /\ Lies(url, c, t, d) /\ Lies(url, d, Behind(parts, f), b)

LEMMA Opened ==
  ASSUME NEW url, NEW parts, AreParts(parts), NEW f \in DOMAIN parts, NEW a, NEW b, FieldLies(url, parts, f, a, b)
  PROVE  \E c \in Nat, d \in Nat, t \in Seq(FragmentChars) : Opens(url, parts, f, a, b, c, d, t)
<1>1. PICK c \in Nat, d \in Nat :
        Lies(url, a, Before(parts, f), c) /\ Lies(url, c, parts[f], d) /\ Lies(url, d, Behind(parts, f), b)
  BY DEF FieldLies, PieceLies
<1>2. PICK t \in Seq(FragmentChars) : /\ t = parts[f] /\ Len(t) >= 1
                                      /\ \A i \in 1..Len(t) : t[i] \in PartChars(parts)[f]
  BY PartIs
<1>3. Opens(url, parts, f, a, b, c, d, t)
  BY <1>1, <1>2 DEF Opens
<1> QED BY <1>3

LEMMA NotGiven ==
  ASSUME NEW url, NEW parts, NEW f, f \notin DOMAIN parts, NEW a, NEW b, FieldLies(url, parts, f, a, b)
  PROVE  a = b
BY DEF FieldLies, PieceLies

LEMMA LiesNothing == ASSUME NEW url, NEW a, NEW b, Lies(url, a, <<>>, b) PROVE a = b
BY DEF Lies

LEMMA SchemaBehind ==
  ASSUME NEW url, NEW a, NEW b, Lies(url, a, <<":", "/", "/">>, b)
  PROVE  \E c, d \in Nat : Lies(url, a, <<":">>, c) /\ Lies(url, c, <<"/">>, d) /\ Lies(url, d, <<"/">>, b)
<1>1. /\ a \in Nat /\ b \in Nat /\ b = a + 3 /\ b <= Len(url)
      /\ url[a + 1] = ":" /\ url[a + 2] = "/" /\ url[a + 3] = "/"
  BY DEF Lies
<1>2. PICK c \in Nat, d \in Nat : c = a + 1 /\ d = a + 2 /\ b = d + 1 /\ d = c + 1
  <2>1. a + 1 \in Nat /\ a + 2 \in Nat /\ b = a + 2 + 1 /\ a + 2 = a + 1 + 1
    BY <1>1
  <2> QED BY <2>1
<1>3. Lies(url, a, <<":">>, c)
  <2>1. c <= Len(url)
    BY <1>1, <1>2, SMT
  <2> QED BY <1>1, <1>2, <2>1 DEF Lies
<1>4. Lies(url, c, <<"/">>, d)
  <2>1. d <= Len(url) /\ url[c + 1] = "/"
    BY <1>1, <1>2
  <2> QED BY <1>1, <1>2, <2>1 DEF Lies
<1>5. Lies(url, d, <<"/">>, b)
  <2>1. url[d + 1] = "/"
    BY <1>1, <1>2
  <2> QED BY <1>1, <1>2, <2>1 DEF Lies
<1> QED BY <1>3, <1>4, <1>5

(* The state that the scan is in when a part is read. *)
AfterSchema(parts) == IF "schema" \in DOMAIN parts THEN "server_start" ELSE "start"
AfterHost(parts) == IF "host" \in DOMAIN parts THEN "server" ELSE "start"
AfterPath(parts) == IF "path" \in DOMAIN parts THEN "path" ELSE AfterHost(parts)
AfterQuery(parts) == IF "query" \in DOMAIN parts THEN "query" ELSE AfterPath(parts)
AfterFragment(parts) == IF "fragment" \in DOMAIN parts THEN "fragment" ELSE AfterQuery(parts)

LEMMA SchemaRead ==
  ASSUME NEW url \in Seq(FragmentChars), NEW U, IsUrlScan(url, U), NEW parts, AreParts(parts), NEW host,
         NEW a, FieldLies(url, parts, "schema", 0, a)
  PROVE  ScanAt(url, U[a], parts, {"schema"} \cap DOMAIN parts, AfterSchema(parts), FALSE, host)
<1>1. ScanAt(url, U[0], parts, {}, "start", FALSE, host)
  <2>1. U[0] = NewScan /\ NewScan \in UrlScanSet /\ DOMAIN NewScan.fields = {}
    BY NewScanType DEF IsUrlScan
  <2>2. NewScan.s = "start" /\ NewScan.found_at = FALSE /\ NewScan.old_uf = "none"
    BY DEF NewScan
  <2> QED BY <2>1, <2>2 DEF ScanAt
<1>2. CASE "schema" \notin DOMAIN parts
  <2>1. a = 0 /\ {"schema"} \cap DOMAIN parts = {} /\ AfterSchema(parts) = "start"
    BY <1>2, NotGiven DEF AfterSchema
  <2> QED BY <1>1, <2>1
<1>3. CASE "schema" \in DOMAIN parts
  <2>1. PICK c \in Nat, d \in Nat, t \in Seq(FragmentChars) : Opens(url, parts, "schema", 0, a, c, d, t)
    BY <1>3, Opened
  <2>2. Before(parts, "schema") = <<>> /\ Behind(parts, "schema") = <<":", "/", "/">>
    BY DEF Before, Behind
  <2>3. /\ Lies(url, 0, t, d) /\ Lies(url, d, <<":", "/", "/">>, a) /\ t = parts["schema"] /\ Len(t) >= 1
    <3>1. c = 0
      BY <2>1, <2>2, LiesNothing DEF Opens
    <3> QED BY <2>1, <2>2, <3>1 DEF Opens
  <2>4. \A i \in 1..Len(t) : t[i] \in Alpha
    BY <2>1 DEF Opens, PartChars
  <2>5. /\ "schema" \in DOMAIN FieldOfState \ {"server", "server_with_at"} /\ FieldOfState["schema"] = "schema"
        /\ {"schema_slash", "schema_slash_slash", "server_start"} \cap DOMAIN FieldOfState = {}
    BY DEF FieldOfState
  <2>6. Fills(t, "start", "schema")
    BY <2>3, <2>4, StartChars DEF Fills
  <2>7. PICK D : D = {} \cup {"schema"} /\ D = {"schema"} \cap DOMAIN parts
    BY <1>3
  <2>8. ScanAt(url, U[d], parts, D, "schema", FALSE, host)
    BY <1>1, <2>3, <2>5, <2>6, <2>7, ReadField
  <2>9. PICK x \in Nat, y \in Nat : Lies(url, d, <<":">>, x) /\ Lies(url, x, <<"/">>, y) /\ Lies(url, y, <<"/">>, a)
    BY <2>3, SchemaBehind
  <2>10. ScanAt(url, U[x], parts, D, "schema_slash", FALSE, host)
    BY <2>5, <2>8, <2>9, SchemaDelimiters, ReadDelimiter
  <2>11. ScanAt(url, U[y], parts, D, "schema_slash_slash", FALSE, host)
    BY <2>5, <2>9, <2>10, SchemaDelimiters, ReadDelimiter
  <2>12. ScanAt(url, U[a], parts, D, "server_start", FALSE, host)
    BY <2>5, <2>9, <2>11, SchemaDelimiters, ReadDelimiter
  <2> QED BY <1>3, <2>7, <2>12 DEF AfterSchema
<1> QED BY <1>2, <1>3

LEMMA PathRead ==
  ASSUME NEW url \in Seq(FragmentChars), NEW U, IsUrlScan(url, U), NEW parts, AreParts(parts), NEW host, NEW found,
         NEW D, "path" \notin D, NEW a, NEW b, FieldLies(url, parts, "path", a, b),
         ScanAt(url, U[a], parts, D, AfterHost(parts), found, host)
  PROVE  ScanAt(url, U[b], parts, D \cup ({"path"} \cap DOMAIN parts), AfterPath(parts), found, host)
<1>1. CASE "path" \notin DOMAIN parts
  <2>1. a = b /\ D \cup ({"path"} \cap DOMAIN parts) = D /\ AfterPath(parts) = AfterHost(parts)
    BY <1>1, NotGiven DEF AfterPath
  <2> QED BY <2>1
<1>2. CASE "path" \in DOMAIN parts
  <2>1. PICK c \in Nat, d \in Nat, t \in Seq(FragmentChars) : Opens(url, parts, "path", a, b, c, d, t)
    BY <1>2, Opened
  <2>2. Before(parts, "path") = <<>> /\ Behind(parts, "path") = <<>>
    BY DEF Before, Behind
  <2>3. Lies(url, a, t, b) /\ t = parts["path"] /\ Len(t) >= 1
    <3>1. c = a /\ d = b
      BY <2>1, <2>2, LiesNothing DEF Opens
    <3> QED BY <2>1, <2>2, <3>1 DEF Opens
  <2>4. \A i \in 1..Len(t) : t[i] \in UrlChars
    BY <2>1 DEF Opens, PartChars
  <2>5. "path" \in DOMAIN FieldOfState \ {"server", "server_with_at"} /\ FieldOfState["path"] = "path"
    BY DEF FieldOfState
  <2>6. UrlChar(AfterHost(parts), t[1]) = "path"
    <3>1. t[1] = "/" \/ ("host" \notin DOMAIN parts /\ t[1] = "*")
      BY <1>2, <2>3 DEF AreParts
    <3> QED BY <3>1, StartChars, ServerLeads DEF AfterHost
  <2>7. Fills(t, AfterHost(parts), "path") /\ AfterHost(parts) # "dead"
    BY <2>4, <2>6, PathLeads DEF Fills, AfterHost
  <2>8. ScanAt(url, U[b], parts, D \cup ({"path"} \cap DOMAIN parts), "path", found, host)
    <3>1. PICK E : E = D \cup ({"path"} \cap DOMAIN parts) /\ E = D \cup {"path"}
      BY <1>2
    <3> QED BY <2>3, <2>5, <2>7, <3>1, ReadField
  <2> QED BY <1>2, <2>8 DEF AfterPath
<1> QED BY <1>1, <1>2

LEMMA QueryRead ==
  ASSUME NEW url \in Seq(FragmentChars), NEW U, IsUrlScan(url, U), NEW parts, AreParts(parts), NEW host, NEW found,
         NEW D, "query" \notin D, NEW a, NEW b, FieldLies(url, parts, "query", a, b),
         ScanAt(url, U[a], parts, D, AfterPath(parts), found, host)
  PROVE  ScanAt(url, U[b], parts, D \cup ({"query"} \cap DOMAIN parts), AfterQuery(parts), found, host)
<1>1. CASE "query" \notin DOMAIN parts
  <2>1. a = b /\ D \cup ({"query"} \cap DOMAIN parts) = D /\ AfterQuery(parts) = AfterPath(parts)
    BY <1>1, NotGiven DEF AfterQuery
  <2> QED BY <2>1
<1>2. CASE "query" \in DOMAIN parts
  <2>1. PICK c \in Nat, d \in Nat, t \in Seq(FragmentChars) : Opens(url, parts, "query", a, b, c, d, t)
    BY <1>2, Opened
  <2>2. Before(parts, "query") = <<"?">> /\ Behind(parts, "query") = <<>>
    BY DEF Before, Behind
  <2>3. Lies(url, a, <<"?">>, c) /\ Lies(url, c, t, b) /\ t = parts["query"] /\ Len(t) >= 1
    <3>1. d = b
      BY <2>1, <2>2, LiesNothing DEF Opens
    <3> QED BY <2>1, <2>2, <3>1 DEF Opens
  <2>4. \A i \in 1..Len(t) : t[i] \in UrlChars \cup {"?"}
    BY <2>1 DEF Opens, PartChars
  <2>5. /\ "query" \in DOMAIN FieldOfState \ {"server", "server_with_at"} /\ FieldOfState["query"] = "query"
        /\ "query_start" \notin DOMAIN FieldOfState
    BY DEF FieldOfState
  <2>6. UrlChar(AfterPath(parts), "?") = "query_start"
    <3>1. {"host", "path"} \cap DOMAIN parts # {}
      BY <1>2 DEF AreParts
    <3>2. AfterPath(parts) \in {"path", "server"}
      BY <3>1 DEF AfterPath, AfterHost
    <3> QED BY <3>2, PathLeads, ServerLeads
  <2>7. ScanAt(url, U[c], parts, D, "query_start", found, host)
    BY <2>3, <2>5, <2>6, ReadDelimiter
  <2>8. Fills(t, "query_start", "query")
    BY <2>3, <2>4, QueryLeads DEF Fills
  <2>9. ScanAt(url, U[b], parts, D \cup ({"query"} \cap DOMAIN parts), "query", found, host)
    <3>1. PICK E : E = D \cup ({"query"} \cap DOMAIN parts) /\ E = D \cup {"query"}
      BY <1>2
    <3> QED BY <2>3, <2>5, <2>7, <2>8, <3>1, ReadField
  <2> QED BY <1>2, <2>9 DEF AfterQuery
<1> QED BY <1>1, <1>2

LEMMA FragmentRead ==
  ASSUME NEW url \in Seq(FragmentChars), NEW U, IsUrlScan(url, U), NEW parts, AreParts(parts), NEW host, NEW found,
         NEW D, "fragment" \notin D, NEW a, NEW b, FieldLies(url, parts, "fragment", a, b),
         ScanAt(url, U[a], parts, D, AfterQuery(parts), found, host)
  PROVE  ScanAt(url, U[b], parts, D \cup ({"fragment"} \cap DOMAIN parts), AfterFragment(parts), found, host)
<1>1. CASE "fragment" \notin DOMAIN parts
  <2>1. a = b /\ D \cup ({"fragment"} \cap DOMAIN parts) = D /\ AfterFragment(parts) = AfterQuery(parts)
    BY <1>1, NotGiven DEF AfterFragment
  <2> QED BY <2>1
<1>2. CASE "fragment" \in DOMAIN parts
  <2>1. PICK c \in Nat, d \in Nat, t \in Seq(FragmentChars) : Opens(url, parts, "fragment", a, b, c, d, t)
    BY <1>2, Opened
  <2>2. Before(parts, "fragment") = <<"#">> /\ Behind(parts, "fragment") = <<>>
    BY DEF Before, Behind
  <2>3. Lies(url, a, <<"#">>, c) /\ Lies(url, c, t, b) /\ t = parts["fragment"] /\ Len(t) >= 1
    <3>1. d = b
      BY <2>1, <2>2, LiesNothing DEF Opens
    <3> QED BY <2>1, <2>2, <3>1 DEF Opens
  <2>4. \A i \in 1..Len(t) : t[i] \in FragmentChars
    BY <2>1 DEF Opens, PartChars
  <2>5. /\ "fragment" \in DOMAIN FieldOfState \ {"server", "server_with_at"}
        /\ FieldOfState["fragment"] = "fragment" /\ "fragment_start" \notin DOMAIN FieldOfState
    BY DEF FieldOfState
  <2>6. UrlChar(AfterQuery(parts), "#") = "fragment_start" /\ t[1] # "#"
    <3>1. {"path", "query"} \cap DOMAIN parts # {} /\ t[1] # "#"
      BY <1>2, <2>3 DEF AreParts
    <3>2. AfterQuery(parts) \in {"path", "query"}
      BY <3>1 DEF AfterPath, AfterQuery
    <3> QED BY <3>1, <3>2, PathLeads, QueryLeads
  <2>7. ScanAt(url, U[c], parts, D, "fragment_start", found, host)
    BY <2>3, <2>5, <2>6, ReadDelimiter
  <2>8. Fills(t, "fragment_start", "fragment")
    BY <2>3, <2>4, <2>6, FragmentLeads DEF Fills
  <2>9. ScanAt(url, U[b], parts, D \cup ({"fragment"} \cap DOMAIN parts), "fragment", found, host)
    <3>1. PICK E : E = D \cup ({"fragment"} \cap DOMAIN parts) /\ E = D \cup {"fragment"}
      BY <1>2
    <3> QED BY <2>3, <2>5, <2>7, <2>8, <3>1, ReadField
  <2> QED BY <1>2, <2>9 DEF AfterFragment
<1> QED BY <1>1, <1>2

LEMMA SetAgain ==
  ASSUME NEW F, NEW G, NEW H, NEW f, NEW s, NEW t, IsSet(G, F, f, s), IsSet(H, G, f, t)
  PROVE  IsSet(H, F, f, t)
BY DEF IsSet

LEMMA EntersChars ==
  ASSUME NEW url, NEW a, NEW b, CharsIn(url, a, b, ServerChars), a < b,
         NEW s \in {"server_start", "server", "server_with_at"}
  PROVE  b - a \in Nat /\ b - a >= 1 /\ Enters(url, s, a, b - a, "server")
<1>1. a \in Nat /\ b \in Nat /\ \A i \in (a + 1)..b : url[i] \in ServerChars
  BY DEF CharsIn
<1>2. PICK n \in Nat : n = b - a /\ n >= 1
  BY <1>1
<1>3. ASSUME NEW i \in 1..n PROVE url[a + i] \in ServerChars
  <2>1. a + i \in (a + 1)..b
    BY <1>1, <1>2
  <2> QED BY <1>1, <2>1
<1>4. UrlChar(s, url[a + 1]) = "server"
  <2>1. url[a + 1] \in ServerChars
    BY <1>2, <1>3
  <2> QED BY <2>1, ServerLeads
<1>5. ASSUME NEW i \in 2..n PROVE UrlChar("server", url[a + i]) = "server"
  <2>1. i \in 1..n /\ "server" \in {"server_start", "server", "server_with_at"}
    OBVIOUS
  <2> QED BY <1>3, <2>1, ServerLeads
<1>6. Enters(url, s, a, n, "server")
  BY <1>4, <1>5 DEF Enters
<1> QED BY <1>2, <1>6

(* After the userinfo, or where a server begins. *)
ServerBegun(url, u, v, a, b, found) ==
  /\ v.s \in {"server_start", "server_with_at"} /\ v.found_at = found /\ Begins(v, "host", b, a)
  /\ a \in Nat /\ b \in Nat /\ a <= b
  /\ v = u \/ IsSet(v.fields, u.fields, "host", Span(a, b - a))

LEMMA ServerStates ==
  /\ "server" \in DOMAIN FieldOfState /\ FieldOfState["server"] = "host"
  /\ "server_with_at" \in DOMAIN FieldOfState /\ FieldOfState["server_with_at"] = "host"
BY DEF FieldOfState

LEMMA UserinfoSkipped ==
  ASSUME NEW url, NEW U, IsUrlScan(url, U), NEW parts, AreParts(parts), NEW a, NEW b,
         FieldLies(url, parts, "userinfo", a, b),
         U[a].s = "server_start", U[a].found_at = FALSE, U[a].old_uf # "host"
  PROVE  ServerBegun(url, U[a], U[b], a, b, "userinfo" \in DOMAIN parts)
<1>1. a \in Nat /\ b \in Nat
  BY DEF FieldLies, PieceLies
<1>2. PICK u \in UrlScanSet, v \in UrlScanSet : u = U[a] /\ v = U[b]
  BY <1>1 DEF IsUrlScan
<1>3. CASE "userinfo" \notin DOMAIN parts
  <2>1. a = b /\ v = u
    BY <1>2, <1>3, NotGiven
  <2>2. Begins(u, "host", b, a) /\ a <= b
    BY <1>1, <1>2, <2>1 DEF Begins
  <2>3. u.s = "server_start" /\ u.found_at = FALSE /\ ("userinfo" \in DOMAIN parts) = FALSE
    BY <1>2, <1>3
  <2>4. ServerBegun(url, u, v, a, b, FALSE)
    BY <1>1, <2>1, <2>2, <2>3 DEF ServerBegun
  <2> QED BY <1>2, <2>3, <2>4
<1>4. CASE "userinfo" \in DOMAIN parts
  <2>1. PICK c \in Nat, d \in Nat, t \in Seq(FragmentChars) : Opens(url, parts, "userinfo", a, b, c, d, t)
    BY <1>4, Opened
  <2>2. Before(parts, "userinfo") = <<>> /\ Behind(parts, "userinfo") = <<"@">>
    BY DEF Before, Behind
  <2>3. Lies(url, a, t, d) /\ Lies(url, d, <<"@">>, b) /\ Len(t) >= 1 /\ \A i \in 1..Len(t) : t[i] \in UserinfoChars
    <3>1. c = a
      BY <2>1, <2>2, LiesNothing DEF Opens
    <3> QED BY <2>1, <2>2, <3>1 DEF Opens, PartChars
  <2>4. CharsIn(url, a, d, ServerChars) /\ a < d
    <3>1. \A i \in 1..Len(t) : t[i] \in ServerChars
      BY <2>3, ServerCharsIn
    <3>2. CharsIn(url, a, d, ServerChars)
      BY <2>3, <3>1, LiesChars
    <3>3. a < d
      BY <2>3 DEF Lies
    <3> QED BY <3>2, <3>3
  <2>5. PICK n \in Nat : n = d - a /\ n >= 1 /\ Enters(url, U[a].s, a, n, "server")
    BY <2>4, EntersChars
  <2>6. b = d + 1 /\ url[d + 1] = "@" /\ d = a + n
    BY <1>1, <2>3, <2>5 DEF Lies
  <2>7. PICK w \in UrlScanSet : w = U[d]
    BY DEF IsUrlScan
  <2>8. UrlRan(u, w, "server", a, n)
    <3>1. Begins(U[a], FieldOfState["server"], a, a) /\ a <= a /\ U[a].s # "dead"
      BY <1>1, ServerStates DEF Begins
    <3>2. UrlRan(U[a], U[d], "server", a, n)
      BY <1>1, <2>5, <2>6, <3>1, ServerStates, UrlRunsTo
    <3> QED BY <1>2, <2>7, <3>2
  <2>9. w.s = "server" /\ w.old_uf = "host" /\ IsSet(w.fields, u.fields, "host", Span(a, n))
    BY <2>8, ServerStates DEF UrlRan
  <2>10. PICK m : m = b - a
    OBVIOUS
  <2>11. UrlRan(w, v, "server_with_at", a, m)
    <3>1. Begins(U[d], FieldOfState["server_with_at"], d, a)
      BY <2>5, <2>7, <2>9, ServerStates DEF Begins, IsSet
    <3>2. Enters(url, U[d].s, d, 1, "server_with_at")
      <4>1. UrlChar("server", "@") = "server_with_at"
        BY ServerLeads
      <4> QED BY <2>6, <2>7, <2>9, <4>1 DEF Enters
    <3>3. U[d].s # "dead" /\ a <= d /\ 1 \in Nat /\ 1 >= 1
      <4>1. a <= d /\ 1 \in Nat /\ 1 >= 1
        BY <1>1, <2>4
      <4> QED BY <2>7, <2>9, <4>1
    <3>4. UrlRan(U[d], U[b], "server_with_at", a, m)
      BY <1>1, <2>6, <2>10, <3>1, <3>2, <3>3, ServerStates, UrlRunsTo
    <3> QED BY <1>2, <2>7, <3>4
  <2>12. /\ v.s = "server_with_at" /\ v.old_uf = "host" /\ v.found_at = TRUE
         /\ IsSet(v.fields, w.fields, "host", Span(a, m))
    BY <2>11, ServerStates DEF UrlRan
  <2>13. IsSet(v.fields, u.fields, "host", Span(a, m))
    BY <2>9, <2>12, SetAgain
  <2>14. Begins(v, "host", b, a)
    BY <2>10, <2>12 DEF Begins, IsSet
  <2>15. a <= b /\ ("userinfo" \in DOMAIN parts) = TRUE
    <3>1. a <= b
      BY <1>1, <2>4, <2>6
    <3> QED BY <1>4, <3>1
  <2>16. ServerBegun(url, u, v, a, b, TRUE)
    BY <1>1, <2>10, <2>12, <2>13, <2>14, <2>15 DEF ServerBegun
  <2> QED BY <1>2, <2>15, <2>16
<1> QED BY <1>3, <1>4

LEMMA ServerRead ==
  ASSUME NEW url \in Seq(FragmentChars), NEW U, IsUrlScan(url, U), NEW parts, AreParts(parts), NEW host,
         "host" \in DOMAIN parts, NEW a, NEW b, NEW c, NEW d, NEW D, "host" \notin D,
         FieldLies(url, parts, "userinfo", a, b), FieldLies(url, parts, "host", b, c),
         FieldLies(url, parts, "port", c, d),
         ScanAt(url, U[a], parts, D, "server_start", FALSE, host)
  PROVE  /\ a <= b /\ b < d
         /\ ScanAt(url, U[d], parts, D \cup {"host"}, "server", "userinfo" \in DOMAIN parts, Span(a, d - a))
<1>1. PICK found : found = ("userinfo" \in DOMAIN parts)
  OBVIOUS
<1>2. ServerBegun(url, U[a], U[b], a, b, found)
  <2>1. U[a].s = "server_start" /\ U[a].found_at = FALSE /\ U[a].old_uf # "host"
    BY DEF ScanAt
  <2> QED BY <1>1, <2>1, UserinfoSkipped
<1>3. b < d /\ CharsIn(url, b, d, ServerChars)
  BY HostIsServer
<1>4. a \in Nat /\ b \in Nat /\ d \in Nat /\ a <= b
  BY <1>2, <1>3 DEF ServerBegun, CharsIn
<1>5. PICK u \in UrlScanSet, w \in UrlScanSet, v \in UrlScanSet : u = U[a] /\ w = U[b] /\ v = U[d]
  BY <1>4 DEF IsUrlScan
<1>6. w.s \in {"server_start", "server", "server_with_at"} /\ w.s # "dead"
  BY <1>2, <1>5 DEF ServerBegun
<1>7. PICK n \in Nat : n = d - b /\ n >= 1 /\ Enters(url, w.s, b, n, "server")
  BY <1>3, <1>6, EntersChars
<1>8. PICK m : m = d - a
  OBVIOUS
<1>9. UrlRan(w, v, "server", a, m)
  <2>1. Begins(U[b], FieldOfState["server"], b, a)
    BY <1>2, ServerStates DEF ServerBegun
  <2>2. d = b + n
    BY <1>4, <1>7
  <2>3. UrlRan(U[b], U[d], "server", a, m)
    BY <1>4, <1>5, <1>6, <1>7, <1>8, <2>1, <2>2, ServerStates, UrlRunsTo
  <2> QED BY <1>5, <2>3
<1>10. v.s = "server" /\ v.old_uf = "host" /\ v.found_at = found
  <2>1. w.found_at = found /\ w.found_at \in BOOLEAN
    BY <1>2, <1>5 DEF ServerBegun, UrlScanSet
  <2> QED BY <1>9, <2>1, ServerStates DEF UrlRan
<1>11. IsSet(v.fields, u.fields, "host", Span(a, m))
  <2>1. IsSet(v.fields, w.fields, "host", Span(a, m))
    BY <1>9, ServerStates DEF UrlRan
  <2> QED BY <1>2, <1>5, <2>1, SetAgain DEF ServerBegun
<1>12. DOMAIN u.fields = D /\ DOMAIN v.fields = D \cup {"host"} /\ v.fields["host"] = Span(a, m)
       /\ \A f \in D : v.fields[f] = u.fields[f] /\ f # "host" /\ Text(url, u.fields[f]) = parts[f]
  BY <1>5, <1>11 DEF IsSet, ScanAt
<1>13. ScanAt(url, v, parts, D \cup {"host"}, "server", found, Span(a, m))
  BY <1>10, <1>12 DEF ScanAt
<1> QED BY <1>1, <1>3, <1>4, <1>5, <1>8, <1>13

(* The scan of a well-formed url finds its fields, the server as a whole.  *)
UrlFields == {"schema", "host", "path", "query", "fragment"}

LEMMA ServerOrNot ==
  ASSUME NEW url \in Seq(FragmentChars), NEW U, IsUrlScan(url, U), NEW parts, AreParts(parts), NEW host,
         NEW a, NEW b, NEW c, NEW d, NEW D, D = {"schema"} \cap DOMAIN parts,
         FieldLies(url, parts, "userinfo", a, b), FieldLies(url, parts, "host", b, c),
         FieldLies(url, parts, "port", c, d),
         ScanAt(url, U[a], parts, D, AfterSchema(parts), FALSE, host)
  PROVE  ScanAt(url, U[d], parts, {"schema", "host"} \cap DOMAIN parts, AfterHost(parts),
                "userinfo" \in DOMAIN parts, Span(a, d - a))
<1>1. CASE "host" \in DOMAIN parts
  <2>1. "schema" \in DOMAIN parts /\ "host" \notin D
    BY <1>1 DEF AreParts
  <2>2. AfterSchema(parts) = "server_start" /\ AfterHost(parts) = "server"
    BY <1>1, <2>1 DEF AfterSchema, AfterHost
  <2>3. D \cup {"host"} = {"schema", "host"} \cap DOMAIN parts
    BY <1>1
  <2>4. ScanAt(url, U[a], parts, D, "server_start", FALSE, host)
    BY <2>2
  <2>5. ScanAt(url, U[d], parts, D \cup {"host"}, "server", "userinfo" \in DOMAIN parts, Span(a, d - a))
    BY <1>1, <2>1, <2>4, ServerRead
  <2> QED BY <2>2, <2>3, <2>5
<1>2. CASE "host" \notin DOMAIN parts
  <2>1. "schema" \notin DOMAIN parts /\ "userinfo" \notin DOMAIN parts /\ "port" \notin DOMAIN parts
    BY <1>2 DEF AreParts
  <2>2. a = b /\ b = c /\ c = d
    BY <1>2, <2>1, NotGiven
  <2>3. AfterSchema(parts) = "start" /\ AfterHost(parts) = "start" /\ ("userinfo" \in DOMAIN parts) = FALSE
    BY <1>2, <2>1 DEF AfterSchema, AfterHost
  <2>4. D = {} /\ {"schema", "host"} \cap DOMAIN parts = {}
    BY <1>2, <2>1
  <2>5. ScanAt(url, U[d], parts, {}, "start", FALSE, host)
    BY <2>2, <2>3, <2>4
  <2>6. ScanAt(url, U[d], parts, {}, "start", FALSE, Span(a, d - a))
    BY <2>5 DEF ScanAt
  <2> QED BY <2>3, <2>4, <2>6
<1> QED BY <1>1, <1>2

LEMMA UrlRead ==
  ASSUME NEW url \in Seq(FragmentChars), NEW parts, AreParts(parts),
         NEW p2, NEW p3, NEW p4, NEW p5, NEW p6, NEW p7, Written(url, parts, p2, p3, p4, p5, p6, p7)
  PROVE  ScanAt(url, ScanUrl(url), parts, UrlFields \cap DOMAIN parts, AfterFragment(parts),
                "userinfo" \in DOMAIN parts, Span(p2, p5 - p2))
<1>1. PICK U : U = UrlScans(url) /\ IsUrlScan(url, U)
  BY UrlScansAre
<1>2. PICK host, found : host = Span(p2, p5 - p2) /\ found = ("userinfo" \in DOMAIN parts)
  OBVIOUS
<1>3. PICK D1, D2, D3, D4, D5 :
        /\ D1 = {"schema"} \cap DOMAIN parts /\ D2 = {"schema", "host"} \cap DOMAIN parts
        /\ D3 = D2 \cup ({"path"} \cap DOMAIN parts) /\ D4 = D3 \cup ({"query"} \cap DOMAIN parts)
        /\ D5 = D4 \cup ({"fragment"} \cap DOMAIN parts)
  OBVIOUS
<1>4. D5 = UrlFields \cap DOMAIN parts /\ "path" \notin D2 /\ "query" \notin D3 /\ "fragment" \notin D4
  BY <1>3 DEF UrlFields
<1>5. ScanAt(url, U[p2], parts, D1, AfterSchema(parts), FALSE, host)
  BY <1>1, <1>3, SchemaRead DEF Written
<1>6. ScanAt(url, U[p5], parts, D2, AfterHost(parts), found, host)
  BY <1>1, <1>2, <1>3, <1>5, ServerOrNot DEF Written
<1>7. ScanAt(url, U[p6], parts, D3, AfterPath(parts), found, host)
  BY <1>1, <1>3, <1>4, <1>6, PathRead DEF Written
<1>8. ScanAt(url, U[p7], parts, D4, AfterQuery(parts), found, host)
  BY <1>1, <1>3, <1>4, <1>7, QueryRead DEF Written
<1>9. ScanAt(url, U[Len(url)], parts, D5, AfterFragment(parts), found, host)
  <2>1. PICK n : n = Len(url)
    OBVIOUS
  <2>2. FieldLies(url, parts, "fragment", p7, n)
    BY <2>1 DEF Written
  <2>3. ScanAt(url, U[n], parts, D4 \cup ({"fragment"} \cap DOMAIN parts), AfterFragment(parts), found, host)
    BY <1>1, <1>4, <1>8, <2>2, FragmentRead
  <2> QED BY <1>3, <2>1, <2>3
<1> QED BY <1>1, <1>2, <1>4, <1>9 DEF ScanUrl

V6Chars == Hex \cup {":", "."}

(* Where the characters of a well-formed server lead. *)
LEMMA InHostChars ==
  /\ "@" \notin UserinfoChars /\ "[" \notin HostChars /\ ":" \notin HostChars /\ "]" \notin V6Chars
BY DEF UserinfoChars, HostChars, V6Chars, Hex, Num, Alpha, Digit

LEMMA UserinfoLeads ==
  ASSUME NEW s \in {"userinfo_start", "userinfo"}, NEW ch
  PROVE  /\ ch \in UserinfoChars => HostChar(s, ch) = "userinfo"
         /\ ch = "@" => HostChar(s, ch) = "host_start"
<1>1. HostArrows[s] = {<<{"@"}, "host_start">>, <<UserinfoChars, "userinfo">>}
  BY DEF HostArrows, UserinfoArrows
<1>2. ASSUME ch \in UserinfoChars PROVE Leads(HostArrows, s, ch, UserinfoChars, "userinfo")
  BY <1>1, <1>2, InHostChars DEF Leads
<1>3. ASSUME ch = "@" PROVE Leads(HostArrows, s, ch, {"@"}, "host_start")
  BY <1>1, <1>3, InHostChars DEF Leads
<1> QED BY <1>2, <1>3, FollowedTo DEF HostChar

LEMMA HostLeads ==
  ASSUME NEW ch
  PROVE  /\ ch \in HostChars => HostChar("host_start", ch) = "host" /\ HostChar("host", ch) = "host"
         /\ ch = "[" => HostChar("host_start", ch) = "v6_start"
         /\ ch = ":" => HostChar("host", ch) = "port_start"
<1>1. /\ HostArrows["host_start"] = {<<{"["}, "v6_start">>, <<HostChars, "host">>}
      /\ HostArrows["host"] = {<<HostChars, "host">>, <<{":"}, "port_start">>}
  BY DEF HostArrows, PortArrow
<1>2. ASSUME ch \in HostChars
      PROVE  Leads(HostArrows, "host_start", ch, HostChars, "host") /\ Leads(HostArrows, "host", ch, HostChars, "host")
  BY <1>1, <1>2, InHostChars DEF Leads
<1>3. ASSUME ch = "[" PROVE Leads(HostArrows, "host_start", ch, {"["}, "v6_start")
  BY <1>1, <1>3, InHostChars DEF Leads
<1>4. ASSUME ch = ":" PROVE Leads(HostArrows, "host", ch, {":"}, "port_start")
  BY <1>1, <1>4, InHostChars DEF Leads
<1> QED BY <1>2, <1>3, <1>4, FollowedTo DEF HostChar

LEMMA V6Leads ==
  ASSUME NEW ch
  PROVE  /\ ch \in V6Chars => HostChar("v6_start", ch) = "v6" /\ HostChar("v6", ch) = "v6"
         /\ ch = "]" => HostChar("v6", ch) = "v6_end"
         /\ ch = ":" => HostChar("v6_end", ch) = "port_start"
<1>1. /\ HostArrows["v6_start"] = {<<V6Chars, "v6">>} /\ HostArrows["v6"] = {<<V6Chars, "v6">>, <<{"]"}, "v6_end">>}
      /\ HostArrows["v6_end"] = {<<{":"}, "port_start">>}
  BY DEF HostArrows, V6Arrow, PortArrow, V6Chars
<1>2. ASSUME ch \in V6Chars
      PROVE  Leads(HostArrows, "v6_start", ch, V6Chars, "v6") /\ Leads(HostArrows, "v6", ch, V6Chars, "v6")
  BY <1>1, <1>2, InHostChars DEF Leads
<1>3. ASSUME ch = "]" PROVE Leads(HostArrows, "v6", ch, {"]"}, "v6_end")
  BY <1>1, <1>3, InHostChars DEF Leads
<1>4. ASSUME ch = ":" PROVE Leads(HostArrows, "v6_end", ch, {":"}, "port_start")
  BY <1>1, <1>4 DEF Leads
<1> QED BY <1>2, <1>3, <1>4, FollowedTo DEF HostChar

LEMMA PortLeads ==
  ASSUME NEW ch \in Num PROVE HostChar("port_start", ch) = "port" /\ HostChar("port", ch) = "port"
<1>1. HostArrows["port_start"] = {<<Num, "port">>} /\ HostArrows["port"] = {<<Num, "port">>}
  BY DEF HostArrows
<1>2. Leads(HostArrows, "port_start", ch, Num, "port") /\ Leads(HostArrows, "port", ch, Num, "port")
  BY <1>1 DEF Leads
<1> QED BY <1>2, FollowedTo DEF HostChar

(* What the scan of a well-formed server knows at a place in it: it has    *)
(* the fields D, and those of F are right.                                 *)
HostAt(url, h, parts, D, s, F) ==
  /\ h \in HostScanSet /\ h.s = s /\ DOMAIN h.fields = D /\ F \subseteq D
  /\ \A f \in F : Text(url, h.fields[f]) = parts[f]

HostEnters(url, s, a, n, st) == HostChar(s, url[a + 1]) = st /\ \A k \in 2..n : HostChar(st, url[a + k]) = st

LEMMA HostRunsTo ==
  ASSUME NEW url, NEW u, NEW off \in Nat, NEW H, IsHostScan(url, u, off, H), NEW i \in Nat, NEW n \in Nat, n >= 1,
         NEW st \in HostTexts, H[i].s # "dead", H[i].s # st, NEW a, a = off + i,
         HostEnters(url, H[i].s, a, n, st), NEW j, j = i + n
  PROVE  HostRan(H[i], H[j], st, a, n)
<1>1. HostChar(H[i].s, url[off + i + 1]) = st /\ \A k \in 2..n : HostChar(st, url[off + i + k]) = st
  BY DEF HostEnters
<1>2. HostRan(H[i], H[i + n], st, off + i, n)
  BY <1>1, HostRuns
<1> QED BY <1>2

HostFills(t, s, st) == HostChar(s, t[1]) = st /\ \A i \in 2..Len(t) : HostChar(st, t[i]) = st

LEMMA ReadHostField ==
  ASSUME NEW url \in Seq(FragmentChars), NEW u, NEW off \in Nat, NEW H, IsHostScan(url, u, off, H), NEW parts,
         NEW D, NEW s, NEW F, NEW i \in Nat, NEW j, NEW t \in Seq(FragmentChars),
         Lies(url, off + i, t, off + j), j \in Nat, Len(t) >= 1, HostAt(url, H[i], parts, D, s, F), s # "dead",
         NEW st \in HostTexts, st # s, HostFills(t, s, st), NEW f, f = HostField(st), parts[f] = t,
         NEW E, E = D \cup {f}, NEW G, G = F \cup {f}
  PROVE  HostAt(url, H[j], parts, E, st, G)
<1>1. PICK n \in Nat : n = Len(t) /\ n >= 1
  OBVIOUS
<1>2. PICK a \in Nat, b \in Nat : a = off + i /\ b = off + j
  OBVIOUS
<1>3. b = a + n /\ j = i + n /\ \A k \in 1..n : url[a + k] = t[k]
  <2>1. Lies(url, a, t, b)
    BY <1>2
  <2>2. b = a + n /\ \A k \in 1..n : url[a + k] = t[k]
    BY <1>1, <2>1 DEF Lies
  <2> QED BY <1>2, <2>2
<1>4. PICK h \in HostScanSet, v \in HostScanSet : h = H[i] /\ v = H[j] /\ h.s = s
  BY DEF IsHostScan, HostAt
<1>5. HostRan(h, v, st, a, n)
  <2>1. HostEnters(url, H[i].s, a, n, st)
    BY <1>1, <1>2, <1>3, <1>4 DEF HostFills, HostEnters
  <2>2. H[i].s # "dead" /\ H[i].s # st
    BY <1>4
  <2>3. HostRan(H[i], H[j], st, a, n)
    BY <1>1, <1>2, <1>3, <2>1, <2>2, HostRunsTo
  <2> QED BY <1>4, <2>3
<1>6. v.s = st /\ IsSet(v.fields, h.fields, f, Span(a, n))
  BY <1>5 DEF HostRan
<1>7. Text(url, Span(a, n)) = t
  <2>1. Lies(url, a, t, b) /\ b - a = n
    BY <1>2, <1>3
  <2>2. Text(url, Span(a, b - a)) = t
    BY <2>1, LiesText
  <2> QED BY <2>1, <2>2
<1>8. DOMAIN h.fields = D /\ DOMAIN v.fields = E /\ G \subseteq E
  BY <1>4, <1>6 DEF IsSet, HostAt
<1>9. ASSUME NEW g \in G PROVE Text(url, v.fields[g]) = parts[g]
  <2>1. CASE g = f
    BY <1>6, <1>7, <2>1 DEF IsSet
  <2>2. CASE g # f
    <3>1. g \in F /\ g \in D /\ v.fields[g] = h.fields[g]
      BY <1>6, <1>8, <2>2 DEF IsSet, HostAt
    <3> QED BY <1>4, <3>1 DEF HostAt
  <2> QED BY <2>1, <2>2
<1> QED BY <1>4, <1>6, <1>8, <1>9 DEF HostAt

LEMMA ReadHostDelimiter ==
  ASSUME NEW url, NEW u, NEW off \in Nat, NEW H, IsHostScan(url, u, off, H), NEW parts,
         NEW D, NEW s, NEW F, NEW i \in Nat, NEW j \in Nat, NEW c, Lies(url, off + i, <<c>>, off + j),
         HostAt(url, H[i], parts, D, s, F), NEW st, HostChar(s, c) = st, st \notin HostTexts
  PROVE  HostAt(url, H[j], parts, D, st, F)
<1>1. j = i + 1 /\ url[off + i + 1] = c
  BY DEF Lies
<1>2. PICK h \in HostScanSet, v \in HostScanSet : h = H[i] /\ v = H[j] /\ h.s = s
  BY DEF IsHostScan, HostAt
<1>3. v.s = st /\ v.fields = h.fields
  <2>1. PICK at \in Nat : at = off + i
    OBVIOUS
  <2>2. v = HostStep(url, h, at) /\ st = HostChar(h.s, url[at + 1])
    BY <1>1, <1>2, <2>1 DEF IsHostScan
  <2>3. HostStepped(h, at, st, v)
    BY <2>2, HostStepIs
  <2> QED BY <2>3 DEF HostStepped
<1> QED BY <1>2, <1>3 DEF HostAt

(* Places in the server, by their distance from its start. *)
LEMMA OpenedIn ==
  ASSUME NEW url, NEW parts, AreParts(parts), NEW f \in DOMAIN parts, NEW off \in Nat, NEW i \in Nat, NEW j \in Nat,
         FieldLies(url, parts, f, off + i, off + j)
  PROVE  \E k \in Nat, l \in Nat, t \in Seq(FragmentChars) : Opens(url, parts, f, off + i, off + j, off + k, off + l, t)
<1>1. PICK c \in Nat, d \in Nat, t \in Seq(FragmentChars) : Opens(url, parts, f, off + i, off + j, c, d, t)
  BY Opened
<1>2. off <= c /\ c <= d
  <2>1. PICK m \in Nat, n \in Nat : m = Len(Before(parts, f)) /\ n = Len(t)
    <3>1. Len(Before(parts, f)) \in Nat /\ Len(t) \in Nat
      BY Delimiters
    <3> QED BY <3>1
  <2>2. c = off + i + m /\ d = c + n
    BY <1>1, <2>1 DEF Opens, Lies
  <2> QED BY <2>2
<1>3. PICK k \in Nat, l \in Nat : c = off + k /\ d = off + l
  <2>1. c - off \in Nat /\ d - off \in Nat /\ c = off + (c - off) /\ d = off + (d - off)
    BY <1>2
  <2> QED BY <2>1
<1> QED BY <1>1, <1>3

LEMMA SamePlace ==
  ASSUME NEW off \in Nat, NEW i \in Nat, NEW j \in Nat, off + i = off + j PROVE i = j
OBVIOUS

LEMMA UserinfoRead ==
  ASSUME NEW url \in Seq(FragmentChars), NEW u, NEW off \in Nat, NEW H, IsHostScan(url, u, off, H),
         NEW parts, AreParts(parts), NEW D, NEW F, NEW i \in Nat, NEW j \in Nat,
         FieldLies(url, parts, "userinfo", off + i, off + j),
         HostAt(url, H[i], parts, D, IF "userinfo" \in DOMAIN parts THEN "userinfo_start" ELSE "host_start", F)
  PROVE  HostAt(url, H[j], parts, D \cup ({"userinfo"} \cap DOMAIN parts), "host_start",
                F \cup ({"userinfo"} \cap DOMAIN parts))
<1>1. PICK E, G : E = D \cup ({"userinfo"} \cap DOMAIN parts) /\ G = F \cup ({"userinfo"} \cap DOMAIN parts)
  OBVIOUS
<1>2. CASE "userinfo" \notin DOMAIN parts
  <2>1. i = j
    BY <1>2, NotGiven, SamePlace
  <2>2. E = D /\ G = F
    BY <1>1, <1>2
  <2> QED BY <1>1, <1>2, <2>1, <2>2
<1>3. CASE "userinfo" \in DOMAIN parts
  <2>1. PICK k \in Nat, l \in Nat, t \in Seq(FragmentChars) :
          Opens(url, parts, "userinfo", off + i, off + j, off + k, off + l, t)
    BY <1>3, OpenedIn
  <2>2. Before(parts, "userinfo") = <<>> /\ Behind(parts, "userinfo") = <<"@">>
    BY DEF Before, Behind
  <2>3. Lies(url, off + i, t, off + l) /\ Lies(url, off + l, <<"@">>, off + j)
    <3>1. Lies(url, off + i, <<>>, off + k) /\ Lies(url, off + k, t, off + l) /\ Lies(url, off + l, <<"@">>, off + j)
      BY <2>1, <2>2 DEF Opens
    <3>2. off + i = off + k
      BY <3>1, LiesNothing
    <3> QED BY <3>1, <3>2
  <2>4. t = parts["userinfo"] /\ Len(t) >= 1 /\ \A n \in 1..Len(t) : t[n] \in UserinfoChars
    BY <2>1 DEF Opens, PartChars
  <2>5. HostFills(t, "userinfo_start", "userinfo")
    BY <2>4, UserinfoLeads DEF HostFills
  <2>6. "userinfo" \in HostTexts /\ HostField("userinfo") = "userinfo" /\ "host_start" \notin HostTexts
    BY DEF HostTexts, HostField
  <2>7. E = D \cup {"userinfo"} /\ G = F \cup {"userinfo"}
    BY <1>1, <1>3
  <2>8. HostAt(url, H[i], parts, D, "userinfo_start", F)
    BY <1>3
  <2>9. HostAt(url, H[l], parts, E, "userinfo", G)
    BY <2>3, <2>4, <2>5, <2>6, <2>7, <2>8, ReadHostField
  <2>10. HostChar("userinfo", "@") = "host_start"
    BY UserinfoLeads
  <2>11. HostAt(url, H[j], parts, E, "host_start", G)
    BY <2>3, <2>6, <2>9, <2>10, ReadHostDelimiter
  <2> QED BY <1>1, <2>11
<1> QED BY <1>2, <1>3

AfterName(parts) == IF IsV6(parts) THEN "v6_end" ELSE "host"

LEMMA HostNameRead ==
  ASSUME NEW url \in Seq(FragmentChars), NEW u, NEW off \in Nat, NEW H, IsHostScan(url, u, off, H),
         NEW parts, AreParts(parts), "host" \in DOMAIN parts, NEW D, "host" \in D, NEW F, NEW i \in Nat, NEW j \in Nat,
         FieldLies(url, parts, "host", off + i, off + j), HostAt(url, H[i], parts, D, "host_start", F)
  PROVE  HostAt(url, H[j], parts, D, AfterName(parts), F \cup {"host"})
<1>1. PICK k \in Nat, l \in Nat, t \in Seq(FragmentChars) :
        Opens(url, parts, "host", off + i, off + j, off + k, off + l, t)
  BY OpenedIn
<1>2. t = parts["host"] /\ Len(t) >= 1 /\ Lies(url, off + k, t, off + l)
  BY <1>1 DEF Opens
<1>3. \A n \in 1..Len(t) : t[n] \in IF IsV6(parts) THEN V6Chars ELSE HostChars
  BY <1>1 DEF Opens, PartChars, V6Chars
<1>4. PICK E, G : E = D \cup {"host"} /\ G = F \cup {"host"}
  OBVIOUS
<1>5. E = D
  BY <1>4
<1>6. /\ "host" \in HostTexts /\ HostField("host") = "host" /\ "v6" \in HostTexts /\ HostField("v6") = "host"
      /\ "v6_start" \notin HostTexts /\ "v6_end" \notin HostTexts
  BY DEF HostTexts, HostField
<1>7. CASE IsV6(parts)
  <2>1. Lies(url, off + i, <<"[">>, off + k) /\ Lies(url, off + l, <<"]">>, off + j)
    BY <1>1, <1>7 DEF Opens, Before, Behind
  <2>2. HostChar("host_start", "[") = "v6_start" /\ HostChar("v6", "]") = "v6_end"
    BY HostLeads, V6Leads
  <2>3. HostAt(url, H[k], parts, D, "v6_start", F)
    BY <1>6, <2>1, <2>2, ReadHostDelimiter
  <2>4. HostFills(t, "v6_start", "v6")
    BY <1>2, <1>3, <1>7, V6Leads DEF HostFills
  <2>5. HostAt(url, H[l], parts, E, "v6", G)
    <3>1. "v6_start" # "dead" /\ "v6" # "v6_start"
      OBVIOUS
    <3> QED BY <1>2, <1>4, <1>6, <2>3, <2>4, <3>1, ReadHostField
  <2>6. HostAt(url, H[j], parts, E, "v6_end", G)
    BY <1>6, <2>1, <2>2, <2>5, ReadHostDelimiter
  <2> QED BY <1>4, <1>5, <1>7, <2>6 DEF AfterName
<1>8. CASE ~IsV6(parts)
  <2>1. Lies(url, off + i, <<>>, off + k) /\ Lies(url, off + l, <<>>, off + j)
    BY <1>1, <1>8 DEF Opens, Before, Behind
  <2>2. i = k /\ l = j
    BY <2>1, LiesNothing, SamePlace
  <2>3. HostFills(t, "host_start", "host")
    BY <1>2, <1>3, <1>8, HostLeads DEF HostFills
  <2>4. HostAt(url, H[j], parts, E, "host", G)
    <3>1. Lies(url, off + i, t, off + j) /\ "host_start" # "dead" /\ "host" # "host_start"
      BY <1>2, <2>2
    <3> QED BY <1>2, <1>4, <1>6, <2>3, <3>1, ReadHostField
  <2> QED BY <1>4, <1>5, <1>8, <2>4 DEF AfterName
<1> QED BY <1>7, <1>8

(* The scan of a server ends well, with the fields E, of which those of G  *)
(* are right.                                                              *)
ServerDone(url, h, parts, E, G) == \E s \in {"host", "v6_end", "port"} : HostAt(url, h, parts, E, s, G)

LEMMA PortRead ==
  ASSUME NEW url \in Seq(FragmentChars), NEW u, NEW off \in Nat, NEW H, IsHostScan(url, u, off, H),
         NEW parts, AreParts(parts), NEW D, NEW F, NEW i \in Nat, NEW j \in Nat,
         FieldLies(url, parts, "port", off + i, off + j), HostAt(url, H[i], parts, D, AfterName(parts), F),
         NEW E, E = D \cup ({"port"} \cap DOMAIN parts), NEW G, G = F \cup ({"port"} \cap DOMAIN parts)
  PROVE  ServerDone(url, H[j], parts, E, G)
<1>2. CASE "port" \notin DOMAIN parts
  <2>1. i = j
    BY <1>2, NotGiven, SamePlace
  <2>2. E = D /\ G = F /\ AfterName(parts) \in {"host", "v6_end", "port"}
    BY <1>2 DEF AfterName
  <2> QED BY <1>2, <2>1, <2>2 DEF ServerDone
<1>3. CASE "port" \in DOMAIN parts
  <2>1. PICK k \in Nat, l \in Nat, t \in Seq(FragmentChars) :
          Opens(url, parts, "port", off + i, off + j, off + k, off + l, t)
    BY <1>3, OpenedIn
  <2>2. Before(parts, "port") = <<":">> /\ Behind(parts, "port") = <<>>
    BY DEF Before, Behind
  <2>3. Lies(url, off + i, <<":">>, off + k) /\ Lies(url, off + k, t, off + l) /\ l = j
    <3>1. Lies(url, off + i, <<":">>, off + k) /\ Lies(url, off + k, t, off + l) /\ Lies(url, off + l, <<>>, off + j)
      BY <2>1, <2>2 DEF Opens
    <3>2. l = j
      BY <3>1, LiesNothing, SamePlace
    <3> QED BY <3>1, <3>2
  <2>4. t = parts["port"] /\ Len(t) >= 1 /\ \A n \in 1..Len(t) : t[n] \in Num
    BY <2>1 DEF Opens, PartChars
  <2>5. HostFills(t, "port_start", "port")
    BY <2>4, PortLeads DEF HostFills
  <2>6. "port" \in HostTexts /\ HostField("port") = "port" /\ "port_start" \notin HostTexts
    BY DEF HostTexts, HostField
  <2>7. PICK x, y : x = D \cup {"port"} /\ y = F \cup {"port"}
    OBVIOUS
  <2>8. HostChar(AfterName(parts), ":") = "port_start"
    BY HostLeads, V6Leads DEF AfterName
  <2>9. HostAt(url, H[k], parts, D, "port_start", F)
    BY <2>3, <2>6, <2>8, ReadHostDelimiter
  <2>10. HostAt(url, H[j], parts, x, "port", y)
    BY <2>3, <2>4, <2>5, <2>6, <2>7, <2>9, ReadHostField
  <2>11. x = E /\ y = G
    BY <1>3, <2>7
  <2> QED BY <2>10, <2>11 DEF ServerDone
<1> QED BY <1>2, <1>3

LEMMA LiesForward ==
  ASSUME NEW url, NEW parts, AreParts(parts), NEW f, NEW a, NEW b, FieldLies(url, parts, f, a, b)
  PROVE  a \in Nat /\ b \in Nat /\ a <= b
<1>1. a \in Nat /\ b \in Nat
  BY DEF FieldLies, PieceLies
<1>2. CASE f \notin DOMAIN parts
  BY <1>1, <1>2, NotGiven
<1>3. CASE f \in DOMAIN parts
  <2>1. PICK c \in Nat, d \in Nat, t \in Seq(FragmentChars) : Opens(url, parts, f, a, b, c, d, t)
    BY <1>3, Opened
  <2>2. PICK l \in Nat, m \in Nat, n \in Nat : l = Len(Before(parts, f)) /\ m = Len(t) /\ n = Len(Behind(parts, f))
    <3>1. Len(Before(parts, f)) \in Nat /\ Len(t) \in Nat /\ Len(Behind(parts, f)) \in Nat
      BY Delimiters
    <3> QED BY <3>1
  <2>3. c = a + l /\ d = c + m /\ b = d + n
    BY <2>1, <2>2 DEF Opens, Lies
  <2> QED BY <1>1, <2>3
<1> QED BY <1>2, <1>3

(* The scan of the host of a well-formed url. *)
LEMMA ServerFound ==
  ASSUME NEW url \in Seq(FragmentChars), NEW parts, AreParts(parts), "host" \in DOMAIN parts,
         NEW p2, NEW p3, NEW p4, NEW p5, NEW p6, NEW p7, Written(url, parts, p2, p3, p4, p5, p6, p7),
         NEW u, NEW e,
         ScanAt(url, u, parts, UrlFields \cap DOMAIN parts, e, "userinfo" \in DOMAIN parts, Span(p2, p5 - p2))
  PROVE  ServerDone(url, HostScans(url, u, p2)[p5 - p2], parts, DOMAIN parts, DOMAIN parts)
<1>1. p2 \in Nat /\ p3 \in Nat /\ p4 \in Nat /\ p5 \in Nat /\ p2 <= p3 /\ p3 <= p4 /\ p4 <= p5
  BY LiesForward DEF Written
<1>2. PICK off \in Nat, i \in Nat, j \in Nat, k \in Nat :
        off = p2 /\ p2 = off + 0 /\ p3 = off + i /\ p4 = off + j /\ p5 = off + k /\ p5 - p2 = k
  <2>1. /\ p3 - p2 \in Nat /\ p4 - p2 \in Nat /\ p5 - p2 \in Nat /\ p2 = p2 + 0 /\ p3 = p2 + (p3 - p2)
        /\ p4 = p2 + (p4 - p2) /\ p5 = p2 + (p5 - p2)
    BY <1>1
  <2> QED BY <1>1, <2>1
<1>3. u \in UrlScanSet
  BY DEF ScanAt
<1>4. PICK H : H = HostScans(url, u, off) /\ IsHostScan(url, u, off, H)
  BY <1>3, HostScansAre
<1>5. PICK D0, F0 : D0 = UrlFields \cap DOMAIN parts /\ F0 = D0 \ {"host"}
  OBVIOUS
<1>6. PICK D1, F1 : D1 = D0 \cup ({"userinfo"} \cap DOMAIN parts) /\ F1 = F0 \cup ({"userinfo"} \cap DOMAIN parts)
  OBVIOUS
<1>7. /\ D1 \cup ({"port"} \cap DOMAIN parts) = DOMAIN parts
      /\ (F1 \cup {"host"}) \cup ({"port"} \cap DOMAIN parts) = DOMAIN parts
  <2>1. DOMAIN parts \subseteq AllFields
    BY PartsDomain DEF AreParts
  <2> QED BY <1>5, <1>6, <2>1 DEF UrlFields, AllFields
<1>8. HostAt(url, H[0], parts, D0, IF "userinfo" \in DOMAIN parts THEN "userinfo_start" ELSE "host_start", F0)
  <2>1. PICK h \in HostScanSet : h = H[0] /\ h = NewHost(u, off)
    BY <1>4 DEF IsHostScan
  <2>2. u.found_at = ("userinfo" \in DOMAIN parts)
    BY DEF ScanAt
  <2>3. h.s = IF "userinfo" \in DOMAIN parts THEN "userinfo_start" ELSE "host_start"
    BY <1>3, <2>1, <2>2, NewHostIs
  <2>4. IsSet(h.fields, u.fields, "host", Span(off, 0))
    <3>1. u.fields \in FieldSets /\ Span(off, 0) \in SpanSet /\ "host" \in AllFields
      BY <1>3 DEF UrlScanSet, Span, SpanSet, AllFields
    <3>2. h.fields = Set(u.fields, "host", Span(off, 0))
      BY <1>3, <2>1, NewHostIs
    <3> QED BY <3>1, <3>2, SetIs
  <2>5. DOMAIN u.fields = D0 /\ "host" \in D0
    BY <1>5 DEF ScanAt, UrlFields
  <2>6. DOMAIN h.fields = D0 /\ \A f \in F0 : h.fields[f] = u.fields[f]
    BY <1>5, <2>4, <2>5 DEF IsSet
  <2>7. \A f \in F0 : Text(url, u.fields[f]) = parts[f]
    BY <1>5 DEF ScanAt
  <2> QED BY <1>5, <2>1, <2>3, <2>6, <2>7 DEF HostAt
<1>9. HostAt(url, H[i], parts, D1, "host_start", F1)
  <2>1. FieldLies(url, parts, "userinfo", off + 0, off + i)
    BY <1>2 DEF Written
  <2> QED BY <1>4, <1>6, <1>8, <2>1, UserinfoRead
<1>10. HostAt(url, H[j], parts, D1, AfterName(parts), F1 \cup {"host"})
  <2>1. FieldLies(url, parts, "host", off + i, off + j)
    BY <1>2 DEF Written
  <2>2. "host" \in D1
    BY <1>5, <1>6 DEF UrlFields
  <2> QED BY <1>4, <1>9, <2>1, <2>2, HostNameRead
<1>11. ServerDone(url, H[k], parts, DOMAIN parts, DOMAIN parts)
  <2>1. FieldLies(url, parts, "port", off + j, off + k)
    BY <1>2 DEF Written
  <2>2. PICK F, E : F = F1 \cup {"host"} /\ E = DOMAIN parts
    OBVIOUS
  <2>3. /\ HostAt(url, H[j], parts, D1, AfterName(parts), F)
        /\ E = D1 \cup ({"port"} \cap DOMAIN parts) /\ E = F \cup ({"port"} \cap DOMAIN parts)
    BY <1>7, <1>10, <2>2
  <2>4. ServerDone(url, H[k], parts, E, E)
    BY <1>4, <2>1, <2>3, PortRead
  <2> QED BY <2>2, <2>4
<1> QED BY <1>2, <1>4, <1>11

(* A well-formed url, with whatever it has of schema, userinfo, host or v6 *)
(* address, port, path, query and fragment, is accepted, and the fields    *)
(* that http_parser_parse_url finds in it are the parts it was written     *)
(* from, none missing, none invented.                                      *)
THEOREM WellFormedFound ==
  ASSUME NEW parts, AreParts(parts), NEW garbage
  PROVE  /\ ParseUrl(WriteUrl(parts), garbage).ok
         /\ [f \in DOMAIN ParseUrl(WriteUrl(parts), garbage).fields |->
               Text(WriteUrl(parts), ParseUrl(WriteUrl(parts), garbage).fields[f])] = parts
<1>1. PICK url \in Seq(FragmentChars) : url = WriteUrl(parts)
  BY WrittenPlaces
<1>2. PICK p2 \in Nat, p3 \in Nat, p4 \in Nat, p5 \in Nat, p6 \in Nat, p7 \in Nat :
        Written(url, parts, p2, p3, p4, p5, p6, p7)
  BY <1>1, WrittenPlaces
<1>3. PICK u : u = ScanUrl(url)
  OBVIOUS
<1>4. PICK D, e, host : /\ D = UrlFields \cap DOMAIN parts /\ e = AfterFragment(parts) /\ host = Span(p2, p5 - p2)
                        /\ ScanAt(url, u, parts, D, e, "userinfo" \in DOMAIN parts, host)
  BY <1>1, <1>2, <1>3, UrlRead
<1>5. PICK r : r = ParseUrl(url, garbage) /\ r = Parsed(url, u, garbage)
  BY <1>3 DEF ParseUrl
<1>6. u.s # "dead" /\ DOMAIN u.fields = D
  BY <1>4 DEF ScanAt, AfterFragment, AfterQuery, AfterPath, AfterHost
<1>7. DOMAIN parts \subseteq AllFields /\ parts = [f \in DOMAIN parts |-> parts[f]]
  BY PartsDomain DEF AreParts
<1>8. SUFFICES r.ok /\ DOMAIN r.fields = DOMAIN parts /\ \A f \in DOMAIN parts : Text(url, r.fields[f]) = parts[f]
  <2>1. ASSUME r.ok, DOMAIN r.fields = DOMAIN parts, \A f \in DOMAIN parts : Text(url, r.fields[f]) = parts[f]
        PROVE  r.ok /\ [f \in DOMAIN r.fields |-> Text(url, r.fields[f])] = parts
    BY <1>7, <2>1
  <2> QED BY <1>1, <1>5, <2>1
<1>9. CASE "host" \notin DOMAIN parts
  <2>1. {"schema", "userinfo", "port", "host"} \cap DOMAIN parts = {}
    BY <1>9 DEF AreParts
  <2>2. D = DOMAIN parts /\ {"schema", "host"} \cap DOMAIN u.fields = {} /\ "host" \notin D
    BY <1>4, <1>6, <1>7, <2>1 DEF UrlFields, AllFields
  <2>3. r = [ok |-> TRUE, fields |-> u.fields]
    BY <1>5, <1>6, <2>2 DEF Parsed
  <2>4. \A f \in D : Text(url, u.fields[f]) = parts[f]
    BY <1>4, <2>2 DEF ScanAt
  <2> QED BY <1>6, <2>2, <2>3, <2>4
<1>10. CASE "host" \in DOMAIN parts
  <2>1. PICK scanned : scanned = HostScans(url, u, p2)[p5 - p2]
    OBVIOUS
  <2>2. PICK s \in {"host", "v6_end", "port"} : HostAt(url, scanned, parts, DOMAIN parts, s, DOMAIN parts)
    <3>1. ServerDone(url, scanned, parts, DOMAIN parts, DOMAIN parts)
      BY <1>1, <1>2, <1>4, <1>10, <2>1, ServerFound
    <3> QED BY <3>1 DEF ServerDone
  <2>3. "host" \in DOMAIN u.fields /\ u.fields.host = host
    <3>1. "host" \in D
      BY <1>4, <1>10 DEF UrlFields
    <3> QED BY <1>4, <1>6, <3>1 DEF ScanAt
  <2>4. host.off = p2 /\ host.len = p5 - p2
    BY <1>4 DEF Span
  <2>6. PICK F : F = scanned.fields
    OBVIOUS
  <2>8. scanned.s \in {"host", "v6_end", "port"} /\ DOMAIN F = DOMAIN parts
    BY <2>2, <2>6 DEF HostAt
  <2>11. \A f \in DOMAIN parts : Text(url, F[f]) = parts[f]
    BY <2>2, <2>6 DEF HostAt
  <2>12. "port" \in DOMAIN F => Decimal(Text(url, F.port)) <= MaxPort
    <3>1. ASSUME "port" \in DOMAIN parts PROVE Decimal(Text(url, F.port)) <= MaxPort
      <4>1. Text(url, F["port"]) = parts["port"] /\ Decimal(parts.port) <= MaxPort
        BY <2>11, <3>1 DEF AreParts
      <4> QED BY <4>1
    <3> QED BY <2>8, <3>1
  <2>13. r.ok /\ r.fields = F
    <3>1. r = ScanHost(url, u)
      BY <1>5, <1>6, <2>3 DEF Parsed
    <3>2. ScanHost(url, u) = [ok |-> /\ scanned.s \in {"host", "v6_end", "port"}
                                     /\ "port" \in DOMAIN F => Decimal(Text(url, F.port)) <= MaxPort,
                              fields |-> F]
      BY <2>1, <2>3, <2>4, <2>6 DEF ScanHost
    <3>3. PICK b \in BOOLEAN : b = (/\ scanned.s \in {"host", "v6_end", "port"}
                                    /\ "port" \in DOMAIN F => Decimal(Text(url, F.port)) <= MaxPort)
      OBVIOUS
    <3>4. r = [ok |-> b, fields |-> F]
      BY <3>1, <3>2, <3>3, Zenon
    <3> QED BY <2>8, <2>12, <3>3, <3>4
  <2> QED BY <2>8, <2>11, <2>13
<1> QED BY <1>9, <1>10

(* The messages of a conversation. *)
InputInv == input \in Seq(Messages) /\ Len(input) > 0 /\ answers \in Seq(Messages)

(* What arrives are messages of the conversation: the first was there from *)
(* the start, and handle_write_request lets webhdfs answer with another.   *)
THEOREM InputInvariant == ConversationSpec => []InputInv
<1>1. ConversationInit => InputInv
  <2> SUFFICES ASSUME ConversationInit PROVE InputInv
    OBVIOUS
  <2>1. PICK c \in Conversations : input = c.asked /\ answers = c.answers
    BY DEF ConversationInit, Init
  <2>2. c.asked \in Seq(Messages) /\ c.answers \in Seq(Messages)
    BY MessageAssumption
  <2>3. Len(c.asked) > 0
    BY ParserAssumption
  <2> QED BY <2>1, <2>2, <2>3 DEF InputInv
<1>2. InputInv /\ [ConversationNext]_allVars => InputInv'
  <2> SUFFICES ASSUME InputInv, [ConversationNext]_allVars PROVE InputInv'
    OBVIOUS
  <2>1. CASE HandleWriteRequest
    <3>1. answers # <<>> /\ input' = <<Head(answers)>> /\ answers' = Tail(answers)
      BY <2>1 DEF HandleWriteRequest, NextResponse
    <3>2. Head(answers) \in Messages /\ Tail(answers) \in Seq(Messages)
      BY <3>1 DEF InputInv
    <3>3. input' \in Seq(Messages) /\ Len(input') > 0
      BY <3>1, <3>2
    <3> QED BY <3>1, <3>2, <3>3 DEF InputInv
  <2>2. CASE Read
    BY <2>2 DEF Read, BeginParse, Execute, EndParse, InputInv
  <2>3. CASE UNCHANGED vars
    BY <2>3 DEF vars, InputInv
  <2> QED
    BY <2>1, <2>2, <2>3 DEF ConversationNext, allVars, BadRequest, GoodRequest, BadResponse,
                            RedirectNowhere, Redirect, Respond
<1> QED BY <1>1, <1>2, PTL DEF ConversationSpec

(* Both, for the url of a message. *)
LEMMA UrlsFound ==
  ASSUME NEW m \in Messages, NEW garbage \in Garbage PROVE FieldsRight(m, ParseUrl(m.url, garbage))
<1>1. PICK url : url = m.url
  OBVIOUS
<1>2. url \in Seq(STRING) /\ (m.wellformed => AreParts(m.parts) /\ url = WriteUrl(m.parts))
  BY <1>1, MessageAssumption
<1>3. PICK r : r = ParseUrl(url, garbage)
  OBVIOUS
<1>4. FieldsWithin(url, r.fields)
  BY <1>1, <1>2, <1>3, FieldsStayWithin
<1>5. ASSUME m.wellformed PROVE r.ok /\ [f \in DOMAIN r.fields |-> Text(url, r.fields[f])] = m.parts
  BY <1>2, <1>3, <1>5, WellFormedFound
<1> QED BY <1>1, <1>3, <1>4, <1>5 DEF FieldsRight

(* In every conversation the fields of an url are found as they were       *)
(* written if it is well-formed, and lie in it, apart, if it is not.       *)
THEOREM FieldsFound == ConversationSpec => []FieldsAsWritten
<1>1. InputInv => FieldsAsWritten
  <2> SUFFICES ASSUME InputInv, NEW garbage \in Garbage
               PROVE  FieldsRight(input[1], ParseUrl(input[1].url, garbage))
    BY DEF FieldsAsWritten
  <2>1. input[1] \in Messages
    BY DEF InputInv
  <2> QED BY <2>1, UrlsFound
<1> QED BY <1>1, InputInvariant, PTL
=============================================================================
