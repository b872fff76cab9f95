-------------------------- MODULE ConnectionProofs --------------------------
(***************************************************************************)
(* Theorems about Connection, for any clients, files, requests, redirects, *)
(* sizes of messages and sizes of the cache and the pool: a connection has *)
(* one owner at a time, its socket to webhdfs is open while it is in use,  *)
(* and it gives one response, as Exchange allows.                          *)
(***************************************************************************)
EXTENDS Connection, SequenceTheorems, FiniteSetTheorems, TLAPS

(* The streams images are fetched into; all that LoadDoc is given.         *)
Sources == {Source(c) : c \in Conns}

Upstream == {"resolve", "connect", "write_request", "read_response"}

(* The stages of a connection; it is always in one of them.                *)
New(c) ==
  LET r == conn[c]
  IN  /\ ~r.started /\ r.op = {} /\ r.at = "idle" /\ ~pool!InPool(c)
      /\ r.content = NoStream /\ r.image = NoStream /\ r.sent = <<>>

Reading(c) ==
  LET r == conn[c]
  IN  /\ r.started /\ r.op = {"read_request"} /\ r.at = "idle" /\ ~pool!InPool(c)
      /\ r.content = NoStream /\ r.image = NoStream /\ r.sent = <<>>

Asking(c) ==
  LET r == conn[c]
  IN  /\ r.started /\ r.at = "idle" /\ ~pool!InPool(c) /\ r.sent = <<>>
      /\ \E name \in Upstream : r.op = {name}
      /\ r.content = Source(c) /\ r.image = Source(c)
      /\ r.image_path \in Paths /\ r.webhdfs_path \in Paths
      /\ r.op # {"resolve"} => r.open
      /\ r.op = {"read_response"} /\ HeadersComplete(r.received) => r.code = 200

Loading(c) ==
  LET r == conn[c]
  IN  /\ r.started /\ r.op = {} /\ r.at \in {"load", "put"} /\ ~pool!InPool(c) /\ r.sent = <<>>
      /\ r.image_path \in Paths
      /\ r.image \in Sources /\ r.content \in {NoStream, Source(c)}
      /\ r.content # NoStream => r.image = r.content
      /\ r.at = "put" => r.page = r.image

Painting(c) ==
  LET r == conn[c]
  IN  /\ r.started /\ r.op = {} /\ r.sent = <<>>
      /\ IF pool!InPool(c) THEN r.at \in {"idle", "close"} ELSE r.at \in {"add", "push"}
      /\ r.image_path \in Paths
      /\ r.image = Out(c) /\ stream[Out(c)] = EmptyStream
      /\ r.page \in Sources

Answering(c) ==
  LET r == conn[c]
  IN  /\ r.started /\ r.op = {"write_response"} /\ r.at \in {"idle", "close"}
      /\ ~pool!InPool(c)
      /\ r.sent # <<>>
      /\ r.status_code = 200 /\ r.image # NoStream =>
           /\ r.image = Out(c) /\ ~r.json
           /\ r.sent[1] = StatusLine(200) /\ r.sent[Len(r.sent)].kind # "last"

Over(c) ==
  LET r == conn[c]
  IN  /\ r.started /\ r.op = {} /\ r.at \in {"idle", "close"} /\ ~pool!InPool(c)
      /\ r.sent = <<>> => r.lost \/ (exit_requested /\ r.page # NoStream)

Stage(c) ==
  \/ New(c) \/ Reading(c) \/ Asking(c) \/ Loading(c) \/ Painting(c) \/ Answering(c) \/ Over(c)

(* The pool writes nothing else into the stream it renders into.           *)
Rendered(c) ==
  \A i \in 1..Len(stream[Out(c)].data) : stream[Out(c)].data[i] \in (Paths \cup {NoPath}) \X (1..OutParts)

(* A task is in the pool once.                                             *)
QueuedOnce ==
  /\ \A i, j \in 1..Len(tasks) : tasks[i] = tasks[j] => i = j
  /\ \A i \in 1..Len(tasks) : tasks[i] \notin rendering

ConnInv ==
  /\ TypeOK /\ OneResponse /\ QueuedOnce
  /\ \A k \in Paths : map[k] \in Sources \cup {NoStream}
  /\ \A c \in Conns : Stage(c) /\ Rendered(c)
----------------------------------------------------------------------------
(* The pool.                                                               *)

LEMMA AcceptEffect ==
  ASSUME pool!QueueTypeOK, QueuedOnce, NEW c \in Conns, pool!Accept(c)
  PROVE  /\ pool!QueueTypeOK' /\ QueuedOnce'
         /\ \A d \in Conns : pool!InPool(d)' <=> (pool!InPool(d) \/ d = c)
<1>1. pool!QueueTypeOK' /\ Len(tasks') = Len(tasks) + 1
  BY DEF pool!Accept, pool!QueueTypeOK
<1>2. \A i \in 1..Len(tasks) : tasks'[i] = tasks[i]
  BY DEF pool!Accept, pool!QueueTypeOK
<1>3. tasks'[Len(tasks) + 1] = c
  BY DEF pool!Accept, pool!QueueTypeOK
<1> HIDE DEF pool!QueueTypeOK
<1>4. rendering' = rendering /\ ~pool!InPool(c) /\ Len(tasks) \in Nat
  BY DEF pool!Accept, pool!QueueTypeOK
<1>5. QueuedOnce'
  BY <1>1, <1>2, <1>3, <1>4 DEF QueuedOnce, pool!InPool
<1>6. ASSUME NEW d \in Conns PROVE pool!InPool(d)' <=> (pool!InPool(d) \/ d = c)
  BY <1>1, <1>2, <1>3, <1>4 DEF pool!InPool
<1> QED BY <1>1, <1>5, <1>6

LEMMA TakeEffect ==
  ASSUME pool!QueueTypeOK, QueuedOnce, NEW c \in Conns, pool!Take(c)
  PROVE  /\ pool!QueueTypeOK' /\ QueuedOnce'
         /\ \A d \in Conns : pool!InPool(d)' <=> pool!InPool(d)
<1>1. /\ tasks # <<>> /\ c = tasks[1] /\ tasks' = Tail(tasks)
      /\ rendering' = rendering \cup {c} /\ UNCHANGED <<exit_requested, running>>
  BY DEF pool!Take, pool!QueueTypeOK
<1>2. /\ Len(tasks') = Len(tasks) - 1 /\ Len(tasks) \in Nat \ {0}
      /\ \A i \in 1..Len(tasks') : tasks'[i] = tasks[i + 1]
      /\ tasks' \in Seq(Conns)
  BY <1>1 DEF pool!QueueTypeOK
<1>3. pool!QueueTypeOK'
  BY <1>1, <1>2 DEF pool!QueueTypeOK
<1>4. QueuedOnce'
  BY <1>1, <1>2 DEF QueuedOnce
<1>5. ASSUME NEW d \in Conns PROVE pool!InPool(d)' <=> pool!InPool(d)
  <2>1. \A i \in 1..Len(tasks) : i = 1 \/ (i - 1 \in 1..Len(tasks') /\ tasks[i] = tasks'[i - 1])
    BY <1>2
  <2>2. \A i \in 1..Len(tasks') : i + 1 \in 1..Len(tasks)
    BY <1>2
  <2> QED BY <1>1, <1>2, <2>1, <2>2 DEF pool!InPool
<1> QED BY <1>3, <1>4, <1>5

LEMMA AnswerEffect ==
  ASSUME pool!QueueTypeOK, QueuedOnce, NEW c \in Conns, pool!Answer(c)
  PROVE  /\ pool!QueueTypeOK' /\ QueuedOnce'
         /\ \A d \in Conns : pool!InPool(d)' <=> (pool!InPool(d) /\ d # c)
<1>1. pool!QueueTypeOK' /\ QueuedOnce'
  BY DEF pool!Answer, pool!QueueTypeOK, QueuedOnce
<1>2. ASSUME NEW d \in Conns PROVE pool!InPool(d)' <=> (pool!InPool(d) /\ d # c)
  BY DEF pool!Answer, QueuedOnce, pool!InPool
<1> QED BY <1>1, <1>2

LEMMA StopEffect ==
  ASSUME pool!QueueTypeOK, QueuedOnce, pool!Stop \/ pool!Discard \/ pool!Join
  PROVE  /\ pool!QueueTypeOK' /\ QueuedOnce' /\ exit_requested'
         /\ \A d \in Conns : pool!InPool(d)' => pool!InPool(d)
<1>1. CASE pool!Stop
  BY <1>1 DEF pool!Stop, pool!QueueTypeOK, QueuedOnce, pool!InPool
<1>2. CASE pool!Join
  BY <1>2 DEF pool!Join, pool!QueueTypeOK, QueuedOnce, pool!InPool
<1>3. CASE pool!Discard
  <2>1. /\ tasks # <<>> /\ tasks' = Tail(tasks) /\ exit_requested
        /\ UNCHANGED <<rendering, exit_requested, running>>
    BY <1>3 DEF pool!Discard
  <2>2. /\ Len(tasks') = Len(tasks) - 1 /\ Len(tasks) \in Nat \ {0}
        /\ \A i \in 1..Len(tasks') : tasks'[i] = tasks[i + 1]
        /\ tasks' \in Seq(Conns)
    BY <2>1 DEF pool!QueueTypeOK
  <2>3. pool!QueueTypeOK' /\ QueuedOnce'
    BY <2>1, <2>2 DEF pool!QueueTypeOK, QueuedOnce
  <2>4. ASSUME NEW d \in Conns, pool!InPool(d)' PROVE pool!InPool(d)
    BY <2>1, <2>2, <2>4 DEF pool!InPool
  <2> QED BY <2>1, <2>3, <2>4
<1> QED BY <1>1, <1>2, <1>3
----------------------------------------------------------------------------
(* Streams.                                                                *)

LEMMA EmptyType == \A S : EmptyStream \in StreamsOver(S)
  BY DEF EmptyStream, StreamsOver

LEMMA WriteType ==
  ASSUME NEW S, NEW s \in StreamsOver(S), NEW bytes \in Seq(S)
  PROVE  /\ Write(s, bytes) \in StreamsOver(S)
         /\ s.data # <<>> => Write(s, bytes).data # <<>>
<1>1. s.data \o bytes \in Seq(S) /\ Len(s.data \o bytes) = Len(s.data) + Len(bytes)
  BY DEF StreamsOver
<1>2. s.data # <<>> => s.data \o bytes # <<>>
  BY DEF StreamsOver
<1> QED BY <1>1, <1>2 DEF Write, StreamsOver, Size

LEMMA RewindType ==
  ASSUME NEW S, NEW s \in StreamsOver(S)
  PROVE  /\ Rewind(s) \in StreamsOver(S) /\ Rewind(s).data = s.data /\ Rewind(s).offset = 0
  BY DEF Rewind, Seek, Size, StreamsOver

LEMMA ReadType ==
  ASSUME NEW S, NEW s \in StreamsOver(S), NEW n \in Nat
  PROVE  /\ AfterRead(s, n) \in StreamsOver(S) /\ AfterRead(s, n).data = s.data
         /\ ReadBytes(s, n) # <<>> => s.offset < Size(s) /\ ReadBytes(s, n)[1] = s.data[s.offset + 1]
<1>1. AfterRead(s, n) \in StreamsOver(S) /\ AfterRead(s, n).data = s.data
  BY DEF AfterRead, Available, Size, StreamsOver
<1>2. s.data \in Seq(S) /\ s.offset \in Nat /\ Size(s) = Len(s.data) /\ Len(s.data) \in Nat
  BY DEF StreamsOver, Size
<1>3. CASE s.offset < Size(s) /\ n > 0
  <2>1. Available(s, n) \in Nat \ {0} /\ s.offset + Available(s, n) <= Len(s.data)
    BY <1>2, <1>3 DEF Available
  <2> HIDE DEF Available
  <2> QED BY <1>1, <1>2, <1>3, <2>1 DEF ReadBytes
<1>4. CASE ~(s.offset < Size(s) /\ n > 0)
  <2>1. Available(s, n) \in Int /\ Available(s, n) <= 0
    BY <1>2, <1>4 DEF Available
  <2> HIDE DEF Available
  <2>2. SubSeq(s.data, s.offset + 1, s.offset + Available(s, n)) = <<>>
    BY <1>2, <2>1, SubSeqEmpty
  <2> QED BY <1>1, <2>2 DEF ReadBytes
<1> QED BY <1>1, <1>3, <1>4
----------------------------------------------------------------------------
(* Records.                                                                *)

LEMMA Becomes ==
  ASSUME conn \in [Conns -> Connections], NEW c \in Conns, NEW q \in Connections, Become(c, q)
  PROVE  /\ conn' \in [Conns -> Connections] /\ conn'[c] = q
         /\ \A d \in Conns \ {c} : conn'[d] = conn[d]
  BY DEF Become

LEMMA FiredFields ==
  ASSUME NEW c \in Conns, conn[c] \in Connections, NEW name
  PROVE  /\ Fired(c, name) \in Connections
         /\ Fired(c, name) = [conn[c] EXCEPT !.op = @ \ {name}]
  BY DEF Fired, Connections

LEMMA BeginType ==
  \A r \in Connections : \A name \in Operations : Begin(r, name) \in Connections
  BY DEF Begin, Connections

(* SendResponse leaves alone the fields it does not set.                   *)
Kept(q, r) ==
  /\ (q.started <=> r.started) /\ (q.json <=> r.json) /\ (q.open <=> r.open)
  /\ (q.lost <=> r.lost) /\ q.at = r.at /\ q.received = r.received /\ q.code = r.code
  /\ q.content = r.content /\ q.webhdfs_path = r.webhdfs_path /\ q.image_path = r.image_path
  /\ q.page = r.page

LEMMA BeginFields ==
  ASSUME NEW r \in Connections, NEW name \in Operations, NEW q, q = Begin(r, name)
  PROVE  /\ q \in Connections /\ Kept(q, r) /\ q.op = r.op \cup {name}
         /\ q.image = r.image /\ q.status_code = r.status_code /\ q.sent = r.sent
         /\ q.torn = r.torn
<1>1. q \in Connections
  BY BeginType
<1> QED BY <1>1 DEF Begin, Connections, Kept

LEMMA ResponseFields ==
  ASSUME NEW r \in Connections, NEW code \in Nat, NEW size
  PROVE  \E q \in Connections :
           /\ q = SendResponse(r, code, size)
           /\ Kept(q, r)
           /\ q.op = r.op \cup {"write_response"}
           /\ q.status_code \in {code, 500}
           /\ q.sent = Append(r.sent, StatusLine(q.status_code))
           /\ q.image \in {NoStream, r.image}
           /\ q.image # NoStream => code = 200 /\ ~r.json
           /\ q.torn = r.torn
<1> DEFINE pixels == code = 200 /\ ~r.json
           final == IF pixels /\ (r.image = NoStream \/ size = 0) THEN 500 ELSE code
           image == IF pixels THEN r.image ELSE NoStream
           f == [r EXCEPT !.image = image, !.status_code = final,
                          !.sent = Append(@, StatusLine(final))]
           q == Begin(f, "write_response")
<1>1. final \in {code, 500} /\ image \in {NoStream, r.image} /\ (image # NoStream => pixels)
      /\ final \in Nat
  OBVIOUS
<1>2. Append(r.sent, StatusLine(final)) \in Seq(Item)
  BY <1>1 DEF StatusLine, Item, Connections
<1>3. q = SendResponse(r, code, size)
  BY DEF SendResponse
<1> HIDE DEF final, image, pixels
<1>4. f \in Connections
  BY <1>1, <1>2 DEF Connections
<1>5. q \in Connections
  BY <1>4, BeginType DEF Operations
<1>6. /\ Kept(f, r) /\ f.status_code = final /\ f.image = image /\ f.op = r.op
      /\ f.sent = Append(r.sent, StatusLine(final)) /\ f.torn = r.torn
  BY DEF Connections, Kept
<1> HIDE DEF f
<1>7. /\ Kept(q, f) /\ q.op = f.op \cup {"write_response"} /\ q.status_code = f.status_code
      /\ q.image = f.image /\ q.sent = f.sent /\ q.torn = f.torn
  BY <1>4 DEF Connections, Kept, Begin
<1> HIDE DEF q
<1>8. Kept(q, r)
  BY <1>6, <1>7 DEF Kept
<1> QED BY <1>1, <1>3, <1>5, <1>6, <1>7, <1>8 DEF pixels

LEMMA WhichStage ==
  ASSUME NEW c \in Conns, Stage(c)
  PROVE  /\ ~conn[c].started => New(c)
         /\ "read_request" \in conn[c].op => Reading(c)
         /\ conn[c].op \cap Upstream # {} => Asking(c)
         /\ conn[c].at \in {"load", "put"} => Loading(c)
         /\ conn[c].at \in {"add", "push"} \/ pool!InPool(c) => Painting(c)
         /\ "write_response" \in conn[c].op => Answering(c)
<1>1. New(c) => /\ conn[c].op = {} /\ conn[c].at = "idle" /\ ~pool!InPool(c)
  BY DEF New
<1>2. Reading(c) => /\ conn[c].started /\ conn[c].op = {"read_request"} /\ conn[c].at = "idle" /\ ~pool!InPool(c)
  BY DEF Reading
<1>3. Asking(c) => /\ conn[c].started /\ conn[c].at = "idle" /\ ~pool!InPool(c)
                   /\ \E name \in Upstream : conn[c].op = {name}
  BY DEF Asking
<1>4. Loading(c) => /\ conn[c].started /\ conn[c].op = {} /\ conn[c].at \in {"load", "put"} /\ ~pool!InPool(c)
  BY DEF Loading
<1>5. Painting(c) => /\ conn[c].started /\ conn[c].op = {} /\ conn[c].at \notin {"load", "put"}
  BY DEF Painting
<1>6. Answering(c) => /\ conn[c].started /\ conn[c].op = {"write_response"} /\ conn[c].at \in {"idle", "close"} /\ ~pool!InPool(c)
  BY DEF Answering
<1>7. Over(c) => /\ conn[c].started /\ conn[c].op = {} /\ conn[c].at \in {"idle", "close"} /\ ~pool!InPool(c)
  BY DEF Over
<1> QED BY <1>1, <1>2, <1>3, <1>4, <1>5, <1>6, <1>7 DEF Stage, Upstream

(* A step of another connection.                                           *)
LEMMA Elsewhere ==
  ASSUME NEW c \in Conns, Stage(c), conn'[c] = conn[c],
         pool!InPool(c)' <=> pool!InPool(c), exit_requested => exit_requested',
         stream'[Out(c)] = stream[Out(c)]
  PROVE  Stage(c)'
<1> USE DEF Stage
<1>1. (New(c) => New(c)') /\ (Reading(c) => Reading(c)') /\ (Asking(c) => Asking(c)')
  BY DEF New, Reading, Asking
<1>2. (Loading(c) => Loading(c)') /\ (Painting(c) => Painting(c)')
  BY DEF Loading, Painting
<1>3. (Answering(c) => Answering(c)') /\ (Over(c) => Over(c)')
  BY DEF Answering, Over
<1> QED BY <1>1, <1>2, <1>3
----------------------------------------------------------------------------
(* What a step of c makes of the connections.                              *)

ReplyCodes == {200, 400, 404, 500} \cup UpstreamCodes
BodyItems == {Chunk(b) : b \in (Paths \cup {NoPath}) \X (1..OutParts)} \cup {LastChunk}

Says(c) ==
  \/ /\ conn'[c].sent = conn[c].sent
     /\ conn[c].sent # <<>> => conn'[c].json = conn[c].json
  \/ /\ conn[c].sent = <<>>
     /\ \E code \in ReplyCodes : conn'[c].sent = Append(conn[c].sent, StatusLine(code))
     /\ conn'[c].op # {}
  \/ /\ conn[c].sent # <<>> /\ conn[c].sent[1] = StatusLine(200)
     /\ conn[c].sent[Len(conn[c].sent)].kind # "last" /\ ~conn'[c].json
     /\ \E item \in BodyItems : conn'[c].sent = Append(conn[c].sent, item)
     /\ conn'[c].op # {}

Moves(c) ==
  /\ conn' \in [Conns -> Connections]
  /\ \A d \in Conns \ {c} : conn'[d] = conn[d]
  /\ Stage(c)' /\ conn'[c].started /\ Says(c)

LEMMA MovesSilently ==
  ASSUME ConnInv, NEW c \in Conns, NEW q \in Connections, Become(c, q), Stage(c)',
         q.started, q.sent = conn[c].sent, q.sent # <<>> => q.json = conn[c].json
  PROVE  Moves(c)
<1>1. conn \in [Conns -> Connections]
  BY DEF ConnInv, TypeOK
<1> QED BY <1>1, Becomes DEF Moves, Says

LEMMA MovesToReply ==
  ASSUME ConnInv, NEW c \in Conns, NEW q \in Connections, Become(c, q),
         conn[c].sent = <<>>, ~pool!InPool(c)',
         q.started, q.op = {"write_response"}, q.at \in {"idle", "close"},
         q.status_code \in ReplyCodes, q.sent = Append(conn[c].sent, StatusLine(q.status_code)),
         q.image \in {NoStream, Out(c)}, q.image # NoStream => ~q.json
  PROVE  Moves(c)
<1>1. conn' \in [Conns -> Connections] /\ conn'[c] = q /\ \A d \in Conns \ {c} : conn'[d] = conn[d]
  BY Becomes DEF ConnInv, TypeOK
<1>2. q.sent # <<>> /\ Len(q.sent) = 1 /\ q.sent[1] = StatusLine(q.status_code)
  OBVIOUS
<1>3. q.sent[1].kind # "last"
  BY <1>2 DEF StatusLine
<1>4. Answering(c)'
  BY <1>1, <1>2, <1>3 DEF Answering
<1> QED BY <1>1, <1>4 DEF Moves, Says, Stage

(* SendResponse with an answer that has no image.                          *)
LEMMA RefusalFields ==
  ASSUME NEW r \in Connections, r.started, r.op = {}, r.sent = <<>>, NEW code \in ReplyCodes \ {200}
  PROVE  \E f \in Connections :
           /\ f = Refuse(r, code) /\ f.started /\ f.at = r.at
           /\ f.op = {"write_response"} /\ f.image = NoStream
           /\ f.status_code \in ReplyCodes /\ f.sent = Append(<<>>, StatusLine(f.status_code))
<1>1. code \in Nat /\ 500 \in ReplyCodes
  BY ConnectionAssumption DEF ReplyCodes
<1>2. PICK f \in Connections :
        /\ f = SendResponse(r, code, 0) /\ Kept(f, r)
        /\ f.op = r.op \cup {"write_response"} /\ f.image \in {NoStream, r.image}
        /\ f.image # NoStream => code = 200 /\ ~r.json
        /\ f.status_code \in {code, 500} /\ f.sent = Append(r.sent, StatusLine(f.status_code))
  BY <1>1, ResponseFields
<1>3. f.started /\ f.at = r.at
  BY <1>2 DEF Kept
<1>4. f.op = {"write_response"} /\ f.image = NoStream
      /\ f.status_code \in ReplyCodes /\ f.sent = Append(<<>>, StatusLine(f.status_code))
  BY <1>1, <1>2
<1> QED BY <1>2, <1>3, <1>4 DEF Refuse

LEMMA MovesToRefusal ==
  ASSUME ConnInv, NEW c \in Conns, NEW r \in Connections, conn[c].sent = <<>>,
         ~pool!InPool(c)', r.started, r.op = {}, r.sent = <<>>, r.at \in {"idle", "close"},
         NEW code \in ReplyCodes \ {200}, Become(c, Refuse(r, code))
  PROVE  Moves(c)
<1>1. PICK f \in Connections :
           /\ f = Refuse(r, code) /\ f.started /\ f.at = r.at
           /\ f.op = {"write_response"} /\ f.image = NoStream
           /\ f.status_code \in ReplyCodes /\ f.sent = Append(<<>>, StatusLine(f.status_code))
  BY RefusalFields
<1>2. Become(c, f)
  BY <1>1
<1>3. f.at \in {"idle", "close"} /\ f.sent = Append(conn[c].sent, StatusLine(f.status_code))
  BY <1>1
<1>4. f.image \in {NoStream, Out(c)} /\ (f.image # NoStream => ~f.json)
  BY <1>1
<1>5. f.started /\ f.op = {"write_response"} /\ f.status_code \in ReplyCodes
  BY <1>1
<1> QED BY <1>2, <1>3, <1>4, <1>5, MovesToReply

LEMMA MovesToRefusalAt ==
  ASSUME ConnInv, NEW c \in Conns, NEW r \in Connections, conn[c].sent = <<>>,
         ~pool!InPool(c)', r.started, r.op = {}, r.sent = <<>>, NEW at \in {"idle", "close"},
         NEW code \in ReplyCodes \ {200}, Become(c, [Refuse(r, code) EXCEPT !.at = at])
  PROVE  Moves(c)
<1>1. PICK f \in Connections :
           /\ f = Refuse(r, code) /\ f.started /\ f.at = r.at
           /\ f.op = {"write_response"} /\ f.image = NoStream
           /\ f.status_code \in ReplyCodes /\ f.sent = Append(<<>>, StatusLine(f.status_code))
  BY RefusalFields
<1>2. PICK q : q = [f EXCEPT !.at = at]
  OBVIOUS
<1>3. /\ q \in Connections /\ q.at = at
      /\ (q.started <=> f.started) /\ q.op = f.op /\ q.image = f.image
      /\ q.status_code = f.status_code /\ q.sent = f.sent
  BY <1>2 DEF Connections, Positions
<1>4. Become(c, q)
  BY <1>1, <1>2
<1>5. /\ q.started /\ q.op = {"write_response"} /\ q.image = NoStream
      /\ q.status_code \in ReplyCodes /\ q.sent = Append(conn[c].sent, StatusLine(q.status_code))
  BY <1>1, <1>3
<1> QED BY <1>1, <1>3, <1>4, <1>5, MovesToReply

LEMMA MovesToEnd ==
  ASSUME ConnInv, NEW c \in Conns, NEW name \in Operations, conn[c].started, conn[c].op = {name},
         conn[c].at \in {"idle", "close"}, ~pool!InPool(c), GiveUp(c, Fired(c, name))
  PROVE  Moves(c)
<1>1. conn[c] \in Connections
  BY DEF ConnInv, TypeOK
<1> DEFINE q == [Fired(c, name) EXCEPT !.lost = TRUE]
<1>2. /\ q \in Connections /\ q.op = {} /\ q.started /\ q.at = conn[c].at /\ q.lost
      /\ q.sent = conn[c].sent /\ q.json = conn[c].json
  <2>1. Fired(c, name) \in Connections /\ Fired(c, name) = [conn[c] EXCEPT !.op = @ \ {name}]
    BY <1>1, FiredFields
  <2>2. q = [conn[c] EXCEPT !.op = @ \ {name}, !.lost = TRUE]
    BY <2>1
  <2> HIDE DEF q
  <2> QED BY <1>1, <2>2 DEF Connections
<1> HIDE DEF q
<1>3. Become(c, q) /\ UNCHANGED poolVars
  BY DEF GiveUp, q
<1>4. conn'[c] = q /\ ~pool!InPool(c)'
  BY <1>2, <1>3, Becomes DEF ConnInv, TypeOK, poolVars, pool!InPool
<1>5. Over(c)'
  BY <1>2, <1>4 DEF Over
<1> QED BY <1>2, <1>3, <1>5, MovesSilently DEF Stage

(* An exception leaves a handler that has no operation pending.            *)
LEMMA MovesAway ==
  ASSUME ConnInv, NEW c \in Conns, NEW r \in Connections, r.started, r.op = {},
         r.sent = conn[c].sent, conn[c].sent = <<>>, ~pool!InPool(c)',
         Become(c, [r EXCEPT !.at = "idle", !.lost = TRUE])
  PROVE  Moves(c)
<1>1. PICK q : q = [r EXCEPT !.at = "idle", !.lost = TRUE]
  OBVIOUS
<1>2. /\ q \in Connections /\ q.started /\ q.op = {} /\ q.at = "idle" /\ q.lost
      /\ q.sent = conn[c].sent
  BY <1>1 DEF Connections, Positions
<1>3. Become(c, q) /\ conn'[c] = q
  BY <1>1, <1>2, Becomes DEF ConnInv, TypeOK
<1>4. Over(c)'
  BY <1>2, <1>3 DEF Over
<1> QED BY <1>2, <1>3, <1>4, MovesSilently DEF Stage
----------------------------------------------------------------------------
(* What a step makes of the streams: only the pool writes a rendering.     *)
StreamsTyped(f) == f \in [Streams -> StreamsOver(Bytes)]

Grows(f, g) ==
  /\ StreamsTyped(g)
  /\ \A d \in Conns : g[Out(d)] = f[Out(d)]

LEMMA StreamNames ==
  /\ \A s \in Sources, d \in Conns : s # Out(d)
  /\ \A c, d \in Conns : (Out(c) = Out(d) => c = d) /\ (Source(c) = Source(d) => c = d)
  /\ \A c \in Conns : Source(c) \in Sources /\ Out(c) \in Streams
  /\ Sources \subseteq Streams /\ NoStream \notin Streams
  BY StreamAssumption DEF Sources, Source, Out, Streams

LEMMA RewindGrows ==
  ASSUME NEW f, StreamsTyped(f), NEW s \in Sources
  PROVE  Grows(f, [f EXCEPT ![s] = Rewind(@)])
<1>1. f[s] \in StreamsOver(Bytes)
  BY StreamNames DEF StreamsTyped
<1>2. Rewind(f[s]) \in StreamsOver(Bytes) /\ Rewind(f[s]).data = f[s].data
  BY <1>1, RewindType
<1> QED BY <1>2, StreamNames DEF Grows, StreamsTyped

LEMMA WriteGrows ==
  ASSUME NEW f, StreamsTyped(f), NEW s \in Sources, NEW bytes \in Seq(Bytes)
  PROVE  Grows(f, [f EXCEPT ![s] = Write(@, bytes)])
<1>1. f[s] \in StreamsOver(Bytes)
  BY StreamNames DEF StreamsTyped
<1>2. /\ Write(f[s], bytes) \in StreamsOver(Bytes)
      /\ f[s].data # <<>> => Write(f[s], bytes).data # <<>>
  BY <1>1, WriteType
<1> QED BY <1>2, StreamNames DEF Grows, StreamsTyped

LEMMA ReadGrows ==
  ASSUME NEW f, StreamsTyped(f), NEW s \in Sources, NEW n \in Nat
  PROVE  Grows(f, [f EXCEPT ![s] = AfterRead(@, n)])
<1>1. f[s] \in StreamsOver(Bytes)
  BY StreamNames DEF StreamsTyped
<1>2. AfterRead(f[s], n) \in StreamsOver(Bytes) /\ AfterRead(f[s], n).data = f[s].data
  BY <1>1, ReadType
<1> QED BY <1>2, StreamNames DEF Grows, StreamsTyped

LEMMA ToEndGrows ==
  ASSUME NEW f, StreamsTyped(f), NEW s \in Sources
  PROVE  Grows(f, [f EXCEPT ![s] = ToItsEnd(@)])
<1>1. f[s] \in StreamsOver(Bytes) /\ Size(f[s]) \in Nat
  BY StreamNames DEF StreamsTyped, StreamsOver, Size
<1>2. ToItsEnd(f[s]) \in StreamsOver(Bytes) /\ ToItsEnd(f[s]).data = f[s].data
  BY <1>1, ReadType DEF ToItsEnd
<1> QED BY <1>2, StreamNames DEF Grows, StreamsTyped

LEMMA GrowsOn ==
  ASSUME NEW f, NEW g, NEW h, StreamsTyped(f), Grows(f, g), Grows(g, h)
  PROVE  Grows(f, h)
  BY DEF Grows
----------------------------------------------------------------------------
(* The operations of a connection, one by one.                             *)

LEMMA StartMoves ==
  ASSUME ConnInv, NEW c \in Conns, Start(c)
  PROVE  Moves(c)
<1> DEFINE q == Begin([conn[c] EXCEPT !.started = TRUE], "read_request")
<1>1. New(c) /\ conn[c] \in Connections
  BY WhichStage DEF ConnInv, TypeOK, Start
<1>2. /\ q \in Connections /\ q.started /\ q.op = {"read_request"} /\ q.at = "idle"
      /\ q.content = NoStream /\ q.image = NoStream /\ q.sent = <<>>
  BY <1>1 DEF New, Begin, Connections, Operations
<1> HIDE DEF q
<1>3. Become(c, q) /\ UNCHANGED poolVars
  BY DEF Start, q
<1>4. conn'[c] = q /\ ~pool!InPool(c)'
  BY <1>1, <1>2, <1>3, Becomes DEF ConnInv, TypeOK, New, poolVars, pool!InPool
<1>5. Reading(c)'
  BY <1>2, <1>4 DEF Reading
<1> QED BY <1>1, <1>2, <1>3, <1>5, MovesSilently DEF Stage, New

LEMMA ReadRequestMoves ==
  ASSUME ConnInv, NEW c \in Conns,
         ReadRequestFails(c) \/ ReadRequestInvalid(c) \/ ReadRequestMore(c)
  PROVE  Moves(c)
<1>1. Reading(c) /\ conn[c] \in Connections /\ "read_request" \in Operations
  BY WhichStage DEF ConnInv, TypeOK, ReadRequestFails, ReadRequestInvalid, ReadRequestMore,
                    Operations
<1> DEFINE r == Fired(c, "read_request")
<1>2. /\ r \in Connections /\ r.op = {} /\ r.started /\ r.at = "idle" /\ r.sent = <<>>
      /\ r.content = NoStream /\ r.image = NoStream /\ r.received \in Nat
      /\ conn[c].sent = <<>>
  BY <1>1 DEF Reading, Fired, Connections
<1> HIDE DEF r
<1>3. CASE ReadRequestFails(c)
  <2>1. GiveUp(c, Fired(c, "read_request"))
    BY <1>3 DEF ReadRequestFails
  <2> QED BY <1>1, <2>1, MovesToEnd DEF Reading
<1>4. CASE ReadRequestInvalid(c)
  <2>1. r.at \in {"idle", "close"} /\ 400 \in ReplyCodes \ {200}
    BY <1>2 DEF ReplyCodes
  <2>2. ~pool!InPool(c)' /\ Become(c, Refuse(r, 400))
    BY <1>1, <1>4 DEF ReadRequestInvalid, Reading, poolVars, pool!InPool, r
  <2> QED BY <1>2, <2>1, <2>2, MovesToRefusal
<1>5. CASE ReadRequestMore(c)
  <2>1. PICK n \in 1..(HeaderFrags - conn[c].received - 1) :
          Become(c, Begin([r EXCEPT !.received = @ + n], "read_request"))
    BY <1>5 DEF ReadRequestMore, r
  <2>2. PICK f : f = [r EXCEPT !.received = @ + n]
    OBVIOUS
  <2>3. /\ f \in Connections /\ f.op = {} /\ f.started /\ f.at = "idle"
        /\ f.sent = <<>> /\ f.content = NoStream /\ f.image = NoStream
    <3>1. r.received + n \in Nat
      BY <1>1, <1>2, ConnectionAssumption DEF Connections
    <3> QED BY <1>2, <2>2, <3>1 DEF Connections
  <2>4. PICK q : q = Begin(f, "read_request")
    OBVIOUS
  <2>5. /\ q \in Connections /\ Kept(q, f) /\ q.op = f.op \cup {"read_request"}
        /\ q.image = f.image /\ q.sent = f.sent
    BY <1>1, <2>3, <2>4, BeginFields
  <2>6. conn'[c] = q /\ Become(c, q)
    BY <2>1, <2>2, <2>4, <2>5, Becomes DEF ConnInv, TypeOK
  <2>7. ~pool!InPool(c)'
    BY <1>1, <1>5 DEF ReadRequestMore, Reading, poolVars, pool!InPool
  <2>8. Reading(c)'
    BY <2>3, <2>5, <2>6, <2>7 DEF Reading, Kept
  <2> QED BY <1>2, <2>3, <2>5, <2>6, <2>8, MovesSilently DEF Stage, Kept
<1> QED BY <1>3, <1>4, <1>5

LEMMA MovesToAsk ==
  ASSUME ConnInv, NEW c \in Conns, conn[c].sent = <<>>, ~pool!InPool(c)',
         NEW q \in Connections, Become(c, q), NEW name \in Upstream,
         q.started, q.op = {name}, q.at = "idle", q.sent = <<>>,
         q.content = Source(c), q.image = Source(c),
         q.image_path \in Paths, q.webhdfs_path \in Paths,
         name # "resolve" => q.open,
         name = "read_response" /\ HeadersComplete(q.received) => q.code = 200
  PROVE  Moves(c)
<1>1. conn'[c] = q
  BY Becomes DEF ConnInv, TypeOK
<1>2. HeadersComplete(q.received)' <=> HeadersComplete(q.received)
  BY DEF HeadersComplete
<1>3. Asking(c)'
  BY <1>1, <1>2 DEF Asking, HeadersComplete
<1> QED BY <1>3, MovesSilently DEF Stage

LEMMA SendRequestMoves ==
  ASSUME ConnInv, NEW c \in Conns, conn[c].sent = <<>>, ~pool!InPool(c)',
         NEW r \in Connections, r.started, r.op = {}, r.at = "idle", r.sent = <<>>,
         r.image \in {NoStream, Source(c)}, r.image = NoStream => r.content = NoStream,
         r.image # NoStream => r.image_path \in Paths,
         NEW p \in Paths, NEW str, SendRequest(c, r, p, str)
  PROVE  Moves(c)
<1>1. CASE p = Favicon /\ Become(c, Refuse(r, 404))
  <2>1. 404 \in ReplyCodes \ {200} /\ r.at \in {"idle", "close"}
    BY DEF ReplyCodes
  <2> QED BY <1>1, <2>1, MovesToRefusal
<1>2. ASSUME r.image = NoStream, NEW hit \in cache!Get(p),
             LET image == IF hit = NoStream THEN Source(c) ELSE hit
                 q == [r EXCEPT !.webhdfs_path = p, !.image_path = p, !.image = image]
             IN  Become(c, IF hit = NoStream
                           THEN Begin([q EXCEPT !.content = image], "resolve")
                           ELSE [q EXCEPT !.at = "load"])
      PROVE  Moves(c)
  <2>1. hit \in Sources \cup {NoStream}
    BY DEF cache!Get, ConnInv
  <2>2. CASE hit = NoStream
    <3>1. PICK f : f = [r EXCEPT !.webhdfs_path = p, !.image_path = p, !.image = Source(c),
                                 !.content = Source(c)]
      OBVIOUS
    <3>2. /\ f \in Connections /\ f.started /\ f.op = {} /\ f.at = "idle" /\ f.sent = <<>>
          /\ f.content = Source(c) /\ f.image = Source(c)
          /\ f.image_path = p /\ f.webhdfs_path = p
      BY <3>1, StreamNames DEF Connections
    <3>3. PICK q : q = Begin(f, "resolve")
      OBVIOUS
    <3>4. /\ q \in Connections /\ Kept(q, f) /\ q.op = f.op \cup {"resolve"}
          /\ q.image = f.image /\ q.sent = f.sent
      BY <3>2, <3>3, BeginFields DEF Operations
    <3>5. Become(c, q)
      BY <1>2, <2>2, <3>1, <3>3
    <3> QED BY <3>2, <3>4, <3>5, MovesToAsk DEF Kept, Upstream
  <2>3. CASE hit # NoStream
    <3>1. PICK q : q = [r EXCEPT !.webhdfs_path = p, !.image_path = p, !.image = hit,
                                 !.at = "load"]
      OBVIOUS
    <3>2. /\ q \in Connections /\ q.started /\ q.op = {} /\ q.at = "load" /\ q.sent = <<>>
          /\ q.content = NoStream /\ q.image = hit /\ q.image_path = p
      BY <1>2, <2>1, <2>3, <3>1, StreamNames DEF Connections, Positions
    <3>3. Become(c, q)
      BY <1>2, <2>3, <3>1
    <3>4. conn'[c] = q
      BY <3>2, <3>3, Becomes DEF ConnInv, TypeOK
    <3>5. Loading(c)'
      BY <2>1, <2>3, <3>2, <3>4 DEF Loading
    <3> QED BY <3>2, <3>3, <3>5, MovesSilently DEF Stage
  <2> QED BY <2>2, <2>3
<1>3. ASSUME r.image # NoStream,
             Become(c, Begin([r EXCEPT !.webhdfs_path = p, !.content = r.image], "resolve"))
      PROVE  Moves(c)
  <2>1. PICK f : f = [r EXCEPT !.webhdfs_path = p, !.content = r.image]
    OBVIOUS
  <2>2. /\ f \in Connections /\ f.started /\ f.op = {} /\ f.at = "idle" /\ f.sent = <<>>
        /\ f.content = Source(c) /\ f.image = Source(c)
        /\ f.image_path \in Paths /\ f.webhdfs_path = p
    BY <1>3, <2>1, StreamNames DEF Connections
  <2>3. PICK q : q = Begin(f, "resolve")
    OBVIOUS
  <2>4. /\ q \in Connections /\ Kept(q, f) /\ q.op = f.op \cup {"resolve"}
        /\ q.image = f.image /\ q.sent = f.sent
    BY <2>2, <2>3, BeginFields DEF Operations
  <2>5. Become(c, q)
    BY <1>3, <2>1, <2>3
  <2> QED BY <2>2, <2>4, <2>5, MovesToAsk DEF Kept, Upstream
<1> QED BY <1>1, <1>2, <1>3 DEF SendRequest

LEMMA SendRequestGrows ==
  ASSUME ConnInv, NEW c \in Conns, NEW r, r.image \in {NoStream, Source(c)}, NEW p \in Paths,
         NEW str, StreamsTyped(str), SendRequest(c, r, p, str)
  PROVE  stream' = str \/ Grows(str, stream')
<1>1. ASSUME NEW hit \in cache!Get(p),
             stream' = [str EXCEPT ![IF hit = NoStream THEN Source(c) ELSE hit] = Rewind(@)]
      PROVE  Grows(str, stream')
  <2>1. (IF hit = NoStream THEN Source(c) ELSE hit) \in Sources
    BY StreamNames DEF cache!Get, ConnInv
  <2> QED BY <1>1, <2>1, RewindGrows
<1>2. ASSUME r.image # NoStream, stream' = [str EXCEPT ![r.image] = Rewind(@)]
      PROVE  Grows(str, stream')
  <2>1. r.image \in Sources
    BY <1>2, StreamNames
  <2> QED BY <1>2, <2>1, RewindGrows
<1> QED BY <1>1, <1>2 DEF SendRequest

LEMMA FiredKept ==
  ASSUME NEW c \in Conns, conn[c] \in Connections, NEW name, NEW q, q = Fired(c, name)
  PROVE  /\ q \in Connections /\ Kept(q, conn[c]) /\ q.op = conn[c].op \ {name}
         /\ q.image = conn[c].image /\ q.status_code = conn[c].status_code
         /\ q.sent = conn[c].sent
<1>1. q \in Connections
  BY FiredFields
<1> QED BY <1>1 DEF Fired, Connections, Kept

LEMMA ReadRequestCompleteMoves ==
  ASSUME ConnInv, NEW c \in Conns, ReadRequestComplete(c)
  PROVE  Moves(c)
<1>1. Reading(c) /\ conn[c] \in Connections /\ ~pool!InPool(c)'
  <2>1. Reading(c) /\ conn[c] \in Connections
    BY WhichStage DEF ConnInv, TypeOK, ReadRequestComplete
  <2> QED BY <2>1 DEF ReadRequestComplete, Reading, poolVars, pool!InPool
<1>2. PICK q \in Requests :
        LET r == [Fired(c, "read_request") EXCEPT !.received = HeaderFrags, !.json = q.json]
        IN  \/ q.throws /\ GiveUp(c, [r EXCEPT !.json = FALSE])
            \/ /\ ~q.throws /\ (~q.get \/ q.path = NoPath)
               /\ Become(c, Refuse(r, 400)) /\ UNCHANGED stream
            \/ /\ ~q.throws /\ q.get /\ q.path # NoPath
               /\ SendRequest(c, [r EXCEPT !.webhdfs_path = q.path], q.path, stream)
  BY DEF ReadRequestComplete
<1>3. q.json \in BOOLEAN /\ q.path \in Paths \cup {NoPath}
  BY ConnectionAssumption DEF RequestSpace
<1>4. PICK f : f = Fired(c, "read_request")
  OBVIOUS
<1>5. /\ f \in Connections /\ Kept(f, conn[c]) /\ f.op = conn[c].op \ {"read_request"}
      /\ f.image = conn[c].image /\ f.sent = conn[c].sent
  BY <1>1, <1>4, FiredKept
<1>6. /\ f.started /\ f.op = {} /\ f.at = "idle" /\ f.sent = <<>> /\ f.content = NoStream
      /\ f.image = NoStream /\ conn[c].sent = <<>>
  BY <1>1, <1>5 DEF Reading, Kept
<1>7. CASE ~q.throws /\ (~q.get \/ q.path = NoPath)
  <2>1. PICK r : r = [f EXCEPT !.received = HeaderFrags, !.json = q.json]
    OBVIOUS
  <2>2. /\ r \in Connections /\ r.started /\ r.op = {} /\ r.at = "idle" /\ r.sent = <<>>
    BY <1>3, <1>5, <1>6, <2>1, ConnectionAssumption DEF Connections
  <2>3. 400 \in ReplyCodes \ {200} /\ Become(c, Refuse(r, 400))
    BY <1>2, <1>4, <1>7, <2>1 DEF ReplyCodes
  <2> QED BY <1>1, <1>6, <2>2, <2>3, MovesToRefusal
<1>8. CASE ~q.throws /\ ~(~q.get \/ q.path = NoPath)
  <2>1. PICK r : r = [f EXCEPT !.received = HeaderFrags, !.json = q.json,
                               !.webhdfs_path = q.path]
    OBVIOUS
  <2>2. /\ r \in Connections /\ r.started /\ r.op = {} /\ r.at = "idle" /\ r.sent = <<>>
        /\ r.content = NoStream /\ r.image = NoStream
    BY <1>3, <1>5, <1>6, <2>1, ConnectionAssumption DEF Connections
  <2>3. SendRequest(c, r, q.path, stream) /\ q.path \in Paths
    BY <1>2, <1>3, <1>4, <1>8, <2>1
  <2> QED BY <1>1, <1>6, <2>2, <2>3, SendRequestMoves
<1>9. CASE q.throws
  <2>1. PICK r : r = [f EXCEPT !.received = HeaderFrags, !.json = q.json]
    OBVIOUS
  <2>2. PICK g : g = [r EXCEPT !.json = FALSE]
    OBVIOUS
  <2>3. /\ g \in Connections /\ g.started /\ g.op = {} /\ g.at = "idle" /\ g.sent = <<>>
    <3>1. g = [f EXCEPT !.received = HeaderFrags, !.json = FALSE]
      BY <1>5, <2>1, <2>2 DEF Connections
    <3>2. HeaderFrags \in Nat
      BY ConnectionAssumption
    <3> QED BY <1>5, <1>6, <3>1, <3>2 DEF Connections
  <2>4. GiveUp(c, g)
    BY <1>2, <1>4, <1>9, <2>1, <2>2
  <2>5. [g EXCEPT !.lost = TRUE] = [g EXCEPT !.at = "idle", !.lost = TRUE]
    BY <2>3 DEF Connections
  <2>6. Become(c, [g EXCEPT !.at = "idle", !.lost = TRUE])
    BY <2>4, <2>5 DEF GiveUp
  <2> QED BY <1>1, <1>6, <2>3, <2>6, MovesAway
<1> QED BY <1>7, <1>8, <1>9

(* What is known of an asking connection once its operation has completed. *)
LEMMA AskingFired ==
  ASSUME ConnInv, NEW c \in Conns, NEW name \in Upstream, name \in conn[c].op,
         NEW f, f = Fired(c, name)
  PROVE  /\ f \in Connections /\ f.started /\ f.op = {} /\ f.at = "idle" /\ f.sent = <<>>
         /\ f.content = Source(c) /\ f.image = Source(c)
         /\ f.image_path \in Paths /\ f.webhdfs_path \in Paths
         /\ name # "resolve" => f.open
         /\ name = "read_response" /\ HeadersComplete(f.received) => f.code = 200
         /\ f.received = conn[c].received /\ f.code = conn[c].code
         /\ conn[c].sent = <<>> /\ conn[c].started /\ conn[c].op = {name}
         /\ conn[c].at = "idle" /\ ~pool!InPool(c)
<1>1. Asking(c) /\ conn[c] \in Connections
  BY WhichStage DEF ConnInv, TypeOK
<1>2. conn[c].op = {name}
  BY <1>1 DEF Asking
<1>3. /\ f \in Connections /\ Kept(f, conn[c]) /\ f.op = {}
      /\ f.image = conn[c].image /\ f.sent = conn[c].sent
  BY <1>1, <1>2, FiredKept
<1> QED BY <1>1, <1>2, <1>3 DEF Asking, Kept

LEMMA HandleResolveMoves ==
  ASSUME ConnInv, NEW c \in Conns, HandleResolve(c)
  PROVE  Moves(c)
<1>1. PICK f : f = Fired(c, "resolve")
  OBVIOUS
<1>2. "resolve" \in conn[c].op /\ "resolve" \in Upstream /\ "resolve" \in Operations
  BY DEF HandleResolve, Upstream, Operations
<1>3. /\ f \in Connections /\ f.started /\ f.op = {} /\ f.at = "idle" /\ f.sent = <<>>
      /\ f.content = Source(c) /\ f.image = Source(c)
      /\ f.image_path \in Paths /\ f.webhdfs_path \in Paths
      /\ conn[c].sent = <<>> /\ conn[c].started /\ conn[c].op = {"resolve"}
      /\ conn[c].at = "idle" /\ ~pool!InPool(c)
  BY <1>1, <1>2, AskingFired
<1>4. CASE GiveUp(c, Fired(c, "resolve"))
  BY <1>2, <1>3, <1>4, MovesToEnd
<1>5. ASSUME NEW n \in 1..MaxEndpoints, UNCHANGED poolVars,
             Become(c, Begin([Fired(c, "resolve") EXCEPT !.endpoints = n - 1, !.open = TRUE],
                             "connect"))
      PROVE  Moves(c)
  <2>1. PICK g : g = [f EXCEPT !.endpoints = n - 1, !.open = TRUE]
    OBVIOUS
  <2>2. /\ g \in Connections /\ g.started /\ g.op = {} /\ g.at = "idle" /\ g.sent = <<>>
        /\ g.content = Source(c) /\ g.image = Source(c) /\ g.open
        /\ g.image_path \in Paths /\ g.webhdfs_path \in Paths
    <3>1. n - 1 \in Nat
      BY ConnectionAssumption
    <3> QED BY <1>3, <2>1, <3>1 DEF Connections
  <2>3. PICK q : q = Begin(g, "connect")
    OBVIOUS
  <2>4. /\ q \in Connections /\ Kept(q, g) /\ q.op = g.op \cup {"connect"}
        /\ q.image = g.image /\ q.sent = g.sent
    BY <2>2, <2>3, BeginFields DEF Operations
  <2>5. Become(c, q) /\ ~pool!InPool(c)'
    BY <1>1, <1>3, <1>5, <2>1, <2>3 DEF poolVars, pool!InPool
  <2> QED BY <1>3, <2>2, <2>4, <2>5, MovesToAsk DEF Kept, Upstream
<1> QED BY <1>4, <1>5 DEF HandleResolve

LEMMA HandleConnectMoves ==
  ASSUME ConnInv, NEW c \in Conns, HandleConnect(c)
  PROVE  Moves(c)
<1>1. PICK f : f = Fired(c, "connect")
  OBVIOUS
<1>2. "connect" \in conn[c].op /\ "connect" \in Upstream /\ "connect" \in Operations
  BY DEF HandleConnect, Upstream, Operations
<1>3. /\ f \in Connections /\ f.started /\ f.op = {} /\ f.at = "idle" /\ f.sent = <<>>
      /\ f.content = Source(c) /\ f.image = Source(c) /\ f.open
      /\ f.image_path \in Paths /\ f.webhdfs_path \in Paths
      /\ conn[c].sent = <<>> /\ conn[c].started /\ conn[c].op = {"connect"}
      /\ conn[c].at = "idle" /\ ~pool!InPool(c)
  BY <1>1, <1>2, AskingFired
<1>4. CASE GiveUp(c, Fired(c, "connect"))
  BY <1>2, <1>3, <1>4, MovesToEnd
<1>5. CASE Become(c, BuildRequest(Fired(c, "connect"))) /\ UNCHANGED poolVars
  <2>1. PICK q : q = Begin(f, "write_request")
    OBVIOUS
  <2>2. /\ q \in Connections /\ Kept(q, f) /\ q.op = f.op \cup {"write_request"}
        /\ q.image = f.image /\ q.sent = f.sent
    BY <1>3, <2>1, BeginFields DEF Operations
  <2>3. Become(c, q) /\ ~pool!InPool(c)'
    BY <1>1, <1>3, <1>5, <2>1 DEF poolVars, pool!InPool, BuildRequest
  <2> QED BY <1>3, <2>2, <2>3, MovesToAsk DEF Kept, Upstream
<1>6. CASE /\ conn[c].endpoints > 0 /\ UNCHANGED poolVars
           /\ Become(c, Begin([Fired(c, "connect") EXCEPT !.endpoints = @ - 1], "connect"))
  <2>1. PICK g : g = [f EXCEPT !.endpoints = @ - 1]
    OBVIOUS
  <2>2. f.endpoints = conn[c].endpoints
    BY <1>1 DEF Fired, ConnInv, TypeOK, Connections
  <2>3. /\ g \in Connections /\ g.started /\ g.op = {} /\ g.at = "idle" /\ g.sent = <<>>
        /\ g.content = Source(c) /\ g.image = Source(c) /\ g.open
        /\ g.image_path \in Paths /\ g.webhdfs_path \in Paths
    <3>1. f.endpoints - 1 \in Nat
      BY <1>3, <1>6, <2>2 DEF Connections
    <3> QED BY <1>3, <2>1, <3>1 DEF Connections
  <2>4. PICK q : q = Begin(g, "connect")
    OBVIOUS
  <2>5. /\ q \in Connections /\ Kept(q, g) /\ q.op = g.op \cup {"connect"}
        /\ q.image = g.image /\ q.sent = g.sent
    BY <2>3, <2>4, BeginFields DEF Operations
  <2>6. Become(c, q) /\ ~pool!InPool(c)'
    BY <1>1, <1>3, <1>6, <2>1, <2>4 DEF poolVars, pool!InPool
  <2> QED BY <1>3, <2>3, <2>5, <2>6, MovesToAsk DEF Kept, Upstream
<1> QED BY <1>4, <1>5, <1>6 DEF HandleConnect

LEMMA HandleWriteRequestMoves ==
  ASSUME ConnInv, NEW c \in Conns, HandleWriteRequest(c)
  PROVE  Moves(c)
<1>1. PICK f : f = Fired(c, "write_request")
  OBVIOUS
<1>2. "write_request" \in conn[c].op /\ "write_request" \in Upstream /\ "write_request" \in Operations
  BY DEF HandleWriteRequest, Upstream, Operations
<1>3. /\ f \in Connections /\ f.started /\ f.op = {} /\ f.at = "idle" /\ f.sent = <<>>
      /\ f.content = Source(c) /\ f.image = Source(c) /\ f.open
      /\ f.image_path \in Paths /\ f.webhdfs_path \in Paths
      /\ conn[c].sent = <<>> /\ conn[c].started /\ conn[c].op = {"write_request"}
      /\ conn[c].at = "idle" /\ ~pool!InPool(c)
  BY <1>1, <1>2, AskingFired
<1>4. CASE GiveUp(c, Fired(c, "write_request"))
  BY <1>2, <1>3, <1>4, MovesToEnd
<1>5. CASE /\ UNCHANGED poolVars
           /\ Become(c, Begin([Fired(c, "write_request") EXCEPT !.received = 0, !.code = NoCode],
                              "read_response"))
  <2>1. PICK g : g = [f EXCEPT !.received = 0, !.code = NoCode]
    OBVIOUS
  <2>2. /\ g \in Connections /\ g.started /\ g.op = {} /\ g.at = "idle" /\ g.sent = <<>>
        /\ g.content = Source(c) /\ g.image = Source(c) /\ g.open /\ g.received = 0
        /\ g.image_path \in Paths /\ g.webhdfs_path \in Paths
    BY <1>3, <2>1 DEF Connections
  <2>3. PICK q : q = Begin(g, "read_response")
    OBVIOUS
  <2>4. /\ q \in Connections /\ Kept(q, g) /\ q.op = g.op \cup {"read_response"}
        /\ q.image = g.image /\ q.sent = g.sent
    BY <2>2, <2>3, BeginFields DEF Operations
  <2>5. Become(c, q) /\ ~pool!InPool(c)'
    BY <1>1, <1>3, <1>5, <2>1, <2>3 DEF poolVars, pool!InPool
  <2>6. ~HeadersComplete(q.received)
    BY <2>2, <2>4, ConnectionAssumption DEF Kept, HeadersComplete
  <2> QED BY <1>3, <2>2, <2>4, <2>5, <2>6, MovesToAsk DEF Kept, Upstream
<1> QED BY <1>4, <1>5 DEF HandleWriteRequest

LEMMA BodyFacts ==
  ASSUME NEW code, NEW path \in Paths
  PROVE  /\ Body(code, path) \in Seq(Bytes) /\ Len(Body(code, path)) = BodyParts
         /\ \A i \in 1..BodyParts :
              Body(code, path)[i] = <<IF code = 200 THEN path ELSE NoPath, i>>
  BY ConnectionAssumption DEF Body, Bytes

LEMMA BodyReadFacts ==
  ASSUME NEW m \in 0..ResponseFrags
  PROVE  BodyRead(m) \in 0..BodyParts
  BY ConnectionAssumption
     DEF BodyRead, ResponseFrags, HeadersComplete, MessageComplete

LEMMA NewBody ==
  ASSUME NEW code, NEW path \in Paths, NEW m \in Nat, NEW n \in 1..(ResponseFrags - m)
  PROVE  SubSeq(Body(code, path), BodyRead(m) + 1, BodyRead(m + n)) \in Seq(Bytes)
<1>1. m \in 0..ResponseFrags /\ m + n \in 0..ResponseFrags
  BY ConnectionAssumption DEF ResponseFrags
<1>2. BodyRead(m) \in 0..BodyParts /\ BodyRead(m + n) \in 0..BodyParts
  BY <1>1, BodyReadFacts
<1>3. Body(code, path) \in Seq(Bytes) /\ Len(Body(code, path)) = BodyParts
  BY BodyFacts
<1> HIDE DEF Body
<1> QED BY <1>2, <1>3, ConnectionAssumption

LEMMA ReadResponseEnds ==
  ASSUME ConnInv, NEW c \in Conns,
         ReadResponseFails(c) \/ ReadResponseInvalid(c) \/ ReadResponseEof(c)
  PROVE  Moves(c)
<1>1. PICK f : f = Fired(c, "read_response")
  OBVIOUS
<1>2. /\ "read_response" \in conn[c].op /\ "read_response" \in Upstream
      /\ "read_response" \in Operations
  BY DEF ReadResponseFails, ReadResponseInvalid, ReadResponseEof, Upstream, Operations
<1>3. /\ f \in Connections /\ f.started /\ f.op = {} /\ f.at = "idle" /\ f.sent = <<>>
      /\ conn[c].sent = <<>> /\ conn[c].started /\ conn[c].op = {"read_response"}
      /\ conn[c].at = "idle" /\ ~pool!InPool(c)
  BY <1>1, <1>2, AskingFired
<1>4. 500 \in ReplyCodes \ {200}
  BY DEF ReplyCodes
<1>5. CASE ReadResponseFails(c)
  <2>1. GiveUp(c, Fired(c, "read_response"))
    BY <1>5 DEF ReadResponseFails
  <2> QED BY <1>2, <1>3, <2>1, MovesToEnd
<1>6. CASE ReadResponseInvalid(c)
  <2>1. Become(c, Refuse(f, 500)) /\ ~pool!InPool(c)'
    BY <1>1, <1>3, <1>6 DEF ReadResponseInvalid, poolVars, pool!InPool
  <2> QED BY <1>3, <1>4, <2>1, MovesToRefusal
<1>7. CASE ReadResponseEof(c)
  <2>1. \E at \in {"idle", "close"} : Become(c, [Refuse(f, 500) EXCEPT !.at = at])
    BY <1>1, <1>7 DEF ReadResponseEof
  <2>2. ~pool!InPool(c)'
    BY <1>3, <1>7 DEF ReadResponseEof, poolVars, pool!InPool
  <2> QED BY <1>3, <1>4, <2>1, <2>2, MovesToRefusalAt
<1> QED BY <1>5, <1>6, <1>7

(* The step ReadResponse(c), taken apart: r is the connection and str are  *)
(* the streams after Parse.                                                *)
Parsed(c, n, code, r, str) ==
  /\ n \in 1..(ResponseFrags - conn[c].received)
  /\ code \in UpstreamCodes \cup {200}
  /\ r = [Fired(c, "read_response") EXCEPT !.received = conn[c].received + n, !.code = code]
  /\ str = [stream EXCEPT ![r.content] = Write(@,
              SubSeq(Body(code, r.webhdfs_path), BodyRead(conn[c].received) + 1,
                     BodyRead(conn[c].received + n)))]
  /\ HeadersComplete(conn[c].received) => code = conn[c].code
  /\ \/ /\ ~HeadersComplete(conn[c].received + n)
        /\ Become(c, Begin([r EXCEPT !.code = NoCode], "read_response"))
        /\ UNCHANGED stream
     \/ /\ HeadersComplete(conn[c].received + n)
        /\ Redirected(c, r, str) \/ Rejected(c, r, str) \/ Fetched(c, r, str) \/ Unfinished(c, r, str)

LEMMA ReadResponseParsed ==
  ASSUME ConnInv, NEW c \in Conns, ReadResponse(c)
  PROVE  \E n, code, r, str : Parsed(c, n, code, r, str)
<1>1. PICK n \in 1..(ResponseFrags - conn[c].received),
           code \in IF HeadersComplete(conn[c].received) THEN {conn[c].code} ELSE UpstreamCodes :
       LET before == conn[c].received
           r == [Fired(c, "read_response") EXCEPT !.received = before + n, !.code = code]
           new == SubSeq(Body(code, r.webhdfs_path), BodyRead(before) + 1, BodyRead(before + n))
           str == [stream EXCEPT ![r.content] = Write(@, new)]
       IN  IF ~HeadersComplete(before + n)
           THEN /\ Become(c, Begin([r EXCEPT !.code = NoCode], "read_response"))
                /\ UNCHANGED stream
           ELSE /\ code \in RedirectCodes => r.hops < MaxRedirects
                /\ \/ Redirected(c, r, str)
                   \/ Rejected(c, r, str)
                   \/ Fetched(c, r, str)
                   \/ Unfinished(c, r, str)
  BY DEF ReadResponse
<1>2. HeadersComplete(conn[c].received) => conn[c].code = 200
  <2>1. Asking(c)
    BY WhichStage DEF ConnInv, ReadResponse, Upstream
  <2>2. conn[c].op = {"read_response"}
    BY <2>1 DEF Asking, ReadResponse
  <2> QED BY <2>1, <2>2 DEF Asking
<1>3. PICK r : r = [Fired(c, "read_response") EXCEPT !.received = conn[c].received + n,
                                                    !.code = code]
  OBVIOUS
<1>4. PICK str : str = [stream EXCEPT ![r.content] = Write(@,
              SubSeq(Body(code, r.webhdfs_path), BodyRead(conn[c].received) + 1,
                     BodyRead(conn[c].received + n)))]
  OBVIOUS
<1>5. Parsed(c, n, code, r, str)
  BY <1>1, <1>2, <1>3, <1>4 DEF Parsed
<1> QED BY <1>5

LEMMA ParsedFacts ==
  ASSUME ConnInv, NEW c \in Conns, ReadResponse(c), NEW n, NEW code, NEW r, NEW str,
         Parsed(c, n, code, r, str)
  PROVE  /\ r \in Connections /\ r.started /\ r.op = {} /\ r.at = "idle" /\ r.sent = <<>>
         /\ r.content = Source(c) /\ r.image = Source(c) /\ r.open
         /\ r.image_path \in Paths /\ r.webhdfs_path \in Paths
         /\ r.code = code /\ r.received = conn[c].received + n
         /\ conn[c].sent = <<>> /\ conn[c].started /\ ~pool!InPool(c)'
         /\ code \in ReplyCodes /\ Grows(stream, str)
<1>1. PICK f : f = Fired(c, "read_response")
  OBVIOUS
<1>2. "read_response" \in conn[c].op /\ "read_response" \in Upstream
  BY DEF ReadResponse, Upstream
<1>3. /\ f \in Connections /\ f.started /\ f.op = {} /\ f.at = "idle" /\ f.sent = <<>>
      /\ f.content = Source(c) /\ f.image = Source(c) /\ f.open
      /\ f.image_path \in Paths /\ f.webhdfs_path \in Paths
      /\ conn[c].sent = <<>> /\ conn[c].started /\ ~pool!InPool(c)
  BY <1>1, <1>2, AskingFired
<1>4. conn[c].received + n \in Nat /\ code \in Nat /\ conn[c].received \in Nat /\ code \in ReplyCodes
  <2>1. conn[c] \in Connections
    BY DEF ConnInv, TypeOK
  <2>2. conn[c].received \in Nat
    BY <2>1 DEF Connections
  <2>3. n \in 1..(ResponseFrags - conn[c].received) /\ code \in UpstreamCodes \cup {200}
    BY DEF Parsed
  <2>4. code \in Nat /\ code \in ReplyCodes
    BY <2>3, ConnectionAssumption DEF ReplyCodes
  <2>5. ResponseFrags \in Nat
    BY ConnectionAssumption DEF ResponseFrags
  <2> QED BY <2>2, <2>3, <2>4, <2>5
<1>5. r = [f EXCEPT !.received = conn[c].received + n, !.code = code]
  BY <1>1 DEF Parsed
<1>6. /\ r \in Connections /\ r.started /\ r.op = {} /\ r.at = "idle" /\ r.sent = <<>>
      /\ r.content = Source(c) /\ r.image = Source(c) /\ r.open
      /\ r.image_path \in Paths /\ r.webhdfs_path \in Paths
      /\ r.code = code /\ r.received = conn[c].received + n
  BY <1>3, <1>4, <1>5 DEF Connections
<1>7. SubSeq(Body(code, r.webhdfs_path), BodyRead(conn[c].received) + 1,
             BodyRead(conn[c].received + n)) \in Seq(Bytes)
  BY <1>4, <1>6, NewBody DEF Parsed
<1>8. Grows(stream, str)
  BY <1>6, <1>7, WriteGrows, StreamNames DEF Parsed, StreamsTyped, ConnInv, TypeOK
<1>9. ~pool!InPool(c)'
  BY <1>3 DEF ReadResponse, poolVars, pool!InPool
<1> QED BY <1>3, <1>4, <1>6, <1>8, <1>9

LEMMA ReadResponseMoves ==
  ASSUME ConnInv, NEW c \in Conns, ReadResponse(c)
  PROVE  Moves(c)
<1>1. PICK n, code, r, str : Parsed(c, n, code, r, str)
  BY ReadResponseParsed
<1>2. /\ r \in Connections /\ r.started /\ r.op = {} /\ r.at = "idle" /\ r.sent = <<>>
      /\ r.content = Source(c) /\ r.image = Source(c) /\ r.open
      /\ r.image_path \in Paths /\ r.webhdfs_path \in Paths
      /\ r.code = code /\ r.received = conn[c].received + n
      /\ conn[c].sent = <<>> /\ conn[c].started /\ ~pool!InPool(c)'
      /\ code \in ReplyCodes
  BY <1>1, ParsedFacts
<1>3. ASSUME NEW g \in Connections, g.started, g.op = {}, g.at = "idle", g.sent = <<>>,
             g.content = Source(c), g.image = Source(c), g.open,
             g.image_path \in Paths, g.webhdfs_path \in Paths,
             HeadersComplete(g.received) => g.code = 200,
             Become(c, Begin(g, "read_response"))
      PROVE  Moves(c)
  <2>1. PICK q : q = Begin(g, "read_response")
    OBVIOUS
  <2>2. /\ q \in Connections /\ Kept(q, g) /\ q.op = g.op \cup {"read_response"}
        /\ q.image = g.image /\ q.sent = g.sent
    BY <1>3, <2>1, BeginFields DEF Operations
  <2>3. Become(c, q)
    BY <1>3, <2>1
  <2> QED BY <1>2, <1>3, <2>2, <2>3, MovesToAsk DEF Kept, Upstream
<1>4. CASE ~HeadersComplete(conn[c].received + n)
  <2>1. PICK g : g = [r EXCEPT !.code = NoCode]
    OBVIOUS
  <2>2. /\ g \in Connections /\ g.started /\ g.op = {} /\ g.at = "idle" /\ g.sent = <<>>
        /\ g.content = Source(c) /\ g.image = Source(c) /\ g.open
        /\ g.image_path \in Paths /\ g.webhdfs_path \in Paths /\ g.received = r.received
    BY <1>2, <2>1 DEF Connections
  <2>3. Become(c, Begin(g, "read_response"))
    BY <1>1, <1>4, <2>1 DEF Parsed
  <2> QED BY <1>2, <1>3, <1>4, <2>2, <2>3
<1>5. CASE Redirected(c, r, str)
  <2>1. CASE Become(c, Refuse(r, 500))
    <3>1. 500 \in ReplyCodes \ {200} /\ r.at \in {"idle", "close"}
      BY <1>2 DEF ReplyCodes
    <3> QED BY <1>2, <2>1, <3>1, MovesToRefusal
  <2>2. ASSUME NEW p \in Locations(r),
               SendRequest(c, [r EXCEPT !.webhdfs_path = p, !.open = FALSE, !.hops = @ + 1],
                           p, str)
        PROVE  Moves(c)
    <3>1. p \in Paths
      BY <1>2, ConnectionAssumption DEF Locations
    <3>2. PICK g : g = [r EXCEPT !.webhdfs_path = p, !.open = FALSE, !.hops = @ + 1]
      OBVIOUS
    <3>3. /\ g \in Connections /\ g.started /\ g.op = {} /\ g.at = "idle" /\ g.sent = <<>>
          /\ g.image = Source(c) /\ g.image_path \in Paths
      <4>1. r.hops + 1 \in Nat
        BY <1>2 DEF Connections
      <4> QED BY <1>2, <3>1, <3>2, <4>1 DEF Connections
    <3>4. SendRequest(c, g, p, str) /\ Source(c) # NoStream
      BY <2>2, <3>2, StreamNames
    <3> QED BY <1>2, <3>1, <3>3, <3>4, SendRequestMoves
  <2> QED BY <1>5, <2>1, <2>2 DEF Redirected
<1>6. CASE Rejected(c, r, str)
  <2>1. code \in ReplyCodes \ {200} /\ Become(c, [Refuse(r, code) EXCEPT !.at = "close"])
    BY <1>2, <1>6 DEF Rejected
  <2>2. "close" \in {"idle", "close"}
    OBVIOUS
  <2> QED BY <1>2, <2>1, <2>2, MovesToRefusalAt
<1>7. CASE Fetched(c, r, str)
  <2>1. PICK q : q = [r EXCEPT !.at = "load"]
    OBVIOUS
  <2>2. /\ q \in Connections /\ q.started /\ q.op = {} /\ q.at = "load" /\ q.sent = <<>>
        /\ q.content = Source(c) /\ q.image = Source(c) /\ q.image_path \in Paths
    BY <1>2, <2>1 DEF Connections, Positions
  <2>3. Become(c, q) /\ conn'[c] = q
    BY <1>7, <2>1, <2>2, Becomes DEF Fetched, ConnInv, TypeOK
  <2>4. Loading(c)'
    BY <1>2, <2>2, <2>3, StreamNames DEF Loading
  <2> QED BY <1>2, <2>2, <2>3, <2>4, MovesSilently DEF Stage
<1>8. CASE Unfinished(c, r, str)
  BY <1>2, <1>3, <1>8 DEF Unfinished
<1> QED BY <1>1, <1>4, <1>5, <1>6, <1>7, <1>8 DEF Parsed

LEMMA LoadDocMoves ==
  ASSUME ConnInv, NEW c \in Conns, LoadDoc(c)
  PROVE  Moves(c) /\ Grows(stream, stream')
<1>1. Loading(c) /\ conn[c].at = "load" /\ conn[c] \in Connections
  BY WhichStage DEF ConnInv, TypeOK, LoadDoc
<1>2. stream' = [stream EXCEPT ![conn[c].image] = ToItsEnd(@)]
  BY DEF LoadDoc
<1>3. conn[c].image \in Sources /\ stream[conn[c].image] \in StreamsOver(Bytes)
  BY <1>1, StreamNames DEF Loading, ConnInv, TypeOK
<1>4. Grows(stream, stream')
  BY <1>2, <1>3, ToEndGrows DEF StreamsTyped, ConnInv, TypeOK
<1>5. ~pool!InPool(c)' /\ conn[c].sent = <<>>
  BY <1>1 DEF LoadDoc, Loading, poolVars, pool!InPool
<1>6. ASSUME NEW torn \in BOOLEAN,
             Become(c, [conn[c] EXCEPT !.at = "put", !.page = conn[c].image, !.torn = torn])
      PROVE  Moves(c)
  <2>1. PICK q : q = [conn[c] EXCEPT !.at = "put", !.page = conn[c].image, !.torn = torn]
    OBVIOUS
  <2>2. /\ q \in Connections /\ q.started /\ q.op = {} /\ q.at = "put" /\ q.sent = <<>>
        /\ q.content = conn[c].content /\ q.image = conn[c].image /\ q.page = q.image
        /\ q.image_path = conn[c].image_path
    BY <1>1, <2>1 DEF Loading, Connections, Positions
  <2>3. Become(c, q) /\ conn'[c] = q
    BY <1>6, <2>1, <2>2, Becomes DEF ConnInv, TypeOK
  <2>4. Loading(c)'
    BY <1>1, <1>5, <2>2, <2>3 DEF Loading
  <2> QED BY <1>5, <2>2, <2>3, <2>4, MovesSilently DEF Stage
<1>7. CASE Become(c, [conn[c] EXCEPT !.at = AfterSendPage(conn[c]), !.lost = TRUE])
  <2>1. PICK q : q = [conn[c] EXCEPT !.at = AfterSendPage(conn[c]), !.lost = TRUE]
    OBVIOUS
  <2>2. /\ q \in Connections /\ q.started /\ q.op = {} /\ q.at \in {"idle", "close"}
        /\ q.sent = <<>> /\ q.lost
    <3>1. AfterSendPage(conn[c]) \in {"idle", "close"}
      BY DEF AfterSendPage
    <3> QED BY <1>1, <2>1, <3>1 DEF Loading, Connections, Positions
  <2>3. Become(c, q) /\ conn'[c] = q
    BY <1>7, <2>1, <2>2, Becomes DEF ConnInv, TypeOK
  <2>4. Over(c)'
    BY <1>5, <2>2, <2>3 DEF Over
  <2> QED BY <1>4, <1>5, <2>2, <2>3, <2>4, MovesSilently DEF Stage
<1>8. CASE Become(c, [Refuse(conn[c], 500) EXCEPT !.at = AfterSendPage(conn[c])])
  <2>1. AfterSendPage(conn[c]) \in {"idle", "close"} /\ 500 \in ReplyCodes \ {200}
    BY DEF AfterSendPage, ReplyCodes
  <2>2. conn[c].started /\ conn[c].op = {}
    BY <1>1 DEF Loading
  <2> QED BY <1>1, <1>4, <1>5, <1>8, <2>1, <2>2, MovesToRefusalAt
<1>9. CASE Become(c, [conn[c] EXCEPT !.at = "idle", !.lost = TRUE])
  BY <1>1, <1>4, <1>5, <1>9, MovesAway DEF Loading
<1> QED BY <1>4, <1>6, <1>7, <1>8, <1>9 DEF LoadDoc

(* The rendering of c is written, and an image may have been read for it.  *)
OutOnly(c) ==
  /\ StreamsTyped(stream')
  /\ \A s \in Streams \ {Out(c)} : stream'[s].data = stream[s].data
  /\ \A d \in Conns \ {c} : stream'[Out(d)] = stream[Out(d)]

LEMMA PutImageMoves ==
  ASSUME ConnInv, NEW c \in Conns, PutImage(c)
  PROVE  Moves(c) /\ OutOnly(c) /\ Rendered(c)'
<1>1. Loading(c) /\ conn[c].at = "put" /\ conn[c] \in Connections
  BY WhichStage DEF ConnInv, TypeOK, PutImage
<1>2. ~pool!InPool(c)' /\ conn[c].sent = <<>> /\ conn[c].started /\ conn[c].op = {}
  BY <1>1 DEF PutImage, Loading, poolVars, pool!InPool
<1>3. StreamsTyped(stream)
  BY DEF StreamsTyped, ConnInv, TypeOK
<1>4. CASE /\ conn[c].json /\ UNCHANGED stream
           /\ Become(c, SendResponse([conn[c] EXCEPT !.image = NoStream,
                                                    !.at = AfterSendPage(conn[c])], 200, 0))
  <2>1. PICK g : g = [conn[c] EXCEPT !.image = NoStream, !.at = AfterSendPage(conn[c])]
    OBVIOUS
  <2>2. /\ g \in Connections /\ g.started /\ g.op = {} /\ g.at \in {"idle", "close"}
        /\ g.sent = <<>> /\ g.image = NoStream
    <3>1. AfterSendPage(conn[c]) \in {"idle", "close"}
      BY DEF AfterSendPage
    <3> QED BY <1>1, <1>2, <2>1, <3>1 DEF Connections, Positions
  <2>3. PICK q \in Connections :
           /\ q = SendResponse(g, 200, 0)
           /\ Kept(q, g)
           /\ q.op = g.op \cup {"write_response"}
           /\ q.status_code \in {200, 500}
           /\ q.sent = Append(g.sent, StatusLine(q.status_code))
           /\ q.image \in {NoStream, g.image}
    BY <2>2, ResponseFields
  <2>4. Become(c, q)
    BY <1>4, <2>1, <2>3
  <2>5. /\ q.started /\ q.op = {"write_response"} /\ q.at \in {"idle", "close"}
        /\ q.image = NoStream /\ q.status_code \in ReplyCodes
        /\ q.sent = Append(conn[c].sent, StatusLine(q.status_code))
    BY <1>2, <2>2, <2>3 DEF Kept, ReplyCodes
  <2>6. Moves(c)
    BY <1>2, <2>4, <2>5, MovesToReply
  <2> QED BY <1>3, <1>4, <2>6 DEF OutOnly, ConnInv, Rendered
<1>5. CASE /\ ~conn[c].json /\ Become(c, [conn[c] EXCEPT !.image = Out(c), !.at = "add"])
           /\ stream' = [stream EXCEPT ![Out(c)] = EmptyStream]
  <2>1. PICK q : q = [conn[c] EXCEPT !.image = Out(c), !.at = "add"]
    OBVIOUS
  <2>2. /\ q \in Connections /\ q.started /\ q.op = {} /\ q.at = "add"
        /\ q.sent = <<>> /\ q.image = Out(c) /\ q.page = conn[c].page
        /\ q.image_path = conn[c].image_path
    BY <1>1, <1>2, <2>1, StreamNames DEF Connections, Positions
  <2>3. Become(c, q) /\ conn'[c] = q
    BY <1>5, <2>1, <2>2, Becomes DEF ConnInv, TypeOK
  <2>4. OutOnly(c) /\ stream'[Out(c)] = EmptyStream
    <3>1. EmptyStream \in StreamsOver(Bytes)
      BY EmptyType
    <3> QED BY <1>3, <1>5, <3>1, StreamNames DEF OutOnly, StreamsTyped
  <2>5. Rendered(c)'
    BY <2>4 DEF Rendered, EmptyStream
  <2>6. q.page \in Sources /\ q.image_path \in Paths
    BY <1>1, <2>2, <2>4, StreamNames DEF Loading, OutOnly
  <2>7. Painting(c)'
    BY <1>2, <2>2, <2>3, <2>4, <2>6 DEF Painting
  <2> QED BY <1>2, <2>2, <2>3, <2>4, <2>5, <2>7, MovesSilently DEF Stage
<1>6. CASE UNCHANGED stream /\ Become(c, [conn[c] EXCEPT !.at = "idle", !.lost = TRUE])
  <2>1. Moves(c)
    BY <1>1, <1>2, <1>6, MovesAway
  <2> QED BY <1>3, <1>6, <2>1 DEF OutOnly, ConnInv, Rendered
<1> QED BY <1>4, <1>5, <1>6 DEF PutImage

(* The steps that leave the pool as it is leave c out of it.               *)
LEMMA CheckPoolMoves ==
  ASSUME ConnInv, NEW c \in Conns, CheckPool(c)
  PROVE  Moves(c)
<1>1. Painting(c) /\ conn[c].at = "add" /\ conn[c] \in Connections
  BY WhichStage DEF ConnInv, TypeOK, CheckPool
<1>2. /\ ~pool!InPool(c) /\ ~pool!InPool(c)' /\ conn[c].sent = <<>> /\ conn[c].started
      /\ conn[c].op = {} /\ UNCHANGED stream
  BY <1>1 DEF CheckPool, Painting, pool!Refuse, pool!poolVars, poolVars, pool!InPool
<1>3. CASE Become(c, [conn[c] EXCEPT !.at = "push"])
  <2>1. PICK q : q = [conn[c] EXCEPT !.at = "push"]
    OBVIOUS
  <2>2. /\ q \in Connections /\ q.started /\ q.op = {} /\ q.at = "push"
        /\ q.sent = <<>> /\ q.image = conn[c].image /\ q.page = conn[c].page
        /\ q.image_path = conn[c].image_path
    BY <1>1, <1>2, <2>1 DEF Connections, Positions
  <2>3. Become(c, q) /\ conn'[c] = q
    BY <1>3, <2>1, <2>2, Becomes DEF ConnInv, TypeOK
  <2>4. Painting(c)'
    BY <1>1, <1>2, <2>2, <2>3 DEF Painting
  <2> QED BY <1>2, <2>2, <2>3, <2>4, MovesSilently DEF Stage
<1>4. CASE Become(c, Refuse([conn[c] EXCEPT !.at = AfterSendPage(conn[c])], 500))
  <2>1. AfterSendPage(conn[c]) \in {"idle", "close"} /\ 500 \in ReplyCodes \ {200}
    BY DEF AfterSendPage, ReplyCodes
  <2>2. PICK g : g = [conn[c] EXCEPT !.at = AfterSendPage(conn[c])]
    OBVIOUS
  <2>3. /\ g \in Connections /\ g.started /\ g.op = {} /\ g.at \in {"idle", "close"}
        /\ g.sent = <<>>
    BY <1>1, <1>2, <2>1, <2>2 DEF Connections, Positions
  <2>4. Become(c, Refuse(g, 500))
    BY <1>4, <2>2
  <2> QED BY <1>2, <2>1, <2>3, <2>4, MovesToRefusal
<1> QED BY <1>3, <1>4 DEF CheckPool

LEMMA AddTaskMoves ==
  ASSUME ConnInv, NEW c \in Conns, AddTask(c)
  PROVE  Moves(c)
<1>1. Painting(c) /\ conn[c].at = "push" /\ conn[c] \in Connections
  BY WhichStage DEF ConnInv, TypeOK, AddTask
<1>2. /\ pool!InPool(c)' /\ conn[c].sent = <<>> /\ conn[c].started /\ conn[c].op = {}
      /\ UNCHANGED stream
  BY <1>1, AcceptEffect DEF AddTask, Painting, ConnInv, TypeOK
<1>3. PICK q : q = [conn[c] EXCEPT !.at = AfterSendPage(conn[c])]
  OBVIOUS
<1>4. /\ q \in Connections /\ q.started /\ q.op = {} /\ q.at \in {"idle", "close"}
      /\ q.sent = <<>> /\ q.image = conn[c].image /\ q.page = conn[c].page
      /\ q.image_path = conn[c].image_path
  <2>1. AfterSendPage(conn[c]) \in {"idle", "close"}
    BY DEF AfterSendPage
  <2> QED BY <1>1, <1>2, <1>3, <2>1 DEF Connections, Positions
<1>5. Become(c, q) /\ conn'[c] = q
  BY <1>3, <1>4, Becomes DEF AddTask, ConnInv, TypeOK
<1>6. Painting(c)'
  BY <1>1, <1>2, <1>4, <1>5 DEF Painting
<1> QED BY <1>2, <1>4, <1>5, <1>6, MovesSilently DEF Stage

LEMMA CloseSocketMoves ==
  ASSUME ConnInv, NEW c \in Conns, CloseSocket(c)
  PROVE  Moves(c)
<1>1. PICK q : q = [conn[c] EXCEPT !.at = "idle", !.open = FALSE]
  OBVIOUS
<1>2. /\ q \in Connections /\ Become(c, q) /\ q.at = "idle"
      /\ (q.started <=> conn[c].started) /\ (q.json <=> conn[c].json) /\ (q.lost <=> conn[c].lost)
      /\ q.op = conn[c].op /\ q.sent = conn[c].sent /\ q.image = conn[c].image
      /\ q.page = conn[c].page /\ q.image_path = conn[c].image_path
      /\ q.status_code = conn[c].status_code
  <2>1. conn[c] \in Connections /\ Become(c, q)
    BY <1>1 DEF CloseSocket, ConnInv, TypeOK
  <2> QED BY <1>1, <2>1 DEF Connections, Positions
<1>3. conn'[c] = q /\ conn[c].at = "close" /\ UNCHANGED <<stream, poolVars>>
  BY <1>2, Becomes DEF CloseSocket, ConnInv, TypeOK
<1>4. pool!InPool(c)' <=> pool!InPool(c)
  BY <1>3 DEF poolVars, pool!InPool
<1>5. Painting(c) \/ Answering(c) \/ Over(c)
  BY <1>3 DEF ConnInv, Stage, New, Reading, Asking, Loading
<1>6. Painting(c) => Painting(c)'
  BY <1>2, <1>3, <1>4 DEF Painting
<1>7. Answering(c) => Answering(c)'
  BY <1>2, <1>3, <1>4 DEF Answering
<1>8. Over(c) => Over(c)'
  BY <1>2, <1>3, <1>4 DEF Over, poolVars
<1>9. conn[c].started
  BY <1>5 DEF Painting, Answering, Over
<1>10. Stage(c)'
  BY <1>5, <1>6, <1>7, <1>8 DEF Stage
<1>11. q.json = conn[c].json
  BY <1>1, <1>2 DEF ConnInv, TypeOK, Connections
<1> QED BY <1>2, <1>9, <1>10, <1>11, MovesSilently

LEMMA HandleWriteResponseMoves ==
  ASSUME ConnInv, NEW c \in Conns, HandleWriteResponse(c)
  PROVE  Moves(c) /\ OutOnly(c) /\ Rendered(c)'
<1>1. Answering(c) /\ conn[c] \in Connections /\ "write_response" \in Operations
  BY WhichStage DEF ConnInv, TypeOK, HandleWriteResponse, Operations
<1>2. conn[c].op = {"write_response"} /\ conn[c].started /\ conn[c].sent # <<>>
      /\ conn[c].at \in {"idle", "close"} /\ ~pool!InPool(c) /\ ~pool!InPool(c)'
  <2>1. UNCHANGED poolVars
    BY DEF HandleWriteResponse, GiveUp
  <2> QED BY <1>1, <2>1 DEF Answering, poolVars, pool!InPool
<1>3. StreamsTyped(stream) /\ Rendered(c)
  BY DEF StreamsTyped, ConnInv, TypeOK
<1>4. UNCHANGED stream => OutOnly(c) /\ Rendered(c)'
  BY <1>3 DEF OutOnly, Rendered
<1>5. PICK f : f = Fired(c, "write_response")
  OBVIOUS
<1>6. /\ f \in Connections /\ Kept(f, conn[c]) /\ f.op = {} /\ f.sent = conn[c].sent
      /\ f.image = conn[c].image /\ f.status_code = conn[c].status_code
  BY <1>1, <1>2, <1>5, FiredKept
<1>7. f.json = conn[c].json
  BY <1>1, <1>6 DEF Kept, Connections
<1>8. CASE GiveUp(c, f)
  <2>1. UNCHANGED stream
    BY <1>8 DEF GiveUp
  <2> QED BY <1>1, <1>2, <1>4, <1>5, <1>8, <2>1, MovesToEnd
<1>9. CASE Become(c, f) /\ UNCHANGED stream
  <2>1. conn'[c] = f
    BY <1>6, <1>9, Becomes DEF ConnInv, TypeOK
  <2>2. Over(c)'
    BY <1>2, <1>6, <2>1 DEF Over, Kept
  <2>3. f.started
    BY <1>2, <1>6 DEF Kept
  <2> QED BY <1>4, <1>6, <1>7, <1>9, <2>2, <2>3, MovesSilently DEF Stage
<1> DEFINE bytes == ReadBytes(stream[f.image], 1)
           next == IF bytes = <<>> THEN LastChunk ELSE Chunk(bytes[1])
<1>10. CASE /\ f.status_code = 200 /\ f.image # NoStream
            /\ stream' = [stream EXCEPT ![f.image] = AfterRead(@, 1)]
            /\ Become(c, Begin([DropImageAtEnd(f, bytes) EXCEPT !.sent = Append(@, next)],
                               "write_response"))
  <2>1. /\ f.image = Out(c) /\ ~conn[c].json /\ ~f.json
        /\ conn[c].sent[1] = StatusLine(200) /\ conn[c].sent[Len(conn[c].sent)].kind # "last"
    BY <1>1, <1>6, <1>7, <1>10 DEF Answering
  <2>2. stream[Out(c)] \in StreamsOver(Bytes)
    BY <1>3, StreamNames DEF StreamsTyped
  <2>3. /\ AfterRead(stream[Out(c)], 1) \in StreamsOver(Bytes)
        /\ AfterRead(stream[Out(c)], 1).data = stream[Out(c)].data
        /\ bytes # <<>> => /\ stream[Out(c)].offset < Size(stream[Out(c)])
                           /\ bytes[1] = stream[Out(c)].data[stream[Out(c)].offset + 1]
    BY <2>1, <2>2, ReadType
  <2>4. OutOnly(c) /\ Rendered(c)'
    <3>1. stream' = [stream EXCEPT ![Out(c)] = AfterRead(@, 1)]
      BY <1>10, <2>1
    <3>2. stream'[Out(c)].data = stream[Out(c)].data /\ OutOnly(c)
      BY <1>3, <2>3, <3>1, StreamNames DEF OutOnly, StreamsTyped
    <3> QED BY <1>3, <3>2 DEF Rendered
  <2>5. next \in BodyItems
    <3>1. CASE bytes = <<>>
      BY <3>1 DEF BodyItems
    <3>2. CASE bytes # <<>>
      <4>1. stream[Out(c)].offset + 1 \in 1..Len(stream[Out(c)].data)
        BY <2>2, <2>3, <3>2 DEF StreamsOver, Size
      <4>2. bytes[1] \in (Paths \cup {NoPath}) \X (1..OutParts)
        BY <1>3, <2>3, <3>2, <4>1 DEF Rendered
      <4> HIDE DEF bytes
      <4> QED BY <3>2, <4>2 DEF BodyItems
    <3> QED BY <3>1, <3>2
  <2>6. next \in Item /\ (bytes # <<>> => next.kind # "last")
    <3>1. BodyItems \subseteq Item
      BY ConnectionAssumption DEF BodyItems, Item, Chunk, LastChunk, Bytes
    <3>2. bytes # <<>> => next.kind # "last"
      BY DEF Chunk
    <3> QED BY <2>5, <3>1, <3>2
  <2> HIDE DEF next, bytes
  <2>7. PICK g : g = DropImageAtEnd(f, bytes)
    OBVIOUS
  <2>8. /\ g \in Connections /\ Kept(g, f) /\ g.op = {} /\ g.sent = f.sent
        /\ g.image = (IF bytes = <<>> THEN NoStream ELSE f.image)
        /\ g.status_code = f.status_code
    BY <1>6, <2>7 DEF DropImageAtEnd, Kept, Connections
  <2>9. PICK h : h = [g EXCEPT !.sent = Append(@, next)]
    OBVIOUS
  <2>10. /\ h \in Connections /\ Kept(h, g) /\ h.op = {} /\ h.image = g.image
         /\ h.sent = Append(f.sent, next) /\ h.status_code = g.status_code
    <3>1. Append(f.sent, next) \in Seq(Item)
      BY <1>6, <2>6 DEF Connections
    <3> QED BY <2>8, <2>9, <3>1 DEF Connections, Kept
  <2>11. PICK q : q = Begin(h, "write_response")
    OBVIOUS
  <2>12. /\ q \in Connections /\ Kept(q, h) /\ q.op = {"write_response"}
         /\ q.image = h.image /\ q.sent = h.sent /\ q.status_code = h.status_code
    BY <1>1, <2>10, <2>11, BeginFields
  <2>13. conn'[c] = q /\ Become(c, q)
    BY <1>10, <2>7, <2>9, <2>11, <2>12, Becomes DEF ConnInv, TypeOK
  <2>14. q.started /\ ~q.json /\ q.at \in {"idle", "close"}
    BY <1>2, <1>6, <2>1, <2>8, <2>10, <2>12 DEF Kept
  <2>15. q.sent = Append(conn[c].sent, next) /\ q.sent # <<>> /\ q.sent[1] = conn[c].sent[1]
         /\ q.sent[Len(q.sent)] = next
    <3>1. conn[c].sent \in Seq(Item)
      BY <1>1 DEF Connections
    <3> QED BY <1>2, <1>6, <2>6, <2>10, <2>12, <3>1
  <2>16. Answering(c)'
    BY <1>2, <2>1, <2>6, <2>8, <2>10, <2>12, <2>13, <2>14, <2>15 DEF Answering
  <2>17. Says(c)
    BY <1>2, <2>1, <2>5, <2>12, <2>13, <2>14, <2>15 DEF Says
  <2>18. conn' \in [Conns -> Connections] /\ \A d \in Conns \ {c} : conn'[d] = conn[d]
    BY <2>12, <2>13, Becomes DEF ConnInv, TypeOK
  <2> QED BY <2>4, <2>13, <2>14, <2>16, <2>17, <2>18 DEF Moves, Stage
<1> QED BY <1>5, <1>8, <1>9, <1>10 DEF HandleWriteResponse

LEMMA BeginTaskMoves ==
  ASSUME ConnInv, NEW c \in Conns, BeginTask(c)
  PROVE  Moves(c) /\ Grows(stream, stream')
<1>1. /\ pool!InPool(c) /\ (pool!InPool(c)' <=> pool!InPool(c)) /\ UNCHANGED conn
  <2>1. pool!InPool(c)
    BY DEF BeginTask, pool!Take, pool!InPool, ConnInv, TypeOK, pool!QueueTypeOK
  <2> QED BY <2>1, TakeEffect DEF BeginTask, ConnInv, TypeOK
<1>2. Painting(c)
  BY <1>1, WhichStage DEF ConnInv
<1>3. Grows(stream, stream')
  BY <1>2, RewindGrows DEF BeginTask, Painting, ConnInv, TypeOK, StreamsTyped
<1>4. Painting(c)' /\ conn[c].started
  BY <1>1, <1>2, <1>3 DEF Painting, Grows
<1> QED BY <1>1, <1>3, <1>4 DEF Moves, Says, Stage, ConnInv, TypeOK

LEMMA DropTaskMoves ==
  ASSUME ConnInv, NEW c \in Conns, DropTask(c)
  PROVE  Moves(c) /\ Grows(stream, stream')
<1>1. /\ pool!Answer(c) /\ exit_requested' /\ ~pool!InPool(c)' /\ UNCHANGED conn
      /\ pool!InPool(c)
  <2>1. pool!Answer(c) /\ exit_requested /\ UNCHANGED conn
    BY DEF DropTask, pool!Abandon
  <2>2. pool!InPool(c) /\ exit_requested'
    BY <2>1 DEF pool!Answer, pool!InPool
  <2> QED BY <2>1, <2>2, AnswerEffect DEF ConnInv, TypeOK
<1>2. Painting(c)
  BY <1>1, WhichStage DEF ConnInv
<1>3. Grows(stream, stream')
  BY <1>2, ToEndGrows DEF DropTask, Painting, ConnInv, TypeOK, StreamsTyped
<1>4. Over(c)' /\ conn[c].started
  BY <1>1, <1>2, StreamNames DEF Painting, Over
<1> QED BY <1>1, <1>3, <1>4 DEF Moves, Says, Stage, ConnInv, TypeOK

(* A worker rendered n chunks of the page, and answered.                   *)
Painted(c, n, new, thrown, q) ==
  /\ \E p \in {DocOf(stream[conn[c].page]), NoPath} :
       /\ new = [i \in 1..n |-> <<p, i>>]
       /\ ~q.torn => p = DocOf(stream[conn[c].page])
  /\ new \in Seq((Paths \cup {NoPath}) \X (1..OutParts)) /\ Len(new) = n
  /\ OutOnly(c) /\ stream'[Out(c)].data = new /\ (thrown \/ stream'[Out(c)].offset = 0)
  /\ Become(c, q) /\ Kept(q, conn[c]) /\ q.op = {"write_response"}
  /\ q.image \in {NoStream, Out(c)} /\ (q.image # NoStream => ~thrown /\ ~q.json)
  /\ q.status_code \in {200, 500} /\ q.sent = Append(<<>>, StatusLine(q.status_code))

LEMMA FinishTaskPaints ==
  ASSUME ConnInv, NEW c \in Conns, FinishTask(c)
  PROVE  /\ pool!InPool(c) /\ ~pool!InPool(c)' /\ Painting(c)
         /\ \E n \in 0..OutParts, thrown \in BOOLEAN, q \in Connections :
              \E new : Painted(c, n, new, thrown, q)
<1> DEFINE page == conn[c].page
           mixed == conn[c].torn \/ ~ReadsAlone(c, page) \/ ~Held(page)
<1>1. pool!InPool(c) /\ ~pool!InPool(c)'
  <2>1. pool!InPool(c)
    BY DEF FinishTask, pool!Answer, pool!InPool
  <2> QED BY <2>1, AnswerEffect DEF FinishTask, ConnInv, TypeOK
<1>2. Painting(c) /\ conn[c] \in Connections
  BY <1>1, WhichStage DEF ConnInv, TypeOK
<1>3. PICK n \in 0..OutParts, thrown \in BOOLEAN,
           p \in {DocOf(stream[page])} \cup (IF mixed THEN {NoPath} ELSE {}) :
        LET out == Write(stream[Out(c)], [i \in 1..n |-> <<p, i>>])
        IN  /\ stream' = [stream EXCEPT ![Out(c)] = FromTheStart(out, thrown),
                                        ![page] = ToItsEnd(@)]
            /\ Become(c, SendResponse([conn[c] EXCEPT !.torn = mixed],
                                      IF thrown THEN 500 ELSE 200, Size(out)))
  BY DEF FinishTask
<1>4. PICK new : new = [i \in 1..n |-> <<p, i>>]
  OBVIOUS
<1>5. PICK out : out = Write(stream[Out(c)], new)
  OBVIOUS
<1>t. PICK torn \in BOOLEAN : torn = mixed
  <2>1. mixed \in BOOLEAN
    BY <1>2 DEF Connections
  <2> QED BY <2>1
<1>m. p \in {DocOf(stream[page]), NoPath} /\ (~torn => p = DocOf(stream[page]))
  BY <1>3, <1>t
<1> HIDE DEF mixed
<1>6. p \in Paths \cup {NoPath}
  <2>1. stream[page] \in StreamsOver(Bytes)
    BY <1>2, StreamNames DEF Painting, ConnInv, TypeOK
  <2>2. stream[page].data # <<>> => stream[page].data[1] \in Bytes
    BY <2>1 DEF StreamsOver
  <2> QED BY <1>m, <2>2 DEF Bytes, DocOf
<1>7. /\ n \in Nat /\ new \in Seq((Paths \cup {NoPath}) \X (1..OutParts)) /\ Len(new) = n
      /\ new \in Seq(Bytes)
  <2>1. n \in Nat /\ n <= OutParts /\ OutParts \in Nat
    BY ConnectionAssumption
  <2>2. \A i \in 1..n : <<p, i>> \in (Paths \cup {NoPath}) \X (1..OutParts)
    BY <1>6, <2>1
  <2>3. \A i \in 1..n : <<p, i>> \in Bytes
    BY <1>6, <2>1 DEF Bytes
  <2> QED BY <1>4, <2>1, <2>2, <2>3
<1>8. out.data = new /\ out \in StreamsOver(Bytes)
  <2>1. stream[Out(c)] = EmptyStream
    BY <1>2 DEF Painting
  <2>2. AtEnd(EmptyStream) /\ EmptyStream.data = <<>> /\ EmptyStream \in StreamsOver(Bytes)
    BY EmptyType DEF AtEnd, Size, EmptyStream
  <2>3. out = [data |-> <<>> \o new, offset |-> 0 + Len(new)]
    BY <1>5, <2>1, <2>2 DEF Write, Size
  <2> QED BY <1>7, <2>3 DEF StreamsOver
<1>9. /\ FromTheStart(out, thrown) \in StreamsOver(Bytes)
      /\ FromTheStart(out, thrown).data = new
      /\ thrown \/ FromTheStart(out, thrown).offset = 0
  BY <1>8, RewindType DEF FromTheStart
<1>10. /\ OutOnly(c) /\ stream'[Out(c)].data = new
       /\ thrown \/ stream'[Out(c)].offset = 0
  <2>1. page \in Sources /\ page # Out(c) /\ Grows(stream, [stream EXCEPT ![page] = ToItsEnd(@)])
    BY <1>2, StreamNames, ToEndGrows DEF Painting, ConnInv, TypeOK, StreamsTyped
  <2>2. ToItsEnd(stream[page]).data = stream[page].data /\ ToItsEnd(stream[page]) \in StreamsOver(Bytes)
    <3>1. stream[page] \in StreamsOver(Bytes) /\ Size(stream[page]) \in Nat
      BY <2>1, StreamNames DEF ConnInv, TypeOK, StreamsOver, Size
    <3> QED BY <3>1, ReadType DEF ToItsEnd
  <2>3. stream' = [stream EXCEPT ![Out(c)] = FromTheStart(out, thrown), ![page] = ToItsEnd(@)]
    BY <1>3, <1>4, <1>5
  <2>4. \A s \in Streams : stream'[s] = IF s = page THEN ToItsEnd(stream[page])
                                        ELSE IF s = Out(c) THEN FromTheStart(out, thrown) ELSE stream[s]
    BY <2>1, <2>3 DEF ConnInv, TypeOK
  <2>5. stream' \in [Streams -> StreamsOver(Bytes)]
    BY <1>9, <2>2, <2>3 DEF ConnInv, TypeOK
  <2> QED BY <1>9, <2>1, <2>2, <2>4, <2>5, StreamNames DEF OutOnly, StreamsTyped
<1>11. PICK code \in {200, 500} : code = IF thrown THEN 500 ELSE 200
  OBVIOUS
<1>12. PICK q \in Connections :
           /\ q = SendResponse([conn[c] EXCEPT !.torn = torn], code, Size(out))
           /\ Kept(q, conn[c])
           /\ q.op = conn[c].op \cup {"write_response"}
           /\ q.status_code \in {code, 500}
           /\ q.sent = Append(conn[c].sent, StatusLine(q.status_code))
           /\ q.image \in {NoStream, conn[c].image}
           /\ q.image # NoStream => code = 200 /\ ~conn[c].json
           /\ q.torn = torn
  <2>1. code \in Nat
    BY <1>11
  <2>2. PICK r : r = [conn[c] EXCEPT !.torn = torn]
    OBVIOUS
  <2>3. /\ r \in Connections /\ Kept(r, conn[c]) /\ r.op = conn[c].op /\ r.sent = conn[c].sent
        /\ r.image = conn[c].image /\ r.json = conn[c].json /\ r.torn = torn
    BY <1>2, <2>2 DEF Connections, Kept
  <2>4. PICK q \in Connections :
           /\ q = SendResponse(r, code, Size(out))
           /\ Kept(q, r)
           /\ q.op = r.op \cup {"write_response"}
           /\ q.status_code \in {code, 500}
           /\ q.sent = Append(r.sent, StatusLine(q.status_code))
           /\ q.image \in {NoStream, r.image}
           /\ q.image # NoStream => code = 200 /\ ~r.json
           /\ q.torn = r.torn
    <3>1. r \in Connections
      BY <2>3
    <3> QED BY <2>1, <3>1, ResponseFields
  <2>5. Kept(q, conn[c])
    BY <2>3, <2>4 DEF Kept
  <2> QED BY <2>2, <2>3, <2>4, <2>5
<1>13. Become(c, q)
  BY <1>3, <1>4, <1>5, <1>t, <1>11, <1>12
<1>14. /\ q.op = {"write_response"} /\ q.image \in {NoStream, Out(c)}
       /\ q.status_code \in {200, 500} /\ q.sent = Append(<<>>, StatusLine(q.status_code))
  BY <1>2, <1>12 DEF Painting
<1>15. q.image # NoStream => ~thrown /\ ~q.json
  BY <1>11, <1>12 DEF Kept
<1>16. Painted(c, n, new, thrown, q)
  <2>1. \E x \in {DocOf(stream[conn[c].page]), NoPath} :
          /\ new = [i \in 1..n |-> <<x, i>>]
          /\ ~q.torn => x = DocOf(stream[conn[c].page])
    BY <1>m, <1>4, <1>12
  <2> QED BY <2>1, <1>7, <1>10, <1>12, <1>13, <1>14, <1>15 DEF Painted
<1> QED BY <1>1, <1>2, <1>16

LEMMA FinishTaskMoves ==
  ASSUME ConnInv, NEW c \in Conns, FinishTask(c)
  PROVE  Moves(c) /\ OutOnly(c) /\ Rendered(c)'
<1>1. ~pool!InPool(c)' /\ Painting(c)
  BY FinishTaskPaints
<1>2. PICK n \in 0..OutParts, thrown \in BOOLEAN, q \in Connections :
        \E new : Painted(c, n, new, thrown, q)
  BY FinishTaskPaints
<1>3. PICK new : Painted(c, n, new, thrown, q)
  BY <1>2
<1>4. /\ q.started /\ q.op = {"write_response"} /\ q.at \in {"idle", "close"}
      /\ q.image \in {NoStream, Out(c)} /\ q.status_code \in ReplyCodes
      /\ q.image # NoStream => ~q.json
      /\ conn[c].sent = <<>> /\ q.sent = Append(conn[c].sent, StatusLine(q.status_code))
  BY <1>1, <1>3, FinishTaskPaints DEF Painting, Painted, Kept, ReplyCodes
<1>5. Become(c, q)
  BY <1>3 DEF Painted
<1>6. Moves(c)
  BY <1>1, <1>4, <1>5, MovesToReply
<1>7. Rendered(c)'
  <2>1. /\ stream'[Out(c)].data = new
        /\ new \in Seq((Paths \cup {NoPath}) \X (1..OutParts))
    BY <1>3 DEF Painted
  <2>2. \A i \in 1..Len(new) : new[i] \in (Paths \cup {NoPath}) \X (1..OutParts)
    BY <2>1
  <2> QED BY <2>1, <2>2 DEF Rendered
<1> QED BY <1>3, <1>6, <1>7 DEF Painted

LEMMA PutEffect ==
  ASSUME ConnInv, NEW k \in Paths, NEW s \in Sources, cache!Put(k, s)
  PROVE  cache!CacheTypeOK' /\ \A p \in Paths : map'[p] \in Sources \cup {NoStream}
<1>1. /\ map \in [Paths -> Streams \cup {NoStream}] /\ queue \in Seq(Paths)
      /\ Len(queue) <= items_cap /\ items_cap \in Nat /\ map' = [map EXCEPT ![k] = s]
  BY ConnectionAssumption DEF ConnInv, TypeOK, cache!CacheTypeOK, cache!Put
<1>2. map' \in [Paths -> Streams \cup {NoStream}] /\ \A p \in Paths : map'[p] \in Sources \cup {NoStream}
  BY <1>1, StreamNames DEF ConnInv
<1>3. queue' \in Seq(Paths) /\ Len(queue') <= items_cap
  <2>1. CASE UNCHANGED queue
    BY <1>1, <2>1
  <2>2. CASE cache!Push(k)
    <3>1. PICK longer : longer = Append(queue, k)
      OBVIOUS
    <3>2. longer \in Seq(Paths) /\ longer # <<>> /\ Len(longer) = Len(queue) + 1
      BY <1>1, <3>1
    <3>3. Tail(longer) \in Seq(Paths) /\ Len(Tail(longer)) = Len(longer) - 1
      BY <3>2
    <3>4. queue' = IF Len(longer) > items_cap THEN Tail(longer) ELSE longer
      BY <2>2, <3>1 DEF cache!Push
    <3> QED BY <1>1, <3>2, <3>3, <3>4
  <2> QED BY <2>1, <2>2 DEF cache!Put
<1> QED BY <1>2, <1>3 DEF cache!CacheTypeOK

(* What a step of c makes of what the connections share.                   *)
Shares(c) ==
  /\ Grows(stream, stream') \/ (OutOnly(c) /\ Rendered(c)')
  /\ pool!QueueTypeOK' /\ QueuedOnce' /\ (exit_requested => exit_requested')
  /\ \A d \in Conns \ {c} : pool!InPool(d)' <=> pool!InPool(d)
  /\ cache!CacheTypeOK' /\ \A k \in Paths : map'[k] \in Sources \cup {NoStream}

LEMMA CacheStays ==
  ASSUME ConnInv, UNCHANGED cacheVars
  PROVE  cache!CacheTypeOK' /\ \A k \in Paths : map'[k] \in Sources \cup {NoStream}
  BY DEF ConnInv, TypeOK, cache!CacheTypeOK, cacheVars

LEMMA PoolStays ==
  ASSUME ConnInv, UNCHANGED poolVars
  PROVE  /\ pool!QueueTypeOK' /\ QueuedOnce' /\ (exit_requested => exit_requested')
         /\ \A d \in Conns : pool!InPool(d)' <=> pool!InPool(d)
  BY DEF ConnInv, TypeOK, pool!QueueTypeOK, poolVars, QueuedOnce, pool!InPool

LEMMA StreamStays ==
  ASSUME ConnInv, UNCHANGED stream
  PROVE  Grows(stream, stream')
  BY DEF ConnInv, TypeOK, Grows, StreamsTyped

LEMMA ReplyKept ==
  ASSUME ConnInv, NEW c \in Conns, Moves(c)
  PROVE  OneResponse'
<1> DEFINE Reply(r) == \A i \in 1..Len(r.sent) :
                         /\ r.sent[i].kind = "status" <=> i = 1
                         /\ r.sent[i].kind = "last" => i = Len(r.sent)
                         /\ i > 1 => r.sent[1] = StatusLine(200) /\ ~r.json
<1>1. \A d \in Conns : Reply(conn[d])
  BY DEF ConnInv, OneResponse
<1>2. conn[c] \in Connections /\ conn'[c] \in Connections
  BY DEF Moves, ConnInv, TypeOK
<1>3. conn[c].sent \in Seq(Item) /\ conn'[c].sent \in Seq(Item)
  BY <1>2 DEF Connections
<1>4. Reply(conn'[c])
  <2>1. CASE conn'[c].sent = conn[c].sent /\ (conn[c].sent # <<>> => conn'[c].json = conn[c].json)
    BY <1>1, <1>3, <2>1
  <2>2. ASSUME conn[c].sent = <<>>, NEW code \in ReplyCodes,
               conn'[c].sent = Append(conn[c].sent, StatusLine(code))
        PROVE  Reply(conn'[c])
    <3>1. Len(conn'[c].sent) = 1 /\ conn'[c].sent[1] = StatusLine(code)
      BY <2>2
    <3> QED BY <3>1 DEF StatusLine
  <2>3. ASSUME conn[c].sent # <<>>, conn[c].sent[1] = StatusLine(200),
               conn[c].sent[Len(conn[c].sent)].kind # "last", ~conn'[c].json,
               NEW item \in BodyItems, conn'[c].sent = Append(conn[c].sent, item)
        PROVE  Reply(conn'[c])
    <3>1. item.kind \in {"chunk", "last"}
      BY <2>3 DEF BodyItems, Chunk, LastChunk
    <3>2. /\ Len(conn'[c].sent) = Len(conn[c].sent) + 1 /\ Len(conn[c].sent) \in Nat \ {0}
          /\ conn'[c].sent[Len(conn[c].sent) + 1] = item
          /\ \A i \in 1..Len(conn[c].sent) : conn'[c].sent[i] = conn[c].sent[i]
      BY <1>3, <2>3
    <3>3. ASSUME NEW i \in 1..Len(conn[c].sent)
          PROVE  /\ conn'[c].sent[i].kind = "status" <=> i = 1
                 /\ conn'[c].sent[i].kind # "last"
      BY <1>1, <2>3, <3>2
    <3>4. conn'[c].sent[1] = StatusLine(200)
      BY <2>3, <3>2
    <3> QED BY <2>3, <3>1, <3>2, <3>3, <3>4
  <2> QED BY <2>1, <2>2, <2>3 DEF Moves, Says
<1>5. \A d \in Conns : Reply(conn'[d])
  BY <1>1, <1>4 DEF Moves
<1> QED BY <1>5 DEF OneResponse, StatusLine

LEMMA StepKeepsInv ==
  ASSUME ConnInv, NEW c \in Conns, Moves(c), Shares(c)
  PROVE  ConnInv'
<1>1. StreamsTyped(stream')
  BY DEF Shares, Grows, OutOnly
<1>2. TypeOK'
  BY <1>1 DEF Moves, Shares, StreamsTyped, TypeOK
<1>3. OneResponse'
  BY ReplyKept
<1>4. ASSUME NEW d \in Conns \ {c} PROVE stream'[Out(d)] = stream[Out(d)]
  BY StreamNames DEF Shares, Grows, OutOnly
<1>6. Rendered(c)'
  BY DEF Shares, Grows, ConnInv, Rendered
<1>7. ASSUME NEW d \in Conns \ {c} PROVE Stage(d)' /\ Rendered(d)'
  <2>1. Rendered(d)'
    BY <1>4 DEF ConnInv, Rendered
  <2>2. Stage(d) /\ conn'[d] = conn[d] /\ (pool!InPool(d)' <=> pool!InPool(d))
        /\ (exit_requested => exit_requested')
    BY DEF ConnInv, Moves, Shares
  <2>3. Stage(d)'
    BY <1>4, <2>2, Elsewhere
  <2> QED BY <2>1, <2>3
<1> QED BY <1>2, <1>3, <1>6, <1>7 DEF ConnInv, Moves, Shares

LEMMA StopKeepsInv ==
  ASSUME ConnInv, StopPool
  PROVE  ConnInv'
<1>1. UNCHANGED <<conn, stream, cacheVars>>
  BY DEF StopPool
<1>2. /\ pool!QueueTypeOK' /\ QueuedOnce' /\ exit_requested'
      /\ \A d \in Conns : pool!InPool(d)' => pool!InPool(d)
  BY StopEffect DEF StopPool, ConnInv, TypeOK
<1>3. TypeOK' /\ OneResponse' /\ \A k \in Paths : map'[k] \in Sources \cup {NoStream}
  BY <1>1, <1>2, CacheStays DEF ConnInv, TypeOK, OneResponse
<1>4. ASSUME NEW d \in Conns PROVE Stage(d)' /\ Rendered(d)'
  <2>1. Rendered(d)'
    BY <1>1 DEF ConnInv, Rendered
  <2>2. CASE pool!InPool(d)' <=> pool!InPool(d)
    BY <1>1, <1>2, <2>1, <2>2, Elsewhere DEF ConnInv
  <2>3. CASE pool!InPool(d) /\ ~pool!InPool(d)'
    <3>1. Painting(d)
      BY <2>3, WhichStage DEF ConnInv
    <3>2. Over(d)'
      BY <1>1, <1>2, <2>3, <3>1, StreamNames DEF Painting, Over
    <3> QED BY <2>1, <3>2 DEF Stage
  <2> QED BY <1>2, <2>2, <2>3
<1> QED BY <1>2, <1>3, <1>4 DEF ConnInv

(* The steps that touch nothing that is shared, or only the streams.       *)
LEMMA SharesStreams ==
  ASSUME ConnInv, NEW c \in Conns, UNCHANGED <<cacheVars, poolVars>>,
         Grows(stream, stream') \/ (OutOnly(c) /\ Rendered(c)')
  PROVE  Shares(c)
<1>1. UNCHANGED cacheVars /\ UNCHANGED poolVars
  OBVIOUS
<1> QED BY <1>1, CacheStays, PoolStays DEF Shares

LEMMA RequestShares ==
  ASSUME ConnInv, NEW c \in Conns, ReadRequestComplete(c)
  PROVE  Shares(c)
<1>1. Reading(c) /\ conn[c] \in Connections
  BY WhichStage DEF ConnInv, TypeOK, ReadRequestComplete
<1>2. UNCHANGED <<cacheVars, poolVars>>
  BY DEF ReadRequestComplete
<1>3. PICK q \in Requests :
        LET r == [Fired(c, "read_request") EXCEPT !.received = HeaderFrags, !.json = q.json]
        IN  \/ UNCHANGED stream
            \/ /\ q.get /\ q.path # NoPath
               /\ SendRequest(c, [r EXCEPT !.webhdfs_path = q.path], q.path, stream)
  BY DEF ReadRequestComplete, GiveUp
<1>4. CASE UNCHANGED stream
  BY <1>2, <1>4, StreamStays, SharesStreams
<1>5. CASE ~UNCHANGED stream
  <2>1. PICK r : r = [Fired(c, "read_request") EXCEPT !.received = HeaderFrags, !.json = q.json,
                                                      !.webhdfs_path = q.path]
    OBVIOUS
  <2>2. SendRequest(c, r, q.path, stream) /\ q.path \in Paths
    BY <1>3, <1>5, <2>1, ConnectionAssumption DEF RequestSpace
  <2>3. r.image = NoStream
    BY <1>1, <2>1 DEF Reading, Fired, Connections
  <2>4. stream' = stream \/ Grows(stream, stream')
    BY <2>2, <2>3, SendRequestGrows DEF ConnInv, TypeOK, StreamsTyped
  <2> QED BY <1>2, <2>4, StreamStays, SharesStreams
<1> QED BY <1>3, <1>4, <1>5

LEMMA ResponseShares ==
  ASSUME ConnInv, NEW c \in Conns, ReadResponse(c)
  PROVE  Shares(c)
<1>1. PICK n, code, r, str : Parsed(c, n, code, r, str)
  BY ReadResponseParsed
<1>2. r \in Connections /\ r.image = Source(c) /\ r.webhdfs_path \in Paths /\ Grows(stream, str)
  BY <1>1, ParsedFacts
<1>3. StreamsTyped(stream) /\ StreamsTyped(str)
  BY <1>2 DEF ConnInv, TypeOK, StreamsTyped, Grows
<1>4. stream' = str \/ Grows(str, stream') => Grows(stream, stream')
  BY <1>2, <1>3, GrowsOn
<1>5. Redirected(c, r, str) => Grows(stream, stream')
  <2>1. ASSUME NEW p \in Locations(r),
               SendRequest(c, [r EXCEPT !.webhdfs_path = p, !.open = FALSE, !.hops = @ + 1], p, str)
        PROVE  Grows(stream, stream')
    <3>1. PICK g : g = [r EXCEPT !.webhdfs_path = p, !.open = FALSE, !.hops = @ + 1]
      OBVIOUS
    <3>2. g.image = Source(c) /\ p \in Paths
      BY <1>2, <2>1, <3>1, ConnectionAssumption DEF Locations, Connections
    <3>3. SendRequest(c, g, p, str)
      BY <2>1, <3>1
    <3>4. stream' = str \/ Grows(str, stream')
      BY <1>3, <3>2, <3>3, SendRequestGrows
    <3> QED BY <1>4, <3>4
  <2> QED BY <1>4, <2>1 DEF Redirected
<1>6. Fetched(c, r, str) => Grows(stream, stream')
  <2>1. ASSUME stream' = [str EXCEPT ![r.image] = Rewind(@)] PROVE Grows(str, stream')
    <3>1. r.image \in Sources
      BY <1>2, StreamNames
    <3> QED BY <1>3, <2>1, <3>1, RewindGrows
  <2> QED BY <1>4, <2>1 DEF Fetched
<1>7. Rejected(c, r, str) \/ Unfinished(c, r, str) => Grows(stream, stream')
  BY <1>4 DEF Rejected, Unfinished
<1>8. Grows(stream, stream')
  BY <1>1, <1>5, <1>6, <1>7, StreamStays DEF Parsed
<1> QED BY <1>8, SharesStreams DEF ReadResponse

LEMMA HandleMoves ==
  ASSUME ConnInv, NEW c \in Conns, Start(c) \/ Handle(c)
  PROVE  Moves(c) /\ Shares(c)
<1>1. CASE Start(c)
  BY <1>1, StartMoves, StreamStays, SharesStreams DEF Start
<1>2. CASE ReadRequestFails(c) \/ ReadRequestInvalid(c) \/ ReadRequestMore(c)
  BY <1>2, ReadRequestMoves, StreamStays, SharesStreams
     DEF ReadRequestFails, ReadRequestInvalid, ReadRequestMore, GiveUp
<1>3. CASE ReadRequestComplete(c)
  BY <1>3, ReadRequestCompleteMoves, RequestShares
<1>4. CASE HandleResolve(c)
  BY <1>4, HandleResolveMoves, StreamStays, SharesStreams DEF HandleResolve, GiveUp
<1>5. CASE HandleConnect(c)
  BY <1>5, HandleConnectMoves, StreamStays, SharesStreams DEF HandleConnect, GiveUp
<1>6. CASE HandleWriteRequest(c)
  BY <1>6, HandleWriteRequestMoves, StreamStays, SharesStreams
     DEF HandleWriteRequest, GiveUp
<1>7. CASE ReadResponseFails(c) \/ ReadResponseInvalid(c) \/ ReadResponseEof(c)
  BY <1>7, ReadResponseEnds, StreamStays, SharesStreams
     DEF ReadResponseFails, ReadResponseInvalid, ReadResponseEof, GiveUp
<1>8. CASE ReadResponse(c)
  BY <1>8, ReadResponseMoves, ResponseShares
<1>9. CASE HandleWriteResponse(c)
  <2>1. UNCHANGED <<cacheVars, poolVars>>
    BY <1>9 DEF HandleWriteResponse, GiveUp
  <2> QED BY <1>9, <2>1, HandleWriteResponseMoves, SharesStreams
<1> QED BY <1>1, <1>2, <1>3, <1>4, <1>5, <1>6, <1>7, <1>8, <1>9 DEF Handle

LEMMA ContinueMoves ==
  ASSUME ConnInv, NEW c \in Conns, Continue(c)
  PROVE  Moves(c) /\ Shares(c)
<1>1. CASE LoadDoc(c)
  BY <1>1, LoadDocMoves, SharesStreams DEF LoadDoc
<1>2. CASE PutImage(c)
  <2>1. Moves(c) /\ OutOnly(c) /\ Rendered(c)' /\ UNCHANGED poolVars
    BY <1>2, PutImageMoves DEF PutImage
  <2>2. conn[c].image \in Sources /\ conn[c].image_path \in Paths
    BY <1>2, WhichStage DEF PutImage, ConnInv, Loading
  <2>3. UNCHANGED cacheVars \/ cache!Put(conn[c].image_path, conn[c].image)
    BY <1>2 DEF PutImage, cache!PutTimedOut, cache!cacheVars, cacheVars
  <2>4. cache!CacheTypeOK' /\ \A k \in Paths : map'[k] \in Sources \cup {NoStream}
    BY <2>2, <2>3, CacheStays, PutEffect
  <2>5. Shares(c)
    BY <2>1, <2>4, PoolStays DEF Shares
  <2> QED BY <2>1, <2>5
<1>3. CASE CheckPool(c)
  <2>1. UNCHANGED <<stream, cacheVars, poolVars>>
    BY <1>3 DEF CheckPool, pool!Refuse, pool!poolVars, poolVars
  <2> QED BY <1>3, <2>1, CheckPoolMoves, StreamStays, SharesStreams
<1>4. CASE AddTask(c)
  <2>1. UNCHANGED <<stream, cacheVars>> /\ pool!Accept(c) /\ (exit_requested => exit_requested')
    BY <1>4 DEF AddTask, pool!Accept
  <2>2. Shares(c)
    BY <2>1, AcceptEffect, StreamStays, CacheStays DEF Shares, ConnInv, TypeOK
  <2> QED BY <1>4, <2>2, AddTaskMoves
<1>5. CASE CloseSocket(c)
  BY <1>5, CloseSocketMoves, StreamStays, SharesStreams DEF CloseSocket
<1> QED BY <1>1, <1>2, <1>3, <1>4, <1>5 DEF Continue

LEMMA WorkMoves ==
  ASSUME ConnInv, NEW c \in Conns, Work(c)
  PROVE  Moves(c) /\ Shares(c)
<1>1. CASE BeginTask(c)
  <2>1. UNCHANGED cacheVars /\ pool!Take(c) /\ (exit_requested => exit_requested')
    BY <1>1 DEF BeginTask, pool!Take
  <2>2. Shares(c)
    BY <1>1, <2>1, TakeEffect, BeginTaskMoves, CacheStays DEF Shares, ConnInv, TypeOK
  <2> QED BY <1>1, <2>2, BeginTaskMoves
<1>2. ASSUME pool!Answer(c)
      PROVE  /\ pool!QueueTypeOK' /\ QueuedOnce' /\ (exit_requested => exit_requested')
             /\ \A d \in Conns \ {c} : pool!InPool(d)' <=> pool!InPool(d)
  <2>1. exit_requested => exit_requested'
    BY <1>2 DEF pool!Answer
  <2> QED BY <1>2, <2>1, AnswerEffect DEF ConnInv, TypeOK
<1>3. CASE FinishTask(c)
  <2>1. Moves(c) /\ OutOnly(c) /\ Rendered(c)' /\ pool!Answer(c) /\ UNCHANGED cacheVars
    BY <1>3, FinishTaskMoves DEF FinishTask
  <2>2. Shares(c)
    BY <1>2, <2>1, CacheStays DEF Shares
  <2> QED BY <2>1, <2>2
<1>4. CASE DropTask(c)
  <2>1. UNCHANGED cacheVars /\ pool!Answer(c)
    BY <1>4 DEF DropTask, pool!Abandon
  <2>2. Shares(c)
    BY <1>2, <1>4, <2>1, DropTaskMoves, CacheStays DEF Shares
  <2> QED BY <1>4, <2>2, DropTaskMoves
<1> QED BY <1>1, <1>3, <1>4 DEF Work

LEMMA ConnMoves ==
  ASSUME ConnInv, NEW c \in Conns, Start(c) \/ Handle(c) \/ Continue(c) \/ Work(c)
  PROVE  Moves(c) /\ Shares(c)
  BY HandleMoves, ContinueMoves, WorkMoves

LEMMA ConnStep == ConnInv /\ [Next]_vars => ConnInv'
<1> SUFFICES ASSUME ConnInv, [Next]_vars PROVE ConnInv'
  OBVIOUS
<1>1. CASE StopPool
  BY <1>1, StopKeepsInv
<1>2. ASSUME NEW c \in Conns, Start(c) \/ Handle(c) \/ Continue(c) \/ Work(c)
      PROVE  ConnInv'
  BY <1>2, ConnMoves, StepKeepsInv
<1>3. CASE UNCHANGED vars
  <2>1. TypeOK' /\ OneResponse' /\ QueuedOnce' /\ \A k \in Paths : map'[k] \in Sources \cup {NoStream}
    BY <1>3 DEF vars, ConnInv, TypeOK, OneResponse, QueuedOnce, cache!CacheTypeOK, pool!QueueTypeOK
  <2>2. ASSUME NEW c \in Conns PROVE Stage(c)' /\ Rendered(c)'
    <3>1. Rendered(c)' /\ (pool!InPool(c)' <=> pool!InPool(c))
      BY <1>3 DEF vars, ConnInv, Rendered, pool!InPool
    <3> QED BY <1>3, <3>1, Elsewhere DEF ConnInv, vars
  <2> QED BY <2>1, <2>2 DEF ConnInv
<1> QED BY <1>1, <1>2, <1>3 DEF Next

LEMMA ConnInit == Init => ConnInv
<1> SUFFICES ASSUME Init PROVE ConnInv
  OBVIOUS
<1>1. NewConnection \in Connections
  BY DEF NewConnection, Connections, Positions
<1>2. /\ conn \in [Conns -> Connections] /\ stream \in [Streams -> StreamsOver(Bytes)]
      /\ \A c \in Conns : conn[c] = NewConnection /\ stream[Out(c)] = EmptyStream
  BY <1>1, EmptyType, StreamNames DEF Init
<1>3. cache!CacheTypeOK /\ pool!QueueTypeOK /\ \A k \in Paths : map[k] = NoStream
  <2>1. items_cap \in Nat
    BY ConnectionAssumption
  <2>2. queue = <<>> /\ map = [k \in Paths |-> NoStream]
    BY DEF Init, cache!CacheInit
  <2>3. cache!CacheTypeOK
    BY <2>1, <2>2 DEF cache!CacheTypeOK
  <2>4. tasks = <<>> /\ rendering = {} /\ exit_requested = FALSE /\ running = TRUE
    BY DEF Init
  <2>5. pool!QueueTypeOK
    <3>1. tasks \in Seq(Conns) /\ rendering \in SUBSET Conns
      BY <2>4
    <3>2. exit_requested \in BOOLEAN /\ running \in BOOLEAN
      BY <2>4, Zenon
    <3> QED BY <3>1, <3>2 DEF pool!QueueTypeOK
  <2> QED BY <2>2, <2>3, <2>5
<1>4. QueuedOnce /\ \A c \in Conns : ~pool!InPool(c)
  BY DEF Init, QueuedOnce, pool!InPool
<1>5. ASSUME NEW c \in Conns PROVE New(c) /\ Rendered(c) /\ conn[c].sent = <<>>
  BY <1>2, <1>4, <1>5 DEF New, Rendered, EmptyStream, NewConnection
<1>6. OneResponse
  BY <1>5 DEF OneResponse
<1> QED BY <1>2, <1>3, <1>4, <1>5, <1>6 DEF ConnInv, TypeOK, Stage

(* Every reachable state satisfies the inductive invariant: a connection   *)
(* is in one of its stages, whatever the others, the network and the pool  *)
(* do.                                                                     *)
THEOREM ConnectionInvariant == Spec => []ConnInv
  BY ConnInit, ConnStep, PTL DEF Spec

(* The members of every object have values of their types: among others,   *)
(* the cache's queue never exceeds its capacity.                           *)
THEOREM TypeCorrect == Spec => []TypeOK
<1>1. ConnInv => TypeOK
  BY DEF ConnInv
<1> QED BY <1>1, ConnectionInvariant, PTL

(* A connection has one owner at a time: one pending operation, or a       *)
(* handler inside SendPage, or its task in the pool, and that once.        *)
THEOREM OneOwner == Spec => []SingleOwner
<1>1. ASSUME ConnInv PROVE SingleOwner
  <2>1. ASSUME NEW c \in Conns
        PROVE  /\ \A o, p \in conn[c].op : o = p
               /\ InSendPage(c) => conn[c].op = {}
               /\ pool!InPool(c) => conn[c].op = {} /\ ~InSendPage(c)
    <3>1. Stage(c)
      BY <1>1 DEF ConnInv
    <3>2. New(c) \/ Reading(c) \/ Asking(c) =>
            /\ \A o, p \in conn[c].op : o = p
            /\ conn[c].at = "idle" /\ ~pool!InPool(c)
      BY DEF New, Reading, Asking
    <3>3. Loading(c) => conn[c].op = {} /\ ~pool!InPool(c)
      BY DEF Loading
    <3>4. Painting(c) => conn[c].op = {} /\ (pool!InPool(c) => conn[c].at \in {"idle", "close"})
      BY DEF Painting
    <3>5. Answering(c) \/ Over(c) =>
            /\ \A o, p \in conn[c].op : o = p
            /\ conn[c].at \in {"idle", "close"} /\ ~pool!InPool(c)
      BY DEF Answering, Over
    <3> QED BY <3>1, <3>2, <3>3, <3>4, <3>5 DEF Stage, InSendPage
  <2>2. QueuedOnce
    BY <1>1 DEF ConnInv
  <2> QED BY <2>1, <2>2 DEF SingleOwner, QueuedOnce
<1> QED BY <1>1, ConnectionInvariant, PTL

(* No handler, worker or retry makes a connection answer twice, or with    *)
(* chunks after anything but the status 200, or beyond the last chunk.     *)
THEOREM RespondsOnce == Spec => []OneResponse
<1>1. ConnInv => OneResponse
  BY DEF ConnInv
<1> QED BY <1>1, ConnectionInvariant, PTL

(* webhdfs_socket is open while it is used: what follows SendPage never    *)
(* closes the socket of a later request.                                   *)
THEOREM SocketOpen == Spec => []UpstreamOpen
<1>1. ASSUME ConnInv PROVE UpstreamOpen
  <2>1. ASSUME NEW c \in Conns
        PROVE  /\ conn[c].op \cap {"connect", "write_request", "read_response"} # {} => conn[c].open
               /\ conn[c].at = "close" => conn[c].op \subseteq {"write_response"}
    <3>1. Stage(c)
      BY <1>1 DEF ConnInv
    <3>2. Asking(c) => conn[c].at = "idle" /\ (conn[c].op # {"resolve"} => conn[c].open)
      BY DEF Asking
    <3>3. New(c) \/ Reading(c) =>
            conn[c].at = "idle" /\ conn[c].op \subseteq {"read_request"}
      BY DEF New, Reading
    <3>4. Loading(c) \/ Painting(c) \/ Answering(c) \/ Over(c) =>
            conn[c].op \subseteq {"write_response"}
      BY DEF Loading, Painting, Answering, Over
    <3> QED BY <3>1, <3>2, <3>3, <3>4 DEF Stage
  <2> QED BY <2>1 DEF UpstreamOpen
<1> QED BY <1>1, ConnectionInvariant, PTL

(* No branch of a handler forgets the client: a connection that ends       *)
(* without a status line met a transport failure or a document without     *)
(* page 0, or the pool was told to exit.                                   *)
THEOREM NobodyForgotten == Spec => []Answered
<1>1. ASSUME ConnInv PROVE Answered
  <2>1. ASSUME NEW c \in Conns, Gone(c), conn[c].sent = <<>>
        PROVE  conn[c].lost \/ (exit_requested /\ conn[c].page # NoStream)
    <3>1. Stage(c)
      BY <1>1 DEF ConnInv
    <3>2. ~(New(c) \/ Reading(c) \/ Asking(c) \/ Answering(c))
      BY <2>1 DEF Gone, New, Reading, Asking, Answering
    <3>3. ~(Loading(c) \/ Painting(c))
      BY <2>1 DEF Gone, Loading, Painting
    <3> QED BY <2>1, <3>1, <3>2, <3>3 DEF Stage, Over
  <2> QED BY <2>1 DEF Answered
<1> QED BY <1>1, ConnectionInvariant, PTL
=============================================================================
