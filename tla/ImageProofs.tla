---------------------------- MODULE ImageProofs ----------------------------
(***************************************************************************)
(* Theorems about the images of Connection: who may know one while it is   *)
(* fetched, what the cache holds, what reaches the client; and that a      *)
(* connection implements Exchange.                                         *)
(*                                                                         *)
(* A redirect may lead anywhere: an image is cached under the path that    *)
(* was asked for and holds the file webhdfs sent.  That the two are the    *)
(* same file needs SamePath, what WebHDFS does when it sends a client from *)
(* the namenode to a datanode; only the two theorems that name it use it.  *)
(***************************************************************************)
EXTENDS ConnectionProofs

SamePath == \A p \in Paths : Redirects[p] \subseteq {p, Favicon}
Serves(p, q) == SamePath => q = p

(* Stages of the life of Source(c): untouched; known to c alone.           *)
Quiet(c) == ~conn[c].started \/ "read_request" \in conn[c].op
Unshared(c) == Quiet(c) \/ Fetching(c)

(* Its page is with the pool or about to be. *)
Waiting(c) == conn[c].at \in {"add", "push"} \/ pool!InPool(c)

(* A header or a chunk is being written, and there is more.                *)
Writing(c) ==
  "write_response" \in conn[c].op /\ conn[c].status_code = 200 /\ conn[c].image # NoStream

Private(c) ==
  /\ conn[c].content \in {NoStream, Source(c)}
  /\ Unshared(c) =>
       /\ \A d \in Conns \ {c} : Source(c) \notin {conn[d].image, conn[d].page}
       /\ \A k \in Paths : map[k] # Source(c)

(* Its page is made of what it fetched, and keeps, or of another's stream. *)
Known(c) ==
  conn[c].at \in {"load", "put"} \/ Waiting(c) =>
    \/ conn[c].content = Source(c) /\ (Waiting(c) => conn[c].page = Source(c))
    \/ /\ conn[c].content = NoStream
       /\ IF conn[c].at = "load" THEN conn[c].image # Source(c) ELSE conn[c].page # Source(c)

(* What a stream that images are fetched into may hold: nothing; the body  *)
(* of a redirect, after which it takes no more; the file sent for p.       *)
Blank(s) == s.data = <<>> /\ s.offset = 0
Spoiled(s) == s.data # <<>> /\ s.data[1][1] = NoPath
Whole(s, p) ==
  /\ s.data # <<>>
  /\ s.data[1][1] \in Paths /\ Serves(p, s.data[1][1])
  /\ s.data = Body(200, s.data[1][1])

Served(c) ==
  LET r == conn[c]
      s == stream[Source(c)]
  IN  /\ Quiet(c) => Blank(s)
      /\ r.op \cap Upstream # {} \/ (r.at = "load" /\ r.content # NoStream) =>
           Serves(r.image_path, r.webhdfs_path) /\ r.webhdfs_path \in Paths
      /\ r.op \cap {"resolve", "connect", "write_request"} # {} => Blank(s) \/ Spoiled(s)
      /\ "read_response" \in r.op =>
           \/ Spoiled(s)
           \/ AtEnd(s) /\ s.data = SubSeq(Body(200, r.webhdfs_path), 1, BodyRead(r.received))
      /\ r.at = "load" /\ r.content # NoStream =>
           s.offset = 0 /\ (Spoiled(s) \/ s.data = Body(200, r.webhdfs_path))
      /\ r.at = "load" /\ r.content = NoStream => Whole(stream[r.image], r.image_path)
      /\ r.at = "put" => Whole(stream[r.image], r.image_path)
      /\ Waiting(c) => Whole(stream[r.page], r.image_path)

(* The rendering and what of it was sent.                                  *)
Shown(c) ==
  LET sent == conn[c].sent
      out == stream[Out(c)].data
  IN  /\ sent = <<>> => out = <<>>
      /\ Writing(c) => stream[Out(c)].offset = Len(sent) - 1 /\ Len(sent) - 1 <= Len(out)
      /\ ~conn[c].torn /\ out # <<>> =>
           \E p \in Paths : /\ Serves(conn[c].image_path, p)
                            /\ \A i \in 1..Len(out) : out[i] = <<p, i>>
      /\ \A i \in 2..Len(sent) :
             \/ sent[i] = LastChunk /\ i = Len(out) + 2
             \/ i <= Len(out) + 1 /\ sent[i] = Chunk(out[i - 1])

Cached == \A k \in Paths : map[k] # NoStream => Whole(stream[map[k]], k)

Fit(c) == Known(c) /\ Served(c) /\ Shown(c)

ImageInv ==
  /\ ConnInv /\ Cached
  /\ \A c \in Conns : Private(c) /\ Fit(c)

----------------------------------------------------------------------------
(* What the others notice of a step of c.                                  *)
StreamsKept(c) ==
  /\ \A s \in Sources \ {Source(c)} : stream'[s].data = stream[s].data
  /\ Unshared(c) \/ stream'[Source(c)].data = stream[Source(c)].data
  /\ \A s \in Sources \ {Source(c), conn[c].image, conn[c].page} :
       (\A k \in Paths : map[k] # s) => stream'[s] = stream[s]

Contents(c) == {conn[c].content, Source(c)}
Images(c) == {conn[c].image, conn[c].page, Source(c), Out(c), NoStream} \cup {map[k] : k \in Paths}

Refers(c) ==
  /\ conn'[c].image \in Images(c) /\ conn'[c].page \in Images(c)
  /\ conn'[c].content \in Contents(c)
  /\ Unshared(c)' => Unshared(c)
  /\ \A k \in Paths :
       \/ map'[k] = map[k]
       \/ /\ map'[k] = conn[c].image /\ map'[k] # NoStream /\ ~Unshared(c)'
          /\ Whole(stream'[map'[k]], k)

Keeps(c) == StreamsKept(c) /\ Refers(c) /\ Fit(c)'

LEMMA PrivateKept ==
  ASSUME ImageInv, NEW c \in Conns, Moves(c), Refers(c), NEW d \in Conns
  PROVE  Private(d)'
<1>1. \A e \in Conns \ {c} : conn'[e] = conn[e]
  BY DEF Moves
<1>2. CASE d = c
  <2>1. ASSUME Unshared(c)' PROVE Unshared(c) /\ \A k \in Paths : map'[k] = map[k]
    BY <2>1 DEF Refers
  <2> QED BY <1>1, <1>2, <2>1 DEF ImageInv, Private, Refers, Contents
<1>3. CASE d # c
  <2>1. Unshared(d)' <=> Unshared(d)
    BY <1>1, <1>3 DEF Unshared, Quiet, Fetching
  <2> SUFFICES ASSUME Unshared(d)
               PROVE  /\ \A e \in Conns \ {d} : Source(d) \notin {conn'[e].image, conn'[e].page}
                      /\ \A k \in Paths : map'[k] # Source(d)
    BY <1>1, <1>3, <2>1 DEF Private, ImageInv
  <2>2. /\ \A e \in Conns \ {d} : Source(d) \notin {conn[e].image, conn[e].page}
        /\ \A k \in Paths : map[k] # Source(d)
    BY DEF ImageInv, Private
  <2>3. Source(d) \notin Images(c)
    BY <1>3, <2>2, StreamNames DEF Images
  <2> QED BY <1>1, <1>3, <2>2, <2>3 DEF Refers
<1> QED BY <1>2, <1>3

LEMMA DataKept ==
  ASSUME ImageInv, NEW c \in Conns, StreamsKept(c), NEW s \in Sources,
         \/ \E d \in Conns \ {c} : s \in {conn[d].image, conn[d].page}
         \/ \E k \in Paths : map[k] = s
  PROVE  stream'[s].data = stream[s].data
<1>1. s = Source(c) => ~Unshared(c)
  BY DEF ImageInv, Private
<1> QED BY <1>1 DEF StreamsKept

LEMMA CachedKept ==
  ASSUME ImageInv, NEW c \in Conns, StreamsKept(c), Refers(c)
  PROVE  Cached'
<1> SUFFICES ASSUME NEW k \in Paths, map'[k] # NoStream
             PROVE  Whole(stream'[map'[k]], k)
  BY DEF Cached, Whole, Serves
<1>1. CASE map'[k] = map[k]
  <2>1. map[k] \in Sources /\ Whole(stream[map[k]], k)
    BY <1>1 DEF ImageInv, ConnInv, Cached
  <2>2. stream'[map[k]].data = stream[map[k]].data
    BY <2>1, DataKept
  <2> QED BY <1>1, <2>1, <2>2 DEF Whole
<1>2. CASE map'[k] # map[k]
  BY <1>2 DEF Refers
<1> QED BY <1>1, <1>2

LEMMA OthersFit ==
  ASSUME ImageInv, NEW c \in Conns, Moves(c), Shares(c), StreamsKept(c), Refers(c),
         NEW d \in Conns \ {c}
  PROVE  Fit(d)'
<1>1. /\ conn'[d] = conn[d] /\ (pool!InPool(d)' <=> pool!InPool(d)) /\ stream'[Out(d)] = stream[Out(d)]
      /\ Fit(d) /\ Stage(d)
  BY StreamNames DEF Moves, Shares, Grows, OutOnly, ImageInv, ConnInv
<1>2. /\ Waiting(d)' <=> Waiting(d)
      /\ Quiet(d)' <=> Quiet(d)
      /\ Writing(d)' <=> Writing(d)
  BY <1>1 DEF Waiting, Quiet, Writing
<1>3. Known(d)'
  BY <1>1, <1>2 DEF Known, Fit
<1>4. Shown(d)'
  BY <1>1, <1>2 DEF Shown, Fit
<1>5. Unshared(d) => stream'[Source(d)] = stream[Source(d)]
  <2>1. Unshared(d) => /\ Source(d) \notin {conn[c].image, conn[c].page, Source(c)}
                       /\ \A k \in Paths : map[k] # Source(d)
    BY StreamNames DEF ImageInv, Private
  <2> QED BY <2>1, StreamNames DEF StreamsKept
<1>6. ASSUME NEW s \in {conn[d].image, conn[d].page}, s \in Sources
      PROVE  stream'[s].data = stream[s].data
  BY <1>6, DataKept
<1>7. Served(d)'
  <2> DEFINE r == conn[d]
             s == stream[Source(d)]
  <2>1. /\ Quiet(d) => Blank(s)
        /\ r.op \cap Upstream # {} \/ (r.at = "load" /\ r.content # NoStream) =>
             Serves(r.image_path, r.webhdfs_path) /\ r.webhdfs_path \in Paths
        /\ r.op \cap {"resolve", "connect", "write_request"} # {} => Blank(s) \/ Spoiled(s)
        /\ "read_response" \in r.op =>
             \/ Spoiled(s)
             \/ AtEnd(s) /\ s.data = SubSeq(Body(200, r.webhdfs_path), 1, BodyRead(r.received))
        /\ r.at = "load" /\ r.content # NoStream =>
             s.offset = 0 /\ (Spoiled(s) \/ s.data = Body(200, r.webhdfs_path))
        /\ r.at = "load" /\ r.content = NoStream => Whole(stream[r.image], r.image_path)
        /\ r.at = "put" => Whole(stream[r.image], r.image_path)
        /\ Waiting(d) => Whole(stream[r.page], r.image_path)
    BY <1>1 DEF Fit, Served
  <2>2. /\ Quiet(d) => Unshared(d)
        /\ r.op \cap Upstream # {} => Unshared(d)
        /\ r.at = "load" /\ r.content # NoStream => Unshared(d)
    <3>1. r.op \cap Upstream # {} => r.content # NoStream
      BY <1>1, WhichStage, StreamNames DEF Asking
    <3> QED BY <3>1 DEF Unshared, Fetching, Upstream
  <2>3. /\ r.at = "load" => r.image \in Sources
        /\ r.at = "put" => r.image \in Sources
        /\ Waiting(d) => r.page \in Sources
    BY <1>1, WhichStage DEF Loading, Painting, Waiting
  <2>4. \A x \in {r.image, r.page} : \A p : x \in Sources /\ Whole(stream[x], p) => Whole(stream'[x], p)
    BY <1>6 DEF Whole
  <2> DEFINE t == stream'[Source(d)]
  <2>5. /\ Quiet(d)' => Blank(t)
        /\ r.op \cap {"resolve", "connect", "write_request"} # {} => Blank(t) \/ Spoiled(t)
        /\ "read_response" \in r.op =>
             \/ Spoiled(t)
             \/ AtEnd(t) /\ t.data = SubSeq(Body(200, r.webhdfs_path), 1, BodyRead(r.received))
        /\ r.at = "load" /\ r.content # NoStream =>
             t.offset = 0 /\ (Spoiled(t) \/ t.data = Body(200, r.webhdfs_path))
    BY <1>2, <1>5, <2>1, <2>2 DEF Upstream
  <2>6. /\ r.at = "load" /\ r.content = NoStream => Whole(stream'[r.image], r.image_path)
        /\ r.at = "put" => Whole(stream'[r.image], r.image_path)
        /\ Waiting(d)' => Whole(stream'[r.page], r.image_path)
    BY <1>2, <2>1, <2>3, <2>4
  <2>7. conn'[d] = r
    BY <1>1
  <2> HIDE DEF r, s, t
  <2> QED BY <2>1, <2>5, <2>6, <2>7 DEF Served, r, t
<1> QED BY <1>3, <1>4, <1>7 DEF Fit

LEMMA StepKeepsImages ==
  ASSUME ImageInv, NEW c \in Conns, Moves(c), Shares(c), Keeps(c)
  PROVE  ImageInv'
<1>1. ConnInv'
  BY StepKeepsInv DEF ImageInv
<1>2. Cached'
  BY CachedKept DEF Keeps
<1>3. \A d \in Conns : Private(d)'
  BY PrivateKept DEF Keeps
<1>4. \A d \in Conns : Fit(d)'
  BY OthersFit DEF Keeps
<1> QED BY <1>1, <1>2, <1>3, <1>4 DEF ImageInv

----------------------------------------------------------------------------
(* What a step may make of c.                                              *)

(* An answer without image, or no answer.                                  *)
LEMMA EndKeeps ==
  ASSUME ImageInv, NEW c \in Conns, Moves(c), conn[c].sent = <<>>,
         conn'[c].op \subseteq {"write_response"}, conn'[c].at \in {"idle", "close"},
         ~pool!InPool(c)', conn'[c].image = NoStream \/ conn'[c].op = {},
         conn'[c].image \in Images(c), conn'[c].page \in Images(c),
         conn'[c].content \in Contents(c),
         StreamsKept(c), stream'[Out(c)] = stream[Out(c)],
         \A k \in Paths :
           \/ map'[k] = map[k]
           \/ map'[k] = conn[c].image /\ map'[k] # NoStream /\ Whole(stream'[map'[k]], k)
  PROVE  Keeps(c)
<1>1. /\ ~Quiet(c)' /\ ~Unshared(c)' /\ ~Waiting(c)' /\ ~Writing(c)'
  BY DEF Moves, Quiet, Unshared, Fetching, Waiting, Writing
<1>2. Refers(c)
  BY <1>1 DEF Refers
<1>3. Known(c)' /\ Served(c)'
  <2>1. conn'[c].at \notin {"load", "put"} /\ conn'[c].op \cap Upstream = {}
        /\ conn'[c].op \cap {"resolve", "connect", "write_request"} = {}
        /\ "read_response" \notin conn'[c].op
    BY DEF Upstream
  <2> QED BY <1>1, <2>1 DEF Known, Served
<1>4. Shown(c)'
  <2>1. stream[Out(c)].data = <<>>
    BY DEF ImageInv, Fit, Shown
  <2>2. stream'[Out(c)].data = <<>>
    BY <2>1
  <2>3. conn'[c].sent = <<>> \/ \E code \in ReplyCodes : conn'[c].sent = Append(<<>>, StatusLine(code))
    BY DEF Moves, Says
  <2>4. \A i \in 2..Len(conn'[c].sent) : FALSE
    <3>1. ASSUME NEW code, conn'[c].sent = Append(<<>>, StatusLine(code))
          PROVE  Len(conn'[c].sent) = 1
      BY <3>1
    <3>2. conn'[c].sent = <<>> => Len(conn'[c].sent) = 0
      OBVIOUS
    <3>3. Len(conn'[c].sent) = 1 \/ Len(conn'[c].sent) = 0
      BY <2>3, <3>1, <3>2
    <3>4. ASSUME NEW n, n = 1 \/ n = 0 PROVE \A i \in 2..n : FALSE
      BY <3>4
    <3> QED BY <3>3, <3>4
  <2> QED BY <1>1, <2>2, <2>4 DEF Shown
<1> QED BY <1>2, <1>3, <1>4 DEF Keeps, Fit

(* Before SendPage nothing was rendered and nothing sent.                  *)
LEMMA NothingShown ==
  ASSUME ImageInv, NEW c \in Conns, conn[c].sent = <<>>, conn'[c].sent = <<>>,
         "write_response" \notin conn'[c].op, stream'[Out(c)].data = stream[Out(c)].data
  PROVE  Shown(c)'
<1>1. stream'[Out(c)].data = <<>>
  BY DEF ImageInv, Fit, Shown
<1>2. ~Writing(c)'
  BY DEF Writing
<1>3. \A i \in 2..Len(conn'[c].sent) : FALSE
  OBVIOUS
<1> QED BY <1>1, <1>2, <1>3 DEF Shown

(* An operation that asks webhdfs for the image.                           *)
LEMMA AskKeeps ==
  ASSUME ImageInv, NEW c \in Conns, Moves(c), conn[c].sent = <<>>, Unshared(c),
         ~pool!InPool(c)', NEW name \in Upstream, conn'[c].op = {name}, conn'[c].at = "idle",
         conn'[c].sent = <<>>, conn'[c].image = Source(c), conn'[c].page \in Images(c),
         conn'[c].content \in Contents(c),
         Serves(conn'[c].image_path, conn'[c].webhdfs_path), conn'[c].webhdfs_path \in Paths,
         UNCHANGED map, StreamsKept(c), stream'[Out(c)] = stream[Out(c)],
         LET s == stream'[Source(c)]
         IN  IF name = "read_response"
             THEN \/ Spoiled(s)
                  \/ /\ AtEnd(s)
                     /\ s.data = SubSeq(Body(200, conn'[c].webhdfs_path), 1,
                                        BodyRead(conn'[c].received))
             ELSE Blank(s) \/ Spoiled(s)
  PROVE  Keeps(c)
<1>1. /\ ~Quiet(c)' /\ ~Waiting(c)'
  BY DEF Moves, Quiet, Waiting, Upstream
<1>2. Refers(c)
  BY DEF Refers, Images
<1>3. Known(c)'
  BY <1>1 DEF Known
<1>4. Served(c)'
  BY <1>1 DEF Served, Serves, Blank, Spoiled, AtEnd, Body, BodyRead
<1>5. Shown(c)'
  BY NothingShown DEF Upstream
<1> QED BY <1>2, <1>3, <1>4, <1>5 DEF Keeps, Fit

(* The request is not read yet.                                            *)
LEMMA QuietKeeps ==
  ASSUME ImageInv, NEW c \in Conns, Moves(c), Quiet(c), conn[c].sent = <<>>, ~pool!InPool(c)',
         conn'[c].op = {"read_request"}, conn'[c].at = "idle", conn'[c].sent = <<>>,
         conn'[c].image = conn[c].image, conn'[c].page = conn[c].page,
         conn'[c].content = conn[c].content,
         UNCHANGED <<map, stream>>
  PROVE  Keeps(c)
<1>1. Unshared(c) /\ StreamsKept(c)
  BY DEF Unshared, StreamsKept
<1>2. Refers(c)
  BY <1>1 DEF Refers, Images, Contents
<1>3. ~Waiting(c)'
  BY DEF Waiting
<1>4. Blank(stream'[Source(c)])
  BY DEF ImageInv, Fit, Served
<1>5. Known(c)' /\ Served(c)'
  BY <1>3, <1>4 DEF Known, Served, Upstream, Blank
<1>6. Shown(c)'
  BY NothingShown
<1> QED BY <1>1, <1>2, <1>5, <1>6 DEF Keeps, Fit

(* Nobody writes to a stream: the steps that leave them alone.             *)
LEMMA StreamsSame == ASSUME NEW c \in Conns, UNCHANGED stream PROVE StreamsKept(c)
  BY DEF StreamsKept

----------------------------------------------------------------------------
(* The operations of a connection, one by one.                             *)

LEMMA GiveUpKeeps ==
  ASSUME ImageInv, NEW c \in Conns, Moves(c), NEW name \in Operations, conn[c].op = {name},
         conn[c].sent = <<>>, conn[c].at \in {"idle", "close"}, ~pool!InPool(c),
         GiveUp(c, Fired(c, name))
  PROVE  Keeps(c)
<1>1. conn[c] \in Connections
  BY DEF ImageInv, ConnInv, TypeOK
<1>2. PICK f : f = Fired(c, name)
  OBVIOUS
<1>3. /\ f \in Connections /\ Kept(f, conn[c]) /\ f.op = {} /\ f.image = conn[c].image
  BY <1>1, <1>2, FiredKept
<1>4. PICK q : q = [f EXCEPT !.lost = TRUE]
  OBVIOUS
<1>5. q \in Connections /\ q.op = {} /\ q.at = f.at /\ q.image = f.image /\ q.page = f.page
      /\ q.content = f.content
  BY <1>3, <1>4 DEF Connections
<1>6. conn'[c] = q /\ UNCHANGED <<stream, map>> /\ ~pool!InPool(c)'
  <2>1. Become(c, q) /\ UNCHANGED <<stream, cacheVars, poolVars>>
    BY <1>2, <1>4 DEF GiveUp
  <2> QED BY <1>5, <2>1, Becomes DEF ImageInv, ConnInv, TypeOK, cacheVars, poolVars, pool!InPool
<1>7. StreamsKept(c) /\ q.at \in {"idle", "close"} /\ q.image \in Images(c) /\ q.page \in Images(c)
      /\ q.content \in Contents(c)
  BY <1>3, <1>5, <1>6, StreamsSame DEF Kept, Images, Contents
<1> QED BY <1>5, <1>6, <1>7, EndKeeps

LEMMA RefusalKeeps ==
  ASSUME ImageInv, NEW c \in Conns, Moves(c), conn[c].sent = <<>>, ~pool!InPool(c)',
         NEW r \in Connections, r.op = {}, r.page \in Images(c), r.content \in Contents(c),
         NEW at \in {"idle", "close"}, NEW code \in ReplyCodes \ {200},
         \/ r.at = at /\ Become(c, Refuse(r, code))
         \/ Become(c, [Refuse(r, code) EXCEPT !.at = at]),
         UNCHANGED map, StreamsKept(c), stream'[Out(c)] = stream[Out(c)]
  PROVE  Keeps(c)
<1>1. code \in Nat
  BY ConnectionAssumption DEF ReplyCodes
<1>2. PICK f \in Connections :
        /\ f = SendResponse(r, code, 0) /\ Kept(f, r)
        /\ f.op = r.op \cup {"write_response"} /\ f.image \in {NoStream, r.image}
        /\ f.image # NoStream => code = 200 /\ ~r.json
  BY <1>1, ResponseFields
<1>3. f.op = {"write_response"} /\ f.image = NoStream /\ f.page = r.page /\ f.at = r.at
      /\ f.content = r.content
  BY <1>2 DEF Kept
<1>4. PICK q : \/ q = f /\ r.at = at
               \/ q = [f EXCEPT !.at = at]
  OBVIOUS
<1>5. PICK h : h = [f EXCEPT !.at = at]
  OBVIOUS
<1>6. h \in Connections /\ h.op = f.op /\ h.image = f.image /\ h.page = f.page /\ h.at = at
      /\ h.content = f.content
  BY <1>5 DEF Connections, Positions
<1>7. Become(c, h) \/ (Become(c, f) /\ r.at = at)
  BY <1>2, <1>5 DEF Refuse
<1>8. /\ conn'[c].op = {"write_response"} /\ conn'[c].image = NoStream
      /\ conn'[c].page = r.page /\ conn'[c].at = at
      /\ conn'[c].content = r.content
  BY <1>3, <1>6, <1>7, Becomes DEF ImageInv, ConnInv, TypeOK
<1>9. conn'[c].image \in Images(c) /\ conn'[c].page \in Images(c)
  BY <1>8 DEF Images
<1> QED BY <1>8, <1>9, EndKeeps

LEMMA StartKeeps ==
  ASSUME ImageInv, NEW c \in Conns, Start(c)
  PROVE  Keeps(c)
<1>1. New(c) /\ conn[c] \in Connections /\ Moves(c)
  BY WhichStage, StartMoves DEF ImageInv, ConnInv, TypeOK, Start
<1>2. PICK g : g = [conn[c] EXCEPT !.started = TRUE]
  OBVIOUS
<1>3. /\ g \in Connections /\ g.op = {} /\ g.at = "idle" /\ g.sent = <<>>
      /\ g.image = conn[c].image /\ g.page = conn[c].page
      /\ g.content = conn[c].content
  BY <1>1, <1>2 DEF New, Connections
<1>4. PICK q : q = Begin(g, "read_request")
  OBVIOUS
<1>5. /\ q \in Connections /\ Kept(q, g) /\ q.op = g.op \cup {"read_request"}
      /\ q.image = g.image /\ q.sent = g.sent
  BY <1>3, <1>4, BeginFields DEF Operations
<1>6. conn'[c] = q
  BY <1>2, <1>4, <1>5, Becomes DEF Start, ImageInv, ConnInv, TypeOK
<1>7. UNCHANGED <<map, stream>> /\ ~pool!InPool(c)' /\ conn[c].sent = <<>> /\ Quiet(c)
  BY <1>1 DEF Start, cacheVars, poolVars, pool!InPool, New, Quiet
<1> QED BY <1>1, <1>3, <1>5, <1>6, <1>7, QuietKeeps DEF Kept

LEMMA ReadRequestKeeps ==
  ASSUME ImageInv, NEW c \in Conns,
         ReadRequestFails(c) \/ ReadRequestInvalid(c) \/ ReadRequestMore(c)
  PROVE  Keeps(c)
<1>1. /\ Reading(c) /\ conn[c] \in Connections /\ "read_request" \in Operations
      /\ "read_request" \in conn[c].op /\ Moves(c)
  BY WhichStage, ReadRequestMoves
     DEF ImageInv, ConnInv, TypeOK, ReadRequestFails, ReadRequestInvalid, ReadRequestMore, Operations
<1>2. PICK r : r = Fired(c, "read_request")
  OBVIOUS
<1>3. /\ r \in Connections /\ Kept(r, conn[c]) /\ r.op = conn[c].op \ {"read_request"}
      /\ r.image = conn[c].image /\ r.sent = conn[c].sent
  BY <1>1, <1>2, FiredKept
<1>4. /\ r.op = {} /\ r.at = "idle" /\ r.sent = <<>> /\ r.page = conn[c].page /\ conn[c].sent = <<>>
      /\ conn[c].op = {"read_request"} /\ conn[c].at = "idle" /\ ~pool!InPool(c) /\ Quiet(c)
      /\ r.content = conn[c].content /\ r.content \in Contents(c)
  BY <1>1, <1>3 DEF Reading, Kept, Quiet, Contents
<1>5. UNCHANGED <<map, stream>> /\ ~pool!InPool(c)'
  BY <1>4 DEF ReadRequestFails, ReadRequestInvalid, ReadRequestMore, GiveUp, cacheVars, poolVars,
              pool!InPool
<1>6. CASE ReadRequestFails(c)
  <2>1. GiveUp(c, Fired(c, "read_request"))
    BY <1>6 DEF ReadRequestFails
  <2> QED BY <1>1, <1>4, <2>1, GiveUpKeeps
<1>7. CASE ReadRequestInvalid(c)
  <2>1. Become(c, Refuse(r, 400)) /\ 400 \in ReplyCodes \ {200} /\ r.page \in Images(c)
        /\ "idle" \in {"idle", "close"}
    BY <1>2, <1>4, <1>7 DEF ReadRequestInvalid, ReplyCodes, Images
  <2>2. StreamsKept(c) /\ stream'[Out(c)] = stream[Out(c)] /\ UNCHANGED map
    BY <1>5, StreamsSame
  <2>3. \/ r.at = "idle" /\ Become(c, Refuse(r, 400))
        \/ Become(c, [Refuse(r, 400) EXCEPT !.at = "idle"])
    BY <1>4, <2>1
  <2> QED BY <1>1, <1>3, <1>4, <1>5, <2>1, <2>2, <2>3, RefusalKeeps
<1>8. CASE ReadRequestMore(c)
  <2>1. PICK n \in 1..(HeaderFrags - conn[c].received - 1) :
          Become(c, Begin([r EXCEPT !.received = @ + n], "read_request"))
    BY <1>2, <1>8 DEF ReadRequestMore
  <2>2. PICK f : f = [r EXCEPT !.received = @ + n]
    OBVIOUS
  <2>3. /\ f \in Connections /\ f.op = {} /\ f.at = "idle" /\ f.sent = <<>>
        /\ f.image = conn[c].image /\ f.page = conn[c].page
        /\ f.content = conn[c].content
    <3>1. r.received + n \in Nat
      BY <1>3, ConnectionAssumption, <1>1 DEF Connections
    <3> QED BY <1>3, <1>4, <2>2, <3>1 DEF Connections
  <2>4. PICK q : q = Begin(f, "read_request")
    OBVIOUS
  <2>5. /\ q \in Connections /\ Kept(q, f) /\ q.op = f.op \cup {"read_request"}
        /\ q.image = f.image /\ q.sent = f.sent
    BY <1>1, <2>3, <2>4, BeginFields
  <2>6. conn'[c] = q
    BY <2>1, <2>2, <2>4, <2>5, Becomes DEF ImageInv, ConnInv, TypeOK
  <2> QED BY <1>1, <1>4, <1>5, <2>3, <2>5, <2>6, QuietKeeps DEF Kept
<1> QED BY <1>6, <1>7, <1>8

(* SendRequest, of a new request or after a redirect.                      *)
LEMMA SendRequestKeeps ==
  ASSUME ImageInv, NEW c \in Conns, Moves(c), conn[c].sent = <<>>, ~pool!InPool(c)',
         UNCHANGED map, Unshared(c),
         NEW r \in Connections, r.op = {}, r.at = "idle", r.sent = <<>>, r.page \in Images(c),
         r.content \in Contents(c),
         r.image \in {NoStream, Source(c)}, r.image = NoStream => r.content = NoStream,
         NEW p \in Paths, r.image # NoStream /\ p # Favicon => Serves(r.image_path, p),
         NEW str, StreamsTyped(str), \A s \in Streams \ {Source(c)} : str[s] = stream[s],
         Blank(str[Source(c)]) \/ Spoiled(str[Source(c)]), SendRequest(c, r, p, str)
  PROVE  Keeps(c)
<1>1. ASSUME NEW s \in Sources, s = Source(c) \/ \E k \in Paths : map[k] = s,
             stream' = [str EXCEPT ![s] = Rewind(@)]
      PROVE  /\ StreamsKept(c) /\ stream'[Out(c)] = stream[Out(c)]
             /\ Blank(stream'[Source(c)]) \/ Spoiled(stream'[Source(c)])
  <2>1. str[s] \in StreamsOver(Bytes) /\ s \in Streams
    BY StreamNames DEF StreamsTyped
  <2>2. Rewind(str[s]).data = str[s].data /\ Rewind(str[s]).offset = 0
    BY <2>1, RewindType
  <2>3. /\ \A t \in Streams : stream'[t].data = str[t].data
        /\ \A t \in Streams \ {s} : stream'[t] = str[t]
        /\ stream'[s].offset = 0
    BY <1>1, <2>1, <2>2 DEF StreamsTyped
  <2>4. StreamsKept(c)
    BY <1>1, <2>3, StreamNames DEF StreamsKept
  <2>5. Blank(stream'[Source(c)]) \/ Spoiled(stream'[Source(c)])
    <3>1. Source(c) \in Streams
      BY StreamNames
    <3> QED BY <2>3, <3>1 DEF Blank, Spoiled
  <2> QED BY <2>3, <2>4, <2>5, StreamNames
<1>2. CASE p = Favicon /\ Become(c, Refuse(r, 404)) /\ stream' = str
  <2>1. StreamsKept(c) /\ stream'[Out(c)] = stream[Out(c)]
    BY <1>2, StreamNames DEF StreamsKept
  <2>2. \/ r.at = "idle" /\ Become(c, Refuse(r, 404))
        \/ Become(c, [Refuse(r, 404) EXCEPT !.at = "idle"])
    BY <1>2
  <2>3. 404 \in ReplyCodes \ {200} /\ "idle" \in {"idle", "close"}
    BY DEF ReplyCodes
  <2> QED BY <2>1, <2>2, <2>3, RefusalKeeps
<1>3. ASSUME r.image = NoStream, NEW hit \in cache!Get(p),
             LET image == IF hit = NoStream THEN Source(c) ELSE hit
                 q == [r EXCEPT !.webhdfs_path = p, !.image_path = p, !.image = image]
             IN  /\ Become(c, IF hit = NoStream
                              THEN Begin([q EXCEPT !.content = image], "resolve")
                              ELSE [q EXCEPT !.at = "load"])
                 /\ stream' = [str EXCEPT ![image] = Rewind(@)]
      PROVE  Keeps(c)
  <2>1. hit \in {map[p], NoStream} /\ map[p] \in Sources \cup {NoStream}
    BY DEF cache!Get, ImageInv, ConnInv
  <2>2. CASE hit = NoStream
    <3>1. PICK f : f = [r EXCEPT !.webhdfs_path = p, !.image_path = p, !.image = Source(c),
                                 !.content = Source(c)]
      OBVIOUS
    <3>2. /\ f \in Connections /\ f.op = {} /\ f.at = "idle" /\ f.sent = <<>>
          /\ f.image = Source(c) /\ f.page = r.page
          /\ f.image_path = p /\ f.webhdfs_path = p /\ f.content = Source(c)
      BY <3>1, StreamNames DEF Connections
    <3>3. PICK q : q = Begin(f, "resolve")
      OBVIOUS
    <3>4. /\ q \in Connections /\ Kept(q, f) /\ q.op = f.op \cup {"resolve"}
          /\ q.image = f.image /\ q.sent = f.sent
      BY <3>2, <3>3, BeginFields DEF Operations
    <3>5. conn'[c] = q
      BY <1>3, <2>2, <3>1, <3>3, <3>4, Becomes DEF ImageInv, ConnInv, TypeOK
    <3>6. stream' = [str EXCEPT ![Source(c)] = Rewind(@)] /\ Source(c) \in Sources
      BY <1>3, <2>2, StreamNames
    <3>7. /\ StreamsKept(c) /\ stream'[Out(c)] = stream[Out(c)]
          /\ Blank(stream'[Source(c)]) \/ Spoiled(stream'[Source(c)])
      BY <1>1, <3>6
    <3>8. /\ q.op = {"resolve"} /\ "resolve" \in Upstream /\ q.at = "idle" /\ q.sent = <<>>
          /\ q.image = Source(c) /\ q.page \in Images(c)
          /\ Serves(q.image_path, q.webhdfs_path) /\ q.webhdfs_path \in Paths
          /\ q.content \in Contents(c)
      BY <3>2, <3>4 DEF Kept, Upstream, Serves, Contents
    <3> QED BY <3>5, <3>7, <3>8, AskKeeps
  <2>3. CASE hit # NoStream
    <3>1. PICK q : q = [r EXCEPT !.webhdfs_path = p, !.image_path = p, !.image = hit,
                                 !.at = "load"]
      OBVIOUS
    <3>2. /\ q \in Connections /\ q.op = {} /\ q.at = "load" /\ q.sent = <<>>
          /\ q.content = NoStream /\ q.image = hit /\ q.image_path = p /\ q.page = r.page
          /\ q.content = r.content
      BY <1>3, <2>1, <2>3, <3>1, StreamNames DEF Connections, Positions
    <3>3. conn'[c] = q
      BY <1>3, <2>3, <3>1, <3>2, Becomes DEF ImageInv, ConnInv, TypeOK
    <3>4. stream' = [str EXCEPT ![hit] = Rewind(@)] /\ hit = map[p] /\ hit \in Sources
      BY <1>3, <2>1, <2>3
    <3>5. StreamsKept(c) /\ stream'[Out(c)] = stream[Out(c)]
      BY <1>1, <3>4
    <3>6. Refers(c)
      BY <3>2, <3>3, <3>4 DEF Refers, Images
    <3>7. ~Quiet(c)' /\ ~Waiting(c)'
      BY <3>2, <3>3 DEF Moves, Quiet, Waiting
    <3>8. hit # Source(c) /\ Whole(stream'[hit], p)
      <4>1. hit # Source(c)
        BY <3>4 DEF ImageInv, Private
      <4>2. stream'[hit].data = stream[hit].data
        BY <3>4, <3>5, <4>1 DEF StreamsKept
      <4>3. Whole(stream[hit], p)
        BY <2>3, <3>4 DEF ImageInv, Cached
      <4> QED BY <4>1, <4>2, <4>3 DEF Whole
    <3>9. Known(c)'
      BY <3>2, <3>3, <3>7, <3>8 DEF Known
    <3>10. Served(c)'
      BY <3>2, <3>3, <3>7, <3>8 DEF Served, Whole, Serves, Body
    <3>11. Shown(c)'
      BY <3>2, <3>3, <3>5, NothingShown
    <3> QED BY <3>5, <3>6, <3>9, <3>10, <3>11 DEF Keeps, Fit
  <2> QED BY <2>2, <2>3
<1>4. ASSUME r.image # NoStream, p # Favicon,
             Become(c, Begin([r EXCEPT !.webhdfs_path = p, !.content = r.image], "resolve")),
             stream' = [str EXCEPT ![r.image] = Rewind(@)]
      PROVE  Keeps(c)
  <2>1. PICK f : f = [r EXCEPT !.webhdfs_path = p, !.content = r.image]
    OBVIOUS
  <2>2. /\ f \in Connections /\ f.op = {} /\ f.at = "idle" /\ f.sent = <<>>
        /\ f.image = Source(c) /\ f.webhdfs_path = p /\ f.image_path = r.image_path
        /\ f.page = r.page /\ f.content = Source(c)
    BY <1>4, <2>1, StreamNames DEF Connections
  <2>3. PICK q : q = Begin(f, "resolve")
    OBVIOUS
  <2>4. /\ q \in Connections /\ Kept(q, f) /\ q.op = f.op \cup {"resolve"}
        /\ q.image = f.image /\ q.sent = f.sent
    BY <2>2, <2>3, BeginFields DEF Operations
  <2>5. conn'[c] = q
    BY <1>4, <2>1, <2>3, <2>4, Becomes DEF ImageInv, ConnInv, TypeOK
  <2>6. stream' = [str EXCEPT ![Source(c)] = Rewind(@)] /\ Source(c) \in Sources
    BY <1>4, StreamNames
  <2>7. /\ StreamsKept(c) /\ stream'[Out(c)] = stream[Out(c)]
        /\ Blank(stream'[Source(c)]) \/ Spoiled(stream'[Source(c)])
    BY <1>1, <2>6
  <2>8. /\ q.op = {"resolve"} /\ "resolve" \in Upstream /\ q.at = "idle" /\ q.sent = <<>>
        /\ q.image = Source(c) /\ q.page \in Images(c)
        /\ Serves(q.image_path, q.webhdfs_path) /\ q.webhdfs_path \in Paths
        /\ q.content \in Contents(c)
    BY <1>4, <2>2, <2>4 DEF Kept, Upstream, Contents
  <2> QED BY <2>5, <2>7, <2>8, AskKeeps
<1> QED BY <1>2, <1>3, <1>4 DEF SendRequest

LEMMA ReadRequestCompleteKeeps ==
  ASSUME ImageInv, NEW c \in Conns, ReadRequestComplete(c)
  PROVE  Keeps(c)
<1>1. /\ Reading(c) /\ conn[c] \in Connections /\ Moves(c)
      /\ "read_request" \in conn[c].op
  BY WhichStage, ReadRequestCompleteMoves DEF ImageInv, ConnInv, TypeOK, ReadRequestComplete
<1>2. PICK q \in Requests :
        LET r == [Fired(c, "read_request") EXCEPT !.received = HeaderFrags, !.json = q.json]
        IN  \/ GiveUp(c, [r EXCEPT !.json = FALSE])
            \/ /\ ~q.get \/ q.path = NoPath
               /\ Become(c, Refuse(r, 400)) /\ UNCHANGED stream
            \/ /\ q.path # NoPath
               /\ SendRequest(c, [r EXCEPT !.webhdfs_path = q.path], q.path, stream)
  BY DEF ReadRequestComplete
<1>3. q.json \in BOOLEAN /\ q.path \in Paths \cup {NoPath}
  BY ConnectionAssumption DEF RequestSpace
<1>4. PICK f : f = Fired(c, "read_request")
  OBVIOUS
<1>5. /\ f \in Connections /\ Kept(f, conn[c]) /\ f.op = conn[c].op \ {"read_request"}
      /\ f.image = conn[c].image /\ f.sent = conn[c].sent
  BY <1>1, <1>4, FiredKept
<1>6. /\ f.op = {} /\ f.at = "idle" /\ f.sent = <<>> /\ f.content = NoStream
      /\ f.image = NoStream /\ conn[c].sent = <<>> /\ f.page \in Images(c)
      /\ f.content \in Contents(c)
  BY <1>1, <1>5 DEF Reading, Kept, Images, Contents
<1>7. UNCHANGED map /\ ~pool!InPool(c)' /\ Unshared(c)
  BY <1>1 DEF ReadRequestComplete, Reading, cacheVars, poolVars, pool!InPool, Unshared, Quiet
<1>r. PICK g : g = [f EXCEPT !.received = HeaderFrags, !.json = q.json]
  OBVIOUS
<1>g. /\ g \in Connections /\ g.op = {} /\ g.at = "idle" /\ g.sent = <<>>
      /\ g.content = NoStream /\ g.image = NoStream /\ g.page = f.page /\ g.content = f.content
  BY <1>3, <1>5, <1>6, <1>r, ConnectionAssumption DEF Connections
<1>8. ASSUME NEW r, r = g, Become(c, Refuse(r, 400)), UNCHANGED stream
      PROVE  Keeps(c)
  <2>2. /\ r \in Connections /\ r.op = {} /\ r.at = "idle" /\ r.page \in Images(c)
        /\ r.content \in Contents(c)
    BY <1>g, <1>6, <1>8
  <2>3. 400 \in ReplyCodes \ {200} /\ "idle" \in {"idle", "close"}
    BY DEF ReplyCodes
  <2>4. StreamsKept(c) /\ stream'[Out(c)] = stream[Out(c)]
    BY <1>8, StreamsSame
  <2>5. \/ r.at = "idle" /\ Become(c, Refuse(r, 400))
        \/ Become(c, [Refuse(r, 400) EXCEPT !.at = "idle"])
    BY <1>8, <2>2
  <2> QED BY <1>1, <1>6, <1>7, <2>2, <2>3, <2>4, <2>5, RefusalKeeps
<1>9. ASSUME q.path # NoPath,
             SendRequest(c, [g EXCEPT !.webhdfs_path = q.path], q.path, stream)
      PROVE  Keeps(c)
  <2>1. PICK r : r = [g EXCEPT !.webhdfs_path = q.path]
    OBVIOUS
  <2>2. /\ r \in Connections /\ r.op = {} /\ r.at = "idle" /\ r.sent = <<>>
        /\ r.content = NoStream /\ r.image = NoStream /\ r.page \in Images(c)
        /\ r.content \in Contents(c)
    BY <1>3, <1>6, <1>9, <1>g, <2>1 DEF Connections, Contents
  <2>3. SendRequest(c, r, q.path, stream) /\ q.path \in Paths
    BY <1>3, <1>9, <2>1
  <2>4. Blank(stream[Source(c)]) /\ StreamsTyped(stream)
    BY <1>1 DEF ImageInv, ConnInv, TypeOK, StreamsTyped, Fit, Served, Quiet, Reading
  <2> QED BY <1>1, <1>6, <1>7, <2>2, <2>3, <2>4, SendRequestKeeps
<1>10. CASE GiveUp(c, [g EXCEPT !.json = FALSE])
  <2>1. PICK r : r = [[g EXCEPT !.json = FALSE] EXCEPT !.lost = TRUE]
    OBVIOUS
  <2>2. /\ r \in Connections /\ r.op = {} /\ r.at = "idle" /\ r.page = f.page
        /\ r.content = f.content /\ r.image = conn[c].image
    <3>1. PICK h : h = [g EXCEPT !.json = FALSE]
      OBVIOUS
    <3>2. /\ h \in Connections /\ h.op = {} /\ h.at = "idle" /\ h.page = f.page
          /\ h.content = f.content /\ h.image = conn[c].image
      BY <1>g, <1>6, <3>1, <1>1 DEF Connections, Reading
    <3> QED BY <2>1, <3>1, <3>2 DEF Connections
  <2>3. conn'[c] = r /\ UNCHANGED stream
    BY <1>1, <1>10, <2>1, <2>2, Becomes DEF GiveUp, ImageInv, ConnInv, TypeOK
  <2>4. StreamsKept(c) /\ r.image \in Images(c)
    BY <2>2, <2>3, StreamsSame DEF Images
  <2> QED BY <1>1, <1>6, <1>7, <2>2, <2>3, <2>4, EndKeeps
<1> QED BY <1>2, <1>4, <1>r, <1>8, <1>9, <1>10

(* What is known of an asking connection once its operation has completed. *)
LEMMA AskingKnown ==
  ASSUME ImageInv, NEW c \in Conns, NEW name \in Upstream, name \in conn[c].op,
         NEW f, f = Fired(c, name)
  PROVE  /\ f \in Connections /\ f.op = {} /\ f.at = "idle" /\ f.sent = <<>>
         /\ f.content = Source(c) /\ f.content \in Contents(c) /\ f.image = Source(c) /\ f.page \in Images(c)
         /\ f.webhdfs_path \in Paths /\ Serves(f.image_path, f.webhdfs_path)
         /\ f.received = conn[c].received /\ f.webhdfs_path = conn[c].webhdfs_path
         /\ f.image_path = conn[c].image_path /\ f.page = conn[c].page
         /\ conn[c].sent = <<>> /\ conn[c].op = {name} /\ conn[c].at = "idle" /\ ~pool!InPool(c)
         /\ Unshared(c) /\ Served(c) /\ conn[c] \in Connections
<1>1. Asking(c) /\ conn[c] \in Connections /\ Served(c)
  BY WhichStage DEF ImageInv, ConnInv, TypeOK, Fit
<1>2. conn[c].op = {name}
  BY <1>1 DEF Asking
<1>3. /\ f \in Connections /\ Kept(f, conn[c]) /\ f.op = {}
      /\ f.image = conn[c].image /\ f.sent = conn[c].sent
  BY <1>1, <1>2, FiredKept
<1>4. /\ f.at = "idle" /\ f.sent = <<>> /\ f.content = Source(c) /\ f.image = Source(c)
      /\ f.webhdfs_path \in Paths /\ conn[c].sent = <<>> /\ conn[c].at = "idle" /\ ~pool!InPool(c)
      /\ conn[c].content = Source(c)
  BY <1>1, <1>3 DEF Asking, Kept
<1>5. Unshared(c)
  BY <1>2, <1>4, StreamNames DEF Unshared, Fetching, Upstream
<1>6. Serves(f.image_path, f.webhdfs_path)
  BY <1>1, <1>2, <1>3 DEF Served, Kept
<1>7. f.page \in Images(c) /\ f.content \in Contents(c)
  BY <1>3 DEF Kept, Images, Contents
<1> QED BY <1>1, <1>2, <1>3, <1>4, <1>5, <1>6, <1>7 DEF Kept

(* The next operation of an asking connection.                             *)
LEMMA AskOnKeeps ==
  ASSUME ImageInv, NEW c \in Conns, Moves(c), conn[c].sent = <<>>, Unshared(c), ~pool!InPool(c)',
         NEW g \in Connections, g.op = {}, g.at = "idle", g.sent = <<>>, g.image = Source(c),
         g.page \in Images(c), g.content = Source(c), g.webhdfs_path \in Paths, Serves(g.image_path, g.webhdfs_path),
         NEW name \in Upstream, Become(c, Begin(g, name)),
         UNCHANGED map, StreamsKept(c), stream'[Out(c)] = stream[Out(c)],
         LET s == stream'[Source(c)]
         IN  IF name = "read_response"
             THEN \/ Spoiled(s)
                  \/ /\ AtEnd(s)
                     /\ s.data = SubSeq(Body(200, g.webhdfs_path), 1, BodyRead(g.received))
             ELSE Blank(s) \/ Spoiled(s)
  PROVE  Keeps(c)
<1>1. PICK q : q = Begin(g, name)
  OBVIOUS
<1>2. /\ q \in Connections /\ Kept(q, g) /\ q.op = g.op \cup {name}
      /\ q.image = g.image /\ q.sent = g.sent
  BY <1>1, BeginFields DEF Operations, Upstream
<1>3. conn'[c] = q
  BY <1>1, <1>2, Becomes DEF ImageInv, ConnInv, TypeOK
<1>4. /\ q.op = {name} /\ q.at = "idle" /\ q.sent = <<>> /\ q.image = Source(c)
      /\ q.page \in Images(c) /\ Serves(q.image_path, q.webhdfs_path) /\ q.webhdfs_path \in Paths
      /\ q.webhdfs_path = g.webhdfs_path /\ q.received = g.received
      /\ q.content \in Contents(c)
  BY <1>2 DEF Kept, Contents
<1> QED BY <1>3, <1>4, AskKeeps

LEMMA AskingKeeps ==
  ASSUME ImageInv, NEW c \in Conns,
         HandleResolve(c) \/ HandleConnect(c) \/ HandleWriteRequest(c)
  PROVE  Keeps(c)
<1>1. PICK name \in {"resolve", "connect", "write_request"} :
        /\ name \in conn[c].op
        /\ name = "resolve" => HandleResolve(c)
        /\ name = "connect" => HandleConnect(c)
        /\ name = "write_request" => HandleWriteRequest(c)
  BY DEF HandleResolve, HandleConnect, HandleWriteRequest
<1>2. name \in Upstream /\ name \in Operations /\ Moves(c)
  BY <1>1, HandleResolveMoves, HandleConnectMoves, HandleWriteRequestMoves
     DEF Upstream, Operations, ImageInv
<1>3. PICK f : f = Fired(c, name)
  OBVIOUS
<1>4. /\ f \in Connections /\ f.op = {} /\ f.at = "idle" /\ f.sent = <<>>
      /\ f.image = Source(c) /\ f.page \in Images(c) /\ f.content = Source(c)
      /\ f.webhdfs_path \in Paths /\ Serves(f.image_path, f.webhdfs_path)
      /\ conn[c].sent = <<>> /\ conn[c].op = {name} /\ conn[c].at = "idle" /\ ~pool!InPool(c)
      /\ Unshared(c) /\ Served(c) /\ conn[c] \in Connections
  BY <1>1, <1>2, <1>3, AskingKnown
<1>5. Blank(stream[Source(c)]) \/ Spoiled(stream[Source(c)])
  BY <1>1, <1>4 DEF Served
<1>6. UNCHANGED <<stream, map>> /\ ~pool!InPool(c)'
  BY <1>1, <1>4 DEF HandleResolve, HandleConnect, HandleWriteRequest, GiveUp, cacheVars, poolVars,
                    pool!InPool
<1>7. StreamsKept(c) /\ stream'[Out(c)] = stream[Out(c)] /\ stream'[Source(c)] = stream[Source(c)]
  BY <1>6, StreamsSame
<1>8. CASE GiveUp(c, Fired(c, name))
  BY <1>2, <1>4, <1>8, GiveUpKeeps
<1>9. CASE name = "resolve"
  <2>1. ASSUME NEW n \in 1..MaxEndpoints,
               Become(c, Begin([f EXCEPT !.endpoints = n - 1, !.open = TRUE], "connect"))
        PROVE  Keeps(c)
    <3>1. PICK g : g = [f EXCEPT !.endpoints = n - 1, !.open = TRUE]
      OBVIOUS
    <3>2. /\ g \in Connections /\ g.op = {} /\ g.at = "idle" /\ g.sent = <<>> /\ g.image = f.image
          /\ g.page = f.page /\ g.content = f.content /\ g.webhdfs_path = f.webhdfs_path /\ g.image_path = f.image_path
          /\ g.received = f.received
      <4>1. n - 1 \in Nat
        BY ConnectionAssumption
      <4> QED BY <1>4, <3>1, <4>1 DEF Connections
    <3>3. Become(c, Begin(g, "connect")) /\ "connect" \in Upstream /\ "connect" # "read_response"
      BY <2>1, <3>1 DEF Upstream
    <3> QED BY <1>2, <1>4, <1>5, <1>6, <1>7, <3>2, <3>3, AskOnKeeps
  <2> QED BY <1>1, <1>3, <1>8, <1>9, <2>1 DEF HandleResolve
<1>10. CASE name = "connect"
  <2>1. CASE Become(c, BuildRequest(f))
    <3>1. Become(c, Begin(f, "write_request")) /\ "write_request" \in Upstream
          /\ "write_request" # "read_response"
      BY <2>1 DEF BuildRequest, Upstream
    <3> QED BY <1>2, <1>4, <1>5, <1>6, <1>7, <3>1, AskOnKeeps
  <2>2. CASE /\ conn[c].endpoints > 0
             /\ Become(c, Begin([f EXCEPT !.endpoints = @ - 1], "connect"))
    <3>1. PICK g : g = [f EXCEPT !.endpoints = @ - 1]
      OBVIOUS
    <3>2. f.endpoints = conn[c].endpoints
      BY <1>3, <1>4 DEF Fired, Connections
    <3>3. /\ g \in Connections /\ g.op = {} /\ g.at = "idle" /\ g.sent = <<>> /\ g.image = f.image
          /\ g.page = f.page /\ g.content = f.content /\ g.webhdfs_path = f.webhdfs_path /\ g.image_path = f.image_path
      <4>1. f.endpoints - 1 \in Nat
        BY <1>4, <2>2, <3>2 DEF Connections
      <4> QED BY <1>4, <3>1, <4>1 DEF Connections
    <3>4. Become(c, Begin(g, "connect")) /\ "connect" \in Upstream /\ "connect" # "read_response"
      BY <2>2, <3>1 DEF Upstream
    <3> QED BY <1>2, <1>4, <1>5, <1>6, <1>7, <3>3, <3>4, AskOnKeeps
  <2> QED BY <1>1, <1>3, <1>8, <1>10, <2>1, <2>2 DEF HandleConnect
<1>11. CASE name = "write_request"
  <2>1. CASE Become(c, Begin([f EXCEPT !.received = 0, !.code = NoCode], "read_response"))
    <3>1. PICK g : g = [f EXCEPT !.received = 0, !.code = NoCode]
      OBVIOUS
    <3>2. /\ g \in Connections /\ g.op = {} /\ g.at = "idle" /\ g.sent = <<>> /\ g.image = f.image
          /\ g.page = f.page /\ g.content = f.content /\ g.webhdfs_path = f.webhdfs_path /\ g.image_path = f.image_path
          /\ g.received = 0
      BY <1>4, <3>1 DEF Connections
    <3>3. Become(c, Begin(g, "read_response")) /\ "read_response" \in Upstream
      BY <2>1, <3>1 DEF Upstream
    <3>4. SubSeq(Body(200, g.webhdfs_path), 1, BodyRead(g.received)) = <<>>
      <4>1. BodyRead(g.received) = 0
        BY <3>2, ConnectionAssumption DEF BodyRead, HeadersComplete
      <4> QED BY <1>4, <3>2, <4>1, BodyFacts, SubSeqEmpty
    <3>5. Blank(stream[Source(c)]) => AtEnd(stream[Source(c)])
      <4>1. Len(<<>>) = 0
        OBVIOUS
      <4> QED BY <4>1 DEF Blank, AtEnd, Size
    <3>6. LET s == stream'[Source(c)]
          IN  \/ Spoiled(s)
              \/ /\ AtEnd(s)
                 /\ s.data = SubSeq(Body(200, g.webhdfs_path), 1, BodyRead(g.received))
      BY <1>5, <1>7, <3>4, <3>5 DEF Blank
    <3> QED BY <1>2, <1>4, <1>6, <1>7, <3>2, <3>3, <3>6, AskOnKeeps
  <2> QED BY <1>1, <1>3, <1>8, <1>11, <2>1 DEF HandleWriteRequest
<1> QED BY <1>1, <1>9, <1>10, <1>11

LEMMA ReadResponseEndsKeeps ==
  ASSUME ImageInv, NEW c \in Conns,
         ReadResponseFails(c) \/ ReadResponseInvalid(c) \/ ReadResponseEof(c)
  PROVE  Keeps(c)
<1>1. PICK f : f = Fired(c, "read_response")
  OBVIOUS
<1>2. /\ "read_response" \in conn[c].op /\ "read_response" \in Upstream
      /\ "read_response" \in Operations /\ Moves(c)
  BY ReadResponseEnds
     DEF ReadResponseFails, ReadResponseInvalid, ReadResponseEof, Upstream, Operations, ImageInv
<1>3. /\ f \in Connections /\ f.op = {} /\ f.at = "idle" /\ f.page \in Images(c)
      /\ f.content \in Contents(c)
      /\ conn[c].sent = <<>> /\ conn[c].op = {"read_response"} /\ conn[c].at = "idle"
      /\ ~pool!InPool(c)
  BY <1>1, <1>2, AskingKnown
<1>4. UNCHANGED <<stream, map>> /\ ~pool!InPool(c)'
  BY <1>3 DEF ReadResponseFails, ReadResponseInvalid, ReadResponseEof, GiveUp, cacheVars, poolVars,
              pool!InPool
<1>5. StreamsKept(c) /\ stream'[Out(c)] = stream[Out(c)] /\ 500 \in ReplyCodes \ {200}
  BY <1>4, StreamsSame DEF ReplyCodes
<1>6. CASE ReadResponseFails(c)
  <2>1. GiveUp(c, Fired(c, "read_response"))
    BY <1>6 DEF ReadResponseFails
  <2> QED BY <1>2, <1>3, <2>1, GiveUpKeeps
<1>7. CASE ReadResponseInvalid(c) \/ ReadResponseEof(c)
  <2>1. PICK at \in {"idle", "close"} :
          \/ f.at = at /\ Become(c, Refuse(f, 500))
          \/ Become(c, [Refuse(f, 500) EXCEPT !.at = at])
    BY <1>1, <1>3, <1>7 DEF ReadResponseInvalid, ReadResponseEof
  <2> QED BY <1>2, <1>3, <1>4, <1>5, <2>1, RefusalKeeps
<1> QED BY <1>6, <1>7

(* What Parse adds to the body read so far completes a longer part of it.  *)
LEMMA BodyGrows ==
  ASSUME NEW m \in Nat, NEW n \in 1..(ResponseFrags - m)
  PROVE  /\ BodyRead(m) \in 0..BodyParts /\ BodyRead(m + n) \in BodyRead(m)..BodyParts
         /\ ~HeadersComplete(m) => BodyRead(m) = 0
         /\ MessageComplete(m + n) => BodyRead(m + n) = BodyParts
  BY ConnectionAssumption
     DEF BodyRead, ResponseFrags, HeadersComplete, MessageComplete

(* The source of c after Parse: a part of the file, or the body of some    *)
(* other answer.                                                           *)
LEMMA ParsedKnown ==
  ASSUME ImageInv, NEW c \in Conns, ReadResponse(c), NEW n, NEW code, NEW r, NEW str,
         Parsed(c, n, code, r, str)
  PROVE  /\ r.page \in Images(c) /\ Serves(r.image_path, r.webhdfs_path) /\ Unshared(c)
         /\ UNCHANGED map /\ StreamsTyped(str)
         /\ \A s \in Streams \ {Source(c)} : str[s] = stream[s]
         /\ LET t == str[Source(c)]
                file == Body(200, r.webhdfs_path)
            IN  /\ code = 200 \/ ~HeadersComplete(r.received) =>
                     Spoiled(t) \/ (AtEnd(t) /\ t.data = SubSeq(file, 1, BodyRead(r.received)))
                /\ code # 200 => Blank(t) \/ Spoiled(t)
         /\ ~HeadersComplete(r.received) => str[Source(c)] = stream[Source(c)]
<1>1. PICK f : f = Fired(c, "read_response")
  OBVIOUS
<1>2. "read_response" \in conn[c].op /\ "read_response" \in Upstream
  BY DEF ReadResponse, Upstream
<1>3. /\ f \in Connections /\ f.content = Source(c) /\ f.page \in Images(c)
      /\ f.webhdfs_path \in Paths /\ Serves(f.image_path, f.webhdfs_path)
      /\ f.webhdfs_path = conn[c].webhdfs_path
      /\ Unshared(c) /\ Served(c) /\ conn[c] \in Connections
  BY <1>1, <1>2, AskingKnown
<1>4. PICK m \in Nat : m = conn[c].received
  BY <1>3 DEF Connections
<1>5. /\ n \in 1..(ResponseFrags - m) /\ code \in Nat
      /\ r = [f EXCEPT !.received = m + n, !.code = code]
      /\ str = [stream EXCEPT ![r.content] = Write(@,
                  SubSeq(Body(code, r.webhdfs_path), BodyRead(m) + 1, BodyRead(m + n)))]
      /\ HeadersComplete(m) => code = conn[c].code
  BY <1>1, <1>4, ConnectionAssumption DEF Parsed
<1>6. m + n \in Nat
  BY <1>5, ConnectionAssumption DEF ResponseFrags
<1>7. /\ r.page = f.page /\ r.image_path = f.image_path /\ r.webhdfs_path = f.webhdfs_path
      /\ r.content = Source(c) /\ r.received = m + n
  BY <1>3, <1>5, <1>6 DEF Connections
<1>8. PICK s : s = stream[Source(c)]
  OBVIOUS
<1>9. PICK new : new = SubSeq(Body(code, r.webhdfs_path), BodyRead(m) + 1, BodyRead(m + n))
  OBVIOUS
<1>10. s \in StreamsOver(Bytes) /\ new \in Seq(Bytes) /\ StreamsTyped(stream)
  BY <1>3, <1>5, <1>7, <1>8, <1>9, NewBody, StreamNames DEF StreamsTyped, ImageInv, ConnInv, TypeOK
<1>11. str = [stream EXCEPT ![Source(c)] = Write(s, new)]
  BY <1>5, <1>7, <1>8, <1>9
<1>12. /\ str[Source(c)] = Write(s, new) /\ StreamsTyped(str)
       /\ \A x \in Streams \ {Source(c)} : str[x] = stream[x]
  BY <1>10, <1>11, WriteType, StreamNames DEF StreamsTyped
<1>13. Spoiled(s) \/ (AtEnd(s) /\ s.data = SubSeq(Body(200, r.webhdfs_path), 1, BodyRead(m)))
  BY <1>2, <1>3, <1>4, <1>7, <1>8 DEF Served
<1>14. s.data \in Seq(Bytes) /\ (AtEnd(s) => Write(s, new) = [data |-> s.data \o new, offset |-> Len(s.data) + Len(new)])
       /\ (~AtEnd(s) => Write(s, new) = s)
  BY <1>10 DEF Write, Size, StreamsOver
<1>15. Spoiled(s) => Spoiled(Write(s, new))
  <2>1. s.data # <<>> => s.data \o new # <<>> /\ (s.data \o new)[1] = s.data[1]
    BY <1>10, <1>14
  <2> QED BY <1>14, <2>1 DEF Spoiled
<1>16. AtEnd(s) => AtEnd(Write(s, new)) /\ Write(s, new).data = s.data \o new
  BY <1>10, <1>14 DEF AtEnd, Size
<1>17. /\ BodyRead(m) \in 0..BodyParts /\ BodyRead(m + n) \in BodyRead(m)..BodyParts
       /\ ~HeadersComplete(m) => BodyRead(m) = 0
  BY <1>5, BodyGrows
<1>18. ASSUME AtEnd(s), s.data = SubSeq(Body(200, r.webhdfs_path), 1, BodyRead(m)), code = 200
       PROVE  Write(s, new).data = SubSeq(Body(200, r.webhdfs_path), 1, BodyRead(m + n))
  <2>1. PICK file : file = Body(200, r.webhdfs_path)
    OBVIOUS
  <2>2. file \in Seq(Bytes) /\ Len(file) = BodyParts
    BY <1>3, <1>7, <2>1, BodyFacts
  <2>3. 1 \in 1..(Len(file) + 1) /\ BodyRead(m) \in (1 - 1)..Len(file)
        /\ BodyRead(m + n) \in BodyRead(m)..Len(file)
    BY <1>17, <2>2, ConnectionAssumption
  <2>4. SubSeq(file, 1, BodyRead(m)) \o SubSeq(file, BodyRead(m) + 1, BodyRead(m + n))
        = SubSeq(file, 1, BodyRead(m + n))
    BY <2>2, <2>3, ConcatAdjacentSubSeq
  <2> QED BY <1>9, <1>16, <1>18, <2>1, <2>4
<1>19. CASE HeadersComplete(m)
  <2>1. code = 200
    <3>1. conn[c].op = {"read_response"} /\ Asking(c)
      BY <1>2, AskingKnown, WhichStage DEF ImageInv, ConnInv
    <3> QED BY <1>4, <1>5, <1>19, <3>1 DEF Asking
  <2>2. HeadersComplete(m + n)
    BY <1>5, <1>19, ConnectionAssumption DEF HeadersComplete
  <2> QED BY <1>3, <1>7, <1>12, <1>13, <1>15, <1>16, <1>18, <2>1, <2>2
          DEF ReadResponse, cacheVars
<1>20. CASE ~HeadersComplete(m)
  <2>1. Spoiled(s) \/ (AtEnd(s) /\ s.data = <<>>)
    <3>1. SubSeq(Body(200, r.webhdfs_path), 1, BodyRead(m)) = <<>>
      BY <1>3, <1>7, <1>17, <1>20, BodyFacts, SubSeqEmpty
    <3> QED BY <1>13, <3>1
  <2>2. ~HeadersComplete(m + n) => new = <<>> /\ Write(s, new) = s
    <3>1. ASSUME ~HeadersComplete(m + n) PROVE new = <<>>
      <4>1. BodyRead(m + n) = 0
        BY <3>1 DEF BodyRead
      <4> QED BY <1>9, <1>17, <1>20, <4>1, SubSeqEmpty
    <3>2. new = <<>> => s.data \o new = s.data /\ Len(s.data) + Len(new) = Len(s.data)
      BY <1>10, <1>14
    <3>3. AtEnd(s) => s = [data |-> s.data, offset |-> Len(s.data)]
      BY <1>10 DEF AtEnd, Size, StreamsOver
    <3> QED BY <1>14, <3>1, <3>2, <3>3
  <2>3. ~HeadersComplete(m + n) => BodyRead(m + n) = BodyRead(m)
    BY <1>17, <1>20 DEF BodyRead
  <2>4. ASSUME code # 200 PROVE Blank(Write(s, new)) \/ Spoiled(Write(s, new))
    <3>1. CASE AtEnd(s) /\ s.data = <<>>
      <4>1. Write(s, new) = [data |-> new, offset |-> Len(new)]
        BY <1>10, <1>14, <3>1
      <4>2. CASE new = <<>>
        BY <4>1, <4>2 DEF Blank
      <4>3. CASE new # <<>>
        <5>1. PICK b : b = Body(code, r.webhdfs_path)
          OBVIOUS
        <5>2. /\ b \in Seq(Bytes) /\ Len(b) = BodyParts
              /\ \A i \in 1..BodyParts : b[i] = <<NoPath, i>>
          BY <1>3, <1>7, <2>4, <5>1, BodyFacts
        <5>3. new = SubSeq(b, 1, BodyRead(m + n))
          BY <1>9, <1>17, <1>20, <5>1
        <5>4. BodyRead(m + n) \in Nat \ {0} /\ BodyRead(m + n) <= BodyParts
          BY <1>17, <1>20, <4>3, <5>3, SubSeqEmpty, ConnectionAssumption
        <5>5. new[1] = b[1]
          BY <5>2, <5>3, <5>4, ConnectionAssumption
        <5>6. new[1] = <<NoPath, 1>>
          BY <5>2, <5>4, <5>5, ConnectionAssumption
        <5> QED BY <4>1, <4>3, <5>6 DEF Spoiled
      <4> QED BY <4>2, <4>3
    <3> QED BY <1>15, <2>1, <3>1
  <2> QED BY <1>3, <1>7, <1>8, <1>12, <1>13, <1>15, <1>16, <1>18, <2>2, <2>3, <2>4
          DEF ReadResponse, cacheVars
<1> QED BY <1>19, <1>20

LEMMA ReadResponseKeeps ==
  ASSUME ImageInv, NEW c \in Conns, ReadResponse(c)
  PROVE  Keeps(c)
<1>1. ConnInv /\ Moves(c)
  BY ReadResponseMoves DEF ImageInv
<1>2. PICK n, code, r, str : Parsed(c, n, code, r, str)
  BY <1>1, ReadResponseParsed
<1>3. /\ r \in Connections /\ r.op = {} /\ r.at = "idle" /\ r.sent = <<>>
      /\ r.content = Source(c) /\ r.image = Source(c) /\ r.webhdfs_path \in Paths
      /\ r.code = code /\ conn[c].sent = <<>> /\ ~pool!InPool(c)' /\ code \in ReplyCodes
      /\ r.started /\ r.image_path \in Paths
  BY <1>1, <1>2, ParsedFacts
<1>4. /\ r.page \in Images(c) /\ Serves(r.image_path, r.webhdfs_path) /\ Unshared(c)
      /\ UNCHANGED map /\ StreamsTyped(str)
      /\ \A s \in Streams \ {Source(c)} : str[s] = stream[s]
      /\ r.content \in Contents(c)
  BY <1>2, <1>3, ParsedKnown DEF Contents
<1>5. /\ code = 200 \/ ~HeadersComplete(r.received) =>
           \/ Spoiled(str[Source(c)])
           \/ /\ AtEnd(str[Source(c)])
              /\ str[Source(c)].data = SubSeq(Body(200, r.webhdfs_path), 1, BodyRead(r.received))
      /\ code # 200 => Blank(str[Source(c)]) \/ Spoiled(str[Source(c)])
      /\ ~HeadersComplete(r.received) => str[Source(c)] = stream[Source(c)]
  BY <1>2, ParsedKnown
<1>6. stream' = str => StreamsKept(c) /\ stream'[Out(c)] = stream[Out(c)]
  BY <1>4, StreamNames DEF StreamsKept
<1>7. ASSUME NEW at \in {"idle", "close"}, NEW bad \in ReplyCodes \ {200}, stream' = str,
             \/ r.at = at /\ Become(c, Refuse(r, bad))
             \/ Become(c, [Refuse(r, bad) EXCEPT !.at = at])
      PROVE  Keeps(c)
  BY <1>1, <1>3, <1>4, <1>6, <1>7, RefusalKeeps
<1>8. CASE ~HeadersComplete(conn[c].received + n)
  <2>1. PICK g : g = [r EXCEPT !.code = NoCode]
    OBVIOUS
  <2>2. /\ g \in Connections /\ g.op = {} /\ g.at = "idle" /\ g.sent = <<>>
        /\ g.image = Source(c) /\ g.page = r.page /\ g.content = Source(c) /\ g.image_path = r.image_path
        /\ g.webhdfs_path = r.webhdfs_path /\ g.received = r.received
    BY <1>3, <2>1 DEF Connections
  <2>3. r.received = conn[c].received + n
    BY <1>1, <1>2, ParsedFacts
  <2>4. Become(c, Begin(g, "read_response")) /\ UNCHANGED stream /\ "read_response" \in Upstream
    BY <1>2, <1>8, <2>1 DEF Parsed, Upstream
  <2>5. /\ StreamsKept(c) /\ stream'[Out(c)] = stream[Out(c)]
        /\ stream'[Source(c)] = str[Source(c)]
    BY <1>5, <1>8, <2>3, <2>4, StreamsSame
  <2>6. \/ Spoiled(stream'[Source(c)])
        \/ /\ AtEnd(stream'[Source(c)])
           /\ stream'[Source(c)].data = SubSeq(Body(200, g.webhdfs_path), 1, BodyRead(g.received))
    BY <1>5, <1>8, <2>2, <2>3, <2>5
  <2> QED BY <1>1, <1>3, <1>4, <2>2, <2>4, <2>5, <2>6, AskOnKeeps
<1>9. CASE Redirected(c, r, str)
  <2>1. code # 200
    <3>1. code \in {301, 302, 303, 307}
      BY <1>3, <1>9 DEF Redirected, RedirectCodes
    <3>2. \A k \in {301, 302, 303, 307} : k # 200
      OBVIOUS
    <3> QED BY <3>1, <3>2
  <2>2. CASE Become(c, Refuse(r, 500)) /\ stream' = str
    <3>1. 500 \in ReplyCodes \ {200} /\ "idle" \in {"idle", "close"}
      BY DEF ReplyCodes
    <3>2. \/ r.at = "idle" /\ Become(c, Refuse(r, 500))
          \/ Become(c, [Refuse(r, 500) EXCEPT !.at = "idle"])
      BY <1>3, <2>2
    <3> QED BY <1>7, <2>2, <3>1, <3>2
  <2>3. ASSUME NEW p \in Locations(r),
               SendRequest(c, [r EXCEPT !.webhdfs_path = p, !.open = FALSE, !.hops = @ + 1],
                           p, str)
        PROVE  Keeps(c)
    <3>1. p \in Paths /\ (SamePath => p \in {r.webhdfs_path, Favicon})
      BY <1>3, ConnectionAssumption DEF Locations, SamePath
    <3>2. PICK g : g = [r EXCEPT !.webhdfs_path = p, !.open = FALSE, !.hops = @ + 1]
      OBVIOUS
    <3>3. /\ g \in Connections /\ g.op = {} /\ g.at = "idle" /\ g.sent = <<>>
          /\ g.image = Source(c) /\ g.image_path = r.image_path /\ g.page = r.page
          /\ g.content \in Contents(c)
      <4>1. r.hops + 1 \in Nat
        BY <1>3 DEF Connections
      <4> QED BY <1>3, <1>4, <3>1, <3>2, <4>1 DEF Connections
    <3>4. SendRequest(c, g, p, str) /\ Source(c) # NoStream
      BY <2>3, <3>2, StreamNames
    <3>5. p # Favicon => Serves(g.image_path, p)
      BY <1>4, <3>1, <3>3 DEF Serves
    <3>6. Blank(str[Source(c)]) \/ Spoiled(str[Source(c)])
      BY <1>5, <2>1
    <3> QED BY <1>1, <1>3, <1>4, <3>1, <3>3, <3>4, <3>5, <3>6, SendRequestKeeps
  <2> QED BY <1>9, <2>2, <2>3 DEF Redirected
<1>10. CASE Rejected(c, r, str)
  <2>1. /\ code \in ReplyCodes \ {200} /\ Become(c, [Refuse(r, code) EXCEPT !.at = "close"])
        /\ stream' = str /\ "close" \in {"idle", "close"}
    BY <1>3, <1>10 DEF Rejected
  <2> QED BY <1>7, <2>1
<1>11. CASE Fetched(c, r, str)
  <2>1. PICK q : q = [r EXCEPT !.at = "load"]
    OBVIOUS
  <2>2. /\ q \in Connections /\ q.op = {} /\ q.at = "load" /\ q.sent = <<>>
        /\ q.content = Source(c) /\ q.image = Source(c) /\ q.image_path = r.image_path
        /\ q.webhdfs_path = r.webhdfs_path /\ q.page = r.page /\ q.started
    BY <1>3, <2>1 DEF Connections, Positions
  <2>3. conn'[c] = q
    BY <1>11, <2>1, <2>2, Becomes DEF Fetched, ImageInv, ConnInv, TypeOK
  <2>4. /\ stream' = [str EXCEPT ![Source(c)] = Rewind(@)] /\ Source(c) \in Streams
        /\ str[Source(c)] \in StreamsOver(Bytes)
    BY <1>3, <1>4, <1>11, StreamNames DEF Fetched, StreamsTyped
  <2>5. /\ stream'[Source(c)].data = str[Source(c)].data /\ stream'[Source(c)].offset = 0
        /\ \A s \in Streams \ {Source(c)} : stream'[s] = stream[s]
    BY <1>4, <2>4, RewindType DEF StreamsTyped
  <2>6. StreamsKept(c) /\ stream'[Out(c)] = stream[Out(c)]
    BY <1>4, <2>5, StreamNames DEF StreamsKept
  <2>7. Spoiled(stream'[Source(c)]) \/ stream'[Source(c)].data = Body(200, r.webhdfs_path)
    <3>1. code = 200 /\ BodyRead(r.received) = BodyParts
      BY <1>3, <1>11, ConnectionAssumption
         DEF Fetched, BodyRead, MessageComplete, HeadersComplete, ResponseFrags
    <3>2. SubSeq(Body(200, r.webhdfs_path), 1, BodyParts) = Body(200, r.webhdfs_path)
      BY <1>3, BodyFacts, SubSeqFull
    <3> QED BY <1>5, <2>5, <3>1, <3>2 DEF Spoiled
  <2>8. Refers(c)
    BY <1>4, <2>2, <2>3 DEF Refers, Images, Contents
  <2>9. ~Quiet(c)' /\ ~Waiting(c)'
    BY <1>3, <2>2, <2>3 DEF Quiet, Waiting
  <2>10. Known(c)' /\ Served(c)'
    <3>1. Known(c)'
      BY <2>2, <2>3, <2>9 DEF Known
    <3>2. Source(c) # NoStream
      BY StreamNames
    <3>3. Serves(q.image_path, q.webhdfs_path) /\ q.webhdfs_path \in Paths
      BY <1>3, <1>4, <2>2
    <3> QED BY <2>2, <2>3, <2>5, <2>7, <2>9, <3>1, <3>2, <3>3 DEF Served
  <2>11. Shown(c)'
    BY <1>3, <2>2, <2>3, <2>6, NothingShown
  <2> QED BY <2>6, <2>8, <2>10, <2>11 DEF Keeps, Fit
<1>12. CASE Unfinished(c, r, str)
  <2>1. code = 200 /\ Become(c, Begin(r, "read_response")) /\ stream' = str
        /\ "read_response" \in Upstream
    BY <1>3, <1>12 DEF Unfinished, Upstream
  <2>2. \/ Spoiled(stream'[Source(c)])
        \/ /\ AtEnd(stream'[Source(c)])
           /\ stream'[Source(c)].data = SubSeq(Body(200, r.webhdfs_path), 1, BodyRead(r.received))
    BY <1>5, <2>1
  <2> QED BY <1>1, <1>3, <1>4, <1>6, <2>1, <2>2, AskOnKeeps
<1> QED BY <1>2, <1>8, <1>9, <1>10, <1>11, <1>12 DEF Parsed

(* What a read of the whole of an image that nobody else reads begins with.*)
LEMMA ReadWhole ==
  ASSUME ImageInv, NEW c \in Conns, conn[c].at = "load", Loading(c),
         DocOf(stream[conn[c].image]) \in Pictures \/ ~ReadsAlone(c, conn[c].image)
  PROVE  Whole(stream[conn[c].image], conn[c].image_path)
<1> DEFINE s == stream[conn[c].image]
<1>1. Served(c) /\ s \in StreamsOver(Bytes)
  BY StreamNames DEF ImageInv, Fit, Loading, ConnInv, TypeOK
<1>2. CASE conn[c].content = NoStream
  BY <1>1, <1>2 DEF Served
<1>3. CASE conn[c].content # NoStream
  <2>1. conn[c].image = Source(c) /\ conn[c].content = Source(c)
    BY <1>3 DEF Loading
  <2>2. /\ s.offset = 0 /\ (Spoiled(s) \/ s.data = Body(200, conn[c].webhdfs_path))
        /\ Serves(conn[c].image_path, conn[c].webhdfs_path) /\ conn[c].webhdfs_path \in Paths
    BY <1>1, <1>3, <2>1 DEF Served
  <2>3. Unshared(c)
    BY <1>3 DEF Unshared, Fetching
  <2>4. \A d \in Conns \ {c} : Source(c) \notin {conn[d].image, conn[d].page}
    BY <2>3 DEF ImageInv, Private
  <2>5. ReadsAlone(c, conn[c].image)
    BY <2>1, <2>2, <2>4 DEF ReadsAlone
  <2>6. DocOf(s) \in Paths /\ DocOf(s) # NoPath
    BY <2>5, ConnectionAssumption
  <2>7. s.data # <<>> /\ s.data[1][1] = DocOf(s)
    BY <2>6 DEF DocOf
  <2>8. s.data = Body(200, conn[c].webhdfs_path)
    BY <2>2, <2>6, <2>7 DEF Spoiled
  <2>9. s.data[1][1] = conn[c].webhdfs_path
    <3>1. Len(s.data) = BodyParts /\ Len(s.data) \in Nat \ {0}
      BY <1>1, <2>2, <2>7, <2>8, BodyFacts DEF StreamsOver
    <3>2. s.data[1] = <<conn[c].webhdfs_path, 1>>
      BY <2>2, <2>8, <3>1, BodyFacts
    <3> QED BY <3>2
  <2> QED BY <2>2, <2>7, <2>8, <2>9 DEF Whole
<1> QED BY <1>2, <1>3

LEMMA LoadDocKeeps ==
  ASSUME ImageInv, NEW c \in Conns, LoadDoc(c)
  PROVE  Keeps(c)
<1>1. /\ Loading(c) /\ conn[c].at = "load" /\ conn[c] \in Connections /\ Moves(c)
      /\ Known(c) /\ Served(c)
  BY WhichStage, LoadDocMoves DEF ImageInv, ConnInv, TypeOK, LoadDoc, Fit
<1> DEFINE image == conn[c].image
           s == stream[image]
<1>2. stream' = [stream EXCEPT ![image] = ToItsEnd(@)] /\ UNCHANGED map
  BY DEF LoadDoc, cacheVars
<1>3. image \in Sources /\ image \in Streams /\ s \in StreamsOver(Bytes) /\ Size(s) \in Nat
  BY <1>1, StreamNames DEF Loading, ImageInv, ConnInv, TypeOK, StreamsOver, Size
<1>4. ToItsEnd(s).data = s.data
  BY <1>3, ReadType DEF ToItsEnd
<1>5. /\ stream'[image].data = s.data /\ \A x \in Streams \ {image} : stream'[x] = stream[x]
  BY <1>2, <1>3, <1>4 DEF ImageInv, ConnInv, TypeOK
<1>6. StreamsKept(c) /\ stream'[Out(c)] = stream[Out(c)]
  BY <1>3, <1>5, StreamNames DEF StreamsKept
<1>7. ~pool!InPool(c)' /\ conn[c].sent = <<>> /\ conn[c].op = {} /\ conn[c].started
      /\ conn[c].page \in Images(c) /\ conn[c].image \in Images(c)
      /\ conn[c].content \in Contents(c)
  BY <1>1 DEF LoadDoc, Loading, poolVars, pool!InPool, Images, Contents
<1>8. ASSUME DocOf(s) \in Pictures \/ ~ReadsAlone(c, image), NEW torn \in BOOLEAN,
             Become(c, [conn[c] EXCEPT !.at = "put", !.page = image, !.torn = torn])
      PROVE  Keeps(c)
  <2>1. PICK q : q = [conn[c] EXCEPT !.at = "put", !.page = image, !.torn = torn]
    OBVIOUS
  <2>2. /\ q \in Connections /\ q.op = {} /\ q.at = "put" /\ q.sent = <<>> /\ q.started
        /\ q.content = conn[c].content /\ q.image = image /\ q.page = image
        /\ q.image_path = conn[c].image_path
    BY <1>1, <1>3, <1>7, <1>8, <2>1, StreamNames DEF Connections, Positions
  <2>3. conn'[c] = q
    BY <1>8, <2>1, <2>2, Becomes DEF ImageInv, ConnInv, TypeOK
  <2>4. Whole(s, conn[c].image_path)
    BY <1>1, <1>8, ReadWhole
  <2>5. Whole(stream'[image], conn[c].image_path)
    BY <1>5, <2>4 DEF Whole
  <2>6. ~Quiet(c)' /\ ~Waiting(c)'
    BY <1>7, <2>2, <2>3 DEF Quiet, Waiting
  <2>7. Refers(c)
    <3>1. Unshared(c)' => Unshared(c)
      BY <1>1, <2>2, <2>3, <2>6 DEF Unshared, Fetching
    <3> QED BY <1>2, <1>7, <2>2, <2>3, <3>1 DEF Refers
  <2>8. Known(c)'
    BY <1>1, <2>2, <2>3, <2>6 DEF Known
  <2>9. Served(c)'
    BY <2>2, <2>3, <2>5, <2>6 DEF Served, Whole, Serves, Body
  <2>10. Shown(c)'
    BY <1>6, <1>7, <2>2, <2>3, NothingShown
  <2> QED BY <1>6, <2>7, <2>8, <2>9, <2>10 DEF Keeps, Fit
<1>9. ASSUME NEW at \in {"idle", "close"}, Become(c, [conn[c] EXCEPT !.at = at, !.lost = TRUE])
      PROVE  Keeps(c)
  <2>1. PICK q : q = [conn[c] EXCEPT !.at = at, !.lost = TRUE]
    OBVIOUS
  <2>2. /\ q \in Connections /\ q.op = {} /\ q.at \in {"idle", "close"}
        /\ q.image = conn[c].image /\ q.page = conn[c].page /\ q.content = conn[c].content
    BY <1>1, <1>7, <1>9, <2>1 DEF Connections, Positions
  <2>3. conn'[c] = q
    BY <1>9, <2>1, <2>2, Becomes DEF ImageInv, ConnInv, TypeOK
  <2> QED BY <1>1, <1>2, <1>6, <1>7, <2>2, <2>3, EndKeeps
<1>10. CASE Become(c, [Refuse(conn[c], 500) EXCEPT !.at = AfterSendPage(conn[c])])
  <2>1. AfterSendPage(conn[c]) \in {"idle", "close"} /\ 500 \in ReplyCodes \ {200}
    BY DEF AfterSendPage, ReplyCodes
  <2>2. PICK at \in {"idle", "close"} :
          \/ conn[c].at = at /\ Become(c, Refuse(conn[c], 500))
          \/ Become(c, [Refuse(conn[c], 500) EXCEPT !.at = at])
    BY <1>10, <2>1
  <2> QED BY <1>1, <1>2, <1>6, <1>7, <2>1, <2>2, RefusalKeeps
<1>11. AfterSendPage(conn[c]) \in {"idle", "close"}
  BY DEF AfterSendPage
<1>12. PICK torn \in BOOLEAN : torn = ~ReadsAlone(c, image)
  OBVIOUS
<1>13. \/ /\ DocOf(s) \in Pictures \/ ~ReadsAlone(c, image)
          /\ Become(c, [conn[c] EXCEPT !.at = "put", !.page = image, !.torn = torn])
       \/ \E at \in {"idle", "close"} : Become(c, [conn[c] EXCEPT !.at = at, !.lost = TRUE])
       \/ Become(c, [Refuse(conn[c], 500) EXCEPT !.at = AfterSendPage(conn[c])])
  BY <1>11, <1>12, Zenon DEF LoadDoc
<1> QED BY <1>8, <1>9, <1>10, <1>13

(* The steps that only change where the handler is.                        *)
LEMMA SameKeeps ==
  ASSUME ImageInv, NEW c \in Conns, Moves(c), UNCHANGED <<stream, map>>, conn[c].started,
         conn[c].at \notin {"load", "put"}, conn'[c].at \notin {"load", "put"},
         Waiting(c)' <=> Waiting(c), conn'[c].op = conn[c].op, conn'[c].sent = conn[c].sent,
         conn'[c].image = conn[c].image, conn'[c].page = conn[c].page,
         conn'[c].content = conn[c].content, conn'[c].image_path = conn[c].image_path,
         conn'[c].webhdfs_path = conn[c].webhdfs_path, conn'[c].received = conn[c].received,
         conn'[c].status_code = conn[c].status_code, conn'[c].torn = conn[c].torn
  PROVE  Keeps(c)
<1>1. StreamsKept(c)
  BY StreamsSame
<1>2. (Quiet(c)' <=> Quiet(c)) /\ (Writing(c)' <=> Writing(c))
  BY DEF Moves, Quiet, Writing
<1>3. Refers(c)
  <2>1. Unshared(c)' => Unshared(c)
    BY <1>2 DEF Unshared, Fetching
  <2> QED BY <2>1 DEF Refers, Images, Contents
<1>4. Known(c) /\ Served(c) /\ Shown(c)
  BY DEF ImageInv, Fit
<1>5. Known(c)'
  BY <1>4 DEF Known
<1>6. Served(c)'
  <2>1. stream' = stream
    OBVIOUS
  <2> QED BY <1>2, <1>4, <2>1 DEF Served
<1>7. Shown(c)'
  BY <1>2, <1>4 DEF Shown
<1> QED BY <1>1, <1>3, <1>5, <1>6, <1>7 DEF Keeps, Fit

LEMMA CheckPoolKeeps ==
  ASSUME ImageInv, NEW c \in Conns, CheckPool(c)
  PROVE  Keeps(c)
<1>1. Painting(c) /\ conn[c].at = "add" /\ conn[c] \in Connections /\ Moves(c)
  BY WhichStage, CheckPoolMoves DEF ImageInv, ConnInv, TypeOK, CheckPool
<1>2. /\ ~pool!InPool(c) /\ ~pool!InPool(c)' /\ conn[c].sent = <<>> /\ conn[c].started
      /\ conn[c].op = {} /\ UNCHANGED <<stream, map>>
  BY <1>1 DEF CheckPool, Painting, pool!Refuse, pool!poolVars, poolVars, pool!InPool, cacheVars
<1>3. CASE Become(c, [conn[c] EXCEPT !.at = "push"])
  <2>1. PICK q : q = [conn[c] EXCEPT !.at = "push"]
    OBVIOUS
  <2>2. /\ q \in Connections /\ q.at = "push" /\ q.op = conn[c].op /\ q.sent = conn[c].sent
        /\ q.image = conn[c].image /\ q.page = conn[c].page /\ q.content = conn[c].content
        /\ q.image_path = conn[c].image_path /\ q.webhdfs_path = conn[c].webhdfs_path
        /\ q.received = conn[c].received /\ q.status_code = conn[c].status_code
        /\ q.torn = conn[c].torn
    BY <1>1, <2>1 DEF Connections, Positions
  <2>3. conn'[c] = q
    BY <1>3, <2>1, <2>2, Becomes DEF ImageInv, ConnInv, TypeOK
  <2>4. Waiting(c)' <=> Waiting(c)
    BY <1>1, <2>2, <2>3 DEF Waiting
  <2> QED BY <1>1, <1>2, <2>2, <2>3, <2>4, SameKeeps
<1>4. CASE Become(c, Refuse([conn[c] EXCEPT !.at = AfterSendPage(conn[c])], 500))
  <2>1. AfterSendPage(conn[c]) \in {"idle", "close"} /\ 500 \in ReplyCodes \ {200}
    BY DEF AfterSendPage, ReplyCodes
  <2>2. PICK g : g = [conn[c] EXCEPT !.at = AfterSendPage(conn[c])]
    OBVIOUS
  <2>3. g \in Connections /\ g.op = {} /\ g.at = AfterSendPage(conn[c]) /\ g.page \in Images(c)
        /\ g.content \in Contents(c)
    BY <1>1, <1>2, <2>1, <2>2 DEF Connections, Positions, Images, Contents
  <2>4. \/ g.at = AfterSendPage(conn[c]) /\ Become(c, Refuse(g, 500))
        \/ Become(c, [Refuse(g, 500) EXCEPT !.at = AfterSendPage(conn[c])])
    BY <1>4, <2>2, <2>3
  <2>5. StreamsKept(c) /\ stream'[Out(c)] = stream[Out(c)] /\ UNCHANGED map
    BY <1>2, StreamsSame
  <2> QED BY <1>1, <1>2, <2>1, <2>3, <2>4, <2>5, RefusalKeeps
<1> QED BY <1>3, <1>4 DEF CheckPool

LEMMA AddTaskKeeps ==
  ASSUME ImageInv, NEW c \in Conns, AddTask(c)
  PROVE  Keeps(c)
<1>1. Painting(c) /\ conn[c].at = "push" /\ conn[c] \in Connections /\ Moves(c) /\ conn[c].started
  BY WhichStage, AddTaskMoves DEF ImageInv, ConnInv, TypeOK, AddTask, Painting
<1>2. pool!InPool(c)' /\ UNCHANGED <<stream, map>>
  BY AcceptEffect DEF AddTask, ImageInv, ConnInv, TypeOK, cacheVars
<1>3. PICK q : q = [conn[c] EXCEPT !.at = AfterSendPage(conn[c])]
  OBVIOUS
<1>4. /\ q \in Connections /\ q.at \in {"idle", "close"} /\ q.op = conn[c].op
      /\ q.sent = conn[c].sent /\ q.image = conn[c].image /\ q.page = conn[c].page
      /\ q.content = conn[c].content /\ q.image_path = conn[c].image_path
      /\ q.webhdfs_path = conn[c].webhdfs_path /\ q.received = conn[c].received
      /\ q.status_code = conn[c].status_code /\ q.torn = conn[c].torn
  <2>1. AfterSendPage(conn[c]) \in {"idle", "close"}
    BY DEF AfterSendPage
  <2> QED BY <1>1, <1>3, <2>1 DEF Connections, Positions
<1>5. conn'[c] = q
  BY <1>3, <1>4, Becomes DEF AddTask, ImageInv, ConnInv, TypeOK
<1>6. Waiting(c)' <=> Waiting(c)
  BY <1>1, <1>2 DEF Waiting
<1> QED BY <1>1, <1>2, <1>4, <1>5, <1>6, SameKeeps

LEMMA CloseSocketKeeps ==
  ASSUME ImageInv, NEW c \in Conns, CloseSocket(c)
  PROVE  Keeps(c)
<1>1. /\ conn[c].at = "close" /\ conn[c] \in Connections /\ Moves(c)
      /\ UNCHANGED <<stream, map>> /\ (pool!InPool(c)' <=> pool!InPool(c))
  BY CloseSocketMoves
     DEF ImageInv, ConnInv, TypeOK, CloseSocket, cacheVars, poolVars, pool!InPool
<1>2. conn[c].started
  BY <1>1, WhichStage DEF ImageInv, ConnInv, New
<1>3. PICK q : q = [conn[c] EXCEPT !.at = "idle", !.open = FALSE]
  OBVIOUS
<1>4. /\ q \in Connections /\ q.at = "idle" /\ q.op = conn[c].op
      /\ q.sent = conn[c].sent /\ q.image = conn[c].image /\ q.page = conn[c].page
      /\ q.content = conn[c].content /\ q.image_path = conn[c].image_path
      /\ q.webhdfs_path = conn[c].webhdfs_path /\ q.received = conn[c].received
      /\ q.status_code = conn[c].status_code /\ q.torn = conn[c].torn
  BY <1>1, <1>3 DEF Connections, Positions
<1>5. conn'[c] = q
  BY <1>3, <1>4, Becomes DEF CloseSocket, ImageInv, ConnInv, TypeOK
<1>6. Waiting(c)' <=> Waiting(c)
  BY <1>1, <1>4, <1>5 DEF Waiting
<1> QED BY <1>1, <1>2, <1>4, <1>5, <1>6, SameKeeps

(* A worker moves the position of the page of c.                           *)
LEMMA PageMoved ==
  ASSUME ImageInv, NEW c \in Conns, Painting(c), NEW t, t.data = stream[conn[c].page].data,
         stream' = [stream EXCEPT ![conn[c].page] = t]
  PROVE  /\ StreamsKept(c) /\ stream'[Out(c)] = stream[Out(c)]
         /\ stream'[conn[c].page].data = stream[conn[c].page].data
<1>1. conn[c].page \in Sources /\ conn[c].page \in Streams /\ stream \in [Streams -> StreamsOver(Bytes)]
  BY StreamNames DEF Painting, ImageInv, ConnInv, TypeOK
<1>2. /\ stream'[conn[c].page].data = stream[conn[c].page].data
      /\ \A s \in Streams \ {conn[c].page} : stream'[s] = stream[s]
  BY <1>1
<1> QED BY <1>1, <1>2, StreamNames DEF StreamsKept

LEMMA BeginTaskKeeps ==
  ASSUME ImageInv, NEW c \in Conns, BeginTask(c)
  PROVE  Keeps(c)
<1>1. /\ pool!InPool(c) /\ (pool!InPool(c)' <=> pool!InPool(c)) /\ UNCHANGED <<conn, map>>
      /\ Moves(c)
  <2>1. pool!InPool(c)
    BY DEF BeginTask, pool!Take, pool!InPool, ImageInv, ConnInv, TypeOK, pool!QueueTypeOK
  <2> QED BY <2>1, TakeEffect, BeginTaskMoves
          DEF BeginTask, ImageInv, ConnInv, TypeOK, cacheVars
<1>2. Painting(c) /\ conn[c] \in Connections
  BY <1>1, WhichStage DEF ImageInv, ConnInv, TypeOK
<1>3. /\ conn[c].started /\ conn[c].at \in {"idle", "close"} /\ conn[c].op = {}
      /\ conn[c].sent = <<>>
  BY <1>1, <1>2 DEF Painting
<1>4. /\ StreamsKept(c) /\ stream'[Out(c)] = stream[Out(c)]
      /\ stream'[conn[c].page].data = stream[conn[c].page].data
  <2>1. stream[conn[c].page] \in StreamsOver(Bytes)
    BY <1>2, StreamNames DEF Painting, ImageInv, ConnInv, TypeOK
  <2>2. Rewind(stream[conn[c].page]).data = stream[conn[c].page].data
    BY <2>1, RewindType
  <2>3. stream' = [stream EXCEPT ![conn[c].page] = Rewind(stream[conn[c].page])]
    BY DEF BeginTask
  <2> QED BY <1>2, <2>2, <2>3, PageMoved
<1>5. (Waiting(c)' <=> Waiting(c)) /\ Waiting(c) /\ ~Quiet(c)'
  BY <1>1, <1>3 DEF Waiting, Quiet
<1>6. Known(c) /\ Served(c)
  BY DEF ImageInv, Fit
<1>7. Refers(c)
  BY <1>1 DEF Refers, Images, Contents, Unshared, Quiet, Fetching
<1>8. Known(c)'
  BY <1>1, <1>5, <1>6 DEF Known
<1>9. Served(c)'
  <2>1. Whole(stream'[conn[c].page], conn[c].image_path)
    BY <1>4, <1>5, <1>6 DEF Served, Whole
  <2> QED BY <1>1, <1>3, <1>5, <2>1 DEF Served, Upstream, Whole, Serves, Body
<1>10. Shown(c)'
  BY <1>1, <1>3, <1>4, NothingShown
<1> QED BY <1>4, <1>7, <1>8, <1>9, <1>10 DEF Keeps, Fit

LEMMA DropTaskKeeps ==
  ASSUME ImageInv, NEW c \in Conns, DropTask(c)
  PROVE  Keeps(c)
<1>1. /\ pool!InPool(c) /\ ~pool!InPool(c)' /\ UNCHANGED <<conn, map>> /\ Moves(c)
  <2>1. pool!Answer(c) /\ pool!InPool(c) /\ UNCHANGED <<conn, cacheVars>>
    BY DEF DropTask, pool!Abandon, pool!Answer, pool!InPool
  <2> QED BY <2>1, AnswerEffect, DropTaskMoves DEF ImageInv, ConnInv, TypeOK, cacheVars
<1>2. Painting(c)
  BY <1>1, WhichStage DEF ImageInv, ConnInv
<1>3. conn[c].at \in {"idle", "close"} /\ conn[c].op = {} /\ conn[c].sent = <<>>
  BY <1>1, <1>2 DEF Painting
<1>4. StreamsKept(c) /\ stream'[Out(c)] = stream[Out(c)]
  <2>1. /\ stream[conn[c].page] \in StreamsOver(Bytes)
        /\ Size(stream[conn[c].page]) \in Nat
    BY <1>2, StreamNames DEF Painting, ImageInv, ConnInv, TypeOK, Size, StreamsOver
  <2>2. ToItsEnd(stream[conn[c].page]).data = stream[conn[c].page].data
    BY <2>1, ReadType DEF ToItsEnd
  <2>3. stream' = [stream EXCEPT ![conn[c].page] = ToItsEnd(stream[conn[c].page])]
    BY DEF DropTask
  <2> QED BY <1>2, <2>2, <2>3, PageMoved
<1>5. /\ conn[c].image \in Images(c) /\ conn[c].page \in Images(c)
      /\ conn[c].content \in Contents(c)
  BY <1>4 DEF Images, Contents, ImageInv, Private
<1> QED BY <1>1, <1>3, <1>4, <1>5, EndKeeps

LEMMA PutImageKeeps ==
  ASSUME ImageInv, NEW c \in Conns, PutImage(c)
  PROVE  Keeps(c)
<1>1. /\ Loading(c) /\ conn[c].at = "put" /\ conn[c] \in Connections /\ Moves(c) /\ OutOnly(c)
      /\ Known(c) /\ Served(c) /\ Shown(c)
  BY WhichStage, PutImageMoves DEF ImageInv, ConnInv, TypeOK, PutImage, Fit
<1>2. /\ ~pool!InPool(c) /\ ~pool!InPool(c)' /\ conn[c].sent = <<>> /\ conn[c].started
      /\ conn[c].op = {} /\ conn[c].image \in Sources /\ conn[c].page = conn[c].image
      /\ conn[c].image_path \in Paths
  BY <1>1 DEF PutImage, Loading, poolVars, pool!InPool
<1>3. Whole(stream[conn[c].image], conn[c].image_path)
  BY <1>1 DEF Served
<1>4. StreamsKept(c) /\ stream'[conn[c].image] = stream[conn[c].image]
  <2>1. \A s \in Sources : stream'[s] = stream[s]
    BY StreamNames DEF PutImage, ImageInv, ConnInv, TypeOK
  <2> QED BY <1>2, <2>1, StreamNames DEF StreamsKept
<1>5. /\ conn[c].image # NoStream
      /\ \A k \in Paths : map'[k] = map[k] \/ (k = conn[c].image_path /\ map'[k] = conn[c].image)
  BY <1>2, StreamNames
     DEF PutImage, cache!Put, cache!PutTimedOut, cache!cacheVars, ImageInv, ConnInv, TypeOK,
         cache!CacheTypeOK
<1>6. \A k \in Paths : \/ map'[k] = map[k]
                       \/ /\ map'[k] = conn[c].image /\ map'[k] # NoStream
                          /\ Whole(stream'[map'[k]], k)
  BY <1>3, <1>4, <1>5
<1>7. CASE /\ UNCHANGED stream
           /\ Become(c, SendResponse([conn[c] EXCEPT !.image = NoStream,
                                                    !.at = AfterSendPage(conn[c])], 200, 0))
  <2>1. PICK g : g = [conn[c] EXCEPT !.image = NoStream, !.at = AfterSendPage(conn[c])]
    OBVIOUS
  <2>2. /\ g \in Connections /\ g.op = {} /\ g.at \in {"idle", "close"}
        /\ g.image = NoStream /\ g.page = conn[c].page
        /\ g.content = conn[c].content
    <3>1. AfterSendPage(conn[c]) \in {"idle", "close"}
      BY DEF AfterSendPage
    <3> QED BY <1>1, <1>2, <2>1, <3>1 DEF Connections, Positions
  <2>3. PICK q \in Connections :
           /\ q = SendResponse(g, 200, 0) /\ Kept(q, g)
           /\ q.op = g.op \cup {"write_response"} /\ q.image \in {NoStream, g.image}
    BY <2>2, ResponseFields
  <2>4. conn'[c] = q
    BY <1>7, <2>1, <2>3, Becomes DEF ImageInv, ConnInv, TypeOK
  <2>5. /\ q.op = {"write_response"} /\ q.at \in {"idle", "close"}
        /\ q.image = NoStream /\ q.page = conn[c].page /\ q.content = conn[c].content
    BY <2>2, <2>3 DEF Kept
  <2>6. /\ conn'[c].op \subseteq {"write_response"} /\ conn'[c].at \in {"idle", "close"}
        /\ conn'[c].image = NoStream \/ conn'[c].op = {}
        /\ conn'[c].image \in Images(c) /\ conn'[c].page \in Images(c)
        /\ conn'[c].content \in Contents(c)
    BY <2>4, <2>5 DEF Images, Contents
  <2> QED BY <1>1, <1>2, <1>4, <1>6, <1>7, <2>6, EndKeeps
<1>8. CASE /\ Become(c, [conn[c] EXCEPT !.image = Out(c), !.at = "add"])
           /\ stream' = [stream EXCEPT ![Out(c)] = EmptyStream]
  <2>1. PICK q : q = [conn[c] EXCEPT !.image = Out(c), !.at = "add"]
    OBVIOUS
  <2>2. /\ q \in Connections /\ q.started /\ q.op = {} /\ q.at = "add" /\ q.sent = <<>>
        /\ q.image = Out(c) /\ q.page = conn[c].page /\ q.image_path = conn[c].image_path
        /\ q.content = conn[c].content
    BY <1>1, <1>2, <2>1, StreamNames DEF Connections, Positions
  <2>3. conn'[c] = q
    BY <1>8, <2>1, <2>2, Becomes DEF ImageInv, ConnInv, TypeOK
  <2>4. ~Quiet(c)' /\ ~Unshared(c)' /\ Waiting(c)' /\ ~Waiting(c)
    BY <1>1, <1>2, <2>2, <2>3 DEF Quiet, Unshared, Fetching, Waiting
  <2>5. Refers(c)
    BY <1>6, <2>2, <2>3, <2>4 DEF Refers, Images, Contents
  <2>6. Known(c)'
    <3>1. CASE conn[c].content = Source(c)
      <4>1. conn[c].page = Source(c)
        BY <1>1, <1>2, <3>1, StreamNames DEF Loading
      <4> QED BY <2>2, <2>3, <3>1, <4>1 DEF Known
    <3>2. CASE conn[c].content = NoStream /\ conn[c].page # Source(c)
      BY <2>2, <2>3, <3>2 DEF Known
    <3> QED BY <1>1, <3>1, <3>2 DEF Known
  <2>7. Served(c)'
    <3>1. Whole(stream'[q.page], q.image_path)
      BY <1>2, <1>3, <1>4, <2>2
    <3>2. q.op \cap Upstream = {} /\ q.op \cap {"resolve", "connect", "write_request"} = {}
          /\ "read_response" \notin q.op /\ q.at \notin {"load", "put"}
      BY <2>2
    <3> QED BY <2>3, <2>4, <3>1, <3>2 DEF Served, Whole, Serves, Body
  <2>8. Shown(c)'
    <3>1. stream[Out(c)].data = <<>>
      BY <1>1, <1>2 DEF Shown
    <3>2. stream'[Out(c)].data = <<>>
      BY <1>8, StreamNames DEF EmptyStream, ImageInv, ConnInv, TypeOK
    <3> QED BY <1>2, <2>2, <2>3, <3>1, <3>2, NothingShown
  <2> QED BY <1>4, <2>5, <2>6, <2>7, <2>8 DEF Keeps, Fit
<1>9. CASE UNCHANGED stream /\ Become(c, [conn[c] EXCEPT !.at = "idle", !.lost = TRUE])
  <2>1. PICK q : q = [conn[c] EXCEPT !.at = "idle", !.lost = TRUE]
    OBVIOUS
  <2>2. /\ q \in Connections /\ q.op = {} /\ q.at = "idle"
        /\ q.image = conn[c].image /\ q.page = conn[c].page /\ q.content = conn[c].content
    BY <1>1, <1>2, <2>1 DEF Connections, Positions
  <2>3. conn'[c] = q
    BY <1>9, <2>1, <2>2, Becomes DEF ImageInv, ConnInv, TypeOK
  <2>4. q.image \in Images(c) /\ q.page \in Images(c) /\ q.content \in Contents(c)
    BY <2>2 DEF Images, Contents
  <2> QED BY <1>1, <1>2, <1>4, <1>6, <1>9, <2>2, <2>3, <2>4, EndKeeps
<1> QED BY <1>7, <1>8, <1>9 DEF PutImage

(* The answer is being written, or was.                                    *)
LEMMA AnswerKeeps ==
  ASSUME ImageInv, NEW c \in Conns, Moves(c), conn'[c].op \subseteq {"write_response"},
         conn'[c].at \in {"idle", "close"}, ~pool!InPool(c)',
         conn'[c].image \in Images(c), conn'[c].page \in Images(c),
         conn'[c].content \in Contents(c),
         UNCHANGED map, StreamsKept(c), Shown(c)'
  PROVE  Keeps(c)
<1>1. ~Quiet(c)' /\ ~Unshared(c)' /\ ~Waiting(c)'
  BY DEF Moves, Quiet, Unshared, Fetching, Waiting
<1>2. Refers(c)
  BY <1>1 DEF Refers
<1>3. Known(c)' /\ Served(c)'
  <2>1. conn'[c].at \notin {"load", "put"} /\ conn'[c].op \cap Upstream = {}
        /\ conn'[c].op \cap {"resolve", "connect", "write_request"} = {}
        /\ "read_response" \notin conn'[c].op
    BY DEF Upstream
  <2> QED BY <1>1, <2>1 DEF Known, Served
<1> QED BY <1>2, <1>3 DEF Keeps, Fit

LEMMA FinishTaskKeeps ==
  ASSUME ImageInv, NEW c \in Conns, FinishTask(c)
  PROVE  Keeps(c)
<1>1. ConnInv /\ Moves(c) /\ Served(c) /\ UNCHANGED map
  BY FinishTaskMoves DEF ImageInv, Fit, FinishTask, cacheVars
<1>2. pool!InPool(c) /\ ~pool!InPool(c)' /\ Painting(c) /\ Waiting(c)
  BY <1>1, FinishTaskPaints DEF Waiting
<1>3. PICK n \in 0..OutParts, thrown \in BOOLEAN, q \in Connections :
        \E new : Painted(c, n, new, thrown, q)
  BY <1>1, FinishTaskPaints
<1>4. PICK new : Painted(c, n, new, thrown, q)
  BY <1>3
<1>5. PICK path : path = stream[conn[c].page].data[1][1]
  OBVIOUS
<1>6. path \in Paths /\ Serves(conn[c].image_path, path) /\ DocOf(stream[conn[c].page]) = path
  <2>1. /\ path \in Paths /\ Serves(conn[c].image_path, path)
        /\ stream[conn[c].page].data # <<>> /\ stream[conn[c].page].data = Body(200, path)
    BY <1>1, <1>2, <1>5 DEF Served, Whole
  <2>2. /\ stream[conn[c].page].data \in Seq(Bytes)
    BY <1>1, <1>2, StreamNames DEF Painting, ConnInv, TypeOK, StreamsOver
  <2>3. Len(stream[conn[c].page].data) = BodyParts /\ Len(stream[conn[c].page].data) \in Nat \ {0}
    BY <2>1, <2>2, BodyFacts
  <2>4. stream[conn[c].page].data[1] = <<path, 1>>
    BY <2>1, <2>3, BodyFacts
  <2>5. stream[conn[c].page].data[1][1] = path /\ stream[conn[c].page].data[1][2] = 1
    BY <2>4
  <2> QED BY <2>1, <2>5 DEF DocOf
<1>7. conn'[c] = q
  BY <1>1, <1>4, Becomes DEF Painted, ConnInv, TypeOK
<1>8. /\ conn'[c].op \subseteq {"write_response"} /\ conn'[c].at \in {"idle", "close"}
      /\ conn'[c].image \in Images(c) /\ conn'[c].page \in Images(c)
      /\ conn'[c].image_path = conn[c].image_path /\ conn'[c].content \in Contents(c)
  BY <1>2, <1>4, <1>7 DEF Painted, Kept, Painting, Images, Contents
<1>9. StreamsKept(c)
  <2>1. \A s \in Sources : stream'[s].data = stream[s].data
    BY <1>4, StreamNames DEF Painted, OutOnly
  <2>2. \A s \in Sources \ {conn[c].page} : stream'[s] = stream[s]
    <3>1. PICK x : stream' = [stream EXCEPT ![Out(c)] = x, ![conn[c].page] = ToItsEnd(@)]
      BY DEF FinishTask
    <3> QED BY <3>1, StreamNames DEF ImageInv, ConnInv, TypeOK
  <2> QED BY <2>1, <2>2, StreamNames DEF StreamsKept
<1>10. Shown(c)'
  <2>1. /\ Len(conn'[c].sent) = 1 /\ conn'[c].sent # <<>>
    <3>1. conn'[c].sent = Append(<<>>, StatusLine(q.status_code))
      BY <1>4, <1>7 DEF Painted
    <3> QED BY <3>1
  <2>2. /\ stream'[Out(c)].data = new /\ Len(new) = n /\ n \in Nat
        /\ ~q.torn => \A i \in 1..n : new[i] = <<path, i>>
    BY <1>4, <1>6, ConnectionAssumption DEF Painted
  <2>3. Writing(c)' => stream'[Out(c)].offset = 0
    BY <1>4, <1>7 DEF Painted, Writing
  <2>4. /\ Writing(c)' => /\ stream'[Out(c)].offset = Len(conn'[c].sent) - 1
                          /\ Len(conn'[c].sent) - 1 <= Len(new)
        /\ \A i \in 2..Len(conn'[c].sent) : FALSE
    BY <2>1, <2>2, <2>3
  <2>5. path \in Paths /\ Serves(conn'[c].image_path, path)
    BY <1>6, <1>8
  <2> QED BY <1>7, <2>1, <2>2, <2>4, <2>5 DEF Shown, Serves
<1> QED BY <1>1, <1>2, <1>8, <1>9, <1>10, AnswerKeeps

LEMMA ReadOne ==
  ASSUME NEW S, NEW s \in StreamsOver(S), s.offset < Size(s)
  PROVE  ReadBytes(s, 1) # <<>> /\ AfterRead(s, 1).offset = s.offset + 1
<1>1. s.data \in Seq(S) /\ s.offset \in Nat /\ Size(s) = Len(s.data) /\ Len(s.data) \in Nat
  BY DEF StreamsOver, Size
<1>2. Available(s, 1) = 1
  BY <1>1 DEF Available
<1>3. AfterRead(s, 1).offset = s.offset + 1
  BY <1>2 DEF AfterRead, StreamsOver
<1>4. Len(ReadBytes(s, 1)) = 1
  BY <1>1, <1>2 DEF ReadBytes
<1> QED BY <1>3, <1>4

LEMMA HandleWriteResponseKeeps ==
  ASSUME ImageInv, NEW c \in Conns, HandleWriteResponse(c)
  PROVE  Keeps(c)
<1>1. /\ ConnInv /\ Moves(c) /\ OutOnly(c) /\ Answering(c) /\ conn[c] \in Connections /\ Shown(c)
      /\ "write_response" \in Operations
  <2>1. ConnInv /\ Shown(c)
    BY DEF ImageInv, Fit
  <2>2. Moves(c) /\ OutOnly(c)
    BY <2>1, HandleWriteResponseMoves
  <2> QED BY <2>1, <2>2, WhichStage DEF ConnInv, TypeOK, HandleWriteResponse, Operations
<1>2. /\ conn[c].op = {"write_response"} /\ conn[c].sent # <<>> /\ conn[c].sent \in Seq(Item)
      /\ conn[c].at \in {"idle", "close"} /\ ~pool!InPool(c)' /\ UNCHANGED map
  <2>1. UNCHANGED poolVars /\ UNCHANGED map
    BY DEF HandleWriteResponse, GiveUp, cacheVars
  <2> QED BY <1>1, <2>1 DEF Answering, poolVars, pool!InPool, Connections
<1>4. PICK f : f = Fired(c, "write_response")
  OBVIOUS
<1>5. /\ f \in Connections /\ Kept(f, conn[c]) /\ f.op = {} /\ f.sent = conn[c].sent
      /\ f.image = conn[c].image /\ f.status_code = conn[c].status_code
      /\ f.torn = conn[c].torn
  <2>1. f.torn = conn[c].torn
    BY <1>1, <1>4 DEF Fired, Connections
  <2> QED BY <1>1, <1>2, <1>4, <2>1, FiredKept
<1>3. StreamsKept(c)
  <2>1. CASE UNCHANGED stream
    BY <2>1, StreamsSame
  <2>2. CASE /\ f.status_code = 200 /\ f.image # NoStream
             /\ stream' = [stream EXCEPT ![f.image] = AfterRead(@, 1)]
    <3>1. f.image = Out(c)
      BY <1>1, <1>2, <1>5, <2>2 DEF Answering
    <3>2. \A s \in Sources : stream'[s] = stream[s]
      BY <1>1, <2>2, <3>1, StreamNames DEF ConnInv, TypeOK
    <3> QED BY <3>2, StreamNames DEF StreamsKept
  <2> QED BY <1>4, <2>1, <2>2 DEF HandleWriteResponse, GiveUp
<1>6. ASSUME UNCHANGED stream, NEW q \in Connections, conn'[c] = q, q.op = {}, q.sent = conn[c].sent,
             q.image = conn[c].image, q.page = conn[c].page, q.at = conn[c].at,
             q.image_path = conn[c].image_path, q.torn = conn[c].torn,
             q.content = conn[c].content
      PROVE  Keeps(c)
  <2>1. Shown(c)'
    <3>1. ~Writing(c)'
      BY <1>6 DEF Writing
    <3> QED BY <1>1, <1>6, <3>1 DEF Shown
  <2>2. /\ conn'[c].op \subseteq {"write_response"} /\ conn'[c].at \in {"idle", "close"}
        /\ conn'[c].image \in Images(c) /\ conn'[c].page \in Images(c)
        /\ conn'[c].content \in Contents(c)
    BY <1>2, <1>6 DEF Images, Contents
  <2> QED BY <1>1, <1>2, <1>3, <2>1, <2>2, AnswerKeeps
<1>7. CASE GiveUp(c, f)
  <2>1. PICK q : q = [f EXCEPT !.lost = TRUE]
    OBVIOUS
  <2>2. /\ q \in Connections /\ q.op = {} /\ q.sent = conn[c].sent /\ q.image = conn[c].image
        /\ q.page = conn[c].page /\ q.at = conn[c].at /\ q.image_path = conn[c].image_path
        /\ q.content = conn[c].content /\ q.torn = conn[c].torn
    BY <1>5, <2>1 DEF Connections, Kept
  <2>3. conn'[c] = q /\ UNCHANGED stream
    BY <1>1, <1>7, <2>1, <2>2, Becomes DEF GiveUp, ConnInv, TypeOK
  <2> QED BY <1>6, <2>2, <2>3
<1>8. CASE Become(c, f) /\ UNCHANGED stream
  <2>1. conn'[c] = f
    BY <1>1, <1>5, <1>8, Becomes DEF ConnInv, TypeOK
  <2> QED BY <1>5, <1>6, <1>8, <2>1 DEF Kept
<1> DEFINE bytes == ReadBytes(stream[f.image], 1)
           next == IF bytes = <<>> THEN LastChunk ELSE Chunk(bytes[1])
<1>9. CASE /\ f.status_code = 200 /\ f.image # NoStream
           /\ stream' = [stream EXCEPT ![f.image] = AfterRead(@, 1)]
           /\ Become(c, Begin([DropImageAtEnd(f, bytes) EXCEPT !.sent = Append(@, next)],
                              "write_response"))
  <2>1. f.image = Out(c) /\ Writing(c)
    BY <1>1, <1>2, <1>5, <1>9 DEF Answering, Writing
  <2> DEFINE s == stream[Out(c)]
             m == Len(conn[c].sent)
  <2>2. s \in StreamsOver(Bytes) /\ s.offset = m - 1 /\ m - 1 <= Len(s.data)
        /\ m \in Nat /\ m >= 1 /\ Len(s.data) \in Nat
    <3>1. s \in StreamsOver(Bytes) /\ Len(s.data) \in Nat
      BY <1>1, StreamNames DEF ConnInv, TypeOK, StreamsOver
    <3>2. m \in Nat /\ m >= 1
      BY <1>2
    <3> QED BY <1>1, <2>1, <3>1, <3>2 DEF Shown
  <2>3. /\ bytes # <<>> => s.offset < Len(s.data) /\ bytes[1] = s.data[s.offset + 1]
        /\ AfterRead(s, 1).data = s.data
    <3>1. bytes = ReadBytes(s, 1) /\ Size(s) = Len(s.data) /\ 1 \in Nat
      BY <2>1 DEF Size
    <3> HIDE DEF bytes, s
    <3> QED BY <2>2, <3>1, ReadType
  <2>4. s.offset < Len(s.data) => bytes # <<>> /\ AfterRead(s, 1).offset = s.offset + 1
    BY <2>1, <2>2, ReadOne DEF Size
  <2>5. stream'[Out(c)] = AfterRead(s, 1)
    BY <1>1, <1>9, <2>1, StreamNames DEF ConnInv, TypeOK
  <2>6. next \in Item
    <3>1. CASE bytes = <<>>
      BY <3>1 DEF Item, LastChunk
    <3>2. CASE bytes # <<>>
      <4>1. bytes[1] \in Bytes
        <5>1. s.offset + 1 \in 1..Len(s.data) /\ s.data \in Seq(Bytes)
          BY <2>2, <2>3, <3>2 DEF StreamsOver
        <5> QED BY <2>3, <3>2, <5>1
      <4> HIDE DEF bytes
      <4> QED BY <3>2, <4>1 DEF Item, Chunk
    <3> QED BY <3>1, <3>2
  <2> HIDE DEF next, bytes
  <2>7. PICK g : g = DropImageAtEnd(f, bytes)
    OBVIOUS
  <2>8. /\ g \in Connections /\ Kept(g, f) /\ g.op = {} /\ g.sent = f.sent
        /\ g.image = (IF bytes = <<>> THEN NoStream ELSE f.image)
        /\ g.status_code = f.status_code /\ g.torn = f.torn
    BY <1>5, <2>7 DEF DropImageAtEnd, Kept, Connections
  <2>9. PICK h : h = [g EXCEPT !.sent = Append(@, next)]
    OBVIOUS
  <2>10. /\ h \in Connections /\ Kept(h, g) /\ h.op = {} /\ h.image = g.image
         /\ h.sent = Append(f.sent, next) /\ h.status_code = g.status_code /\ h.torn = g.torn
    <3>1. Append(f.sent, next) \in Seq(Item)
      BY <1>5, <2>6 DEF Connections
    <3> QED BY <2>8, <2>9, <3>1 DEF Connections, Kept
  <2>11. PICK q : q = Begin(h, "write_response")
    OBVIOUS
  <2>12. /\ q \in Connections /\ Kept(q, h) /\ q.op = {"write_response"}
         /\ q.image = h.image /\ q.sent = h.sent /\ q.status_code = h.status_code
         /\ q.torn = h.torn
    BY <1>1, <2>10, <2>11, BeginFields
  <2>13. conn'[c] = q
    BY <1>1, <1>9, <2>7, <2>9, <2>11, <2>12, Becomes DEF ConnInv, TypeOK
  <2>14. /\ q.op \subseteq {"write_response"} /\ q.at \in {"idle", "close"}
         /\ q.image \in Images(c) /\ q.page \in Images(c) /\ q.image_path = conn[c].image_path
         /\ q.content \in Contents(c)
    BY <1>2, <1>5, <2>8, <2>10, <2>12 DEF Kept, Images, Contents
  <2>15. /\ q.sent = Append(conn[c].sent, next) /\ Len(q.sent) = m + 1 /\ q.sent # <<>>
         /\ \A i \in 1..m : q.sent[i] = conn[c].sent[i]
         /\ q.sent[m + 1] = next
    <3>1. q.sent = Append(conn[c].sent, next)
      BY <1>5, <2>10, <2>12
    <3> QED BY <1>2, <2>6, <3>1
  <2>16. Shown(c)'
    <3>1. stream'[Out(c)].data = s.data
      BY <2>3, <2>5
    <3>2. Writing(c)' => bytes # <<>>
      BY <2>8, <2>10, <2>12, <2>13 DEF Writing
    <3>3. Writing(c)' => stream'[Out(c)].offset = m /\ m <= Len(s.data)
      BY <2>2, <2>3, <2>4, <2>5, <3>2
    <3>4. \A i \in 2..m : \/ q.sent[i] = LastChunk /\ i = Len(s.data) + 2
                          \/ i <= Len(s.data) + 1 /\ q.sent[i] = Chunk(s.data[i - 1])
      <4>1. \A i \in 2..m : \/ conn[c].sent[i] = LastChunk /\ i = Len(s.data) + 2
                            \/ i <= Len(s.data) + 1 /\ conn[c].sent[i] = Chunk(s.data[i - 1])
        BY <1>1 DEF Shown
      <4> HIDE DEF s, m
      <4>2. \A i \in 2..m : i \in 1..m
        BY <2>2
      <4>3. \A i \in 2..m : q.sent[i] = conn[c].sent[i]
        BY <2>15, <4>2
      <4> QED BY <4>1, <4>3
    <3>5. \/ next = LastChunk /\ m + 1 = Len(s.data) + 2
          \/ m + 1 <= Len(s.data) + 1 /\ next = Chunk(s.data[(m + 1) - 1])
      <4>1. CASE bytes = <<>>
        <5>1. ~(s.offset < Len(s.data))
          BY <2>4, <4>1
        <5> QED BY <2>2, <4>1, <5>1 DEF next
      <4>2. CASE bytes # <<>>
        <5>1. bytes[1] = s.data[m] /\ m <= Len(s.data)
          BY <2>2, <2>3, <4>2
        <5>2. next = Chunk(s.data[m]) /\ (m + 1) - 1 = m
          BY <2>2, <4>2, <5>1 DEF next
        <5> QED BY <2>2, <5>1, <5>2
      <4> QED BY <4>1, <4>2
    <3>6. \A i \in 2..(m + 1) : \/ q.sent[i] = LastChunk /\ i = Len(s.data) + 2
                                \/ i <= Len(s.data) + 1 /\ q.sent[i] = Chunk(s.data[i - 1])
      <4>1. \A i \in 2..(m + 1) : i \in 2..m \/ i = m + 1
        BY <2>2
      <4> QED BY <2>15, <3>4, <3>5, <4>1
    <3>7. ~q.torn /\ s.data # <<>> =>
            \E x \in Paths : /\ Serves(q.image_path, x)
                             /\ \A i \in 1..Len(s.data) : s.data[i] = <<x, i>>
      BY <1>1, <1>5, <2>8, <2>10, <2>12, <2>14 DEF Shown
    <3>8. Writing(c)' => /\ stream'[Out(c)].offset = Len(q.sent) - 1
                         /\ Len(q.sent) - 1 <= Len(s.data)
      BY <2>2, <2>15, <3>3
    <3> HIDE DEF s, m
    <3> QED BY <2>13, <2>15, <3>1, <3>6, <3>7, <3>8 DEF Shown, Serves
  <2> QED BY <1>1, <1>2, <1>3, <2>13, <2>14, <2>16, AnswerKeeps
<1> QED BY <1>4, <1>7, <1>8, <1>9 DEF HandleWriteResponse

----------------------------------------------------------------------------
(* The invariant.                                                          *)

LEMMA ConnKeeps ==
  ASSUME ImageInv, NEW c \in Conns, Start(c) \/ Handle(c) \/ Continue(c) \/ Work(c)
  PROVE  Keeps(c)
<1>1. Handle(c) => Keeps(c)
  BY ReadRequestKeeps, ReadRequestCompleteKeeps, AskingKeeps, ReadResponseEndsKeeps,
     ReadResponseKeeps, HandleWriteResponseKeeps DEF Handle
<1>2. Continue(c) => Keeps(c)
  BY LoadDocKeeps, PutImageKeeps, CheckPoolKeeps, AddTaskKeeps, CloseSocketKeeps DEF Continue
<1>3. Work(c) => Keeps(c)
  BY BeginTaskKeeps, FinishTaskKeeps, DropTaskKeeps DEF Work
<1> QED BY <1>1, <1>2, <1>3, StartKeeps

(* The connections stay as they are; the pool may have been stopped.       *)
LEMMA StillFit ==
  ASSUME ImageInv, ConnInv', UNCHANGED <<conn, stream, map>>,
         \A d \in Conns : pool!InPool(d)' => pool!InPool(d)
  PROVE  ImageInv'
<1>1. Cached'
  BY DEF ImageInv, Cached, Whole, Serves, Body
<1>2. ASSUME NEW c \in Conns PROVE Private(c)' /\ Fit(c)'
  <2>1. Waiting(c)' => Waiting(c)
    BY DEF Waiting
  <2>2. (Quiet(c)' <=> Quiet(c)) /\ (Writing(c)' <=> Writing(c)) /\ (Unshared(c)' <=> Unshared(c))
    BY DEF Quiet, Writing, Unshared, Fetching
  <2>3. Private(c) /\ Known(c) /\ Served(c) /\ Shown(c)
    BY DEF ImageInv, Fit
  <2>4. Private(c)' /\ Known(c)' /\ Shown(c)'
    BY <2>1, <2>2, <2>3 DEF Private, Known, Shown, Serves
  <2>5. Served(c)'
    <3>1. stream' = stream /\ conn' = conn
      OBVIOUS
    <3> QED BY <2>1, <2>2, <2>3, <3>1 DEF Served
  <2> QED BY <2>4, <2>5 DEF Fit
<1> QED BY <1>1, <1>2 DEF ImageInv

LEMMA ImageStep == ImageInv /\ [Next]_vars => ImageInv'
<1> SUFFICES ASSUME ImageInv, [Next]_vars PROVE ImageInv'
  OBVIOUS
<1>1. ConnInv /\ ConnInv'
  BY ConnStep DEF ImageInv
<1>2. CASE StopPool
  <2>1. UNCHANGED <<conn, stream, map>> /\ \A d \in Conns : pool!InPool(d)' => pool!InPool(d)
    BY <1>1, <1>2, StopEffect DEF StopPool, ConnInv, TypeOK, cacheVars
  <2> QED BY <1>1, <2>1, StillFit
<1>3. ASSUME NEW c \in Conns, Start(c) \/ Handle(c) \/ Continue(c) \/ Work(c)
      PROVE  ImageInv'
  BY <1>1, <1>3, ConnMoves, ConnKeeps, StepKeepsImages
<1>4. CASE UNCHANGED vars
  <2>1. UNCHANGED <<conn, stream, map>> /\ \A d \in Conns : pool!InPool(d)' => pool!InPool(d)
    BY <1>4 DEF vars, pool!InPool
  <2> QED BY <1>1, <2>1, StillFit
<1> QED BY <1>2, <1>3, <1>4 DEF Next

LEMMA ImageInit == Init => ImageInv
<1> SUFFICES ASSUME Init PROVE ImageInv
  OBVIOUS
<1>1. ConnInv
  BY ConnInit
<1>2. Cached
  BY DEF Init, cache!CacheInit, Cached
<1>3. ASSUME NEW c \in Conns PROVE Private(c) /\ Fit(c)
  <2>1. /\ conn[c] = NewConnection /\ \A d \in Conns : conn[d] = NewConnection
        /\ stream[Source(c)] = EmptyStream /\ stream[Out(c)] = EmptyStream
        /\ \A k \in Paths : map[k] = NoStream
    BY StreamNames DEF Init, cache!CacheInit
  <2>2. /\ ~conn[c].started /\ conn[c].op = {} /\ conn[c].at = "idle" /\ conn[c].sent = <<>>
        /\ conn[c].content = NoStream
        /\ \A d \in Conns : conn[d].image = NoStream /\ conn[d].page = NoStream
    BY <2>1 DEF NewConnection
  <2>3. ~Waiting(c) /\ ~Writing(c)
    BY <1>1, <2>2, WhichStage DEF Waiting, Writing, ConnInv, New
  <2>4. Private(c)
    BY <2>1, <2>2, StreamNames DEF Private
  <2>5. Known(c)
    BY <2>2, <2>3 DEF Known
  <2>6. Served(c)
    BY <2>1, <2>2, <2>3 DEF Served, Upstream, Blank, EmptyStream
  <2>7. Shown(c)
    <3>1. stream[Out(c)].data = <<>>
      BY <2>1 DEF EmptyStream
    <3>2. \A i \in 2..Len(conn[c].sent) : FALSE
      BY <2>2
    <3> QED BY <2>3, <3>1, <3>2 DEF Shown
  <2> QED BY <2>4, <2>5, <2>6, <2>7 DEF Fit
<1> QED BY <1>1, <1>2, <1>3 DEF ImageInv

(* ImageInv holds in every state of every Connection, wherever webhdfs     *)
(* redirects to: the streams of a fetch are known to one connection, what  *)
(* is cached and shown is one whole file from its first byte.              *)
THEOREM ImageInvariant == Spec => []ImageInv
<1> QED BY ImageInit, ImageStep, PTL DEF Spec

(* From SendRequest to Put, the stream an image is fetched into is known   *)
(* to its connection alone: neither another connection nor the cache       *)
(* refers to it, and LoadDoc finds it rewound.                             *)
THEOREM FetchedAlone == Spec => []FetchPrivate
<1>1. ImageInv => FetchPrivate
  <2> SUFFICES ASSUME ImageInv, NEW c \in Conns, Fetching(c)
               PROVE  /\ \A d \in Conns \ {c} : conn[c].content \notin {conn[d].image, conn[d].content}
                      /\ \A k \in Paths : map[k] # conn[c].content
                      /\ conn[c].at = "load" /\ conn[c].content = conn[c].image =>
                           stream[conn[c].image].offset = 0
    BY DEF FetchPrivate
  <2>1. conn[c].content = Source(c) /\ Unshared(c) /\ conn[c].content # NoStream
    BY DEF ImageInv, Private, Fetching, Unshared
  <2>2. /\ \A d \in Conns \ {c} : conn[d].image # Source(c)
        /\ \A k \in Paths : map[k] # Source(c)
    BY <2>1 DEF ImageInv, Private
  <2>3. \A d \in Conns \ {c} : conn[d].content # Source(c)
    BY <2>1, StreamNames DEF ImageInv, Private
  <2>4. conn[c].at = "load" => stream[Source(c)].offset = 0
    BY <2>1 DEF ImageInv, Fit, Served
  <2> QED BY <2>1, <2>2, <2>3, <2>4
<1> QED BY <1>1, ImageInvariant, PTL

(* While a page that was made of what its connection fetched waits for the *)
(* pool or is rendered, that connection's parser refers to the stream,     *)
(* whatever becomes of the cache's entry.                                  *)
THEOREM PageAlive == Spec => []PageSourceHeld
<1>1. ImageInv => PageSourceHeld
  <2> SUFFICES ASSUME ImageInv, NEW c \in Conns,
                      conn[c].at \in {"add", "push"} \/ pool!InPool(c),
                      conn[c].page = Source(c)
               PROVE  Held(Source(c))
    BY DEF PageSourceHeld
  <2>1. Known(c) /\ Waiting(c) /\ ~Gone(c)
    BY DEF ImageInv, Fit, Waiting, Gone
  <2>2. conn[c].at # "load"
    BY WhichStage DEF ImageInv, ConnInv, Painting
  <2>3. conn[c].content = Source(c)
    BY <2>1, <2>2 DEF Known
  <2> QED BY <2>1, <2>3 DEF Held
<1> QED BY <1>1, ImageInvariant, PTL

(* Wherever redirects lead, what the cache holds is one file of webhdfs,   *)
(* whole and unchanged: fetched to its end before Put, never written to    *)
(* again, and with no part of a redirect's body in it.                     *)
THEOREM CachesWholeFiles ==
  Spec => [](\A k \in Paths : map[k] # NoStream =>
               \E p \in Paths : stream[map[k]].data = Body(200, p))
<1>1. ImageInv => \A k \in Paths : map[k] # NoStream =>
                    \E p \in Paths : stream[map[k]].data = Body(200, p)
  BY DEF ImageInv, Cached, Whole
<1> QED BY <1>1, ImageInvariant, PTL

(* If webhdfs redirects a request only to the same path, as WebHDFS does   *)
(* from namenode to datanode, then each image is cached under its path.    *)
THEOREM CachesByPath == ASSUME SamePath PROVE Spec => []CacheIntegrity
<1>1. ImageInv => CacheIntegrity
  BY DEF ImageInv, Cached, Whole, Serves, CacheIntegrity
<1> QED BY <1>1, ImageInvariant, PTL

(* And then the client is sent what was rendered for it, from its first    *)
(* chunk, without gaps, whole once the last chunk is sent; and that is the *)
(* file it asked for, whichever connection fetched it, unless others read  *)
(* the image while this page was loaded or rendered.                       *)
THEOREM SendsWhatWasAsked == ASSUME SamePath PROVE Spec => []RightImage
<1>1. ImageInv => RightImage
  <2> SUFFICES ASSUME ImageInv, NEW c \in Conns
               PROVE  LET sent == conn[c].sent
                          out == stream[Out(c)].data
                      IN  /\ \A i \in 2..Len(sent) :
                               \/ sent[i] = LastChunk /\ i = Len(out) + 2
                               \/ i <= Len(out) + 1 /\ sent[i] = Chunk(out[i - 1])
                          /\ ~conn[c].torn =>
                               \A i \in 1..Len(out) : out[i] = <<conn[c].image_path, i>>
    BY DEF RightImage
  <2> DEFINE out == stream[Out(c)].data
  <2>1. Shown(c)
    BY DEF ImageInv, Fit
  <2>2. ~conn[c].torn => \A i \in 1..Len(out) : out[i] = <<conn[c].image_path, i>>
    <3>1. out = <<>> => \A i \in 1..Len(out) : FALSE
      OBVIOUS
    <3>2. ~conn[c].torn /\ out # <<>> =>
            \E p \in Paths : /\ Serves(conn[c].image_path, p)
                             /\ \A i \in 1..Len(out) : out[i] = <<p, i>>
      BY <2>1 DEF Shown
    <3> HIDE DEF out
    <3> QED BY <3>1, <3>2 DEF Serves
  <2> QED BY <2>1, <2>2 DEF Shown
<1> QED BY <1>1, ImageInvariant, PTL

----------------------------------------------------------------------------
(* A connection implements Exchange.                                       *)

Phase(c) == IF ~conn[c].started THEN "new" ELSE IF Gone(c) THEN "closed" ELSE "open"

(* A connection that a step is taken for is not closed, and not new.       *)
LEMMA Active ==
  ASSUME ConnInv, NEW c \in Conns, Handle(c) \/ Continue(c) \/ Work(c)
  PROVE  Phase(c) = "open"
<1>1. conn[c].op # {} \/ conn[c].at # "idle" \/ pool!InPool(c)
  <2>1. Handle(c) => conn[c].op # {}
    BY DEF Handle, ReadRequestFails, ReadRequestInvalid, ReadRequestMore, ReadRequestComplete,
           HandleResolve, HandleConnect, HandleWriteRequest, ReadResponseFails,
           ReadResponseInvalid, ReadResponseEof, ReadResponse, HandleWriteResponse
  <2>2. Continue(c) => conn[c].at # "idle"
    BY DEF Continue, LoadDoc, PutImage, CheckPool, AddTask, CloseSocket
  <2>3. Work(c) => pool!InPool(c)
    BY DEF Work, BeginTask, FinishTask, DropTask, pool!Take, pool!Answer, pool!Abandon,
           pool!InPool, ConnInv, TypeOK, pool!QueueTypeOK
  <2> QED BY <2>1, <2>2, <2>3
<1>2. conn[c].started
  BY <1>1, WhichStage DEF ConnInv, New
<1> QED BY <1>1, <1>2 DEF Phase, Gone

(* Steps that send nothing, and may close connections.                     *)
LEMMA ClosesOnly ==
  ASSUME \A c \in Conns : conn'[c].sent = conn[c].sent,
         \A c \in Conns : Phase(c)' = Phase(c) \/ (Phase(c) = "open" /\ Phase(c)' = "closed")
  PROVE  client!ExchangeNext
<1> DEFINE S == {c \in Conns : Phase(c) = "open" /\ Phase(c)' = "closed"}
<1>1. client!Close
  <2>1. S \in SUBSET Conns /\ \A c \in S : Phase(c) = "open"
    OBVIOUS
  <2>2. \A c \in Conns : Phase(c)' = IF c \in S THEN "closed" ELSE Phase(c)
    OBVIOUS
  <2> HIDE DEF S
  <2> QED BY <2>1, <2>2 DEF client!Close, Phase
<1> QED BY <1>1 DEF client!ExchangeNext

LEMMA OthersSame ==
  ASSUME NEW c \in Conns, Moves(c), Shares(c), NEW d \in Conns \ {c}
  PROVE  Phase(d)' = Phase(d) /\ conn'[d].sent = conn[d].sent
<1>1. conn'[d] = conn[d] /\ (pool!InPool(d)' <=> pool!InPool(d))
  BY DEF Moves, Shares
<1> QED BY <1>1 DEF Phase, Gone

LEMMA StepImplements ==
  ASSUME ImageInv, ImageInv', NEW c \in Conns, Moves(c), Shares(c), Phase(c) = "open"
  PROVE  client!ExchangeNext
<1>1. Phase(c)' \in {"open", "closed"} /\ (conn'[c].op # {} => Phase(c)' = "open")
  BY DEF Moves, Phase, Gone
<1>2. /\ \A d \in Conns \ {c} : Phase(d)' = Phase(d) /\ conn'[d].sent = conn[d].sent
  BY OthersSame
<1>3. CASE conn'[c].sent = conn[c].sent
  BY <1>1, <1>2, <1>3, ClosesOnly
<1>4. ASSUME NEW item, conn'[c].sent = Append(conn[c].sent, item), conn'[c].op # {}
      PROVE  client!Send(c, item)
  <2>1. \A d \in Conns : Phase(d)' = Phase(d)
    BY <1>1, <1>2, <1>4
  <2> QED BY <1>2, <1>4, <2>1 DEF client!Send, Phase
<1>5. ASSUME NEW code \in ReplyCodes, conn[c].sent = <<>>, conn'[c].op # {},
             conn'[c].sent = Append(conn[c].sent, StatusLine(code))
      PROVE  client!ExchangeNext
  <2>1. client!Send(c, StatusLine(code))
    BY <1>4, <1>5
  <2>2. client!SendStatus(c)
    BY <1>5, <2>1 DEF client!SendStatus, ReplyCodes
  <2> QED BY <2>2 DEF client!ExchangeNext
<1>6. ASSUME NEW item \in BodyItems, conn[c].sent # <<>>, conn[c].sent[1] = StatusLine(200),
             conn[c].sent[Len(conn[c].sent)].kind # "last", conn'[c].op # {},
             conn'[c].sent = Append(conn[c].sent, item)
      PROVE  client!ExchangeNext
  <2>1. client!Send(c, item)
    BY <1>4, <1>6
  <2>2. conn[c].sent[Len(conn[c].sent)] # LastChunk
    BY <1>6 DEF LastChunk
  <2>3. item \in {Chunk(<<p, i>>) : p \in Paths \cup {NoPath}, i \in 1..OutParts} \cup {LastChunk}
    <3> DEFINE out == stream'[Out(c)].data
               n == Len(conn'[c].sent)
    <3>1. n \in 2..n /\ conn'[c].sent[n] = item
      <4>1. conn[c].sent \in Seq(Item) /\ conn'[c].sent \in Seq(Item)
        BY DEF ImageInv, ConnInv, TypeOK, Connections
      <4> QED BY <1>6, <4>1
    <3>2. Shown(c)' /\ Rendered(c)' /\ out \in Seq(Bytes)
      BY StreamNames DEF ImageInv, Fit, ConnInv, TypeOK, StreamsOver
    <3>3. item = LastChunk \/ (n <= Len(out) + 1 /\ item = Chunk(out[n - 1]))
      BY <3>1, <3>2 DEF Shown
    <3>4. ASSUME n <= Len(out) + 1
          PROVE  \E p \in Paths \cup {NoPath}, i \in 1..OutParts : out[n - 1] = <<p, i>>
      <4>1. n - 1 \in 1..Len(out)
        BY <3>1, <3>2, <3>4
      <4>2. out[n - 1] \in (Paths \cup {NoPath}) \X (1..OutParts)
        BY <3>2, <4>1 DEF Rendered
      <4> HIDE DEF out, n
      <4>3. out[n - 1] = <<out[n - 1][1], out[n - 1][2]>>
        BY <4>2
      <4> QED BY <4>2, <4>3
    <3> HIDE DEF out, n
    <3>5. item = LastChunk \/ \E p \in Paths \cup {NoPath}, i \in 1..OutParts : item = Chunk(<<p, i>>)
      BY <3>3, <3>4
    <3> DEFINE All == {Chunk(<<p, i>>) : p \in Paths \cup {NoPath}, i \in 1..OutParts}
    <3>6. \A p \in Paths \cup {NoPath}, i \in 1..OutParts : Chunk(<<p, i>>) \in All
      OBVIOUS
    <3> HIDE DEF All
    <3>7. item \in All \cup {LastChunk}
      BY <3>5, <3>6
    <3> QED BY <3>7 DEF All
  <2>4. client!SendBody(c)
    BY <1>6, <2>1, <2>2, <2>3 DEF client!SendBody
  <2> QED BY <2>4 DEF client!ExchangeNext
<1> QED BY <1>3, <1>5, <1>6 DEF Moves, Says

LEMMA StartImplements ==
  ASSUME ImageInv, NEW c \in Conns, Start(c), Moves(c), Shares(c)
  PROVE  client!ExchangeNext
<1>1. New(c)
  BY WhichStage DEF Start, ImageInv, ConnInv
<1>2. conn'[c].op = {"read_request"} /\ conn'[c].started /\ conn'[c].sent = conn[c].sent
  BY <1>1 DEF Start, Become, Begin, New, ImageInv, ConnInv, TypeOK, Connections
<1>3. Phase(c) = "new" /\ Phase(c)' = "open"
  BY <1>1, <1>2 DEF Phase, Gone, New
<1>4. \A d \in Conns \ {c} : Phase(d)' = Phase(d) /\ conn'[d].sent = conn[d].sent
  BY OthersSame
<1>5. client!Connect(c)
  BY <1>2, <1>3, <1>4 DEF client!Connect, Phase
<1> QED BY <1>5 DEF client!ExchangeNext

LEMMA NextImplements ==
  ASSUME ImageInv, ImageInv', [Next]_vars
  PROVE  [client!ExchangeNext]_client!exchangeVars
<1>1. CASE StopPool
  <2>1. /\ UNCHANGED conn
        /\ \A d \in Conns : pool!InPool(d)' => pool!InPool(d)
    BY <1>1, StopEffect DEF StopPool, ImageInv, ConnInv, TypeOK
  <2>2. \A c \in Conns : Phase(c)' = Phase(c) \/ (Phase(c) = "open" /\ Phase(c)' = "closed")
    BY <2>1 DEF Phase, Gone
  <2> QED BY <2>1, <2>2, ClosesOnly
<1>2. ASSUME NEW c \in Conns, Start(c) \/ Handle(c) \/ Continue(c) \/ Work(c)
      PROVE  client!ExchangeNext
  <2>1. Moves(c) /\ Shares(c)
    BY <1>2, ConnMoves DEF ImageInv
  <2>2. Start(c) => client!ExchangeNext
    BY <2>1, StartImplements
  <2>3. Handle(c) \/ Continue(c) \/ Work(c) => client!ExchangeNext
    BY <2>1, Active, StepImplements DEF ImageInv
  <2> QED BY <1>2, <2>2, <2>3
<1>3. CASE UNCHANGED vars
  BY <1>3 DEF vars, client!exchangeVars, Gone, pool!InPool
<1> QED BY <1>1, <1>2, <1>3 DEF Next

LEMMA InitImplements == Init => client!ExchangeInit
<1> SUFFICES ASSUME Init PROVE client!ExchangeInit
  OBVIOUS
<1>1. \A c \in Conns : ~conn[c].started /\ conn[c].sent = <<>>
  BY DEF Init, NewConnection
<1> QED BY <1>1 DEF client!ExchangeInit

(* What each client sees is an exchange as Exchange allows it: one status  *)
(* line, after 200 the chunks of one rendering and one last chunk, nothing *)
(* after the end, whatever the other connections, the pool and webhdfs do. *)
THEOREM ImplementsExchange == Spec => RefinesExchange
<1>1. ImageInv /\ ImageInv' /\ [Next]_vars => [client!ExchangeNext]_client!exchangeVars
  BY NextImplements
<1> QED BY <1>1, InitImplements, ImageInvariant, PTL DEF Spec, RefinesExchange, client!ExchangeSpec
=============================================================================
