----------------------------- MODULE Connection -----------------------------
(***************************************************************************)
(* connection.h, connection.cpp: the connections of the proxy, composed    *)
(* with the ImageCache and the task pool they share.                       *)
(*                                                                         *)
(* A connection reads one request, fetches the image from webhdfs unless   *)
(* the cache has it, loads it as a document, has page 0 rendered by the    *)
(* task pool, and writes the rendering to the client in chunks.  It is     *)
(* driven by completion handlers: each handler runs in some io thread, and *)
(* is one step here, except SendPage, whose calls to the objects shared    *)
(* between connections (an image, the cache, the pool) are a step each.    *)
(*                                                                         *)
(* What is abstracted.  A message is a sequence of fragments: HeaderFrags  *)
(* of header, then, in a response, BodyParts parts of body and one         *)
(* fragment that ends it; a read delivers one or more of them.  A byte of  *)
(* an image is a pair <<path, i>>, the i-th part of the file at path.  The *)
(* webhdfs host and port, the page's size and the texts of the messages    *)
(* are left out.                                                           *)
(***************************************************************************)
EXTENDS Integers, Sequences, FiniteSets, ByteStream

CONSTANTS
  Conns,          \* the Connection objects, one per accepted client
  Paths,          \* request paths of at least two characters
  NoPath,         \* no path, or one that is too short
  Favicon,        \* "/favicon.ico"
  Pictures,       \* paths of files that load as a document with a page
  Pageless,       \* paths of files that load, but have no page 0
  Requests,       \* the requests clients make, see RequestSpace
  Redirects,      \* the paths webhdfs may redirect a request for a path to
  UpstreamCodes,  \* status codes webhdfs answers with
  NoStream,       \* the null shared_ptr<IOStream>
  HeaderFrags, BodyParts,   \* fragments of a message, see above
  OutParts,       \* most chunks a rendering takes
  MaxEndpoints,   \* most endpoints the resolver returns
  MaxRedirects,   \* bound: redirects one request goes through
  NumThreads,     \* worker threads of the task pool
  items_cap       \* capacity given to the image cache

(* What GetQuery makes of a request's URL, unless it throws, and the       *)
(* method.                                                                 *)
RequestSpace ==
  [get : BOOLEAN, path : Paths \cup {NoPath}, json : BOOLEAN, throws : BOOLEAN]

ASSUME ConnectionAssumption ==
  /\ Requests \subseteq RequestSpace
  /\ NoPath \notin Paths /\ Favicon \in Paths
  /\ Pictures \subseteq Paths /\ Pageless \subseteq Paths \ Pictures
  /\ Redirects \in [Paths -> SUBSET Paths]
  /\ UpstreamCodes \subseteq Nat
  /\ HeaderFrags \in Nat \ {0} /\ BodyParts \in Nat /\ OutParts \in Nat
  /\ MaxEndpoints \in Nat \ {0} /\ MaxRedirects \in Nat
  /\ NumThreads \in Nat \ {0} /\ items_cap \in Nat

(* The streams a connection creates: one to fetch the image into, one for  *)
(* the rendering.                                                          *)
Source(c) == <<"source", c>>
Out(c) == <<"out", c>>
Streams == {"source", "out"} \X Conns

ASSUME StreamAssumption == NoStream \notin Streams

VARIABLES
  conn,           \* the members of each connection, a record
  stream,         \* contents of the DynamicMemoryStreams
  map, queue,     \* the image cache
  tasks, rendering, exit_requested, running   \* the task pool

cache == INSTANCE ImageCache
           WITH Keys <- Paths, Images <- Streams, NoImage <- NoStream
pool == INSTANCE RenderQueue WITH Tasks <- Conns

cacheVars == <<map, queue>>
poolVars == <<tasks, rendering, exit_requested, running>>
vars == <<conn, stream, map, queue, tasks, rendering, exit_requested, running>>
----------------------------------------------------------------------------
RedirectCodes == {301, 302, 303, 307}
NoCode == -1

(* Asynchronous operations; a pending one holds a shared_ptr to its        *)
(* connection, and all but "resolve" and "connect" use its one buffer.     *)
Operations == {"read_request", "resolve", "connect", "write_request",
               "read_response", "write_response"}

(* Where an io thread is between two steps of a handler. *)
Positions == {"idle", "load", "put", "add", "push", "close"}

NewConnection ==
  [ started      |-> FALSE,       \* Start was called
    op           |-> {},          \* pending operations
    at           |-> "idle",      \* where its handler is
    received     |-> 0,           \* fragments the parser was fed
    code         |-> NoCode,      \* parser.status_code
    content      |-> NoStream,    \* parser.content, once it is an image
    image        |-> NoStream,
    webhdfs_path |-> NoPath,
    image_path   |-> NoPath,
    json         |-> FALSE,       \* query.json
    status_code  |-> NoCode,
    page         |-> NoStream,    \* the image LoadDoc made its page of
    torn         |-> FALSE,       \* history: it read the image disturbed
    endpoints    |-> 0,           \* endpoints still to be tried
    open         |-> FALSE,       \* webhdfs_socket is open
    hops         |-> 0,           \* redirects followed, for the bound
    lost         |-> FALSE,       \* history: a handler gave up silently
    sent         |-> <<>> ]       \* history: what was written to the client

Init ==
  /\ conn = [c \in Conns |-> NewConnection]
  /\ stream = [s \in Streams |-> EmptyStream]
  /\ cache!CacheInit
  /\ tasks = <<>> /\ rendering = {} /\ exit_requested = FALSE
  /\ running = TRUE   \* Server::Run calls Init before it starts io threads
----------------------------------------------------------------------------
Fired(c, name) == [conn[c] EXCEPT !.op = @ \ {name}]
Begin(r, name) == [r EXCEPT !.op = @ \cup {name}]
Become(c, r) == conn' = [conn EXCEPT ![c] = r]

StatusLine(code) == [kind |-> "status", value |-> code]
Chunk(bytes) == [kind |-> "chunk", value |-> bytes]
LastChunk == [kind |-> "last", value |-> <<>>]

(* A handler that starts no operation, or that an exception leaves, which  *)
(* ThreadEntryPoint catches: if nothing else refers to the connection, it  *)
(* is destroyed, and the client sees it closed.                            *)
GiveUp(c, r) ==
  /\ Become(c, [r EXCEPT !.lost = TRUE])
  /\ UNCHANGED <<stream, cacheVars, poolVars>>

(* SendResponse(code), where size is the image's.  The answer 200 to a     *)
(* request for pixels needs a non-empty image to send after the header;    *)
(* any other answer drops the image.                                       *)
SendResponse(r, code, size) ==
  LET pixels == code = 200 /\ ~r.json
      final == IF pixels /\ (r.image = NoStream \/ size = 0) THEN 500 ELSE code
  IN  Begin([r EXCEPT !.image = IF pixels THEN @ ELSE NoStream,
                      !.status_code = final,
                      !.sent = Append(@, StatusLine(final))],
            "write_response")

Refuse(r, code) == SendResponse(r, code, 0)

(* SendRequest(p): answer from the cache, or ask webhdfs.  str is the      *)
(* streams as the caller leaves them.  The image exists already when       *)
(* webhdfs redirected the request; it is rewound, not cleared.             *)
SendRequest(c, r, p, str) ==
  \/ /\ p = Favicon
     /\ Become(c, Refuse(r, 404))
     /\ stream' = str
  \/ /\ p # Favicon /\ r.image = NoStream
     /\ \E hit \in cache!Get(p) :
          LET image == IF hit = NoStream THEN Source(c) ELSE hit
              q == [r EXCEPT !.webhdfs_path = p, !.image_path = p, !.image = image]
          IN  /\ Become(c, IF hit = NoStream
                           THEN Begin([q EXCEPT !.content = image], "resolve")
                           ELSE [q EXCEPT !.at = "load"])
              /\ stream' = [str EXCEPT ![image] = Rewind(@)]
  \/ /\ p # Favicon /\ r.image # NoStream
     /\ Become(c, Begin([r EXCEPT !.webhdfs_path = p, !.content = r.image], "resolve"))
     /\ stream' = [str EXCEPT ![r.image] = Rewind(@)]

(* What follows SendPage in the handler that called it:                    *)
(* handle_read_webhdfs_response closes webhdfs_socket.                     *)
AfterSendPage(r) == IF r.open THEN "close" ELSE "idle"
----------------------------------------------------------------------------
(* Server::handle_accept calls Start. *)
Start(c) ==
  /\ ~conn[c].started
  /\ Become(c, Begin([conn[c] EXCEPT !.started = TRUE], "read_request"))
  /\ UNCHANGED <<stream, cacheVars, poolVars>>

(* handle_read_request, by the outcome of the read.  A malformed request   *)
(* and one that ends before its header does are answered 400.              *)
ReadRequestFails(c) ==
  /\ "read_request" \in conn[c].op
  /\ GiveUp(c, Fired(c, "read_request"))

(* Mutant: an invalid request is not answered. *)
ReadRequestInvalidIgnored(c) ==
  /\ "read_request" \in conn[c].op
  /\ Become(c, Fired(c, "read_request"))
  /\ UNCHANGED <<stream, cacheVars, poolVars>>

ReadRequestInvalid(c) ==
  /\ "read_request" \in conn[c].op
  /\ Become(c, Refuse(Fired(c, "read_request"), 400))
  /\ UNCHANGED <<stream, cacheVars, poolVars>>

ReadRequestMore(c) ==
  /\ "read_request" \in conn[c].op
  /\ \E n \in 1..(HeaderFrags - conn[c].received - 1) :
       Become(c, Begin([Fired(c, "read_request") EXCEPT !.received = @ + n], "read_request"))
  /\ UNCHANGED <<stream, cacheVars, poolVars>>

(* GetQuery comes first, and may throw.                                    *)
ReadRequestComplete(c) ==
  /\ "read_request" \in conn[c].op
  /\ \E q \in Requests :
       LET r == [Fired(c, "read_request") EXCEPT !.received = HeaderFrags, !.json = q.json]
       IN  \/ q.throws /\ GiveUp(c, [r EXCEPT !.json = FALSE])
           \/ /\ ~q.throws /\ (~q.get \/ q.path = NoPath)
              /\ Become(c, Refuse(r, 400)) /\ UNCHANGED stream
           \/ /\ ~q.throws /\ q.get /\ q.path # NoPath
              /\ SendRequest(c, [r EXCEPT !.webhdfs_path = q.path], q.path, stream)
  /\ UNCHANGED <<cacheVars, poolVars>>

(* handle_resolve: connect to the first of the endpoints found. *)
HandleResolve(c) ==
  /\ "resolve" \in conn[c].op
  /\ \/ GiveUp(c, Fired(c, "resolve"))
     \/ /\ \E n \in 1..MaxEndpoints :
             Become(c, Begin([Fired(c, "resolve") EXCEPT !.endpoints = n - 1,
                                                         !.open = TRUE], "connect"))
        /\ UNCHANGED <<stream, cacheVars, poolVars>>

(* BuildRequest puts the request for webhdfs_path into the buffer, to be   *)
(* written to webhdfs_socket.                                              *)
BuildRequest(r) == Begin(r, "write_request")

(* Mutants: the end of the endpoints is not noticed; a failure to connect  *)
(* has the host resolved again.                                            *)
HandleConnectPastEnd(c) ==
  /\ "connect" \in conn[c].op
  /\ \/ Become(c, BuildRequest(Fired(c, "connect")))
     \/ Become(c, Begin([Fired(c, "connect") EXCEPT !.endpoints = @ - 1], "connect"))
  /\ UNCHANGED <<stream, cacheVars, poolVars>>

HandleConnectResolvesAgain(c) ==
  /\ "connect" \in conn[c].op
  /\ \/ Become(c, BuildRequest(Fired(c, "connect")))
     \/ Become(c, Begin(Fired(c, "connect"), "resolve"))
  /\ UNCHANGED <<stream, cacheVars, poolVars>>

(* handle_connect: send the request, or try the next endpoint. *)
HandleConnect(c) ==
  /\ "connect" \in conn[c].op
  /\ \/ /\ Become(c, BuildRequest(Fired(c, "connect")))
        /\ UNCHANGED <<stream, cacheVars, poolVars>>
     \/ /\ conn[c].endpoints > 0
        /\ Become(c, Begin([Fired(c, "connect") EXCEPT !.endpoints = @ - 1], "connect"))
        /\ UNCHANGED <<stream, cacheVars, poolVars>>
     \/ /\ conn[c].endpoints = 0
        /\ GiveUp(c, Fired(c, "connect"))

(* handle_write_request: reset the parser and wait for the response. *)
HandleWriteRequest(c) ==
  /\ "write_request" \in conn[c].op
  /\ \/ GiveUp(c, Fired(c, "write_request"))
     \/ /\ Become(c, Begin([Fired(c, "write_request") EXCEPT !.received = 0, !.code = NoCode],
                           "read_response"))
        /\ UNCHANGED <<stream, cacheVars, poolVars>>
----------------------------------------------------------------------------
(* The body of a response: the file for 200, else some notice. *)
Body(code, path) ==
  [i \in 1..BodyParts |-> <<IF code = 200 THEN path ELSE NoPath, i>>]

ResponseFrags == HeaderFrags + BodyParts + 1
HeadersComplete(n) == n >= HeaderFrags
MessageComplete(n) == n = ResponseFrags

(* The number of body parts among the first n fragments. *)
BodyRead(n) ==
  IF ~HeadersComplete(n) THEN 0 ELSE IF MessageComplete(n) THEN BodyParts ELSE n - HeaderFrags

(* handle_read_webhdfs_response when the read fails, when the parser       *)
(* rejects what was read, and at the end of the stream.                    *)
ReadResponseFails(c) ==
  /\ "read_response" \in conn[c].op
  /\ GiveUp(c, Fired(c, "read_response"))

ReadResponseInvalid(c) ==
  /\ "read_response" \in conn[c].op
  /\ Become(c, Refuse(Fired(c, "read_response"), 500))
  /\ UNCHANGED <<stream, cacheVars, poolVars>>

ReadResponseEof(c) ==
  /\ "read_response" \in conn[c].op
  /\ Become(c, [Refuse(Fired(c, "read_response"), 500) EXCEPT
                  !.at = IF HeadersComplete(conn[c].received) THEN "close" ELSE "idle"])
  /\ UNCHANGED <<stream, cacheVars, poolVars>>

(* The paths SetLocation may find in a redirect; the query is left out,    *)
(* and so is the prefix of the webhdfs REST interface.                     *)
Locations(r) == Redirects[r.webhdfs_path]

(* Mutants of what follows: the socket is closed after SendRequest; the    *)
(* answer does not end the reading; SendPage is called for what there is;  *)
(* SendPage does not rewind; reading goes on under SendPage.               *)
RedirectedClosesLast(c, r, str) ==
  /\ r.code \in RedirectCodes
  /\ \E p \in Locations(r) :
       SendRequest(c, [r EXCEPT !.webhdfs_path = p, !.hops = @ + 1, !.at = "close"], p, str)

RejectedReadsOn(c, r, str) ==
  /\ r.code \notin RedirectCodes /\ r.code # 200
  /\ Become(c, Begin(Refuse(r, r.code), "read_response"))
  /\ stream' = str

FetchedEarly(c, r, str) ==
  /\ r.code = 200
  /\ Become(c, [r EXCEPT !.at = "load"])
  /\ stream' = [str EXCEPT ![r.image] = Rewind(@)]

FetchedNotRewound(c, r, str) ==
  /\ r.code = 200 /\ MessageComplete(r.received)
  /\ Become(c, [r EXCEPT !.at = "load"])
  /\ stream' = str

FetchedReadsOn(c, r, str) ==
  /\ r.code = 200 /\ MessageComplete(r.received)
  /\ Become(c, Begin([r EXCEPT !.at = "load"], "read_response"))
  /\ stream' = [str EXCEPT ![r.image] = Rewind(@)]

(* handle_read_webhdfs_response with n new fragments, which the parser     *)
(* writes to its content as far as they are body.  r is the connection and *)
(* str are the streams after Parse; the disjuncts below are the handler's  *)
(* branches.                                                               *)
Redirected(c, r, str) ==
  /\ r.code \in RedirectCodes
  /\ \/ /\ Become(c, Refuse(r, 500))     \* no Location, or not a usable one
        /\ stream' = str
     \/ \E p \in Locations(r) :
          SendRequest(c, [r EXCEPT !.webhdfs_path = p, !.open = FALSE, !.hops = @ + 1], p, str)

Rejected(c, r, str) ==
  /\ r.code \notin RedirectCodes /\ r.code # 200
  /\ Become(c, [Refuse(r, r.code) EXCEPT !.at = "close"])
  /\ stream' = str

Fetched(c, r, str) ==
  /\ r.code = 200 /\ MessageComplete(r.received)
  /\ Become(c, [r EXCEPT !.at = "load"])
  /\ stream' = [str EXCEPT ![r.image] = Rewind(@)]

Unfinished(c, r, str) ==
  /\ r.code = 200 /\ ~MessageComplete(r.received)
  /\ Become(c, Begin(r, "read_response"))
  /\ stream' = str

ReadResponse(c) ==
  /\ "read_response" \in conn[c].op
  /\ \E n \in 1..(ResponseFrags - conn[c].received) :
     \E code \in IF HeadersComplete(conn[c].received) THEN {conn[c].code} ELSE UpstreamCodes :
       LET before == conn[c].received
           r == [Fired(c, "read_response") EXCEPT !.received = before + n, !.code = code]
           new == SubSeq(Body(code, r.webhdfs_path), BodyRead(before) + 1, BodyRead(before + n))
           str == [stream EXCEPT ![r.content] = Write(@, new)]
       IN  IF ~HeadersComplete(before + n)
           THEN /\ Become(c, Begin([r EXCEPT !.code = NoCode], "read_response"))
                /\ UNCHANGED stream
           ELSE /\ code \in RedirectCodes => r.hops < MaxRedirects
                /\ \/ Redirected(c, r, str)
                   \/ Rejected(c, r, str)
                   \/ Fetched(c, r, str)
                   \/ Unfinished(c, r, str)
  /\ UNCHANGED <<cacheVars, poolVars>>
----------------------------------------------------------------------------
(* An image is read at one position, which is the same for all that read   *)
(* it: the documents being loaded from it, and the pages made of it, which *)
(* keep its raw pointer and are rendered by the workers.  Whoever reads    *)
(* begins at the beginning and leaves the position at the end.  So c, when *)
(* done, has read what is there if it finds the position as it was when it *)
(* began, and nobody else still reading.                                   *)
ReadsAlone(c, image) ==
  /\ stream[image].offset = 0
  /\ \A d \in Conns \ {c} :
       /\ ~(conn[d].at = "load" /\ conn[d].image = image)
       /\ ~(d \in rendering /\ conn[d].page = image)

ToItsEnd(s) == AfterRead(s, Size(s))

Gone(c) ==
  conn[c].started /\ conn[c].op = {} /\ conn[c].at = "idle" /\ ~pool!InPool(c)

(* A shared_ptr refers to the stream. *)
Held(s) ==
  \/ \E c \in Conns : ~Gone(c) /\ s \in {conn[c].content, conn[c].image}
  \/ \E k \in Paths : map[k] = s

(* What a file begins with: the path of the file, or no document. *)
DocOf(s) == IF s.data # <<>> /\ s.data[1][2] = 1 THEN s.data[1][1] ELSE NoPath

(* SendPage, after Seek: LoadDoc reads the image, and GetPage makes a page *)
(* of it.  plcl loads what begins like a document, cut off or not.  If     *)
(* others moved the position, anything may come of it, and a plugin may    *)
(* throw at whatever it reads; CloseSocket is not called then, but the     *)
(* connection's destructor closes the socket.                              *)
LoadDoc(c) ==
  LET r == conn[c]
      doc == DocOf(stream[r.image])
      torn == ~ReadsAlone(c, r.image)
  IN  /\ r.at = "load"
      /\ stream' = [stream EXCEPT ![r.image] = ToItsEnd(@)]
      /\ \/ /\ doc \in Pictures \/ torn
            /\ Become(c, [r EXCEPT !.at = "put", !.page = r.image, !.torn = torn])
         \/ /\ doc \in Pageless \/ torn
            /\ Become(c, [r EXCEPT !.at = AfterSendPage(r), !.lost = TRUE])
         \/ /\ doc \notin Pictures \cup Pageless \/ torn
            /\ Become(c, [Refuse(r, 500) EXCEPT !.at = AfterSendPage(r)])
         \/ Become(c, [r EXCEPT !.at = "idle", !.lost = TRUE])
      /\ UNCHANGED <<cacheVars, poolVars>>

(* SendPage: cache the image; describe the page, or fit it and make room   *)
(* for its rendering.  The page may throw when it is asked for its size or *)
(* given one.                                                              *)
PutImage(c) ==
  LET r == conn[c]
  IN  /\ r.at = "put"
      /\ cache!Put(r.image_path, r.image) \/ cache!PutTimedOut
      /\ \/ /\ r.json
            /\ Become(c, SendResponse([r EXCEPT !.image = NoStream, !.at = AfterSendPage(r)],
                                      200, 0))
            /\ UNCHANGED stream
         \/ /\ ~r.json
            /\ Become(c, [r EXCEPT !.image = Out(c), !.at = "add"])
            /\ stream' = [stream EXCEPT ![Out(c)] = EmptyStream]
         \/ /\ Become(c, [r EXCEPT !.at = "idle", !.lost = TRUE])
            /\ UNCHANGED stream
      /\ UNCHANGED poolVars

(* SendPage: hand connection, page and image to the pool.  AddTask tests   *)
(* threads.empty() before it locks the queue ...                           *)
CheckPool(c) ==
  /\ conn[c].at = "add"
  /\ \/ running /\ Become(c, [conn[c] EXCEPT !.at = "push"]) /\ UNCHANGED poolVars
     \/ pool!Refuse /\ Become(c, Refuse([conn[c] EXCEPT !.at = AfterSendPage(conn[c])], 500))
  /\ UNCHANGED <<stream, cacheVars>>

(* Mutant: the parser lets go of the image. *)
AddTaskDropsContent(c) ==
  /\ conn[c].at = "push"
  /\ pool!Accept(c)
  /\ Become(c, [conn[c] EXCEPT !.at = AfterSendPage(conn[c]), !.content = NoStream])
  /\ UNCHANGED <<stream, cacheVars>>

(* ... and pushes the task whatever has become of the pool by then. *)
AddTask(c) ==
  /\ conn[c].at = "push"
  /\ pool!Accept(c)
  /\ Become(c, [conn[c] EXCEPT !.at = AfterSendPage(conn[c])])
  /\ UNCHANGED <<stream, cacheVars>>

(* The end of handle_read_webhdfs_response.  A worker, or the handler of   *)
(* the response's write, may be at work on the same connection.            *)
CloseSocket(c) ==
  /\ conn[c].at = "close"
  /\ Become(c, [conn[c] EXCEPT !.at = "idle", !.open = FALSE])
  /\ UNCHANGED <<stream, cacheVars, poolVars>>
----------------------------------------------------------------------------
(* TaskPool::WorkerThread, seen from a connection.  The page goes back to  *)
(* the beginning of its image.                                             *)
BeginTask(c) ==
  /\ pool!Take(c)
  /\ stream' = [stream EXCEPT ![conn[c].page] = Rewind(@)]
  /\ UNCHANGED <<conn, cacheVars>>

(* SendResponse(200) goes back to the beginning of the rendering. *)
FromTheStart(out, thrown) == IF thrown THEN out ELSE Rewind(out)

(* The page is rendered into "out" - n chunks of it, fewer or none if      *)
(* Render throws - and the worker calls SendResponse.  It is the page of   *)
(* something else (NoPath) if others moved the position meanwhile, when    *)
(* the page was loaded or now, or if the image was destroyed.              *)
FinishTask(c) ==
  LET r == conn[c]
      torn == r.torn \/ ~ReadsAlone(c, r.page) \/ ~Held(r.page)
  IN  /\ pool!Answer(c)
      /\ \E n \in 0..OutParts, thrown \in BOOLEAN,
            p \in {DocOf(stream[r.page])} \cup (IF torn THEN {NoPath} ELSE {}) :
           LET out == Write(stream[Out(c)], [i \in 1..n |-> <<p, i>>])
           IN  /\ stream' = [stream EXCEPT ![Out(c)] = FromTheStart(out, thrown),
                                           ![r.page] = ToItsEnd(@)]
               /\ Become(c, SendResponse([r EXCEPT !.torn = torn],
                                         IF thrown THEN 500 ELSE 200, Size(out)))
      /\ UNCHANGED cacheVars

(* The worker finds after rendering that it has to exit. *)
DropTask(c) ==
  /\ pool!Abandon(c)
  /\ stream' = [stream EXCEPT ![conn[c].page] = ToItsEnd(@)]
  /\ UNCHANGED <<conn, cacheVars>>

(* Server::Run: task_pool->Stop(true). *)
StopPool ==
  /\ pool!Stop \/ pool!Discard \/ pool!Join
  /\ UNCHANGED <<conn, stream, cacheVars>>

(* The image is let go when there is no more of it to read. *)
KeepImage(r, bytes) == r   \* mutant
DropImageAtEnd(r, bytes) == [r EXCEPT !.image = IF bytes = <<>> THEN NoStream ELSE @]

(* handle_write_response: after a header or a chunk, the next chunk; after *)
(* the last one, or an answer without image, nothing.                      *)
HandleWriteResponse(c) ==
  LET r == Fired(c, "write_response")
      bytes == ReadBytes(stream[r.image], 1)
      next == IF bytes = <<>> THEN LastChunk ELSE Chunk(bytes[1])
  IN  /\ "write_response" \in conn[c].op
      /\ \/ GiveUp(c, r)
         \/ /\ ~(r.status_code = 200 /\ r.image # NoStream)
            /\ Become(c, r)
            /\ UNCHANGED <<stream, cacheVars, poolVars>>
         \/ /\ r.status_code = 200 /\ r.image # NoStream
            /\ stream' = [stream EXCEPT ![r.image] = AfterRead(@, 1)]
            /\ Become(c, Begin([DropImageAtEnd(r, bytes) EXCEPT !.sent = Append(@, next)],
                               "write_response"))
            /\ UNCHANGED <<cacheVars, poolVars>>
----------------------------------------------------------------------------
(* A completion handler of c ... *)
Handle(c) ==
  \/ ReadRequestFails(c) \/ ReadRequestInvalid(c)
  \/ ReadRequestMore(c) \/ ReadRequestComplete(c)
  \/ HandleResolve(c) \/ HandleConnect(c) \/ HandleWriteRequest(c)
  \/ ReadResponseFails(c) \/ ReadResponseInvalid(c)
  \/ ReadResponseEof(c) \/ ReadResponse(c)
  \/ HandleWriteResponse(c)

(* ... the rest of one that is under way ... *)
Continue(c) == LoadDoc(c) \/ PutImage(c) \/ CheckPool(c) \/ AddTask(c) \/ CloseSocket(c)

(* ... and what a worker does for c. *)
Work(c) == BeginTask(c) \/ FinishTask(c) \/ DropTask(c)

Next ==
  \/ StopPool
  \/ \E c \in Conns : Start(c) \/ Handle(c) \/ Continue(c) \/ Work(c)

(* Threads that can run do run.  That every pending operation completes is *)
(* an assumption about the network: the code sets no timeout of its own.   *)
Fairness ==
  \A c \in Conns : WF_vars(Handle(c)) /\ WF_vars(Continue(c)) /\ WF_vars(Work(c))

Spec == Init /\ [][Next]_vars /\ Fairness
----------------------------------------------------------------------------
Bytes == (Paths \cup {NoPath}) \X Nat
Item ==
  [kind : {"status"}, value : Nat] \cup [kind : {"chunk"}, value : Bytes] \cup {LastChunk}

Connections ==
  [ started : BOOLEAN, op : SUBSET Operations, at : Positions,
    received : Nat, code : Nat \cup {NoCode},
    content : Streams \cup {NoStream}, image : Streams \cup {NoStream},
    webhdfs_path : Paths \cup {NoPath}, image_path : Paths \cup {NoPath},
    json : BOOLEAN, status_code : Nat \cup {NoCode}, page : Streams \cup {NoStream}, torn : BOOLEAN,
    endpoints : Nat, open : BOOLEAN, hops : Nat, lost : BOOLEAN, sent : Seq(Item) ]

(* The values the variables may have. *)
TypeOK ==
  /\ conn \in [Conns -> Connections]
  /\ stream \in [Streams -> StreamsOver(Bytes)]
  /\ cache!CacheTypeOK
  /\ pool!QueueTypeOK

(* What keeps a connection alive and may use its buffer: a pending         *)
(* operation, a handler inside SendPage, a queued task, a worker.          *)
InSendPage(c) == conn[c].at \in {"load", "put", "add", "push"}

(* One owner: at any time at most one of these is at work on a connection, *)
(* and it is in the task queue at most once.  (No strand is used; several  *)
(* io threads and the workers run concurrently.)                           *)
SingleOwner ==
  \A c \in Conns :
    /\ \A o, p \in conn[c].op : o = p
    /\ InSendPage(c) => conn[c].op = {}
    /\ pool!InPool(c) => conn[c].op = {} /\ ~InSendPage(c)
    /\ c \in rendering => \A i \in 1..Len(tasks) : tasks[i] # c
    /\ \A i, j \in 1..Len(tasks) : tasks[i] = c /\ tasks[j] = c => i = j

(* The client sees one response: a status line, then chunks and one last   *)
(* chunk only after the status 200.                                        *)
OneResponse ==
  \A c \in Conns : \A i \in 1..Len(conn[c].sent) :
    LET item == conn[c].sent[i]
    IN  /\ item.kind = "status" <=> i = 1
        /\ item.kind = "last" => i = Len(conn[c].sent)
        /\ i > 1 => conn[c].sent[1] = StatusLine(200) /\ ~conn[c].json

(* The chunks after the status line are, in order and without gaps, what   *)
(* was rendered for this client, whole once the last chunk is sent; and it *)
(* is the page of the file that was asked for, whichever connection        *)
(* fetched it, if the page was loaded and rendered while nobody else read  *)
(* its image.  (Else it may be anything: the position is shared.)          *)
RightImage ==
  \A c \in Conns :
    LET sent == conn[c].sent
        out == stream[Out(c)].data
    IN  /\ \A i \in 2..Len(sent) :
             \/ sent[i] = LastChunk /\ i = Len(out) + 2
             \/ i <= Len(out) + 1 /\ sent[i] = Chunk(out[i - 1])
        /\ ~conn[c].torn => \A i \in 1..Len(out) : out[i] = <<conn[c].image_path, i>>

(* Only images that were fetched to their end get into the cache, each     *)
(* under the path it was requested by; nothing changes them afterwards.    *)
CacheIntegrity ==
  \A k \in Paths : map[k] # NoStream => stream[map[k]].data = Body(200, k)

(* From SendRequest to the Put that makes the image public. *)
Fetching(c) ==
  /\ conn[c].content # NoStream
  /\ \/ conn[c].op \cap {"resolve", "connect", "write_request", "read_response"} # {}
     \/ conn[c].at \in {"load", "put"}

(* While an image is being fetched and loaded, and until it is put in the  *)
(* cache, only the connection that fetches it knows it; so LoadDoc reads   *)
(* it from its first byte, whatever the other connections do.              *)
FetchPrivate ==
  \A c \in Conns : Fetching(c) =>
    /\ \A d \in Conns \ {c} : conn[c].content \notin {conn[d].image, conn[d].content}
    /\ \A k \in Paths : map[k] # conn[c].content
    /\ conn[c].at = "load" /\ conn[c].content = conn[c].image => stream[conn[c].image].offset = 0

(* The page that is rendered refers to its image by the raw pointer that   *)
(* LoadDoc was given, and SendPage lets go of the image.  If the image was *)
(* fetched for this page, somebody still refers to it: its connection's    *)
(* parser.content does, also when the image never came into the cache or   *)
(* another one took its place there.  (Nothing does that for a hit.)       *)
PageSourceHeld ==
  \A c \in Conns : conn[c].at \in {"add", "push"} \/ pool!InPool(c) =>
    (conn[c].page = Source(c) => Held(Source(c)))

(* A read from webhdfs is pending only on an open socket; in particular    *)
(* CloseSocket does not close the socket of a later request.               *)
UpstreamOpen ==
  \A c \in Conns :
    /\ conn[c].op \cap {"connect", "write_request", "read_response"} # {} => conn[c].open
    /\ conn[c].at = "close" => conn[c].op \subseteq {"write_response"}

(* A connection that ends without a status line met a transport failure, a *)
(* document without page 0 or an exception - of GetQuery or of a plugin -  *)
(* or the pool was stopped with its page.                                  *)
Answered ==
  \A c \in Conns : Gone(c) /\ conn[c].sent = <<>> =>
    conn[c].lost \/ (exit_requested /\ conn[c].page # NoStream)

client == INSTANCE Exchange
            WITH Clients <- Conns, OK <- StatusLine(200),
                 StatusLines <- {StatusLine(code) : code \in {200, 400, 404, 500} \cup UpstreamCodes},
                 Chunks <- {Chunk(<<p, i>>) : p \in Paths \cup {NoPath}, i \in 1..OutParts},
                 phase <- [c \in Conns |-> IF ~conn[c].started THEN "new"
                                           ELSE IF Gone(c) THEN "closed" ELSE "open"],
                 reply <- [c \in Conns |-> conn[c].sent]

(* Each client sees an exchange as Exchange allows it. *)
RefinesExchange == client!ExchangeSpec

(* Every connection comes to its end, if the network does its part and the *)
(* server is not stopped.                                                  *)
Ends == \A c \in Conns : conn[c].started ~> (Gone(c) \/ exit_requested)

(* DynamicMemoryStream supports "only sequential write access": what the   *)
(* parser writes to its content is never refused.                          *)
SequentialWrites ==
  \A c \in Conns : "read_response" \in conn[c].op => AtEnd(stream[conn[c].content])
============================================================================
