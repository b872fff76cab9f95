----------------------------- MODULE Rendering -----------------------------
(***************************************************************************)
(* From a page to the bytes on the client's socket: the JpegRenderingDevice *)
(* that a worker makes for a task, libjpeg's destination manager, the      *)
(* output stream, and the chunks in which Connection sends it.             *)
(*                                                                         *)
(* External: the plugin, which sweeps the rows of a page downwards or      *)
(* upwards, each once, paints them and calls Render, or gives up with an   *)
(* exception; and libjpeg, which takes one row at a time, gives out bytes  *)
(* when it likes to, and may report an error in any call; if that error is *)
(* ignored it goes on, with the rows it was given or without.  The k-th    *)
(* byte it gives out is the number k; the bytes of row y of the page have  *)
(* the value y; the page is one pixel wide.                                *)
(***************************************************************************)
EXTENDS Integers, Sequences, SequencesExt

CONSTANTS Heights,        \* heights a viewport may get, 0 for an empty one
          Junk,           \* what memory holds before it is written
          DestSize,       \* sizeof(JpegOutputManager::buffer)
          BufferSize,     \* Connection::buffer
          ChunkOffset, MaxChunkSize,
          Base,           \* of the digits of a chunk's size
          MaxBurst        \* bound: bytes libjpeg gives out in one call

ASSUME RenderingAssumption ==
  /\ DestSize \in Nat \ {0} /\ MaxChunkSize \in Nat \ {0} /\ Base \in Nat \ {0, 1}
  /\ Heights \subseteq Nat /\ Junk \notin Nat

VARIABLES pc,        \* what the worker or the connection does next
          order,     \* "down" or "up": how the plugin sweeps this page
          swept,     \* rows the plugin has asked for
          device,    \* members of the JpegRenderingDevice
          scanline_buf,
          cinfo,     \* jpeg_compress_struct: parameters, rows taken, bytes given out
          jexit,     \* the call whose frame the last setjmp is in
          ignored,   \* history: whether jpeg_error_exit returned to libjpeg
          dest,      \* JpegOutputManager: bytes in the buffer
          out,       \* Task::out, Connection::image
          buffer,    \* Connection::buffer
          status,    \* Connection::status_code, 0 before SendResponse
          wire       \* bytes of the response's body sent to the client

vars == <<pc, order, swept, device, scanline_buf, cinfo, jexit, ignored, dest, out, buffer, status, wire>>
rendering == <<order, swept, device, scanline_buf, cinfo, jexit, ignored, dest>>
response == <<buffer, status, wire>>

B == INSTANCE ByteStream

Height == device.height
CR == -1
LF == -2
JunkOf(n) == [i \in 1..n |-> Junk]

Init ==
  /\ pc = "plugin" /\ order \in {"down", "up"} /\ swept = 0
  /\ device = [height |-> 0, components |-> 3, initialized |-> FALSE,
               write_scanline |-> FALSE, flip |-> FALSE]
  /\ scanline_buf = [data |-> <<>>, size |-> 0]
  /\ cinfo = [components |-> 0, height |-> 0, rows |-> <<>>, bytes |-> 0]
  /\ jexit = "none" /\ ignored = FALSE /\ dest = <<>> /\ out = B!EmptyStream
  /\ buffer = [i \in 0..(BufferSize - 1) |-> Junk]
  /\ status = 0 /\ wire = <<>>
----------------------------------------------------------------------------
(* ScopedBuf<T, 0>::Alloc keeps the memory there is if it is large enough. *)
Alloc(buf, v) == [data |-> IF Len(buf.data) < v THEN JunkOf(v) ELSE buf.data, size |-> v]

(* Mutant: the buffer is given to the stream only when it would overflow,  *)
(* and the byte that found it full is lost.                                *)
EmitByteLate(d, byte) ==
  IF Len(d.buf) = DestSize THEN [buf |-> <<>>, out |-> B!Write(d.out, d.buf)]
  ELSE [d EXCEPT !.buf = Append(@, byte)]

(* libjpeg puts a byte at next_output_byte and calls                       *)
(* method_empty_output_buffer as soon as free_in_buffer is 0.              *)
EmitByte(d, byte) ==
  LET full == Append(d.buf, byte)
  IN  IF Len(full) = DestSize THEN [buf |-> <<>>, out |-> B!Write(d.out, full)]
      ELSE [d EXCEPT !.buf = full]

(* n bytes more of the encoder's output: the manager and the stream then.  *)
Emitted(d, n) ==
  LET Given[k \in Nat] == IF k = 0 THEN d ELSE EmitByte(Given[k - 1], cinfo.bytes + k)
  IN  Given[n]

(* method_term_destination. *)
TermDestination(d) ==
  IF d.buf # <<>> THEN [buf |-> d.buf, out |-> B!Write(d.out, d.buf)] ELSE d

Destination == [buf |-> dest, out |-> out]
Flow(d) == dest' = d.buf /\ out' = d.out

(* The row of input that libjpeg reads at an offset of a buffer. *)
RowAt(buf, offset) == SubSeq(buf.data, offset + 1, offset + cinfo.components)
----------------------------------------------------------------------------
(* The plugin chooses the format and the size before it sweeps. *)
Pixfmt(components) ==
  /\ pc = "plugin" /\ swept = 0
  /\ device' = [device EXCEPT !.components = components]
  /\ UNCHANGED <<pc, order, swept, scanline_buf, cinfo, jexit, ignored, dest, out, response>>

SetViewport(h) ==
  /\ pc = "plugin" /\ swept = 0 /\ ~device.initialized
  /\ device' = IF h < 1 THEN device ELSE [device EXCEPT !.height = h]
  /\ UNCHANGED <<pc, order, swept, scanline_buf, cinfo, jexit, ignored, dest, out, response>>

(* In a call libjpeg reports no error, or some that jpeg_error_exit allows *)
(* as "premature end of file": the message's parameter is 13, or was left  *)
(* to be 13 by whatever was in that memory.                                *)
MayIgnore == ignored' \in {ignored, TRUE}

(* JpegRenderingDevice::Init with a viewport: libjpeg is started, and the  *)
(* bytes of the header go to the buffer.                                   *)
StartCompress(burst) ==
  /\ ~device.initialized /\ Height >= 1 /\ MayIgnore
  /\ cinfo' = [components |-> device.components, height |-> Height, rows |-> <<>>, bytes |-> burst]
  /\ Flow(Emitted([Destination EXCEPT !.buf = <<>>], burst))

(* libjpeg reports an error while Init starts it: jpeg_error_exit jumps to *)
(* jexit, which no setjmp has set.                                         *)
InitFails ==
  /\ pc = "plugin" /\ ~device.initialized /\ Height >= 1
  /\ pc' = "longjmp"
  /\ UNCHANGED <<rendering, out, response>>

NextRow == IF order = "down" THEN swept ELSE Height - 1 - swept
SweepInit == device.initialized \/ Height >= 1

(* Init refuses an empty viewport: the row is dropped. *)
SweepRefused ==
  /\ pc = "plugin" /\ ~SweepInit /\ swept = 0
  /\ swept' = 1 /\ pc' = "give up"
  /\ UNCHANGED <<order, device, scanline_buf, cinfo, jexit, ignored, dest, out, response>>

(* The first call: Init, and a look at the row it is for. *)
SweepFirst(burst) ==
  /\ pc = "plugin" /\ StartCompress(burst)
  /\ LET flip == NextRow # 0
     IN  /\ device' = [device EXCEPT !.initialized = TRUE, !.flip = flip, !.write_scanline = ~flip]
         /\ scanline_buf' = Alloc(scanline_buf, device.components * (IF flip THEN Height ELSE 1))
  /\ pc' = "paint"
  /\ UNCHANGED <<order, swept, jexit, response>>

(* A flipped page is kept in scanline_buf. *)
SweepKept ==
  /\ pc = "plugin" /\ device.initialized /\ swept < Height
  /\ device.flip
  /\ pc' = "paint"
  /\ UNCHANGED <<rendering, out, response>>

(* Mutant: the rows of the page are written as they are asked for. *)
SweepWriteAtOnce(burst) ==
  /\ pc = "plugin" /\ device.initialized /\ swept < Height
  /\ ~device.flip
  /\ jexit' = "SweepScanline" /\ MayIgnore
  /\ scanline_buf' = Alloc([data |-> <<>>, size |-> 0], device.components)
  /\ cinfo' = [cinfo EXCEPT !.rows = Append(@, RowAt(scanline_buf', 0)), !.bytes = @ + burst]
  /\ Flow(Emitted(Destination, burst))
  /\ pc' = "paint"
  /\ UNCHANGED <<order, swept, device, response>>

(* Another row of a page swept downwards: the row painted since the last   *)
(* call is given to libjpeg, before the plugin paints over it.             *)
SweepWrite(burst) ==
  /\ pc = "plugin" /\ device.initialized /\ swept < Height
  /\ ~device.flip /\ device.write_scanline
  /\ scanline_buf' = IF scanline_buf.size # device.components
                     THEN Alloc(scanline_buf, device.components) ELSE scanline_buf
  /\ jexit' = "SweepScanline" /\ MayIgnore
  /\ cinfo' = [cinfo EXCEPT !.rows = Append(@, RowAt(scanline_buf', 0)), !.bytes = @ + burst]
  /\ Flow(Emitted(Destination, burst))
  /\ pc' = "paint"
  /\ UNCHANGED <<order, swept, device, response>>

(* The plugin paints the row it was given memory for. *)
Paint ==
  LET offset == IF device.flip THEN NextRow * device.components ELSE 0
  IN  /\ pc = "paint"
      /\ scanline_buf' = [scanline_buf EXCEPT !.data =
            [i \in 1..Len(@) |-> IF i - offset \in 1..device.components THEN NextRow ELSE @[i]]]
      /\ swept' = swept + 1 /\ pc' = "plugin"
      /\ UNCHANGED <<order, device, cinfo, jexit, ignored, dest, out, response>>

(* libjpeg reports an error for a row, after the setjmp of this very call, *)
(* and jpeg_error_exit jumps.                                              *)
WriteFails ==
  /\ pc = "plugin" /\ device.initialized
  /\ (swept < Height /\ ~device.flip) \/ swept = Height
  /\ jexit' = IF swept < Height THEN "SweepScanline" ELSE "Render"
  /\ pc' = "longjmp"
  /\ UNCHANGED <<order, swept, device, scanline_buf, cinfo, ignored, dest, out, response>>

(* After an error that was ignored libjpeg does not take a row, which      *)
(* SweepScanline, and Render for a kept page, throw as a suspension.       *)
RowRefused ==
  /\ pc = "plugin" /\ device.initialized
  /\ (swept < Height /\ ~device.flip) \/ (swept = Height /\ device.flip)
  /\ jexit' = IF swept < Height THEN "SweepScanline" ELSE "Render"
  /\ ignored' = TRUE /\ pc' = "threw"
  /\ UNCHANGED <<order, swept, device, scanline_buf, cinfo, dest, out, response>>

(* setjmp returns again, and the call throws jpeg_exception. *)
Throw ==
  /\ pc = "longjmp" /\ jexit # "none"
  /\ pc' = "threw"
  /\ UNCHANGED <<rendering, out, response>>

(* The rows that Render writes. *)
LastRows ==
  IF device.flip
  THEN [y \in 1..Height |-> RowAt(scanline_buf, (y - 1) * device.components)]
  ELSE IF Len(cinfo.rows) < cinfo.height THEN <<RowAt(scanline_buf, 0)>> ELSE <<>>

(* JpegRenderingDevice::Render, when every row was swept: the last rows    *)
(* are written, and the compression is finished.                           *)
Finish(rows, burst) ==
  /\ pc = "plugin" /\ device.initialized /\ swept = Height
  /\ jexit' = "Render"
  /\ cinfo' = [cinfo EXCEPT !.rows = @ \o rows, !.bytes = @ + burst]
  /\ Flow(TermDestination(Emitted(Destination, burst)))
  /\ device' = [device EXCEPT !.initialized = FALSE, !.write_scanline = FALSE, !.flip = FALSE]
  /\ pc' = "rendered"
  /\ UNCHANGED <<order, swept, scanline_buf, response>>
RenderPage(burst) == MayIgnore /\ Finish(LastRows, burst)

(* The same, when after an error that was ignored libjpeg does not take    *)
(* the last row of a page swept downwards: Render does not look.           *)
RenderWithoutLast(burst) == ~device.flip /\ ignored' = TRUE /\ Finish(<<>>, burst)

(* The plugin gives up: it returns without Render if nothing could be      *)
(* swept, or throws.                                                       *)
PluginReturns ==
  /\ pc = "give up" /\ pc' = "rendered"
  /\ UNCHANGED <<rendering, out, response>>
PluginThrows ==
  /\ pc \in {"plugin", "paint"} /\ pc' = "threw"
  /\ UNCHANGED <<rendering, out, response>>
----------------------------------------------------------------------------
(* Mutant: the size of the image is not looked at. *)
SendEmptyResponse ==
  /\ pc \in {"rendered", "threw"}
  /\ out' = B!Rewind(out)
  /\ status' = IF pc = "rendered" THEN 200 ELSE 500
  /\ pc' = "write"
  /\ UNCHANGED <<rendering, buffer, wire>>

(* WorkerThread: SendResponse(200) after Render, 500 after an exception;   *)
(* an image without bytes is an error as well.                             *)
SendResponse ==
  /\ pc \in {"rendered", "threw"}
  /\ out' = B!Rewind(out)
  /\ status' = IF pc = "rendered" /\ B!Size(out) > 0 THEN 200 ELSE 500
  /\ pc' = "write"
  /\ UNCHANGED <<rendering, buffer, wire>>

(* %x *)
Digits[n \in Nat] == IF n < Base THEN <<n>> ELSE Append(Digits[n \div Base], n % Base)

(* connection.h: the longest line of a size fits before the data of a      *)
(* chunk, and the end of a line fits behind the longest data.              *)
ASSUME ChunkAssumption ==
  /\ ChunkOffset \in Nat /\ Len(Digits[MaxChunkSize]) + 2 <= ChunkOffset
  /\ BufferSize \in Nat /\ ChunkOffset + MaxChunkSize + 2 <= BufferSize

Put(buf, at, bytes) == [i \in DOMAIN buf |-> IF i - at + 1 \in 1..Len(bytes) THEN bytes[i - at + 1] ELSE buf[i]]

(* The buffer and the slice of it that BuildChunk returns. *)
BuildChunk(buf, size) ==
  LET line == Digits[size] \o <<CR, LF>>
      built == Put(Put(buf, ChunkOffset - Len(line), line), ChunkOffset + size, <<CR, LF>>)
  IN  [buffer |-> built, first |-> ChunkOffset - Len(line), last |-> ChunkOffset + size + 1]

(* handle_write_response: the next chunk; the one without data is the last. *)
HandleWriteResponse ==
  /\ pc = "write" /\ status = 200
  /\ LET data == B!ReadBytes(out, MaxChunkSize)
         chunk == BuildChunk(Put(buffer, ChunkOffset, data), Len(data))
     IN  /\ out' = B!AfterRead(out, MaxChunkSize)
         /\ buffer' = chunk.buffer
         /\ wire' = wire \o [i \in 1..(chunk.last - chunk.first + 1) |-> chunk.buffer[chunk.first + i - 1]]
         /\ pc' = IF data = <<>> THEN "sent" ELSE "write"
  /\ UNCHANGED <<rendering, status>>

(* The client is gone, or the response had no body. *)
EndResponse ==
  /\ pc = "write" /\ pc' = "closed"
  /\ UNCHANGED <<rendering, out, response>>

Next ==
  \/ \E c \in {1, 3} : Pixfmt(c)
  \/ \E h \in Heights : SetViewport(h)
  \/ \E burst \in 0..MaxBurst :
       SweepFirst(burst) \/ SweepWrite(burst) \/ RenderPage(burst) \/ RenderWithoutLast(burst)
  \/ InitFails \/ SweepRefused \/ SweepKept \/ Paint \/ WriteFails \/ RowRefused \/ Throw
  \/ PluginReturns \/ PluginThrows
  \/ SendResponse \/ HandleWriteResponse \/ EndResponse

Spec == Init /\ [][Next]_vars
----------------------------------------------------------------------------
Page(h, components) == [y \in 1..h |-> [i \in 1..components |-> y - 1]]

(* What libjpeg has been given is the page from the top down, every row    *)
(* once and as it was painted, though a row is written only when the next  *)
(* one is asked for, or when the page is done, into memory that is reused. *)
RowsInOrder == IsPrefix(cinfo.rows, Page(cinfo.height, cinfo.components))

(* A chunked body as a client reads it.  A chunk is a line with its size,  *)
(* that many bytes, and the end of a line; it is complete at a place of    *)
(* what was received when the line ends at `end' and all of it is there.   *)
Number(digits) ==
  LET Value[k \in 0..Len(digits)] == IF k = 0 THEN 0 ELSE Value[k - 1] * Base + digits[k]
  IN  Value[Len(digits)]
SizeAt(w, at, end) == Number(SubSeq(w, at, end - 1))
LineEnd(w, i) == i < Len(w) /\ w[i] = CR /\ w[i + 1] = LF
ChunkAt(w, at, end) ==
  /\ at < end /\ \A i \in at..(end - 1) : w[i] \in 0..(Base - 1)
  /\ LineEnd(w, end) /\ LineEnd(w, end + 2 + SizeAt(w, at, end))

(* The chunk after those read so far; the one without data is the last.    *)
NothingRead == [at |-> 1, data |-> <<>>, open |-> TRUE]
AfterChunk(w, r, end) ==
  LET size == SizeAt(w, r.at, end)
  IN  [at |-> end + size + 4, data |-> r.data \o SubSeq(w, end + 2, end + 1 + size), open |-> size # 0]
NextChunk(w, r) ==
  LET ends == {end \in r.at..Len(w) : r.open /\ ChunkAt(w, r.at, end)}
  IN  IF ends = {} THEN r ELSE AfterChunk(w, r, CHOOSE end \in ends : TRUE)

(* There are no more chunks than bytes. *)
Dechunk(w) ==
  LET Read[k \in Nat] == IF k = 0 THEN NothingRead ELSE NextChunk(w, Read[k - 1])
  IN  Read[Len(w)]

(* A response 200 that was sent to its end is one whole image: it decodes  *)
(* to every byte that libjpeg gave out, in order, from start to finish,    *)
(* with nothing behind the last chunk, and the image has all the rows of   *)
(* its page, unless jpeg_error_exit has ignored an error.                  *)
WholeImageSent ==
  pc = "sent" =>
    /\ Dechunk(wire) = [at |-> Len(wire) + 1, data |-> [k \in 1..cinfo.bytes |-> k], open |-> FALSE]
    /\ ignored \/ Len(cinfo.rows) = cinfo.height

(* The body of a response exists only for a page that was rendered to its  *)
(* end: after an exception, from the plugin or from an error of libjpeg in *)
(* any call, or without one byte of image, nothing but the status 500 is   *)
(* sent, whatever the output stream holds by then.  An image of which a    *)
(* row is missing is sent only after an error that jpeg_error_exit has     *)
(* kept from everybody.                                                    *)
BodyOnlyOfRendered ==
  wire # <<>> =>
    /\ status = 200 /\ jexit = "Render" /\ cinfo.bytes > 0
    /\ ignored \/ Len(cinfo.rows) = cinfo.height

(* jpeg_compressor_stuff.h: "setjmp in Init && each call of SweepScanline". *)
(* An error that libjpeg reports is thrown by the call it happens in.      *)
ErrorExitArmed == pc = "longjmp" => jexit # "none"
=============================================================================
