----------------------------- MODULE ByteStream -----------------------------
(***************************************************************************)
(* The cpcl::IOStream that DynamicMemoryStream implements, as its users    *)
(* see it: a sequence of bytes, whose length is p_size, and one position,  *)
(* p_offset, shared by everyone who reads or writes the object.            *)
(***************************************************************************)
EXTENDS Naturals, Sequences

EmptyStream == [data |-> <<>>, offset |-> 0]

StreamsOver(Bytes) == [data : Seq(Bytes), offset : Nat]

Size(s) == Len(s.data)
AtEnd(s) == s.offset = Size(s)

(* Write refuses anything but an append at the end: it warns, returns 0,   *)
(* and the stream is as it was.                                            *)
Write(s, bytes) ==
  IF AtEnd(s)
  THEN [data |-> s.data \o bytes, offset |-> Size(s) + Len(bytes)]
  ELSE s

(* Read(n) returns at most n bytes from the position on, and moves it. *)
Available(s, n) == IF Size(s) - s.offset < n THEN Size(s) - s.offset ELSE n
ReadBytes(s, n) == SubSeq(s.data, s.offset + 1, s.offset + Available(s, n))
AfterRead(s, n) == [s EXCEPT !.offset = @ + Available(s, n)]

(* Seek(position, SEEK_SET): refused beyond the end. *)
Seek(s, position) == IF position <= Size(s) THEN [s EXCEPT !.offset = position] ELSE s
Rewind(s) == Seek(s, 0)
=============================================================================
