---------------------------- MODULE MemoryStream ----------------------------
(***************************************************************************)
(* cpcl/memory_stream.h and .cpp: a stream over memory of a fixed size,    *)
(* which is read and written from p_offset on.  A stream is a record; an   *)
(* operation gives the stream after it, its result, and whether it threw.  *)
(***************************************************************************)
EXTENDS Integers, Sequences

CONSTANT IntMax   \* the largest int32; sizes are uint32, up to 2 * IntMax + 1

(* Assign.  Memory longer than an int32 is cut: & INT_MAX. *)
Assign(p, throw_eof_write) ==
  [p |-> SubSeq(p, 1, Len(p) % (IntMax + 1)), p_offset |-> 0, state |-> TRUE,
   throw_eof_write |-> throw_eof_write]

Size(m) == Len(m.p)
Left(m) == Size(m) - m.p_offset

Result(m, r) == [stream |-> m, r |-> r, threw |-> FALSE]
Thrown(m) == [stream |-> m, r |-> 0, threw |-> TRUE]

(* (p_offset + size) & INT_MAX *)
Target(m, size) == (m.p_offset + size) % (IntMax + 1)

(* Mutant: an offset that wrapped is not noticed. *)
TransferWrapped(m, size) ==
  [wrapped |-> FALSE,
   r |-> (IF Target(m, size) < Size(m) THEN Target(m, size) ELSE Size(m)) - m.p_offset]

(* How many bytes Read or Write moves, unless the offset wraps. *)
Transfer(m, size) ==
  [wrapped |-> Target(m, size) < m.p_offset,
   r |-> (IF Target(m, size) < Size(m) THEN Target(m, size) ELSE Size(m)) - m.p_offset]

Moved(m, r) == IF r > 0 THEN [m EXCEPT !.p_offset = @ + r, !.state = TRUE] ELSE m

Read(m, size) ==
  LET t == Transfer(m, size)
  IN  IF t.wrapped THEN Result([m EXCEPT !.state = FALSE], 0) ELSE Result(Moved(m, t.r), t.r)

(* The bytes that Read copies. *)
ReadBytes(m, size) == SubSeq(m.p, m.p_offset + 1, m.p_offset + Read(m, size).r)

Write(m, bytes, size) ==
  LET t == Transfer(m, size)
      stored == [i \in 1..Size(m) |-> IF i - m.p_offset \in 1..t.r THEN bytes[i - m.p_offset] ELSE m.p[i]]
  IN  IF t.wrapped THEN Result([m EXCEPT !.state = FALSE], 0)
      ELSE IF m.throw_eof_write /\ t.r < size % (IntMax + 1) THEN Thrown(m)
      ELSE Result(Moved([m EXCEPT !.p = stored], t.r), t.r)

(* ReadByte and WriteByte. *)
ReadByte(m) ==
  IF Left(m) < 1 THEN Result([m EXCEPT !.state = FALSE], 0) ELSE Result(Moved(m, 1), 1)
WriteByte(m, v) ==
  LET failed == [m EXCEPT !.state = FALSE]
  IN  IF Left(m) < 1 THEN IF m.throw_eof_write THEN Thrown(failed) ELSE Result(failed, 0)
      ELSE Result(Moved([m EXCEPT !.p[m.p_offset + 1] = v], 1), 1)

(* Seek: positions outside the memory are refused. *)
Origins(m) == {0, m.p_offset, Size(m)}
Seek(m, move_to) == IF move_to \in 0..Size(m) THEN [m EXCEPT !.p_offset = move_to] ELSE m

Clone(m) == [m EXCEPT !.state = TRUE]

(* CopyTo leaves the stream where it is. *)
CopyTo(m, size) == SubSeq(m.p, m.p_offset + 1, m.p_offset + (IF size < Left(m) THEN size ELSE Left(m)))
----------------------------------------------------------------------------
(* Every size a caller can name, of an int32 and beyond it: nothing        *)
(* outside the memory is touched, and no count is negative.  A size beyond *)
(* an int32 counts as what & INT_MAX leaves of it, silently.  If the       *)
(* offset fits an int32 with what is asked for, all of that is moved, or   *)
(* as much as there is, or - written with throw_eof_write - none; if not,  *)
(* nothing is moved, and the state says so.                                *)
TransfersWhole(m) ==
  \A size \in 0..(2 * IntMax + 1) :
    LET read == Read(m, size)
        written == Write(m, [i \in 1..size |-> "w"], size)
        asked == IF size <= IntMax THEN size ELSE size - (IntMax + 1)
        fits == m.p_offset + asked <= IntMax
        all == IF asked < Left(m) THEN asked ELSE Left(m)
    IN  /\ read.r \in 0..Left(m) /\ written.r \in 0..Left(m)
        /\ read.stream.p_offset = m.p_offset + read.r
        /\ written.stream.p_offset = m.p_offset + written.r
        /\ \A i \in 1..Size(m) :
             written.stream.p[i] = IF i - m.p_offset \in 1..written.r THEN "w" ELSE m.p[i]
        /\ fits => /\ read.r = all /\ ReadBytes(m, size) = CopyTo(m, asked)
                   /\ written.r = IF m.throw_eof_write /\ all < asked THEN 0 ELSE all
        /\ ~fits => /\ read.r = 0 /\ ~read.stream.state
                    /\ written.r = 0 /\ ~written.stream.state
=============================================================================
