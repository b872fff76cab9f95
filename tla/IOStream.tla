------------------------------ MODULE IOStream ------------------------------
(***************************************************************************)
(* cpcl/io_stream.cpp: IOStream::CopyTo, a loop of Read and Write, which   *)
(* copies a file stream to a MemoryStream while other streams on the same  *)
(* file are used by other threads.                                         *)
(***************************************************************************)
EXTENDS FileStream

CONSTANTS IntMax, Memories, CopySizes, BufSize

ASSUME CopyAssumption ==
  /\ IntMax \in Nat /\ BufSize \in Nat \ {0} /\ BufSize <= 2 * IntMax + 1
  /\ Memories \subseteq Seq(Bytes) /\ CopySizes \subseteq Nat /\ "w" \in Bytes

VARIABLES
  memory,    \* the MemoryStream
  copy       \* the call of CopyTo: the locals of its loop

M == INSTANCE MemoryStream

NoSource == ""     \* there is no source yet

NoCopy == [pc |-> "none", from |-> NoSource, size |-> 0, total_written |-> 0, buf |-> <<>>,
           asked |-> 0, at |-> 0, seen |-> <<>>]

CopyInit ==
  /\ FilesInit
  /\ \E p \in Memories, throw \in BOOLEAN : memory = M!Assign(p, throw)
  /\ copy = NoCopy
----------------------------------------------------------------------------
(* CopyTo is called.  "asked", "at" and "seen" are kept for the property:  *)
(* the size, the output's position, and what has been read.                *)
CopyTo(s, size) ==
  /\ copy.pc = "none" /\ stream[s].phase = "open"
  /\ copy' = [NoCopy EXCEPT !.pc = "read", !.from = s, !.size = size,
                            !.asked = size, !.at = memory.p_offset]
  /\ UNCHANGED <<files, memory>>

CopyRead ==
  LET s == copy.from
      to_read == IF copy.size < BufSize THEN copy.size ELSE BufSize
  IN  /\ copy.pc = "read"
      /\ \E readed \in 0..to_read, state \in BOOLEAN :
           /\ Read(s, to_read, readed, state)
           /\ copy' = [copy EXCEPT !.pc = IF readed > 0 THEN "write" ELSE "done",
                                   !.buf = BytesAt(stream[s], readed),
                                   !.seen = @ \o BytesAt(stream[s], readed)]
      /\ UNCHANGED memory

(* Mutant: a write that was cut is not the end. *)
CopyWriteGoesOn ==
  LET readed == Len(copy.buf)
      w == M!Write(memory, copy.buf, readed)
  IN  /\ copy.pc = "write"
      /\ memory' = w.stream
      /\ copy' = [copy EXCEPT !.pc = IF w.threw \/ copy.size = readed THEN "done" ELSE "read",
                              !.total_written = @ + w.r, !.size = @ - readed, !.buf = <<>>]
      /\ UNCHANGED files

CopyWrite ==
  LET readed == Len(copy.buf)
      w == M!Write(memory, copy.buf, readed)
  IN  /\ copy.pc = "write"
      /\ memory' = w.stream
      /\ copy' = [copy EXCEPT !.pc = IF w.threw \/ w.r # readed \/ copy.size = readed
                                     THEN "done" ELSE "read",
                              !.total_written = @ + w.r, !.size = @ - readed, !.buf = <<>>]
      /\ UNCHANGED files

SeekMemory == \E origin \in M!Origins(memory), by \in -1..1 : memory' = M!Seek(memory, origin + by)

(* Meanwhile other objects on the same file are used, by other threads. *)
Others(s) ==
  /\ copy.pc \in {"read", "write"} => s # copy.from
  /\ \/ OpenDocument(s) \/ Write(s, "w") \/ WriteFails(s) \/ Size(s)
     \/ \E position \in 0..MaxLength : Seek(s, position)
  /\ UNCHANGED <<memory, copy>>

(* Before a call of CopyTo the output may be moved; after it, it is given  *)
(* memory again.                                                           *)
MoveOutput == copy.pc = "none" /\ SeekMemory /\ UNCHANGED <<files, copy>>
AssignOutput ==
  /\ copy.pc = "done" /\ copy' = NoCopy
  /\ \E p \in Memories : memory' = M!Assign(p, memory.throw_eof_write)
  /\ UNCHANGED files

Copying ==
  \/ \E s \in Streams : Others(s) \/ \E size \in CopySizes : CopyTo(s, size)
  \/ CopyRead \/ CopyWrite \/ MoveOutput \/ AssignOutput

CopySpec == CopyInit /\ [][Copying]_<<files, memory, copy>>
----------------------------------------------------------------------------
(* Whatever short reads, full outputs and other threads make of it, CopyTo *)
(* hands over a contiguous run of the source: what the output holds from   *)
(* where it was is the start of what was read, total_written is its        *)
(* length, at most the size asked for, and all that is left behind is the  *)
(* one buffer that the output did not take.                                *)
CopiedInOrder ==
  LET n == copy.total_written
  IN  copy.pc # "none" =>
        /\ Len(copy.seen) <= copy.asked
        /\ SubSeq(memory.p, copy.at + 1, copy.at + n) = SubSeq(copy.seen, 1, n)
        /\ memory.p_offset = copy.at + n
        /\ Len(copy.seen) - n <= BufSize
        /\ copy.pc = "read" => Len(copy.seen) = n

(* MemoryStream's property, of the memory at hand: it touches nothing      *)
(* else, and moves what it is asked for and has, where a size of 2^31 and  *)
(* more asks for 2^31 less.                                                *)
TransfersWhole == M!TransfersWhole(memory)
=============================================================================
