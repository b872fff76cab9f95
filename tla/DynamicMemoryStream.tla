------------------------ MODULE DynamicMemoryStream ------------------------
(***************************************************************************)
(* cpcl/dynamic_memory_stream.h and .cpp: a stream kept in blocks of N     *)
(* bytes.  Clone makes a stream object with its own p_size and p_offset    *)
(* on the same blocks; Streams are the objects that share one storage.     *)
(*                                                                         *)
(* The byte loops are written as the code runs them, block by block;       *)
(* ByteStream is the reference they are compared with: the variable "view" *)
(* is what each object would be if the clones were independent.            *)
(***************************************************************************)
EXTENDS Integers, Sequences, FiniteSets

CONSTANTS N,          \* block size
          Bytes,      \* values of a byte
          Junk,       \* what a new block holds
          Streams,    \* the first stream object, and its clones
          First,
          MaxSize,    \* bound: bytes in a stream
          MaxData     \* bound: bytes given to one Write

VARIABLES blocks,     \* MemoryStorage::blocks
          object,     \* p_size, p_offset and state of each stream object
          view,       \* history: the streams as ByteStream has them
          writers,    \* history: the objects that wrote
          cleared     \* history: the objects that were cleared

vars == <<blocks, object, view, writers, cleared>>

B == INSTANCE ByteStream

Data == UNION {[1..n -> Bytes] : n \in 0..MaxData}
Lesser(a, b) == IF a < b THEN a ELSE b

NoObject == [live |-> FALSE, p_size |-> 0, p_offset |-> 0, state |-> TRUE]

Init ==
  /\ blocks = <<>>
  /\ object = [s \in Streams |-> [NoObject EXCEPT !.live = (s = First)]]
  /\ view = [s \in Streams |-> B!EmptyStream]
  /\ writers = {} /\ cleared = {}
----------------------------------------------------------------------------
NewBlock == [i \in 1..N |-> Junk]

(* memcpy of data into a block, after its first pad bytes. *)
Overwrite(block, pad, data) ==
  [i \in 1..N |-> IF i - pad \in 1..Len(data) THEN data[i - pad] ELSE block[i]]

(* Mutant: pad is not reset for the second block. *)
FillBlockKeepsPad(p) ==
  LET n == Lesser(N - p.pad, Len(p.left))
  IN  [blocks |-> [p.blocks EXCEPT ![p.at] = Overwrite(@, p.pad, SubSeq(p.left, 1, n))],
       at |-> p.at + 1, pad |-> p.pad, left |-> SubSeq(p.left, n + 1, Len(p.left))]

(* A pass of the loop of MemoryStorage::Write over the blocks there are.   *)
FillBlock(p) ==
  LET n == Lesser(N - p.pad, Len(p.left))
  IN  [blocks |-> [p.blocks EXCEPT ![p.at] = Overwrite(@, p.pad, SubSeq(p.left, 1, n))],
       at |-> p.at + 1, pad |-> 0, left |-> SubSeq(p.left, n + 1, Len(p.left))]

(* A pass of the loop that puts what is left into new blocks.              *)
AddBlock(p) ==
  LET n == Lesser(N, Len(p.left))
  IN  [blocks |-> Append(p.blocks, Overwrite(NewBlock, 0, SubSeq(p.left, 1, n))),
       at |-> p.at + 1, pad |-> 0, left |-> SubSeq(p.left, n + 1, Len(p.left))]

(* The two loops, from p.blocks[p.at] on; each pass stores at least a byte. *)
WritePass(p) ==
  IF p.left = <<>> THEN p ELSE IF p.at > Len(p.blocks) THEN AddBlock(p) ELSE FillBlock(p)
WritePasses(p) ==
  LET After[k \in Nat] == IF k = 0 THEN p ELSE WritePass(After[k - 1]) IN After

(* MemoryStorage::Write at an offset inside the blocks, or just after      *)
(* them; elsewhere it writes nothing.                                      *)
StorageWrite(bs, offset, data) ==
  LET room  == IF Len(bs) * N = offset THEN Append(bs, NewBlock) ELSE bs
      start == [blocks |-> room, at |-> offset \div N + 1, pad |-> offset % N, left |-> data]
  IN  IF start.at > Len(room) THEN bs ELSE WritePasses(start)[Len(data)].blocks

Stored(bs, offset, data) == IF offset <= Len(bs) * N THEN Len(data) ELSE 0

(* Mutant: pad is not reset for the second block. *)
ReadPassKeepsPad(p) ==
  IF p.size = 0 \/ p.at > Len(p.blocks) THEN p
  ELSE LET n == Lesser(N - p.pad, p.size)
           r == Lesser(n, p.room)
       IN  [p EXCEPT !.at = @ + 1, !.size = IF r = n THEN @ - n ELSE 0, !.room = @ - r,
                     !.read = @ \o SubSeq(p.blocks[p.at], p.pad + 1, p.pad + r)]

(* A pass of the loops of MemoryStorage::Read and of CopyTo.  CopyTo gives *)
(* the piece to the output's Write, which takes what it has room for; a    *)
(* write that is cut is the last.                                          *)
ReadPass(p) ==
  IF p.size = 0 \/ p.at > Len(p.blocks) THEN p
  ELSE LET n == Lesser(N - p.pad, p.size)
           r == Lesser(n, p.room)
       IN  [p EXCEPT !.at = @ + 1, !.pad = 0, !.size = IF r = n THEN @ - n ELSE 0, !.room = @ - r,
                     !.read = @ \o SubSeq(p.blocks[p.at], p.pad + 1, p.pad + r)]
ReadPasses(p) ==
  LET After[k \in Nat] == IF k = 0 THEN p ELSE ReadPass(After[k - 1]) IN After

StorageCopy(bs, offset, size, room) ==
  LET start == [blocks |-> bs, at |-> offset \div N + 1, pad |-> offset % N,
                size |-> size, room |-> room, read |-> <<>>]
  IN  ReadPasses(start)[size].read

(* The memory that Read reads to has room for all of it. *)
StorageRead(bs, offset, size) == StorageCopy(bs, offset, size, size)
----------------------------------------------------------------------------
Read(s, size) ==
  LET o == object[s]
      n == Lesser(size, o.p_size - o.p_offset)
      r == IF n > 0 THEN Len(StorageRead(blocks, o.p_offset, n)) ELSE 0
  IN  /\ o.live
      /\ object' = [object EXCEPT ![s].p_offset = @ + r,
                                  ![s].state = IF n > 0 THEN TRUE ELSE @]
      /\ view' = [view EXCEPT ![s] = B!AfterRead(@, size)]
      /\ UNCHANGED <<blocks, writers, cleared>>

WriteRefused(s) ==
  /\ object[s].live /\ object[s].p_size # object[s].p_offset
  /\ object' = [object EXCEPT ![s].state = FALSE]
  /\ UNCHANGED <<blocks, view, writers, cleared>>

Write(s, data) ==
  LET o == object[s]
      r == Stored(blocks, o.p_offset, data)
  IN  /\ o.live /\ o.p_size = o.p_offset
      /\ o.p_size + Len(data) <= MaxSize
      /\ data # <<>>
      /\ blocks' = StorageWrite(blocks, o.p_offset, data)
      /\ object' = [object EXCEPT ![s].p_size = @ + r, ![s].p_offset = o.p_size + r,
                                  ![s].state = TRUE]
      /\ view' = [view EXCEPT ![s] = B!Write(@, data)]
      /\ writers' = writers \cup {s}
      /\ UNCHANGED cleared

(* Seek: origin is 0, p_offset or p_size; positions outside are refused. *)
Seek(s, move_to) ==
  /\ object[s].live
  /\ \E origin \in {0, object[s].p_offset, object[s].p_size} :
       LET position == origin + move_to
       IN  /\ position \in 0..object[s].p_size
           /\ object' = [object EXCEPT ![s].p_offset = position]
           /\ view' = [view EXCEPT ![s] = B!Seek(@, position)]
  /\ UNCHANGED <<blocks, writers, cleared>>

Clone(s, t) ==
  /\ object[s].live /\ ~object[t].live
  /\ object' = [object EXCEPT ![t] = object[s]]
  /\ view' = [view EXCEPT ![t] = view[s]]
  /\ UNCHANGED <<blocks, writers, cleared>>

(* Clear keeps the blocks. *)
Clear(s) ==
  /\ object[s].live
  /\ object' = [object EXCEPT ![s].p_size = 0, ![s].p_offset = 0, ![s].state = TRUE]
  /\ view' = [view EXCEPT ![s] = B!EmptyStream]
  /\ cleared' = cleared \cup {s}
  /\ UNCHANGED <<blocks, writers>>

Next ==
  \E s \in Streams :
    \/ \E size \in 0..MaxData : Read(s, size)
    \/ WriteRefused(s)
    \/ \E data \in Data : Write(s, data)
    \/ \E move_to \in -MaxSize..MaxSize : Seek(s, move_to)
    \/ \E t \in Streams : Clone(s, t)
    \/ Clear(s)

----------------------------------------------------------------------------
Live == {s \in Streams : object[s].live}
Content(s) == StorageRead(blocks, 0, object[s].p_size)

(* What CopyTo(output, size) puts into the output: bytes from p_offset on, *)
(* until they are size, the blocks end, or the output takes no more - of   *)
(* whatever output, "room" is what it takes in all.                        *)
CopyTo(s, size, room) == StorageCopy(blocks, object[s].p_offset, size, room)

(* CopyTo does not look at p_size: asked for more than is left of the      *)
(* stream, it copies what else the blocks hold.  Of such calls nothing is  *)
(* said here.                                                              *)
SameAsView(s) ==
  /\ view[s] = [data |-> Content(s), offset |-> object[s].p_offset]
  /\ \A size \in 0..(object[s].p_size - object[s].p_offset) : \A room \in 0..size :
       CopyTo(s, size, room) = B!ReadBytes(view[s], room)

(* For as long as none of its clones, or the object it was cloned from,    *)
(* has written, what a stream object reads, and copies of what it has      *)
(* left, is what it wrote since it was cleared last, and an output that    *)
(* takes less gets the start of it: block boundaries, rewinding and        *)
(* writing again do not show.                                              *)
ActsAsByteStream == \A s \in Live : writers \subseteq {s} => SameAsView(s)

(* It does not matter to a clone that the object it was made from goes on  *)
(* writing, as the fetch of an image does: while one object only writes,   *)
(* and none is cleared, all of them keep the bytes they had.               *)
ReadersUndisturbed ==
  Cardinality(writers) <= 1 /\ cleared = {} => \A s \in Live : SameAsView(s)
============================================================================
