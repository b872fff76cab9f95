---------------------------- MODULE StreamsProofs ----------------------------
(***************************************************************************)
(* Theorems about the streams of cpcl: a MemoryStream moves what there is, *)
(* a temporary file lives as long as its streams, unless it leaks,         *)
(* IOStream::CopyTo hands over a contiguous run of its source, and the     *)
(* objects of a DynamicMemoryStream read what was written to them.  For    *)
(* any number of streams, files and paths, any buffer, block and memory,   *)
(* and any width of an int.  The behaviours of the files are those of the  *)
(* run (FilesNext) and, as well, reading and writing with any object.      *)
(***************************************************************************)
EXTENDS Streams, FiniteSetTheorems, SequenceTheorems, Iteration

Sizes == 0..(2 * IntMax + 1)

(* Any sequence of calls of one object; Assign gives it memory again. *)
MemoryInit == \E p \in Seq(Bytes), throw \in BOOLEAN : memory = M!Assign(p, throw)

MemoryNext ==
  \/ \E size \in Sizes : memory' = M!Read(memory, size).stream
  \/ \E size \in Sizes : \E bytes \in [1..size -> Bytes] : memory' = M!Write(memory, bytes, size).stream
  \/ memory' = M!ReadByte(memory).stream
  \/ \E v \in Bytes : memory' = M!WriteByte(memory, v).stream
  \/ \E move_to \in Int : memory' = M!Seek(memory, move_to)
  \/ memory' = M!Clone(memory)
  \/ MemoryInit'

MemorySpec == MemoryInit /\ [][MemoryNext]_memory

MemoryType ==
  [p : Seq(Bytes), p_offset : Nat, state : BOOLEAN, throw_eof_write : BOOLEAN]

(* The offset stays within the memory, and the memory within an int32. *)
Within(m) == m \in MemoryType /\ m.p_offset <= M!Size(m) /\ M!Size(m) <= IntMax
-----------------------------------------------------------------------------
(* The arithmetic of & INT_MAX. *)
LEMMA Masked ==
  ASSUME IntMax \in Nat, NEW x \in Nat
  PROVE  /\ x % (IntMax + 1) \in 0..IntMax /\ x % (IntMax + 1) <= x
         /\ x <= IntMax => x % (IntMax + 1) = x
         /\ x > IntMax /\ x <= 2 * IntMax + 1 => x % (IntMax + 1) = x - (IntMax + 1)
         /\ x > 2 * IntMax + 1 /\ x <= 3 * IntMax + 2 => x % (IntMax + 1) = x - 2 * (IntMax + 1)
  OBVIOUS

(* What & INT_MAX leaves of a size. *)
Asked(size) == IF size <= IntMax THEN size ELSE size - (IntMax + 1)

LEMMA AskedSize ==
  ASSUME IntMax \in Nat, NEW size \in Sizes
  PROVE  /\ size \in Nat /\ Asked(size) \in 0..IntMax /\ Asked(size) <= size
         /\ size % (IntMax + 1) = Asked(size)
<1>1. size \in Nat /\ size <= 2 * IntMax + 1
  BY DEF Sizes
<1>2. /\ size <= IntMax => size % (IntMax + 1) = size
      /\ size > IntMax => size % (IntMax + 1) = size - (IntMax + 1)
  BY <1>1, Masked
<1> QED
  BY <1>1, <1>2 DEF Asked

(* The offset after a call, as the code computes it. *)
LEMMA Targeted ==
  ASSUME IntMax \in Nat, NEW o \in 0..IntMax, NEW size \in Sizes, NEW x,
         x = (o + size) % (IntMax + 1)
  PROVE  /\ o + Asked(size) <= IntMax => x = o + Asked(size)
         /\ o + Asked(size) > IntMax => x = o + Asked(size) - (IntMax + 1)
<1>1. PICK y : y = o + size
  OBVIOUS
<1>2. /\ size \in Nat /\ size <= 2 * IntMax + 1 /\ o \in Nat /\ o <= IntMax
      /\ y \in Nat /\ x = y % (IntMax + 1)
  BY <1>1 DEF Sizes
<1>3. /\ y <= IntMax => x = y
      /\ y > IntMax /\ y <= 2 * IntMax + 1 => x = y - (IntMax + 1)
      /\ y > 2 * IntMax + 1 /\ y <= 3 * IntMax + 2 => x = y - 2 * (IntMax + 1)
  BY <1>2, Masked
<1>4. CASE size <= IntMax
  BY <1>1, <1>2, <1>3, <1>4 DEF Asked
<1>5. CASE ~(size <= IntMax)
  BY <1>1, <1>2, <1>3, <1>5 DEF Asked
<1> QED
  BY <1>4, <1>5

(* How much a call moves: what it asks for, or all there is, if the offset *)
(* fits; if it does not, that is noticed.                                  *)
LEMMA Transferred ==
  ASSUME IntMax \in Nat, NEW m, Within(m), NEW size \in Sizes
  PROVE  LET t == M!Transfer(m, size)
         IN  /\ t.wrapped \in BOOLEAN
             /\ ~t.wrapped => t.r \in 0..M!Left(m) /\ t.r <= size
             /\ m.p_offset + Asked(size) <= IntMax =>
                  ~t.wrapped /\ t.r = IF Asked(size) < M!Left(m) THEN Asked(size) ELSE M!Left(m)
             /\ ~(m.p_offset + Asked(size) <= IntMax) => t.wrapped
<1> DEFINE t == M!Transfer(m, size)
<1>1. PICK o : o = m.p_offset
  OBVIOUS
<1>2. PICK n : n = M!Size(m)
  OBVIOUS
<1>3. PICK x : x = M!Target(m, size)
  OBVIOUS
<1>4. o \in Nat /\ n \in Nat /\ o <= n /\ n <= IntMax /\ size \in Nat /\ size <= 2 * IntMax + 1
  BY <1>1, <1>2 DEF Within, MemoryType, M!Size, Sizes
<1>5. PICK a : a = Asked(size)
  OBVIOUS
<1>6. /\ a \in 0..IntMax /\ a <= size
      /\ o + a <= IntMax => x = o + a
      /\ o + a > IntMax => x = o + a - (IntMax + 1)
  <2>1. x = (o + size) % (IntMax + 1) /\ o \in 0..IntMax
    BY <1>1, <1>3, <1>4 DEF M!Target
  <2> QED
    BY <1>5, <2>1, AskedSize, Targeted
<1>7. (t.wrapped <=> x < o) /\ t.wrapped \in BOOLEAN /\ t.r = (IF x < n THEN x ELSE n) - o
  <2>1. t = [wrapped |-> x < o, r |-> (IF x < n THEN x ELSE n) - o]
    BY <1>1, <1>2, <1>3 DEF M!Transfer
  <2>2. (x < o) \in BOOLEAN
    OBVIOUS
  <2>3. t.wrapped = (x < o) /\ t.r = (IF x < n THEN x ELSE n) - o
    BY <2>1
  <2> HIDE DEF t
  <2>4. (t.wrapped <=> x < o) /\ t.wrapped \in BOOLEAN
    BY <2>2, <2>3, Zenon
  <2> QED
    BY <2>3, <2>4
<1>8. M!Left(m) = n - o
  BY <1>1, <1>2 DEF M!Left
<1> HIDE DEF t
<1>9. t.wrapped \in BOOLEAN /\ (t.wrapped <=> x < o)
  BY <1>4, <1>5, <1>7
<1>10. x \in Int /\ x <= o + a /\ (o + a <= IntMax <=> ~(x < o))
  BY <1>4, <1>6
<1>11. ~t.wrapped => t.r \in 0..(n - o) /\ t.r <= size
  BY <1>4, <1>6, <1>7, <1>9, <1>10
<1>12. o + a <= IntMax => ~t.wrapped /\ t.r = IF a < n - o THEN a ELSE n - o
  BY <1>4, <1>6, <1>7, <1>9
<1>13. ~(o + a <= IntMax) => t.wrapped
  BY <1>9, <1>10
<1> QED
  BY <1>1, <1>5, <1>8, <1>9, <1>11, <1>12, <1>13 DEF t

(* The offset moved on within the memory, and memory written over. *)
LEMMA MovedWithin ==
  ASSUME IntMax \in Nat, NEW m, Within(m), NEW r \in 0..M!Left(m)
  PROVE  Within(M!Moved(m, r)) /\ M!Moved(m, r).p_offset = m.p_offset + r /\ M!Moved(m, r).p = m.p
<1>1. r \in Nat /\ m.p_offset \in Nat /\ m.p_offset + r <= M!Size(m) /\ m.p_offset + r \in Nat
  BY DEF Within, MemoryType, M!Left, M!Size
<1>2. CASE r > 0
  <2>1. PICK o : o = M!Moved(m, r)
    OBVIOUS
  <2>2. o = [m EXCEPT !.p_offset = m.p_offset + r, !.state = TRUE]
    BY <1>2, <2>1 DEF M!Moved
  <2>3. o \in MemoryType /\ o.p_offset = m.p_offset + r /\ o.p = m.p
    BY <1>1, <2>2 DEF Within, MemoryType
  <2> QED
    BY <1>1, <2>1, <2>3 DEF Within, M!Size
<1>3. CASE ~(r > 0)
  BY <1>1, <1>3 DEF M!Moved
<1> QED
  BY <1>2, <1>3

LEMMA StoredWithin ==
  ASSUME IntMax \in Nat, NEW m, Within(m), NEW p \in Seq(Bytes), Len(p) = M!Size(m)
  PROVE  /\ Within([m EXCEPT !.p = p]) /\ [m EXCEPT !.p = p].p = p
         /\ [m EXCEPT !.p = p].p_offset = m.p_offset
         /\ M!Left([m EXCEPT !.p = p]) = M!Left(m)
<1>1. PICK o : o = [m EXCEPT !.p = p]
  OBVIOUS
<1>2. o \in MemoryType /\ o.p = p /\ o.p_offset = m.p_offset
  BY <1>1 DEF Within, MemoryType
<1> QED
  BY <1>1, <1>2 DEF Within, M!Size, M!Left

LEMMA StateWithin ==
  ASSUME NEW m, Within(m), NEW state \in BOOLEAN
  PROVE  /\ Within([m EXCEPT !.state = state]) /\ [m EXCEPT !.state = state].p = m.p
         /\ [m EXCEPT !.state = state].p_offset = m.p_offset
         /\ [m EXCEPT !.state = state].state = state
<1>1. PICK o : o = [m EXCEPT !.state = state]
  OBVIOUS
<1>2. o \in MemoryType /\ o.p = m.p /\ o.p_offset = m.p_offset /\ o.state = state
  BY <1>1 DEF Within, MemoryType
<1> QED
  BY <1>1, <1>2 DEF Within, M!Size

(* Read gives no more than is left, and moves the offset by what it gives. *)
LEMMA ReadMoves ==
  ASSUME IntMax \in Nat, NEW m, Within(m), NEW size \in Sizes
  PROVE  /\ M!Read(m, size).r \in 0..M!Left(m) /\ Within(M!Read(m, size).stream)
         /\ M!Read(m, size).stream.p_offset = m.p_offset + M!Read(m, size).r
         /\ m.p_offset + Asked(size) <= IntMax =>
              M!Read(m, size).r = IF Asked(size) < M!Left(m) THEN Asked(size) ELSE M!Left(m)
         /\ ~(m.p_offset + Asked(size) <= IntMax) =>
              M!Read(m, size).r = 0 /\ ~M!Read(m, size).stream.state
<1>1. PICK t : t = M!Transfer(m, size)
  OBVIOUS
<1>2. PICK read : read = M!Read(m, size)
  OBVIOUS
<1>3. /\ t.wrapped \in BOOLEAN
      /\ ~t.wrapped => t.r \in 0..M!Left(m)
      /\ m.p_offset + Asked(size) <= IntMax =>
           ~t.wrapped /\ t.r = IF Asked(size) < M!Left(m) THEN Asked(size) ELSE M!Left(m)
      /\ ~(m.p_offset + Asked(size) <= IntMax) => t.wrapped
  BY <1>1, Transferred
<1>4. m.p_offset \in Nat /\ 0 \in 0..M!Left(m) /\ m.p_offset + 0 = m.p_offset
  BY DEF Within, MemoryType, M!Size, M!Left
<1>5. CASE t.wrapped
  <2>1. PICK f \in BOOLEAN : f = FALSE /\ ~f
    OBVIOUS
  <2>2. read = M!Result([m EXCEPT !.state = f], 0)
    BY <1>1, <1>2, <1>5, <2>1 DEF M!Read
  <2>3. read.r = 0 /\ read.stream = [m EXCEPT !.state = f]
    BY <2>2 DEF M!Result
  <2>4. Within(read.stream) /\ read.stream.p_offset = m.p_offset /\ read.stream.state = f
    BY <2>3, StateWithin
  <2> QED
    BY <1>2, <1>3, <1>4, <1>5, <2>1, <2>3, <2>4
<1>6. CASE ~t.wrapped
  <2>1. read = M!Result(M!Moved(m, t.r), t.r)
    BY <1>1, <1>2, <1>6 DEF M!Read
  <2>2. read.r = t.r /\ read.stream = M!Moved(m, t.r)
    BY <2>1 DEF M!Result
  <2>3. Within(read.stream) /\ read.stream.p_offset = m.p_offset + t.r
    BY <1>3, <1>6, <2>2, MovedWithin
  <2> QED
    BY <1>2, <1>3, <1>6, <2>2, <2>3
<1> QED
  BY <1>3, <1>5, <1>6

WrittenOver(m, bytes, r) ==
  [i \in 1..M!Size(m) |-> IF i - m.p_offset \in 1..r THEN bytes[i - m.p_offset] ELSE m.p[i]]

(* Write stores no more than is left, moves the offset by what it stores,  *)
(* and leaves every other byte alone.                                      *)
LEMMA WriteMoves ==
  ASSUME IntMax \in Nat, NEW m, Within(m), NEW size \in Sizes, NEW bytes
  PROVE  LET w == M!Write(m, bytes, size)
         IN  /\ w.r \in 0..M!Left(m) /\ w.r <= size
             /\ w.stream.p_offset = m.p_offset + w.r
             /\ \A i \in 1..M!Size(m) :
                  w.stream.p[i] = IF i - m.p_offset \in 1..w.r THEN bytes[i - m.p_offset] ELSE m.p[i]
             /\ bytes \in [1..size -> Bytes] => Within(w.stream)
             /\ m.p_offset + Asked(size) <= IntMax =>
                  w.r = IF m.throw_eof_write /\ (IF Asked(size) < M!Left(m) THEN Asked(size) ELSE M!Left(m)) < Asked(size)
                        THEN 0 ELSE IF Asked(size) < M!Left(m) THEN Asked(size) ELSE M!Left(m)
             /\ ~(m.p_offset + Asked(size) <= IntMax) => w.r = 0 /\ ~w.stream.state
<1>1. PICK t : t = M!Transfer(m, size)
  OBVIOUS
<1>2. PICK w : w = M!Write(m, bytes, size)
  OBVIOUS
<1>3. /\ t.wrapped \in BOOLEAN
      /\ ~t.wrapped => t.r \in 0..M!Left(m) /\ t.r <= size
      /\ m.p_offset + Asked(size) <= IntMax =>
           ~t.wrapped /\ t.r = IF Asked(size) < M!Left(m) THEN Asked(size) ELSE M!Left(m)
      /\ ~(m.p_offset + Asked(size) <= IntMax) => t.wrapped
  BY <1>1, Transferred
<1>4. m.p_offset \in Nat /\ 0 \in 0..M!Left(m) /\ m.p_offset + 0 = m.p_offset /\ 1..0 = {} /\ 0 <= size
  BY DEF Within, MemoryType, M!Size, M!Left, Sizes
<1>5. CASE t.wrapped
  <2>1. PICK f \in BOOLEAN : f = FALSE /\ ~f
    OBVIOUS
  <2>2. w = M!Result([m EXCEPT !.state = f], 0)
    BY <1>1, <1>2, <1>5, <2>1 DEF M!Write
  <2>3. w.r = 0 /\ w.stream = [m EXCEPT !.state = f]
    BY <2>2 DEF M!Result
  <2>4. /\ Within(w.stream) /\ w.stream.p_offset = m.p_offset /\ w.stream.p = m.p
        /\ w.stream.state = f
    BY <2>3, StateWithin
  <2> QED
    BY <1>2, <1>3, <1>4, <1>5, <2>1, <2>3, <2>4
<1>6. CASE ~t.wrapped /\ m.throw_eof_write /\ t.r < size % (IntMax + 1)
  <2>1. w = M!Thrown(m)
    BY <1>1, <1>2, <1>6 DEF M!Write
  <2>2. w.r = 0 /\ w.stream = m
    BY <2>1 DEF M!Thrown
  <2>3. size % (IntMax + 1) = Asked(size)
    BY AskedSize
  <2>4. m.p_offset + Asked(size) <= IntMax =>
          m.throw_eof_write /\ (IF Asked(size) < M!Left(m) THEN Asked(size) ELSE M!Left(m)) < Asked(size)
    BY <1>3, <1>6, <2>3
  <2> QED
    BY <1>2, <1>3, <1>4, <1>6, <2>2, <2>4
<1>7. CASE ~t.wrapped /\ ~(m.throw_eof_write /\ t.r < size % (IntMax + 1))
  <2>1. PICK p : p = WrittenOver(m, bytes, t.r)
    OBVIOUS
  <2>2. w = M!Result(M!Moved([m EXCEPT !.p = p], t.r), t.r)
    BY <1>1, <1>2, <1>7, <2>1 DEF M!Write, WrittenOver
  <2>3. w.r = t.r /\ w.stream = M!Moved([m EXCEPT !.p = p], t.r)
    BY <2>2 DEF M!Result
  <2>4. t.r \in 0..M!Left(m)
    BY <1>3, <1>7
  <2>5. w.stream.p_offset = m.p_offset + t.r /\ w.stream.p = p
    <3>1. PICK o : o = [m EXCEPT !.p = p]
      OBVIOUS
    <3>2. o.p_offset = m.p_offset /\ o.p = p /\ o \in [p : {p}, p_offset : Nat, state : BOOLEAN, throw_eof_write : BOOLEAN]
      BY <3>1 DEF Within, MemoryType
    <3>3. w.stream = IF t.r > 0 THEN [o EXCEPT !.p_offset = o.p_offset + t.r, !.state = TRUE] ELSE o
      BY <2>3, <3>1 DEF M!Moved
    <3> QED
      BY <1>4, <2>4, <3>2, <3>3
  <2>6. ASSUME bytes \in [1..size -> Bytes] PROVE Within(w.stream)
    <3>1. m.p \in Seq(Bytes) /\ M!Size(m) = Len(m.p) /\ size \in Nat /\ t.r <= size
      BY <1>3, <1>7 DEF Within, MemoryType, M!Size, Sizes
    <3>2. \A i \in 1..M!Size(m) : i - m.p_offset \in 1..t.r => i - m.p_offset \in 1..size
      BY <1>4, <2>4, <3>1
    <3>3. \A i \in 1..M!Size(m) : p[i] \in Bytes
      BY <2>1, <2>6, <3>1, <3>2 DEF WrittenOver
    <3>4. p \in Seq(Bytes) /\ Len(p) = M!Size(m)
      <4>1. PICK n \in Nat : n = M!Size(m)
        BY <3>1
      <4>2. p \in [1..n -> Bytes]
        BY <2>1, <3>3, <4>1 DEF WrittenOver
      <4>3. p \in Seq(Bytes) /\ Len(p) = n
        BY <4>2
      <4> QED
        BY <4>1, <4>3
    <3>5. Within([m EXCEPT !.p = p]) /\ M!Left([m EXCEPT !.p = p]) = M!Left(m)
      BY <3>4, StoredWithin
    <3>6. t.r \in 0..M!Left([m EXCEPT !.p = p])
      BY <2>4, <3>5
    <3> QED
      BY <2>3, <3>5, <3>6, MovedWithin
  <2>7. m.p_offset + Asked(size) <= IntMax =>
          ~(m.throw_eof_write /\ (IF Asked(size) < M!Left(m) THEN Asked(size) ELSE M!Left(m)) < Asked(size))
    <3>1. size % (IntMax + 1) = Asked(size)
      BY AskedSize
    <3> QED
      BY <1>3, <1>7, <3>1
  <2>8. \A i \in 1..M!Size(m) :
          w.stream.p[i] = IF i - m.p_offset \in 1..w.r THEN bytes[i - m.p_offset] ELSE m.p[i]
    BY <2>1, <2>3, <2>5 DEF WrittenOver
  <2> QED
    BY <1>2, <1>3, <1>7, <2>3, <2>4, <2>5, <2>6, <2>7, <2>8
<1> QED
  BY <1>3, <1>5, <1>6, <1>7

LEMMA AssignWithin ==
  ASSUME IntMax \in Nat, NEW p \in Seq(Bytes), NEW throw \in BOOLEAN
  PROVE  Within(M!Assign(p, throw))
<1>1. PICK n : n = Len(p) % (IntMax + 1)
  OBVIOUS
<1>2. n \in 0..IntMax /\ n <= Len(p) /\ Len(p) \in Nat
  <2>1. Len(p) \in Nat
    OBVIOUS
  <2> QED
    BY <1>1, <2>1, Masked
<1>3. PICK q : q = SubSeq(p, 1, n)
  OBVIOUS
<1>4. q \in Seq(Bytes) /\ Len(q) = n
  BY <1>2, <1>3
<1>5. PICK m : m = M!Assign(p, throw)
  OBVIOUS
<1>6. m.p = q /\ m.p_offset = 0 /\ m \in MemoryType
  BY <1>1, <1>3, <1>4, <1>5 DEF M!Assign, MemoryType
<1> QED
  BY <1>2, <1>4, <1>5, <1>6 DEF Within, M!Size

LEMMA BytesWithin ==
  ASSUME IntMax \in Nat, NEW m, Within(m)
  PROVE  Within(M!ReadByte(m).stream) /\ \A v \in Bytes : Within(M!WriteByte(m, v).stream)
<1>1. PICK f \in BOOLEAN : f = FALSE
  OBVIOUS
<1>2. Within([m EXCEPT !.state = f])
  BY StateWithin
<1>3. PICK o : o = m.p_offset + 1
  OBVIOUS
<1>4. /\ m.p_offset \in Nat /\ M!Left(m) \in Nat /\ m.p \in Seq(Bytes)
      /\ ~(M!Left(m) < 1) => 1 \in 0..M!Left(m) /\ o \in 1..M!Size(m)
  BY <1>3 DEF Within, MemoryType, M!Left, M!Size
<1>5. Within(M!ReadByte(m).stream)
  <2>1. CASE M!Left(m) < 1
    BY <1>1, <1>2, <2>1 DEF M!ReadByte, M!Result
  <2>2. CASE ~(M!Left(m) < 1)
    <3>1. M!ReadByte(m).stream = M!Moved(m, 1)
      BY <2>2 DEF M!ReadByte, M!Result
    <3> QED
      BY <1>4, <2>2, <3>1, MovedWithin
  <2> QED
    BY <2>1, <2>2
<1>6. ASSUME NEW v \in Bytes PROVE Within(M!WriteByte(m, v).stream)
  <2>1. CASE M!Left(m) < 1
    BY <1>1, <1>2, <2>1 DEF M!WriteByte, M!Result, M!Thrown
  <2>2. CASE ~(M!Left(m) < 1)
    <3>1. PICK q : q = [m.p EXCEPT ![o] = v]
      OBVIOUS
    <3>2. q \in Seq(Bytes) /\ Len(q) = M!Size(m)
      BY <1>4, <2>2, <3>1 DEF M!Size
    <3>3. M!WriteByte(m, v).stream = M!Moved([m EXCEPT !.p = q], 1)
      BY <1>3, <2>2, <3>1 DEF M!WriteByte, M!Result
    <3>4. Within([m EXCEPT !.p = q]) /\ M!Left([m EXCEPT !.p = q]) = M!Left(m)
      BY <3>2, StoredWithin
    <3>5. 1 \in 0..M!Left([m EXCEPT !.p = q])
      BY <1>4, <2>2, <3>4
    <3> QED
      BY <3>3, <3>4, <3>5, MovedWithin
  <2> QED
    BY <2>1, <2>2
<1> QED
  BY <1>5, <1>6

LEMMA SeekWithin ==
  ASSUME NEW m, Within(m), NEW move_to \in Int
  PROVE  Within(M!Seek(m, move_to))
<1>1. CASE move_to \in 0..M!Size(m)
  <2>1. PICK o : o = [m EXCEPT !.p_offset = move_to]
    OBVIOUS
  <2>2. move_to \in Nat /\ move_to <= M!Size(m)
    BY <1>1
  <2>3. o \in MemoryType /\ o.p = m.p /\ o.p_offset = move_to
    BY <2>1, <2>2 DEF Within, MemoryType
  <2> QED
    BY <1>1, <2>1, <2>2, <2>3 DEF M!Seek, Within, M!Size
<1>2. CASE move_to \notin 0..M!Size(m)
  BY <1>2 DEF M!Seek
<1> QED
  BY <1>1, <1>2

(* Read, Write, Seek and Assign, with any argument, leave p_offset within  *)
(* the memory, also where the target offset wraps around INT_MAX.          *)
THEOREM StaysWithin == ASSUME IntMax \in Nat PROVE MemorySpec => []Within(memory)
<1>1. MemoryInit => Within(memory)
  BY AssignWithin DEF MemoryInit
<1>2. Within(memory) /\ [MemoryNext]_memory => Within(memory)'
  <2> SUFFICES ASSUME Within(memory), [MemoryNext]_memory PROVE Within(memory')
    BY DEF Within, MemoryType, M!Size
  <2>1. ASSUME NEW size \in Sizes, memory' = M!Read(memory, size).stream PROVE Within(memory')
    BY <2>1, ReadMoves
  <2>2. ASSUME NEW size \in Sizes, NEW bytes \in [1..size -> Bytes],
               memory' = M!Write(memory, bytes, size).stream
        PROVE  Within(memory')
    BY <2>2, WriteMoves
  <2>3. ASSUME memory' = M!ReadByte(memory).stream PROVE Within(memory')
    BY <2>3, BytesWithin
  <2>4. ASSUME NEW v \in Bytes, memory' = M!WriteByte(memory, v).stream PROVE Within(memory')
    BY <2>4, BytesWithin
  <2>5. ASSUME NEW move_to \in Int, memory' = M!Seek(memory, move_to) PROVE Within(memory')
    BY <2>5, SeekWithin
  <2>6. ASSUME memory' = M!Clone(memory) PROVE Within(memory')
    BY <2>6, StateWithin DEF M!Clone
  <2>7. ASSUME MemoryInit' PROVE Within(memory')
    BY <2>7, AssignWithin DEF MemoryInit
  <2> QED
    BY <2>1, <2>2, <2>3, <2>4, <2>5, <2>6, <2>7 DEF MemoryNext
<1> QED
  BY <1>1, <1>2, PTL DEF MemorySpec

(* An offset within the memory is all that TransfersWhole needs.           *)
LEMMA WithinTransfers ==
  ASSUME IntMax \in Nat
  PROVE  Within(memory) => TransfersWhole
<1> SUFFICES ASSUME Within(memory), NEW size \in Sizes
             PROVE  LET m == memory
                        read == M!Read(m, size)
                        written == M!Write(m, [i \in 1..size |-> "w"], size)
                        asked == Asked(size)
                        fits == m.p_offset + asked <= IntMax
                        all == IF asked < M!Left(m) THEN asked ELSE M!Left(m)
                    IN  /\ read.r \in 0..M!Left(m) /\ written.r \in 0..M!Left(m)
                        /\ read.stream.p_offset = m.p_offset + read.r
                        /\ written.stream.p_offset = m.p_offset + written.r
                        /\ \A i \in 1..M!Size(m) :
                             written.stream.p[i] = IF i - m.p_offset \in 1..written.r
                                                   THEN "w" ELSE m.p[i]
                        /\ fits => /\ read.r = all /\ M!ReadBytes(m, size) = M!CopyTo(m, asked)
                                   /\ written.r = IF m.throw_eof_write /\ all < asked THEN 0 ELSE all
                        /\ ~fits => /\ read.r = 0 /\ ~read.stream.state
                                    /\ written.r = 0 /\ ~written.stream.state
  BY DEF TransfersWhole, M!TransfersWhole, Sizes, Asked
<1> DEFINE m == memory
           bytes == [i \in 1..size |-> "w"]
           read == M!Read(m, size)
           written == M!Write(m, bytes, size)
           asked == Asked(size)
           fits == m.p_offset + asked <= IntMax
           all == IF asked < M!Left(m) THEN asked ELSE M!Left(m)
<1>1. /\ read.r \in 0..M!Left(m)
      /\ read.stream.p_offset = m.p_offset + read.r
      /\ fits => read.r = all
      /\ ~fits => read.r = 0 /\ ~read.stream.state
  BY ReadMoves
<1>2. /\ written.r \in 0..M!Left(m)
      /\ written.stream.p_offset = m.p_offset + written.r
      /\ fits => written.r = IF m.throw_eof_write /\ all < asked THEN 0 ELSE all
      /\ ~fits => written.r = 0 /\ ~written.stream.state
  BY WriteMoves
<1>3. \A i \in 1..M!Size(m) :
        written.stream.p[i] = IF i - m.p_offset \in 1..written.r THEN bytes[i - m.p_offset] ELSE m.p[i]
  <2> HIDE DEF bytes
  <2> QED
    BY WriteMoves
<1>4. \A i \in 1..M!Size(m) : i - m.p_offset \in 1..written.r => bytes[i - m.p_offset] = "w"
  <2>1. written.r \in Int /\ written.r <= size /\ size \in Nat
    <3>1. written.r \in 0..M!Left(m) /\ written.r <= size
      BY WriteMoves
    <3>2. M!Left(m) \in Nat
      BY DEF M!Left, M!Size, Within, MemoryType
    <3> HIDE DEF written
    <3> QED BY <3>1, <3>2 DEF Sizes
  <2>2. m.p_offset \in Nat
    BY DEF Within, MemoryType
  <2> HIDE DEF written
  <2> QED
    BY <2>1, <2>2
<1>5. fits => M!ReadBytes(m, size) = M!CopyTo(m, asked)
  BY <1>1 DEF M!ReadBytes, M!CopyTo
<1> QED
  BY <1>1, <1>2, <1>3, <1>4, <1>5

(* TransfersWhole: at any moment of any sequence of calls, Read and Write  *)
(* with any size a caller can name stay within the memory, move what is    *)
(* asked for - of a size beyond an int32, what & INT_MAX leaves of it - as *)
(* far as there is, if the offset fits, and say so if it does not.         *)
THEOREM MovesAllThereIs == ASSUME IntMax \in Nat PROVE MemorySpec => []TransfersWhole
  BY WithinTransfers, StaysWithin, PTL
-----------------------------------------------------------------------------
(* Reading and writing, of whatever bytes; a file has a length. *)
FilesUsed(s) ==
  \/ \E size \in Nat, n \in Nat, state \in BOOLEAN : Read(s, size, n, state)
  \/ \E byte : Write(s, byte)
  \/ WriteFails(s)
  \/ Size(s) /\ Len(data[stream[s].inode]) \in Nat

FilesSpec == FilesInit /\ [][FilesNext \/ \E s \in Streams : FilesUsed(s)]_files

StreamType ==
  [phase : {"none", "naming", "open", "closed"}, inode : Inodes \cup {NoInode}, offset : Nat,
   writable : BOOLEAN, state : BOOLEAN, path : Paths \cup {NoPath}, deleter : BOOLEAN, tries : Nat]

FilesType == names \in [Paths -> Inodes \cup {NoInode}] /\ stream \in [Streams -> StreamType]

(* The objects that are on no file are those without a path. *)
Pathless(s) == stream[s].phase \in {"none", "naming"} <=> stream[s].path = NoPath

(* The objects of a temporary file, closed ones that still hold the        *)
(* Deleter among them, share in the deletion, and the name is the file's.  *)
Shared(s) ==
  /\ stream[s].deleter <=> stream[s].path \in Temporaries
  /\ stream[s].path \in Temporaries =>
    /\ stream[s].inode = names[stream[s].path] /\ stream[s].inode # NoInode

OneWriter ==
  \A s, t \in Streams :
    /\ stream[s].path \in Temporaries /\ stream[s].path = stream[t].path
    /\ stream[s].writable /\ stream[t].writable
    => s = t

(* A temporary name in use is some object's, or nobody's for good: what    *)
(* leaked is the name of a file, and no object comes to have it.           *)
Held ==
  /\ \A p \in Temporaries : names[p] # NoInode => p \in leaked \/ \E s \in Streams : stream[s].path = p
  /\ \A p \in leaked : p \in Temporaries /\ names[p] # NoInode
  /\ \A s \in Streams : stream[s].path \notin leaked

FilesInv == FilesType /\ (\A s \in Streams : Pathless(s) /\ Shared(s)) /\ OneWriter /\ Held

-----------------------------------------------------------------------------
(* A step that changes one object and no name, and leaves the object its   *)
(* path, file, mode and part in the deletion, keeps the invariant.         *)
LEMMA SameFile ==
  ASSUME FilesInv, NEW s \in Streams, NEW o \in StreamType,
         stream' = [stream EXCEPT ![s] = o], names' = names, leaked' = leaked,
         o.path = stream[s].path, o.inode = stream[s].inode, o.deleter <=> stream[s].deleter,
         o.writable <=> stream[s].writable, o.phase \in {"none", "naming"} <=> o.path = NoPath
  PROVE  FilesInv'
<1>0. /\ FilesType /\ OneWriter /\ Held
      /\ \A t \in Streams : Pathless(t) /\ Shared(t)
  BY DEF FilesInv
<1>1. FilesType'
  BY <1>0 DEF FilesType
<1>2. \A t \in Streams : /\ stream'[t].path = stream[t].path
                         /\ stream'[t].inode = stream[t].inode
                         /\ stream'[t].deleter <=> stream[t].deleter
                         /\ stream'[t].writable <=> stream[t].writable
  BY <1>0 DEF FilesType
<1>6. \A t \in Streams : Pathless(t)'
  BY <1>0 DEF FilesType, Pathless
<1>3. \A t \in Streams : Shared(t)'
  BY <1>0, <1>2 DEF Shared
<1>4. OneWriter'
  BY <1>2, <1>0 DEF OneWriter
<1>5. Held'
  BY <1>2, <1>0 DEF Held
<1> QED
  BY <1>1, <1>3, <1>4, <1>5, <1>6 DEF FilesInv

(* An object that was on no file may come to be on a document. *)
LEMMA OnDocument ==
  ASSUME FilesInv, NEW s \in Streams, NEW o \in StreamType,
         stream[s].path = NoPath, o.path \in Documents \cup {NoPath},
         o.phase \in {"none", "naming"} <=> o.path = NoPath, ~o.deleter,
         stream' = [stream EXCEPT ![s] = o], leaked' = leaked,
         names' \in [Paths -> Inodes \cup {NoInode}],
         \A p \in Temporaries : names'[p] = names[p]
  PROVE  FilesInv'
<1>0. /\ FilesType /\ OneWriter /\ Held
      /\ \A t \in Streams : Pathless(t) /\ Shared(t)
  BY DEF FilesInv
<1>1. FilesType'
  BY <1>0 DEF FilesType
<1>2. /\ stream'[s] = o /\ o.path \notin Temporaries /\ stream[s].path \notin Temporaries
      /\ \A t \in Streams \ {s} : stream'[t] = stream[t]
  BY FileAssumption, <1>0 DEF FilesType
<1>3. \A t \in Streams : Pathless(t)' /\ Shared(t)'
  BY <1>2, <1>0 DEF Pathless, Shared
<1>4. OneWriter'
  BY <1>2, <1>0 DEF OneWriter
<1>5. Held'
  BY <1>2, <1>0, FileAssumption DEF Held
<1> QED
  BY <1>1, <1>3, <1>4, <1>5 DEF FilesInv

(* NoStream, and the objects that actions make of it, have their types. *)
LEMMA NoStreamType ==
  /\ NoStream \in StreamType /\ NoStream.path = NoPath /\ NoStream.phase = "none"
  /\ ~NoStream.deleter /\ ~NoStream.writable /\ ~[NoStream EXCEPT !.phase = "naming"].deleter
  /\ [NoStream EXCEPT !.phase = "naming"] \in StreamType
  /\ [NoStream EXCEPT !.phase = "naming"].path = NoPath
  /\ [NoStream EXCEPT !.phase = "naming"].phase = "naming"
<1>1. /\ NoStream \in StreamType /\ NoStream.path = NoPath /\ NoStream.phase = "none"
      /\ ~NoStream.deleter /\ ~NoStream.writable
  BY DEF StreamType, NoStream
<1>2. [NoStream EXCEPT !.phase = "naming"].deleter = NoStream.deleter
  BY <1>1 DEF StreamType
<1> QED
  BY <1>1, <1>2 DEF StreamType

LEMMA OpenedType ==
  ASSUME NEW i \in Inodes, NEW p \in Paths, NEW w \in BOOLEAN, NEW d \in BOOLEAN
  PROVE  /\ Opened(i, p, w, d) \in StreamType
         /\ Opened(i, p, w, d).phase = "open" /\ Opened(i, p, w, d).inode = i
         /\ Opened(i, p, w, d).path = p
         /\ Opened(i, p, w, d).writable <=> w
         /\ Opened(i, p, w, d).deleter <=> d
<1> DEFINE o == Opened(i, p, w, d)
<1>1. o \in StreamType
  BY NoStreamType DEF StreamType, Opened
<1>2. o.phase = "open" /\ o.inode = i /\ o.path = p
  BY NoStreamType DEF StreamType, Opened
<1>3. o.writable = w /\ o.deleter = d
  BY NoStreamType DEF StreamType, Opened
<1> QED
  BY <1>1, <1>2, <1>3

(* The stream that CreateTemporary makes is on a name that no object had. *)
LEMMA TemporaryMade ==
  ASSUME FilesInv, NEW s \in Streams, NEW p \in Temporaries, NameFree(s, p)
  PROVE  FilesInv'
<1>0. /\ FilesType /\ OneWriter /\ Held
      /\ \A t \in Streams : Pathless(t) /\ Shared(t)
  BY DEF FilesInv
<1> DEFINE o(i) == Opened(i, p, TRUE, TRUE)
<1>1. PICK i \in Inodes :
        names' = [names EXCEPT ![p] = i] /\ stream' = [stream EXCEPT ![s] = o(i)] /\ leaked' = leaked
  BY DEF NameFree, MakeFile
<1>2. /\ o(i) \in StreamType /\ o(i).phase = "open" /\ o(i).inode = i /\ o(i).path = p
      /\ o(i).deleter
  <2>1. p \in Paths /\ TRUE \in BOOLEAN
    BY DEF Paths
  <2> HIDE DEF o
  <2>2. /\ Opened(i, p, TRUE, TRUE) \in StreamType
        /\ Opened(i, p, TRUE, TRUE).phase = "open" /\ Opened(i, p, TRUE, TRUE).inode = i
        /\ Opened(i, p, TRUE, TRUE).path = p /\ Opened(i, p, TRUE, TRUE).deleter
    BY <2>1, OpenedType, ZenonT(60)
  <2> QED
    BY <2>2 DEF o
<1> HIDE DEF o
<1>3. /\ stream'[s] = o(i) /\ \A t \in Streams \ {s} : stream'[t] = stream[t]
      /\ names'[p] = i /\ i # NoInode /\ \A q \in Temporaries \ {p} : names'[q] = names[q]
  BY <1>1, FileAssumption, <1>0 DEF FilesType, Paths
<1>4. FilesType'
  BY <1>1, <1>2, <1>0 DEF FilesType
<1>5. \A t \in Streams : stream[t].path # p
  BY <1>0 DEF Shared, NameFree
<1>6. stream[s].path = NoPath
  BY <1>0 DEF Pathless, NameFree
<1>7. \A t \in Streams : Pathless(t)' /\ Shared(t)'
  BY <1>2, <1>3, <1>5, <1>0, FileAssumption DEF Pathless, Shared
<1>8. OneWriter'
  BY <1>2, <1>3, <1>5, <1>0 DEF OneWriter
<1>9. Held'
  <2>1. p \notin leaked
    BY <1>0 DEF Held, NameFree
  <2> QED
    BY <1>1, <1>2, <1>3, <1>6, <2>1, FileAssumption, <1>0 DEF Held
<1> QED
  BY <1>4, <1>7, <1>8, <1>9 DEF FilesInv

(* A file that is made and left: no object is on it. *)
LEMMA TemporaryLeaks ==
  ASSUME FilesInv, NEW s \in Streams, NEW p \in Temporaries, NameLeaks(s, p)
  PROVE  FilesInv'
<1>0. /\ FilesType /\ OneWriter /\ Held
      /\ \A t \in Streams : Pathless(t) /\ Shared(t)
  BY DEF FilesInv
<1>1. PICK i \in Inodes : names' = [names EXCEPT ![p] = i]
  BY DEF NameLeaks
<1>2. /\ stream'[s] = NoStream /\ \A t \in Streams \ {s} : stream'[t] = stream[t]
      /\ stream' \in [Streams -> StreamType] /\ leaked' = leaked \cup {p}
  BY <1>0, NoStreamType DEF FilesType, NameLeaks
<1>3. /\ names'[p] = i /\ i # NoInode /\ \A q \in Temporaries \ {p} : names'[q] = names[q]
      /\ names' \in [Paths -> Inodes \cup {NoInode}]
  BY <1>1, FileAssumption, <1>0 DEF FilesType, Paths
<1>4. \A t \in Streams : stream[t].path # p
  BY <1>0 DEF Shared, NameLeaks
<1>5. stream[s].path = NoPath /\ NoPath \notin Temporaries
  BY <1>0, FileAssumption DEF Pathless, NameLeaks
<1>6. \A t \in Streams : Pathless(t)' /\ Shared(t)'
  BY <1>0, <1>2, <1>3, <1>4, <1>5, NoStreamType DEF Pathless, Shared
<1>7. OneWriter'
  BY <1>0, <1>2, <1>5, NoStreamType DEF OneWriter
<1>8. Held'
  BY <1>0, <1>2, <1>3, <1>4, <1>5, NoStreamType DEF Held
<1> QED
  BY <1>0, <1>2, <1>3, <1>6, <1>7, <1>8 DEF FilesInv, FilesType

(* One object, but for the position and the state of its stream. *)
SameObject(a, b) ==
  /\ a.path = b.path /\ a.phase = b.phase /\ a.inode = b.inode
  /\ a.deleter <=> b.deleter
  /\ a.writable <=> b.writable

(* A clone is on the same file, reads only, and shares in the deletion. *)
LEMMA Cloned ==
  ASSUME FilesInv, NEW s \in Streams, NEW c \in Streams, Clone(s, c)
  PROVE  FilesInv'
<1>0. /\ FilesType /\ OneWriter /\ Held
      /\ \A t \in Streams : Pathless(t) /\ Shared(t)
  BY DEF FilesInv
<1>1. PICK i, p : i = names[stream[s].path] /\ p = stream[s].path
  OBVIOUS
<1>2. PICK told \in BOOLEAN, sought \in BOOLEAN :
        stream' = [stream EXCEPT
          ![s].state = told,
          ![c] = [Opened(i, p, FALSE, stream[s].deleter) EXCEPT
                    !.offset = IF told /\ sought THEN stream[s].offset ELSE 0]]
  BY <1>1 DEF Clone, MakeClone
<1>11. PICK offset : offset = IF told /\ sought THEN stream[s].offset ELSE 0
  OBVIOUS
<1>12. PICK o : o = [Opened(i, p, FALSE, stream[s].deleter) EXCEPT !.offset = offset]
  OBVIOUS
<1>13. PICK original : original = [stream EXCEPT ![s] = [stream[s] EXCEPT !.state = told]]
  OBVIOUS
<1>3. /\ s # c /\ names' = names /\ leaked' = leaked /\ stream[c].path = NoPath /\ i # NoInode
      /\ stream[s].phase = "open"
  BY <1>1 DEF Clone, FilesInv, Pathless
<1>14. /\ stream' = [original EXCEPT ![c] = o]
       /\ original \in [Streams -> StreamType]
       /\ \A u \in Streams : SameObject(original[u], stream[u])
  <2>1. stream \in [Streams -> StreamType]
    BY <1>0 DEF FilesType
  <2>2. PICK e \in StreamType : e = stream[s]
    BY <2>1
  <2>3. PICK f : f = [e EXCEPT !.state = told]
    OBVIOUS
  <2>4. /\ f \in StreamType /\ f.path = e.path /\ f.phase = e.phase /\ f.inode = e.inode
        /\ f.deleter = e.deleter /\ f.writable = e.writable
    BY <2>3 DEF StreamType
  <2>5. original = [stream EXCEPT ![s] = f]
    BY <1>13, <2>2, <2>3
  <2>6. stream' = [original EXCEPT ![c] = o]
    BY <1>2, <1>3, <1>11, <1>12, <1>13, <2>1
  <2>7. original[s] = f /\ \A u \in Streams \ {s} : original[u] = stream[u]
    BY <2>1, <2>5
  <2>8. SameObject(original[s], stream[s])
    BY <2>2, <2>4, <2>7 DEF SameObject
  <2>9. ASSUME NEW u \in Streams \ {s} PROVE SameObject(original[u], stream[u])
    BY <2>7, <2>9 DEF SameObject
  <2>10. original \in [Streams -> StreamType]
    BY <2>1, <2>4, <2>5
  <2> QED
    BY <2>6, <2>8, <2>9, <2>10
<1>4. p \in Paths /\ i \in Inodes
  BY <1>1, <1>3, FileAssumption DEF Clone, FilesInv, FilesType, StreamType, Pathless
<1>5. stream[s].deleter \in BOOLEAN /\ offset \in Nat
  BY <1>0, <1>11 DEF FilesType, StreamType
<1> DEFINE a == Opened(i, p, FALSE, stream[s].deleter)
<1>6. /\ a \in StreamType /\ a.phase = "open" /\ a.inode = i /\ a.path = p
      /\ ~a.writable /\ (a.deleter <=> stream[s].deleter)
  <2>1. FALSE \in BOOLEAN
    OBVIOUS
  <2>2. PICK d \in BOOLEAN, f \in BOOLEAN : d = stream[s].deleter /\ f = FALSE
    BY <1>5, <2>1
  <2>3. /\ Opened(i, p, f, d) \in StreamType /\ Opened(i, p, f, d).phase = "open"
        /\ Opened(i, p, f, d).inode = i /\ Opened(i, p, f, d).path = p
        /\ Opened(i, p, f, d).writable <=> f
        /\ Opened(i, p, f, d).deleter <=> d
    BY <1>4, OpenedType
  <2>4. a = Opened(i, p, f, d)
    BY <2>2
  <2> HIDE DEF a
  <2> QED
    BY <2>2, <2>3, <2>4
<1> HIDE DEF a
<1>10. o = [a EXCEPT !.offset = offset]
  BY <1>12 DEF a
<1>7. /\ o \in StreamType /\ o.phase = "open" /\ o.inode = i /\ o.path = p
      /\ ~o.writable /\ (o.deleter <=> stream[s].deleter)
  BY <1>5, <1>6, <1>10 DEF StreamType
<1>8. /\ stream'[c] = o /\ stream' \in [Streams -> StreamType]
      /\ \A u \in Streams \ {c} : stream'[u] = original[u]
  BY <1>7, <1>14
<1>9. FilesType'
  BY <1>3, <1>8, <1>0 DEF FilesType
<1>15. (p \in Temporaries => stream[s].deleter) /\ p # NoPath /\ NoPath \notin leaked
  BY <1>1, <1>3, FileAssumption, <1>0 DEF Shared, Pathless, Held
<1>20. \A u \in Streams \ {c} : SameObject(stream'[u], stream[u])
  BY <1>8, <1>14
<1>16. \A u \in Streams : Pathless(u)'
  BY <1>7, <1>8, <1>15, <1>20, <1>0 DEF Pathless, SameObject
<1>17. \A u \in Streams : Shared(u)'
  <2>1. ASSUME NEW u \in Streams \ {c} PROVE Shared(u)'
    BY <1>3, <1>20, <1>0 DEF Shared, SameObject
  <2>2. Shared(c)'
    BY <1>1, <1>3, <1>7, <1>8, <1>0 DEF Shared
  <2> QED
    BY <2>1, <2>2
<1>18. OneWriter'
  BY <1>7, <1>8, <1>20, <1>0 DEF OneWriter, SameObject
<1>19. Held'
  <2>1. \A q \in Temporaries : names[q] # NoInode =>
          q \in leaked \/ \E u \in Streams \ {c} : stream'[u].path = q
    <3> SUFFICES ASSUME NEW q \in Temporaries, names[q] # NoInode, q \notin leaked
                 PROVE  \E u \in Streams \ {c} : stream'[u].path = q
      OBVIOUS
    <3>1. PICK u \in Streams : stream[u].path = q
      BY <1>0 DEF Held
    <3>2. u # c
      BY <1>3, <3>1, FileAssumption
    <3> QED
      BY <1>20, <3>1, <3>2 DEF SameObject
  <2>2. p \notin leaked
    BY <1>1, <1>0 DEF Held
  <2>3. \A u \in Streams : stream'[u].path \notin leaked
    BY <1>7, <1>8, <1>20, <2>2, <1>0 DEF Held, SameObject
  <2> QED
    BY <1>3, <2>1, <2>3, <1>0 DEF Held
<1> QED
  BY <1>9, <1>16, <1>17, <1>18, <1>19 DEF FilesInv

(* Whoever holds the Deleter last takes the name away, or leaves it for    *)
(* good; until then the name stays.                                        *)
LEMMA Released ==
  ASSUME FilesInv, NEW s \in Streams, ReleaseDeleter(s)
  PROVE  FilesInv'
<1>0. /\ FilesType /\ OneWriter /\ Held
      /\ \A t \in Streams : Pathless(t) /\ Shared(t)
  BY DEF FilesInv
<1> DEFINE p == stream[s].path
<1>1. /\ NoStream \in StreamType /\ NoStream.path = NoPath /\ NoStream.phase = "none"
      /\ ~NoStream.deleter
  BY NoStreamType
<1>2. /\ stream' = [stream EXCEPT ![s] = NoStream] /\ stream'[s] = NoStream
      /\ \A t \in Streams \ {s} : stream'[t] = stream[t]
  BY <1>0 DEF FilesType, ReleaseDeleter
<1>3. /\ names' \in [Paths -> Inodes \cup {NoInode}]
      /\ \A q \in Paths : names'[q] # names[q] => q = p /\ names'[q] = NoInode /\ LastOwner(s)
      /\ leaked' = leaked \/ (leaked' = leaked \cup {p} /\ names' = names /\ LastOwner(s))
      /\ LastOwner(s) /\ leaked' = leaked => p \notin Paths \/ names'[p] = NoInode \/ p \in leaked
  <2> HIDE DEF p
  <2>1. names \in [Paths -> Inodes \cup {NoInode}]
    BY <1>0 DEF FilesType
  <2>2. CASE LastOwner(s) /\ names' = [names EXCEPT ![p] = NoInode] /\ leaked' = leaked
    BY <2>1, <2>2
  <2>3. CASE LastOwner(s) /\ leaked' = leaked \cup {p} /\ names' = names
    BY <2>1, <2>3
  <2>4. CASE ~LastOwner(s) /\ names' = names /\ leaked' = leaked
    BY <2>1, <2>4
  <2> QED
    BY <2>2, <2>3, <2>4 DEF ReleaseDeleter, p
<1>4. FilesType'
  BY <1>1, <1>2, <1>3, <1>0 DEF FilesType
<1>5. NoPath \notin Temporaries /\ Temporaries \subseteq Paths
  BY FileAssumption DEF Paths
<1>6. \A t \in Streams \ {s} : p \in Temporaries /\ stream[t].path = p => t \in Sharing(s)
  BY <1>0 DEF Shared, Sharing
<1>7. \A t \in Streams : Pathless(t)'
  BY <1>1, <1>2, <1>0 DEF Pathless
<1>a. LastOwner(s) /\ p \in Temporaries => \A t \in Streams \ {s} : stream[t].path # p
  BY <1>6 DEF LastOwner
<1>8. \A t \in Streams : Shared(t)'
  BY <1>1, <1>2, <1>3, <1>5, <1>a, <1>0 DEF Shared, LastOwner
<1>9. OneWriter'
  BY <1>1, <1>2, <1>5, <1>0 DEF OneWriter
<1>10. /\ p \notin leaked /\ NoPath \notin leaked' /\ (LastOwner(s) => p \in Temporaries)
       /\ p \in Temporaries => names[p] # NoInode
  BY <1>3, <1>5, <1>0 DEF Held, Shared, LastOwner
<1>11. \A q \in Temporaries : names'[q] # NoInode =>
         q \in leaked' \/ \E t \in Streams \ {s} : stream[t].path = q
  <2> SUFFICES ASSUME NEW q \in Temporaries, names'[q] # NoInode, q \notin leaked'
               PROVE  \E t \in Streams \ {s} : stream[t].path = q
    OBVIOUS
  <2>1. names[q] # NoInode /\ q \notin leaked
    BY <1>3, <1>5
  <2>2. PICK t \in Streams : stream[t].path = q
    BY <2>1, <1>0 DEF Held
  <2>3. CASE t = s
    <3>1. ~LastOwner(s)
      BY <1>3, <1>5, <1>10, <2>2, <2>3
    <3>2. stream[s].deleter
      BY <2>2, <2>3, <1>0 DEF Shared
    <3>3. PICK u \in Sharing(s) : TRUE
      BY <3>1, <3>2 DEF LastOwner
    <3> QED
      BY <2>2, <2>3, <3>3 DEF Sharing
  <2> QED
    BY <2>2, <2>3
<1>13. \A q \in leaked' : q \in Temporaries /\ names'[q] # NoInode
  <2>1. \A q \in leaked : q \in Temporaries /\ names[q] # NoInode /\ q # p
    BY <1>10, <1>0 DEF Held
  <2> QED
    BY <1>3, <1>5, <1>10, <2>1
<1>14. \A t \in Streams : stream'[t].path \notin leaked'
  <2>1. \A t \in Streams : stream[t].path \notin leaked
    BY <1>0 DEF Held
  <2> QED
    BY <1>1, <1>2, <1>3, <1>a, <1>10, <2>1
<1>12. Held'
  BY <1>2, <1>11, <1>13, <1>14 DEF Held
<1> QED
  BY <1>4, <1>7, <1>8, <1>9, <1>12 DEF FilesInv

LEMMA FilesInitInv == FilesInit => FilesInv
<1> SUFFICES ASSUME FilesInit PROVE FilesInv
  OBVIOUS
<1>1. PICK i \in Inodes : names = [p \in Paths |-> IF p \in Documents THEN i ELSE NoInode]
  BY DEF FilesInit
<1>2. \A s \in Streams : stream[s] = NoStream
  BY DEF FilesInit
<1>3. FilesType
  BY <1>1, NoStreamType DEF FilesInit, FilesType
<1>4. NoPath \notin Temporaries /\ \A p \in Temporaries : names[p] = NoInode
  BY <1>1, FileAssumption DEF Paths
<1>5. \A s \in Streams : Pathless(s) /\ Shared(s)
  BY <1>2, <1>4, NoStreamType DEF Pathless, Shared
<1>6. OneWriter /\ Held
  BY <1>2, <1>4, NoStreamType DEF OneWriter, Held, FilesInit
<1> QED
  BY <1>3, <1>5, <1>6 DEF FilesInv

(* A step of an object that keeps its file: what it changes is one object, *)
(* in its phase, position, state or count of tries.                        *)
Keeps(s) ==
  /\ names' = names /\ leaked' = leaked
  /\ \E o \in StreamType :
       /\ stream' = [stream EXCEPT ![s] = o]
       /\ o.path = stream[s].path /\ o.inode = stream[s].inode
       /\ (o.deleter <=> stream[s].deleter) /\ (o.writable <=> stream[s].writable)
       /\ o.phase \in {"none", "naming"} <=> o.path = NoPath

LEMMA KeepsInv == ASSUME FilesInv, NEW s \in Streams, Keeps(s) PROVE FilesInv'
  BY SameFile DEF Keeps

(* Reading, writing, seeking, asking for the size and closing. *)
LEMMA UsedKeeps ==
  ASSUME FilesInv, NEW s \in Streams,
         FilesUsed(s) \/ Close(s) \/ \E position \in 0..MaxLength : Seek(s, position)
  PROVE  Keeps(s)
<1>0. stream[s] \in StreamType /\ Pathless(s) /\ stream[s].phase = "open"
  BY DEF FilesInv, FilesType, FilesUsed, Read, Write, WriteFails, Size, Close, Seek
<1>1. PICK r : r = stream[s]
  OBVIOUS
<1>2. /\ r \in StreamType /\ r.path # NoPath /\ r.phase = "open"
      /\ r.offset \in Nat /\ MaxLength \in Nat
  BY <1>0, <1>1, FileAssumption DEF StreamType, Pathless
<1>3. names' = names /\ leaked' = leaked /\ \E phase \in {"open", "closed"}, offset \in Nat, state \in BOOLEAN :
        stream' = [stream EXCEPT ![s] = [r EXCEPT !.phase = phase, !.offset = offset, !.state = state]]
  <2> DEFINE Uses(phase, offset, state) ==
        stream' = [stream EXCEPT ![s] = [r EXCEPT !.phase = phase, !.offset = offset, !.state = state]]
  <2>0. /\ r = [r EXCEPT !.phase = r.phase, !.offset = r.offset, !.state = r.state]
        /\ r.state \in BOOLEAN
    BY <1>2 DEF StreamType
  <2>1. ASSUME NEW size \in Nat, NEW n \in Nat, NEW state \in BOOLEAN, Read(s, size, n, state)
        PROVE  Uses("open", r.offset + n, state) /\ names' = names /\ leaked' = leaked
    <3>1. /\ stream' = [stream EXCEPT ![s].offset = @ + n, ![s].state = state]
          /\ names' = names /\ leaked' = leaked
      BY <2>1 DEF Read
    <3>2. [r EXCEPT !.phase = "open", !.offset = r.offset + n, !.state = state]
            = [r EXCEPT !.offset = @ + n, !.state = state]
      BY <1>2 DEF StreamType
    <3> QED
      BY <1>1, <3>1, <3>2
  <2>2. ASSUME NEW byte, Write(s, byte)
        PROVE  Uses("open", r.offset + 1, TRUE) /\ names' = names /\ leaked' = leaked
    <3>1. /\ stream' = [stream EXCEPT ![s].offset = @ + 1, ![s].state = TRUE]
          /\ names' = names /\ leaked' = leaked
      BY <2>2 DEF Write
    <3>2. [r EXCEPT !.phase = "open", !.offset = r.offset + 1, !.state = TRUE]
            = [r EXCEPT !.offset = @ + 1, !.state = TRUE]
      BY <1>2 DEF StreamType
    <3> QED
      BY <1>1, <3>1, <3>2
  <2>3. ASSUME WriteFails(s)
        PROVE  Uses("open", r.offset, FALSE) /\ names' = names /\ leaked' = leaked
    BY <1>1, <1>2, <2>3 DEF WriteFails, StreamType
  <2>4. ASSUME Size(s), Len(data[stream[s].inode]) \in Nat
        PROVE  /\ names' = names /\ leaked' = leaked
               /\ \E state \in BOOLEAN, offset \in Nat : Uses("open", offset, state)
    <3>1. ASSUME NEW state \in BOOLEAN, stream' = [stream EXCEPT ![s].state = state]
          PROVE  Uses("open", r.offset, state)
      BY <1>1, <1>2, <3>1 DEF StreamType
    <3>2. ASSUME NEW end \in Nat,
                 stream' = [stream EXCEPT ![s].offset = end, ![s].state = FALSE]
          PROVE  Uses("open", end, FALSE)
      <4>1. [r EXCEPT !.phase = "open", !.offset = end, !.state = FALSE]
              = [r EXCEPT !.offset = end, !.state = FALSE]
        BY <1>2 DEF StreamType
      <4> QED
        BY <1>1, <3>2, <4>1
    <3>3. FALSE \in BOOLEAN
      OBVIOUS
    <3> HIDE DEF Uses
    <3>4. CASE \E state \in BOOLEAN : stream' = [stream EXCEPT ![s].state = state]
      BY <1>2, <2>4, <3>1, <3>4 DEF Size
    <3>5. CASE stream' = [stream EXCEPT ![s].offset = Len(data[stream[s].inode]), ![s].state = FALSE]
      BY <2>4, <3>2, <3>3, <3>5 DEF Size
    <3> QED
      BY <2>4, <3>4, <3>5 DEF Size
  <2>5. ASSUME Close(s)
        PROVE  Uses("closed", r.offset, r.state) /\ names' = names /\ leaked' = leaked
    BY <1>1, <1>2, <2>5 DEF Close, StreamType
  <2>6. ASSUME NEW position \in 0..MaxLength, Seek(s, position)
        PROVE  Uses("open", position, r.state) /\ names' = names /\ leaked' = leaked
    <3>1. stream' = [stream EXCEPT ![s].offset = position] /\ names' = names /\ leaked' = leaked
      BY <2>6 DEF Seek
    <3>2. [r EXCEPT !.phase = "open", !.offset = position, !.state = r.state]
            = [r EXCEPT !.offset = position]
      BY <1>2 DEF StreamType
    <3> QED
      BY <1>1, <3>1, <3>2
  <2>7. \A n \in Nat : r.offset + n \in Nat
    BY <1>2
  <2>8. r.offset + 1 \in Nat /\ \A position \in 0..MaxLength : position \in Nat
    BY <1>2
  <2>9. TRUE \in BOOLEAN /\ FALSE \in BOOLEAN /\ "open" \in {"open", "closed"} /\ "closed" \in {"open", "closed"}
    OBVIOUS
  <2> HIDE DEF Uses
  <2> DEFINE Goal == names' = names /\ leaked' = leaked /\ \E phase \in {"open", "closed"}, offset \in Nat, state \in BOOLEAN :
                       Uses(phase, offset, state)
  <2>10. (\E size \in Nat, n \in Nat, state \in BOOLEAN : Read(s, size, n, state)) => Goal
    BY <2>1, <2>7, <2>9
  <2>11. (\E byte : Write(s, byte)) => Goal
    BY <2>2, <2>8, <2>9
  <2>12. WriteFails(s) \/ (Size(s) /\ Len(data[stream[s].inode]) \in Nat) \/ Close(s) => Goal
    BY <1>2, <2>0, <2>3, <2>4, <2>5, <2>9
  <2>13. (\E position \in 0..MaxLength : Seek(s, position)) => Goal
    BY <2>0, <2>6, <2>8, <2>9
  <2>14. Goal
    BY <2>10, <2>11, <2>12, <2>13 DEF FilesUsed
  <2> QED
    BY <2>14 DEF Uses
<1>4. PICK phase \in {"open", "closed"}, offset \in Nat, state \in BOOLEAN :
        stream' = [stream EXCEPT ![s] = [r EXCEPT !.phase = phase, !.offset = offset, !.state = state]]
  BY <1>3
<1>5. PICK o : o = [r EXCEPT !.phase = phase, !.offset = offset, !.state = state]
  OBVIOUS
<1>6. o \in StreamType /\ o.phase = phase /\ o.path = r.path /\ o.inode = r.inode
  BY <1>2, <1>5 DEF StreamType
<1>7. o.deleter = r.deleter /\ o.writable = r.writable
  BY <1>2, <1>5 DEF StreamType
<1>8. stream' = [stream EXCEPT ![s] = o]
  BY <1>4, <1>5
<1> QED
  BY <1>1, <1>2, <1>3, <1>6, <1>7, <1>8 DEF Keeps

LEMMA FilesStep == ASSUME FilesInv, FilesNext \/ \E s \in Streams : FilesUsed(s) PROVE FilesInv'
<1> SUFFICES ASSUME NEW s \in Streams,
                    \/ OpenDocument(s) \/ CreateTemporary(s) \/ NamingFails(s)
                    \/ \E p \in Documents : Create(s, p) \/ Replace(p)
                    \/ \E p \in Temporaries : NameTaken(s, p) \/ NameFree(s, p) \/ NameLeaks(s, p)
                    \/ \E t \in Streams : Clone(s, t)
                    \/ Close(s) \/ ReleaseDeleter(s)
                    \/ \E position \in 0..MaxLength : Seek(s, position)
                    \/ FilesUsed(s)
             PROVE  FilesInv'
  BY DEF FilesNext
<1>0. FilesType /\ Pathless(s) /\ Shared(s) /\ stream[s] \in StreamType
  BY DEF FilesInv, FilesType
<1> DEFINE naming == [NoStream EXCEPT !.phase = "naming"]
<1>a. naming \in StreamType /\ naming.path = NoPath /\ naming.phase = "naming" /\ ~naming.deleter
  BY NoStreamType
<1> HIDE DEF naming
<1>1. CASE OpenDocument(s)
  <2>1. PICK p \in Documents, w \in BOOLEAN : Open(s, p, w)
    BY <1>1 DEF OpenDocument
  <2>2. PICK d \in BOOLEAN, i \in Inodes : ~d /\ d = FALSE /\ i = names[p]
    BY <1>0, <2>1 DEF Open, FilesType, Paths
  <2>3. PICK o : o = Opened(i, p, w, d)
    OBVIOUS
  <2>4. o \in StreamType /\ o.phase = "open" /\ o.path = p /\ ~o.deleter
    BY <2>2, <2>3, OpenedType DEF Paths
  <2>5. /\ stream' = [stream EXCEPT ![s] = o] /\ names' = names /\ leaked' = leaked
        /\ stream[s].path = NoPath /\ p # NoPath
    BY <1>0, <2>1, <2>2, <2>3, FileAssumption DEF Open, Pathless
  <2> QED
    BY <1>0, <2>4, <2>5, OnDocument DEF FilesType
<1>2. CASE CreateTemporary(s)
  <2>1. /\ stream' = [stream EXCEPT ![s] = naming] /\ names' = names /\ leaked' = leaked
        /\ stream[s].path = NoPath
    BY <1>0, <1>2 DEF CreateTemporary, Pathless, naming
  <2> QED
    BY <1>0, <1>a, <2>1, OnDocument DEF FilesType
<1>b. ASSUME stream[s].phase = "naming", stream' = [stream EXCEPT ![s] = NoStream],
             names' = names, leaked' = leaked
      PROVE  FilesInv'
  BY <1>0, <1>b, NoStreamType, OnDocument DEF FilesType, Pathless
<1>3. CASE NamingFails(s)
  BY <1>3, <1>b DEF NamingFails
<1>4. CASE \E p \in Documents : Create(s, p)
  <2>1. PICK p \in Documents : Create(s, p)
    BY <1>4
  <2>2. PICK i \in Inodes : /\ names' = [names EXCEPT ![p] = i]
                            /\ stream' = [stream EXCEPT ![s] = Opened(i, p, TRUE, FALSE)]
    BY <2>1 DEF Create, MakeFile
  <2>a. PICK w \in BOOLEAN, d \in BOOLEAN : w = TRUE /\ d = FALSE /\ ~d
    OBVIOUS
  <2>3. PICK o : o = Opened(i, p, w, d)
    OBVIOUS
  <2>b. o = Opened(i, p, TRUE, FALSE)
    BY <2>a, <2>3
  <2>4. p \in Paths
    BY DEF Paths
  <2>c. o \in StreamType /\ o.phase = "open" /\ o.path = p /\ (o.deleter <=> d)
    BY <2>3, <2>4, OpenedType
  <2>5. o \in StreamType /\ o.phase = "open" /\ o.path = p /\ ~o.deleter
    BY <2>a, <2>c
  <2>6. /\ stream' = [stream EXCEPT ![s] = o] /\ stream[s].path = NoPath /\ p # NoPath
        /\ leaked' = leaked
        /\ names' \in [Paths -> Inodes \cup {NoInode}]
        /\ \A q \in Temporaries : names'[q] = names[q]
    BY <1>0, <2>1, <2>2, <2>b, <2>4, FileAssumption DEF Create, MakeFile, Pathless, FilesType, Paths
  <2> QED
    BY <2>5, <2>6, OnDocument
<1>5. CASE \E p \in Documents : Replace(p)
  <2>1. PICK p \in Documents, i \in Inodes \cup {NoInode} : names' = [names EXCEPT ![p] = i]
    BY <1>5 DEF Replace
  <2>2. stream' = stream /\ leaked' = leaked
    BY <1>5 DEF Replace
  <2>3. /\ names' \in [Paths -> Inodes \cup {NoInode}]
        /\ \A q \in Temporaries : names'[q] = names[q]
    BY <1>0, <2>1, FileAssumption DEF FilesType, Paths
  <2>4. FilesType /\ (\A t \in Streams : Pathless(t) /\ Shared(t)) /\ OneWriter /\ Held
    BY DEF FilesInv
  <2>5. FilesType' /\ (\A t \in Streams : Pathless(t)' /\ Shared(t)')
    BY <2>2, <2>3, <2>4 DEF FilesType, Pathless, Shared
  <2>6. OneWriter' /\ Held'
    BY <2>2, <2>3, <2>4 DEF OneWriter, Held
  <2> QED
    BY <2>5, <2>6 DEF FilesInv
<1>6. CASE \E p \in Temporaries : NameTaken(s, p)
  <2>1. /\ stream[s].phase = "naming" /\ names' = names /\ leaked' = leaked
        /\ \/ stream' = [stream EXCEPT ![s] = NoStream]
           \/ stream' = [stream EXCEPT ![s] = [stream[s] EXCEPT !.tries = stream[s].tries + 1]]
    <3>1. PICK p \in Temporaries : NameTaken(s, p)
      BY <1>6
    <3>2. PICK tries : tries = stream[s].tries + 1
      OBVIOUS
    <3>3. /\ stream[s].phase = "naming" /\ names' = names /\ leaked' = leaked
          /\ stream' = [stream EXCEPT ![s] = IF tries = MaxTries THEN NoStream
                                             ELSE [stream[s] EXCEPT !.tries = tries]]
      BY <3>1, <3>2 DEF NameTaken
    <3> QED
      BY <3>2, <3>3
  <2>2. CASE stream' = [stream EXCEPT ![s] = NoStream]
    BY <1>b, <2>1, <2>2
  <2>3. CASE stream' = [stream EXCEPT ![s] = [stream[s] EXCEPT !.tries = stream[s].tries + 1]]
    <3>1. PICK o : o = [stream[s] EXCEPT !.tries = stream[s].tries + 1]
      OBVIOUS
    <3>2. /\ o \in StreamType /\ o.path = stream[s].path /\ o.phase = "naming"
          /\ o.deleter = stream[s].deleter
      BY <1>0, <2>1, <3>1 DEF StreamType
    <3>3. stream' = [stream EXCEPT ![s] = o]
      BY <2>3, <3>1
    <3>4. stream[s].path = NoPath /\ ~stream[s].deleter
      BY <1>0, <2>1, FileAssumption DEF Pathless, Shared
    <3> QED
      BY <1>0, <2>1, <3>2, <3>3, <3>4, OnDocument DEF FilesType
  <2> QED
    BY <2>1, <2>2, <2>3
<1>7. CASE \E p \in Temporaries : NameFree(s, p)
  BY <1>7, TemporaryMade
<1>11. CASE \E p \in Temporaries : NameLeaks(s, p)
  BY <1>11, TemporaryLeaks
<1>8. CASE \E t \in Streams : Clone(s, t)
  BY <1>8, Cloned
<1>9. CASE ReleaseDeleter(s)
  BY <1>9, Released
<1>10. CASE FilesUsed(s) \/ Close(s) \/ \E position \in 0..MaxLength : Seek(s, position)
  BY <1>10, UsedKeeps, KeepsInv
<1> QED
  BY <1>1, <1>2, <1>3, <1>4, <1>5, <1>6, <1>7, <1>8, <1>9, <1>10, <1>11

(* In every state, an object without a file has no path, the objects of a  *)
(* temporary file share its Deleter and are on the file its name stands    *)
(* for, at most one of them writes, and a name in use is some object's, or *)
(* leaked: its file could not be deleted, and no object has the name.      *)
THEOREM FilesInvariant == FilesSpec => []FilesInv
<1>1. FilesInit => FilesInv
  BY FilesInitInv
<1>2. FilesInv /\ [FilesNext \/ \E s \in Streams : FilesUsed(s)]_files => FilesInv'
  <2>1. FilesInv /\ UNCHANGED files => FilesInv'
    <3> SUFFICES ASSUME FilesInv, UNCHANGED files PROVE FilesInv'
      OBVIOUS
    <3>1. names' = names /\ stream' = stream /\ leaked' = leaked
      BY DEF files
    <3>2. FilesType' /\ \A s \in Streams : Pathless(s)' /\ Shared(s)'
      BY <3>1 DEF FilesInv, FilesType, Pathless, Shared
    <3>3. OneWriter' /\ Held'
      BY <3>1 DEF FilesInv, OneWriter, Held
    <3> QED
      BY <3>2, <3>3 DEF FilesInv
  <2> QED
    BY <2>1, FilesStep
<1> QED
  BY <1>1, <1>2, PTL DEF FilesSpec

(* TemporaryKept: a temporary file has its name, and nobody else's, for as *)
(* long as one of its streams is open; when all are gone the name is free  *)
(* or, if the file could not be deleted, no stream's for good; and only    *)
(* one stream of a temporary file writes.                                  *)
THEOREM FileLivesWithStreams == FilesSpec => []TemporaryKept
<1>1. FilesInv => TemporaryKept
  <2> SUFFICES ASSUME FilesInv, NEW p \in Temporaries
               PROVE  LET users == {s \in Streams : stream[s].path = p}
                      IN  /\ \A s \in users : stream[s].phase = "open" => names[p] = stream[s].inode
                          /\ IF p \in leaked THEN users = {} ELSE users = {} => names[p] = NoInode
                          /\ Cardinality({s \in users : stream[s].writable}) <= 1
    BY DEF TemporaryKept
  <2> DEFINE users == {s \in Streams : stream[s].path = p}
             writing == {s \in users : stream[s].writable}
  <2>0. OneWriter /\ Held /\ \A s \in Streams : Shared(s)
    BY DEF FilesInv
  <2>1. \A s \in users : names[p] = stream[s].inode
    BY <2>0 DEF Shared
  <2>2. IF p \in leaked THEN users = {} ELSE users = {} => names[p] = NoInode
    BY <2>0 DEF Held
  <2>3. \A s, t \in writing : s = t
    BY <2>0 DEF OneWriter
  <2>4. writing = {} \/ \E s : writing = {s}
    BY <2>3
  <2> HIDE DEF writing
  <2>5. Cardinality(writing) <= 1
    <3>1. CASE writing = {}
      BY <3>1, FS_EmptySet
    <3>2. CASE \E s : writing = {s}
      <4>1. PICK s : writing = {s}
        BY <3>2
      <4>2. Cardinality({s}) = 1
        BY FS_Singleton
      <4> QED
        BY <4>1, <4>2
    <3> QED
      BY <2>4, <3>1, <3>2
  <2> QED
    BY <2>1, <2>2, <2>5 DEF writing
<1> QED
  BY <1>1, FilesInvariant, PTL
-----------------------------------------------------------------------------

CopyType ==
  [pc : {"none", "read", "write", "done"}, from : Streams \cup {NoSource}, size : Nat,
   total_written : Nat, buf : Seq(Bytes), asked : Nat, at : Nat, seen : Seq(Bytes)]

(* Files hold bytes, and an open stream is on a file. *)
OnFile(s) == stream[s].phase = "open" => stream[s].inode \in Inodes
Sourced == data \in [Inodes -> Seq(Bytes)] /\ \A s \in Streams : OnFile(s)

(* The output ends with the first total_written bytes of what was read.    *)
Placed(m, c) ==
  /\ m.p_offset = c.at + c.total_written /\ c.total_written <= Len(c.seen)
  /\ \A k \in 1..c.total_written : m.p[c.at + k] = c.seen[k]

(* How far the loop is: before a Read everything was written; before a     *)
(* Write the buffer is what was read last.                                 *)
Counted(c) ==
  /\ Len(c.seen) <= c.asked /\ Len(c.seen) - c.total_written <= BufSize
  /\ c.pc = "read" => Len(c.seen) = c.total_written /\ c.total_written + c.size = c.asked
  /\ c.pc = "write" =>
       /\ Len(c.seen) = c.total_written + Len(c.buf) /\ c.total_written + c.size = c.asked
       /\ \A k \in 1..Len(c.buf) : c.seen[c.total_written + k] = c.buf[k]

CopyInv ==
  /\ FilesInv /\ Sourced /\ Within(memory) /\ copy \in CopyType
  /\ copy.pc # "none" => copy.from \in Streams /\ Placed(memory, copy) /\ Counted(copy)
-----------------------------------------------------------------------------
(* The files stay files when an open stream is used, or another is opened. *)
LEMMA SourceKept ==
  ASSUME FilesInv, Sourced, NEW s \in Streams, Keeps(s), stream[s].phase = "open",
         data' \in [Inodes -> Seq(Bytes)]
  PROVE  FilesInv' /\ Sourced'
<1>1. PICK o \in StreamType : stream' = [stream EXCEPT ![s] = o] /\ o.inode = stream[s].inode
  BY DEF Keeps
<1>2. stream \in [Streams -> StreamType]
  BY DEF FilesInv, FilesType
<1>3. \A u \in Streams : OnFile(u)'
  BY <1>1, <1>2 DEF Sourced, OnFile
<1> QED
  BY <1>3, KeepsInv DEF Sourced

LEMMA PutBytes ==
  ASSUME NEW bytes \in Seq(Bytes), NEW offset \in Nat
  PROVE  Put(bytes, offset, "w") \in Seq(Bytes)
<1>1. "w" \in Bytes /\ "hole" \in Bytes
  BY CopyAssumption, FileAssumption
<1>2. PICK n \in Nat : n = IF Len(bytes) > offset THEN Len(bytes) ELSE offset + 1
  OBVIOUS
<1>3. Put(bytes, offset, "w") \in [1..n -> Bytes]
  BY <1>1, <1>2 DEF Put
<1> QED
  BY <1>2, <1>3

(* What the other threads do. *)
LEMMA OthersKeep ==
  ASSUME FilesInv, Sourced, NEW s \in Streams, Others(s)
  PROVE  FilesInv' /\ Sourced'
<1>1. stream \in [Streams -> StreamType] /\ names \in [Paths -> Inodes \cup {NoInode}]
  BY DEF FilesInv, FilesType
<1>2. CASE OpenDocument(s)
  <2>1. PICK p \in Documents, w \in BOOLEAN : Open(s, p, w)
    BY <1>2 DEF OpenDocument
  <2>2. PICK i \in Inodes : i = names[p]
    BY <1>1, <2>1 DEF Open, Paths
  <2>3. PICK d \in BOOLEAN : d = FALSE
    OBVIOUS
  <2>4. Opened(i, p, w, d).inode = i /\ Opened(i, p, w, d) \in StreamType
    BY OpenedType DEF Paths
  <2>5. stream' = [stream EXCEPT ![s] = Opened(i, p, w, d)] /\ data' = data
    BY <2>1, <2>2, <2>3 DEF Open
  <2>6. \A u \in Streams : OnFile(u)'
    BY <1>1, <2>4, <2>5 DEF Sourced, OnFile
  <2>7. FilesInv'
    BY <1>2, FilesStep DEF FilesNext
  <2> QED
    BY <2>5, <2>6, <2>7 DEF Sourced
<1>3. CASE Write(s, "w")
  <2>1. PICK i \in Inodes, o \in Nat : i = stream[s].inode /\ o = stream[s].offset
    BY <1>1, <1>3 DEF Sourced, OnFile, Write, StreamType
  <2>2. data' = [data EXCEPT ![i] = Put(data[i], o, "w")]
    BY <1>3, <2>1 DEF Write
  <2>3. data' \in [Inodes -> Seq(Bytes)]
    BY <2>2, PutBytes DEF Sourced
  <2> QED
    BY <1>3, <2>3, UsedKeeps, SourceKept DEF FilesUsed, Write
<1>4. CASE WriteFails(s) \/ Size(s) \/ \E position \in 0..MaxLength : Seek(s, position)
  <2>a. Size(s) => Len(data[stream[s].inode]) \in Nat
    BY DEF Size, Sourced, OnFile
  <2>1. Keeps(s)
    BY <1>4, <2>a, UsedKeeps DEF FilesUsed
  <2>2. stream[s].phase = "open" /\ data' = data
    BY <1>4 DEF WriteFails, Size, Seek
  <2> QED
    BY <2>1, <2>2, SourceKept DEF Sourced
<1> QED
  BY <1>2, <1>3, <1>4 DEF Others

(* Read gives as many bytes as it says. *)
LEMMA BytesRead ==
  ASSUME FilesInv, Sourced, NEW s \in Streams, NEW size \in Nat, NEW n, NEW state \in BOOLEAN,
         Read(s, size, n, state)
  PROVE  n \in 0..size /\ BytesAt(stream[s], n) \in Seq(Bytes) /\ Len(BytesAt(stream[s], n)) = n
<1>1. stream[s].inode \in Inodes /\ stream[s].offset \in Nat
  BY DEF FilesInv, FilesType, StreamType, Sourced, OnFile, Read
<1>2. PICK d \in Seq(Bytes), o \in Nat : d = data[stream[s].inode] /\ o = stream[s].offset
  BY <1>1 DEF Sourced
<1>3. n \in 0..(IF o + size < Len(d) THEN size ELSE IF o < Len(d) THEN Len(d) - o ELSE 0)
  BY <1>2 DEF Read, CanRead
<1>4. n \in 0..size /\ (n > 0 => o + n <= Len(d))
  <2>1. PICK l \in Nat : l = Len(d)
    BY <1>2
  <2>2. n \in 0..(IF o + size < l THEN size ELSE IF o < l THEN l - o ELSE 0)
    BY <1>3, <2>1
  <2>3. n \in 0..size
    BY <2>1, <2>2
  <2>4. n > 0 => o + n <= l
    BY <2>1, <2>2
  <2> QED
    BY <2>1, <2>3, <2>4
<1>5. PICK q : q = SubSeq(d, o + 1, o + n)
  OBVIOUS
<1>6. q \in Seq(Bytes) /\ Len(q) = n
  <2>1. o + 1 \in Int /\ o + n \in Int /\ \A i \in (o + 1)..(o + n) : d[i] \in Bytes
    BY <1>2, <1>4
  <2>2. /\ SubSeq(d, o + 1, o + n) \in Seq(Bytes)
        /\ Len(SubSeq(d, o + 1, o + n)) = IF o + 1 <= o + n THEN (o + n) - (o + 1) + 1 ELSE 0
    BY <2>1, SubSeqProperties
  <2>3. n \in Nat
    BY <1>4
  <2>4. (IF o + 1 <= o + n THEN (o + n) - (o + 1) + 1 ELSE 0) = n
    BY <1>2, <2>3
  <2> QED
    BY <1>5, <2>2, <2>4
<1> QED
  BY <1>2, <1>4, <1>5, <1>6 DEF BytesAt

(* What was placed stays in place when more is read. *)
LEMMA ReadOn ==
  ASSUME NEW c \in CopyType, NEW b \in Seq(Bytes), NEW d, Placed(memory, c), Counted(c),
         c.pc = "read", Len(b) <= BufSize, Len(b) <= c.size,
         d = [c EXCEPT !.pc = IF Len(b) > 0 THEN "write" ELSE "done", !.buf = b,
                       !.seen = @ \o b]
  PROVE  d \in CopyType /\ d.from = c.from /\ Placed(memory, d) /\ Counted(d)
<1>1. PICK q, n, l, size :
        q = c.seen /\ n = c.total_written /\ l = Len(b) /\ size = c.size
  OBVIOUS
<1>2. q \in Seq(Bytes) /\ n \in Nat /\ l \in Nat /\ size \in Nat /\ c.asked \in Nat /\ BufSize \in Nat
  BY <1>1, CopyAssumption DEF CopyType
<1>3. PICK r : r = q \o b
  OBVIOUS
<1>4. /\ r \in Seq(Bytes) /\ Len(r) = Len(q) + l
      /\ \A k \in 1..Len(q) : r[k] = q[k]
      /\ \A k \in 1..l : r[Len(q) + k] = b[k]
  BY <1>1, <1>2, <1>3
<1>5. Len(q) = n /\ n + size = c.asked /\ l <= size /\ l <= BufSize
  BY <1>1 DEF Counted
<1>6. d = [c EXCEPT !.pc = IF l > 0 THEN "write" ELSE "done", !.buf = b, !.seen = r]
  BY <1>1, <1>3
<1>7. /\ d \in CopyType /\ d.from = c.from /\ d.size = size /\ d.total_written = n
      /\ d.asked = c.asked /\ d.at = c.at /\ d.seen = r /\ d.buf = b /\ d.pc \in {"write", "done"}
  BY <1>1, <1>4, <1>6 DEF CopyType
<1>8. Placed(memory, d)
  BY <1>1, <1>2, <1>4, <1>5, <1>7 DEF Placed
<1>9. Counted(d)
  <2>1. Len(d.seen) = n + l /\ Len(d.buf) = l
    BY <1>1, <1>4, <1>5, <1>7
  <2>2. Len(d.seen) <= d.asked /\ Len(d.seen) - d.total_written <= BufSize
    BY <1>2, <1>5, <1>7, <2>1
  <2>3. \A k \in 1..Len(d.buf) : d.seen[d.total_written + k] = d.buf[k]
    BY <1>4, <1>5, <1>7, <2>1
  <2> QED
    BY <1>2, <1>5, <1>7, <2>1, <2>2, <2>3 DEF Counted
<1> QED
  BY <1>7, <1>8, <1>9

LEMMA FilesUnchanged == ASSUME FilesInv, Sourced, UNCHANGED files PROVE FilesInv' /\ Sourced'
  BY DEF FilesInv, files, FilesType, Pathless, Shared, OneWriter, Held, Paths, NoPath, Sourced, OnFile

LEMMA CopyReadKeeps == ASSUME CopyInv, CopyRead PROVE CopyInv'
<1> DEFINE s == copy.from
           to_read == IF copy.size < BufSize THEN copy.size ELSE BufSize
<1>0. /\ FilesInv /\ Sourced /\ Within(memory) /\ copy \in CopyType
      /\ s \in Streams /\ Placed(memory, copy) /\ Counted(copy) /\ copy.pc = "read"
  BY DEF CopyInv, CopyRead
<1>1. PICK readed \in 0..to_read, state \in BOOLEAN :
        /\ Read(s, to_read, readed, state)
        /\ copy' = [copy EXCEPT !.pc = IF readed > 0 THEN "write" ELSE "done",
                                !.buf = BytesAt(stream[s], readed),
                                !.seen = @ \o BytesAt(stream[s], readed)]
  BY DEF CopyRead
<1>2. to_read \in Nat /\ to_read <= copy.size /\ to_read <= BufSize /\ copy.size \in Nat
  BY <1>0, CopyAssumption DEF CopyType
<1> HIDE DEF s, to_read
<1>3. PICK b : b = BytesAt(stream[s], readed)
  OBVIOUS
<1>4. readed \in 0..to_read /\ b \in Seq(Bytes) /\ Len(b) = readed
  BY <1>0, <1>1, <1>2, <1>3, BytesRead
<1>5. PICK d : d = copy' /\ d = [copy EXCEPT !.pc = IF Len(b) > 0 THEN "write" ELSE "done",
                                            !.buf = b, !.seen = @ \o b]
  BY <1>1, <1>3, <1>4
<1>6. Len(b) <= BufSize /\ Len(b) <= copy.size
  BY <1>2, <1>4, CopyAssumption
<1>7. d \in CopyType /\ d.from = s /\ Placed(memory, d) /\ Counted(d)
  BY <1>0, <1>4, <1>5, <1>6, ReadOn DEF s
<1>8. FilesInv' /\ Sourced'
  <2>1. Keeps(s)
    BY <1>0, <1>1, <1>2, UsedKeeps DEF FilesUsed
  <2>2. stream[s].phase = "open" /\ data' = data
    BY <1>1 DEF Read
  <2> QED
    BY <1>0, <2>1, <2>2, SourceKept DEF Sourced
<1>9. memory' = memory
  BY DEF CopyRead
<1>10. Placed(memory, copy)' /\ Counted(copy)' /\ copy'.from \in Streams
  BY <1>0, <1>5, <1>7, <1>9 DEF Placed, Counted
<1> QED
  BY <1>0, <1>5, <1>7, <1>8, <1>9, <1>10 DEF CopyInv, Within, MemoryType, M!Size

(* What a Write of r bytes of the buffer does to the output. *)
Written(m, o, b, r) ==
  /\ o.p_offset = m.p_offset + r
  /\ \A i \in 1..M!Size(m) : o.p[i] = IF i - m.p_offset \in 1..r THEN b[i - m.p_offset] ELSE m.p[i]

(* What was placed stays in place, and what the buffer gives comes after. *)
LEMMA WriteOn ==
  ASSUME Within(memory), NEW c \in CopyType, Placed(memory, c), Counted(c), c.pc = "write",
         NEW o, NEW r \in 0..Len(c.buf), r <= M!Left(memory), Written(memory, o, c.buf, r), Within(o),
         NEW d, NEW pc \in {"read", "done"}, pc = "read" => r = Len(c.buf),
         d = [c EXCEPT !.pc = pc, !.total_written = @ + r, !.size = @ - Len(c.buf), !.buf = <<>>]
  PROVE  d \in CopyType /\ d.from = c.from /\ Placed(o, d) /\ Counted(d)
<1>1. PICK q, b, n, l, size, at :
        q = c.seen /\ b = c.buf /\ n = c.total_written /\ l = Len(b) /\ size = c.size /\ at = c.at
  OBVIOUS
<1>2. /\ n \in Nat /\ l \in Nat /\ size \in Nat /\ at \in Nat
      /\ c.asked \in Nat /\ BufSize \in Nat /\ r \in Nat /\ r <= l
  <2>1. n \in Nat /\ size \in Nat /\ at \in Nat /\ c.asked \in Nat /\ BufSize \in Nat
    BY <1>1, CopyAssumption DEF CopyType
  <2>2. c.buf \in Seq(Bytes)
    BY DEF CopyType
  <2>3. l \in Nat /\ r \in 0..l
    BY <1>1, <2>2
  <2> QED BY <2>1, <2>3
<1>3. /\ Len(q) = n + l /\ n + size = c.asked /\ Len(q) <= c.asked /\ Len(q) - n <= BufSize
      /\ \A k \in 1..l : q[n + k] = b[k]
  BY <1>1 DEF Counted
<1>4. PICK left, total : left = size - l /\ total = n + r
  OBVIOUS
<1>5. left \in Nat /\ total \in Nat /\ total <= n + l
  <2>1. n + l <= n + size
    BY <1>3
  <2>2. l <= size
    BY <1>2, <2>1
  <2>3. left \in Nat
    BY <1>2, <1>4, <2>2
  <2>4. total \in Nat /\ total <= n + l
    BY <1>2, <1>4
  <2> QED BY <2>3, <2>4
<1>6. PICK e \in Seq(Bytes) : e = <<>>
  BY EmptySeq
<1>7. d = [c EXCEPT !.pc = pc, !.total_written = total, !.size = left, !.buf = e]
  BY <1>1, <1>4, <1>6
<1>8. /\ d \in CopyType /\ d.from = c.from /\ d.size = left /\ d.total_written = total
      /\ d.asked = c.asked /\ d.at = at /\ d.seen = q /\ d.pc = pc
  BY <1>1, <1>5, <1>7 DEF CopyType
<1>9. memory.p_offset = at + n /\ \A k \in 1..n : memory.p[at + k] = q[k]
  BY <1>1 DEF Placed
<1>10. /\ o.p_offset = at + total /\ at + total <= M!Size(memory)
       /\ M!Size(memory) \in Nat
  <2>1. o.p_offset = (at + n) + r
    BY <1>9 DEF Written
  <2>2. (at + n) + r <= M!Size(memory) /\ M!Size(memory) \in Nat
    <3>1. PICK z : z = M!Size(memory)
      OBVIOUS
    <3>2. z \in Nat
      BY <3>1 DEF Within, MemoryType, M!Size
    <3>3. r <= z - (at + n)
      BY <1>9, <3>1 DEF M!Left
    <3> QED BY <1>2, <3>1, <3>2, <3>3
  <2> QED
    BY <1>2, <1>4, <2>1, <2>2
<1>11. \A k \in 1..total : o.p[at + k] = q[k]
  <2> SUFFICES ASSUME NEW k \in 1..total PROVE o.p[at + k] = q[k]
    OBVIOUS
  <2>1. PICK i : i = at + k
    OBVIOUS
  <2>2. i \in 1..M!Size(memory) /\ i - memory.p_offset = k - n
    <3>1. i \in Nat /\ i >= 1 /\ i <= at + total
      BY <1>2, <1>5, <2>1
    <3>2. i \in 1..M!Size(memory)
      BY <1>2, <1>5, <1>10, <3>1
    <3>3. i - (at + n) = k - n
      BY <1>2, <2>1
    <3> QED
      BY <1>9, <3>2, <3>3
  <2>3. o.p[i] = IF k - n \in 1..r THEN b[k - n] ELSE memory.p[i]
    BY <1>1, <2>2 DEF Written
  <2>4. CASE k \in 1..n
    BY <1>2, <1>9, <2>1, <2>3, <2>4
  <2>5. CASE k \notin 1..n
    <3>1. k \in Nat /\ k >= 1 /\ k <= n + r /\ n \in Nat /\ r \in Nat /\ l \in Nat /\ r <= l
      BY <1>2, <1>4
    <3>2. k > n
      BY <2>5, <3>1
    <3>3. k - n \in 1..r /\ k - n \in 1..l /\ n + (k - n) = k
      BY <3>1, <3>2
    <3> QED
      BY <1>3, <2>1, <2>3, <3>3
  <2> QED
    BY <2>4, <2>5
<1>12. Placed(o, d)
  BY <1>3, <1>5, <1>8, <1>10, <1>11 DEF Placed
<1>13. Counted(d)
  <2>0. PICK k : k = Len(q)
    OBVIOUS
  <2>a. k = n + l /\ k <= c.asked /\ k - n <= BufSize /\ k - total <= k - n
    BY <1>2, <1>3, <1>4, <1>5, <2>0
  <2>b. k - total <= BufSize
    BY <1>2, <1>5, <2>a
  <2>1. Len(d.seen) <= d.asked /\ Len(d.seen) - d.total_written <= BufSize
    BY <1>8, <2>0, <2>a, <2>b
  <2>2. pc = "read" => Len(d.seen) = d.total_written /\ d.total_written + d.size = d.asked
    BY <1>1, <1>2, <1>3, <1>4, <1>8
  <2> QED
    BY <1>8, <2>1, <2>2 DEF Counted
<1> QED
  BY <1>8, <1>12, <1>13

LEMMA CopyWriteKeeps == ASSUME CopyInv, CopyWrite PROVE CopyInv'
<1>0. /\ FilesInv /\ Sourced /\ Within(memory) /\ copy \in CopyType
      /\ copy.from \in Streams /\ Placed(memory, copy) /\ Counted(copy) /\ copy.pc = "write"
  BY DEF CopyInv, CopyWrite
<1>1. PICK b, l : b = copy.buf /\ l = Len(copy.buf)
  OBVIOUS
<1>2. b \in Seq(Bytes) /\ l \in Nat /\ l = Len(b) /\ IntMax \in Nat
  BY <1>0, <1>1, CopyAssumption DEF CopyType
<1>3. l \in Sizes
  <2>1. copy.total_written \in Nat /\ BufSize \in Nat /\ BufSize <= 2 * IntMax + 1
    BY <1>0, CopyAssumption DEF CopyType
  <2>2. (copy.total_written + l) - copy.total_written <= BufSize
    BY <1>0, <1>1 DEF Counted
  <2> QED
    BY <1>2, <2>1, <2>2 DEF Sizes
<1>4. PICK w : w = M!Write(memory, b, l)
  OBVIOUS
<1>5. w = M!Write(memory, b, l)
  BY <1>4
<1>6. /\ w.r \in 0..M!Left(memory) /\ w.r <= l
      /\ Written(memory, w.stream, b, w.r)
      /\ b \in [1..l -> Bytes] => Within(w.stream)
  BY <1>0, <1>2, <1>3, <1>4, WriteMoves DEF Written
<1>7. Within(w.stream)
  BY <1>2, <1>6
<1>8. w.r \in 0..Len(copy.buf) /\ w.r <= M!Left(memory)
  <2>1. M!Left(memory) \in Nat
    BY <1>0 DEF Within, MemoryType, M!Left, M!Size
  <2> QED
    BY <1>1, <1>2, <1>6, <2>1
<1>9. PICK pc : pc = IF w.threw \/ w.r # l \/ copy.size = l THEN "done" ELSE "read"
  OBVIOUS
<1>10. pc \in {"read", "done"} /\ (pc = "read" => w.r = Len(copy.buf))
  BY <1>1, <1>9
<1>11. PICK d : d = copy' /\ d = [copy EXCEPT !.pc = pc, !.total_written = @ + w.r,
                                             !.size = @ - Len(copy.buf), !.buf = <<>>]
  BY <1>1, <1>5, <1>9 DEF CopyWrite
<1>12. memory' = w.stream /\ UNCHANGED files
  BY <1>1, <1>5 DEF CopyWrite
<1>13. d \in CopyType /\ d.from = copy.from /\ Placed(w.stream, d) /\ Counted(d)
  BY <1>0, <1>1, <1>6, <1>7, <1>8, <1>10, <1>11, WriteOn
<1>14. Placed(memory, copy)' /\ Counted(copy)' /\ Within(memory)'
  BY <1>7, <1>11, <1>12, <1>13 DEF Placed, Counted, Within, MemoryType, M!Size
<1> QED
  BY <1>0, <1>11, <1>12, <1>13, <1>14, FilesUnchanged DEF CopyInv

LEMMA NoCopyType == NoCopy \in CopyType /\ NoCopy.pc = "none"
<1>1. PICK e \in Seq(Bytes) : e = <<>>
  BY EmptySeq
<1> QED
  BY <1>1 DEF NoCopy, CopyType

(* The copy begins where the output is. *)
LEMMA CopyToKeeps ==
  ASSUME CopyInv, NEW s \in Streams, NEW size \in CopySizes, CopyTo(s, size)
  PROVE  CopyInv'
<1>0. FilesInv /\ Sourced /\ Within(memory) /\ UNCHANGED files /\ memory' = memory
  BY DEF CopyInv, CopyTo
<1>1. PICK at : at = memory.p_offset
  OBVIOUS
<1>2. at \in Nat /\ size \in Nat /\ BufSize \in Nat
  BY <1>0, <1>1, CopyAssumption DEF Within, MemoryType
<1>3. PICK d : d = copy' /\ d = [NoCopy EXCEPT !.pc = "read", !.from = s, !.size = size,
                                               !.asked = size, !.at = at]
  BY <1>1 DEF CopyTo
<1>4. d \in CopyType /\ d.from = s /\ d.pc = "read" /\ d.size = size /\ d.asked = size /\ d.at = at
  <2>1. PICK c \in CopyType : c = NoCopy
    BY NoCopyType
  <2>2. d = [c EXCEPT !.pc = "read", !.from = s, !.size = size, !.asked = size, !.at = at]
    BY <1>3, <2>1
  <2> QED
    BY <1>2, <2>2 DEF CopyType
<1>5. d.total_written = 0 /\ d.seen = <<>>
  BY <1>3, NoCopyType DEF NoCopy, CopyType
<1>6. Len(d.seen) = 0
  BY <1>5, EmptySeq
<1>7. Placed(memory, d)
  BY <1>1, <1>2, <1>4, <1>5, <1>6 DEF Placed
<1>8. Counted(d)
  BY <1>2, <1>4, <1>5, <1>6 DEF Counted
<1>9. Placed(memory, copy)' /\ Counted(copy)' /\ Within(memory)'
  BY <1>0, <1>3, <1>7, <1>8 DEF Placed, Counted, Within, MemoryType, M!Size
<1> QED
  BY <1>0, <1>3, <1>4, <1>9, FilesUnchanged DEF CopyInv

LEMMA OutputKeeps == ASSUME CopyInv, MoveOutput \/ AssignOutput PROVE CopyInv'
<1>0. FilesInv /\ Sourced /\ Within(memory) /\ UNCHANGED files /\ IntMax \in Nat
  BY CopyAssumption DEF CopyInv, MoveOutput, AssignOutput
<1>1. CASE MoveOutput
  <2>1. PICK origin \in M!Origins(memory), by \in -1..1 : memory' = M!Seek(memory, origin + by)
    BY <1>1 DEF MoveOutput, SeekMemory
  <2>2. origin + by \in Int
    BY <1>0, <2>1 DEF M!Origins, M!Size, Within, MemoryType
  <2>3. PICK m : m = memory' /\ Within(m)
    BY <1>0, <2>1, <2>2, SeekWithin
  <2>4. Within(memory)'
    BY <2>3 DEF Within, MemoryType, M!Size
  <2> QED
    BY <1>0, <1>1, <2>4, FilesUnchanged DEF CopyInv, MoveOutput
<1>2. CASE AssignOutput
  <2>1. PICK p \in Seq(Bytes), throw \in BOOLEAN : memory' = M!Assign(p, throw)
    BY <1>0, <1>2, CopyAssumption DEF AssignOutput, Within, MemoryType
  <2>2. PICK m : m = memory' /\ Within(m)
    BY <1>0, <2>1, AssignWithin
  <2>3. Within(memory)'
    BY <2>2 DEF Within, MemoryType, M!Size
  <2> QED
    BY <1>0, <1>2, <2>3, NoCopyType, FilesUnchanged DEF CopyInv, AssignOutput
<1> QED
  BY <1>1, <1>2

LEMMA CopyInitInv == CopyInit => CopyInv
<1> SUFFICES ASSUME CopyInit PROVE CopyInv
  OBVIOUS
<1>1. FilesInv /\ IntMax \in Nat
  BY FilesInitInv, CopyAssumption DEF CopyInit
<1>2. Sourced
  BY FileAssumption, NoStreamType DEF CopyInit, FilesInit, Sourced, OnFile
<1>3. PICK p \in Seq(Bytes), throw \in BOOLEAN : memory = M!Assign(p, throw)
  BY CopyAssumption DEF CopyInit
<1>4. Within(memory)
  BY <1>1, <1>3, AssignWithin
<1> QED
  BY <1>1, <1>2, <1>4, NoCopyType DEF CopyInit, CopyInv

(* At every point of CopyTo's loop its locals agree with both streams:     *)
(* what the output has, what the buffer holds and what was read before add *)
(* up, whatever other threads do to the file meanwhile.                    *)
THEOREM CopyInvariant == CopySpec => []CopyInv
<1>1. CopyInv /\ [Copying]_<<files, memory, copy>> => CopyInv'
  <2>1. ASSUME CopyInv, NEW s \in Streams, Others(s) PROVE CopyInv'
    <3>1. FilesInv' /\ Sourced'
      BY <2>1, OthersKeep DEF CopyInv
    <3>2. memory' = memory /\ copy' = copy
      BY <2>1 DEF Others
    <3> QED
      BY <2>1, <3>1, <3>2 DEF CopyInv, Within, MemoryType, M!Size, Placed, Counted
  <2>2. ASSUME CopyInv, UNCHANGED <<files, memory, copy>> PROVE CopyInv'
    <3>1. FilesInv' /\ Sourced'
      BY <2>2, FilesUnchanged DEF CopyInv
    <3> QED
      BY <2>2, <3>1 DEF CopyInv, Within, MemoryType, M!Size, Placed, Counted
  <2> QED
    BY <2>1, <2>2, CopyToKeeps, CopyReadKeeps, CopyWriteKeeps, OutputKeeps DEF Copying
<1> QED
  BY <1>1, CopyInitInv, PTL DEF CopySpec

(* CopiedInOrder: whatever short reads, full outputs and other threads     *)
(* make of it, what CopyTo has written is the start of what it has read,   *)
(* at most what it was asked for, and no more than a buffer is lost.       *)
THEOREM CopiesInOrder == CopySpec => []CopiedInOrder
<1>1. CopyInv => CopiedInOrder
  <2> SUFFICES ASSUME CopyInv, copy.pc # "none"
               PROVE  LET n == copy.total_written
                      IN  /\ Len(copy.seen) <= copy.asked
                          /\ SubSeq(memory.p, copy.at + 1, copy.at + n) = SubSeq(copy.seen, 1, n)
                          /\ memory.p_offset = copy.at + n
                          /\ Len(copy.seen) - n <= BufSize
                          /\ copy.pc = "read" => Len(copy.seen) = n
    BY DEF CopiedInOrder
  <2>0. Within(memory) /\ copy \in CopyType /\ Placed(memory, copy) /\ Counted(copy)
    BY DEF CopyInv
  <2>1. PICK p, q, n, at : p = memory.p /\ q = copy.seen /\ n = copy.total_written /\ at = copy.at
    OBVIOUS
  <2>2. /\ p \in Seq(Bytes) /\ q \in Seq(Bytes) /\ n \in Nat /\ at \in Nat
        /\ n <= Len(q) /\ at + n <= Len(p) /\ \A k \in 1..n : p[at + k] = q[k]
    BY <2>0, <2>1 DEF Within, MemoryType, M!Size, CopyType, Placed
  <2>3. PICK r, t : r = SubSeq(p, at + 1, at + n) /\ t = SubSeq(q, 1, n)
    OBVIOUS
  <2>4. /\ r \in Seq(Bytes)
        /\ Len(r) = IF at + 1 <= at + n THEN (at + n) - (at + 1) + 1 ELSE 0
        /\ \A i \in 1..((at + n) - (at + 1) + 1) : r[i] = p[(at + 1) + i - 1]
    <3>1. at + 1 \in Int /\ at + n \in Int /\ \A i \in (at + 1)..(at + n) : p[i] \in Bytes
      BY <2>2
    <3> QED
      BY <2>3, <3>1, SubSeqProperties
  <2>5. /\ t \in Seq(Bytes) /\ Len(t) = IF 1 <= n THEN n - 1 + 1 ELSE 0
        /\ \A i \in 1..(n - 1 + 1) : t[i] = q[1 + i - 1]
    <3>1. 1 \in Int /\ n \in Int /\ \A i \in 1..n : q[i] \in Bytes
      BY <2>2
    <3> QED
      BY <2>3, <3>1, SubSeqProperties
  <2>6. Len(r) = n /\ Len(t) = n
    BY <2>2, <2>4, <2>5
  <2>7. \A i \in 1..n : r[i] = p[at + i] /\ t[i] = q[i]
    BY <2>2, <2>4, <2>5
  <2>8. \A i \in 1..n : r[i] = t[i]
    BY <2>2, <2>7
  <2>9. r = t
    BY <2>4, <2>5, <2>6, <2>8
  <2> QED
    BY <2>0, <2>1, <2>3, <2>9 DEF Placed, Counted
<1> QED
  BY <1>1, CopyInvariant, PTL

(* TransfersWhole: during copies, and in any other sequence of calls of a  *)
(* MemoryStream, Read and Write with any size a caller can name stay       *)
(* within the memory, move what is asked for - 2^31 less, of a size of     *)
(* 2^31 and more - as far as there is, if the offset fits an int32, and    *)
(* say so if it does not.                                                  *)
THEOREM TransfersAll == CopySpec \/ MemorySpec => []TransfersWhole
<1>1. CopyInv => TransfersWhole
  BY CopyAssumption, WithinTransfers DEF CopyInv
<1>2. MemorySpec => []TransfersWhole
  BY CopyAssumption, MovesAllThereIs
<1> QED
  BY <1>1, <1>2, CopyInvariant, PTL
-----------------------------------------------------------------------------
Cell == DynamicBytes \cup {Junk}
Block == [1..N -> Cell]
WriteLoop == [blocks : Seq(Block), at : Nat \ {0}, pad : 0..(N - 1), left : Seq(DynamicBytes)]
ReadLoop == [blocks : Seq(Block), at : Nat \ {0}, pad : 0..(N - 1), size : Nat, room : Nat,
             read : Seq(Cell)]

(* The byte at a position of the storage, from 0 on. *)
ByteAt(bs, i) == bs[(i \div N) + 1][(i % N) + 1]

(* The bytes that fit in the blocks. *)
Space(bs) == Len(bs) * N

LEMMA DivMod ==
  ASSUME NEW x \in Nat
  PROVE  \E q \in Nat, r \in 0..(N - 1) : q = x \div N /\ r = x % N /\ q * N + r = x
<1>0. N \in Nat \ {0}
  BY StreamsAssumption
<1>1. PICK q, r : q = x \div N /\ r = x % N
  OBVIOUS
<1>2. q \in Nat /\ r \in 0..(N - 1)
  BY <1>0, <1>1
<1>3. q * N + r = x
  BY <1>0, <1>1
<1> QED BY <1>1, <1>2, <1>3

LEMMA Product == ASSUME NEW a \in Nat, NEW b \in Nat PROVE a * b \in Nat
  OBVIOUS

LEMMA Monotone ==
  ASSUME NEW a \in Nat, NEW b \in Nat, a <= b
  PROVE  a * N <= b * N
<1>1. PICK d \in Nat : b = a + d
  <2>1. b - a \in Nat /\ b = a + (b - a)
    OBVIOUS
  <2> QED BY <2>1
<1>2. b * N = a * N + d * N
  BY <1>1, StreamsAssumption
<1>3. d * N \in Nat /\ a * N \in Nat
  BY StreamsAssumption, Product
<1> QED BY <1>2, <1>3

LEMMA SpaceGrows ==
  ASSUME NEW bs, NEW nb, Len(bs) \in Nat, Len(nb) \in Nat, Len(bs) <= Len(nb)
  PROVE  Space(bs) \in Nat /\ Space(nb) \in Nat /\ Space(bs) <= Space(nb)
<1>1. PICK k \in Nat, l \in Nat : k = Len(bs) /\ l = Len(nb)
  OBVIOUS
<1>2. k * N \in Nat /\ l * N \in Nat
  BY StreamsAssumption, Product
<1>3. k * N <= l * N
  BY <1>1, Monotone
<1> QED BY <1>1, <1>2, <1>3 DEF Space

LEMMA Places ==
  ASSUME NEW k \in Nat, NEW j \in 0..(N - 1)
  PROVE  (k * N + j) \div N = k /\ (k * N + j) % N = j /\ k * N + j \in Nat
<1>1. k * N + j \in Nat
  BY StreamsAssumption, Product
<1> QED BY <1>1, StreamsAssumption

(* Which block a position before or inside another is in. *)
LEMMA Before ==
  ASSUME NEW i \in Nat, NEW b \in Nat, NEW pad \in 0..N, i < b * N + pad
  PROVE  i \div N <= b /\ (i \div N = b => i % N < pad)
<1>1. PICK k \in Nat, j \in 0..(N - 1) : k = i \div N /\ j = i % N /\ k * N + j = i
  BY DivMod
<1>2. k \in Nat /\ j \in 0..(N - 1) /\ k * N + j = i
  BY <1>1
<1>3. b * N \in Nat /\ k * N \in Nat
  BY <1>2, StreamsAssumption, Product
<1>4. k <= b
  <2> SUFFICES ASSUME b + 1 <= k PROVE FALSE
    BY <1>2
  <2>1. (b + 1) * N <= k * N
    BY <1>2, Monotone
  <2>2. (b + 1) * N = b * N + N
    BY StreamsAssumption
  <2> QED BY <1>2, <1>3, <2>1, <2>2, StreamsAssumption
<1>5. k = b => j < pad
  BY <1>2, <1>3
<1> QED BY <1>1, <1>4, <1>5

LEMMA Overwritten ==
  ASSUME NEW old \in Block, NEW pad \in 0..(N - 1), NEW piece \in Seq(DynamicBytes), Len(piece) <= N - pad
  PROVE  /\ D!Overwrite(old, pad, piece) \in Block
         /\ \A j \in 0..(pad - 1) : D!Overwrite(old, pad, piece)[j + 1] = old[j + 1]
         /\ \A j \in 0..(Len(piece) - 1) : D!Overwrite(old, pad, piece)[pad + j + 1] = piece[j + 1]
<1>0. N \in Nat \ {0}
  BY StreamsAssumption
<1>1. PICK l, new : l = Len(piece) /\ new = D!Overwrite(old, pad, piece)
  OBVIOUS
<1>2. l \in Nat /\ \A j \in 1..l : piece[j] \in DynamicBytes
  BY <1>1
<1>3. \A i \in 1..N : new[i] = IF i - pad \in 1..l THEN piece[i - pad] ELSE old[i]
  BY <1>1 DEF D!Overwrite
<1>4. new \in Block
  <2>1. \A i \in 1..N : (IF i - pad \in 1..l THEN piece[i - pad] ELSE old[i]) \in Cell
    BY <1>2 DEF Cell, Block
  <2> QED BY <1>1, <2>1 DEF D!Overwrite, Block
<1>5. ASSUME NEW j \in 0..(pad - 1) PROVE new[j + 1] = old[j + 1]
  <2>1. j + 1 \in 1..N /\ j + 1 - pad \notin 1..l
    BY <1>0, <1>2
  <2> QED BY <1>3, <2>1
<1>6. ASSUME NEW j \in 0..(l - 1) PROVE new[pad + j + 1] = piece[j + 1]
  <2>1. pad + j + 1 \in 1..N /\ pad + j + 1 - pad = j + 1 /\ j + 1 \in 1..l
    BY <1>0, <1>1, <1>2
  <2> QED BY <1>3, <2>1
<1> QED BY <1>1, <1>4, <1>5, <1>6

(* In nb, piece overwrites the block with index b of bs, or a new one,     *)
(* after pad bytes; this is position x of the storage.                     *)
BlockPut(bs, nb, b, pad, piece, old, x) ==
  /\ bs \in Seq(Block) /\ nb \in Seq(Block) /\ b \in Nat /\ pad \in 0..(N - 1)
  /\ piece \in Seq(DynamicBytes) /\ Len(piece) <= N - pad /\ b < Len(nb)
  /\ old \in Block /\ nb[b + 1] = D!Overwrite(old, pad, piece)
  /\ IF b < Len(bs) THEN old = bs[b + 1] ELSE pad = 0
  /\ \A k \in 1..Len(bs) : k # b + 1 => nb[k] = bs[k]
  /\ x \in Nat /\ x = b * N + pad

(* The bytes before x are those of bs, and piece follows. *)
Follows(bs, nb, piece, x) ==
  /\ \A i \in Nat : i < x /\ i < Space(bs) => ByteAt(nb, i) = ByteAt(bs, i)
  /\ \A i \in 0..(Len(piece) - 1) : ByteAt(nb, x + i) = piece[i + 1]

LEMMA BlockPlaced ==
  ASSUME NEW bs, NEW nb, NEW b, NEW pad, NEW piece, NEW old, NEW x, BlockPut(bs, nb, b, pad, piece, old, x)
  PROVE  Follows(bs, nb, piece, x)
<1>0. N \in Nat \ {0} /\ Len(bs) \in Nat /\ Len(piece) \in Nat
  BY StreamsAssumption DEF BlockPut
<1>a. /\ bs \in Seq(Block) /\ nb \in Seq(Block) /\ b \in Nat /\ pad \in 0..(N - 1)
      /\ piece \in Seq(DynamicBytes) /\ Len(piece) <= N - pad /\ b < Len(nb)
      /\ old \in Block /\ nb[b + 1] = D!Overwrite(old, pad, piece)
  BY DEF BlockPut
<1>b. /\ b < Len(bs) => old = bs[b + 1]
      /\ \A k \in 1..Len(bs) : k # b + 1 => nb[k] = bs[k]
  BY DEF BlockPut
<1>c. x \in Nat /\ x = b * N + pad
  BY DEF BlockPut
<1>1. ASSUME NEW i \in Nat, i < x, i < Space(bs)
      PROVE  ByteAt(nb, i) = ByteAt(bs, i)
  <2>1. PICK k \in Nat, j \in 0..(N - 1) : k = i \div N /\ j = i % N
    BY DivMod
  <2>2. k \in Nat /\ j \in 0..(N - 1)
    OBVIOUS
  <2>3. k <= b /\ (k = b => j < pad)
    <3>1. pad \in 0..N
      BY <1>0, <1>a
    <3> QED BY <1>1, <1>a, <1>c, <2>1, <3>1, Before
  <2>4. k < Len(bs)
    <3>1. i < Len(bs) * N + 0 /\ 0 \in 0..N
      BY <1>0, <1>a, <1>b, <1>c, <1>1, Product DEF Space
    <3>2. k <= Len(bs) /\ (k = Len(bs) => j < 0)
      BY <1>0, <1>a, <1>b, <1>c, <2>1, <3>1, Before
    <3> QED BY <1>0, <1>a, <1>b, <1>c, <2>2, <3>2
  <2>5. CASE k = b
    <3>1. j \in 0..(pad - 1) /\ old = bs[b + 1]
      BY <1>a, <1>b, <2>2, <2>3, <2>4, <2>5
    <3>2. D!Overwrite(old, pad, piece)[j + 1] = old[j + 1]
      BY <1>a, <3>1, Overwritten
    <3> QED BY <1>a, <1>b, <2>1, <2>5, <3>1, <3>2 DEF ByteAt
  <2>6. CASE k # b
    <3>1. k + 1 \in 1..Len(bs) /\ k + 1 # b + 1
      BY <1>0, <1>a, <1>b, <1>c, <2>2, <2>4, <2>6
    <3> QED BY <1>a, <1>b, <2>1, <3>1 DEF ByteAt
  <2> QED BY <2>5, <2>6
<1>2. ASSUME NEW i \in 0..(Len(piece) - 1)
      PROVE  ByteAt(nb, x + i) = piece[i + 1]
  <2>1. PICK j \in 0..(N - 1) : j = pad + i
    BY <1>0, <1>a
  <2>2. b * N + j = x + i
    BY <1>0, <1>a, <1>b, <1>c, <2>1, Product
  <2>3. (b * N + j) \div N = b /\ (b * N + j) % N = j
    BY <1>a, Places
  <2>4. D!Overwrite(old, pad, piece)[pad + i + 1] = piece[i + 1]
    BY <1>a, Overwritten
  <2> QED BY <1>a, <1>b, <2>1, <2>2, <2>3, <2>4 DEF ByteAt
<1> QED BY <1>1, <1>a, <1>c, <1>2 DEF Follows

(* The bytes that are where they belong after a pass of Write: those that  *)
(* were there before the offset, and the first m of data.                  *)
InPlace(bs, offset, bytes, nb, m) ==
  /\ \A i \in Nat : i < offset /\ i < Space(bs) => ByteAt(nb, i) = ByteAt(bs, i)
  /\ \A i \in 0..(m - 1) : ByteAt(nb, offset + i) = bytes[i + 1]

(* What is left of data after the first m. *)
Rest(bytes, m, left) ==
  /\ Len(left) = Len(bytes) - m
  /\ \A i \in 0..(Len(left) - 1) : left[i + 1] = bytes[m + i + 1]

WriteInv(bs, offset, bytes, p) ==
  /\ p \in WriteLoop /\ Len(bs) <= Len(p.blocks)
  /\ \E m \in 0..Len(bytes) :
       /\ Rest(bytes, m, p.left) /\ InPlace(bs, offset, bytes, p.blocks, m)
       /\ offset + m <= Space(p.blocks)
       /\ Len(p.left) # 0 => /\ (p.at - 1) * N + p.pad = offset + m
                             /\ p.at <= Len(p.blocks) + 1
                             /\ p.at = Len(p.blocks) + 1 => p.pad = 0

LEMMA Split ==
  ASSUME NEW S, NEW left \in Seq(S), NEW n \in Nat, n <= Len(left)
  PROVE  /\ SubSeq(left, 1, n) \in Seq(S) /\ Len(SubSeq(left, 1, n)) = n
         /\ \A i \in 0..(n - 1) : SubSeq(left, 1, n)[i + 1] = left[i + 1]
         /\ SubSeq(left, n + 1, Len(left)) \in Seq(S) /\ Len(SubSeq(left, n + 1, Len(left))) = Len(left) - n
         /\ \A i \in 0..(Len(left) - n - 1) : SubSeq(left, n + 1, Len(left))[i + 1] = left[n + i + 1]
<1>0. Len(left) \in Nat /\ \A i \in 1..Len(left) : left[i] \in S
  OBVIOUS
<1>1. PICK a, b : a = SubSeq(left, 1, n) /\ b = SubSeq(left, n + 1, Len(left))
  OBVIOUS
<1>2. a \in Seq(S) /\ Len(a) = n /\ \A i \in 1..n : a[i] = left[i]
  <2>1. \A i \in 1..n : left[i] \in S
    BY <1>0
  <2> QED BY <1>1, <2>1, SubSeqProperties
<1>3. b \in Seq(S) /\ Len(b) = Len(left) - n /\ \A i \in 1..(Len(left) - n) : b[i] = left[n + i]
  BY <1>0, <1>1, SubSeqProperties
<1>4. \A i \in 0..(n - 1) : a[i + 1] = left[i + 1]
  BY <1>2
<1>5. \A i \in 0..(Len(left) - n - 1) : b[i + 1] = left[n + i + 1]
  <2> SUFFICES ASSUME NEW i \in 0..(Len(left) - n - 1) PROVE b[i + 1] = left[n + i + 1]
    OBVIOUS
  <2>1. i + 1 \in 1..(Len(left) - n) /\ n + (i + 1) = n + i + 1
    BY <1>0
  <2> QED BY <1>3, <2>1
<1> QED BY <1>1, <1>2, <1>3, <1>4, <1>5

LEMMA Fewer ==
  ASSUME NEW bytes, NEW m \in Nat, NEW left, NEW n \in Nat, NEW rest, Len(left) \in Nat, n <= Len(left),
         Rest(bytes, m, left), Len(rest) = Len(left) - n,
         \A i \in 0..(Len(left) - n - 1) : rest[i + 1] = left[n + i + 1], Len(bytes) \in Nat
  PROVE  Rest(bytes, m + n, rest)
<1>1. Len(rest) = Len(bytes) - (m + n)
  BY DEF Rest
<1>2. ASSUME NEW i \in 0..(Len(rest) - 1) PROVE rest[i + 1] = bytes[m + n + i + 1]
  <2>1. n + i \in 0..(Len(left) - 1)
    OBVIOUS
  <2>2. left[(n + i) + 1] = bytes[m + (n + i) + 1]
    BY <2>1 DEF Rest
  <2>3. m + (n + i) + 1 = m + n + i + 1 /\ (n + i) + 1 = n + i + 1
    OBVIOUS
  <2> QED BY <2>2, <2>3
<1> QED BY <1>1, <1>2 DEF Rest

(* A pass that puts the next n bytes of what is left into a block. *)
Stores(p, n, old, nb, q) ==
  /\ n \in Nat /\ n = D!Lesser(N - p.pad, Len(p.left))
  /\ nb \in Seq(Block) /\ Len(p.blocks) <= Len(nb) /\ p.at <= Len(nb)
  /\ old \in Block /\ nb[p.at] = D!Overwrite(old, p.pad, SubSeq(p.left, 1, n))
  /\ p.at <= Len(p.blocks) => old = p.blocks[p.at]
  /\ \A k \in 1..Len(p.blocks) : k # p.at => nb[k] = p.blocks[k]
  /\ q = [blocks |-> nb, at |-> p.at + 1, pad |-> 0, left |-> SubSeq(p.left, n + 1, Len(p.left))]

LEMMA Filled ==
  ASSUME NEW bs \in Seq(Block), NEW offset \in Nat, NEW bytes \in Seq(DynamicBytes), NEW p,
         WriteInv(bs, offset, bytes, p), ~(Len(p.left) = 0),
         NEW n, NEW old, NEW nb, NEW q, Stores(p, n, old, nb, q)
  PROVE  WriteInv(bs, offset, bytes, q) /\ Len(q.left) < Len(p.left)
<1>0. N \in Nat \ {0} /\ Len(bs) \in Nat /\ Len(bytes) \in Nat
  BY StreamsAssumption
<1>1. PICK blocks_, at, pad, left : blocks_ = p.blocks /\ at = p.at /\ pad = p.pad /\ left = p.left
  OBVIOUS
<1>a. n \in Nat /\ n = D!Lesser(N - pad, Len(left))
  BY <1>1 DEF Stores
<1>b. nb \in Seq(Block) /\ Len(blocks_) <= Len(nb) /\ at <= Len(nb) /\ Len(nb) \in Nat
  BY <1>1 DEF Stores
<1>c. /\ old \in Block /\ nb[at] = D!Overwrite(old, pad, SubSeq(left, 1, n))
      /\ at <= Len(blocks_) => old = blocks_[at]
      /\ \A k \in 1..Len(blocks_) : k # at => nb[k] = blocks_[k]
  BY <1>1 DEF Stores
<1>d. q = [blocks |-> nb, at |-> at + 1, pad |-> 0, left |-> SubSeq(left, n + 1, Len(left))]
  BY <1>1 DEF Stores
<1>e. p \in WriteLoop
  BY DEF WriteInv
<1>2. /\ blocks_ \in Seq(Block) /\ at \in Nat \ {0} /\ pad \in 0..(N - 1) /\ left \in Seq(DynamicBytes)
      /\ Len(bs) <= Len(blocks_) /\ Len(blocks_) \in Nat /\ Len(left) \in Nat \ {0}
  <2>1. blocks_ \in Seq(Block) /\ at \in Nat \ {0} /\ pad \in 0..(N - 1) /\ left \in Seq(DynamicBytes)
    BY <1>1, <1>e DEF WriteLoop
  <2>2. Len(bs) <= Len(blocks_)
    BY <1>1 DEF WriteInv
  <2> QED BY <1>1, <2>1, <2>2
<1>3. PICK m \in 0..Len(bytes) :
       /\ Rest(bytes, m, left) /\ InPlace(bs, offset, bytes, blocks_, m)
       /\ offset + m <= Space(blocks_)
       /\ (at - 1) * N + pad = offset + m
       /\ at <= Len(blocks_) + 1 /\ (at = Len(blocks_) + 1 => pad = 0)
  BY <1>1, <1>2 DEF WriteInv
<1>4. PICK b \in Nat : b = at - 1
  BY <1>2
<1>5. PICK piece, rest : piece = SubSeq(left, 1, n) /\ rest = SubSeq(left, n + 1, Len(left))
  OBVIOUS
<1>6. n <= Len(left) /\ n <= N - pad /\ n # 0 /\ (n = N - pad \/ n = Len(left))
  BY <1>0, <1>a, <1>2 DEF D!Lesser
<1>f. n \in Nat /\ Len(left) \in Nat /\ left \in Seq(DynamicBytes) /\ at \in Nat /\ Len(blocks_) \in Nat
  BY <1>a, <1>2
<1>7. /\ piece \in Seq(DynamicBytes) /\ Len(piece) = n /\ \A i \in 0..(n - 1) : piece[i + 1] = left[i + 1]
      /\ rest \in Seq(DynamicBytes) /\ Len(rest) = Len(left) - n
      /\ \A i \in 0..(Len(left) - n - 1) : rest[i + 1] = left[n + i + 1]
  BY <1>f, <1>5, <1>6, Split
<1>8. Rest(bytes, m + n, rest) /\ m + n \in 0..Len(bytes) /\ Len(left) = Len(bytes) - m
  <2>1. Rest(bytes, m + n, rest)
    <3>1. m \in Nat /\ n <= Len(left) /\ Rest(bytes, m, left)
      BY <1>3, <1>6
    <3> QED BY <1>0, <1>f, <1>7, <3>1, Fewer
  <2>2. Len(left) = Len(bytes) - m
    BY <1>3 DEF Rest
  <2>3. m + n \in 0..Len(bytes)
    BY <1>0, <1>f, <1>6, <2>2
  <2> QED BY <2>1, <2>2, <2>3
<1>9. b * N + pad = offset + m /\ b * N \in Nat /\ (b + 1) * N = b * N + N /\ b < Len(nb) /\ b <= Len(blocks_)
  <2>1. b * N + pad = offset + m /\ b <= Len(blocks_)
    BY <1>2, <1>3, <1>4
  <2>2. b * N \in Nat /\ (b + 1) * N = b * N + N
    BY <1>0, Product
  <2>3. b < Len(nb)
    BY <1>b, <1>2, <1>4
  <2> QED BY <2>1, <2>2, <2>3
<1>x. PICK x \in Nat : x = offset + m
  OBVIOUS
<1>10. /\ \A i \in Nat : i < x /\ i < Space(blocks_) => ByteAt(nb, i) = ByteAt(blocks_, i)
       /\ \A i \in 0..(Len(piece) - 1) : ByteAt(nb, x + i) = piece[i + 1]
  <2>1. nb[b + 1] = D!Overwrite(old, pad, piece) /\ b + 1 = at
    BY <1>c, <1>2, <1>4, <1>5
  <2>2. IF b < Len(blocks_) THEN old = blocks_[b + 1] ELSE pad = 0
    <3>1. at \in Nat /\ b < Len(blocks_) => old = blocks_[b + 1]
      BY <1>c, <1>f, <2>1
    <3>2. ~(b < Len(blocks_)) => at = Len(blocks_) + 1
      BY <1>f, <1>9, <2>1
    <3>3. at = Len(blocks_) + 1 => pad = 0
      BY <1>3
    <3> QED BY <1>f, <3>1, <3>2, <3>3
  <2>3. \A k \in 1..Len(blocks_) : k # b + 1 => nb[k] = blocks_[k]
    BY <1>c, <2>1
  <2>4. /\ blocks_ \in Seq(Block) /\ nb \in Seq(Block) /\ b \in Nat /\ pad \in 0..(N - 1)
        /\ piece \in Seq(DynamicBytes) /\ Len(piece) <= N - pad /\ b < Len(nb) /\ old \in Block
    BY <1>b, <1>c, <1>2, <1>6, <1>7, <1>9
  <2>5. offset + m \in Nat /\ offset + m = b * N + pad
    BY <1>9
  <2>6. BlockPut(blocks_, nb, b, pad, piece, old, x)
    BY <1>x, <2>1, <2>2, <2>3, <2>4, <2>5 DEF BlockPut
  <2>7. Follows(blocks_, nb, piece, x)
    BY <2>6, BlockPlaced
  <2> QED BY <1>7, <2>7 DEF Follows
<1>11. InPlace(bs, offset, bytes, nb, m + n)
  <2>1. Space(bs) <= Space(blocks_) /\ Space(bs) \in Nat /\ Space(blocks_) \in Nat
    BY <1>0, <1>2, SpaceGrows
  <2>2. ASSUME NEW i \in Nat, i < offset, i < Space(bs) PROVE ByteAt(nb, i) = ByteAt(bs, i)
    <3>1. i < offset + m /\ i < Space(blocks_)
      BY <1>3, <1>9, <2>1, <2>2
    <3>2. ByteAt(blocks_, i) = ByteAt(bs, i)
      BY <1>3, <2>2 DEF InPlace
    <3> QED BY <1>x, <1>7, <1>10, <3>1, <3>2
  <2>3. ASSUME NEW i \in 0..(m + n - 1) PROVE ByteAt(nb, offset + i) = bytes[i + 1]
    <3>1. CASE i < m
      <4>1. offset + i \in Nat /\ offset + i < offset + m /\ offset + i < Space(blocks_) /\ i \in 0..(m - 1)
        BY <1>3, <1>9, <2>1, <3>1
      <4>2. ByteAt(blocks_, offset + i) = bytes[i + 1]
        BY <1>3, <4>1 DEF InPlace
      <4> QED BY <1>x, <1>7, <1>10, <4>1, <4>2
    <3>2. CASE i >= m
      <4>1. PICK j \in Nat : j = i - m
        BY <3>2
      <4>2. j \in 0..(n - 1) /\ j \in 0..(Len(left) - 1) /\ m + j + 1 = i + 1 /\ offset + i = offset + m + j
        <5>1. i < m + n /\ Len(left) \in Nat
          BY <1>f
        <5>2. j \in 0..(n - 1) /\ m + j + 1 = i + 1
          BY <1>f, <4>1
        <5>3. offset + i = offset + m + j
          BY <1>9, <4>1
        <5> QED BY <1>f, <1>6, <5>2, <5>3
      <4>3. ByteAt(nb, offset + m + j) = piece[j + 1] /\ piece[j + 1] = left[j + 1]
        BY <1>x, <1>7, <1>10, <4>2
      <4>4. left[j + 1] = bytes[m + j + 1]
        BY <1>3, <4>2 DEF Rest
      <4> QED BY <4>2, <4>3, <4>4
    <3> QED BY <3>1, <3>2
  <2>4. \A i \in Nat : i < offset /\ i < Space(bs) => ByteAt(nb, i) = ByteAt(bs, i)
    BY <2>2, Zenon
  <2>5. \A i \in 0..(m + n - 1) : ByteAt(nb, offset + i) = bytes[i + 1]
    BY <2>3, Zenon
  <2> QED BY <1>f, <2>4, <2>5 DEF InPlace
<1>12. offset + (m + n) <= Space(nb)
  <2>1. (b + 1) * N <= Len(nb) * N
    <3>1. b + 1 \in Nat /\ Len(nb) \in Nat /\ b + 1 <= Len(nb)
      BY <1>b, <1>9
    <3> QED BY <3>1, Monotone
  <2>2. Space(nb) \in Nat /\ Space(nb) = Len(nb) * N
    BY <1>0, <1>b, SpaceGrows DEF Space
  <2> QED BY <1>0, <1>f, <1>2, <1>6, <1>9, <2>1, <2>2
<1>13. q \in WriteLoop /\ q.blocks = nb /\ q.left = rest /\ q.pad = 0 /\ q.at = b + 2
  <2>1. q = [blocks |-> nb, at |-> b + 2, pad |-> 0, left |-> rest]
    BY <1>d, <1>2, <1>4, <1>5
  <2>2. 0 \in 0..(N - 1) /\ b + 2 \in Nat \ {0}
    BY <1>0
  <2> QED BY <1>b, <1>7, <2>1, <2>2 DEF WriteLoop
<1>14. Len(rest) # 0 => /\ (q.at - 1) * N + q.pad = offset + (m + n)
                        /\ q.at <= Len(nb) + 1
                        /\ q.at = Len(nb) + 1 => q.pad = 0
  <2> SUFFICES ASSUME Len(rest) # 0
               PROVE  (b + 2 - 1) * N + 0 = offset + (m + n) /\ b + 2 <= Len(nb) + 1
    BY <1>13
  <2>1. n = N - pad
    BY <1>2, <1>6, <1>7
  <2>2. b + 2 - 1 = b + 1
    OBVIOUS
  <2>3. (b + 1) * N + 0 = offset + (m + n)
    BY <1>0, <1>2, <1>3, <1>9, <2>1
  <2> QED BY <1>0, <1>9, <2>2, <2>3
<1>15. WriteInv(bs, offset, bytes, q)
  <2>1. Len(bs) <= Len(nb)
    BY <1>0, <1>b, <1>2
  <2> QED BY <1>8, <1>11, <1>12, <1>13, <1>14, <2>1 DEF WriteInv
<1> QED BY <1>1, <1>2, <1>6, <1>7, <1>13, <1>15

LEMMA WritePassKeeps ==
  ASSUME NEW bs \in Seq(Block), NEW offset \in Nat, NEW bytes \in Seq(DynamicBytes), NEW p,
         WriteInv(bs, offset, bytes, p)
  PROVE  /\ WriteInv(bs, offset, bytes, D!WritePass(p))
         /\ Len(p.left) # 0 => Len(D!WritePass(p).left) < Len(p.left)
         /\ Len(p.left) = 0 => Len(D!WritePass(p).left) = 0
<1>0. p \in WriteLoop /\ p.left \in Seq(DynamicBytes) /\ Len(p.left) \in Nat /\ p.blocks \in Seq(Block)
      /\ Len(p.blocks) \in Nat /\ p.at \in Nat \ {0} /\ p.pad \in 0..(N - 1)
  BY DEF WriteInv, WriteLoop
<1>1. CASE Len(p.left) = 0
  BY <1>0, <1>1 DEF D!WritePass
<1>2. CASE Len(p.left) # 0
  <2>0. p.left # <<>> /\ N \in Nat \ {0}
    BY <1>2, StreamsAssumption
  <2>1. PICK n \in Nat : n = D!Lesser(N - p.pad, Len(p.left))
    <3>1. N - p.pad \in Nat
      BY <1>0, <2>0
    <3> QED BY <1>0, <3>1 DEF D!Lesser
  <2>2. PICK piece, rest : piece = SubSeq(p.left, 1, n) /\ rest = SubSeq(p.left, n + 1, Len(p.left))
    OBVIOUS
  <2>3. n <= N - p.pad /\ n <= Len(p.left) /\ piece \in Seq(DynamicBytes) /\ Len(piece) = n
    <3>1. n <= N - p.pad /\ n <= Len(p.left)
      BY <1>0, <2>0, <2>1 DEF D!Lesser
    <3> QED BY <1>0, <2>2, <3>1, Split
  <2>4. CASE p.at > Len(p.blocks)
    <3>1. p.at = Len(p.blocks) + 1 /\ p.pad = 0
      BY <1>0, <1>2, <2>4 DEF WriteInv
    <3>2. PICK old : old = D!NewBlock
      OBVIOUS
    <3>3. old \in Block
      BY <3>2 DEF D!NewBlock, Block, Cell
    <3>4. PICK block : block = D!Overwrite(old, 0, piece)
      OBVIOUS
    <3>5. block \in Block
      BY <2>0, <2>3, <3>1, <3>3, <3>4, Overwritten
    <3>6. PICK nb : nb = Append(p.blocks, block)
      OBVIOUS
    <3>7. /\ nb \in Seq(Block) /\ Len(nb) = Len(p.blocks) + 1 /\ nb[p.at] = block
          /\ \A k \in 1..Len(p.blocks) : nb[k] = p.blocks[k]
      BY <1>0, <3>1, <3>5, <3>6
    <3>8. D!WritePass(p) = [blocks |-> nb, at |-> p.at + 1, pad |-> 0, left |-> rest]
      <4>1. D!Lesser(N, Len(p.left)) = n
        BY <2>0, <2>1, <3>1
      <4>2. D!WritePass(p) = D!AddBlock(p)
        BY <2>0, <2>4 DEF D!WritePass
      <4> QED BY <2>2, <3>2, <3>4, <3>6, <4>1, <4>2, Zenon DEF D!AddBlock
    <3>9. WriteInv(bs, offset, bytes, D!WritePass(p)) /\ Len(D!WritePass(p).left) < Len(p.left)
      <4>1. Len(p.blocks) <= Len(nb) /\ p.at <= Len(nb) /\ (p.at <= Len(p.blocks) => old = p.blocks[p.at])
        BY <1>0, <3>1, <3>7
      <4>2. nb[p.at] = D!Overwrite(old, p.pad, SubSeq(p.left, 1, n))
        BY <2>2, <3>1, <3>4, <3>7
      <4>3. Stores(p, n, old, nb, D!WritePass(p))
        BY <2>1, <2>2, <3>3, <3>7, <3>8, <4>1, <4>2 DEF Stores
      <4> QED BY <1>2, <4>3, Filled
    <3> QED BY <1>2, <3>9
  <2>5. CASE ~(p.at > Len(p.blocks))
    <3>1. p.at \in 1..Len(p.blocks)
      BY <1>0, <2>5
    <3>2. PICK old \in Block : old = p.blocks[p.at]
      BY <1>0, <3>1
    <3>4. PICK block : block = D!Overwrite(old, p.pad, piece)
      OBVIOUS
    <3>5. block \in Block
      BY <1>0, <2>3, <3>4, Overwritten
    <3>6. PICK nb : nb = [p.blocks EXCEPT ![p.at] = block]
      OBVIOUS
    <3>7. /\ nb \in Seq(Block) /\ Len(nb) = Len(p.blocks) /\ nb[p.at] = block
          /\ \A k \in 1..Len(p.blocks) : k # p.at => nb[k] = p.blocks[k]
      BY <1>0, <3>1, <3>5, <3>6
    <3>8. D!WritePass(p) = [blocks |-> nb, at |-> p.at + 1, pad |-> 0, left |-> rest]
      <4>1. D!WritePass(p) = D!FillBlock(p)
        BY <2>0, <2>5 DEF D!WritePass
      <4>2. nb = [p.blocks EXCEPT ![p.at] = D!Overwrite(p.blocks[p.at], p.pad, piece)]
        BY <3>2, <3>4, <3>6
      <4> QED BY <2>1, <2>2, <4>1, <4>2 DEF D!FillBlock
    <3>9. WriteInv(bs, offset, bytes, D!WritePass(p)) /\ Len(D!WritePass(p).left) < Len(p.left)
      <4>1. Len(p.blocks) <= Len(nb) /\ p.at <= Len(nb)
        BY <1>0, <3>1, <3>7
      <4>2. nb[p.at] = D!Overwrite(old, p.pad, SubSeq(p.left, 1, n))
        BY <2>2, <3>4, <3>7
      <4>3. Stores(p, n, old, nb, D!WritePass(p))
        BY <2>1, <2>2, <3>2, <3>7, <3>8, <4>1, <4>2 DEF Stores
      <4> QED BY <1>2, <4>3, Filled
    <3> QED BY <1>2, <3>9
  <2> QED BY <2>4, <2>5
<1> QED BY <1>1, <1>2

(* The states of a loop's passes, each of which lessens what is to do. *)
Lessens(f, A, left) ==
  \A k \in Nat : f[k] \in A =>
    /\ f[k + 1] \in A
    /\ left[f[k]] # 0 => left[f[k + 1]] < left[f[k]]
    /\ left[f[k]] = 0 => left[f[k + 1]] = 0

LEMMA Passed ==
  ASSUME NEW A, NEW a \in A, NEW left \in [A -> Nat], NEW f, f[0] = a, Lessens(f, A, left)
  PROVE  f[left[a]] \in A /\ left[f[left[a]]] = 0
<1> DEFINE T == {k \in Nat : f[k] \in A /\ (left[f[k]] + k <= left[a] \/ left[f[k]] = 0)}
<1>0. left[a] \in Nat
  OBVIOUS
<1>1. 0 \in T
  BY <1>0
<1>2. ASSUME NEW k \in Nat, k \in T PROVE k + 1 \in T
  <2>1. f[k] \in A /\ f[k + 1] \in A /\ left[f[k]] \in Nat /\ left[f[k + 1]] \in Nat
    BY <1>2 DEF Lessens
  <2>2. left[f[k + 1]] + (k + 1) <= left[a] \/ left[f[k + 1]] = 0
    BY <1>0, <1>2, <2>1 DEF Lessens
  <2> QED BY <2>1, <2>2
<1> HIDE DEF T
<1>3. \A k \in Nat : k \in T
  BY <1>1, <1>2, Induction
<1>4. left[a] \in T
  BY <1>0, <1>3
<1>5. f[left[a]] \in A /\ left[f[left[a]]] \in Nat
  BY <1>4 DEF T
<1> QED BY <1>0, <1>4, <1>5 DEF T

LEMMA WritePassesDefined ==
  ASSUME NEW bs \in Seq(Block), NEW offset \in Nat, NEW bytes \in Seq(DynamicBytes), NEW p,
         WriteInv(bs, offset, bytes, p)
  PROVE  \A k \in Nat : D!WritePasses(p)[k] = IF k = 0 THEN p ELSE D!WritePass(D!WritePasses(p)[k - 1])
<1> DEFINE A == {x \in WriteLoop : WriteInv(bs, offset, bytes, x)}
<1>1. p \in A
  BY DEF WriteInv
<1>2. \A x \in A : D!WritePass(x) \in A
  <2> SUFFICES ASSUME NEW x \in A PROVE D!WritePass(x) \in A
    OBVIOUS
  <2>1. WriteInv(bs, offset, bytes, D!WritePass(x))
    BY WritePassKeeps
  <2> QED BY <2>1 DEF WriteInv
<1> HIDE DEF A
<1>3. PICK next : next = [x \in A |-> D!WritePass(x)]
  OBVIOUS
<1>4. next \in [A -> A]
  BY <1>2, <1>3
<1>5. PICK f \in [Nat -> A] : Repeats(f, p, next)
  BY <1>1, <1>4, Repeat
<1>6. ASSUME NEW n \in Nat PROVE f[n] = IF n = 0 THEN p ELSE D!WritePass(f[n - 1])
  <2> SUFFICES ASSUME n # 0 PROVE f[n] = D!WritePass(f[n - 1])
    BY <1>5 DEF Repeats
  <2>1. n - 1 \in Nat /\ (n - 1) + 1 = n
    OBVIOUS
  <2>2. f[n - 1] \in A /\ f[n] = next[f[n - 1]]
    BY <1>5, <2>1 DEF Repeats
  <2> QED BY <1>3, <2>2
<1>7. f = [n \in Nat |-> IF n = 0 THEN p ELSE D!WritePass(f[n - 1])]
  <2>1. f = [n \in Nat |-> f[n]]
    OBVIOUS
  <2> QED BY <1>6, <2>1
<1>8. \E g : g = [n \in Nat |-> IF n = 0 THEN p ELSE D!WritePass(g[n - 1])]
  BY <1>7
<1>9. D!WritePasses(p) = [n \in Nat |-> IF n = 0 THEN p ELSE D!WritePass(D!WritePasses(p)[n - 1])]
  BY <1>8, Zenon DEF D!WritePasses
<1> QED BY <1>9

LEMMA WritesAll ==
  ASSUME NEW bs \in Seq(Block), NEW offset \in Nat, NEW bytes \in Seq(DynamicBytes), NEW p,
         WriteInv(bs, offset, bytes, p), Len(p.left) = Len(bytes)
  PROVE  LET r == D!WritePasses(p)[Len(bytes)] IN WriteInv(bs, offset, bytes, r) /\ Len(r.left) = 0
<1> DEFINE A == {x \in WriteLoop : WriteInv(bs, offset, bytes, x)}
<1>1. PICK left : left = [x \in A |-> Len(x.left)]
  OBVIOUS
<1>2. left \in [A -> Nat] /\ p \in A /\ \A x \in A : left[x] = Len(x.left)
  <2>1. \A x \in A : Len(x.left) \in Nat
    <3> SUFFICES ASSUME NEW x \in A PROVE Len(x.left) \in Nat
      OBVIOUS
    <3>1. x.left \in Seq(DynamicBytes)
      BY DEF WriteLoop
    <3> QED BY <3>1
  <2>2. p \in A
    BY DEF WriteInv
  <2> QED BY <1>1, <2>1, <2>2
<1>3. PICK f : f = D!WritePasses(p)
  OBVIOUS
<1>4. f[0] = p /\ \A k \in Nat : f[k + 1] = D!WritePass(f[k])
  <2>1. \A k \in Nat : f[k] = IF k = 0 THEN p ELSE D!WritePass(f[k - 1])
    BY <1>3, WritePassesDefined
  <2>2. \A k \in Nat : k + 1 \in Nat /\ k + 1 # 0 /\ (k + 1) - 1 = k
    OBVIOUS
  <2>3. ASSUME NEW k \in Nat PROVE f[k + 1] = D!WritePass(f[k])
    BY <2>1, <2>2
  <2> QED BY <2>1, <2>3
<1>5. ASSUME NEW k \in Nat, f[k] \in A
      PROVE  /\ f[k + 1] \in A
             /\ left[f[k]] # 0 => left[f[k + 1]] < left[f[k]]
             /\ left[f[k]] = 0 => left[f[k + 1]] = 0
  <2>1. PICK x, y : x = f[k] /\ y = f[k + 1]
    OBVIOUS
  <2>2. y = D!WritePass(x) /\ x \in A /\ WriteInv(bs, offset, bytes, x)
    BY <1>4, <1>5, <2>1
  <2>3. /\ WriteInv(bs, offset, bytes, y)
        /\ Len(x.left) # 0 => Len(y.left) < Len(x.left)
        /\ Len(x.left) = 0 => Len(y.left) = 0
    BY <2>2, WritePassKeeps
  <2>4. y \in A
    BY <2>3 DEF WriteInv
  <2> QED BY <1>2, <2>1, <2>2, <2>3, <2>4
<1> HIDE DEF A
<1>6. f[left[p]] \in A /\ left[f[left[p]]] = 0
  <2>1. Lessens(f, A, left)
    BY <1>5 DEF Lessens
  <2> QED BY <1>2, <1>4, <2>1, Passed
<1>7. left[p] = Len(bytes)
  BY <1>2
<1>8. f[Len(bytes)] \in A /\ Len(f[Len(bytes)].left) = 0
  BY <1>2, <1>6, <1>7
<1> QED BY <1>3, <1>8 DEF A

(* A new block leaves the bytes there are. *)
LEMMA BlockAdded ==
  ASSUME NEW bs \in Seq(Block), NEW block \in Block
  PROVE  /\ Append(bs, block) \in Seq(Block) /\ Len(Append(bs, block)) = Len(bs) + 1
         /\ \A i \in Nat : i < Space(bs) => ByteAt(Append(bs, block), i) = ByteAt(bs, i)
<1>0. N \in Nat \ {0} /\ Len(bs) \in Nat
  BY StreamsAssumption
<1>1. PICK nb : nb = Append(bs, block)
  OBVIOUS
<1>2. nb \in Seq(Block) /\ Len(nb) = Len(bs) + 1 /\ \A k \in 1..Len(bs) : nb[k] = bs[k]
  BY <1>1
<1>3. ASSUME NEW i \in Nat, i < Space(bs) PROVE ByteAt(nb, i) = ByteAt(bs, i)
  <2>1. PICK k \in Nat, j \in 0..(N - 1) : k = i \div N /\ j = i % N
    BY DivMod
  <2>2. i < Len(bs) * N + 0 /\ 0 \in 0..N
    BY <1>0, <1>3, Product DEF Space
  <2>3. k <= Len(bs) /\ (k = Len(bs) => j < 0)
    BY <1>0, <2>1, <2>2, Before
  <2>4. k + 1 \in 1..Len(bs)
    BY <1>0, <2>3
  <2> QED BY <1>2, <2>1, <2>4 DEF ByteAt
<1> QED BY <1>1, <1>2, <1>3

(* What the storage is given to write is   where it belongs, and what was    *)
(* there before the offset has stayed.                                     *)
HoldsData(bs, offset, bytes, nb) ==
  /\ nb \in Seq(Block) /\ Len(bs) <= Len(nb)
  /\ InPlace(bs, offset, bytes, nb, Len(bytes))
  /\ offset + Len(bytes) <= Space(nb)

LEMMA StorageWritten ==
  ASSUME NEW bs \in Seq(Block), NEW offset \in Nat, NEW bytes \in Seq(DynamicBytes), offset <= Space(bs)
  PROVE  HoldsData(bs, offset, bytes, D!StorageWrite(bs, offset, bytes))
<1>0. N \in Nat \ {0} /\ Len(bs) \in Nat /\ Len(bytes) \in Nat
  BY StreamsAssumption
<1>1. PICK room : room = IF Len(bs) * N = offset THEN Append(bs, D!NewBlock) ELSE bs
  OBVIOUS
<1>2. D!NewBlock \in Block
  BY <1>0 DEF D!NewBlock, Block, Cell
<1>3. /\ room \in Seq(Block) /\ Len(bs) <= Len(room) /\ Len(room) \in Nat
      /\ \A i \in Nat : i < Space(bs) => ByteAt(room, i) = ByteAt(bs, i)
  <2>1. CASE Len(bs) * N = offset
    <3>1. room = Append(bs, D!NewBlock)
      BY <1>1, <2>1
    <3> QED BY <1>0, <1>2, <3>1, BlockAdded
  <2>2. CASE ~(Len(bs) * N = offset)
    <3>1. room = bs
      BY <1>1, <2>2
    <3> QED BY <1>0, <3>1
  <2> QED BY <2>1, <2>2
<1>4. offset < Len(room) * N + 0 /\ Space(room) = Len(room) * N /\ Len(room) * N \in Nat
  <2>1. Len(bs) * N \in Nat /\ Len(room) * N \in Nat /\ Space(bs) = Len(bs) * N /\ Space(room) = Len(room) * N
    BY <1>0, <1>3, Product DEF Space
  <2>2. CASE Len(bs) * N = offset
    <3>1. Len(room) = Len(bs) + 1
      BY <1>1, <1>2, <2>2, BlockAdded
    <3>2. Len(room) * N = Len(bs) * N + N
      BY <1>0, <3>1
    <3> QED BY <1>0, <2>1, <2>2, <3>2
  <2>3. CASE ~(Len(bs) * N = offset)
    <3>1. room = bs
      BY <1>1, <2>3
    <3> QED BY <2>1, <2>3, <3>1
  <2> QED BY <2>2, <2>3
<1>5. PICK k \in Nat, j \in 0..(N - 1) : k = offset \div N /\ j = offset % N /\ k * N + j = offset
  BY DivMod
<1>6. k < Len(room)
  <2>1. 0 \in 0..N
    BY <1>0
  <2>2. k <= Len(room) /\ (k = Len(room) => j < 0)
    BY <1>3, <1>4, <1>5, <2>1, Before
  <2> QED BY <1>3, <2>2
<1>7. PICK start : start = [blocks |-> room, at |-> offset \div N + 1, pad |-> offset % N, left |-> bytes]
  OBVIOUS
<1>8. start \in WriteLoop /\ start.blocks = room /\ start.at = k + 1 /\ start.pad = j /\ start.left = bytes
  <2>1. start = [blocks |-> room, at |-> k + 1, pad |-> j, left |-> bytes]
    BY <1>5, <1>7
  <2> QED BY <1>3, <2>1 DEF WriteLoop
<1>9. WriteInv(bs, offset, bytes, start)
  <2>1. Rest(bytes, 0, bytes)
    BY <1>0 DEF Rest
  <2>2. InPlace(bs, offset, bytes, room, 0)
    BY <1>3 DEF InPlace
  <2>3. offset + 0 <= Space(room)
    BY <1>4
  <2>4. (k + 1 - 1) * N + j = offset + 0 /\ k + 1 <= Len(room) + 1 /\ ~(k + 1 = Len(room) + 1)
    <3>1. k + 1 - 1 = k
      OBVIOUS
    <3> QED BY <1>3, <1>5, <1>6, <3>1
  <2>5. 0 \in 0..Len(bytes)
    BY <1>0
  <2> QED BY <1>3, <1>8, <2>1, <2>2, <2>3, <2>4, <2>5 DEF WriteInv
<1>10. PICK r : r = D!WritePasses(start)[Len(bytes)]
  OBVIOUS
<1>11. WriteInv(bs, offset, bytes, r) /\ Len(r.left) = 0
  BY <1>8, <1>9, <1>10, WritesAll
<1>12. HoldsData(bs, offset, bytes, r.blocks)
  <2>1. r \in WriteLoop /\ Len(bs) <= Len(r.blocks)
    BY <1>11 DEF WriteInv
  <2>2. PICK m \in 0..Len(bytes) : /\ Rest(bytes, m, r.left) /\ InPlace(bs, offset, bytes, r.blocks, m)
                                 /\ offset + m <= Space(r.blocks)
    BY <1>11 DEF WriteInv
  <2>3. m = Len(bytes)
    BY <1>0, <1>11, <2>2 DEF Rest
  <2>4. r.blocks \in Seq(Block)
    BY <2>1 DEF WriteLoop
  <2> QED BY <2>1, <2>2, <2>3, <2>4 DEF HoldsData
<1>13. D!StorageWrite(bs, offset, bytes) = r.blocks
  <2>1. ~(start.at > Len(room))
    BY <1>3, <1>6, <1>8
  <2> QED BY <1>1, <1>7, <1>10, <2>1 DEF D!StorageWrite
<1> QED BY <1>12, <1>13

(* The first m bytes from the offset on. *)
ReadFrom(bs, offset, read, m) ==
  /\ read \in Seq(Cell) /\ Len(read) = m
  /\ \A i \in 0..(m - 1) : read[i + 1] = ByteAt(bs, offset + i)

(* While there is room, what is read and what is still to be read add up   *)
(* to the size; when there is none any more, nothing is to be read.        *)
ReadInv(bs, offset, size, room, p) ==
  /\ p \in ReadLoop /\ p.blocks = bs
  /\ \E m \in 0..size :
       /\ ReadFrom(bs, offset, p.read, m) /\ m <= room /\ p.room = room - m
       /\ \/ p.size = size - m /\ (p.size # 0 => (p.at - 1) * N + p.pad = offset + m)
          \/ p.size = 0 /\ m = room

LEMMA PieceRead ==
  ASSUME NEW bs \in Seq(Block), NEW offset \in Nat, NEW m \in Nat, NEW read, ReadFrom(bs, offset, read, m),
         NEW b \in Nat, b < Len(bs), NEW pad \in 0..(N - 1), NEW n \in Nat, n <= N - pad,
         b * N + pad = offset + m
  PROVE  ReadFrom(bs, offset, read \o SubSeq(bs[b + 1], pad + 1, pad + n), m + n)
<1>0. N \in Nat \ {0} /\ Len(bs) \in Nat
  BY StreamsAssumption
<1>1. PICK block : block = bs[b + 1]
  OBVIOUS
<1>2. block \in [1..N -> Cell]
  <2>1. b + 1 \in 1..Len(bs)
    BY <1>0
  <2> QED BY <1>1, <2>1 DEF Block
<1>3. PICK piece : piece = SubSeq(block, pad + 1, pad + n)
  OBVIOUS
<1>4. piece \in Seq(Cell) /\ Len(piece) = n /\ \A i \in 0..(n - 1) : piece[i + 1] = block[pad + i + 1]
  <2>1. block \in Seq(Cell) /\ Len(block) = N
    BY <1>0, <1>2
  <2>2. piece = [i \in 1..n |-> block[pad + i]]
    BY <1>0, <1>3, <2>1
  <2>3. \A i \in 1..n : block[pad + i] \in Cell
    <3>1. \A i \in 1..n : pad + i \in 1..N
      BY <1>0
    <3> QED BY <1>2, <3>1
  <2>4. piece \in Seq(Cell) /\ Len(piece) = n
    BY <2>2, <2>3
  <2>5. \A i \in 0..(n - 1) : i + 1 \in 1..n /\ pad + (i + 1) = pad + i + 1
    BY <1>0
  <2> QED BY <2>2, <2>4, <2>5
<1>5. read \in Seq(Cell) /\ Len(read) = m /\ \A i \in 0..(m - 1) : read[i + 1] = ByteAt(bs, offset + i)
  BY DEF ReadFrom
<1>6. PICK all : all = read \o piece
  OBVIOUS
<1>7. /\ all \in Seq(Cell) /\ Len(all) = m + n
      /\ \A i \in 1..(m + n) : all[i] = IF i <= m THEN read[i] ELSE piece[i - m]
  <2>1. all \in Seq(Cell) /\ Len(all) = Len(read) + Len(piece)
    BY <1>4, <1>5, <1>6, ConcatProperties
  <2>2. \A i \in 1..Len(read) + Len(piece) : all[i] = IF i <= Len(read) THEN read[i] ELSE piece[i - Len(read)]
    <3>1. read \in Seq(Cell) /\ piece \in Seq(Cell)
      BY <1>4, <1>5
    <3>2. \A i \in 1..Len(read) + Len(piece) : (read \o piece)[i] = IF i <= Len(read) THEN read[i] ELSE piece[i - Len(read)]
      BY <3>1, ConcatProperties, Zenon
    <3> QED BY <1>6, <3>2, Zenon
  <2> QED BY <1>4, <1>5, <2>1, <2>2
<1>8. ASSUME NEW i \in 0..(m + n - 1) PROVE all[i + 1] = ByteAt(bs, offset + i)
  <2>1. i + 1 \in 1..(m + n)
    OBVIOUS
  <2>2. CASE i < m
    <3>1. all[i + 1] = read[i + 1]
      BY <1>7, <2>1, <2>2
    <3> QED BY <1>5, <2>2, <3>1
  <2>3. CASE i >= m
    <3>1. PICK j \in Nat : j = i - m
      BY <2>3
    <3>2. j \in 0..(n - 1) /\ i + 1 - m = j + 1 /\ ~(i + 1 <= m)
      BY <2>3, <3>1
    <3>3. all[i + 1] = block[pad + j + 1]
      <4>1. all[i + 1] = piece[i + 1 - m]
        BY <1>7, <2>1, <3>2
      <4>2. all[i + 1] = piece[j + 1]
        BY <3>2, <4>1
      <4> QED BY <1>4, <3>2, <4>2
    <3>4. PICK y \in 0..(N - 1) : y = pad + j
      BY <1>0, <3>2
    <3>5. (b * N + y) \div N = b /\ (b * N + y) % N = y
      BY Places
    <3>6. b * N + y = offset + i
      BY <1>0, <3>1, <3>4, Product
    <3>7. ByteAt(bs, offset + i) = block[y + 1]
      BY <1>1, <3>5, <3>6 DEF ByteAt
    <3> QED BY <3>3, <3>4, <3>7
  <2> QED BY <2>2, <2>3
<1> QED BY <1>1, <1>3, <1>6, <1>7, <1>8 DEF ReadFrom

LEMMA ReadPassKeeps ==
  ASSUME NEW bs \in Seq(Block), NEW offset \in Nat, NEW size \in Nat, NEW room \in Nat, offset + size <= Space(bs),
         NEW p, ReadInv(bs, offset, size, room, p)
  PROVE  /\ ReadInv(bs, offset, size, room, D!ReadPass(p))
         /\ p.size # 0 => D!ReadPass(p).size < p.size
         /\ p.size = 0 => D!ReadPass(p).size = 0
<1>0. N \in Nat \ {0} /\ Len(bs) \in Nat
  BY StreamsAssumption
<1>1. p \in ReadLoop /\ p.blocks = bs
  BY DEF ReadInv
<1>2. CASE p.size = 0
  BY <1>2 DEF D!ReadPass
<1>3. CASE p.size # 0
  <2>1. PICK at, pad, todo, read : at = p.at /\ pad = p.pad /\ todo = p.size /\ read = p.read
    OBVIOUS
  <2>2. at \in Nat \ {0} /\ pad \in 0..(N - 1) /\ todo \in Nat \ {0}
    BY <1>1, <1>3, <2>1 DEF ReadLoop
  <2>a. PICK left \in Nat : left = p.room
    BY <1>1 DEF ReadLoop
  <2>3. PICK m \in 0..size : /\ todo = size - m /\ ReadFrom(bs, offset, read, m)
                             /\ m <= room /\ left = room - m /\ (at - 1) * N + pad = offset + m
    BY <1>3, <2>1, <2>a DEF ReadInv
  <2>4. PICK b \in Nat : b = at - 1
    BY <2>2
  <2>5. b * N + pad = offset + m /\ b * N \in Nat /\ (b + 1) * N + 0 = b * N + N
    BY <1>0, <2>3, <2>4, Product
  <2>6. b < Len(bs)
    <3> SUFFICES ASSUME Len(bs) <= b PROVE FALSE
      BY <1>0
    <3>1. Len(bs) * N <= b * N
      BY <1>0, Monotone
    <3>2. Space(bs) = Len(bs) * N /\ Len(bs) * N \in Nat
      BY <1>0, Product DEF Space
    <3> QED BY <2>2, <2>3, <2>5, <3>1, <3>2
  <2>7. PICK n \in Nat : n = D!Lesser(N - pad, todo)
    <3>1. N - pad \in Nat
      BY <1>0, <2>2
    <3> QED BY <2>2, <3>1 DEF D!Lesser
  <2>8. n # 0 /\ n <= todo /\ n <= N - pad /\ (n = todo \/ n = N - pad)
    BY <1>0, <2>2, <2>7 DEF D!Lesser
  <2>b. PICK r \in Nat : r = D!Lesser(n, left)
    BY <2>a DEF D!Lesser
  <2>c. r <= n /\ r <= left /\ (r = n \/ r = left)
    BY <2>a, <2>b DEF D!Lesser
  <2>9. PICK more : more = read \o SubSeq(bs[b + 1], pad + 1, pad + r)
    OBVIOUS
  <2>10. ReadFrom(bs, offset, more, m + r)
    <3>1. m \in Nat /\ pad \in 0..(N - 1) /\ r <= N - pad /\ b * N + pad = offset + m
      BY <1>0, <2>2, <2>5, <2>8, <2>c
    <3> QED BY <2>3, <2>6, <2>9, <3>1, PieceRead
  <2>d. PICK rest : rest = IF r = n THEN todo - n ELSE 0
    OBVIOUS
  <2>11. D!ReadPass(p) = [p EXCEPT !.at = at + 1, !.pad = 0, !.size = rest, !.room = left - r,
                                   !.read = more]
    <3>1. ~(p.size = 0 \/ p.at > Len(p.blocks)) /\ p.blocks[p.at] = bs[b + 1]
      BY <1>0, <1>1, <1>3, <2>1, <2>2, <2>4, <2>6
    <3> QED BY <2>1, <2>7, <2>9, <2>a, <2>b, <2>d, <3>1 DEF D!ReadPass
  <2>12. PICK q : q = D!ReadPass(p)
    OBVIOUS
  <2>13. /\ q \in ReadLoop /\ q.blocks = bs /\ q.at = b + 2 /\ q.pad = 0 /\ q.size = rest
         /\ q.room = left - r /\ q.read = more
    <3>1. /\ at + 1 = b + 2 /\ b + 2 \in Nat \ {0} /\ rest \in Nat /\ left - r \in Nat
          /\ 0 \in 0..(N - 1)
      BY <1>0, <2>2, <2>4, <2>8, <2>c, <2>d
    <3>2. more \in Seq(Cell)
      BY <2>10 DEF ReadFrom
    <3>3. q = [p EXCEPT !.at = b + 2, !.pad = 0, !.size = rest, !.room = left - r, !.read = more]
      BY <2>11, <2>12, <3>1
    <3> QED BY <1>1, <3>1, <3>2, <3>3 DEF ReadLoop
  <2>14. m + r \in 0..size /\ m + r <= room /\ left - r = room - (m + r)
    BY <2>2, <2>3, <2>8, <2>c
  <2>15. ASSUME r = n PROVE ReadInv(bs, offset, size, room, q)
    <3>1. rest = size - (m + r)
      BY <2>2, <2>3, <2>8, <2>15, <2>d
    <3>2. rest # 0 => (b + 2 - 1) * N + 0 = offset + (m + r)
      <4> SUFFICES ASSUME rest # 0 PROVE (b + 2 - 1) * N + 0 = offset + (m + r)
        OBVIOUS
      <4>1. n = N - pad
        BY <2>2, <2>8, <2>15, <2>d
      <4>2. b + 2 - 1 = b + 1
        OBVIOUS
      <4>3. (b + 1) * N + 0 = offset + (m + r)
        BY <1>0, <2>2, <2>3, <2>5, <2>15, <4>1
      <4> QED BY <4>2, <4>3
    <3> QED BY <2>10, <2>13, <2>14, <3>1, <3>2 DEF ReadInv
  <2>16. ASSUME r # n PROVE ReadInv(bs, offset, size, room, q)
    <3>1. rest = 0 /\ m + r = room
      BY <2>3, <2>16, <2>c, <2>d
    <3> QED BY <2>10, <2>13, <2>14, <3>1 DEF ReadInv
  <2>17. ReadInv(bs, offset, size, room, q)
    BY <2>15, <2>16
  <2>18. rest < todo
    BY <2>2, <2>8, <2>d
  <2> QED BY <1>3, <2>1, <2>12, <2>13, <2>17, <2>18
<1> QED BY <1>2, <1>3

LEMMA ReadPassesDefined ==
  ASSUME NEW bs \in Seq(Block), NEW offset \in Nat, NEW size \in Nat, NEW room \in Nat, offset + size <= Space(bs),
         NEW p, ReadInv(bs, offset, size, room, p)
  PROVE  \A k \in Nat : D!ReadPasses(p)[k] = IF k = 0 THEN p ELSE D!ReadPass(D!ReadPasses(p)[k - 1])
<1> DEFINE A == {x \in ReadLoop : ReadInv(bs, offset, size, room, x)}
<1>1. p \in A
  BY DEF ReadInv
<1>2. \A x \in A : D!ReadPass(x) \in A
  <2> SUFFICES ASSUME NEW x \in A PROVE D!ReadPass(x) \in A
    OBVIOUS
  <2>1. ReadInv(bs, offset, size, room, D!ReadPass(x))
    BY ReadPassKeeps
  <2> QED BY <2>1 DEF ReadInv
<1> HIDE DEF A
<1>3. PICK next : next = [x \in A |-> D!ReadPass(x)]
  OBVIOUS
<1>4. next \in [A -> A]
  BY <1>2, <1>3
<1>5. PICK f \in [Nat -> A] : Repeats(f, p, next)
  BY <1>1, <1>4, Repeat
<1>6. ASSUME NEW n \in Nat PROVE f[n] = IF n = 0 THEN p ELSE D!ReadPass(f[n - 1])
  <2> SUFFICES ASSUME n # 0 PROVE f[n] = D!ReadPass(f[n - 1])
    BY <1>5 DEF Repeats
  <2>1. n - 1 \in Nat /\ (n - 1) + 1 = n
    OBVIOUS
  <2>2. f[n - 1] \in A /\ f[n] = next[f[n - 1]]
    BY <1>5, <2>1 DEF Repeats
  <2> QED BY <1>3, <2>2
<1>7. f = [n \in Nat |-> IF n = 0 THEN p ELSE D!ReadPass(f[n - 1])]
  <2>1. f = [n \in Nat |-> f[n]]
    OBVIOUS
  <2> QED BY <1>6, <2>1
<1>8. \E g : g = [n \in Nat |-> IF n = 0 THEN p ELSE D!ReadPass(g[n - 1])]
  BY <1>7
<1>9. D!ReadPasses(p) = [n \in Nat |-> IF n = 0 THEN p ELSE D!ReadPass(D!ReadPasses(p)[n - 1])]
  BY <1>8, Zenon DEF D!ReadPasses
<1> QED BY <1>9

LEMMA ReadsAll ==
  ASSUME NEW bs \in Seq(Block), NEW offset \in Nat, NEW size \in Nat, NEW room \in Nat, offset + size <= Space(bs),
         NEW p, ReadInv(bs, offset, size, room, p), p.size = size
  PROVE  ReadInv(bs, offset, size, room, D!ReadPasses(p)[size]) /\ D!ReadPasses(p)[size].size = 0
<1> DEFINE A == {x \in ReadLoop : ReadInv(bs, offset, size, room, x)}
<1>1. PICK left : left = [x \in A |-> x.size]
  OBVIOUS
<1>2. left \in [A -> Nat] /\ p \in A /\ \A x \in A : left[x] = x.size
  <2>1. \A x \in A : x.size \in Nat
    BY DEF ReadLoop
  <2>2. p \in A
    BY DEF ReadInv
  <2> QED BY <1>1, <2>1, <2>2
<1>3. PICK f : f = D!ReadPasses(p)
  OBVIOUS
<1>4. f[0] = p /\ \A k \in Nat : f[k + 1] = D!ReadPass(f[k])
  <2>1. \A k \in Nat : f[k] = IF k = 0 THEN p ELSE D!ReadPass(f[k - 1])
    BY <1>3, ReadPassesDefined
  <2>2. \A k \in Nat : k + 1 \in Nat /\ k + 1 # 0 /\ (k + 1) - 1 = k
    OBVIOUS
  <2>3. ASSUME NEW k \in Nat PROVE f[k + 1] = D!ReadPass(f[k])
    BY <2>1, <2>2
  <2> QED BY <2>1, <2>3
<1>5. ASSUME NEW k \in Nat, f[k] \in A
      PROVE  /\ f[k + 1] \in A
             /\ left[f[k]] # 0 => left[f[k + 1]] < left[f[k]]
             /\ left[f[k]] = 0 => left[f[k + 1]] = 0
  <2>1. PICK x, y : x = f[k] /\ y = f[k + 1]
    OBVIOUS
  <2>2. y = D!ReadPass(x) /\ x \in A /\ ReadInv(bs, offset, size, room, x)
    BY <1>4, <1>5, <2>1
  <2>3. /\ ReadInv(bs, offset, size, room, y)
        /\ x.size # 0 => y.size < x.size
        /\ x.size = 0 => y.size = 0
    BY <2>2, ReadPassKeeps
  <2>4. y \in A
    BY <2>3 DEF ReadInv
  <2> QED BY <1>2, <2>1, <2>2, <2>3, <2>4
<1> HIDE DEF A
<1>6. f[left[p]] \in A /\ left[f[left[p]]] = 0
  <2>1. Lessens(f, A, left)
    BY <1>5 DEF Lessens
  <2>2. p \in A /\ left \in [A -> Nat] /\ f[0] = p
    BY <1>2, <1>4
  <2> QED BY <2>1, <2>2, Passed
<1>7. left[p] = size
  BY <1>2
<1>8. f[size] \in A /\ f[size].size = 0
  BY <1>2, <1>6, <1>7
<1> QED BY <1>3, <1>8 DEF A

(* What is copied of a storage is the bytes there are from the offset on,  *)
(* as far as there is room for them.                                       *)
LEMMA StorageCopies ==
  ASSUME NEW bs \in Seq(Block), NEW offset \in Nat, NEW size \in Nat, NEW room \in Nat,
         offset + size <= Space(bs)
  PROVE  ReadFrom(bs, offset, D!StorageCopy(bs, offset, size, room), D!Lesser(size, room))
<1>0. N \in Nat \ {0} /\ Len(bs) \in Nat
  BY StreamsAssumption
<1>1. PICK k \in Nat, j \in 0..(N - 1) : k = offset \div N /\ j = offset % N /\ k * N + j = offset
  BY DivMod
<1>2. PICK start : start = [blocks |-> bs, at |-> offset \div N + 1, pad |-> offset % N,
                       size |-> size, room |-> room, read |-> <<>>]
  OBVIOUS
<1>3. /\ start \in ReadLoop /\ start.blocks = bs /\ start.at = k + 1 /\ start.pad = j
      /\ start.size = size /\ start.room = room /\ start.read = <<>>
  <2>1. start = [blocks |-> bs, at |-> k + 1, pad |-> j, size |-> size, room |-> room, read |-> <<>>]
    BY <1>1, <1>2
  <2>2. <<>> \in Seq(Cell)
    BY EmptySeq
  <2> QED BY <2>1, <2>2 DEF ReadLoop
<1>4. ReadInv(bs, offset, size, room, start)
  <2>1. ReadFrom(bs, offset, <<>>, 0)
    BY EmptySeq DEF ReadFrom
  <2>2. (k + 1 - 1) * N + j = offset + 0
    <3>1. k + 1 - 1 = k
      OBVIOUS
    <3> QED BY <1>1, <3>1
  <2>3. 0 \in 0..size /\ size = size - 0 /\ 0 <= room /\ room = room - 0
    OBVIOUS
  <2> QED BY <1>3, <2>1, <2>2, <2>3 DEF ReadInv
<1>5. PICK r : r = D!ReadPasses(start)[size]
  OBVIOUS
<1>6. ReadInv(bs, offset, size, room, r) /\ r.size = 0
  BY <1>3, <1>4, <1>5, ReadsAll
<1>7. ReadFrom(bs, offset, r.read, D!Lesser(size, room))
  <2>1. PICK m \in 0..size : /\ ReadFrom(bs, offset, r.read, m) /\ m <= room
                             /\ r.size = size - m \/ m = room
    BY <1>6 DEF ReadInv
  <2>2. m = D!Lesser(size, room)
    BY <1>6, <2>1 DEF D!Lesser
  <2>3. ReadFrom(bs, offset, r.read, m)
    BY <2>1
  <2> QED BY <2>2, <2>3, Zenon
<1>8. D!StorageCopy(bs, offset, size, room) = r.read
  BY <1>2, <1>5 DEF D!StorageCopy
<1> QED BY <1>7, <1>8

LEMMA StorageReads ==
  ASSUME NEW bs \in Seq(Block), NEW offset \in Nat, NEW size \in Nat, offset + size <= Space(bs)
  PROVE  ReadFrom(bs, offset, D!StorageRead(bs, offset, size), size)
<1>1. ReadFrom(bs, offset, D!StorageCopy(bs, offset, size, size), D!Lesser(size, size))
  BY StorageCopies
<1>2. D!Lesser(size, size) = size
  BY DEF D!Lesser
<1> QED BY <1>1, <1>2 DEF D!StorageRead

-----------------------------------------------------------------------------
ObjectType == [live : BOOLEAN, p_size : Nat, p_offset : Nat, state : BOOLEAN]
ViewType == [data : Seq(DynamicBytes), offset : Nat]

StreamsType ==
  /\ blocks \in Seq(Block) /\ object \in [DynamicStreams -> ObjectType] /\ view \in [DynamicStreams -> ViewType]
  /\ writers \subseteq DynamicStreams /\ IsFiniteSet(writers)

(* An object has its place in its view, and within the storage; one that   *)
(* wrote is live.                                                          *)
InStep(s) ==
  /\ view[s].offset = object[s].p_offset /\ Len(view[s].data) = object[s].p_size
  /\ object[s].p_offset <= object[s].p_size /\ object[s].p_size <= Space(blocks)
  /\ s \in writers => object[s].live

(* The storage has the bytes of the object's view. *)
Intact(s) == \A i \in 0..(object[s].p_size - 1) : ByteAt(blocks, i) = view[s].data[i + 1]

(* The only writer has its bytes; and if nothing was cleared, nobody has   *)
(* more than it does, so what it writes next disturbs nobody.              *)
OwnBytes(s) == writers \subseteq {s} => Intact(s)
AllBytes(w) ==
  cleared = {} /\ writers \subseteq {w} =>
    \A t \in DynamicStreams : object[t].p_size <= object[w].p_size /\ Intact(t)

StreamsInv ==
  /\ StreamsType
  /\ \A s \in DynamicStreams : InStep(s) /\ OwnBytes(s) /\ AllBytes(s)

(* The bytes that were read, as a sequence. *)
LEMMA ReadIs ==
  ASSUME NEW offset \in Nat, NEW size \in Nat, NEW read, ReadFrom(blocks, offset, read, size),
         NEW bytes \in Seq(DynamicBytes), offset + size <= Len(bytes),
         \A i \in 0..(Len(bytes) - 1) : ByteAt(blocks, i) = bytes[i + 1]
  PROVE  read = SubSeq(bytes, offset + 1, offset + size)
<1>1. read \in Seq(Cell) /\ Len(read) = size /\ \A i \in 0..(size - 1) : read[i + 1] = ByteAt(blocks, offset + i)
  BY DEF ReadFrom
<1>2. PICK piece : piece = SubSeq(bytes, offset + 1, offset + size)
  OBVIOUS
<1>3. piece \in Seq(DynamicBytes) /\ Len(piece) = size /\ \A i \in 1..size : piece[i] = bytes[offset + i]
  <2>1. \A i \in (offset + 1)..(offset + size) : bytes[i] \in DynamicBytes
    <3>1. \A i \in (offset + 1)..(offset + size) : i \in 1..Len(bytes)
      OBVIOUS
    <3> QED BY <3>1
  <2>2. /\ piece \in Seq(DynamicBytes)
        /\ Len(piece) = IF offset + 1 <= offset + size THEN offset + size - (offset + 1) + 1 ELSE 0
        /\ \A i \in 1..offset + size - (offset + 1) + 1 : piece[i] = bytes[offset + 1 + i - 1]
    BY <1>2, <2>1, SubSeqProperties
  <2> QED BY <2>2
<1>4. ASSUME NEW i \in 1..size PROVE read[i] = piece[i]
  <2>1. PICK j \in Nat : j = i - 1
    OBVIOUS
  <2>2. j \in 0..(size - 1) /\ j + 1 = i /\ offset + j \in 0..(Len(bytes) - 1) /\ offset + j + 1 = offset + i
    BY <2>1
  <2>3. read[i] = ByteAt(blocks, offset + j) /\ ByteAt(blocks, offset + j) = bytes[offset + i]
    BY <1>1, <2>2
  <2> QED BY <1>3, <2>3
<1>5. read = [i \in 1..size |-> read[i]] /\ piece = [i \in 1..size |-> piece[i]]
  BY <1>1, <1>3
<1> QED BY <1>2, <1>4, <1>5

LEMMA SameBytes ==
  ASSUME StreamsType, NEW s \in DynamicStreams, InStep(s), Intact(s)
  PROVE  D!SameAsView(s)
<1>1. PICK bytes, p_offset, p_size : bytes = view[s].data /\ p_offset = object[s].p_offset /\ p_size = object[s].p_size
  OBVIOUS
<1>2. /\ bytes \in Seq(DynamicBytes) /\ p_offset \in Nat /\ p_size \in Nat /\ blocks \in Seq(Block)
      /\ view[s] = [data |-> bytes, offset |-> p_offset]
  <2>1. view[s] \in ViewType /\ object[s] \in ObjectType /\ blocks \in Seq(Block)
    BY DEF StreamsType
  <2>2. view[s].offset = p_offset
    BY <1>1 DEF InStep
  <2> QED BY <1>1, <2>1, <2>2 DEF ViewType, ObjectType
<1>3. Len(bytes) = p_size /\ p_offset <= p_size /\ p_size <= Space(blocks)
  BY <1>1 DEF InStep
<1>4. Space(blocks) \in Nat
  <2>1. Len(blocks) \in Nat
    BY <1>2
  <2> QED BY <2>1, SpaceGrows
<1>5. \A i \in 0..(Len(bytes) - 1) : ByteAt(blocks, i) = bytes[i + 1]
  BY <1>1, <1>3 DEF Intact
<1>6. D!Content(s) = bytes
  <2>1. ReadFrom(blocks, 0, D!StorageRead(blocks, 0, p_size), p_size)
    BY <1>2, <1>3, <1>4, StorageReads
  <2>2. D!StorageRead(blocks, 0, p_size) = SubSeq(bytes, 0 + 1, 0 + p_size)
    <3>1. 0 \in Nat /\ 0 + p_size <= Len(bytes) /\ bytes \in Seq(DynamicBytes) /\ p_size \in Nat
      BY <1>2, <1>3
    <3>2. PICK read : read = D!StorageRead(blocks, 0, p_size)
      OBVIOUS
    <3>3. read = SubSeq(bytes, 0 + 1, 0 + p_size)
      BY <1>5, <2>1, <3>1, <3>2, ReadIs
    <3> QED BY <3>2, <3>3
  <2>3. SubSeq(bytes, 0 + 1, 0 + p_size) = bytes
    BY <1>2, <1>3
  <2> QED BY <1>1, <2>2, <2>3 DEF D!Content
<1>7. ASSUME NEW size \in 0..(p_size - p_offset), NEW room \in 0..size
      PROVE  D!CopyTo(s, size, room) = D!B!ReadBytes(view[s], room)
  <2>1. ReadFrom(blocks, p_offset, D!StorageCopy(blocks, p_offset, size, room), room)
    <3>1. size \in Nat /\ room \in Nat /\ p_offset + size <= Space(blocks)
      BY <1>2, <1>3, <1>4
    <3>2. D!Lesser(size, room) = room
      BY <3>1 DEF D!Lesser
    <3> QED BY <1>2, <3>1, <3>2, StorageCopies
  <2>2. D!StorageCopy(blocks, p_offset, size, room) = SubSeq(bytes, p_offset + 1, p_offset + room)
    <3>1. p_offset \in Nat /\ room \in Nat /\ p_offset + room <= Len(bytes) /\ bytes \in Seq(DynamicBytes)
      BY <1>2, <1>3
    <3>2. PICK read : read = D!StorageCopy(blocks, p_offset, size, room)
      OBVIOUS
    <3>3. read = SubSeq(bytes, p_offset + 1, p_offset + room)
      BY <1>5, <2>1, <3>1, <3>2, ReadIs
    <3> QED BY <3>2, <3>3
  <2>3. D!B!Available(view[s], room) = room
    BY <1>2, <1>3 DEF D!B!Available, D!B!Size
  <2>4. D!B!ReadBytes(view[s], room) = SubSeq(bytes, p_offset + 1, p_offset + room)
    <3>1. view[s].data = bytes /\ view[s].offset = p_offset
      BY <1>2
    <3> QED BY <2>3, <3>1, Zenon DEF D!B!ReadBytes
  <2> QED BY <1>1, <2>2, <2>4 DEF D!CopyTo
<1> QED BY <1>1, <1>2, <1>6, <1>7 DEF D!SameAsView

LEMMA SingleWriter ==
  ASSUME IsFiniteSet(writers), writers \subseteq DynamicStreams, Cardinality(writers) <= 1
  PROVE  \E w \in DynamicStreams : writers \subseteq {w}
<1>1. CASE writers = {}
  BY <1>1, StreamsAssumption
<1>2. CASE writers # {}
  <2>1. PICK w \in DynamicStreams : w \in writers
    BY <1>2
  <2>2. IsFiniteSet(writers \ {w}) /\ Cardinality(writers \ {w}) = Cardinality(writers) - 1
    BY <2>1, FS_RemoveElement
  <2>3. Cardinality(writers) \in Nat /\ Cardinality(writers \ {w}) \in Nat
    BY <2>2, FS_CardinalityType
  <2>4. Cardinality(writers \ {w}) = 0
    BY <2>2, <2>3
  <2>5. writers \ {w} = {}
    BY <2>2, <2>4, FS_EmptySet
  <2> QED BY <2>5
<1> QED BY <1>1, <1>2

LEMMA InvImplies == StreamsInv => D!ActsAsByteStream /\ D!ReadersUndisturbed
<1> SUFFICES ASSUME StreamsInv PROVE D!ActsAsByteStream /\ D!ReadersUndisturbed
  OBVIOUS
<1>0. StreamsType /\ \A s \in DynamicStreams : InStep(s) /\ OwnBytes(s) /\ AllBytes(s)
  BY DEF StreamsInv
<1>1. ASSUME NEW s \in DynamicStreams, writers \subseteq {s} PROVE D!SameAsView(s)
  <2>1. InStep(s) /\ Intact(s)
    BY <1>0, <1>1 DEF OwnBytes
  <2> QED BY <1>0, <2>1, SameBytes
<1>2. ASSUME Cardinality(writers) <= 1, cleared = {}, NEW s \in DynamicStreams PROVE D!SameAsView(s)
  <2>1. PICK w \in DynamicStreams : writers \subseteq {w}
    BY <1>0, <1>2, SingleWriter DEF StreamsType
  <2>2. InStep(s) /\ Intact(s)
    BY <1>0, <1>2, <2>1 DEF AllBytes
  <2> QED BY <1>0, <2>2, SameBytes
<1>3. \A s \in D!Live : s \in DynamicStreams
  BY DEF D!Live
<1>4. D!Cardinality(writers) = Cardinality(writers)
  BY DEF D!Cardinality, Cardinality
<1> QED BY <1>1, <1>2, <1>3, <1>4 DEF D!ActsAsByteStream, D!ReadersUndisturbed

-----------------------------------------------------------------------------
LEMMA InitInv == D!Init => StreamsInv
<1> SUFFICES ASSUME D!Init PROVE StreamsInv
  OBVIOUS
<1>1. blocks = <<>> /\ writers = {} /\ cleared = {}
  BY DEF D!Init
<1>2. \A s \in DynamicStreams : /\ object[s] \in ObjectType /\ object[s].p_size = 0 /\ object[s].p_offset = 0
                         /\ view[s] = [data |-> <<>>, offset |-> 0]
  BY DEF D!Init, D!NoObject, ObjectType, D!B!EmptyStream
<1>3. object \in [DynamicStreams -> ObjectType] /\ view \in [DynamicStreams -> ViewType]
  <2>1. [data |-> <<>>, offset |-> 0] \in ViewType
    BY EmptySeq DEF ViewType
  <2>2. object = [s \in DynamicStreams |-> object[s]] /\ view = [s \in DynamicStreams |-> view[s]]
    BY DEF D!Init
  <2> QED BY <1>2, <2>1, <2>2
<1>4. blocks \in Seq(Block) /\ Space(blocks) \in Nat
  <2>1. blocks \in Seq(Block) /\ Len(blocks) = 0
    BY <1>1, EmptySeq
  <2> QED BY <2>1, SpaceGrows
<1>5. StreamsType
  BY <1>1, <1>3, <1>4, FS_EmptySet DEF StreamsType
<1>6. \A s \in DynamicStreams : InStep(s) /\ Intact(s)
  BY <1>1, <1>2, <1>4, EmptySeq DEF InStep, Intact
<1> QED BY <1>2, <1>5, <1>6 DEF StreamsInv, OwnBytes, AllBytes

(* A step that moves one object and changes nothing else. *)
LEMMA MovedObject ==
  ASSUME StreamsInv, NEW s \in DynamicStreams, NEW o \in ObjectType, NEW v \in ViewType,
         object' = [object EXCEPT ![s] = o], view' = [view EXCEPT ![s] = v],
         blocks' = blocks, writers' = writers, cleared' = cleared,
         o.p_size = object[s].p_size, o.p_offset <= o.p_size, o.live = object[s].live,
         v.data = view[s].data, v.offset = o.p_offset
  PROVE  StreamsInv'
<1>0. StreamsType /\ \A t \in DynamicStreams : InStep(t) /\ OwnBytes(t) /\ AllBytes(t)
  BY DEF StreamsInv
<1>1. StreamsType'
  BY <1>0 DEF StreamsType
<1>2. \A t \in DynamicStreams : /\ object'[t].p_size = object[t].p_size /\ view'[t].data = view[t].data
                         /\ object'[t].live = object[t].live
                         /\ t # s => object'[t] = object[t] /\ view'[t] = view[t]
  BY <1>0 DEF StreamsType
<1>3. object'[s] = o /\ view'[s] = v
  BY <1>0 DEF StreamsType
<1>4. ASSUME NEW t \in DynamicStreams PROVE InStep(t)'
  <2>1. InStep(t)
    BY <1>0
  <2>2. CASE t = s
    BY <1>2, <1>3, <2>1, <2>2 DEF InStep
  <2>3. CASE t # s
    BY <1>2, <2>1, <2>3 DEF InStep
  <2> QED BY <2>2, <2>3
<1>5. ASSUME NEW t \in DynamicStreams, Intact(t) PROVE Intact(t)'
  BY <1>2, <1>5 DEF Intact
<1>6. ASSUME NEW t \in DynamicStreams PROVE OwnBytes(t)'
  BY <1>0, <1>5 DEF OwnBytes
<1>7. ASSUME NEW t \in DynamicStreams PROVE AllBytes(t)'
  BY <1>0, <1>2, <1>5 DEF AllBytes
<1> QED BY <1>1, <1>4, <1>6, <1>7 DEF StreamsInv

LEMMA ObjectTypes ==
  ASSUME StreamsInv, NEW s \in DynamicStreams
  PROVE  /\ object[s] \in ObjectType /\ view[s] \in ViewType /\ InStep(s)
         /\ object[s].p_size \in Nat /\ object[s].p_offset \in Nat /\ object[s].state \in BOOLEAN
         /\ view[s].data \in Seq(DynamicBytes) /\ view[s].offset \in Nat /\ blocks \in Seq(Block)
         /\ Space(blocks) \in Nat /\ object \in [DynamicStreams -> ObjectType] /\ view \in [DynamicStreams -> ViewType]
<1>1. StreamsType /\ InStep(s)
  BY DEF StreamsInv
<1>2. object[s] \in ObjectType /\ view[s] \in ViewType /\ blocks \in Seq(Block)
      /\ object \in [DynamicStreams -> ObjectType] /\ view \in [DynamicStreams -> ViewType]
  BY <1>1 DEF StreamsType
<1>3. Space(blocks) \in Nat
  <2>1. Len(blocks) \in Nat
    BY <1>2
  <2> QED BY <2>1, SpaceGrows
<1> QED BY <1>1, <1>2, <1>3 DEF ObjectType, ViewType

LEMMA ReadStep ==
  ASSUME StreamsInv, NEW s \in DynamicStreams, NEW size \in Nat, D!Read(s, size)
  PROVE  StreamsInv'
<1>1. PICK p_size \in Nat, p_offset \in Nat : p_size = object[s].p_size /\ p_offset = object[s].p_offset
  BY ObjectTypes
<1>2. InStep(s) /\ p_offset <= p_size /\ p_size <= Space(blocks) /\ Space(blocks) \in Nat
  BY <1>1, ObjectTypes DEF InStep
<1>3. PICK n \in Nat : n = D!Lesser(size, p_size - p_offset)
  <2>1. p_size - p_offset \in Nat
    BY <1>2
  <2> QED BY <2>1 DEF D!Lesser
<1>4. n <= p_size - p_offset
  BY <1>2, <1>3 DEF D!Lesser
<1>5. PICK r : r = IF n > 0 THEN Len(D!StorageRead(blocks, p_offset, n)) ELSE 0
  OBVIOUS
<1>6. r = n
  <2>1. ReadFrom(blocks, p_offset, D!StorageRead(blocks, p_offset, n), n)
    <3>1. p_offset + n <= Space(blocks)
      BY <1>2, <1>4
    <3>2. blocks \in Seq(Block)
      BY ObjectTypes
    <3> QED BY <3>1, <3>2, StorageReads
  <2>2. Len(D!StorageRead(blocks, p_offset, n)) = n
    BY <2>1 DEF ReadFrom
  <2> QED BY <1>5, <2>2
<1>7. PICK state \in BOOLEAN : state = IF n > 0 THEN TRUE ELSE object[s].state
  <2>1. object[s].state \in BOOLEAN
    BY ObjectTypes
  <2> QED BY <2>1
<1>8. PICK o : o = [object[s] EXCEPT !.p_offset = p_offset + n, !.state = state]
  OBVIOUS
<1>9. PICK v : v = [view[s] EXCEPT !.offset = p_offset + n]
  OBVIOUS
<1>10. object' = [object EXCEPT ![s] = o]
  BY <1>1, <1>3, <1>5, <1>6, <1>7, <1>8, ObjectTypes DEF D!Read
<1>11. view' = [view EXCEPT ![s] = v]
  <2>1. view[s].offset = p_offset /\ Len(view[s].data) = p_size
    BY <1>1, <1>2 DEF InStep
  <2>2. D!B!Available(view[s], size) = n
    BY <1>2, <1>3, <2>1 DEF D!B!Available, D!B!Size, D!Lesser
  <2>3. D!B!AfterRead(view[s], size) = v
    BY <1>9, <2>1, <2>2 DEF D!B!AfterRead
  <2> QED BY <2>3 DEF D!Read
<1>12. /\ o \in ObjectType /\ v \in ViewType /\ o.p_size = object[s].p_size /\ o.p_offset <= o.p_size
       /\ o.live = object[s].live /\ v.data = view[s].data /\ v.offset = o.p_offset
  <2>1. p_offset + n \in Nat /\ p_offset + n <= p_size
    BY <1>2, <1>4
  <2>2. object[s] \in ObjectType /\ view[s] \in ViewType
    BY ObjectTypes
  <2>3. o \in ObjectType /\ o.p_size = object[s].p_size /\ o.p_offset = p_offset + n /\ o.live = object[s].live
    BY <1>8, <2>1, <2>2 DEF ObjectType
  <2>4. v \in ViewType /\ v.data = view[s].data /\ v.offset = p_offset + n
    BY <1>9, <2>1, <2>2 DEF ViewType
  <2> QED BY <1>1, <2>1, <2>3, <2>4
<1>13. blocks' = blocks /\ writers' = writers /\ cleared' = cleared
  BY DEF D!Read
<1> QED BY <1>10, <1>11, <1>12, <1>13, MovedObject

LEMMA WriteRefusedStep ==
  ASSUME StreamsInv, NEW s \in DynamicStreams, D!WriteRefused(s)
  PROVE  StreamsInv'
<1>1. PICK o : o = [object[s] EXCEPT !.state = FALSE]
  OBVIOUS
<1>2. PICK v : v = view[s]
  OBVIOUS
<1>3. object' = [object EXCEPT ![s] = o] /\ view' = [view EXCEPT ![s] = v]
  BY <1>1, <1>2, ObjectTypes DEF D!WriteRefused
<1>4. /\ o \in ObjectType /\ v \in ViewType /\ o.p_size = object[s].p_size /\ o.p_offset <= o.p_size
      /\ o.live = object[s].live /\ v.data = view[s].data /\ v.offset = o.p_offset
  BY <1>1, <1>2, ObjectTypes DEF ObjectType, InStep
<1>5. blocks' = blocks /\ writers' = writers /\ cleared' = cleared
  BY DEF D!WriteRefused
<1> QED BY <1>3, <1>4, <1>5, MovedObject

LEMMA SeekStep ==
  ASSUME StreamsInv, NEW s \in DynamicStreams, NEW move_to, D!Seek(s, move_to)
  PROVE  StreamsInv'
<1>1. PICK position \in 0..object[s].p_size :
        /\ object' = [object EXCEPT ![s].p_offset = position]
        /\ view' = [view EXCEPT ![s] = D!B!Seek(@, position)]
  BY DEF D!Seek
<1>2. position \in Nat /\ position <= object[s].p_size /\ object[s].p_size = Len(view[s].data)
  BY <1>1, ObjectTypes DEF InStep
<1>3. PICK o : o = [object[s] EXCEPT !.p_offset = position]
  OBVIOUS
<1>4. PICK v : v = [view[s] EXCEPT !.offset = position]
  OBVIOUS
<1>5. object' = [object EXCEPT ![s] = o] /\ view' = [view EXCEPT ![s] = v]
  <2>1. object' = [object EXCEPT ![s] = o]
    BY <1>1, <1>3, ObjectTypes
  <2>2. D!B!Seek(view[s], position) = v
    BY <1>2, <1>4 DEF D!B!Seek, D!B!Size
  <2> QED BY <1>1, <2>1, <2>2, ObjectTypes
<1>6. /\ o \in ObjectType /\ v \in ViewType /\ o.p_size = object[s].p_size /\ o.p_offset <= o.p_size
      /\ o.live = object[s].live /\ v.data = view[s].data /\ v.offset = o.p_offset
  BY <1>2, <1>3, <1>4, ObjectTypes DEF ObjectType, ViewType
<1>7. blocks' = blocks /\ writers' = writers /\ cleared' = cleared
  BY DEF D!Seek
<1> QED BY <1>5, <1>6, <1>7, MovedObject

LEMMA ClearStep ==
  ASSUME StreamsInv, NEW s \in DynamicStreams, D!Clear(s)
  PROVE  StreamsInv'
<1>0. StreamsType /\ \A t \in DynamicStreams : InStep(t) /\ OwnBytes(t)
  BY DEF StreamsInv
<1>1. PICK o : o = [object[s] EXCEPT !.p_size = 0, !.p_offset = 0, !.state = TRUE]
  OBVIOUS
<1>2. o \in ObjectType /\ o.p_size = 0 /\ o.p_offset = 0 /\ o.live = object[s].live
  BY <1>1, ObjectTypes DEF ObjectType
<1>3. PICK v : v = [data |-> <<>>, offset |-> 0]
  OBVIOUS
<1>4. v \in ViewType /\ v.data = <<>> /\ v.offset = 0
  BY <1>3, EmptySeq DEF ViewType
<1>5. /\ object' = [object EXCEPT ![s] = o] /\ view' = [view EXCEPT ![s] = v]
      /\ blocks' = blocks /\ writers' = writers /\ cleared' # {}
  BY <1>1, <1>3, ObjectTypes DEF D!Clear, D!B!EmptyStream
<1>6. StreamsType'
  BY <1>0, <1>2, <1>4, <1>5 DEF StreamsType
<1>7. /\ object'[s] = o /\ view'[s] = v
      /\ \A t \in DynamicStreams : t # s => object'[t] = object[t] /\ view'[t] = view[t]
  BY <1>0, <1>5 DEF StreamsType
<1>8. ASSUME NEW t \in DynamicStreams PROVE InStep(t)' /\ OwnBytes(t)'
  <2>1. CASE t = s
    <3>1. InStep(t)'
      BY <1>0, <1>2, <1>4, <1>5, <1>7, <2>1, EmptySeq, ObjectTypes DEF InStep
    <3>2. Intact(t)'
      BY <1>2, <1>7, <2>1 DEF Intact
    <3> QED BY <3>1, <3>2 DEF OwnBytes
  <2>2. CASE t # s
    <3>1. object'[t] = object[t] /\ view'[t] = view[t]
      BY <1>7, <2>2
    <3>2. InStep(t)' /\ (Intact(t) => Intact(t)')
      BY <1>0, <1>5, <3>1 DEF InStep, Intact
    <3> QED BY <1>0, <1>5, <3>2 DEF OwnBytes
  <2> QED BY <2>1, <2>2
<1> QED BY <1>5, <1>6, <1>8 DEF StreamsInv, AllBytes

LEMMA CloneStep ==
  ASSUME StreamsInv, NEW s \in DynamicStreams, NEW t \in DynamicStreams, D!Clone(s, t)
  PROVE  StreamsInv'
<1>0. StreamsType /\ \A u \in DynamicStreams : InStep(u) /\ OwnBytes(u) /\ AllBytes(u)
  BY DEF StreamsInv
<1>1. /\ object[s].live /\ ~object[t].live
      /\ object' = [object EXCEPT ![t] = object[s]] /\ view' = [view EXCEPT ![t] = view[s]]
      /\ blocks' = blocks /\ writers' = writers /\ cleared' = cleared
  BY DEF D!Clone
<1>2. StreamsType'
  BY <1>0, <1>1 DEF StreamsType
<1>3. /\ object'[t] = object[s] /\ view'[t] = view[s]
      /\ \A u \in DynamicStreams : u # t => object'[u] = object[u] /\ view'[u] = view[u]
  BY <1>0, <1>1 DEF StreamsType
<1>4. t \notin writers
  BY <1>0, <1>1 DEF InStep
<1>5. ASSUME NEW u \in DynamicStreams PROVE InStep(u)'
  BY <1>0, <1>1, <1>3 DEF InStep
<1>6. Intact(s) => Intact(t)'
  BY <1>1, <1>3 DEF Intact
<1>7. ASSUME NEW u \in DynamicStreams, u # t PROVE Intact(u) => Intact(u)'
  BY <1>1, <1>3, <1>7 DEF Intact
<1>8. ASSUME NEW u \in DynamicStreams PROVE OwnBytes(u)'
  <2>1. CASE u = t
    <3>1. writers \subseteq {t} => writers \subseteq {s}
      BY <1>4
    <3> QED BY <1>0, <1>1, <1>6, <2>1, <3>1 DEF OwnBytes
  <2>2. CASE u # t
    BY <1>0, <1>1, <1>7, <2>2 DEF OwnBytes
  <2> QED BY <2>1, <2>2
<1>9. ASSUME NEW w \in DynamicStreams, cleared = {}, writers \subseteq {w}, NEW u \in DynamicStreams
      PROVE  object'[u].p_size <= object'[w].p_size /\ Intact(u)'
  <2>1. PICK w0 \in DynamicStreams : w0 = IF w = t THEN s ELSE w
    OBVIOUS
  <2>2. writers \subseteq {w0} /\ object'[w] = object[w0]
    BY <1>3, <1>4, <1>9, <2>1
  <2>3. \A x \in DynamicStreams : object[x].p_size <= object[w0].p_size /\ Intact(x)
    BY <1>0, <1>9, <2>1, <2>2 DEF AllBytes
  <2>4. CASE u = t
    BY <1>3, <1>6, <2>2, <2>3, <2>4
  <2>5. CASE u # t
    BY <1>3, <1>7, <2>2, <2>3, <2>5
  <2> QED BY <2>4, <2>5
<1>10. ASSUME NEW w \in DynamicStreams PROVE AllBytes(w)'
  BY <1>1, <1>9 DEF AllBytes
<1> QED BY <1>2, <1>5, <1>8, <1>10 DEF StreamsInv

LEMMA WriteStep ==
  ASSUME StreamsInv, NEW s \in DynamicStreams, NEW bytes \in Seq(DynamicBytes), D!Write(s, bytes)
  PROVE  StreamsInv'
<1>0. StreamsType /\ \A u \in DynamicStreams : InStep(u) /\ OwnBytes(u) /\ AllBytes(u)
  BY DEF StreamsInv
<1>1. PICK size \in Nat, new \in Nat : size = object[s].p_size /\ new = Len(bytes)
  BY ObjectTypes
<1>2. /\ object[s].live /\ object[s].p_offset = size /\ writers' = writers \cup {s} /\ cleared' = cleared
      /\ object[s].p_size = size
  BY <1>1 DEF D!Write
<1>3. /\ view[s].offset = size /\ Len(view[s].data) = size /\ size <= Space(blocks) /\ Space(blocks) \in Nat
      /\ blocks \in Seq(Block) /\ view[s].data \in Seq(DynamicBytes)
  BY <1>1, <1>2, ObjectTypes DEF InStep
<1>4. blocks' = D!StorageWrite(blocks, size, bytes)
  BY <1>2 DEF D!Write
<1>5. PICK nb : nb = blocks'
  OBVIOUS
<1>6. HoldsData(blocks, size, bytes, nb)
  BY <1>3, <1>4, <1>5, StorageWritten
<1>7. /\ nb \in Seq(Block) /\ Len(blocks) <= Len(nb) /\ size + new <= Space(nb)
      /\ InPlace(blocks, size, bytes, nb, new)
  BY <1>1, <1>6 DEF HoldsData
<1>8. Space(blocks) <= Space(nb) /\ Space(nb) \in Nat
  <2>1. Len(blocks) \in Nat /\ Len(nb) \in Nat
    BY <1>3, <1>7
  <2> QED BY <1>7, <2>1, SpaceGrows
<1>9. D!Stored(blocks, size, bytes) = new
  BY <1>1, <1>3 DEF D!Stored, Space
<1>10. PICK o : o = [object[s] EXCEPT !.p_size = size + new, !.p_offset = size + new, !.state = TRUE]
  OBVIOUS
<1>11. object' = [object EXCEPT ![s] = o]
  BY <1>2, <1>9, <1>10, ObjectTypes DEF D!Write
<1>12. o \in ObjectType /\ o.p_size = size + new /\ o.p_offset = size + new /\ o.live
  <2>1. object[s] \in ObjectType /\ size + new \in Nat
    BY ObjectTypes
  <2>2. o \in ObjectType /\ o.p_size = size + new /\ o.p_offset = size + new /\ o.live = object[s].live
    BY <1>10, <2>1 DEF ObjectType
  <2> QED BY <1>2, <2>2
<1>13. PICK all : all = view[s].data \o bytes
  OBVIOUS
<1>14. PICK v : v = [data |-> all, offset |-> size + new]
  OBVIOUS
<1>15. /\ all \in Seq(DynamicBytes) /\ Len(all) = size + new
       /\ \A i \in 1..(size + new) : all[i] = IF i <= size THEN view[s].data[i] ELSE bytes[i - size]
  <2>1. view[s].data \in Seq(DynamicBytes) /\ bytes \in Seq(DynamicBytes)
    BY <1>3
  <2>2. all \in Seq(DynamicBytes) /\ Len(all) = Len(view[s].data) + Len(bytes)
    BY <1>13, <2>1, ConcatProperties
  <2>3. \A i \in 1..Len(view[s].data) + Len(bytes) :
          (view[s].data \o bytes)[i] = IF i <= Len(view[s].data) THEN view[s].data[i]
                                      ELSE bytes[i - Len(view[s].data)]
    BY <2>1, ConcatProperties, Zenon
  <2> QED BY <1>1, <1>3, <1>13, <2>2, <2>3
<1>16. view' = [view EXCEPT ![s] = v] /\ v \in ViewType /\ v.data = all /\ v.offset = size + new
  <2>1. D!B!Write(view[s], bytes) = v
    BY <1>1, <1>3, <1>13, <1>14 DEF D!B!Write, D!B!AtEnd, D!B!Size
  <2>2. view' = [view EXCEPT ![s] = D!B!Write(view[s], bytes)]
    BY DEF D!Write
  <2> QED BY <1>14, <1>15, <2>1, <2>2 DEF ViewType
<1>17. StreamsType'
  <2>1. writers' \subseteq DynamicStreams /\ IsFiniteSet(writers')
    BY <1>0, <1>2, FS_AddElement DEF StreamsType
  <2> QED BY <1>0, <1>5, <1>7, <1>11, <1>12, <1>16, <2>1 DEF StreamsType
<1>18. /\ object'[s] = o /\ view'[s] = v
       /\ \A t \in DynamicStreams : t # s => object'[t] = object[t] /\ view'[t] = view[t]
  BY <1>0, <1>11, <1>16 DEF StreamsType
<1>19. ASSUME NEW t \in DynamicStreams PROVE InStep(t)'
  <2>1. InStep(t) /\ object[t].p_size \in Nat
    BY ObjectTypes
  <2>2. CASE t = s
    <3>1. /\ view'[t].offset = object'[t].p_offset /\ Len(view'[t].data) = object'[t].p_size
          /\ object'[t].p_offset <= object'[t].p_size /\ object'[t].p_size <= Space(nb)
          /\ object'[t].live
      BY <1>7, <1>12, <1>15, <1>16, <1>18, <2>2
    <3> QED BY <1>5, <3>1 DEF InStep
  <2>3. CASE t # s
    <3>1. object'[t] = object[t] /\ view'[t] = view[t]
      BY <1>18, <2>3
    <3>2. /\ view[t].offset = object[t].p_offset /\ Len(view[t].data) = object[t].p_size
          /\ object[t].p_offset <= object[t].p_size /\ object[t].p_size <= Space(nb)
          /\ t \in writers' => object[t].live
      BY <1>2, <1>3, <1>8, <2>1, <2>3 DEF InStep
    <3> QED BY <1>5, <3>1, <3>2 DEF InStep
  <2> QED BY <2>2, <2>3
<1>20. Intact(s) => Intact(s)'
  <2> SUFFICES ASSUME Intact(s), NEW i \in 0..(size + new - 1) PROVE ByteAt(nb, i) = all[i + 1]
    BY <1>5, <1>12, <1>16, <1>18 DEF Intact
  <2>1. i + 1 \in 1..(size + new)
    OBVIOUS
  <2>2. CASE i < size
    <3>1. i \in Nat /\ i < Space(blocks) /\ i \in 0..(size - 1)
      BY <1>3, <2>2
    <3>2. ByteAt(nb, i) = ByteAt(blocks, i)
      BY <1>7, <2>2, <3>1 DEF InPlace
    <3>3. ByteAt(blocks, i) = view[s].data[i + 1]
      BY <1>2, <3>1 DEF Intact
    <3>4. all[i + 1] = view[s].data[i + 1]
      BY <1>15, <2>1, <2>2
    <3> QED BY <3>2, <3>3, <3>4
  <2>3. CASE i >= size
    <3>1. PICK j \in Nat : j = i - size
      BY <2>3
    <3>2. j \in 0..(new - 1) /\ size + j = i /\ i + 1 - size = j + 1 /\ ~(i + 1 <= size)
      BY <2>3, <3>1
    <3>3. ByteAt(nb, size + j) = bytes[j + 1]
      BY <1>7, <3>2 DEF InPlace
    <3>4. all[i + 1] = bytes[i + 1 - size]
      BY <1>15, <2>1, <3>2
    <3> QED BY <3>2, <3>3, <3>4
  <2> QED BY <2>2, <2>3
<1>21. ASSUME NEW t \in DynamicStreams, t # s, Intact(t), object[t].p_size <= size PROVE Intact(t)'
  <2>1. object'[t] = object[t] /\ view'[t] = view[t]
    BY <1>18, <1>21
  <2>2. object[t].p_size \in Nat
    BY ObjectTypes
  <2> SUFFICES ASSUME NEW i \in 0..(object[t].p_size - 1) PROVE ByteAt(nb, i) = view[t].data[i + 1]
    BY <1>5, <2>1 DEF Intact
  <2>3. i \in Nat /\ i < size /\ i < Space(blocks)
    BY <1>3, <1>21, <2>2
  <2>4. ByteAt(nb, i) = ByteAt(blocks, i)
    BY <1>7, <2>3 DEF InPlace
  <2> QED BY <1>21, <2>4 DEF Intact
<1>22. ASSUME NEW t \in DynamicStreams PROVE OwnBytes(t)'
  <2> SUFFICES ASSUME writers' \subseteq {t} PROVE Intact(t)'
    BY DEF OwnBytes
  <2>1. t = s /\ writers \subseteq {s}
    BY <1>2
  <2> QED BY <1>0, <1>20, <2>1 DEF OwnBytes
<1>23. ASSUME NEW w \in DynamicStreams PROVE AllBytes(w)'
  <2> SUFFICES ASSUME cleared' = {}, writers' \subseteq {w}, NEW t \in DynamicStreams
               PROVE  object'[t].p_size <= object'[w].p_size /\ Intact(t)'
    BY DEF AllBytes
  <2>1. w = s /\ writers \subseteq {s} /\ cleared = {}
    BY <1>2
  <2>2. object[t].p_size <= size /\ Intact(t)
    BY <1>0, <1>2, <2>1 DEF AllBytes
  <2>3. Intact(t)'
    BY <1>20, <1>21, <2>2
  <2>4. object'[t].p_size <= object'[w].p_size
    <3>1. object'[w].p_size = size + new
      BY <1>12, <1>18, <2>1
    <3>2. t # s => object'[t] = object[t]
      BY <1>18
    <3>3. object[t].p_size \in Nat
      BY ObjectTypes
    <3> QED BY <2>1, <2>2, <3>1, <3>2, <3>3
  <2> QED BY <2>3, <2>4
<1> QED BY <1>17, <1>19, <1>22, <1>23 DEF StreamsInv

LEMMA NextInv == StreamsInv /\ [D!Next]_dynamic => StreamsInv'
<1> SUFFICES ASSUME StreamsInv, [D!Next]_dynamic PROVE StreamsInv'
  OBVIOUS
<1>1. CASE UNCHANGED dynamic
  BY <1>1 DEF dynamic, StreamsInv, StreamsType, InStep, OwnBytes, AllBytes, Intact
<1>2. ASSUME NEW s \in DynamicStreams, NEW size \in 0..MaxData, D!Read(s, size) PROVE StreamsInv'
  BY <1>2, ReadStep
<1>3. ASSUME NEW s \in DynamicStreams, D!WriteRefused(s) PROVE StreamsInv'
  BY <1>3, WriteRefusedStep
<1>4. ASSUME NEW s \in DynamicStreams, NEW bytes \in D!Data, D!Write(s, bytes) PROVE StreamsInv'
  <2>1. bytes \in Seq(DynamicBytes)
    BY DEF D!Data
  <2> QED BY <1>4, <2>1, WriteStep
<1>5. ASSUME NEW s \in DynamicStreams, NEW move_to \in -MaxSize..MaxSize, D!Seek(s, move_to) PROVE StreamsInv'
  BY <1>5, SeekStep
<1>6. ASSUME NEW s \in DynamicStreams, NEW t \in DynamicStreams, D!Clone(s, t) PROVE StreamsInv'
  BY <1>6, CloneStep
<1>7. ASSUME NEW s \in DynamicStreams, D!Clear(s) PROVE StreamsInv'
  BY <1>7, ClearStep
<1> QED BY <1>1, <1>2, <1>3, <1>4, <1>5, <1>6, <1>7 DEF D!Next

LEMMA StreamsInvariant == Spec => []StreamsInv
<1>1. Init => StreamsInv
  BY InitInv DEF Init
<1>2. StreamsInv /\ [Next]_vars => StreamsInv'
  <2>1. [Next]_vars => [D!Next]_dynamic
    BY DEF Next, vars, dynamic
  <2> QED BY <2>1, NextInv
<1> QED BY <1>1, <1>2, PTL DEF Spec

(* A stream object behaves as a byte stream of its own for as long as none *)
(* of its clones, or the object it was cloned from, has written, whatever  *)
(* the sizes of the blocks and of what is read and written.                *)
THEOREM ActsAsOwnStream == Spec => []ActsAsByteStream
<1>1. StreamsInv => ActsAsByteStream
  BY InvImplies DEF ActsAsByteStream
<1> QED BY <1>1, StreamsInvariant, PTL

(* While one object writes and nothing is cleared, every object on the     *)
(* storage reads what it did before.                                       *)
THEOREM ReadersKeepBytes == Spec => []ReadersUndisturbed
<1>1. StreamsInv => ReadersUndisturbed
  BY InvImplies DEF ReadersUndisturbed
<1> QED BY <1>1, StreamsInvariant, PTL
=============================================================================
