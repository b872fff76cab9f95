----------------------------- MODULE FileStream -----------------------------
(***************************************************************************)
(* cpcl/file_stream.h and file_stream_posix.cpp: streams over files, each  *)
(* object with a file descriptor of its own; clones open the file again,   *)
(* by its path; the streams of a temporary file share a Deleter, which     *)
(* unlinks the file when the last of them is gone.  The objects are used   *)
(* by different threads, one object by one thread at a time.               *)
(*                                                                         *)
(* External: the file system, and other programs, which may remove files   *)
(* that are not temporary or put others in their place.  Any call may      *)
(* fail; of the failures, those that leave everything as it was are no     *)
(* step.                                                                   *)
(***************************************************************************)
EXTENDS Integers, Sequences, FiniteSets

CONSTANTS
  Streams,         \* stream objects
  Documents,       \* paths of files that are not temporary
  Temporaries,     \* names that RandName makes
  Inodes, NoInode,
  Bytes,           \* values of a byte
  DocumentBytes,   \* what a document holds
  MaxTries,        \* 0x100: names that CreateTemporary tries
  MaxLength        \* bound: bytes of a file, and positions

NoPath == ""     \* std::string file_path of an object that has no file

ASSUME FileAssumption ==
  /\ MaxTries \in Nat \ {0} /\ MaxLength \in Nat /\ NoInode \notin Inodes
  /\ DocumentBytes \in Seq(Bytes) /\ "hole" \in Bytes
  /\ Documents \cap Temporaries = {} /\ NoPath \notin Documents \cup Temporaries

VARIABLES
  names,     \* the directory: the inode of each path
  data,      \* the bytes of each inode
  stream,    \* the objects: descriptor (inode, offset, mode), state, path, deleter
  leaked     \* history: the temporary files that nobody will delete any more

files == <<names, data, stream, leaked>>

Paths == Documents \cup Temporaries
NoStream == [phase |-> "none", inode |-> NoInode, offset |-> 0, writable |-> FALSE,
             state |-> TRUE, path |-> NoPath, deleter |-> FALSE, tries |-> 0]

FilesInit ==
  /\ \E i \in Inodes : names = [p \in Paths |-> IF p \in Documents THEN i ELSE NoInode]
  /\ data = [i \in Inodes |-> DocumentBytes]
  /\ stream = [s \in Streams |-> NoStream]
  /\ leaked = {}

Unused(i) == i \notin {names[p] : p \in Paths} \cup {stream[s].inode : s \in Streams}

(* The stream of a file that was opened. *)
Opened(inode, p, writable, deleter) ==
  [NoStream EXCEPT !.phase = "open", !.inode = inode, !.path = p, !.writable = writable,
                   !.deleter = deleter]

(* A new file, and the stream on it. *)
MakeFile(s, p, deleter) ==
  \E i \in Inodes :
    /\ Unused(i)
    /\ names' = [names EXCEPT ![p] = i]
    /\ data' = [data EXCEPT ![i] = <<>>]
    /\ stream' = [stream EXCEPT ![s] = Opened(i, p, TRUE, deleter)]
    /\ UNCHANGED leaked
----------------------------------------------------------------------------
(* FileStream::Read(path) and ReadWrite, and Create, which wants no file. *)
Open(s, p, writable) ==
  /\ stream[s].phase = "none" /\ names[p] # NoInode
  /\ stream' = [stream EXCEPT ![s] = Opened(names[p], p, writable, FALSE)]
  /\ UNCHANGED <<names, data, leaked>>

Create(s, p) == stream[s].phase = "none" /\ names[p] = NoInode /\ MakeFile(s, p, FALSE)

(* CreateTemporary: O_EXCL tells whether a name is free. *)
CreateTemporary(s) ==
  /\ stream[s].phase = "none"
  /\ stream' = [stream EXCEPT ![s] = [NoStream EXCEPT !.phase = "naming"]]
  /\ UNCHANGED <<names, data, leaked>>

NameTaken(s, p) ==
  LET tries == stream[s].tries + 1
  IN  /\ stream[s].phase = "naming" /\ names[p] # NoInode
      /\ stream' = [stream EXCEPT ![s] = IF tries = MaxTries THEN NoStream ELSE [@ EXCEPT !.tries = tries]]
      /\ UNCHANGED <<names, data, leaked>>

NameFree(s, p) == stream[s].phase = "naming" /\ names[p] = NoInode /\ MakeFile(s, p, TRUE)

(* There is no memory for the stream or its Deleter: the file stays.       *)
NameLeaks(s, p) ==
  /\ stream[s].phase = "naming" /\ names[p] = NoInode
  /\ \E i \in Inodes :
       /\ Unused(i)
       /\ names' = [names EXCEPT ![p] = i]
       /\ data' = [data EXCEPT ![i] = <<>>]
  /\ stream' = [stream EXCEPT ![s] = NoStream]
  /\ leaked' = leaked \cup {p}

NamingFails(s) ==
  /\ stream[s].phase = "naming"
  /\ stream' = [stream EXCEPT ![s] = NoStream]
  /\ UNCHANGED <<names, data, leaked>>

(* A Clone that opened the file goes to the position that the original     *)
(* tells, whose state says whether it could; it stays at 0 if that or the  *)
(* Seek fails.                                                             *)
MakeClone(s, t, clone) ==
  \E told, sought \in BOOLEAN :
    stream' = [stream EXCEPT
      ![s].state = told,
      ![t] = [clone EXCEPT !.offset = IF told /\ sought THEN stream[s].offset ELSE 0]]

(* Mutant: the clone does not take part in the deletion. *)
CloneWithoutDeleter(s, t) ==
  LET o == stream[s]
  IN  /\ o.phase = "open" /\ stream[t].phase = "none" /\ names[o.path] # NoInode
      /\ MakeClone(s, t, Opened(names[o.path], o.path, FALSE, FALSE))
      /\ UNCHANGED <<names, data, leaked>>

(* Clone opens what is at the path by now, for reading. *)
Clone(s, t) ==
  LET o == stream[s]
  IN  /\ o.phase = "open" /\ stream[t].phase = "none" /\ names[o.path] # NoInode
      /\ MakeClone(s, t, Opened(names[o.path], o.path, FALSE, o.deleter))
      /\ UNCHANGED <<names, data, leaked>>

(* ~FileStream closes the descriptor; then its members go. *)
Close(s) ==
  /\ stream[s].phase = "open"
  /\ stream' = [stream EXCEPT ![s].phase = "closed"]
  /\ UNCHANGED <<names, data, leaked>>

Sharing(s) == {t \in Streams \ {s} : stream[t].deleter /\ stream[t].path = stream[s].path}

LastOwner(s) == stream[s].deleter /\ Sharing(s) = {}

(* The last owner of the Deleter unlinks the file, which may fail. *)
ReleaseDeleter(s) ==
  /\ stream[s].phase = "closed"
  /\ \/ LastOwner(s) /\ names' = [names EXCEPT ![stream[s].path] = NoInode] /\ UNCHANGED leaked
     \/ LastOwner(s) /\ leaked' = leaked \cup {stream[s].path} /\ UNCHANGED names
     \/ ~LastOwner(s) /\ UNCHANGED <<names, leaked>>
  /\ stream' = [stream EXCEPT ![s] = NoStream]
  /\ UNCHANGED data
----------------------------------------------------------------------------
(* read() of n bytes, at most the size asked for; 0 at or beyond the end,  *)
(* or when it fails.                                                       *)
BytesAt(o, n) == SubSeq(data[o.inode], o.offset + 1, o.offset + n)
CanRead(o, size) ==
  0..(IF o.offset + size < Len(data[o.inode]) THEN size
      ELSE IF o.offset < Len(data[o.inode]) THEN Len(data[o.inode]) - o.offset ELSE 0)

Read(s, size, n, state) ==
  /\ stream[s].phase = "open" /\ n \in CanRead(stream[s], size)
  /\ n = 0 => ~state \/ 0 = size \/ CanRead(stream[s], size) = {0}
  /\ n > 0 => state
  /\ stream' = [stream EXCEPT ![s].offset = @ + n, ![s].state = state]
  /\ UNCHANGED <<names, data, leaked>>

(* write() of a byte; a hole before it is filled with zeros. *)
Put(bytes, offset, byte) ==
  [i \in 1..(IF Len(bytes) > offset THEN Len(bytes) ELSE offset + 1) |->
     IF i = offset + 1 THEN byte ELSE IF i <= Len(bytes) THEN bytes[i] ELSE "hole"]

Write(s, byte) ==
  LET o == stream[s]
  IN  /\ o.phase = "open" /\ o.writable /\ o.offset < MaxLength
      /\ data' = [data EXCEPT ![o.inode] = Put(@, o.offset, byte)]
      /\ stream' = [stream EXCEPT ![s].offset = @ + 1, ![s].state = TRUE]
      /\ UNCHANGED <<names, leaked>>

WriteFails(s) ==
  /\ stream[s].phase = "open"
  /\ stream' = [stream EXCEPT ![s].state = FALSE]
  /\ UNCHANGED <<names, data, leaked>>

(* lseek64 goes anywhere but before the start. *)
Seek(s, position) ==
  /\ stream[s].phase = "open" /\ position \in 0..MaxLength
  /\ stream' = [stream EXCEPT ![s].offset = position]
  /\ UNCHANGED <<names, data, leaked>>

(* Size goes to the end and back again; if it fails, it may stay there. *)
Size(s) ==
  /\ stream[s].phase = "open"
  /\ \/ \E state \in BOOLEAN : stream' = [stream EXCEPT ![s].state = state]
     \/ stream' = [stream EXCEPT ![s].offset = Len(data[stream[s].inode]), ![s].state = FALSE]
  /\ UNCHANGED <<names, data, leaked>>

(* Another program removes a document, or puts another file in its place. *)
Replace(p) ==
  /\ p \in Documents
  /\ \E i \in {j \in Inodes : Unused(j)} \cup {NoInode} :
       /\ names' = [names EXCEPT ![p] = i]
       /\ data' = IF i = NoInode THEN data ELSE [data EXCEPT ![i] = DocumentBytes]
  /\ UNCHANGED <<stream, leaked>>

OpenDocument(s) == \E p \in Documents, writable \in BOOLEAN : Open(s, p, writable)

(* How streams and files come and go. *)
FilesNext ==
  \E s \in Streams :
    \/ OpenDocument(s) \/ CreateTemporary(s) \/ NamingFails(s)
    \/ \E p \in Documents : Create(s, p) \/ Replace(p)
    \/ \E p \in Temporaries : NameTaken(s, p) \/ NameFree(s, p) \/ NameLeaks(s, p)
    \/ \E t \in Streams : Clone(s, t)
    \/ Close(s) \/ ReleaseDeleter(s)
    \/ \E position \in 0..MaxLength : Seek(s, position)
----------------------------------------------------------------------------
(* As long as a stream of a temporary file is open, its path is a name of  *)
(* the file the stream is on - so that it can be cloned, though the stream *)
(* that made the file may be gone - and of nobody else's.  When the last   *)
(* of these streams is gone, the name is free again, or the file could not *)
(* be deleted; then no stream has it, nor ever gets it.                    *)
TemporaryKept ==
  \A p \in Temporaries :
    LET users == {s \in Streams : stream[s].path = p}
    IN  /\ \A s \in users : stream[s].phase = "open" => names[p] = stream[s].inode
        /\ IF p \in leaked THEN users = {} ELSE users = {} => names[p] = NoInode
        /\ Cardinality({s \in users : stream[s].writable}) <= 1
=============================================================================
