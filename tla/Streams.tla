------------------------------- MODULE Streams -------------------------------
(***************************************************************************)
(* The streams of cpcl: DynamicMemoryStream by itself, or file streams of  *)
(* which one is copied to a MemoryStream by IOStream::CopyTo, a loop of    *)
(* Read and Write, while the others go on.                                 *)
(***************************************************************************)
EXTENDS IOStream

CONSTANTS N, DynamicBytes, Junk, DynamicStreams, First, MaxSize, MaxData

ASSUME StreamsAssumption ==
  /\ N \in Nat \ {0} /\ First \in DynamicStreams

VARIABLES
  kind,      \* what this behaviour is about: "files", "memory", "copy", "dynamic"
  blocks, object, view, writers, cleared   \* of DynamicMemoryStream

D == INSTANCE DynamicMemoryStream WITH Streams <- DynamicStreams, Bytes <- DynamicBytes

dynamic == <<blocks, object, view, writers, cleared>>
copying == <<memory, copy>>
vars == <<kind, files, copying, dynamic>>

Init ==
  /\ kind \in {"files", "memory", "copy", "dynamic"}
  /\ FilesInit /\ D!Init
  /\ \/ kind \in {"memory", "copy"}
        /\ \E p \in Memories, throw \in BOOLEAN : memory = M!Assign(p, throw)
     \/ kind \in {"files", "dynamic"} /\ memory = M!Assign(<<>>, TRUE)
  /\ copy = NoCopy
----------------------------------------------------------------------------
(* The other operations of the MemoryStream. *)
UseMemory ==
  \/ \E size \in 0..(2 * IntMax + 1) : memory' = M!Read(memory, size).stream
  \/ \E size \in 0..IntMax : memory' = M!Write(memory, [i \in 1..size |-> "v"], size).stream
  \/ SeekMemory
  \/ memory' = M!ReadByte(memory).stream
  \/ memory' = M!WriteByte(memory, "v").stream
  \/ memory' = M!Clone(memory)

Next ==
  \/ kind = "files" /\ FilesNext /\ UNCHANGED <<kind, copying, dynamic>>
  \/ kind = "memory" /\ UseMemory /\ UNCHANGED <<kind, files, copy, dynamic>>
  \/ kind = "copy" /\ Copying /\ UNCHANGED <<kind, dynamic>>
  \/ kind = "dynamic" /\ D!Next /\ UNCHANGED <<kind, files, copying>>

Spec == Init /\ [][Next]_vars
----------------------------------------------------------------------------
(* DynamicMemoryStream's properties, stated there. *)
ActsAsByteStream == D!ActsAsByteStream
ReadersUndisturbed == D!ReadersUndisturbed
=============================================================================
