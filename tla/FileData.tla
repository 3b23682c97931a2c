------------------------------ MODULE FileData ------------------------------
(***************************************************************************)
(* A hidden file in memory: an object of src/src/sfsfssfsf_file.cc, with   *)
(* its data buffer, its size and its reference count, under the handlers   *)
(* of src/src/fuse_service.cc, and the kernel in front of them, which      *)
(* reads nothing behind the size that getattr gave it. The object is saved *)
(* in whole chunks, loaded in whole chunks, and gone when the process is.  *)
(*                                                                         *)
(* A byte is one symbol here: how it gets into the audio file, and out     *)
(* again, is in Fsync and Load. The audio file has room for the buffer.    *)
(***************************************************************************)
EXTENDS Integers, Sequences, FiniteSets

CONSTANTS
  Chunk,         (* SFSFSSFSF_CHUNK                                        *)
  BufChunks,     (* the data buffer holds this many chunks                 *)
  Bytes,         (* what a byte may be                                     *)
  Zero,          (* the zero byte                                          *)
  MaxEnd,        (* applications write up to this offset                   *)
  Handles,       (* the handles that applications may have open            *)
  MaxRefs        (* the reference count is bounded by this                 *)

ASSUME FileDataAssumption ==
  /\ Chunk \in Nat \ {0} /\ BufChunks \in Nat \ {0}
  /\ Zero \in Bytes
  /\ MaxEnd \in Nat /\ MaxRefs \in Nat

(* new uint8_t[4194304]                                                    *)
Capacity == Chunk * BufChunks

VARIABLES
  object,        (* rpath_fileobj's entry: "none", "live" or "deleted"     *)
  data,          (* the data buffer                                        *)
  pst_size,      (* pfi.pst_size                                           *)
  ref_count,
  handles,       (* the handles that are open                              *)
  i_size,        (* the file's size as the kernel knows it                 *)
  overrun,       (* whether a write went past the end of the buffer        *)
  last,          (* history: the latest write                              *)
  magic,         (* whether the audio file starts with a header,           *)
  stored_size,   (* the size in it,                                        *)
  stored         (* and what its samples carry behind it                   *)

memory == <<object, data, pst_size, ref_count, handles, i_size>>
disk == <<magic, stored_size, stored>>
vars == <<memory, overrun, last, disk>>

Buffer == [0 .. Capacity - 1 -> Bytes]

EmptyData == [d \in 0 .. Capacity - 1 |-> Zero]

(* size, rounded up to whole chunks                                        *)
WholeChunks(size) == Chunk * ((size + Chunk - 1) \div Chunk)

-----------------------------------------------------------------------------
(* The object                                                              *)

(* Mutant of LoadedData: the buffer is not zeroed.                         *)
LoadedDirty ==
  [d \in 0 .. Capacity - 1 |-> IF d < WholeChunks(stored_size) THEN stored[d]
                                 ELSE CHOOSE b \in Bytes : b # Zero]

(* The constructor, for a file that is there: a buffer of zeros, into      *)
(* which whole chunks are decoded.                                         *)
LoadedData ==
  [d \in 0 .. Capacity - 1 |->
     IF d < WholeChunks(stored_size) THEN stored[d] ELSE Zero]

(* Mutant of StoredData: bits are put as far as the size goes.             *)
StoredUnpadded ==
  [d \in 0 .. Capacity - 1 |-> IF d < pst_size THEN data[d] ELSE stored[d]]

(* fsync, for a header and whole chunks of the buffer. The bits behind     *)
(* them stay what they were.                                               *)
StoredData ==
  [d \in 0 .. Capacity - 1 |->
     IF d < WholeChunks(pst_size) THEN data[d] ELSE stored[d]]

(* bound_num_bytes: the size less the offset, of an unsigned type.         *)
BoundNumBytes(offset, num_bytes) ==
  LET bytes_left == pst_size - offset
  IN  IF 0 <= bytes_left /\ bytes_left < num_bytes THEN bytes_left
                                                   ELSE num_bytes

(* The assertion in bound_num_bytes.                                       *)
ReadAsserts(offset) == offset <= pst_size

(* Mutant of SizeWritten: the size is set, not raised.                     *)
SizeSet(offset, num_bytes) == offset + num_bytes

(* write: the size that it leaves, and the buffer.                         *)
SizeWritten(offset, num_bytes) ==
  IF offset + num_bytes > pst_size THEN offset + num_bytes ELSE pst_size

DataWritten(offset, bytes) ==
  [d \in 0 .. Capacity - 1 |->
     IF offset <= d /\ d < offset + Len(bytes) THEN bytes[d - offset + 1]
                                               ELSE data[d]]

-----------------------------------------------------------------------------
(* The handlers                                                            *)

Init ==
  /\ object = "none" /\ data = EmptyData /\ pst_size = 0 /\ ref_count = 0
  /\ handles = {} /\ i_size = 0
  /\ overrun = FALSE /\ last = [offset |-> 0, bytes |-> <<>>]
  /\ magic = FALSE /\ stored_size = 0
  /\ stored \in Buffer

(* mknod: an empty object, and its fsync. The kernel looks up the new name *)
(* before it opens it.                                                     *)
Mknod ==
  /\ object = "none" /\ ~magic
  /\ object' = "live" /\ data' = EmptyData /\ pst_size' = 0 /\ ref_count' = 0
  /\ magic' = TRUE /\ stored_size' = 0
  /\ UNCHANGED <<handles, i_size, overrun, last, stored>>

(* new SFSFSSFSF_File(apath(key_rpath_map[rpath]), "")                     *)
LoadObject ==
  /\ object = "none" /\ magic
  /\ object' = "live" /\ data' = LoadedData /\ pst_size' = stored_size
  /\ ref_count' = 0

(* getattr, which makes an object if there is none.                        *)
GetattrLoads ==
  /\ LoadObject
  /\ i_size' = stored_size
  /\ UNCHANGED <<handles, overrun, last, disk>>

Getattr ==
  /\ object = "live"
  /\ i_size' = pst_size
  /\ UNCHANGED <<object, data, pst_size, ref_count, handles, overrun, last,
                 disk>>

(* open: an object that is there is retained, a new one is not.            *)
OpenLoads(h) ==
  /\ LoadObject
  /\ handles' = handles \cup {h}
  /\ UNCHANGED <<i_size, overrun, last, disk>>

Open(h) ==
  /\ object # "none" /\ h \notin handles
  /\ ref_count < MaxRefs
  /\ ref_count' = ref_count + 1
  /\ handles' = handles \cup {h}
  /\ UNCHANGED <<object, data, pst_size, i_size, overrun, last, disk>>

(* write. The handler gives 0 where FUSE expects the count, so the kernel  *)
(* does not move its own idea of the size. Nothing compares the end with   *)
(* the buffer's.                                                           *)
Write(h, offset, bytes) ==
  /\ h \in handles /\ object = "live"
  /\ pst_size' = SizeWritten(offset, Len(bytes))
  /\ data' = DataWritten(offset, bytes)
  /\ overrun' = (overrun \/ offset + Len(bytes) > Capacity)
  /\ last' = [offset |-> offset, bytes |-> bytes]
  /\ UNCHANGED <<object, ref_count, handles, i_size, disk>>

(* fsync                                                                   *)
Fsync(h) ==
  /\ h \in handles /\ object = "live" /\ ~overrun
  /\ stored' = StoredData /\ stored_size' = pst_size
  /\ UNCHANGED <<memory, overrun, last, magic>>

(* Mutant of Close: release is registered, so its handler runs.            *)
CloseReleases(h) ==
  /\ h \in handles
  /\ handles' = handles \ {h}
  /\ ref_count' = ref_count - 1
  /\ object' = IF ref_count' = 0 THEN "deleted" ELSE object
  /\ UNCHANGED <<data, pst_size, i_size, overrun, last, disk>>

(* An application closes its handle: release is not among the operations   *)
(* that are registered, so the object is left as it is.                    *)
Close(h) ==
  /\ h \in handles
  /\ handles' = handles \ {h}
  /\ UNCHANGED <<object, data, pst_size, ref_count, i_size, overrun, last,
                 disk>>

(* A crash or an unmount.                                                  *)
Stop ==
  /\ object # "none"
  /\ object' = "none" /\ data' = EmptyData /\ pst_size' = 0 /\ ref_count' = 0
  /\ handles' = {} /\ i_size' = 0
  /\ UNCHANGED <<overrun, last, disk>>

Next ==
  \/ Mknod
  \/ GetattrLoads
  \/ Getattr
  \/ \E h \in Handles : OpenLoads(h)
  \/ \E h \in Handles : Open(h)
  \/ \E h \in Handles, offset \in 0 .. MaxEnd, n \in 1 .. MaxEnd :
       /\ offset + n <= MaxEnd
       /\ \E bytes \in [1 .. n -> Bytes] : Write(h, offset, bytes)
  \/ \E h \in Handles : Fsync(h)
  \/ \E h \in Handles : Close(h)
  \/ Stop

Spec == Init /\ [][Next]_vars

-----------------------------------------------------------------------------
(* What the object promises.                                               *)

TypeOK ==
  /\ object \in {"none", "live"}
  /\ data \in Buffer
  /\ pst_size \in 0 .. MaxEnd
  /\ ref_count \in 0 .. MaxRefs
  /\ handles \subseteq Handles
  /\ i_size \in 0 .. MaxEnd
  /\ overrun \in BOOLEAN
  /\ magic \in BOOLEAN
  /\ stored_size \in 0 .. MaxEnd
  /\ stored \in Buffer

(* "make sure we don't read or write past end of data buf" (comment at     *)
(* src/src/sfsfssfsf_file.cc:132): no write goes behind the buffer.        *)
InBuffer == ~overrun

(* A read that the kernel asks for, at any offset within the size that it  *)
(* knows, meets no assertion and stays within the file, whatever was       *)
(* written, saved, loaded and lost since the kernel learned that size.     *)
(* (bound_num_bytes, sfsfssfsf_file.cc:133)                                *)
KernelReadsInside ==
  object = "live" =>
    \A offset \in 0 .. i_size, n \in 0 .. MaxEnd :
      /\ ReadAsserts(offset)
      /\ offset + BoundNumBytes(offset, n) <= pst_size

(* Bytes behind the end of the file are zero, in memory after any history  *)
(* of writes, saves, stops and loads, though a load takes whole chunks out *)
(* of an audio file that carries whatever it carried before: a write that  *)
(* leaves a gap need not clear it, and does not.                           *)
(* (SFSFSSFSF_File::write, sfsfssfsf_file.cc:152)                          *)
GapsAreZero ==
  object = "live" =>
    \A d \in 0 .. Capacity - 1 : d >= pst_size => data[d] = Zero

(* The refinement mapping.                                                 *)
FirstBytes(buffer, size) == [j \in 1 .. size |-> buffer[j - 1]]

StoredContent == IF magic THEN FirstBytes(stored, stored_size) ELSE <<>>

File == INSTANCE ByteFile WITH
  Largest <- Capacity,
  content <- IF object = "none" THEN StoredContent
                                ELSE FirstBytes(data, pst_size),
  saved <- StoredContent

(* What read copies from is a file of bytes, ByteFile: every write puts    *)
(* its bytes where it was told to, around them is what was there, gaps are *)
(* zero, and after a stop there is what was last saved, byte for byte.     *)
(* (SFSFSSFSF_File::read and write, sfsfssfsf_file.cc:143)                 *)
IsByteFile == File!Spec
=============================================================================
