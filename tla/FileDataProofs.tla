--------------------------- MODULE FileDataProofs ---------------------------
(***************************************************************************)
(* The in-memory file behaves as a file of bytes, for every size of chunk  *)
(* and buffer, as long as nothing is written behind the buffer.            *)
(***************************************************************************)
EXTENDS FileData, TLAPS

(* Whole chunks cover the bytes that they are counted for. *)
LEMMA ChunksCover ==
  ASSUME NEW size \in Nat
  PROVE  WholeChunks(size) \in Nat /\ size <= WholeChunks(size)
  BY FileDataAssumption, SMTT(30) DEF WholeChunks

-----------------------------------------------------------------------------
(* The inductive invariant.                                                *)

(* What the chunks of the file that is stored carry behind its end: a load *)
(* brings it into the buffer.                                              *)
PaddingStoredZero ==
  magic => \A d \in 0 .. Capacity - 1 :
             stored_size <= d /\ d < WholeChunks(stored_size)
               => stored[d] = Zero

(* The kernel's size never runs ahead of the object's.                     *)
KernelBehind ==
  /\ object = "live" => i_size <= pst_size
  /\ object = "none" => i_size = 0

(* Open handles lead to an object that is there.                           *)
Handed == handles # {} => object = "live"

Stages == object = "live" => magic

Inv ==
  /\ TypeOK
  /\ GapsAreZero
  /\ PaddingStoredZero
  /\ KernelBehind
  /\ Handed
  /\ Stages

(* What is in the buffer after a load: zero behind the end of the file. *)
LEMMA LoadedClean ==
  ASSUME TypeOK, PaddingStoredZero, magic
  PROVE  /\ LoadedData \in Buffer
         /\ \A d \in 0 .. Capacity - 1 :
              d >= stored_size => LoadedData[d] = Zero
  BY FileDataAssumption
  DEF TypeOK, PaddingStoredZero, LoadedData, Buffer, Capacity

(* What a save leaves: the whole chunks of the file as they are in memory. *)
LEMMA StoredClean ==
  ASSUME TypeOK, GapsAreZero, object = "live"
  PROVE  /\ StoredData \in Buffer
         /\ \A d \in 0 .. Capacity - 1 :
              pst_size <= d /\ d < WholeChunks(pst_size)
                => StoredData[d] = Zero
         /\ \A d \in 0 .. Capacity - 1 :
              d < pst_size => StoredData[d] = data[d]
  <1>1. pst_size <= WholeChunks(pst_size) /\ WholeChunks(pst_size) \in Nat
    BY ChunksCover, FileDataAssumption DEF TypeOK
  <1>2. pst_size \in Nat
    BY FileDataAssumption DEF TypeOK
  <1>3. Capacity \in Nat
    BY FileDataAssumption DEF Capacity
  <1>4. StoredData \in Buffer
    BY <1>3 DEF TypeOK, StoredData, Buffer
  <1>5. ASSUME NEW d \in 0 .. Capacity - 1, d < WholeChunks(pst_size)
        PROVE  StoredData[d] = data[d]
    BY <1>5 DEF StoredData
  <1>6. \A d \in 0 .. Capacity - 1 :
          pst_size <= d /\ d < WholeChunks(pst_size) => StoredData[d] = Zero
    BY <1>5 DEF GapsAreZero
  <1>7. \A d \in 0 .. Capacity - 1 :
          d < pst_size => StoredData[d] = data[d]
    <2> TAKE d \in 0 .. Capacity - 1
    <2> HAVE d < pst_size
    <2>1. d < WholeChunks(pst_size)
      BY <1>1, <1>2, <1>3
    <2>2. QED
      BY <1>5, <2>1
  <1>8. QED
    BY <1>4, <1>6, <1>7

LEMMA EmptyIsBuffer == EmptyData \in Buffer
  BY FileDataAssumption DEF EmptyData, Buffer

LEMMA InitInv == Init => Inv
  <1> SUFFICES ASSUME Init PROVE Inv
    OBVIOUS
  <1>1. TypeOK
    <2>1. 0 \in 0 .. MaxEnd /\ 0 \in 0 .. MaxRefs
      BY FileDataAssumption
    <2>2. data \in Buffer /\ stored \in Buffer
      BY EmptyIsBuffer DEF Init
    <2>3. handles \subseteq Handles
      BY DEF Init
    <2>4. overrun \in BOOLEAN /\ magic \in BOOLEAN
      BY DEF Init
    <2>5. QED
      BY <2>1, <2>2, <2>3, <2>4 DEF Init, TypeOK
  <1>2. QED
    BY <1>1 DEF Init, Inv, GapsAreZero, PaddingStoredZero, KernelBehind,
                Handed, Stages

(* An empty object. *)
LEMMA MknodInv == Inv /\ Mknod => Inv'
  <1> SUFFICES ASSUME Inv, Mknod PROVE Inv'
    OBVIOUS
  <1>0. TypeOK /\ KernelBehind /\ Handed
    BY DEF Inv
  <1>1. TypeOK'
    BY <1>0, EmptyIsBuffer, FileDataAssumption
    DEF Mknod, TypeOK, Buffer, Capacity
  <1>2. GapsAreZero'
    BY DEF Mknod, GapsAreZero, EmptyData
  <1>3. PaddingStoredZero'
    <2>1. WholeChunks(0) = 0
      BY FileDataAssumption, SMTT(30) DEF WholeChunks
    <2>2. QED
      BY <2>1 DEF Mknod, PaddingStoredZero, WholeChunks
  <1>4. QED
    BY <1>0, <1>1, <1>2, <1>3
    DEF Mknod, Inv, KernelBehind, Handed, Stages

(* An object that is loaded, by getattr or by open. *)
LEMMA LoadInv ==
  ASSUME Inv, LoadObject, UNCHANGED <<overrun, disk>>,
         i_size' \in {i_size, stored_size}, handles' \subseteq Handles
  PROVE  Inv'
  <1>0. TypeOK /\ PaddingStoredZero /\ KernelBehind /\ magic /\ i_size = 0
    BY DEF Inv, LoadObject, KernelBehind
  <1>1. /\ LoadedData \in Buffer
        /\ \A d \in 0 .. Capacity - 1 :
             d >= stored_size => LoadedData[d] = Zero
    BY <1>0, LoadedClean
  <1>2. TypeOK'
    BY <1>0, <1>1, FileDataAssumption DEF LoadObject, TypeOK, disk, Buffer,
                                          Capacity
  <1>3. GapsAreZero'
    BY <1>1 DEF LoadObject, GapsAreZero, Capacity
  <1>4. PaddingStoredZero'
    BY <1>0 DEF PaddingStoredZero, disk, WholeChunks, Capacity
  <1>5. KernelBehind'
    BY <1>0 DEF KernelBehind, LoadObject, TypeOK
  <1>6. QED
    BY <1>0, <1>2, <1>3, <1>4, <1>5 DEF Inv, LoadObject, Handed, Stages,
                                        disk

(* The kernel learns the size; a handle is opened or closed. *)
LEMMA SameDataInv ==
  ASSUME Inv, UNCHANGED <<object, data, pst_size, overrun, disk>>,
         ref_count' \in 0 .. MaxRefs, handles' \subseteq Handles,
         i_size' = i_size \/ (object = "live" /\ i_size' = pst_size),
         handles' # {} => object = "live"
  PROVE  Inv'
  <1>0. TypeOK /\ GapsAreZero /\ PaddingStoredZero /\ KernelBehind /\ Stages
    BY DEF Inv
  <1>1. TypeOK'
    BY <1>0 DEF TypeOK, disk, Buffer, Capacity
  <1>2. GapsAreZero'
    BY <1>0 DEF GapsAreZero, Capacity
  <1>3. PaddingStoredZero'
    BY <1>0 DEF PaddingStoredZero, disk, WholeChunks, Capacity
  <1>4. KernelBehind'
    BY <1>0, FileDataAssumption DEF KernelBehind, TypeOK
  <1>5. QED
    BY <1>0, <1>1, <1>2, <1>3, <1>4 DEF Inv, Handed, Stages, disk

(* A write: the size is only raised, so what is behind it is behind what   *)
(* was written, and behind the old end.                                    *)
LEMMA WriteInv ==
  ASSUME Inv, NEW h \in Handles, NEW offset \in 0 .. MaxEnd,
         NEW n \in 1 .. MaxEnd, offset + n <= MaxEnd,
         NEW bytes \in [1 .. n -> Bytes], Write(h, offset, bytes)
  PROVE  Inv'
  <1>0. TypeOK /\ GapsAreZero /\ PaddingStoredZero /\ KernelBehind /\ Stages
        /\ Handed
    BY DEF Inv
  <1>l. Len(bytes) = n
    BY FileDataAssumption
  <1>s. pst_size' = IF offset + n > pst_size THEN offset + n ELSE pst_size
    BY <1>l DEF Write, SizeWritten
  <1>d. data' = [d \in 0 .. Capacity - 1 |->
                   IF offset <= d /\ d < offset + n THEN bytes[d - offset + 1]
                                                    ELSE data[d]]
    BY <1>l DEF Write, DataWritten
  <1>1. pst_size' \in 0 .. MaxEnd
    BY <1>0, <1>s, FileDataAssumption DEF TypeOK
  <1>2. data' \in Buffer
    BY <1>0, <1>d, FileDataAssumption DEF TypeOK, Buffer, Capacity
  <1>3. TypeOK'
    BY <1>0, <1>1, <1>2 DEF TypeOK, Write, disk, Buffer, Capacity
  <1>4. GapsAreZero'
    <2> SUFFICES ASSUME NEW d \in 0 .. Capacity - 1, d >= pst_size'
                 PROVE  data'[d] = Zero
      BY DEF GapsAreZero, Capacity
    <2>1. d >= offset + n /\ d >= pst_size
      BY <1>0, <1>s, <1>1, FileDataAssumption DEF TypeOK, Capacity
    <2>2. data'[d] = data[d]
      BY <1>d, <2>1, FileDataAssumption DEF Capacity
    <2>3. QED
      BY <1>0, <2>1, <2>2 DEF GapsAreZero, Write
  <1>5. PaddingStoredZero'
    BY <1>0 DEF PaddingStoredZero, Write, disk, WholeChunks, Capacity
  <1>6. KernelBehind'
    BY <1>0, <1>s, FileDataAssumption DEF KernelBehind, Write, TypeOK
  <1>7. QED
    BY <1>0, <1>3, <1>4, <1>5, <1>6 DEF Inv, Write, Handed, Stages, disk

LEMMA FsyncInv ==
  ASSUME Inv, NEW h \in Handles, Fsync(h)
  PROVE  Inv'
  <1>0. TypeOK /\ GapsAreZero /\ KernelBehind /\ Stages /\ Handed
        /\ object = "live"
    BY DEF Inv, Fsync
  <1>1. /\ StoredData \in Buffer
        /\ \A d \in 0 .. Capacity - 1 :
             pst_size <= d /\ d < WholeChunks(pst_size)
               => StoredData[d] = Zero
    BY <1>0, StoredClean
  <1>2. TypeOK'
    BY <1>0, <1>1 DEF Fsync, TypeOK, memory, Buffer, Capacity
  <1>3. PaddingStoredZero'
    BY <1>1 DEF Fsync, PaddingStoredZero, WholeChunks, Capacity
  <1>4. QED
    BY <1>0, <1>2, <1>3 DEF Inv, Fsync, memory, GapsAreZero, KernelBehind,
                            Handed, Stages, Capacity

LEMMA StopInv == Inv /\ Stop => Inv'
  <1> SUFFICES ASSUME Inv, Stop PROVE Inv'
    OBVIOUS
  <1>0. TypeOK /\ PaddingStoredZero
    BY DEF Inv
  <1>1. TypeOK'
    BY <1>0, EmptyIsBuffer, FileDataAssumption
    DEF Stop, TypeOK, disk, Buffer, Capacity
  <1>2. PaddingStoredZero'
    BY <1>0 DEF Stop, PaddingStoredZero, disk, WholeChunks, Capacity
  <1>3. QED
    BY <1>1, <1>2 DEF Stop, Inv, GapsAreZero, KernelBehind, Handed, Stages

(* Every step keeps the invariant. *)
LEMMA NextInv == Inv /\ [Next]_vars => Inv'
  <1> SUFFICES ASSUME Inv, [Next]_vars PROVE Inv'
    OBVIOUS
  <1>0. TypeOK /\ Handed
    BY DEF Inv
  <1>1. CASE Mknod
    BY <1>1, MknodInv
  <1>2. CASE GetattrLoads
    BY <1>0, <1>2, LoadInv DEF GetattrLoads, TypeOK
  <1>3. CASE Getattr
    BY <1>0, <1>3, SameDataInv DEF Getattr, TypeOK
  <1>4. ASSUME NEW h \in Handles, OpenLoads(h)
        PROVE  Inv'
    BY <1>0, <1>4, LoadInv DEF OpenLoads, TypeOK
  <1>5. ASSUME NEW h \in Handles, Open(h)
        PROVE  Inv'
    <2>1. ref_count' \in 0 .. MaxRefs
      BY <1>0, <1>5, FileDataAssumption DEF Open, TypeOK
    <2>2. object = "live"
      BY <1>0, <1>5 DEF Open, TypeOK
    <2>3. QED
      BY <1>0, <1>5, <2>1, <2>2, SameDataInv DEF Open, TypeOK
  <1>6. ASSUME NEW h \in Handles, NEW offset \in 0 .. MaxEnd,
               NEW n \in 1 .. MaxEnd, offset + n <= MaxEnd,
               NEW bytes \in [1 .. n -> Bytes], Write(h, offset, bytes)
        PROVE  Inv'
    BY <1>6, WriteInv
  <1>7. ASSUME NEW h \in Handles, Fsync(h)
        PROVE  Inv'
    BY <1>7, FsyncInv
  <1>8. ASSUME NEW h \in Handles, Close(h)
        PROVE  Inv'
    <2>1. handles' \subseteq Handles /\ (handles' # {} => object = "live")
      BY <1>0, <1>8 DEF Close, TypeOK, Handed
    <2>2. ref_count' \in 0 .. MaxRefs
      BY <1>0, <1>8 DEF Close, TypeOK
    <2>3. QED
      BY <1>8, <2>1, <2>2, SameDataInv DEF Close
  <1>9. CASE Stop
    BY <1>9, StopInv
  <1>10. CASE UNCHANGED vars
    <2>1. UNCHANGED <<object, data, pst_size, overrun, disk, ref_count,
                      handles, i_size>>
      BY <1>10 DEF vars, memory, disk
    <2>2. QED
      BY <1>0, <2>1, SameDataInv DEF TypeOK, Handed
  <1>11. QED
    BY <1>1, <1>2, <1>3, <1>4, <1>5, <1>6, <1>7, <1>8, <1>9, <1>10 DEF Next

THEOREM Invariance == Spec => []Inv
  BY InitInv, NextInv, PTL DEF Spec

-----------------------------------------------------------------------------
(* What follows from it.                                                   *)

(* Every variable has its type; the object is never deleted. *)
THEOREM TypeCorrect == Spec => []TypeOK
  BY Invariance, PTL DEF Inv

(* Bytes behind the end are zero. (constructor, write, fsync) *)
THEOREM Gaps == Spec => []GapsAreZero
  BY Invariance, PTL DEF Inv

(* The reads that the kernel asks for stay in the file. (bound_num_bytes) *)
THEOREM ReadsInside == Spec => []KernelReadsInside
  <1>1. Inv => KernelReadsInside
    <2> SUFFICES ASSUME Inv, object = "live",
                        NEW offset \in 0 .. i_size, NEW n \in 0 .. MaxEnd
                 PROVE  /\ ReadAsserts(offset)
                        /\ offset + BoundNumBytes(offset, n) <= pst_size
      BY DEF KernelReadsInside
    <2>1. i_size \in Nat /\ pst_size \in Nat /\ i_size <= pst_size
      BY FileDataAssumption DEF Inv, TypeOK, KernelBehind
    <2>2. QED
      BY <2>1, FileDataAssumption DEF ReadAsserts, BoundNumBytes
  <1>2. QED
    BY <1>1, Invariance, PTL

-----------------------------------------------------------------------------
(* The refinement of ByteFile.                                             *)

Content == IF object = "none" THEN StoredContent ELSE FirstBytes(data, pst_size)

LEMMA NoBytes == \A buffer : FirstBytes(buffer, 0) = <<>>
  BY DEF FirstBytes

LEMMA SameBytes ==
  ASSUME NEW b, NEW c, NEW size \in Nat,
         \A d \in 0 .. size - 1 : b[d] = c[d]
  PROVE  FirstBytes(b, size) = FirstBytes(c, size)
  <1>1. \A j \in 1 .. size : b[j - 1] = c[j - 1]
    OBVIOUS
  <1>2. QED
    BY <1>1 DEF FirstBytes

(* A load changes nothing that applications see. *)
LEMMA LoadIsStutter ==
  ASSUME Inv, MaxEnd <= Capacity, LoadObject, UNCHANGED disk
  PROVE  UNCHANGED <<Content, StoredContent>>
  <1>0. /\ stored_size \in Nat /\ stored_size <= Capacity /\ Capacity \in Nat
        /\ stored_size <= WholeChunks(stored_size)
        /\ WholeChunks(stored_size) \in Nat
    BY FileDataAssumption, ChunksCover DEF Inv, TypeOK, Capacity
  <1>1. \A d \in 0 .. stored_size - 1 : LoadedData[d] = stored[d]
    <2> TAKE d \in 0 .. stored_size - 1
    <2>1. d \in 0 .. Capacity - 1 /\ d < WholeChunks(stored_size)
      BY <1>0
    <2>2. QED
      BY <2>1 DEF LoadedData
  <1>2. FirstBytes(LoadedData, stored_size) = FirstBytes(stored, stored_size)
    BY <1>0, <1>1, SameBytes
  <1>3. QED
    BY <1>2 DEF LoadObject, Content, StoredContent, disk, FirstBytes

(* A save stores what applications see. *)
LEMMA FsyncIsSave ==
  ASSUME Inv, MaxEnd <= Capacity, NEW h \in Handles, Fsync(h)
  PROVE  StoredContent' = Content /\ UNCHANGED Content
  <1>0. /\ pst_size \in Nat /\ pst_size <= Capacity /\ Capacity \in Nat
        /\ TypeOK /\ GapsAreZero /\ object = "live" /\ magic
    BY FileDataAssumption DEF Inv, TypeOK, Capacity, Fsync, Stages
  <1>1. \A d \in 0 .. pst_size - 1 : StoredData[d] = data[d]
    <2> TAKE d \in 0 .. pst_size - 1
    <2>1. d \in 0 .. Capacity - 1 /\ d < pst_size
      BY <1>0
    <2>2. QED
      BY <1>0, <2>1, StoredClean
  <1>2. FirstBytes(StoredData, pst_size) = FirstBytes(data, pst_size)
    BY <1>0, <1>1, SameBytes
  <1>3. QED
    BY <1>0, <1>2 DEF Fsync, Content, StoredContent, memory, FirstBytes

(* A write is a write. *)
LEMMA WriteIsWrite ==
  ASSUME Inv, MaxEnd <= Capacity,
         NEW h \in Handles, NEW offset \in 0 .. MaxEnd,
         NEW n \in 1 .. MaxEnd, offset + n <= MaxEnd,
         NEW bytes \in [1 .. n -> Bytes], Write(h, offset, bytes)
  PROVE  File!Write(offset, bytes)
  <1>0. /\ pst_size \in Nat /\ pst_size <= Capacity /\ Capacity \in Nat
        /\ object = "live" /\ offset \in Nat /\ n \in Nat
        /\ offset + n <= Capacity
        /\ data \in Buffer /\ GapsAreZero
    BY FileDataAssumption DEF Inv, TypeOK, Capacity, Write
  <1>l. Len(bytes) = n
    BY FileDataAssumption
  <1> DEFINE end  == offset + n
             size == IF end > pst_size THEN end ELSE pst_size
             new  == [j \in 1 .. size |->
                        IF offset < j /\ j <= end THEN bytes[j - offset]
                        ELSE IF j <= pst_size THEN Content[j] ELSE Zero]
  <1>1. /\ Content = FirstBytes(data, pst_size) /\ Len(Content) = pst_size
        /\ Content' = FirstBytes(data', size)
        /\ StoredContent' = StoredContent
        /\ last' = [offset |-> offset, bytes |-> bytes]
    BY <1>0, <1>l DEF Content, StoredContent, FirstBytes, Write, SizeWritten,
                      disk
  <1>2. \A d \in 0 .. Capacity - 1 :
          data'[d] = IF offset <= d /\ d < end THEN bytes[d - offset + 1]
                                               ELSE data[d]
    BY <1>0, <1>l DEF Write, DataWritten
  <1>3. size \in Nat /\ size <= Capacity
    BY <1>0
  <1>s. size = IF end > pst_size THEN end ELSE pst_size
    OBVIOUS
  <1> HIDE DEF size
  <1>4. ASSUME NEW j \in 1 .. size
        PROVE  data'[j - 1] = IF offset < j /\ j <= end THEN bytes[j - offset]
                              ELSE IF j <= pst_size THEN Content[j] ELSE Zero
    <2>1. j - 1 \in 0 .. Capacity - 1 /\ j \in Nat
      BY <1>0, <1>3
    <2>2. CASE offset < j /\ j <= end
      <3>1. offset <= j - 1 /\ j - 1 < end /\ j - 1 - offset + 1 = j - offset
        BY <1>0, <2>1, <2>2
      <3>2. QED
        BY <1>2, <2>1, <2>2, <3>1
    <2>3. CASE ~(offset < j /\ j <= end)
      <3>1. ~(offset <= j - 1 /\ j - 1 < end)
        BY <1>0, <2>1, <2>3
      <3>2. data'[j - 1] = data[j - 1]
        BY <1>2, <2>1, <3>1
      <3>3. CASE j <= pst_size
        BY <1>0, <1>1, <2>3, <3>2, <3>3 DEF FirstBytes
      <3>4. CASE ~(j <= pst_size)
        <4>1. j - 1 >= pst_size
          BY <1>0, <2>1, <3>4
        <4>2. data[j - 1] = Zero
          BY <1>0, <2>1, <4>1 DEF GapsAreZero
        <4>3. QED
          BY <2>3, <3>2, <3>4, <4>2
      <3>5. QED
        BY <3>3, <3>4
    <2>4. QED
      BY <2>2, <2>3
  <1>5. Content' = new
    BY <1>1, <1>4 DEF FirstBytes
  <1>6. QED
    BY <1>l, <1>1, <1>5, <1>s, ZenonT(30) DEF File!Write, Content

(* FileData implements ByteFile: what applications see of the object, and  *)
(* what is left of it after a stop, is a file of bytes, for every chunk    *)
(* and buffer, if nothing is written behind the buffer.                    *)
THEOREM Refinement ==
  ASSUME MaxEnd <= Capacity
  PROVE  Spec => IsByteFile
  <1>1. Init => File!Init
    BY NoBytes DEF Init, File!Init, StoredContent
  <1>2. ASSUME Inv, [Next]_vars
        PROVE  [File!Next]_(File!vars)
    <2> DEFINE Stutter == UNCHANGED <<Content, StoredContent, last>>
    <2>s. Stutter => [File!Next]_(File!vars)
      BY DEF File!vars, Content
    <2>1. CASE Mknod
      BY <2>1, <2>s, NoBytes DEF Mknod, Content, StoredContent
    <2>2. CASE GetattrLoads
      BY <1>2, <2>2, <2>s, LoadIsStutter DEF GetattrLoads
    <2>3. CASE Getattr
      BY <2>3, <2>s DEF Getattr, Content, StoredContent, FirstBytes, disk
    <2>4. ASSUME NEW h \in Handles, OpenLoads(h)
          PROVE  Stutter
      BY <1>2, <2>4, LoadIsStutter DEF OpenLoads
    <2>5. ASSUME NEW h \in Handles, Open(h)
          PROVE  Stutter
      BY <2>5 DEF Open, Content, StoredContent, FirstBytes, disk
    <2>6. ASSUME NEW h \in Handles, NEW offset \in 0 .. MaxEnd,
                 NEW n \in 1 .. MaxEnd, offset + n <= MaxEnd,
                 NEW bytes \in [1 .. n -> Bytes], Write(h, offset, bytes)
          PROVE  File!Next
      <3>1. File!Write(offset, bytes)
        BY <1>2, <2>6, WriteIsWrite
      <3>2. offset \in 0 .. Capacity /\ n \in 1 .. Capacity
            /\ offset + n <= Capacity
        BY <2>6, FileDataAssumption DEF Capacity
      <3>3. QED
        BY <3>1, <3>2 DEF File!Next
    <2>7. ASSUME NEW h \in Handles, Fsync(h)
          PROVE  File!Save
      BY <1>2, <2>7, FsyncIsSave DEF File!Save, Content, Fsync
    <2>8. ASSUME NEW h \in Handles, Close(h)
          PROVE  Stutter
      BY <2>8 DEF Close, Content, StoredContent, FirstBytes, disk
    <2>9. CASE Stop
      <3>1. File!Crash
        BY <2>9 DEF Stop, File!Crash, StoredContent, FirstBytes, disk
      <3>2. QED
        BY <3>1 DEF File!Next
    <2>10. CASE UNCHANGED vars
      BY <2>10, <2>s
      DEF vars, memory, disk, Content, StoredContent, FirstBytes
    <2>11. QED
      BY <1>2, <2>s, <2>1, <2>2, <2>3, <2>4, <2>5, <2>6, <2>7, <2>8, <2>9,
         <2>10
      DEF Next, File!Next
  <1>3. QED
    BY <1>1, <1>2, Invariance, PTL DEF Spec, IsByteFile, File!Spec
=============================================================================
