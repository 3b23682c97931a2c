--------------------------- MODULE SaveLoadProofs ---------------------------
(***************************************************************************)
(* For every recording, every two hidden files it has room for and every   *)
(* header, chunk and buffer size: SaveLoad implements AtomicSave. The      *)
(* writer's invariant (FsyncProofs) says what is at location at each       *)
(* moment, the reader's (LoadProofs) what an object made from it holds;    *)
(* Stored and Loading say how the two meet, across the stop of the process *)
(* that saves.                                                             *)
(***************************************************************************)
EXTENDS SaveLoad, TLAPS

(* The proofs about the writer and the reader. Keys play no part here.     *)
W == INSTANCE FsyncProofs WITH KeyLen <- 1, Stale <- {}

R == INSTANCE LoadProofs WITH
  Images <- Seq(Sample),
  image <- rimage, pos <- rpos, eof <- reof, pc <- rpc, buf <- rbuf,
  base <- rbase, maxbytes <- rmaxbytes, bits_read <- rbits_read, ptr <- rptr,
  bit_index <- rbit_index, pcm <- rpcm, i <- ri, pfi <- rpfi, data <- rdata,
  total <- rtotal, thrown <- rthrown

-----------------------------------------------------------------------------
(* What the modules have in common means the same in each.                 *)

(* A recording's samples.                                                  *)
LEMMA SameSamples == W!Sample = Sample /\ R!Sample = Sample
<1>1. W!UInt16Max = UInt16Max /\ R!UInt16Max = UInt16Max
  BY DEF W!UInt16Max, R!UInt16Max, UInt16Max
<1>2. QED
  BY <1>1 DEF W!Sample, R!Sample, Sample

(* Headers and data buffers.                                               *)
LEMMA SameSizes ==
  /\ W!DataLen = DataLen /\ R!DataLen = DataLen
  /\ W!Header = Header /\ R!Header = Header
  /\ W!Payload = Payload /\ R!Payload = Payload
<1>1. W!DataLen = DataLen /\ R!DataLen = DataLen
  BY DEF W!DataLen, R!DataLen, DataLen
<1>2. W!Byte = Byte /\ R!Byte = Byte
  BY DEF W!Byte, R!Byte, Byte, W!Bit, R!Bit, Bit
<1>3. W!Header = Header /\ R!Header = Header
  BY <1>2 DEF W!Header, R!Header, Header
<1>4. W!Buffer = Buffer /\ R!Buffer = Buffer
  BY <1>1, <1>2 DEF W!Buffer, R!Buffer, Buffer
<1>5. QED
  BY <1>1, <1>3, <1>4 DEF W!Payload, R!Payload, Payload

(* Carriers, and what they carry.                                          *)
LEMMA SameCarriers ==
  ASSUME NEW a, NEW n
  PROVE  W!Carriers(a, n) = Carriers(a, n) /\ R!Carriers(a, n) = Carriers(a, n)
BY DEF W!Carriers, R!Carriers, Carriers, W!Encodable, R!Encodable, Encodable,
       W!Cardinality, R!Cardinality, Cardinality

LEMMA SameCarries ==
  ASSUME NEW a, NEW p
  PROVE  /\ W!Carries(a, p) <=> Carries(a, p)
         /\ R!Carries(a, p) <=> Carries(a, p)
         /\ W!Room(a, p) <=> Room(a, p)
         /\ R!Room(a, p) <=> Room(a, p)
<1>1. W!Carries(a, p) <=> Carries(a, p)
  BY SameCarriers DEF W!Carries, Carries, W!Encodable, Encodable, W!LowBit,
     LowBit, W!StreamBit, StreamBit, W!StreamBits, StreamBits
<1>2. R!Carries(a, p) <=> Carries(a, p)
  BY SameCarriers DEF R!Carries, Carries, R!Encodable, Encodable, R!LowBit,
     LowBit, R!StreamBit, StreamBit, R!StreamBits, StreamBits
<1>3. W!Room(a, p) <=> Room(a, p)
  BY SameCarriers DEF W!Room, Room, W!StreamBits, StreamBits
<1>4. R!Room(a, p) <=> Room(a, p)
  BY SameCarriers DEF R!Room, Room, R!StreamBits, StreamBits
<1>5. QED
  BY <1>1, <1>2, <1>3, <1>4

(* The assumptions that the writer's and the reader's proofs make hold.    *)
LEMMA Assumptions ==
  /\ W!SizesAssumption /\ W!FsyncAssumption /\ W!FileKeyAssumption
  /\ R!SizesAssumption /\ R!LoadAssumption
<1>1. W!SizesAssumption /\ R!SizesAssumption
  BY SizesAssumption DEF W!SizesAssumption, R!SizesAssumption
<1>2. W!FsyncAssumption
  BY SaveLoadAssumption, SameSamples, SameSizes DEF W!FsyncAssumption
<1>3. W!FileKeyAssumption
  BY DEF W!FileKeyAssumption
<1>4. R!LoadAssumption
  BY SaveLoadAssumption, SameSamples, SameSizes DEF R!LoadAssumption
<1>5. QED
  BY <1>1, <1>2, <1>3, <1>4

(* The two programs are the ones that the proofs are about.                *)
LEMMA SameWriter ==
  /\ Writer!Init => W!Init
  /\ Writer!Next => W!Next
<1>1. Writer!Init => W!Init
  BY DEF Writer!Init, W!Init
<1>2. Writer!Next => W!Next
  BY DEF Writer!Next, W!Next, Writer!FRead, W!FRead, Writer!PutSample,
     W!PutSample, Writer!FWrite, W!FWrite, Writer!EncodeReturn,
     W!EncodeReturn, Writer!HeaderDone, W!HeaderDone, Writer!ChunkDone,
     W!ChunkDone, Writer!CallChunk, W!CallChunk, Writer!Publish, W!Publish,
     Writer!WantsMore, W!WantsMore, Writer!NumToRead, W!NumToRead,
     Writer!EncodeByte, W!EncodeByte, Writer!SetLowBit, W!SetLowBit,
     Writer!UpperBits, W!UpperBits, Writer!LowBit, W!LowBit,
     Writer!Encodable, W!Encodable, Writer!Returned, W!Returned,
     Writer!LoopGoesOn, W!LoopGoesOn, Writer!StillEncoding, W!StillEncoding,
     Writer!input, W!input, Writer!call, W!call, Writer!cursor, W!cursor
<1>3. QED
  BY <1>1, <1>2

LEMMA SameReader == Reader!Next => R!Next
<1>1. Reader!FRead => R!FRead
  BY DEF Reader!FRead, R!FRead, Reader!NumToRead, R!NumToRead,
     Reader!AfterRead, R!AfterRead, Reader!call, R!call, Reader!object,
     R!object
<1>2. Reader!TakeSample => R!TakeSample
  <2>1. /\ Reader!NextByte = R!NextByte /\ Reader!ZeroByte = R!ZeroByte
        /\ \A s : Reader!Encodable(s) = R!Encodable(s)
        /\ \A y, b, s : Reader!WithBit(y, b, s) = R!WithBit(y, b, s)
        /\ Reader!call' = Reader!call <=> R!call' = R!call
    BY DEF Reader!NextByte, R!NextByte, Reader!ZeroByte, R!ZeroByte,
       Reader!Encodable, R!Encodable, Reader!WithBit, R!WithBit,
       Reader!LowBit, R!LowBit, Reader!call, R!call
  <2>2. QED
    BY <2>1 DEF Reader!TakeSample, R!TakeSample
<1>3. Reader!DecodeReturn => R!DecodeReturn
  BY DEF Reader!DecodeReturn, R!DecodeReturn, Reader!Aligned, R!Aligned,
     Reader!call, R!call, Reader!object, R!object
<1>4. Reader!CheckMagic => R!CheckMagic
  BY DEF Reader!CheckMagic, R!CheckMagic, Reader!call, R!call,
     Reader!object, R!object
<1>5. Reader!CallChunk => R!CallChunk
  BY DEF Reader!CallChunk, R!CallChunk, Reader!MoreToRead, R!MoreToRead,
     Reader!ZeroByte, R!ZeroByte
<1>6. Reader!ChunkDone => R!ChunkDone
  BY DEF Reader!ChunkDone, R!ChunkDone, Reader!call, R!call,
     Reader!object, R!object
<1>7. Reader!Loaded => R!Loaded
  BY DEF Reader!Loaded, R!Loaded, Reader!MoreToRead, R!MoreToRead,
     Reader!call, R!call, Reader!object, R!object
<1>8. QED
  BY <1>1, <1>2, <1>3, <1>4, <1>5, <1>6, <1>7 DEF Reader!Next, R!Next

-----------------------------------------------------------------------------
(* The invariant.                                                          *)

(* The audio file: the recording as it was until fsync has returned, then  *)
(* one that carries the new file whole.                                    *)
Stored ==
  /\ old \in Payloads /\ payload \in Payloads /\ saved \in BOOLEAN
  /\ audio \in Seq(Sample) /\ location \in Seq(Sample)
  /\ Carries(audio, old) /\ Room(audio, old) /\ Room(audio, payload)
  /\ ~saved => location = audio
  /\ saved => Carries(location, payload) /\ Room(location, payload)

(* The process that saves, while it runs.                                  *)
Saving ==
  running => W!Inv /\ (saved <=> pc = "done") /\ rpc = "off"

(* The process that loads, once there is one, reads what is at location.   *)
Loading ==
  /\ rpc = "off" => NoReader
  /\ rpc # "off" => R!Inv /\ rimage = location /\ ~running

SInv == Stored /\ Saving /\ Loading

-----------------------------------------------------------------------------
(* What the modules prove of their next state holds here.                  *)

LEMMA WriterStart == Writer!Init => W!Inv
<1>1. W!Init => W!Inv
  BY W!InitInv, Assumptions
<1>2. QED
  BY <1>1, SameWriter

LEMMA WriterStep == W!Inv /\ Writer!Next => W!Inv'
<1>1. W!Inv /\ W!Next => W!Inv'
  BY W!NextInv, Assumptions
<1>2. QED
  BY <1>1, SameWriter

LEMMA ReaderStep == R!Inv /\ Reader!Next => R!Inv'
<1>1. R!Inv /\ R!Next => R!Inv'
  BY R!NextInv, Assumptions
<1>2. QED
  BY <1>1, SameReader

(* A writer that has returned has published the file it was given.         *)
LEMMA Published ==
  W!Inv' /\ pc' = "done" =>
    /\ Carries(location', payload')
    /\ Room(audio', payload') => Room(location', payload')
<1>1. W!Inv /\ pc = "done" =>
        /\ W!Carries(location, payload)
        /\ W!Room(audio, payload) => W!Room(location, payload)
  BY W!PublishedFile, Assumptions
<1>2. W!Inv /\ pc = "done" =>
        /\ Carries(location, payload)
        /\ Room(audio, payload) => Room(location, payload)
  BY <1>1, SameCarries
<1>3. (W!Inv /\ pc = "done" =>
         /\ Carries(location, payload)
         /\ Room(audio, payload) => Room(location, payload))'
  BY <1>2, PTL
<1>4. QED
  BY <1>3

(* What the writer leaves at location is a recording.                      *)
LEMMA SavedSamples == W!Inv' => location' \in Seq(Sample)
<1>1. W!Inv => location \in Seq(Sample)
  BY W!InvType, Assumptions, SameSamples DEF W!TypeOK
<1>2. (W!Inv => location \in Seq(Sample))'
  BY <1>1, PTL
<1>3. QED
  BY <1>2

(* A reader that has returned has loaded the file that the audio carries.  *)
LEMMA Loaded ==
  R!Inv' /\ rpc' = "done" =>
    \A p \in Payloads :
      Carries(rimage', p) /\ Room(rimage', p) =>
        /\ rpfi' = p.pfi
        /\ \A d \in 0 .. p.size - 1 : rdata'[d] = p.data[d]
<1>1. R!Inv => R!WholeFiles
  BY R!LoadedFile, Assumptions
<1>2. R!Inv /\ rpc = "done" =>
        \A p \in Payloads :
          Carries(rimage, p) /\ Room(rimage, p) =>
            /\ rpfi = p.pfi
            /\ \A d \in 0 .. p.size - 1 : rdata[d] = p.data[d]
  BY <1>1, SameCarries DEF R!WholeFiles
<1>3. (R!Inv /\ rpc = "done" =>
        \A p \in Payloads :
          Carries(rimage, p) /\ Room(rimage, p) =>
            /\ rpfi = p.pfi
            /\ \A d \in 0 .. p.size - 1 : rdata[d] = p.data[d])'
  BY <1>2, PTL
<1>4. QED
  BY <1>3

(* The object that Open makes is the constructor's initial one.            *)
LEMMA ReaderStart ==
  NoReader /\ Open /\ location \in Seq(Sample) => R!Inv'
<1>1. R!Init => R!Inv
  BY R!InitInv, Assumptions
<1>2. R!Init' => R!Inv'
  BY <1>1, PTL
<1>3. NoReader /\ Open /\ location \in Seq(Sample) => R!Init'
  <2> SUFFICES ASSUME NoReader, Open, location \in Seq(Sample)
               PROVE  R!Init'
    OBVIOUS
  <2>1. R!ZeroByte = Reader!ZeroByte
    BY DEF R!ZeroByte, Reader!ZeroByte
  <2>2. /\ rimage' \in Seq(Sample)
        /\ \E g \in Garbage : rpfi' = [g EXCEPT ![0] = R!ZeroByte]
        /\ rdata' = [d \in 0 .. R!DataLen - 1 |-> R!ZeroByte]
        /\ rpc' = "loop"
    BY <2>1, SameSizes DEF Open, Zeroed, EmptyData
  <2>3. /\ rpos' = 0 /\ reof' = FALSE /\ rbuf' = "pfi" /\ rbase' = 0
        /\ rmaxbytes' = HeaderLen /\ rbits_read' = 0 /\ rptr' = 0
        /\ rbit_index' = 0 /\ rpcm' = <<>> /\ ri' = 1 /\ rtotal' = 0
        /\ rthrown' = ""
    BY DEF NoReader, Open
  <2>4. QED
    BY <2>2, <2>3, SameSamples DEF R!Init
<1>4. QED
  BY <1>2, <1>3

-----------------------------------------------------------------------------
(* Initially.                                                              *)
LEMMA InitSInv == Init => SInv
<1> SUFFICES ASSUME Init
             PROVE  SInv
  OBVIOUS
<1>1. /\ Writer!Init /\ old \in Payloads
      /\ Carries(audio, old) /\ Room(audio, old) /\ Room(audio, payload)
      /\ running = TRUE /\ saved = FALSE /\ NoReader
  BY DEF Init
<1>2. /\ audio \in Seq(Sample) /\ payload \in Payloads /\ location = audio
      /\ pc = "loop"
  BY <1>1, SaveLoadAssumption DEF Writer!Init
<1>3. Stored
  BY <1>1, <1>2 DEF Stored
<1>4. Saving
  BY <1>1, <1>2, WriterStart DEF Saving, NoReader
<1>5. Loading
  BY <1>1 DEF Loading, NoReader
<1>6. QED
  BY <1>3, <1>4, <1>5 DEF SInv

(* A step of the writer leaves its inputs alone, and the audio file too,   *)
(* unless it is the last.                                                  *)
LEMMA WriterKeeps ==
  ASSUME W!Inv, Writer!Next
  PROVE  /\ audio' = audio /\ payload' = payload /\ pc # "done"
         /\ pc' # "done" => location' = location
<1>1. /\ audio' = audio /\ payload' = payload /\ pc # "done"
  BY DEF Writer!Next, Writer!FRead, Writer!PutSample, Writer!FWrite,
     Writer!EncodeReturn, Writer!HeaderDone, Writer!ChunkDone,
     Writer!CallChunk, Writer!Publish, Writer!input
<1>2. pc' # "done" => location' = location
  BY DEF Writer!Next, Writer!FRead, Writer!PutSample, Writer!FWrite,
     Writer!EncodeReturn, Writer!HeaderDone, Writer!ChunkDone,
     Writer!CallChunk, Writer!Publish
<1>3. QED
  BY <1>1, <1>2

(* fsync: the last step makes location the new image, no other step        *)
(* touches it.                                                             *)
LEMMA SaveSInv == SInv /\ Save => SInv'
<1> SUFFICES ASSUME SInv, Save
             PROVE  SInv'
  OBVIOUS
<1>1. /\ running /\ Writer!Next /\ saved' = (pc' = "done") /\ old' = old
      /\ running' = running /\ UNCHANGED reader
  BY DEF Save
<1>2. Stored /\ Saving /\ Loading
  BY DEF SInv
<1>3. W!Inv /\ rpc = "off" /\ ~saved
  BY <1>1, <1>2, WriterKeeps DEF Saving, Stored
<1>4. /\ audio' = audio /\ payload' = payload
      /\ pc' # "done" => location' = location
  BY <1>1, <1>3, WriterKeeps
<1>5. W!Inv'
  BY <1>1, <1>3, WriterStep
<1>6. pc' = "done" => Carries(location', payload') /\ Room(location', payload')
  BY <1>2, <1>4, <1>5, Published DEF Stored
<1>7. location' \in Seq(Sample)
  <2>1. CASE pc' = "done"
    BY <1>5, SavedSamples
  <2>2. QED
    BY <2>1, <1>2, <1>4 DEF Stored
<1>8. Stored'
  BY <1>1, <1>2, <1>3, <1>4, <1>6, <1>7 DEF Stored
<1>9. Saving'
  BY <1>1, <1>3, <1>5 DEF Saving, reader
<1>10. Loading'
  BY <1>1, <1>2, <1>3 DEF Loading, NoReader, reader
<1>11. QED
  BY <1>8, <1>9, <1>10 DEF SInv

(* The process stops: the audio file is what it was.                       *)
LEMMA StopSInv == SInv /\ Stop => SInv'
<1> SUFFICES ASSUME SInv, Stop
             PROVE  SInv'
  OBVIOUS
<1>1. /\ ~running' /\ old' = old /\ saved' = saved /\ audio' = audio
      /\ payload' = payload /\ location' = location /\ running
      /\ UNCHANGED reader
  BY DEF Stop, disk
<1>2. Stored /\ Saving /\ Loading
  BY DEF SInv
<1>3. Stored'
  BY <1>1, <1>2 DEF Stored
<1>4. Saving'
  BY <1>1 DEF Saving
<1>5. Loading'
  BY <1>1, <1>2 DEF Saving, Loading, NoReader, reader
<1>6. QED
  BY <1>3, <1>4, <1>5 DEF SInv

(* The new process opens what is at location.                              *)
LEMMA OpenSInv == SInv /\ Open => SInv'
<1> SUFFICES ASSUME SInv, Open
             PROVE  SInv'
  OBVIOUS
<1>1. /\ ~running /\ rpc = "off" /\ rpc' = "loop" /\ rimage' = location
      /\ old' = old /\ saved' = saved /\ audio' = audio /\ ~running'
      /\ payload' = payload /\ location' = location
  BY DEF Open, disk
<1>2. Stored /\ Saving /\ Loading
  BY DEF SInv
<1>3. Stored'
  BY <1>1, <1>2 DEF Stored
<1>4. Saving'
  BY <1>1 DEF Saving
<1>5. R!Inv'
  BY <1>1, <1>2, ReaderStart DEF Loading, Stored
<1>6. Loading'
  BY <1>1, <1>5 DEF Loading
<1>7. QED
  BY <1>3, <1>4, <1>6 DEF SInv

(* A step of the reader leaves the recording alone; from the end there is  *)
(* none.                                                                   *)
LEMMA ReaderKeeps ==
  ASSUME Reader!Next
  PROVE  rimage' = rimage /\ rpc \notin {"done", "thrown"} /\ rpc' # "off"
BY DEF Reader!Next, Reader!FRead, Reader!TakeSample, Reader!DecodeReturn,
   Reader!CheckMagic, Reader!CallChunk, Reader!ChunkDone, Reader!Loaded,
   Reader!AfterRead

(* The constructor reads.                                                  *)
LEMMA LoadSInv == SInv /\ Load => SInv'
<1> SUFFICES ASSUME SInv, Load
             PROVE  SInv'
  OBVIOUS
<1>1. /\ ~running /\ rpc # "off" /\ Reader!Next
      /\ old' = old /\ saved' = saved /\ audio' = audio /\ ~running'
      /\ payload' = payload /\ location' = location
  BY DEF Load, disk
<1>2. Stored /\ Saving /\ Loading
  BY DEF SInv
<1>3. Stored'
  BY <1>1, <1>2 DEF Stored
<1>4. Saving'
  BY <1>1 DEF Saving
<1>5. R!Inv'
  BY <1>1, <1>2, ReaderStep DEF Loading
<1>6. Loading'
  BY <1>1, <1>2, <1>5, ReaderKeeps DEF Loading
<1>7. QED
  BY <1>3, <1>4, <1>6 DEF SInv

(* Nothing happens.                                                        *)
LEMMA IdleSInv == SInv /\ UNCHANGED vars => SInv'
<1> SUFFICES ASSUME SInv, UNCHANGED vars
             PROVE  SInv'
  OBVIOUS
<1>1. UNCHANGED <<old, running, saved, disk, writer, reader>>
  BY DEF vars
<1>2. Stored /\ Saving /\ Loading
  BY DEF SInv
<1>3. W!Inv => W!Inv'
  <2>1. UNCHANGED W!vars
    BY <1>1 DEF disk, writer, W!vars, W!input, W!call, W!cursor
  <2>2. W!Inv /\ UNCHANGED W!vars => W!Inv'
    BY W!IdleInv, Assumptions
  <2>3. QED
    BY <2>1, <2>2
<1>4. R!Inv => R!Inv'
  <2>1. UNCHANGED R!vars
    BY <1>1 DEF reader, R!vars, R!call, R!object
  <2>2. R!Inv /\ UNCHANGED R!vars => R!Inv'
    BY R!IdleInv, Assumptions
  <2>3. QED
    BY <2>1, <2>2
<1>5. Stored'
  BY <1>1, <1>2 DEF Stored, disk
<1>6. Saving'
  BY <1>1, <1>2, <1>3 DEF Saving, writer, reader
<1>7. Loading'
  BY <1>1, <1>2, <1>4 DEF Loading, NoReader, disk, reader
<1>8. QED
  BY <1>5, <1>6, <1>7 DEF SInv

(* Wherever the process that saves stops, what the audio file holds is one *)
(* of two files, and the process that loads reads what the audio file      *)
(* holds.                                                                  *)
THEOREM Invariance == Spec => []SInv
<1>1. SInv /\ [Next]_vars => SInv'
  BY SaveSInv, StopSInv, OpenSInv, LoadSInv, IdleSInv DEF Next
<1>2. QED
  BY <1>1, InitSInv, PTL DEF Spec

-----------------------------------------------------------------------------
(* SaveLoad implements AtomicSave, step by step.                           *)

(* The audio file holds one of the two files, whole.                       *)
LEMMA OneOfTwo ==
  ASSUME Stored
  PROVE  \E p \in Payloads :
           /\ Carries(location, p) /\ Room(location, p)
           /\ FileIn(location) = SeenOf(p)
<1>1. CASE Carries(location, payload) /\ Room(location, payload)
  BY <1>1 DEF Stored, FileIn
<1>2. CASE ~(Carries(location, payload) /\ Room(location, payload))
  BY <1>2 DEF Stored, FileIn
<1>3. QED
  BY <1>1, <1>2

(* At first it is the old file.                                            *)
LEMMA InitPromise == Init => Promise!Init
<1> SUFFICES ASSUME Init
             PROVE  Promise!Init
  OBVIOUS
<1>1. Stored /\ running = TRUE /\ saved = FALSE /\ rpc = "off"
  BY InitSInv DEF SInv, Init, NoReader
<1>2. SeenOf(payload) \in {SeenOf(p) : p \in Payloads}
  BY <1>1 DEF Stored
<1>3. FileIn(location) \in {SeenOf(p) : p \in Payloads}
  BY <1>1, OneOfTwo
<1>4. Got = Nothing
  BY <1>1 DEF Got
<1>5. QED
  BY <1>1, <1>2, <1>3, <1>4 DEF Promise!Init

(* The rename is the commit; no other step of fsync shows.                 *)
LEMMA SavePromise ==
  ASSUME SInv, Save, SInv'
  PROVE  [Promise!Next]_(Promise!vars)
<1>1. /\ running /\ Writer!Next /\ saved' = (pc' = "done") /\ old' = old
      /\ running' = running /\ UNCHANGED reader
  BY DEF Save
<1>2. W!Inv /\ rpc = "off" /\ (saved <=> pc = "done")
  BY <1>1 DEF SInv, Saving
<1>3. /\ audio' = audio /\ payload' = payload /\ ~saved
      /\ pc' # "done" => location' = location
  BY <1>1, <1>2, WriterKeeps
<1>4. SeenOf(payload)' = SeenOf(payload)
  BY <1>3 DEF SeenOf, Seen
<1>5. Got = Nothing /\ Got' = Nothing
  <2>1. rpc' = "off"
    BY <1>1, <1>2 DEF reader
  <2>2. QED
    BY <1>2, <2>1 DEF Got
<1>6. CASE pc' = "done"
  <2>1. saved' = TRUE
    BY <1>1, <1>6
  <2>2. FileIn(location)' = SeenOf(payload)
    <3>1. Carries(location', payload') /\ Room(location', payload')
      BY <2>1 DEF SInv, Stored
    <3>2. QED
      BY <3>1, <1>4 DEF FileIn
  <2>3. Promise!Commit
    BY <1>1, <1>3, <1>4, <1>5, <2>1, <2>2 DEF Promise!Commit
  <2>4. QED
    BY <2>3 DEF Promise!Next
<1>7. CASE pc' # "done"
  <2>1. saved' = saved
    BY <1>1, <1>3, <1>7 DEF SInv, Stored
  <2>2. FileIn(location)' = FileIn(location)
    BY <1>1, <1>3, <1>7 DEF FileIn, SeenOf, Seen
  <2>3. QED
    BY <1>1, <1>4, <1>5, <2>1, <2>2 DEF Promise!vars
<1>8. QED
  BY <1>6, <1>7

(* The stop of the process is the abstract one.                            *)
LEMMA StopPromise ==
  ASSUME SInv, Stop
  PROVE  Promise!Stop
<1>1. /\ running /\ running' = FALSE /\ saved' = saved /\ old' = old
      /\ location' = location /\ payload' = payload /\ UNCHANGED reader
  BY DEF Stop, disk
<1>2. SeenOf(payload)' = SeenOf(payload) /\ FileIn(location)' = FileIn(location)
  BY <1>1 DEF FileIn, SeenOf, Seen
<1>3. Got' = Got
  BY <1>1 DEF Got, Seen, reader
<1>4. QED
  BY <1>1, <1>2, <1>3 DEF Promise!Stop

(* That a new process opens the audio file does not show.                  *)
LEMMA OpenPromise ==
  ASSUME Open
  PROVE  UNCHANGED Promise!vars
<1>1. /\ running' = running /\ saved' = saved /\ old' = old
      /\ location' = location /\ payload' = payload
      /\ rpc = "off" /\ rpc' = "loop"
  BY DEF Open, disk
<1>2. SeenOf(payload)' = SeenOf(payload) /\ FileIn(location)' = FileIn(location)
  BY <1>1 DEF FileIn, SeenOf, Seen
<1>3. Got = Nothing /\ Got' = Nothing
  BY <1>1 DEF Got
<1>4. QED
  BY <1>1, <1>2, <1>3 DEF Promise!vars

(* A constructor that returns has read the file that the audio holds.      *)
LEMMA ReadsStored ==
  ASSUME SInv', rpc' = "done", Stored, rimage' = location
  PROVE  Seen(rpfi', rdata', SizeOf(rpfi')) = FileIn(location)
<1>1. R!Inv'
  BY DEF SInv, Loading
<1>2. PICK p \in Payloads : /\ Carries(location, p) /\ Room(location, p)
                            /\ FileIn(location) = SeenOf(p)
  BY OneOfTwo
<1>3. /\ rpfi' = p.pfi
      /\ \A d \in 0 .. p.size - 1 : rdata'[d] = p.data[d]
  BY <1>1, <1>2, Loaded
<1>4. SizeOf(rpfi') = p.size
  BY <1>3, SaveLoadAssumption
<1>5. Seen(rpfi', rdata', SizeOf(rpfi')) = SeenOf(p)
  BY <1>3, <1>4 DEF Seen, SeenOf
<1>6. QED
  BY <1>2, <1>5

(* The end of the constructor is the reading; its other steps do not show. *)
LEMMA LoadPromise ==
  ASSUME SInv, Load, SInv'
  PROVE  [Promise!Next]_(Promise!vars)
<1>1. /\ ~running /\ running' = running /\ saved' = saved
      /\ old' = old /\ rpc # "off" /\ Reader!Next
      /\ location' = location /\ payload' = payload
  BY DEF Load, disk
<1>2. SeenOf(payload)' = SeenOf(payload) /\ FileIn(location)' = FileIn(location)
  BY <1>1 DEF FileIn, SeenOf, Seen
<1>3. Got = Nothing
  BY <1>1, ReaderKeeps DEF Got
<1>4. CASE rpc' = "done"
  <2>1. rimage' = location
    BY <1>1, <1>4 DEF SInv, Loading
  <2>2. Got' = FileIn(location)
    <3>1. Got' = Seen(rpfi', rdata', SizeOf(rpfi'))
      BY <1>4 DEF Got
    <3>2. QED
      BY <3>1, <2>1, <1>4, ReadsStored DEF SInv
  <2>3. Promise!Read
    BY <1>1, <1>2, <1>3, <2>2 DEF Promise!Read
  <2>4. QED
    BY <2>3 DEF Promise!Next
<1>5. CASE rpc' = "thrown"
  <2>1. Got' = Failure
    BY <1>5 DEF Got
  <2>2. Promise!Read
    BY <1>1, <1>2, <1>3, <2>1 DEF Promise!Read
  <2>3. QED
    BY <2>2 DEF Promise!Next
<1>6. CASE rpc' \notin {"done", "thrown"}
  <2>1. Got' = Nothing
    BY <1>6 DEF Got
  <2>2. QED
    BY <1>1, <1>2, <1>3, <2>1 DEF Promise!vars
<1>7. QED
  BY <1>4, <1>5, <1>6

(* Saving is atomic, for every recording, every two files and every place  *)
(* where the process that saves may stop: what a new process reads is the  *)
(* old file or the new one, whole, or an error, and never the old one once *)
(* the fsync has returned.                                                 *)
THEOREM AtomicSaving == Spec => SaveIsAtomic
<1>1. ASSUME SInv, SInv', [Next]_vars
      PROVE  [Promise!Next]_(Promise!vars)
  <2>1. CASE Save
    BY <1>1, <2>1, SavePromise
  <2>2. CASE Stop
    BY <1>1, <2>2, StopPromise DEF Promise!Next
  <2>3. CASE Open
    BY <2>3, OpenPromise
  <2>4. CASE Load
    BY <1>1, <2>4, LoadPromise
  <2>5. CASE UNCHANGED vars
    BY <2>5 DEF vars, disk, reader, Promise!vars, FileIn, SeenOf, Seen, Got
  <2>6. QED
    BY <1>1, <2>1, <2>2, <2>3, <2>4, <2>5 DEF Next
<1>2. QED
  BY <1>1, InitPromise, Invariance, PTL DEF Spec, SaveIsAtomic, Promise!Spec
=============================================================================
