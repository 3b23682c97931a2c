---------------------------- MODULE FsyncProofs ----------------------------
(***************************************************************************)
(* For every audio file, every payload, every header and chunk size, and   *)
(* for the loop test as compiled and as intended: fsync's output is at     *)
(* every moment a faithful prefix of the image (UpperBitsKept,             *)
(* PayloadPlaced, TailUntouched), encode_bits keeps its assertions, and    *)
(* location is never a shortened recording.                                *)
(*                                                                         *)
(* None of these is inductive. The invariant Inv below adds where the code *)
(* is: how many samples have been read, decided and written (Reading), how *)
(* much of the call's quota is left (Quota), which call it is (Calls), and *)
(* the link the whole codec rests on (Counting): the number of carriers    *)
(* passed so far is 8 * (bytes of earlier calls + ptr) + bit_index.        *)
(*                                                                         *)
(* Two theorems follow from it: what fsync publishes carries the file, and *)
(* no moment of fsync changes the key of the audio file (KeyKept).         *)
(***************************************************************************)
EXTENDS FileKey, LowBitsProofs, SequenceTheorems

(* What the j-th sample of an image of file p in recording a may be.       *)
Faithful(a, p, j, s) ==
  /\ s \in Sample
  /\ UpperBits(s) = UpperBits(a[j])
  /\ ~Encodable(a[j]) => s = a[j]
  /\ Encodable(a[j]) /\ Carriers(a, j - 1) < StreamBits(p)
       => LowBit(s) = StreamBit(p, Carriers(a, j - 1))
  /\ Carriers(a, j - 1) >= StreamBits(p) + 8 * Chunk => s = a[j]

(* Samples whose fate is decided: written, or passed in this round.        *)
Decided == IF pc = "for" THEN Len(out) + (i - 1) ELSE Len(out)

(* Bytes of the hidden stream before the running call's buffer.            *)
Origin == IF buf = "pfi" THEN 0 ELSE HeaderLen + base

InCall == pc \in {"loop", "for", "returned"}

Types ==
  /\ audio \in Audios /\ payload \in Payloads
  /\ out \in Seq(Sample) /\ pcm \in Seq(Sample)
  /\ pos \in 0 .. Len(audio) /\ eof \in BOOLEAN
  /\ pc \in PCs
  /\ buf \in {"pfi", "data"} /\ base \in Nat
  /\ nbytes \in {HeaderLen, Chunk} /\ still \in BOOLEAN
  /\ ptr \in 0 .. nbytes /\ bit_index \in 0 .. 7
  /\ i \in Nat \ {0}
  /\ num_encoded \in -1 .. Chunk

Reading ==
  /\ pc = "for" => pos = Len(out) + Len(pcm) /\ i <= Len(pcm) + 1
  /\ pc # "for" => pos = Len(out)
  /\ eof => pos = Len(audio)

Quota ==
  /\ pc = "for" => Len(pcm) - (i - 1) <= 8 * (nbytes - ptr) - bit_index
  /\ pc = "loop" => bit_index <= 8 * (nbytes - ptr)
  /\ pc \in {"returned", "test"} =>
       /\ num_encoded = IF eof THEN -1 ELSE nbytes
       /\ ~eof => ptr = nbytes /\ bit_index = 0
  /\ ~still => ptr = 0 /\ bit_index = 0

Calls ==
  /\ pc # "thrown"
  /\ buf = "pfi" => InCall /\ still /\ nbytes = HeaderLen /\ base = 0
  /\ buf = "data" => /\ \E k \in 0 .. BufChunks : base = Chunk * k
                     /\ base < payload.size + Chunk
                     /\ InCall => nbytes = Chunk
                     /\ InCall => (still <=> base < payload.size)

Counting ==
  /\ InCall /\ (pc = "for" \/ ~eof) =>
       IF still
       THEN Carriers(audio, Decided) = 8 * (Origin + ptr) + bit_index
       ELSE Carriers(audio, Decided) >= 8 * (HeaderLen + base)
  /\ pc = "test" /\ ~eof => Carriers(audio, Decided) = 8 * (HeaderLen + base)

Image ==
  /\ \A j \in 1 .. Len(out) : Faithful(audio, payload, j, out[j])
  /\ pc = "for" =>
       \A k \in 1 .. Len(pcm) :
         IF k < i THEN Faithful(audio, payload, Len(out) + k, pcm[k])
                  ELSE pcm[k] = audio[Len(out) + k]

Published ==
  IF pc = "done" THEN location = out /\ eof ELSE location = audio

Inv == Types /\ Reading /\ Quota /\ Calls /\ Counting /\ Image /\ Published

-----------------------------------------------------------------------------
(* Arithmetic.                                                             *)

(* The k-th chunk fits the data buffer when it starts inside it.           *)
LEMMA ChunkFits ==
  ASSUME NEW k \in 0 .. BufChunks, Chunk * k < DataLen
  PROVE  k + 1 \in 0 .. BufChunks /\ Chunk * (k + 1) = Chunk * k + Chunk
         /\ Chunk * k + Chunk <= DataLen
<1>1. Chunk \in Nat /\ BufChunks \in Nat /\ k \in Nat
  BY SizesAssumption, FsyncAssumption
<1>2. k # BufChunks
  BY <1>1 DEF DataLen
<1>3. k + 1 \in 0 .. BufChunks
  BY <1>1, <1>2
<1>4. Chunk * (k + 1) = Chunk * k + Chunk
  BY <1>1
<1>5. Chunk * (k + 1) <= Chunk * BufChunks
  BY <1>1, <1>3, ProductMono
<1>6. QED
  BY <1>3, <1>4, <1>5 DEF DataLen

(* One sample uses up one unit of a call's quota, whether it took a bit    *)
(* (d = 1) or not.                                                         *)
LEMMA QuotaStep ==
  ASSUME NEW p \in Nat, NEW b \in Nat, NEW p2 \in Nat, NEW b2 \in Nat,
         NEW d \in {0, 1}, 8 * p2 + b2 = 8 * p + b + d,
         NEW n \in Nat, NEW rest \in Nat, rest + 1 <= 8 * (n - p) - b
  PROVE  rest <= 8 * (n - p2) - b2
  OBVIOUS

(* A bit moves the cursor (p, b) on by one, wherever the buffer starts.    *)
LEMMA CursorStep ==
  ASSUME NEW p \in Nat, NEW b \in Nat, NEW p2 \in Nat, NEW b2 \in Nat,
         NEW d \in {0, 1}, 8 * p2 + b2 = 8 * p + b + d, NEW o \in Nat
  PROVE  8 * (o + p2) + b2 = 8 * (o + p) + b + d
  OBVIOUS

(* The sizes: the header and a chunk are not empty, the data buffer holds  *)
(* whole chunks.                                                           *)
LEMMA Sizes ==
  /\ HeaderLen \in Nat \ {0} /\ Chunk \in Nat \ {0} /\ HeaderLen < Chunk
  /\ BufChunks \in Nat \ {0} /\ DataLen \in Nat
  /\ SignedCounter \in BOOLEAN
BY SizesAssumption, FsyncAssumption DEF DataLen

-----------------------------------------------------------------------------
(* What Types says of the two inputs.                                      *)
LEMMA Inputs ==
  ASSUME Types
  PROVE  /\ audio \in Seq(Sample) /\ Len(audio) \in Nat
         /\ \A j \in 1 .. Len(audio) : audio[j] \in Sample
         /\ Len(out) \in Nat /\ Len(pcm) \in Nat
         /\ payload.size \in Nat /\ payload.size <= DataLen
         /\ \A b \in 0 .. HeaderLen - 1 : payload.pfi[b] \in Byte
         /\ \A b \in 0 .. DataLen - 1 : payload.data[b] \in Byte
<1>1. audio \in Seq(Sample) /\ payload \in Payload
  BY SizesAssumption, FsyncAssumption DEF Types
<1>2. \A j \in 1 .. Len(audio) : audio[j] \in Sample
  BY <1>1, ElementOfSeq
<1>3. Len(audio) \in Nat /\ Len(out) \in Nat /\ Len(pcm) \in Nat
  BY <1>1, LenProperties DEF Types
<1>4. /\ payload.size \in Nat /\ payload.size <= DataLen
      /\ payload.pfi \in [0 .. HeaderLen - 1 -> Byte]
      /\ payload.data \in [0 .. DataLen - 1 -> Byte]
  BY <1>1, Sizes DEF Payload, Header, Buffer
<1>5. QED
  BY <1>1, <1>2, <1>3, <1>4

(* The byte the pointer is at exists: in the header, or in the data buffer *)
(* (encode_buf is never overrun).                                          *)
LEMMA EncodeByteType ==
  ASSUME Types, Calls, InCall, still, ptr < nbytes
  PROVE  /\ EncodeByte \in Byte
         /\ buf = "pfi" => ptr < HeaderLen
         /\ buf = "data" => base < payload.size /\ ptr < Chunk
<1>1. CASE buf = "pfi"
  <2>1. ptr \in 0 .. HeaderLen - 1
    BY <1>1, Sizes DEF Types, Calls
  <2>2. payload.pfi[ptr] \in Byte
    BY <2>1, Inputs
  <2>3. QED
    BY <1>1, <2>1, <2>2, Sizes DEF EncodeByte
<1>2. CASE buf = "data"
  <2>1. PICK k \in 0 .. BufChunks : base = Chunk * k
    BY <1>2 DEF Calls
  <2>2. base < payload.size /\ nbytes = Chunk
    BY <1>2 DEF Calls
  <2>3. base \in Nat /\ Chunk * k < DataLen
    BY <2>1, <2>2, Inputs, Sizes DEF Types
  <2>4. base + Chunk <= DataLen
    BY <2>1, <2>3, ChunkFits
  <2>5. ptr < Chunk /\ base + ptr \in 0 .. DataLen - 1
    BY <2>2, <2>3, <2>4, Sizes DEF Types
  <2>6. QED
    BY <1>2, <2>2, <2>5, Inputs DEF EncodeByte
<1>3. QED
  BY <1>1, <1>2 DEF Types

-----------------------------------------------------------------------------
(* Initially nothing is read and bit 0 of the header comes first.          *)
LEMMA InitInv == Init => Inv
<1> SUFFICES ASSUME Init
             PROVE  Inv
  OBVIOUS
<1> USE DEF Init
<1>1. <<>> \in Seq(Sample) /\ Len(<<>>) = 0
  BY EmptySeq
<1>2. Types
  <2>1. audio \in Seq(Sample)
    BY SizesAssumption, FsyncAssumption
  <2>2. Len(audio) \in Nat
    BY <2>1, LenProperties
  <2>3. out \in Seq(Sample) /\ pcm \in Seq(Sample)
    BY <1>1
  <2>4. /\ pos \in 0 .. Len(audio) /\ i \in Nat \ {0}
        /\ ptr \in 0 .. nbytes /\ num_encoded \in -1 .. Chunk
    BY <2>2, Sizes
  <2>5. /\ audio \in Audios /\ payload \in Payloads
        /\ eof \in BOOLEAN /\ pc \in PCs /\ buf \in {"pfi", "data"}
        /\ nbytes \in {HeaderLen, Chunk} /\ still \in BOOLEAN
    BY DEF PCs
  <2>6. base \in Nat /\ bit_index \in 0 .. 7
    OBVIOUS
  <2> HIDE DEF Init
  <2>7. QED
    BY <2>3, <2>4, <2>5, <2>6 DEF Types
<1>3. Reading /\ Published
  BY <1>1 DEF Reading, Published
<1>4. Quota
  BY Sizes DEF Quota
<1>5. Calls
  BY Sizes DEF Calls, InCall
<1>6. Counting
  BY <1>1, CarriersZero DEF Counting, Decided, Origin, InCall
<1>7. Image
  BY <1>1 DEF Image
<1>8. QED
  BY <1>2, <1>3, <1>4, <1>5, <1>6, <1>7 DEF Inv

-----------------------------------------------------------------------------
(* fread hands over the next samples of the recording, no more than bytes  *)
(* are left to encode.                                                     *)
LEMMA FReadInv == Inv /\ FRead => Inv'
<1> SUFFICES ASSUME Inv, FRead
             PROVE  Inv'
  OBVIOUS
<1> DEFINE want == nbytes - ptr
           left == Len(audio) - pos
           got  == IF want <= left THEN want ELSE left
<1> USE DEF Inv
<1>1. /\ pc = "loop" /\ ptr < nbytes /\ ~eof
      /\ pcm' = SubSeq(audio, pos + 1, pos + got)
      /\ pos' = pos + got /\ eof' = (got < want)
      /\ pc' = (IF got = 0 THEN "loop" ELSE "for") /\ i' = 1
      /\ audio' = audio /\ payload' = payload /\ location' = location
      /\ out' = out /\ buf' = buf /\ base' = base /\ nbytes' = nbytes
      /\ still' = still /\ ptr' = ptr /\ bit_index' = bit_index
      /\ num_encoded' = num_encoded
  BY DEF FRead, NumToRead, WantsMore, input, call, cursor
<1>2. /\ want \in Nat \ {0} /\ left \in Nat /\ got \in Nat
      /\ got <= want /\ got <= left /\ pos \in Nat
      /\ pos + got \in 0 .. Len(audio)
  BY <1>1, Inputs, Sizes DEF Types
<1>3. /\ pcm' \in Seq(Sample) /\ Len(pcm') = got
      /\ \A k \in 1 .. got : pcm'[k] = audio[pos + k]
  <2>1. \A j \in pos + 1 .. pos + got : audio[j] \in Sample
    BY <1>2, Inputs
  <2>2. pos + 1 \in Int /\ pos + got \in Int
    BY <1>2
  <2> HIDE DEF got
  <2>3. /\ SubSeq(audio, pos + 1, pos + got) \in Seq(Sample)
        /\ Len(SubSeq(audio, pos + 1, pos + got)) =
             IF pos + 1 <= pos + got THEN (pos + got) - (pos + 1) + 1 ELSE 0
        /\ \A k \in 1 .. (pos + got) - (pos + 1) + 1 :
             SubSeq(audio, pos + 1, pos + got)[k] = audio[pos + 1 + k - 1]
    BY <2>1, <2>2, SubSeqProperties
  <2>4. /\ (pos + got) - (pos + 1) + 1 = got
        /\ pos + 1 <= pos + got <=> got # 0
        /\ \A k \in 1 .. got : pos + 1 + k - 1 = pos + k
    BY <1>2
  <2>5. Len(pcm') = got
    BY <2>3, <2>4, <1>1
  <2>6. \A k \in 1 .. got : pcm'[k] = audio[pos + k]
    BY <2>3, <2>4, <1>1
  <2>7. QED
    BY <2>3, <2>5, <2>6, <1>1
<1> HIDE DEF got, want, left
<1>4. Types'
  BY <1>1, <1>2, <1>3 DEF Types, PCs
<1>5. Reading'
  <2>1. pos = Len(out)
    BY <1>1 DEF Reading
  <2>2. got < want => pos + got = Len(audio)
    BY <1>2, Inputs DEF got, left
  <2>3. Len(out') = Len(out) /\ Len(out) \in Nat
    BY <1>1, Inputs
  <2>4. pc' = "for" => pos' = Len(out') + Len(pcm') /\ i' <= Len(pcm') + 1
    BY <1>1, <1>2, <1>3, <2>1, <2>3
  <2>5. pc' # "for" => pos' = Len(out')
    BY <1>1, <1>2, <2>1, <2>3
  <2>6. eof' => pos' = Len(audio')
    BY <1>1, <2>2
  <2>7. QED
    BY <2>4, <2>5, <2>6 DEF Reading
<1>6. Quota'
  BY <1>1, <1>2, <1>3 DEF Quota, Types, want
<1>7. Calls'
  BY <1>1 DEF Calls, InCall
<1>8. Counting'
  BY <1>1, <1>2, Inputs DEF Counting, Decided, Origin, InCall
<1>9. Image'
  <2>1. pos = Len(out)
    BY <1>1 DEF Reading
  <2>2. Len(out') = Len(out)
    BY <1>1
  <2>3. \A j \in 1 .. Len(out') : Faithful(audio', payload', j, out'[j])
    BY <1>1 DEF Image
  <2>4. i' = 1 /\ Len(pcm') = got /\ audio' = audio
    BY <1>1, <1>3
  <2>5. \A k \in 1 .. got : ~(k < 1) /\ pcm'[k] = audio[Len(out) + k]
    BY <1>2, <1>3, <2>1
  <2>6. QED
    BY <2>2, <2>3, <2>4, <2>5 DEF Image
<1>10. Published'
  BY <1>1 DEF Published
<1>11. QED
  BY <1>4, <1>5, <1>6, <1>7, <1>8, <1>9, <1>10

-----------------------------------------------------------------------------
(* The sample the inner loop is at: the recording's own, still undecided,  *)
(* with at least a byte of quota for it.                                   *)
LEMMA CurrentSample ==
  ASSUME Inv, pc = "for", i <= Len(pcm)
  PROVE  /\ i \in 1 .. Len(pcm) /\ Len(out) \in Nat /\ Len(pcm) \in Nat
         /\ Len(out) + i \in 1 .. Len(audio)
         /\ pcm[i] = audio[Len(out) + i] /\ pcm[i] \in Sample
         /\ Decided = Len(out) + i - 1 /\ Decided \in Nat
         /\ ptr < nbytes /\ ptr \in Nat /\ bit_index \in 0 .. 7
         /\ still /\ Encodable(pcm[i]) => EncodeByte[bit_index] \in Bit
<1> USE DEF Inv
<1>1. /\ Types /\ i \in 1 .. Len(pcm) /\ Len(out) \in Nat
      /\ Len(pcm) \in Nat /\ bit_index \in 0 .. 7 /\ ptr \in Nat
  BY Inputs, Sizes DEF Types
<1>2. Len(out) + i \in 1 .. Len(audio)
  BY <1>1, Inputs DEF Reading, Types
<1>3. pcm[i] = audio[Len(out) + i] /\ pcm[i] \in Sample
  BY <1>1, <1>2, Inputs DEF Image
<1>4. Decided = Len(out) + i - 1 /\ Decided \in Nat
  BY <1>1 DEF Decided
<1>5. ptr < nbytes
  BY <1>1, Sizes DEF Quota, Types
<1>6. still => EncodeByte[bit_index] \in Bit
  <2> SUFFICES ASSUME still
               PROVE  EncodeByte[bit_index] \in Bit
    OBVIOUS
  <2>1. EncodeByte \in Byte
    BY <1>1, <1>5, EncodeByteType DEF InCall
  <2>2. QED
    BY <2>1, <1>1 DEF Byte
<1>7. QED
  BY <1>1, <1>2, <1>3, <1>4, <1>5, <1>6

(* What the inner loop leaves behind in place of that sample is what the   *)
(* image should have there.                                                *)
LEMMA PutFaithful ==
  ASSUME Inv, pc = "for", i <= Len(pcm)
  PROVE  Faithful(audio, payload, Len(out) + i,
                  IF still /\ Encodable(pcm[i])
                  THEN SetLowBit(pcm[i], EncodeByte[bit_index]) ELSE pcm[i])
<1> DEFINE j == Len(out) + i
           c == Carriers(audio, j - 1)
<1>0. Types /\ Calls /\ Counting
  BY DEF Inv
<1>1. /\ j \in Nat /\ j - 1 \in Nat /\ Decided = j - 1
      /\ pcm[i] = audio[j] /\ audio[j] \in Sample
  BY CurrentSample
<1>2. c \in Nat
  BY <1>1, CarriersType
<1>3. /\ payload.size \in Nat /\ StreamBits(payload) \in Nat
      /\ StreamBits(payload) = 8 * HeaderLen + 8 * payload.size
      /\ ptr \in Nat /\ bit_index \in 0 .. 7 /\ base \in Nat
  <2>1. payload.size \in Nat
    BY <1>0, Inputs
  <2>2. ptr \in Nat /\ bit_index \in 0 .. 7
    BY CurrentSample
  <2>3. base \in Nat
    BY <1>0 DEF Types
  <2>4. QED
    BY <2>1, <2>2, <2>3, Sizes DEF StreamBits
<1> HIDE DEF c, j
<1>4. CASE still /\ Encodable(pcm[i])
  <2> DEFINE b == EncodeByte[bit_index]
             s == SetLowBit(audio[j], b)
  <2>1. b \in Bit
    BY <1>4, CurrentSample
  <2>2. s \in Sample /\ LowBit(s) = b /\ UpperBits(s) = UpperBits(audio[j])
    BY <1>1, <2>1, SetLowBitCorrect
  <2>3. Origin \in Nat /\ c = 8 * (Origin + ptr) + bit_index
    BY <1>0, <1>1, <1>3, <1>4, Sizes DEF Counting, InCall, Origin, c
  <2>4. Origin + ptr \in Nat
    BY <2>3, <1>3
  <2>5. c \div 8 = Origin + ptr /\ c % 8 = bit_index
    BY <2>3, <2>4, <1>3, BytePosition
  <2>6. ptr < nbytes /\ (buf = "pfi" => ptr < HeaderLen)
        /\ (buf = "data" => base < payload.size /\ ptr < Chunk)
    BY <1>0, <1>4, CurrentSample, EncodeByteType DEF InCall
  <2>7. StreamBit(payload, c) = b
    <3>1. CASE buf = "pfi"
      <4>1. Origin + ptr = ptr
        BY <3>1, <1>3 DEF Origin
      <4>2. QED
        BY <3>1, <4>1, <2>5, <2>6 DEF StreamBit, EncodeByte
    <3>2. CASE buf = "data"
      <4>1. Origin + ptr = HeaderLen + base + ptr
        BY <3>2 DEF Origin
      <4>2. ~(Origin + ptr < HeaderLen)
            /\ (Origin + ptr) - HeaderLen = base + ptr
        BY <4>1, <1>3, Sizes
      <4>3. buf # "pfi"
        BY <3>2
      <4>4. QED
        BY <4>3, <4>2, <2>5 DEF StreamBit, EncodeByte
    <3>3. QED
      BY <1>0, <3>1, <3>2 DEF Types
  <2>8. c < StreamBits(payload) + 8 * Chunk
    <3>1. Origin + ptr < HeaderLen + payload.size + Chunk
      <4>1. CASE buf = "pfi"
        BY <4>1, <2>6, <1>3, Sizes DEF Origin
      <4>2. CASE buf = "data"
        BY <4>2, <2>6, <1>3, Sizes, SMTT(30) DEF Origin
      <4>3. QED
        BY <4>1, <4>2, <1>0 DEF Types
    <3>2. QED
      BY <3>1, <2>3, <1>3, Sizes, SMTT(30)
  <2> HIDE DEF s, b
  <2>9. Faithful(audio, payload, j, s)
    <3>1. ~(c >= StreamBits(payload) + 8 * Chunk)
      BY <2>8, <1>2, <1>3, Sizes
    <3>2. Encodable(audio[j])
      BY <1>1, <1>4
    <3>3. QED
      BY <2>2, <2>7, <3>1, <3>2 DEF Faithful, c
  <2>10. QED
    BY <2>9, <1>1, <1>4 DEF s, b, j
<1>5. CASE ~(still /\ Encodable(pcm[i]))
  <2>1. ~(Encodable(audio[j]) /\ c < StreamBits(payload))
    <3> SUFFICES ASSUME Encodable(audio[j])
                 PROVE  ~(c < StreamBits(payload))
      OBVIOUS
    <3>1. ~still
      BY <1>1, <1>5
    <3>2. buf = "data"
      BY <1>0, <3>1 DEF Calls, Types
    <3>3. payload.size <= base
      BY <1>0, <3>1, <3>2, <1>3 DEF Calls, InCall
    <3>4. c >= 8 * (HeaderLen + base)
      BY <1>0, <3>1, <1>1 DEF Counting, InCall, c
    <3>5. QED
      BY <3>3, <3>4, <1>2, <1>3, Sizes
  <2>2. Faithful(audio, payload, j, audio[j])
    BY <2>1, <1>1 DEF Faithful, c
  <2>3. QED
    BY <2>2, <1>1, <1>5 DEF j
<1>6. QED
  BY <1>4, <1>5

(* One turn of the inner loop: the count of carriers and the position in   *)
(* the hidden stream advance together.                                     *)
LEMMA PutSampleInv == Inv /\ PutSample => Inv'
<1> SUFFICES ASSUME Inv, PutSample
             PROVE  Inv'
  OBVIOUS
<1> DEFINE used == still /\ Encodable(pcm[i])
           s == IF used THEN SetLowBit(pcm[i], EncodeByte[bit_index])
                        ELSE pcm[i]
           step == IF used THEN 1 ELSE 0
<1>0. Types /\ Reading /\ Quota /\ Calls /\ Counting /\ Image /\ Published
  BY DEF Inv
<1>1. /\ pc = "for" /\ i <= Len(pcm) /\ pc' = pc /\ i' = i + 1
      /\ audio' = audio /\ payload' = payload /\ location' = location
      /\ out' = out /\ buf' = buf /\ base' = base /\ nbytes' = nbytes
      /\ still' = still /\ pos' = pos /\ eof' = eof
      /\ num_encoded' = num_encoded
  BY DEF PutSample, input, call
<1>2. /\ i \in 1 .. Len(pcm) /\ Len(out) \in Nat /\ Len(pcm) \in Nat
      /\ pcm[i] = audio[Len(out) + i] /\ pcm[i] \in Sample
      /\ Decided = Len(out) + i - 1 /\ Decided \in Nat
      /\ ptr < nbytes /\ ptr \in Nat /\ bit_index \in 0 .. 7
      /\ nbytes \in Nat
  BY <1>0, <1>1, CurrentSample, Sizes DEF Types
<1>3. s \in Sample
  <2>1. CASE used
    BY <2>1, <1>1, <1>2, CurrentSample, SetLowBitCorrect
  <2>2. CASE ~used
    BY <2>2, <1>2
  <2>3. QED
    BY <2>1, <2>2
<1>4. /\ pcm' = [pcm EXCEPT ![i] = s]
      /\ ptr' = (IF bit_index + step >= 8 THEN ptr + 1 ELSE ptr)
      /\ bit_index' = (IF bit_index + step >= 8 THEN 0 ELSE bit_index + step)
  <2>1. CASE used
    BY <2>1, <1>1, <1>2 DEF PutSample
  <2>2. CASE ~used
    <3>1. pcm' = pcm
      BY <2>2 DEF PutSample
    <3>2. pcm = [pcm EXCEPT ![i] = pcm[i]]
      <4>1. pcm \in [1 .. Len(pcm) -> Sample]
        BY <1>0, LenProperties DEF Types
      <4>2. QED
        BY <4>1, <1>2
    <3>3. s = pcm[i] /\ step = 0
      BY <2>2
    <3> HIDE DEF s, step
    <3>4. pcm' = [pcm EXCEPT ![i] = s]
      BY <3>1, <3>2, <3>3
    <3>5. /\ ptr' = (IF bit_index >= 8 THEN ptr + 1 ELSE ptr)
          /\ bit_index' = (IF bit_index >= 8 THEN 0 ELSE bit_index)
      BY <2>2 DEF PutSample
    <3>6. bit_index + step = bit_index
      BY <3>3, <1>2
    <3>7. QED
      BY <3>4, <3>5, <3>6
  <2>3. QED
    BY <2>1, <2>2
<1>5. /\ 8 * ptr' + bit_index' = 8 * ptr + bit_index + step
      /\ ptr' \in 0 .. nbytes /\ bit_index' \in 0 .. 7
      /\ (~used => ptr' = ptr /\ bit_index' = bit_index)
  BY <1>2, <1>4
<1>6. /\ pcm' \in Seq(Sample) /\ Len(pcm') = Len(pcm)
      /\ \A k \in 1 .. Len(pcm) : pcm'[k] = IF k = i THEN s ELSE pcm[k]
  <2> HIDE DEF s
  <2>1. pcm \in Seq(Sample)
    BY <1>0 DEF Types
  <2>2. QED
    BY <2>1, <1>2, <1>3, <1>4, ExceptSeq
<1>7. Faithful(audio, payload, Len(out) + i, s)
  BY <1>1, PutFaithful
<1>8. Decided' = Decided + 1
  BY <1>1, <1>2 DEF Decided
<1>9. Carriers(audio, Decided + 1) =
        Carriers(audio, Decided) + (IF Encodable(pcm[i]) THEN 1 ELSE 0)
  <2>1. audio[Decided + 1] = pcm[i]
    BY <1>2
  <2>2. QED
    BY <2>1, <1>2, CarriersNext
<1>10. Carriers(audio, Decided) \in Nat
  BY <1>2, CarriersType
<1> HIDE DEF s
<1>11. Types'
  BY <1>0, <1>1, <1>5, <1>6 DEF Types
<1>12. Reading'
  BY <1>0, <1>1, <1>2, <1>6 DEF Reading
<1>13. Quota'
  <2>1. Len(pcm) - i <= 8 * (nbytes - ptr') - bit_index'
    <3> DEFINE q == ptr'
               r == bit_index'
               rest == Len(pcm) - i
    <3>1. rest + 1 <= 8 * (nbytes - ptr) - bit_index /\ rest \in Nat
      <4>1. Len(pcm) - (i - 1) <= 8 * (nbytes - ptr) - bit_index
        BY <1>0, <1>1 DEF Quota
      <4>2. rest + 1 = Len(pcm) - (i - 1) /\ rest \in Nat
        BY <1>2
      <4>3. QED
        BY <4>1, <4>2
    <3>2. q \in Nat /\ r \in Nat /\ 8 * q + r = 8 * ptr + bit_index + step
      <4>1. q \in Nat /\ r \in Nat
        BY <1>2, <1>5
      <4>2. QED
        BY <4>1, <1>5, Zenon
    <3>3. step \in {0, 1} /\ bit_index \in Nat /\ ptr \in Nat
          /\ nbytes \in Nat
      BY <1>2
    <3> HIDE DEF step, used, q, r, rest
    <3>4. rest <= 8 * (nbytes - q) - r
      BY <3>1, <3>2, <3>3, QuotaStep
    <3>5. QED
      BY <3>4 DEF rest, q, r
  <2>2. ~still => ptr' = 0 /\ bit_index' = 0
    BY <1>0, <1>5 DEF Quota
  <2>3. (i' - 1) = i /\ Len(pcm') = Len(pcm)
    BY <1>1, <1>2, <1>6
  <2>4. QED
    BY <2>1, <2>2, <2>3, <1>1 DEF Quota
<1>14. Calls'
  BY <1>0, <1>1 DEF Calls, InCall
<1>15. Counting'
  <2>1. CASE still
    <3>1. Origin' = Origin /\ Origin \in Nat
      BY <1>0, <1>1, Sizes DEF Origin, Types
    <3>2. Carriers(audio, Decided) = 8 * (Origin + ptr) + bit_index
      BY <2>1, <1>0, <1>1 DEF Counting, InCall
    <3>3. step = IF Encodable(pcm[i]) THEN 1 ELSE 0
      BY <2>1
    <3>4. Carriers(audio, Decided + 1) =
            8 * (Origin + ptr) + bit_index + step
      BY <3>2, <3>3, <1>9
    <3> DEFINE q == ptr'
               r == bit_index'
    <3>5. q \in Nat /\ r \in Nat /\ 8 * q + r = 8 * ptr + bit_index + step
      <4>1. q \in Nat /\ r \in Nat
        BY <1>2, <1>5
      <4>2. QED
        BY <4>1, <1>5, Zenon
    <3>6. step \in {0, 1} /\ bit_index \in Nat /\ ptr \in Nat
      BY <1>2
    <3> HIDE DEF step, used, q, r
    <3>7. 8 * (Origin + q) + r = 8 * (Origin + ptr) + bit_index + step
      BY <3>1, <3>5, <3>6, CursorStep
    <3>8. Carriers(audio, Decided + 1) = 8 * (Origin + ptr') + bit_index'
      BY <3>4, <3>7 DEF q, r
    <3>9. QED
      BY <3>1, <3>8, <2>1, <1>1, <1>8 DEF Counting
  <2>2. CASE ~still
    <3>1. Carriers(audio, Decided) >= 8 * (HeaderLen + base)
      BY <2>2, <1>0, <1>1 DEF Counting, InCall
    <3>2. base \in Nat /\ HeaderLen \in Nat
      BY <1>0, Sizes DEF Types
    <3>3. Carriers(audio, Decided + 1) >= 8 * (HeaderLen + base)
      BY <3>1, <3>2, <1>9, <1>10
    <3>4. QED
      BY <3>3, <2>2, <1>1, <1>8 DEF Counting
  <2>3. QED
    BY <2>1, <2>2
<1>16. Image'
  <2>1. \A j \in 1 .. Len(out') : Faithful(audio', payload', j, out'[j])
    BY <1>0, <1>1 DEF Image
  <2>2. ASSUME NEW k \in 1 .. Len(pcm')
        PROVE  IF k < i' THEN Faithful(audio, payload, Len(out) + k, pcm'[k])
                         ELSE pcm'[k] = audio[Len(out) + k]
    <3>1. k \in 1 .. Len(pcm) /\ pcm'[k] = IF k = i THEN s ELSE pcm[k]
      BY <1>6
    <3>2. IF k < i THEN Faithful(audio, payload, Len(out) + k, pcm[k])
                   ELSE pcm[k] = audio[Len(out) + k]
      BY <3>1, <1>0, <1>1 DEF Image
    <3>3. CASE k = i
      BY <3>1, <3>3, <1>1, <1>2, <1>7
    <3>4. CASE k # i
      BY <3>1, <3>2, <3>4, <1>1, <1>2
    <3>5. QED
      BY <3>3, <3>4
  <2>3. Len(out') = Len(out)
    BY <1>1
  <2>4. QED
    BY <2>1, <2>2, <2>3, <1>1 DEF Image, Faithful
<1>17. Published'
  BY <1>0, <1>1 DEF Published
<1>18. QED
  BY <1>11, <1>12, <1>13, <1>14, <1>15, <1>16, <1>17 DEF Inv

(* fwrite appends a round all of whose samples are decided.                *)
LEMMA FWriteInv == Inv /\ FWrite => Inv'
<1> SUFFICES ASSUME Inv, FWrite
             PROVE  Inv'
  OBVIOUS
<1>0. Types /\ Reading /\ Quota /\ Calls /\ Counting /\ Image /\ Published
  BY DEF Inv
<1>1. /\ pc = "for" /\ i > Len(pcm) /\ pc' = "loop" /\ i' = i
      /\ audio' = audio /\ payload' = payload /\ location' = location
      /\ out' = out \o pcm /\ pcm' = <<>>
      /\ buf' = buf /\ base' = base /\ nbytes' = nbytes
      /\ still' = still /\ ptr' = ptr /\ bit_index' = bit_index
      /\ pos' = pos /\ eof' = eof /\ num_encoded' = num_encoded
  BY DEF FWrite, input, call, cursor
<1>2. /\ Len(out) \in Nat /\ Len(pcm) \in Nat /\ i - 1 = Len(pcm)
      /\ i \in Nat /\ pos = Len(out) + Len(pcm)
  <2>1. /\ i \in Nat /\ i <= Len(pcm) + 1 /\ pos = Len(out) + Len(pcm)
    BY <1>0, <1>1 DEF Reading, Types
  <2>2. QED
    BY <1>0, <1>1, <2>1, Inputs
<1>3. /\ out' \in Seq(Sample) /\ Len(out') = Len(out) + Len(pcm)
      /\ \A j \in 1 .. Len(out) + Len(pcm) :
           out'[j] = IF j <= Len(out) THEN out[j] ELSE pcm[j - Len(out)]
  BY <1>0, <1>1, ConcatProperties DEF Types
<1>4. pcm' \in Seq(Sample)
  BY <1>1, EmptySeq
<1>5. Types'
  BY <1>0, <1>1, <1>3, <1>4 DEF Types, PCs
<1>6. Reading'
  BY <1>0, <1>1, <1>2, <1>3 DEF Reading
<1>7. Quota'
  <2>1. bit_index <= 8 * (nbytes - ptr)
    <3>1. Len(pcm) - (i - 1) <= 8 * (nbytes - ptr) - bit_index
      BY <1>0, <1>1 DEF Quota
    <3>2. Len(pcm) - (i - 1) = 0
      BY <1>2
    <3>3. bit_index \in Nat /\ nbytes - ptr \in Int
      BY <1>0, Sizes DEF Types
    <3>4. QED
      BY <3>1, <3>2, <3>3
  <2>2. QED
    BY <2>1, <1>0, <1>1 DEF Quota
<1>8. Calls'
  BY <1>0, <1>1 DEF Calls, InCall
<1>9. Counting'
  <2>1. Decided' = Decided /\ Origin' = Origin
    BY <1>1, <1>2, <1>3 DEF Decided, Origin
  <2>2. QED
    BY <2>1, <1>0, <1>1 DEF Counting, InCall
<1>10. Image'
  <2>1. ASSUME NEW j \in 1 .. Len(out')
        PROVE  Faithful(audio, payload, j, out'[j])
    <3>1. j \in 1 .. Len(out) + Len(pcm)
      BY <1>3
    <3>2. CASE j <= Len(out)
      <4>1. j \in 1 .. Len(out) /\ out'[j] = out[j]
        BY <3>1, <3>2, <1>2, <1>3
      <4>2. QED
        BY <4>1, <1>0 DEF Image
    <3>3. CASE ~(j <= Len(out))
      <4>1. j - Len(out) \in 1 .. Len(pcm) /\ j - Len(out) < i
            /\ Len(out) + (j - Len(out)) = j
        BY <3>1, <3>3, <1>2
      <4>2. Faithful(audio, payload, Len(out) + (j - Len(out)),
                     pcm[j - Len(out)])
        BY <4>1, <1>0, <1>1 DEF Image
      <4>3. QED
        BY <4>1, <4>2, <3>1, <3>3, <1>3
    <3>4. QED
      BY <3>2, <3>3
  <2>2. QED
    BY <2>1, <1>1 DEF Image, Faithful
<1>11. Published'
  BY <1>0, <1>1 DEF Published
<1>12. QED
  BY <1>5, <1>6, <1>7, <1>8, <1>9, <1>10, <1>11 DEF Inv

(* encode_bits returns a whole number of bytes, or meets the end of the    *)
(* audio.                                                                  *)
LEMMA EncodeReturnInv == Inv /\ EncodeReturn => Inv'
<1> SUFFICES ASSUME Inv, EncodeReturn
             PROVE  Inv'
  OBVIOUS
<1>0. Types /\ Reading /\ Quota /\ Calls /\ Counting /\ Image /\ Published
  BY DEF Inv
<1>1. /\ pc = "loop" /\ (eof \/ ~(ptr < nbytes)) /\ pc' = "returned"
      /\ num_encoded' = (IF eof THEN -1 ELSE ptr)
      /\ i' = i /\ audio' = audio /\ payload' = payload
      /\ location' = location /\ out' = out /\ pcm' = pcm
      /\ buf' = buf /\ base' = base /\ nbytes' = nbytes
      /\ still' = still /\ ptr' = ptr /\ bit_index' = bit_index
      /\ pos' = pos /\ eof' = eof
  BY DEF EncodeReturn, Returned, WantsMore, input, call, cursor
<1>2. ~eof => ptr = nbytes /\ bit_index = 0
  BY <1>0, <1>1, Sizes DEF Types, Quota
<1>3. Types'
  <2>1. num_encoded' \in -1 .. Chunk
    BY <1>0, <1>1, Sizes DEF Types
  <2>2. QED
    BY <2>1, <1>0, <1>1 DEF Types, PCs
<1>4. Reading'
  BY <1>0, <1>1 DEF Reading
<1>5. Quota'
  BY <1>0, <1>1, <1>2 DEF Quota
<1>6. Calls'
  BY <1>0, <1>1 DEF Calls, InCall
<1>7. Counting'
  BY <1>0, <1>1 DEF Counting, Decided, Origin, InCall
<1>8. Image'
  BY <1>0, <1>1 DEF Image, Faithful
<1>9. Published'
  BY <1>0, <1>1 DEF Published
<1>10. QED
  BY <1>3, <1>4, <1>5, <1>6, <1>7, <1>8, <1>9 DEF Inv

(* The header is never found to be of no bytes: the call returned all of   *)
(* them or -1. The data follows it in the stream.                          *)
LEMMA HeaderDoneInv == Inv /\ HeaderDone => Inv'
<1> SUFFICES ASSUME Inv, HeaderDone
             PROVE  Inv'
  OBVIOUS
<1>0. Types /\ Reading /\ Quota /\ Calls /\ Counting /\ Image /\ Published
  BY DEF Inv
<1>1. pc = "returned" /\ buf = "pfi" /\ nbytes = HeaderLen /\ still
      /\ base = 0
  BY <1>0 DEF HeaderDone, Calls
<1>2. num_encoded # 0
  BY <1>0, <1>1, Sizes DEF Quota
<1>3. /\ pc' = "test" /\ buf' = "data" /\ base' = 0
      /\ i' = i /\ audio' = audio /\ payload' = payload
      /\ location' = location /\ out' = out /\ pcm' = pcm
      /\ nbytes' = nbytes /\ num_encoded' = num_encoded
      /\ still' = still /\ ptr' = ptr /\ bit_index' = bit_index
      /\ pos' = pos /\ eof' = eof
  BY <1>2 DEF HeaderDone, input, cursor
<1>4. Types'
  BY <1>0, <1>3 DEF Types, PCs
<1>5. Reading'
  BY <1>0, <1>1, <1>3 DEF Reading
<1>6. Quota'
  BY <1>0, <1>1, <1>3 DEF Quota
<1>7. Calls'
  <2>1. 0 \in 0 .. BufChunks /\ 0 = Chunk * 0
    BY Sizes
  <2>2. 0 < payload.size + Chunk
    BY <1>0, Inputs, Sizes
  <2>3. QED
    BY <2>1, <2>2, <1>3 DEF Calls, InCall
<1>8. Counting'
  <2>1. Decided' = Decided
    BY <1>1, <1>3 DEF Decided
  <2>2. ASSUME ~eof
        PROVE  Carriers(audio, Decided) = 8 * (HeaderLen + 0)
    <3>1. Carriers(audio, Decided) = 8 * (Origin + ptr) + bit_index
      BY <2>2, <1>0, <1>1 DEF Counting, InCall
    <3>2. Origin = 0 /\ ptr = HeaderLen /\ bit_index = 0
      BY <2>2, <1>0, <1>1 DEF Origin, Quota
    <3>3. QED
      BY <3>1, <3>2, Sizes
  <2>3. QED
    BY <2>1, <2>2, <1>3 DEF Counting, InCall
<1>9. Image'
  BY <1>0, <1>1, <1>3 DEF Image, Faithful
<1>10. Published'
  BY <1>0, <1>1, <1>3 DEF Published
<1>11. QED
  BY <1>4, <1>5, <1>6, <1>7, <1>8, <1>9, <1>10 DEF Inv

(* A whole chunk moves the next call's buffer on by a chunk; it stays in   *)
(* the data buffer because a chunk is only counted while it has data.      *)
LEMMA ChunkDoneInv == Inv /\ ChunkDone => Inv'
<1> SUFFICES ASSUME Inv, ChunkDone
             PROVE  Inv'
  OBVIOUS
<1>0. Types /\ Reading /\ Quota /\ Calls /\ Counting /\ Image /\ Published
  BY DEF Inv
<1>1. pc = "returned" /\ buf = "data" /\ nbytes = Chunk
      /\ (still <=> base < payload.size)
  BY <1>0 DEF ChunkDone, Calls, InCall
<1>2. /\ pc' = "test" /\ buf' = buf
      /\ base' = (IF num_encoded >= 0 THEN base + num_encoded ELSE base)
      /\ i' = i /\ audio' = audio /\ payload' = payload
      /\ location' = location /\ out' = out /\ pcm' = pcm
      /\ nbytes' = nbytes /\ num_encoded' = num_encoded
      /\ still' = still /\ ptr' = ptr /\ bit_index' = bit_index
      /\ pos' = pos /\ eof' = eof
  BY DEF ChunkDone, input, cursor
<1>3. CASE eof
  <2>1. base' = base
    BY <1>0, <1>1, <1>2, <1>3 DEF Quota
  <2>2. Types'
    BY <1>0, <1>2, <2>1 DEF Types, PCs
  <2>3. Reading'
    BY <1>0, <1>1, <1>2 DEF Reading
  <2>4. Quota'
    BY <1>0, <1>1, <1>2 DEF Quota
  <2>5. Calls'
    BY <1>0, <1>1, <1>2, <2>1 DEF Calls, InCall
  <2>6. Counting'
    BY <1>2, <1>3 DEF Counting, InCall
  <2>7. Image'
    BY <1>0, <1>1, <1>2 DEF Image, Faithful
  <2>8. Published'
    BY <1>0, <1>1, <1>2 DEF Published
  <2>9. QED
    BY <2>2, <2>3, <2>4, <2>5, <2>6, <2>7, <2>8 DEF Inv
<1>4. CASE ~eof
  <2>1. num_encoded = Chunk /\ ptr = Chunk /\ bit_index = 0
    BY <1>0, <1>1, <1>4 DEF Quota
  <2>2. still /\ base < payload.size
    BY <1>0, <1>1, <2>1, Sizes DEF Quota
  <2>3. base' = base + Chunk /\ base \in Nat
    BY <1>0, <1>2, <2>1, Sizes DEF Types
  <2>4. PICK k \in 0 .. BufChunks : base = Chunk * k
    BY <1>0, <1>1 DEF Calls
  <2>5. Chunk * k < DataLen
    BY <1>0, <2>2, <2>3, <2>4, Inputs, Sizes
  <2>6. k + 1 \in 0 .. BufChunks /\ base' = Chunk * (k + 1)
    BY <2>3, <2>4, <2>5, ChunkFits
  <2>7. Types'
    <3>1. base' \in Nat
      BY <2>3, Sizes
    <3>2. QED
      BY <3>1, <1>0, <1>2 DEF Types, PCs
  <2>8. Reading'
    BY <1>0, <1>1, <1>2 DEF Reading
  <2>9. Quota'
    BY <1>0, <1>1, <1>2 DEF Quota
  <2>10. Calls'
    <3>1. base' < payload.size + Chunk
      BY <1>0, <2>2, <2>3, Inputs, Sizes
    <3>2. QED
      BY <3>1, <2>6, <1>0, <1>1, <1>2 DEF Calls, InCall
  <2>11. Counting'
    <3>1. Carriers(audio, Decided) = 8 * (Origin + ptr) + bit_index
      BY <2>2, <1>0, <1>1, <1>4 DEF Counting, InCall
    <3>2. Origin = HeaderLen + base
      BY <1>1 DEF Origin
    <3>3. Carriers(audio, Decided) = 8 * (HeaderLen + base')
      BY <3>1, <3>2, <2>1, <2>3, Sizes
    <3>4. Decided' = Decided
      BY <1>1, <1>2 DEF Decided
    <3>5. QED
      BY <3>3, <3>4, <1>2 DEF Counting, InCall
  <2>12. Image'
    BY <1>0, <1>1, <1>2 DEF Image, Faithful
  <2>13. Published'
    BY <1>0, <1>1, <1>2 DEF Published
  <2>14. QED
    BY <2>7, <2>8, <2>9, <2>10, <2>11, <2>12, <2>13 DEF Inv
<1>5. QED
  BY <1>3, <1>4

(* Another call to encode_bits, on the chunk of data that is next.         *)
LEMMA CallChunkInv == Inv /\ CallChunk => Inv'
<1> SUFFICES ASSUME Inv, CallChunk
             PROVE  Inv'
  OBVIOUS
<1>0. Types /\ Reading /\ Quota /\ Calls /\ Counting /\ Image /\ Published
  BY DEF Inv
<1>1. /\ pc = "test" /\ pc' = "loop" /\ nbytes' = Chunk
      /\ still' = (base < payload.size) /\ ptr' = 0 /\ bit_index' = 0
      /\ i' = i /\ audio' = audio /\ payload' = payload
      /\ location' = location /\ out' = out /\ pcm' = pcm
      /\ buf' = buf /\ base' = base
      /\ pos' = pos /\ eof' = eof /\ num_encoded' = num_encoded
  BY DEF CallChunk, StillEncoding, input
<1>2. buf = "data"
  BY <1>0, <1>1 DEF Calls, Types, InCall
<1>3. still' \in BOOLEAN /\ (still' <=> base < payload.size)
  <2>1. still' = (base < payload.size)
    BY <1>1
  <2>2. base \in Nat /\ payload.size \in Nat
    BY <1>0, Inputs DEF Types
  <2>3. still' \in BOOLEAN
    BY <2>1, <2>2
  <2>4. still' <=> base < payload.size
    BY <2>1, <2>2
  <2>5. QED
    BY <2>3, <2>4
<1>4. Types'
  <2>1. ptr' \in 0 .. nbytes' /\ bit_index' \in 0 .. 7
        /\ nbytes' \in {HeaderLen, Chunk}
    BY <1>1, Sizes
  <2>2. QED
    BY <2>1, <1>0, <1>1, <1>3 DEF Types, PCs
<1>5. Reading'
  BY <1>0, <1>1 DEF Reading
<1>6. Quota'
  BY <1>1, Sizes DEF Quota
<1>7. Calls'
  BY <1>0, <1>1, <1>2, <1>3 DEF Calls, InCall
<1>8. Counting'
  <2>1. Decided' = Decided
    BY <1>1 DEF Decided
  <2>2. base \in Nat
    BY <1>0 DEF Types
  <2>3. ASSUME ~eof
        PROVE  /\ Carriers(audio, Decided) = 8 * (HeaderLen + base)
               /\ Carriers(audio, Decided) = 8 * ((HeaderLen + base) + 0) + 0
               /\ Carriers(audio, Decided) >= 8 * (HeaderLen + base)
    BY <2>2, <2>3, <1>0, <1>1, Sizes DEF Counting, InCall
  <2>4. Origin' = HeaderLen + base
    BY <1>1, <1>2 DEF Origin
  <2>5. QED
    BY <2>1, <2>3, <2>4, <1>1 DEF Counting
<1>9. Image'
  BY <1>0, <1>1 DEF Image, Faithful
<1>10. Published'
  BY <1>0, <1>1 DEF Published
<1>11. QED
  BY <1>4, <1>5, <1>6, <1>7, <1>8, <1>9, <1>10 DEF Inv

(* The loop is only left after encode_bits has met the end of the audio,   *)
(* so what is published is a whole image.                                  *)
LEMMA PublishInv == Inv /\ Publish => Inv'
<1> SUFFICES ASSUME Inv, Publish
             PROVE  Inv'
  OBVIOUS
<1>0. Types /\ Reading /\ Quota /\ Calls /\ Counting /\ Image /\ Published
  BY DEF Inv
<1>1. /\ pc = "test" /\ ~LoopGoesOn /\ pc' = "done" /\ location' = out
      /\ i' = i /\ audio' = audio /\ payload' = payload
      /\ out' = out /\ pcm' = pcm /\ nbytes' = nbytes /\ still' = still
      /\ buf' = buf /\ base' = base /\ ptr' = ptr /\ bit_index' = bit_index
      /\ pos' = pos /\ eof' = eof /\ num_encoded' = num_encoded
  BY DEF Publish, input, call, cursor
<1>2. eof
  <2>1. ~(num_encoded >= 0)
    BY <1>1 DEF LoopGoesOn
  <2>2. SUFFICES ASSUME ~eof
                 PROVE  FALSE
    BY <1>0 DEF Types
  <2>3. num_encoded = nbytes
    BY <2>2, <1>0, <1>1 DEF Quota
  <2>4. QED
    BY <2>1, <2>3, <1>0, Sizes DEF Types
<1>3. Types'
  BY <1>0, <1>1 DEF Types, PCs
<1>4. Reading' /\ Quota'
  BY <1>0, <1>1 DEF Reading, Quota
<1>5. Calls' /\ Counting'
  BY <1>0, <1>1, <1>2 DEF Calls, Counting, InCall
<1>6. Image'
  BY <1>0, <1>1 DEF Image, Faithful
<1>7. Published'
  BY <1>1, <1>2 DEF Published
<1>8. QED
  BY <1>3, <1>4, <1>5, <1>6, <1>7 DEF Inv

-----------------------------------------------------------------------------
(* No step of fsync leaves Inv.                                            *)
LEMMA NextInv == Inv /\ Next => Inv'
BY FReadInv, PutSampleInv, FWriteInv, EncodeReturnInv, HeaderDoneInv,
   ChunkDoneInv, CallChunkInv, PublishInv DEF Next

(* Nor does a step that changes nothing.                                   *)
LEMMA IdleInv == Inv /\ UNCHANGED vars => Inv'
BY DEF vars, Inv, Types, Reading, Quota, Calls, Counting, Image, Published,
       Decided, Origin, InCall, Faithful

(* Inv holds at every moment of every fsync.                               *)
THEOREM Invariance == Spec => []Inv
<1>1. Init => Inv
  BY InitInv
<1>2. Inv /\ [Next]_vars => Inv'
  BY NextInv, IdleInv
<1>3. QED
  BY <1>1, <1>2, PTL DEF Spec

(* The invariant is about what the variables may hold. The pointer into    *)
(* the data buffer is a multiple of the chunk.                             *)
LEMMA InvType == Inv => TypeOK
<1> SUFFICES ASSUME Inv
             PROVE  TypeOK
  OBVIOUS
<1>1. Types /\ Calls /\ Published
  BY DEF Inv
<1>2. base \in 0 .. DataLen
  <2>1. CASE buf = "pfi"
    BY <2>1, <1>1, Sizes DEF Calls
  <2>2. CASE buf = "data"
    <3>1. PICK k \in 0 .. BufChunks : base = Chunk * k
      BY <2>2, <1>1 DEF Calls
    <3>2. Chunk * k <= Chunk * BufChunks
      BY Sizes, ProductMono
    <3>3. QED
      BY <3>1, <3>2, <1>1, Sizes DEF DataLen, Types
  <2>3. QED
    BY <2>1, <2>2, <1>1 DEF Types
<1>3. location \in Seq(Sample)
  BY <1>1, Inputs DEF Published, Types
<1>4. QED
  BY <1>1, <1>2, <1>3 DEF Types, TypeOK

(* No execution of fsync leaves the types; in particular the pointer into  *)
(* the data buffer stays inside it.                                        *)
THEOREM TypeCorrect == Spec => []TypeOK
BY InvType, Invariance, PTL

(* fsync's output is a cover for the recording: whatever the recording,    *)
(* the file and the sizes, only low bits of loud samples change.           *)
THEOREM Cover == Spec => []UpperBitsKept
<1>1. Inv => UpperBitsKept
  BY DEF Inv, Image, Faithful, UpperBitsKept
<1>2. QED
  BY <1>1, Invariance, PTL

(* Header and data are where the constructor will look for them.           *)
THEOREM Placement == Spec => []PayloadPlaced
<1>1. Inv => PayloadPlaced
  BY DEF Inv, Image, Faithful, PayloadPlaced
<1>2. QED
  BY <1>1, Invariance, PTL

(* Past the last chunk the recording is passed as it is.                   *)
THEOREM PastTheData == Spec => []TailUntouched
<1>1. Inv => TailUntouched
  BY DEF Inv, Image, Faithful, TailUntouched
<1>2. QED
  BY <1>1, Invariance, PTL

(* encode_bits never reaches one of its assertions with it false.          *)
THEOREM Assertions == Spec => []EncodeAsserts
<1>1. Inv => EncodeAsserts
  <2> SUFFICES ASSUME Inv
               PROVE  EncodeAsserts
    OBVIOUS
  <2>1. Types /\ Quota
    BY DEF Inv
  <2>2. nbytes - ptr <= Chunk
    BY <2>1, Sizes DEF Types
  <2>3. pc = "returned" => (eof \/ (bit_index = 0 /\ ptr = nbytes))
    BY <2>1 DEF Quota
  <2>4. pc = "for" /\ i <= Len(pcm) => ptr < nbytes
    BY CurrentSample
  <2>5. QED
    BY <2>2, <2>3, <2>4 DEF EncodeAsserts
<1>2. QED
  BY <1>1, Invariance, PTL

(* A crash at any moment leaves a whole recording at location.             *)
THEOREM Whole == Spec => []LocationWhole
<1>1. Inv => LocationWhole
  BY DEF Inv, Published, Reading, LocationWhole
<1>2. QED
  BY <1>1, Invariance, PTL

(* A published image carries the file, and has room for it if the          *)
(* recording had.                                                          *)
LEMMA PublishedFile ==
  Inv /\ pc = "done" => /\ Carries(location, payload)
                        /\ Room(audio, payload) => Room(location, payload)
<1> SUFFICES ASSUME Inv, pc = "done"
             PROVE  /\ Carries(location, payload)
                    /\ Room(audio, payload) => Room(location, payload)
  OBVIOUS
<1>1. Types /\ Reading /\ Image /\ Published
  BY DEF Inv
<1>2. location = out /\ Len(out) = Len(audio) /\ Len(out) \in Nat
  BY <1>1, Inputs DEF Published, Reading
<1>3. \A j \in 1 .. Len(out) : Encodable(audio[j]) <=> Encodable(out[j])
  <2>1. TAKE j \in 1 .. Len(out)
  <2>2. out[j] \in Sample /\ UpperBits(out[j]) = UpperBits(audio[j])
    BY <1>1 DEF Image, Faithful
  <2>3. audio[j] \in Sample
    BY <1>1, <1>2, Inputs
  <2>4. QED
    BY <2>2, <2>3, EncodableInvariant
<1>4. ASSUME NEW n \in 0 .. Len(out)
      PROVE  Carriers(audio, n) = Carriers(out, n)
  <2>1. n \in Nat /\ n <= Len(out)
    BY <1>2
  <2>2. \A j \in 1 .. n : Encodable(audio[j]) <=> Encodable(out[j])
    BY <1>2, <1>3, <2>1
  <2>3. QED
    BY <2>1, <2>2, CarriersSame
<1>5. ASSUME NEW j \in 1 .. Len(out), Encodable(out[j]),
             Carriers(out, j - 1) < StreamBits(payload)
      PROVE  LowBit(out[j]) = StreamBit(payload, Carriers(out, j - 1))
  <2>1. Faithful(audio, payload, j, out[j])
    BY <1>1 DEF Image
  <2>2. j - 1 \in 0 .. Len(out)
    BY <1>2
  <2>3. Carriers(audio, j - 1) = Carriers(out, j - 1)
    BY <1>4, <2>2
  <2>4. Encodable(audio[j])
    BY <1>3, <1>5
  <2>5. QED
    BY <2>1, <2>3, <2>4, <1>5 DEF Faithful
<1>6. Carries(out, payload)
  BY <1>5 DEF Carries
<1>7. Carriers(audio, Len(audio)) = Carriers(out, Len(out))
  BY <1>2, <1>4
<1>8. QED
  BY <1>2, <1>6, <1>7 DEF Room

(* What fsync publishes carries the file, and has room for it if the       *)
(* recording had: the condition under which Load gives the file back.      *)
(* Carriers are counted here in the image, as a reader counts them, and    *)
(* not in the recording, which is gone.                                    *)
THEOREM Publishing == Spec => []PublishedCarries
BY PublishedFile, Invariance, PTL DEF PublishedCarries

-----------------------------------------------------------------------------
(* The key of the audio file. It depends on where the header ends and on   *)
(* the upper bits behind it. Both are the same in two recordings that      *)
(* differ in low bits only, because Encodable does not look at the low bit *)
(* (EncodableInvariant); fsync's image is such a recording (Image).        *)

(* One recording is a cover for the other.                                 *)
Similar(a, b) ==
  /\ a \in Seq(Sample) /\ b \in Seq(Sample)
  /\ Len(a) = Len(b)
  /\ \A j \in 1 .. Len(a) : UpperBits(a[j]) = UpperBits(b[j])

(* Four bits to the right, the low bit is gone.                            *)
LEMMA ShiftedSame ==
  ASSUME NEW s \in Sample, NEW t \in Sample, UpperBits(s) = UpperBits(t)
  PROVE  Shifted(s) = Shifted(t)
<1>1. s \in Nat /\ t \in Nat
  BY SampleNat
<1>2. PICK q \in Nat : s = 2 * q + LowBit(s)
  BY <1>1, Parity
<1>3. PICK r \in Nat : t = 2 * r + LowBit(t)
  BY <1>1, Parity
<1>4. LowBit(s) \in 0 .. 1 /\ LowBit(t) \in 0 .. 1
  BY <1>1 DEF LowBit
<1>5. q = r
  BY <1>2, <1>3, <1>4, <1>1 DEF UpperBits
<1>6. ASSUME NEW x \in Nat, NEW b \in 0 .. 1
      PROVE  (2 * x + b) \div 16 = x \div 8
  OBVIOUS
<1>7. s \div 16 = q \div 8 /\ t \div 16 = r \div 8
  BY <1>2, <1>3, <1>4, <1>6
<1>8. QED
  BY <1>5, <1>7 DEF Shifted

(* Covers count the same carriers.                                         *)
LEMMA SimilarCarriers ==
  ASSUME NEW a, NEW b, Similar(a, b), NEW n \in 0 .. Len(a)
  PROVE  Carriers(a, n) = Carriers(b, n)
<1>1. Len(a) \in Nat /\ n \in Nat /\ n <= Len(a)
  BY DEF Similar
<1>2. ASSUME NEW j \in 1 .. n
      PROVE  Encodable(a[j]) <=> Encodable(b[j])
  <2>1. j \in 1 .. Len(a) /\ j \in 1 .. Len(b)
    BY <1>1 DEF Similar
  <2>2. a[j] \in Sample /\ b[j] \in Sample
    BY <2>1 DEF Similar
  <2>3. QED
    BY <2>1, <2>2, EncodableInvariant DEF Similar
<1>3. QED
  BY <1>1, <1>2, CarriersSame

(* The header ends at the same place in them.                              *)
LEMMA SimilarHeaderEnd ==
  ASSUME NEW a, NEW b, Similar(a, b)
  PROVE  /\ HeaderEnd(a) = HeaderEnd(b)
         /\ HeaderEnd(a) \in 0 .. Len(a)
<1> DEFINE Before(s) ==
      {n \in 1 .. Len(s) : Carriers(s, n - 1) < 8 * HeaderLen}
<1>1. Len(a) = Len(b) /\ Len(a) \in Nat
  BY DEF Similar
<1>2. ASSUME NEW n \in 1 .. Len(a)
      PROVE  Carriers(a, n - 1) = Carriers(b, n - 1)
  <2>1. n - 1 \in 0 .. Len(a)
    BY <1>1
  <2>2. QED
    BY <2>1, SimilarCarriers
<1>3. Before(a) = Before(b)
  BY <1>1, <1>2
<1>4. IsFiniteSet(1 .. Len(a)) /\ Cardinality(1 .. Len(a)) = Len(a)
  <2>1. PICK m \in Nat : m = Len(a)
    BY <1>1
  <2>2. /\ IsFiniteSet(1 .. m)
        /\ Cardinality(1 .. m) = IF 1 > m THEN 0 ELSE m - 1 + 1
    BY FS_Interval
  <2>3. (IF 1 > m THEN 0 ELSE m - 1 + 1) = m
    OBVIOUS
  <2>4. QED
    BY <2>1, <2>2, <2>3
<1>5. Before(a) \subseteq 1 .. Len(a)
  OBVIOUS
<1>6. /\ IsFiniteSet(Before(a))
      /\ Cardinality(Before(a)) <= Cardinality(1 .. Len(a))
  BY <1>4, <1>5, FS_Subset
<1>7. Cardinality(Before(a)) \in Nat
  BY <1>6, FS_CardinalityType
<1>8. HeaderEnd(a) = Cardinality(Before(a))
  BY DEF HeaderEnd
<1>9. HeaderEnd(b) = Cardinality(Before(b))
  BY DEF HeaderEnd
<1>10. Cardinality(Before(a)) = Cardinality(Before(b))
  BY <1>3
<1>11. Cardinality(Before(a)) \in 0 .. Len(a)
  BY <1>1, <1>4, <1>6, <1>7
<1>12. QED
  BY <1>8, <1>9, <1>10, <1>11

(* So they have the same key.                                              *)
LEMMA SimilarKeys ==
  ASSUME NEW a, NEW b, Similar(a, b), NEW stale
  PROVE  Sha256sum(a, stale) = Sha256sum(b, stale)
<1>1. /\ Len(a) = Len(b) /\ Len(a) \in Nat
      /\ HeaderEnd(a) = HeaderEnd(b) /\ HeaderEnd(a) \in 0 .. Len(a)
  BY SimilarHeaderEnd DEF Similar
<1>2. Carriers(a, HeaderEnd(a)) = Carriers(b, HeaderEnd(b))
  BY <1>1, SimilarCarriers
<1>3. ASSUME NEW k \in 1 .. KeyLen, HeaderEnd(a) + k <= Len(a)
      PROVE  Shifted(a[HeaderEnd(a) + k]) = Shifted(b[HeaderEnd(b) + k])
  <2>1. HeaderEnd(a) + k \in 1 .. Len(a)
    BY <1>1, <1>3
  <2>2. PICK j \in 1 .. Len(a) : j = HeaderEnd(a) + k
    BY <2>1
  <2>3. a[j] \in Sample /\ b[j] \in Sample /\ UpperBits(a[j]) = UpperBits(b[j])
    BY <1>1 DEF Similar
  <2>4. Shifted(a[j]) = Shifted(b[j])
    BY <2>3, ShiftedSame
  <2>5. QED
    BY <1>1, <2>2, <2>4
<1>4. KeyWords(a, stale) = KeyWords(b, stale)
  BY <1>1, <1>3 DEF KeyWords
<1>5. QED
  BY <1>1, <1>2, <1>4 DEF Sha256sum

-----------------------------------------------------------------------------
(* A file written to any point, or not at all, is found under its old key  *)
(* by the start that follows.                                              *)
THEOREM KeyStable == Spec => []KeyKept
<1>1. Inv => KeyKept
  <2> SUFFICES ASSUME Inv
               PROVE  KeyKept
    OBVIOUS
  <2>1. Types /\ Reading /\ Image /\ Published
    BY DEF Inv
  <2>2. CASE location = audio
    BY <2>2 DEF KeyKept
  <2>3. CASE location # audio
    <3>1. location = out /\ Len(out) = Len(audio) /\ out \in Seq(Sample)
      BY <2>1, <2>3, Inputs DEF Published, Reading, Types
    <3>2. audio \in Seq(Sample)
      BY <2>1, Inputs
    <3>3. \A j \in 1 .. Len(out) : UpperBits(out[j]) = UpperBits(audio[j])
      BY <2>1 DEF Image, Faithful
    <3>4. Similar(location, audio)
      BY <3>1, <3>2, <3>3 DEF Similar
    <3>5. QED
      BY <3>4, SimilarKeys DEF KeyKept
  <2>4. QED
    BY <2>2, <2>3
<1>2. QED
  BY <1>1, Invariance, PTL
=============================================================================
