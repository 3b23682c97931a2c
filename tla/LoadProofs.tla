----------------------------- MODULE LoadProofs -----------------------------
(***************************************************************************)
(* For every audio file, whatever it carries, every header and chunk size  *)
(* and whatever a new object's memory held: decode_bits' pointers stay in  *)
(* their buffers, after every call the object holds the bits of the loud   *)
(* samples read so far and no others (BitsInOrder), an object made from    *)
(* the image of a file is that file as far as the audio goes, and zeros    *)
(* behind (LoadsTheFile), and a whole file is refused only where the audio *)
(* ends inside a byte of its padding (RefusesOnlyCut).                     *)
(*                                                                         *)
(* The invariant Inv says where the code is: which samples have been taken *)
(* (Reading), how much of the call's quota is left (Quota), which call it  *)
(* is (Calls), that a bit has been decoded for every carrier taken         *)
(* (Counting), that the byte under decode_ptr is still zero at and behind  *)
(* bit_index, so that or-ing a bit in sets it (Clean), and, for every bit  *)
(* decoded, which sample it came from (Bits). That last part is what makes *)
(* LoadsTheFile provable: a sample for every bit of the stream is found by *)
(* the steps of the program, not by an induction over the recording.       *)
(* Behind and Refused, kept apart since the composition does not need      *)
(* them, say where no bit has been set yet and why the constructor throws. *)
(***************************************************************************)
EXTENDS Load, LowBitsProofs, SequenceTheorems

(* Samples taken by the inner loop, of those read.                         *)
Taken == IF pc = "for" THEN pos - Len(pcm) + (i - 1) ELSE pos

(* Bytes of the hidden stream before the running call's buffer.            *)
Origin == IF buf = "pfi" THEN 0 ELSE HeaderLen + base

(* The object as a hidden file, as BitsInOrder takes it.                   *)
FileOf(h, d) == [pfi |-> h, data |-> d, size |-> DataLen]

(* Byte m of the hidden stream, as an object of header h and data d holds  *)
(* it.                                                                     *)
ByteIn(h, d, m) == IF m < HeaderLen THEN h[m] ELSE d[m - HeaderLen]

(* Each of the first n bits of file o is the low bit of the carrier that   *)
(* has it, one of the first t samples.                                     *)
Held(img, t, o, n) ==
  \A c \in 0 .. n - 1 :
    \E j \in 1 .. t :
      /\ Encodable(img[j]) /\ Carriers(img, j - 1) = c
      /\ StreamBit(o, c) = LowBit(img[j])

Reading ==
  /\ pc = "for" => /\ i \in 1 .. Len(pcm) /\ Len(pcm) <= pos
                   /\ \A k \in 1 .. Len(pcm) :
                        pcm[k] = image[pos - Len(pcm) + k]
  /\ eof => pos = Len(image)

Quota ==
  /\ bits_read = 8 * ptr + bit_index
  /\ pc = "for" => Len(pcm) - (i - 1) <= 8 * maxbytes - bits_read
  /\ pc = "break" => eof
  /\ pc \in {"check", "test", "chunk", "done"} =>
       /\ bits_read % 8 = 0
       /\ ~eof => bits_read = 8 * maxbytes

Calls ==
  /\ buf = "pfi" => /\ maxbytes = HeaderLen /\ base = 0 /\ total = 0
                    /\ pc # "chunk"
  /\ buf = "data" =>
       /\ maxbytes = Chunk /\ base + Chunk <= DataLen
       /\ \E k \in 0 .. BufChunks : base = Chunk * k
       /\ pc # "check"
       /\ pc \in {"loop", "for", "break", "chunk"} => total = base
       /\ pc \in {"test", "done"} => 8 * total = 8 * base + bits_read
  /\ pc = "done" => ~MoreToRead

Counting == Carriers(image, Taken) = Decoded

Clean ==
  pc \in {"loop", "for"} =>
    \A b \in 0 .. 7 : b >= bit_index => ByteIn(pfi, data, Origin + ptr)[b] = 0

Bits == Held(image, Taken, FileOf(pfi, data), Decoded)

Inv == TypeOK /\ Reading /\ Quota /\ Calls /\ Counting /\ Clean /\ Bits

-----------------------------------------------------------------------------
(* The sizes: the header and a chunk are not empty, the data buffer holds  *)
(* whole chunks.                                                           *)
LEMMA Sizes ==
  /\ HeaderLen \in Nat \ {0} /\ Chunk \in Nat \ {0} /\ HeaderLen < Chunk
  /\ BufChunks \in Nat \ {0} /\ DataLen \in Nat
BY SizesAssumption, LoadAssumption DEF DataLen

(* A chunk that starts inside the data buffer fits it.                     *)
LEMMA ChunkFits ==
  ASSUME NEW k \in 0 .. BufChunks, Chunk * k < DataLen
  PROVE  k + 1 \in 0 .. BufChunks /\ Chunk * (k + 1) = Chunk * k + Chunk
         /\ Chunk * k + Chunk <= DataLen
<1>1. Chunk \in Nat /\ BufChunks \in Nat /\ k \in Nat
  BY Sizes
<1>2. k # BufChunks
  BY <1>1 DEF DataLen
<1>3. k + 1 \in 0 .. BufChunks
  BY <1>1, <1>2
<1>4. Chunk * (k + 1) = Chunk * k + Chunk
  BY <1>1
<1>5. Chunk * (k + 1) <= Chunk * BufChunks
  BY <1>1, <1>3, ProductMono
<1>6. QED
  BY <1>3, <1>4, <1>5 DEF DataLen

(* A byte of no bits.                                                      *)
LEMMA ZeroByteType == ZeroByte \in Byte /\ \A b \in 0 .. 7 : ZeroByte[b] = 0
BY DEF ZeroByte, Byte, Bit

(* What TypeOK says of the recording, the samples read and the header.     *)
LEMMA Inputs ==
  ASSUME TypeOK
  PROVE  /\ Len(image) \in Nat /\ Len(pcm) \in Nat
         /\ \A j \in 1 .. Len(image) : image[j] \in Sample
         /\ SizeOf(pfi) \in Nat /\ SizeOf(pfi) <= DataLen
         /\ IsMagic(pfi) \in BOOLEAN
<1>1. image \in Seq(Sample) /\ pcm \in Seq(Sample) /\ pfi \in Header
  BY DEF TypeOK
<1>2. \A j \in 1 .. Len(image) : image[j] \in Sample
  BY <1>1, ElementOfSeq
<1>3. Len(image) \in Nat /\ Len(pcm) \in Nat
  BY <1>1, LenProperties
<1>4. SizeOf(pfi) \in 0 .. DataLen /\ IsMagic(pfi) \in BOOLEAN
  BY <1>1, LoadAssumption
<1>5. QED
  BY <1>2, <1>3, <1>4, Sizes

(* What TypeOK says of the counters.                                       *)
LEMMA Counters ==
  ASSUME TypeOK
  PROVE  /\ maxbytes \in Nat \ {0} /\ maxbytes <= Chunk
         /\ pos \in Nat /\ pos <= Len(image) /\ i \in Nat
         /\ base \in Nat /\ base <= DataLen /\ total \in Nat
         /\ bits_read \in Nat /\ bits_read <= 8 * maxbytes
         /\ ptr \in Nat /\ ptr < maxbytes
         /\ bit_index \in Nat /\ bit_index <= 8
<1>1. /\ maxbytes \in {HeaderLen, Chunk} /\ bits_read \in 0 .. 8 * maxbytes
      /\ pos \in 0 .. Len(image) /\ base \in 0 .. DataLen
      /\ total \in 0 .. DataLen /\ ptr \in 0 .. maxbytes - 1
      /\ bit_index \in 0 .. 8 /\ i \in Nat
  BY DEF TypeOK
<1>2. maxbytes \in Nat \ {0} /\ maxbytes <= Chunk
  BY <1>1, Sizes
<1>3. QED
  BY <1>1, <1>2, Inputs, Sizes

(* Decoded bits are counted from the start of the stream; the running      *)
(* call's buffer, and all that is decoded, is inside the object.           *)
LEMMA DecodedBits ==
  ASSUME TypeOK, Calls
  PROVE  /\ Origin \in Nat /\ bits_read \in Nat /\ Decoded \in Nat
         /\ Decoded = 8 * Origin + bits_read
         /\ Origin + maxbytes <= HeaderLen + DataLen
         /\ Decoded <= 8 * (HeaderLen + DataLen)
<1>1. /\ base \in Nat /\ bits_read \in Nat /\ bits_read <= 8 * maxbytes
      /\ maxbytes \in Nat
  BY Counters
<1>2. CASE buf = "pfi"
  BY <1>1, <1>2, Sizes DEF Origin, Decoded, Calls
<1>3. CASE buf = "data"
  BY <1>1, <1>3, Sizes DEF Origin, Decoded, Calls
<1>4. QED
  BY <1>2, <1>3 DEF TypeOK

(* A bit of an object's stream, as a bit of its byte.                      *)
LEMMA BitOfByte ==
  ASSUME NEW h, NEW d, NEW m \in Nat, NEW k \in 0 .. 7
  PROVE  StreamBit(FileOf(h, d), 8 * m + k) = ByteIn(h, d, m)[k]
<1>1. (8 * m + k) \div 8 = m /\ (8 * m + k) % 8 = k
  BY BytePosition
<1>2. FileOf(h, d).pfi = h /\ FileOf(h, d).data = d
  BY DEF FileOf
<1>3. QED
  BY <1>1, <1>2 DEF StreamBit, ByteIn

(* Every position of the stream is a bit of a byte.                        *)
LEMMA ByteAndBit ==
  ASSUME NEW c \in Nat
  PROVE  \E m \in Nat, k \in 0 .. 7 : c = 8 * m + k
<1>1. c = 8 * (c \div 8) + (c % 8) /\ c \div 8 \in Nat /\ c % 8 \in 0 .. 7
  OBVIOUS
<1>2. QED
  BY <1>1

(* Of the object's bytes, at most byte m0 has changed, and is new now.     *)
Rewritten(h, d, h2, d2, m0, new) ==
  \A m \in 0 .. HeaderLen + DataLen - 1 :
    ByteIn(h2, d2, m) = IF m = m0 THEN new ELSE ByteIn(h, d, m)

(* In byte m0 of the stream, new and old have the same bits before the     *)
(* stream's position n.                                                    *)
SameBefore(new, old, m0, n) ==
  \A k \in 0 .. 7 : 8 * m0 + k < n => new[k] = old[k]

(* Writing one byte leaves every bit before position n alone that it does  *)
(* not change in that byte.                                                *)
LEMMA WriteByte ==
  ASSUME NEW h, NEW d, NEW h2, NEW d2, NEW m0 \in Nat, NEW new, NEW n \in Nat,
         n <= 8 * (HeaderLen + DataLen),
         Rewritten(h, d, h2, d2, m0, new),
         SameBefore(new, ByteIn(h, d, m0), m0, n)
  PROVE  \A c \in 0 .. n - 1 :
           StreamBit(FileOf(h2, d2), c) = StreamBit(FileOf(h, d), c)
<1> TAKE c \in 0 .. n - 1
<1>1. c \in Nat /\ c < n
  OBVIOUS
<1>2. PICK m \in Nat, k \in 0 .. 7 : c = 8 * m + k
  BY <1>1, ByteAndBit
<1>3. m \in 0 .. HeaderLen + DataLen - 1
  BY <1>1, <1>2, Sizes
<1>4. ByteIn(h2, d2, m)[k] = ByteIn(h, d, m)[k]
  <2>1. ByteIn(h2, d2, m) = IF m = m0 THEN new ELSE ByteIn(h, d, m)
    BY <1>3 DEF Rewritten
  <2>2. m = m0 => new[k] = ByteIn(h, d, m0)[k]
    BY <1>1, <1>2 DEF SameBefore
  <2>3. QED
    BY <2>1, <2>2
<1>5. QED
  BY <1>2, <1>4, BitOfByte

(* What is held stays held: more samples, the same first bits.             *)
LEMMA HeldKept ==
  ASSUME NEW img, NEW t \in Nat, NEW t2 \in Nat, NEW o, NEW o2, NEW n \in Nat,
         Held(img, t, o, n), t <= t2,
         \A c \in 0 .. n - 1 : StreamBit(o2, c) = StreamBit(o, c)
  PROVE  Held(img, t2, o2, n)
<1> SUFFICES ASSUME NEW c \in 0 .. n - 1
             PROVE  \E j \in 1 .. t2 :
                      /\ Encodable(img[j]) /\ Carriers(img, j - 1) = c
                      /\ StreamBit(o2, c) = LowBit(img[j])
  BY DEF Held
<1>1. PICK j \in 1 .. t : /\ Encodable(img[j]) /\ Carriers(img, j - 1) = c
                          /\ StreamBit(o, c) = LowBit(img[j])
  BY DEF Held
<1>2. j \in 1 .. t2
  OBVIOUS
<1>3. QED
  BY <1>1, <1>2

(* One more loud sample, one more bit.                                     *)
LEMMA HeldNext ==
  ASSUME NEW img, NEW t \in Nat, NEW o, NEW n \in Nat,
         Held(img, t, o, n), Encodable(img[t + 1]), Carriers(img, t) = n,
         StreamBit(o, n) = LowBit(img[t + 1])
  PROVE  Held(img, t + 1, o, n + 1)
<1> SUFFICES ASSUME NEW c \in 0 .. n
             PROVE  \E j \in 1 .. t + 1 :
                      /\ Encodable(img[j]) /\ Carriers(img, j - 1) = c
                      /\ StreamBit(o, c) = LowBit(img[j])
  BY DEF Held
<1>1. CASE c = n
  <2>1. t + 1 \in 1 .. t + 1 /\ (t + 1) - 1 = t
    OBVIOUS
  <2>2. QED
    BY <1>1, <2>1
<1>2. CASE c # n
  <2>1. c \in 0 .. n - 1
    BY <1>2
  <2>2. PICK j \in 1 .. t : /\ Encodable(img[j]) /\ Carriers(img, j - 1) = c
                            /\ StreamBit(o, c) = LowBit(img[j])
    BY <2>1 DEF Held
  <2>3. j \in 1 .. t + 1
    OBVIOUS
  <2>4. QED
    BY <2>2, <2>3
<1>3. QED
  BY <1>1, <1>2

-----------------------------------------------------------------------------
(* Initially nothing is read; decode_bits has zeroed the header's first    *)
(* byte, whatever the memory held.                                         *)
LEMMA InitInv == Init => Inv
<1> SUFFICES ASSUME Init
             PROVE  Inv
  OBVIOUS
<1>1. PICK g \in Garbage : pfi = [g EXCEPT ![0] = ZeroByte]
  BY DEF Init
<1>2. pfi \in Header /\ pfi[0] = ZeroByte
  <2>1. g \in [0 .. HeaderLen - 1 -> Byte] /\ 0 \in 0 .. HeaderLen - 1
    BY LoadAssumption, Sizes DEF Header
  <2>2. QED
    BY <2>1, <1>1, ZeroByteType DEF Header
<1>3. data \in Buffer
  BY ZeroByteType DEF Init, Buffer
<1>4. /\ image \in Images /\ pos = 0 /\ eof = FALSE /\ pc = "loop"
      /\ buf = "pfi" /\ base = 0 /\ maxbytes = HeaderLen /\ bits_read = 0
      /\ ptr = 0 /\ bit_index = 0 /\ pcm = <<>> /\ i = 1 /\ total = 0
      /\ thrown = ""
  BY DEF Init
<1>5. image \in Seq(Sample) /\ Len(image) \in Nat
  BY <1>4, LoadAssumption, LenProperties
<1>6. TypeOK
  <2>1. pcm \in Seq(Sample)
    BY <1>4, EmptySeq
  <2>2. /\ pos \in 0 .. Len(image) /\ base \in 0 .. DataLen
        /\ maxbytes \in {HeaderLen, Chunk}
        /\ ptr \in 0 .. maxbytes - 1 /\ bit_index \in 0 .. 8
        /\ i \in Nat \ {0} /\ total \in 0 .. DataLen
    <3>1. 0 \in 0 .. HeaderLen - 1 /\ 0 \in 0 .. DataLen
          /\ 0 \in 0 .. Len(image) /\ 0 \in 0 .. 8 /\ 1 \in Nat \ {0}
      BY <1>5, Sizes
    <3>2. QED
      BY <3>1, <1>4
  <2>5. bits_read \in 0 .. 8 * maxbytes
    <3>1. 0 \in 0 .. 8 * HeaderLen
      BY Sizes
    <3>2. QED
      BY <3>1, <1>4
  <2>3. /\ eof \in BOOLEAN /\ buf \in {"pfi", "data"}
        /\ pc \in {"loop", "for", "break", "check", "test", "chunk", "thrown",
                   "done"}
        /\ thrown \in {"", "Non-byte-aligned read", "Not an SFSFSSFSF",
                       "Pipe error on read"}
    BY <1>4
  <2>4. QED
    BY <1>2, <1>3, <1>5, <2>1, <2>2, <2>3, <2>5 DEF TypeOK
<1>7. Reading /\ Quota /\ Calls
  <2>1. Reading
    BY <1>4 DEF Reading
  <2>2. Quota
    <3>1. bits_read = 0 /\ ptr = 0 /\ bit_index = 0 /\ pc = "loop"
      BY <1>4
    <3>2. bits_read = 8 * ptr + bit_index
      BY <3>1
    <3>3. QED
      BY <3>1, <3>2 DEF Quota
  <2>3. Calls
    BY <1>4 DEF Calls
  <2>4. QED
    BY <2>1, <2>2, <2>3
<1>8. Taken = 0 /\ Decoded = 0
  BY <1>4 DEF Taken, Decoded
<1>9. Counting
  BY <1>8, CarriersZero DEF Counting
<1>10. Clean
  <2>1. ByteIn(pfi, data, Origin + ptr) = ZeroByte
    <3>1. Origin + ptr = 0 /\ 0 < HeaderLen
      <4>1. Origin = 0 /\ ptr = 0
        BY <1>4 DEF Origin
      <4>2. QED
        BY <4>1, Sizes
    <3>2. QED
      BY <3>1, <1>2 DEF ByteIn
  <2>2. QED
    BY <2>1, ZeroByteType DEF Clean
<1>11. Bits
  BY <1>8 DEF Bits, Held
<1>12. QED
  BY <1>6, <1>7, <1>9, <1>10, <1>11 DEF Inv

-----------------------------------------------------------------------------
(* decode_bits                                                             *)

(* fread hands over the next samples, no more than bits are wanted; when   *)
(* it hands over fewer the audio has ended.                                *)
LEMMA FReadInv == Inv /\ FRead => Inv'
<1> SUFFICES ASSUME Inv, FRead
             PROVE  Inv'
  OBVIOUS
<1> DEFINE want == 8 * maxbytes - bits_read
           left == Len(image) - pos
           got  == IF want <= left THEN want ELSE left
<1>0. TypeOK /\ Reading /\ Quota /\ Calls /\ Counting /\ Clean /\ Bits
  BY DEF Inv
<1>1. /\ pc = "loop" /\ bits_read < 8 * maxbytes
      /\ pcm' = SubSeq(image, pos + 1, pos + got)
      /\ pos' = pos + got /\ eof' = (got < want)
      /\ pc' = (IF got = 0 THEN "break" ELSE "for") /\ i' = 1
      /\ image' = image /\ buf' = buf /\ base' = base
      /\ maxbytes' = maxbytes /\ bits_read' = bits_read /\ ptr' = ptr
      /\ bit_index' = bit_index /\ pfi' = pfi /\ data' = data
      /\ total' = total /\ thrown' = thrown
  BY DEF FRead, NumToRead, AfterRead, call, object
<1>2. /\ want \in Nat \ {0} /\ left \in Nat /\ got \in Nat
      /\ got <= want /\ got <= left /\ pos \in Nat
      /\ pos + got \in Nat /\ pos + got <= Len(image) /\ Len(image) \in Nat
      /\ (got < want => pos + got = Len(image))
  <2>1. /\ pos \in Nat /\ pos <= Len(image) /\ Len(image) \in Nat
        /\ bits_read \in Nat /\ maxbytes \in Nat
    BY <1>0, Inputs, Counters
  <2>2. bits_read < 8 * maxbytes
    BY <1>1
  <2>3. want \in Nat \ {0} /\ left \in Nat
    BY <2>1, <2>2
  <2>4. pos + left = Len(image)
    BY <2>1
  <2> HIDE DEF want, left
  <2>5. QED
    BY <2>1, <2>3, <2>4
<1>3. /\ pcm' \in Seq(Sample) /\ Len(pcm') = got
      /\ \A k \in 1 .. got : pcm'[k] = image[pos + k]
  <2>1. \A j \in pos + 1 .. pos + got : image[j] \in Sample
    BY <1>0, <1>2, Inputs
  <2>2. pos + 1 \in Int /\ pos + got \in Int
    BY <1>2
  <2> HIDE DEF got
  <2>3. /\ SubSeq(image, pos + 1, pos + got) \in Seq(Sample)
        /\ Len(SubSeq(image, pos + 1, pos + got)) =
             IF pos + 1 <= pos + got THEN (pos + got) - (pos + 1) + 1 ELSE 0
        /\ \A k \in 1 .. (pos + got) - (pos + 1) + 1 :
             SubSeq(image, pos + 1, pos + got)[k] = image[pos + 1 + k - 1]
    BY <2>1, <2>2, SubSeqProperties
  <2>4. /\ (pos + got) - (pos + 1) + 1 = got
        /\ pos + 1 <= pos + got <=> got # 0
        /\ \A k \in 1 .. got : pos + 1 + k - 1 = pos + k
    BY <1>2
  <2>5. QED
    BY <2>3, <2>4, <1>1
<1> HIDE DEF got, left
<1>4. TypeOK'
  <2>1. /\ pos' \in 0 .. Len(image') /\ i' \in Nat \ {0} /\ eof' \in BOOLEAN
        /\ pc' \in {"loop", "for", "break", "check", "test", "chunk",
                    "thrown", "done"}
    BY <1>1, <1>2
  <2> HIDE DEF want
  <2>2. QED
    BY <2>1, <1>0, <1>1, <1>3 DEF TypeOK
<1>5. Reading'
  <2>1. ASSUME pc' = "for"
        PROVE  /\ i' \in 1 .. Len(pcm') /\ Len(pcm') <= pos'
               /\ \A k \in 1 .. Len(pcm') :
                    pcm'[k] = image'[pos' - Len(pcm') + k]
    <3>1. got \in Nat \ {0}
      BY <2>1, <1>1, <1>2
    <3>2. i' \in 1 .. Len(pcm') /\ Len(pcm') <= pos'
      BY <3>1, <1>1, <1>2, <1>3
    <3>3. pos' - Len(pcm') = pos
      BY <1>1, <1>2, <1>3
    <3>4. QED
      BY <3>2, <3>3, <1>1, <1>3
  <2>2. eof' => pos' = Len(image')
    BY <1>1, <1>2
  <2>3. QED
    BY <2>1, <2>2 DEF Reading
<1>6. Quota'
  <2>1. bits_read' = 8 * ptr' + bit_index'
    BY <1>0, <1>1 DEF Quota
  <2>2. pc' = "for" => Len(pcm') - (i' - 1) <= 8 * maxbytes' - bits_read'
    BY <1>1, <1>2, <1>3
  <2>3. pc' = "break" => eof'
    <3>1. ~(got < want) => got # 0
      BY <1>2
    <3>2. QED
      BY <3>1, <1>1
  <2>4. QED
    BY <2>1, <2>2, <2>3, <1>1 DEF Quota
<1>7. Calls'
  BY <1>0, <1>1 DEF Calls
<1>8. Taken' = Taken /\ Decoded' = Decoded
  <2>1. Taken = pos
    BY <1>1 DEF Taken
  <2>2. Taken' = pos
    BY <1>1, <1>2, <1>3 DEF Taken
  <2>3. QED
    BY <2>1, <2>2, <1>1 DEF Decoded
<1>9. Counting' /\ Bits'
  BY <1>0, <1>1, <1>8 DEF Counting, Bits
<1>10. Clean'
  BY <1>0, <1>1 DEF Clean, Origin
<1>11. QED
  BY <1>4, <1>5, <1>6, <1>7, <1>9, <1>10 DEF Inv

(* decode_bits returns a whole number of bytes, the wanted ones unless the *)
(* audio has ended, or throws.                                             *)
LEMMA DecodeReturnInv == Inv /\ DecodeReturn => Inv'
<1> SUFFICES ASSUME Inv, DecodeReturn
             PROVE  Inv'
  OBVIOUS
<1>0. TypeOK /\ Reading /\ Quota /\ Calls /\ Counting /\ Clean /\ Bits
  BY DEF Inv
<1>1. /\ pc = "break" \/ (pc = "loop" /\ bits_read >= 8 * maxbytes)
      /\ pc' = (IF Aligned THEN IF buf = "pfi" THEN "check" ELSE "chunk"
                ELSE "thrown")
      /\ thrown' \in {thrown, "Non-byte-aligned read"}
      /\ image' = image /\ pos' = pos /\ eof' = eof /\ buf' = buf
      /\ base' = base /\ maxbytes' = maxbytes /\ bits_read' = bits_read
      /\ ptr' = ptr /\ bit_index' = bit_index /\ pcm' = pcm /\ i' = i
      /\ pfi' = pfi /\ data' = data /\ total' = total
  BY DEF DecodeReturn, call, object
<1>2. ~eof => bits_read = 8 * maxbytes
  <2>1. pc = "break" => eof
    BY <1>0 DEF Quota
  <2>2. bits_read >= 8 * maxbytes => bits_read = 8 * maxbytes
    <3>1. bits_read \in Nat /\ maxbytes \in Nat /\ bits_read <= 8 * maxbytes
      BY <1>0, Counters
    <3>2. QED
      BY <3>1
  <2>3. QED
    BY <2>1, <2>2, <1>1
<1>3. TypeOK'
  BY <1>0, <1>1 DEF TypeOK
<1>4. Reading' /\ Calls' /\ Clean'
  BY <1>0, <1>1 DEF Reading, Calls, Clean
<1>5. Quota'
  BY <1>0, <1>1, <1>2 DEF Quota, Aligned
<1>6. Taken' = Taken /\ Decoded' = Decoded
  BY <1>1 DEF Taken, Decoded
<1>7. Counting' /\ Bits'
  BY <1>0, <1>1, <1>6 DEF Counting, Bits
<1>8. QED
  BY <1>3, <1>4, <1>5, <1>7 DEF Inv

-----------------------------------------------------------------------------
(* The constructor                                                         *)

(* What is not a header is refused.                                        *)
LEMMA CheckMagicInv == Inv /\ CheckMagic => Inv'
<1> SUFFICES ASSUME Inv, CheckMagic
             PROVE  Inv'
  OBVIOUS
<1>0. TypeOK /\ Reading /\ Quota /\ Calls /\ Counting /\ Clean /\ Bits
  BY DEF Inv
<1>1. /\ pc = "check" /\ pc' \in {"test", "thrown"}
      /\ thrown' \in {thrown, "Not an SFSFSSFSF"}
      /\ image' = image /\ pos' = pos /\ eof' = eof /\ buf' = buf
      /\ base' = base /\ maxbytes' = maxbytes /\ bits_read' = bits_read
      /\ ptr' = ptr /\ bit_index' = bit_index /\ pcm' = pcm /\ i' = i
      /\ pfi' = pfi /\ data' = data /\ total' = total
  BY DEF CheckMagic, call, object
<1>2. TypeOK'
  BY <1>0, <1>1 DEF TypeOK
<1>3. Reading' /\ Quota' /\ Clean'
  BY <1>0, <1>1 DEF Reading, Quota, Clean
<1>4. Calls'
  <2>1. buf = "pfi"
    BY <1>0, <1>1 DEF Calls, TypeOK
  <2>2. QED
    BY <2>1, <1>0, <1>1 DEF Calls
<1>5. Taken' = Taken /\ Decoded' = Decoded
  BY <1>1 DEF Taken, Decoded
<1>6. Counting' /\ Bits'
  BY <1>0, <1>1, <1>5 DEF Counting, Bits
<1>7. QED
  BY <1>2, <1>3, <1>4, <1>6 DEF Inv

(* A call that read nothing throws; the bytes of another one are counted.  *)
LEMMA ChunkDoneInv == Inv /\ ChunkDone => Inv'
<1> SUFFICES ASSUME Inv, ChunkDone
             PROVE  Inv'
  OBVIOUS
<1>0. TypeOK /\ Reading /\ Quota /\ Calls /\ Counting /\ Clean /\ Bits
  BY DEF Inv
<1>1. /\ pc = "chunk"
      /\ \/ pc' = "thrown" /\ total' = total
         \/ pc' = "test" /\ total' = total + bits_read \div 8
      /\ thrown' \in {thrown, "Pipe error on read"}
      /\ image' = image /\ pos' = pos /\ eof' = eof /\ buf' = buf
      /\ base' = base /\ maxbytes' = maxbytes /\ bits_read' = bits_read
      /\ ptr' = ptr /\ bit_index' = bit_index /\ pcm' = pcm /\ i' = i
      /\ pfi' = pfi /\ data' = data
  BY DEF ChunkDone, call, object
<1>2. /\ buf = "data" /\ maxbytes = Chunk /\ total = base
      /\ base + Chunk <= DataLen
  BY <1>0, <1>1 DEF Calls, TypeOK
<1>3. 8 * (bits_read \div 8) = bits_read /\ bits_read \div 8 \in Nat
      /\ bits_read \div 8 <= Chunk
  <2>1. bits_read % 8 = 0
    BY <1>0, <1>1 DEF Quota
  <2>2. bits_read \in Nat /\ bits_read <= 8 * Chunk
    BY <1>0, <1>2, Counters
  <2>3. QED
    BY <2>1, <2>2, Sizes
<1> DEFINE bytes == bits_read \div 8
<1>12. base \in Nat /\ bits_read \in Nat
  BY <1>0, Counters
<1>13. base + bytes \in 0 .. DataLen /\ base \in 0 .. DataLen
       /\ 8 * (base + bytes) = 8 * base + bits_read
  <2>1. bytes \in Nat /\ bytes <= Chunk /\ 8 * bytes = bits_read
    BY <1>3
  <2> HIDE DEF bytes
  <2>2. QED
    BY <2>1, <1>2, <1>12, Sizes
<1> HIDE DEF bytes
<1>4. total' \in 0 .. DataLen
  BY <1>1, <1>2, <1>13 DEF bytes
<1>5. pc' = "test" => 8 * total' = 8 * base + bits_read
  BY <1>1, <1>2, <1>13 DEF bytes
<1>6. TypeOK'
  BY <1>0, <1>1, <1>4 DEF TypeOK
<1>7. Reading' /\ Quota' /\ Clean'
  BY <1>0, <1>1 DEF Reading, Quota, Clean
<1>8. Calls'
  BY <1>0, <1>1, <1>2, <1>5 DEF Calls
<1>9. Taken' = Taken /\ Decoded' = Decoded
  BY <1>1 DEF Taken, Decoded
<1>10. Counting' /\ Bits'
  BY <1>0, <1>1, <1>9 DEF Counting, Bits
<1>11. QED
  BY <1>6, <1>7, <1>8, <1>10 DEF Inv

(* Nothing moves when the loop is left.                                    *)
LEMMA LoadedInv == Inv /\ Loaded => Inv'
<1> SUFFICES ASSUME Inv, Loaded
             PROVE  Inv'
  OBVIOUS
<1>0. TypeOK /\ Reading /\ Quota /\ Calls /\ Counting /\ Clean /\ Bits
  BY DEF Inv
<1>1. /\ pc = "test" /\ pc' = "done" /\ ~MoreToRead /\ thrown' = thrown
      /\ image' = image /\ pos' = pos /\ eof' = eof /\ buf' = buf
      /\ base' = base /\ maxbytes' = maxbytes /\ bits_read' = bits_read
      /\ ptr' = ptr /\ bit_index' = bit_index /\ pcm' = pcm /\ i' = i
      /\ pfi' = pfi /\ data' = data /\ total' = total
  BY DEF Loaded, call, object
<1>2. TypeOK'
  BY <1>0, <1>1 DEF TypeOK
<1>3. Reading' /\ Quota' /\ Clean'
  BY <1>0, <1>1 DEF Reading, Quota, Clean
<1>4. Calls'
  <2>1. ~MoreToRead'
    BY <1>1 DEF MoreToRead
  <2>2. QED
    BY <2>1, <1>0, <1>1 DEF Calls
<1>5. Taken' = Taken /\ Decoded' = Decoded
  BY <1>1 DEF Taken, Decoded
<1>6. Counting' /\ Bits'
  BY <1>0, <1>1, <1>5 DEF Counting, Bits
<1>7. QED
  BY <1>2, <1>3, <1>4, <1>6 DEF Inv

(* Another call to decode_bits, on the chunk of data that is next: it      *)
(* starts inside the data buffer, where the decoded bits end.              *)
LEMMA NextChunk ==
  ASSUME Inv, pc = "test", MoreToRead
  PROVE  /\ \E k \in 0 .. BufChunks : total = Chunk * k
         /\ total \in Nat /\ total + Chunk <= DataLen
         /\ Decoded = 8 * (HeaderLen + total)
<1>1. TypeOK /\ Quota /\ Calls
  BY DEF Inv
<1>2. /\ total \in Nat /\ base \in Nat /\ bits_read \in Nat
      /\ bits_read = 8 * maxbytes
  BY <1>1, Counters DEF Quota, MoreToRead
<1>3. total < DataLen
  <2>1. total < SizeOf(pfi)
    BY DEF MoreToRead
  <2>2. SizeOf(pfi) \in Nat /\ SizeOf(pfi) <= DataLen /\ DataLen \in Nat
    BY <1>1, Inputs, Sizes
  <2>3. QED
    BY <2>1, <2>2, <1>2
<1>4. /\ \E k \in 0 .. BufChunks : total = Chunk * k
      /\ Decoded = 8 * (HeaderLen + total)
  <2>1. CASE buf = "pfi"
    <3>1. total = 0 /\ maxbytes = HeaderLen
      BY <2>1, <1>1 DEF Calls
    <3>2. 0 \in 0 .. BufChunks /\ 0 = Chunk * 0
      BY Sizes
    <3>3. Decoded = bits_read
      BY <2>1 DEF Decoded
    <3>4. 8 * HeaderLen = 8 * (HeaderLen + 0)
      BY Sizes
    <3>5. QED
      BY <3>1, <3>2, <3>3, <3>4, <1>2
  <2>2. CASE buf = "data"
    <3>1. PICK k \in 0 .. BufChunks : base = Chunk * k
      BY <2>2, <1>1 DEF Calls
    <3>2. /\ maxbytes = Chunk /\ base + Chunk <= DataLen
          /\ 8 * total = 8 * base + bits_read
      BY <2>2, <1>1 DEF Calls
    <3>3. total = base + Chunk
      <4>1. 8 * total = 8 * base + 8 * Chunk
        BY <3>2, <1>2
      <4>2. QED
        BY <4>1, <1>2, Sizes
    <3>4. k + 1 \in 0 .. BufChunks /\ Chunk * (k + 1) = Chunk * k + Chunk
      <4>1. base < DataLen
        BY <3>3, <1>2, <1>3, Sizes
      <4>2. QED
        BY <4>1, <3>1, ChunkFits
    <3>5. total = Chunk * (k + 1)
      BY <3>1, <3>3, <3>4
    <3>6. Decoded = 8 * (HeaderLen + base) + 8 * Chunk
      BY <2>2, <3>2, <1>2 DEF Decoded
    <3>7. 8 * (HeaderLen + base) + 8 * Chunk = 8 * (HeaderLen + (base + Chunk))
      BY <1>2, Sizes
    <3>8. QED
      BY <3>3, <3>4, <3>5, <3>6, <3>7
  <2>3. QED
    BY <2>1, <2>2, <1>1 DEF TypeOK
<1>5. total + Chunk <= DataLen
  <2>1. PICK k \in 0 .. BufChunks : total = Chunk * k
    BY <1>4
  <2>2. QED
    BY <2>1, <1>3, ChunkFits
<1>6. QED
  BY <1>2, <1>4, <1>5

(* The call's first byte is zeroed; it is behind all that is decoded.      *)
LEMMA CallChunkInv == Inv /\ CallChunk => Inv'
<1> SUFFICES ASSUME Inv, CallChunk
             PROVE  Inv'
  OBVIOUS
<1>0. TypeOK /\ Reading /\ Quota /\ Calls /\ Counting /\ Clean /\ Bits
  BY DEF Inv
<1>1. /\ pc = "test" /\ MoreToRead /\ pc' = "loop" /\ buf' = "data"
      /\ base' = total /\ maxbytes' = Chunk /\ bits_read' = 0 /\ ptr' = 0
      /\ bit_index' = 0 /\ data' = [data EXCEPT ![total] = ZeroByte]
      /\ image' = image /\ pos' = pos /\ eof' = eof /\ pcm' = pcm /\ i' = i
      /\ pfi' = pfi /\ total' = total /\ thrown' = thrown
  BY DEF CallChunk
<1>2. /\ \E k \in 0 .. BufChunks : total = Chunk * k
      /\ total \in Nat /\ total + Chunk <= DataLen
      /\ Decoded = 8 * (HeaderLen + total)
  BY <1>1, NextChunk
<1>3. /\ total \in 0 .. DataLen - 1 /\ HeaderLen + total \in Nat
      /\ HeaderLen + total \in 0 .. HeaderLen + DataLen - 1
  BY <1>2, Sizes
<1>4. data' \in Buffer
  BY <1>0, <1>1, <1>3, ZeroByteType DEF TypeOK, Buffer
<1>5. \A m \in 0 .. HeaderLen + DataLen - 1 :
        ByteIn(pfi', data', m) =
          IF m = HeaderLen + total THEN ZeroByte ELSE ByteIn(pfi, data, m)
  <2> TAKE m \in 0 .. HeaderLen + DataLen - 1
  <2>1. CASE m < HeaderLen
    <3>1. m # HeaderLen + total
      BY <2>1, <1>2, Sizes
    <3>2. QED
      BY <2>1, <3>1, <1>1 DEF ByteIn
  <2>2. CASE ~(m < HeaderLen)
    <3>1. m - HeaderLen \in 0 .. DataLen - 1
          /\ (m - HeaderLen = total <=> m = HeaderLen + total)
      BY <2>2, <1>2, Sizes
    <3>2. data \in [0 .. DataLen - 1 -> Byte]
      BY <1>0 DEF TypeOK, Buffer
    <3>3. data'[m - HeaderLen] =
            IF m - HeaderLen = total THEN ZeroByte ELSE data[m - HeaderLen]
      BY <3>1, <3>2, <1>1
    <3>4. QED
      BY <3>1, <3>3, <2>2 DEF ByteIn
  <2>3. QED
    BY <2>1, <2>2
<1>6. TypeOK'
  <2>1. /\ base' \in 0 .. DataLen /\ ptr' \in 0 .. maxbytes' - 1
        /\ bit_index' \in 0 .. 8 /\ maxbytes' \in {HeaderLen, Chunk}
    BY <1>1, <1>2, Sizes
  <2>2. bits_read' \in 0 .. 8 * maxbytes'
    <3>1. 0 \in 0 .. 8 * Chunk
      BY Sizes
    <3>2. QED
      BY <3>1, <1>1
  <2>3. QED
    BY <2>1, <2>2, <1>0, <1>1, <1>4 DEF TypeOK
<1>7. Reading'
  BY <1>0, <1>1 DEF Reading
<1>8. Quota'
  <2>1. 0 = 8 * 0 + 0
    OBVIOUS
  <2>2. QED
    BY <2>1, <1>1 DEF Quota
<1>9. Calls'
  BY <1>1, <1>2 DEF Calls
<1>10. Taken' = Taken /\ Decoded' = Decoded
  <2>1. Decoded' = 8 * (HeaderLen + total) + 0
    BY <1>1 DEF Decoded
  <2>2. 8 * (HeaderLen + total) + 0 = 8 * (HeaderLen + total)
    BY <1>2, Sizes
  <2>3. QED
    BY <2>1, <2>2, <1>1, <1>2 DEF Taken
<1>11. Counting'
  BY <1>0, <1>1, <1>10 DEF Counting
<1>12. Clean'
  <2>1. Origin' + ptr' = HeaderLen + total
    <3>1. Origin' = HeaderLen + total
      BY <1>1 DEF Origin
    <3>2. QED
      BY <3>1, <1>1, <1>3
  <2>2. ByteIn(pfi', data', Origin' + ptr') = ZeroByte
    BY <2>1, <1>3, <1>5
  <2>3. QED
    BY <2>2, ZeroByteType DEF Clean
<1>13. Bits'
  <2>1. Decoded \in Nat /\ Decoded <= 8 * (HeaderLen + DataLen)
    BY <1>0, DecodedBits
  <2>2. \A k \in 0 .. 7 : ~(8 * (HeaderLen + total) + k < Decoded)
    BY <1>2, <1>3
  <2>3. \A c \in 0 .. Decoded - 1 :
          StreamBit(FileOf(pfi', data'), c) = StreamBit(FileOf(pfi, data), c)
    <3>1. Rewritten(pfi, data, pfi', data', HeaderLen + total, ZeroByte)
      BY <1>5 DEF Rewritten
    <3>2. SameBefore(ZeroByte, ByteIn(pfi, data, HeaderLen + total),
                     HeaderLen + total, Decoded)
      BY <2>2 DEF SameBefore
    <3>3. QED
      BY <2>1, <3>1, <3>2, <1>3, WriteByte
  <2>4. Taken \in Nat
    BY <1>0, <1>1, Counters DEF Taken
  <2>5. Held(image, Taken, FileOf(pfi', data'), Decoded)
    BY <2>1, <2>3, <2>4, <1>0, HeldKept DEF Bits
  <2>6. QED
    BY <2>5, <1>1, <1>10 DEF Bits
<1>14. QED
  BY <1>6, <1>7, <1>8, <1>9, <1>11, <1>12, <1>13 DEF Inv

(* The sample the inner loop is at is the recording's next one, and the    *)
(* call wants at least one more bit.                                       *)
LEMMA CurrentSample ==
  ASSUME Inv, pc = "for"
  PROVE  /\ i \in 1 .. Len(pcm) /\ Len(pcm) \in Nat
         /\ Taken \in Nat /\ Taken + 1 = pos - Len(pcm) + i
         /\ pcm[i] = image[Taken + 1]
         /\ pcm[i] \in Sample /\ bits_read < 8 * maxbytes
<1>1. TypeOK /\ Reading /\ Quota
  BY DEF Inv
<1>2. /\ i \in 1 .. Len(pcm) /\ Len(pcm) <= pos
      /\ \A k \in 1 .. Len(pcm) : pcm[k] = image[pos - Len(pcm) + k]
      /\ Len(pcm) - (i - 1) <= 8 * maxbytes - bits_read
  BY <1>1 DEF Reading, Quota
<1>3. /\ Len(pcm) \in Nat /\ pos \in Nat /\ pos <= Len(image)
      /\ Len(image) \in Nat /\ maxbytes \in Nat /\ bits_read \in Nat
  BY <1>1, Inputs, Counters
<1>4. Taken = pos - Len(pcm) + (i - 1)
  BY DEF Taken
<1>5. /\ Taken \in Nat /\ Taken + 1 = pos - Len(pcm) + i
      /\ Taken + 1 \in 1 .. Len(image)
  BY <1>2, <1>3, <1>4
<1>6. pcm[i] = image[Taken + 1] /\ pcm[i] \in Sample
  BY <1>1, <1>2, <1>5, Inputs
<1>7. bits_read < 8 * maxbytes
  <2> DEFINE all == 8 * maxbytes
  <2>1. all \in Nat /\ Len(pcm) - (i - 1) <= all - bits_read
    BY <1>2, <1>3
  <2> HIDE DEF all
  <2>2. bits_read < all
    BY <2>1, <1>2, <1>3
  <2>3. QED
    BY <2>2 DEF all
<1>8. QED
  BY <1>2, <1>3, <1>5, <1>6, <1>7

(* Where decode_bits puts the bit, the byte and the bit in it, and what it *)
(* finds there.                                                            *)
At == IF NextByte THEN ptr + 1 ELSE ptr
BitAt == IF NextByte THEN 0 ELSE bit_index
OldByte == IF NextByte THEN ZeroByte ELSE ByteIn(pfi, data, Origin + ptr)

(* Where decode_bits puts the bit: decode_ptr has moved on if its byte was *)
(* full. The position counts the bits of the call; the byte, which is      *)
(* zeroed when the pointer comes to it, has no bit set from there on.      *)
LEMMA Cursor ==
  ASSUME Inv, pc = "for"
  PROVE  /\ At \in Nat /\ At < maxbytes /\ BitAt \in 0 .. 7
         /\ 8 * At + BitAt = bits_read
         /\ OldByte \in Byte
         /\ \A k \in 0 .. 7 : k >= BitAt => OldByte[k] = 0
         /\ \A k \in 0 .. 7 :
              k < BitAt => OldByte[k] = ByteIn(pfi, data, Origin + At)[k]
<1> DEFINE at == At
           b == BitAt
           old == OldByte
<1>1. TypeOK /\ Quota /\ Calls /\ Clean
  BY DEF Inv
<1>2. /\ ptr \in Nat /\ ptr < maxbytes /\ maxbytes \in Nat
      /\ bit_index \in Nat /\ bit_index <= 8
  BY <1>1, Counters
<1>3. 8 * ptr + bit_index = bits_read
  BY <1>1 DEF Quota
<1>4. bits_read < 8 * maxbytes
  BY CurrentSample
<1>5. CASE NextByte
  <2>1. bit_index = 8 /\ at = ptr + 1 /\ b = 0 /\ old = ZeroByte
    BY <1>2, <1>5 DEF NextByte, At, BitAt, OldByte
  <2>2. at \in Nat /\ at < maxbytes /\ 8 * at + b = bits_read
    BY <1>2, <1>3, <1>4, <2>1
  <2>3. /\ b \in 0 .. 7 /\ old \in Byte
        /\ \A k \in 0 .. 7 : old[k] = 0 /\ ~(k < b)
    BY <2>1, ZeroByteType
  <2>4. QED
    BY <2>2, <2>3
<1>6. CASE ~NextByte
  <2>1. /\ b = bit_index /\ at = ptr /\ b \in 0 .. 7
        /\ old = ByteIn(pfi, data, Origin + ptr)
    BY <1>2, <1>6 DEF NextByte, At, BitAt, OldByte
  <2>2. ByteIn(pfi, data, Origin + ptr) \in Byte
    <3>1. /\ pfi \in [0 .. HeaderLen - 1 -> Byte]
          /\ data \in [0 .. DataLen - 1 -> Byte]
      BY <1>1 DEF TypeOK, Header, Buffer
    <3>2. CASE buf = "pfi"
      <4>1. Origin + ptr = ptr /\ ptr < HeaderLen
        BY <3>2, <1>1, <1>2 DEF Origin, Calls
      <4>2. ptr \in 0 .. HeaderLen - 1
        BY <4>1, <1>2, Sizes
      <4>3. QED
        BY <3>1, <4>1, <4>2 DEF ByteIn
    <3>3. CASE buf = "data"
      <4>1. Origin = HeaderLen + base /\ maxbytes = Chunk
            /\ base + Chunk <= DataLen
        BY <3>3, <1>1 DEF Origin, Calls
      <4>2. base \in Nat
        BY <1>1, Counters
      <4>3. ~(Origin + ptr < HeaderLen)
            /\ (Origin + ptr) - HeaderLen \in 0 .. DataLen - 1
        BY <4>1, <4>2, <1>2, Sizes
      <4>4. QED
        BY <3>1, <4>3 DEF ByteIn
    <3>4. QED
      BY <3>2, <3>3, <1>1 DEF TypeOK
  <2>3. \A k \in 0 .. 7 : k >= b => old[k] = 0
    BY <2>1, <1>1 DEF Clean
  <2>4. QED
    BY <2>1, <2>2, <2>3, <1>2, <1>3
<1>7. QED
  BY <1>5, <1>6

(* Or-ing the bit of a loud sample into a byte that is clean from b on     *)
(* sets bit b to it, and nothing else.                                     *)
LEMMA OrBit ==
  ASSUME NEW old \in Byte, NEW b \in 0 .. 7, NEW s \in Sample,
         \A k \in 0 .. 7 : k >= b => old[k] = 0
  PROVE  /\ WithBit(old, b, s) \in Byte
         /\ Encodable(s) => WithBit(old, b, s)[b] = LowBit(s)
         /\ ~Encodable(s) => WithBit(old, b, s) = old
         /\ \A k \in 0 .. 7 : k # b => WithBit(old, b, s)[k] = old[k]
<1>1. s \in Nat
  BY SampleNat
<1>2. LowBit(s) \in {0, 1}
  BY <1>1, Parity DEF Bit
<1>3. old[b] = 0 /\ b \in 0 .. 7
  OBVIOUS
<1>4. CASE Encodable(s) /\ LowBit(s) = 1
  <2>1. WithBit(old, b, s) = [old EXCEPT ![b] = 1]
    BY <1>4 DEF WithBit
  <2>2. QED
    BY <2>1, <1>3, <1>4 DEF Byte, Bit
<1>5. CASE ~(Encodable(s) /\ LowBit(s) = 1)
  <2>1. WithBit(old, b, s) = old
    BY <1>5 DEF WithBit
  <2>2. QED
    BY <2>1, <1>2, <1>3, <1>5
<1>6. QED
  BY <1>4, <1>5

(* One turn of the inner loop: the count of carriers and the count of bits *)
(* advance together, and the bit is the sample's.                          *)
LEMMA TakeSampleInv == Inv /\ TakeSample => Inv'
<1> SUFFICES ASSUME Inv, TakeSample
             PROVE  Inv'
  OBVIOUS
<1> DEFINE at == At
           b == BitAt
           old == OldByte
           step == IF Encodable(pcm[i]) THEN 1 ELSE 0
           new == WithBit(old, b, pcm[i])
<1>0. TypeOK /\ Reading /\ Quota /\ Calls /\ Counting /\ Clean /\ Bits
  BY DEF Inv
<1>1. /\ pc = "for" /\ ptr' = at /\ bit_index' = b + step
      /\ bits_read' = bits_read + step /\ i' = i + 1
      /\ pc' = (IF i = Len(pcm) THEN "loop" ELSE "for")
      /\ image' = image /\ pos' = pos /\ eof' = eof /\ buf' = buf
      /\ base' = base /\ maxbytes' = maxbytes /\ pcm' = pcm
      /\ total' = total /\ thrown' = thrown
  BY DEF TakeSample, call, At, BitAt
<1>2. /\ at \in Nat /\ at < maxbytes /\ b \in 0 .. 7 /\ 8 * at + b = bits_read
      /\ old \in Byte
      /\ \A k \in 0 .. 7 : k >= b => old[k] = 0
      /\ \A k \in 0 .. 7 : k < b => old[k] = ByteIn(pfi, data, Origin + at)[k]
  BY <1>1, Cursor
<1>3. /\ i \in 1 .. Len(pcm) /\ Len(pcm) \in Nat
      /\ Taken \in Nat /\ Taken + 1 = pos - Len(pcm) + i
      /\ pcm[i] = image[Taken + 1]
      /\ pcm[i] \in Sample /\ bits_read < 8 * maxbytes
  BY <1>1, CurrentSample
<1>4. /\ new \in Byte
      /\ Encodable(pcm[i]) => new[b] = LowBit(pcm[i])
      /\ ~Encodable(pcm[i]) => new = old
      /\ \A k \in 0 .. 7 : k # b => new[k] = old[k]
  <2> HIDE DEF b, old
  <2>1. QED
    BY <1>2, <1>3, OrBit
<1>5. step \in {0, 1} /\ bits_read \in Nat /\ maxbytes \in Nat /\ base \in Nat
  BY <1>0, Counters
<1>6. /\ pfi \in [0 .. HeaderLen - 1 -> Byte]
      /\ data \in [0 .. DataLen - 1 -> Byte]
  BY <1>0 DEF TypeOK, Header, Buffer
<1>7. /\ pfi' \in Header /\ data' \in Buffer /\ Origin + at \in Nat
      /\ Origin + at \in 0 .. HeaderLen + DataLen - 1
      /\ \A m \in 0 .. HeaderLen + DataLen - 1 :
           ByteIn(pfi', data', m) =
             IF m = Origin + at THEN new ELSE ByteIn(pfi, data, m)
  <2>1. CASE buf = "pfi"
    <3>1. Origin = 0 /\ maxbytes = HeaderLen
      BY <2>1, <1>0 DEF Origin, Calls
    <3>2. at \in 0 .. HeaderLen - 1 /\ Origin + at = at
      BY <3>1, <1>2, Sizes
    <3>3. ByteIn(pfi, data, Origin + ptr) = pfi[at] \/ NextByte
      <4> SUFFICES ASSUME ~NextByte
                   PROVE  ByteIn(pfi, data, Origin + ptr) = pfi[at]
        OBVIOUS
      <4>1. at = ptr
        BY DEF At
      <4>2. Origin + ptr = at /\ at < HeaderLen
        BY <4>1, <3>1, <3>2, Sizes
      <4>3. QED
        BY <4>2 DEF ByteIn
    <3>4. pfi' = [pfi EXCEPT ![at] = new] /\ data' = data
      <4>1. /\ pfi' = [pfi EXCEPT ![at] =
                         WithBit(IF NextByte THEN ZeroByte ELSE pfi[at],
                                 b, pcm[i])]
            /\ data' = data
        BY <2>1 DEF TakeSample, At, BitAt
      <4>2. old = IF NextByte THEN ZeroByte ELSE pfi[at]
        BY <3>3 DEF OldByte
      <4>3. QED
        BY <4>1, <4>2
    <3> HIDE DEF at, b, old, new
    <3>5. pfi' \in Header /\ data' \in Buffer
      BY <3>2, <3>4, <1>4, <1>6 DEF Header, Buffer
    <3>6. \A m \in 0 .. HeaderLen + DataLen - 1 :
            ByteIn(pfi', data', m) =
              IF m = at THEN new ELSE ByteIn(pfi, data, m)
      <4> TAKE m \in 0 .. HeaderLen + DataLen - 1
      <4>1. CASE m < HeaderLen
        <5>1. m \in 0 .. HeaderLen - 1
          BY <4>1, Sizes
        <5>2. QED
          BY <4>1, <5>1, <3>4, <1>6 DEF ByteIn
      <4>2. CASE ~(m < HeaderLen)
        <5>1. m # at
          BY <4>2, <3>2, Sizes
        <5>2. QED
          BY <4>2, <5>1, <3>4 DEF ByteIn
      <4>3. QED
        BY <4>1, <4>2
    <3>7. at \in Nat /\ at \in 0 .. HeaderLen + DataLen - 1
      BY <3>2, Sizes
    <3>8. QED
      BY <3>2, <3>5, <3>6, <3>7
  <2>2. CASE buf = "data"
    <3> DEFINE slot == base + at
    <3>1. Origin = HeaderLen + base /\ maxbytes = Chunk
          /\ base + Chunk <= DataLen
      BY <2>2, <1>0 DEF Origin, Calls
    <3>2. /\ slot \in 0 .. DataLen - 1 /\ Origin + at = HeaderLen + slot
          /\ slot \in Nat
      BY <3>1, <1>2, <1>5, Sizes
    <3>3. ByteIn(pfi, data, Origin + ptr) = data[slot] \/ NextByte
      <4> SUFFICES ASSUME ~NextByte
                   PROVE  ByteIn(pfi, data, Origin + ptr) = data[slot]
        OBVIOUS
      <4>1. at = ptr
        BY DEF At
      <4>2. ~(Origin + ptr < HeaderLen) /\ (Origin + ptr) - HeaderLen = slot
        BY <4>1, <3>1, <3>2, <1>2, <1>5, Sizes
      <4>3. QED
        BY <4>2 DEF ByteIn
    <3>4. data' = [data EXCEPT ![slot] = new] /\ pfi' = pfi
      <4>1. /\ data' = [data EXCEPT ![slot] =
                          WithBit(IF NextByte THEN ZeroByte ELSE data[slot],
                                  b, pcm[i])]
            /\ pfi' = pfi
        BY <2>2 DEF TakeSample, At, BitAt
      <4>2. old = IF NextByte THEN ZeroByte ELSE data[slot]
        BY <3>3 DEF OldByte
      <4>3. QED
        BY <4>1, <4>2
    <3> HIDE DEF at, b, old, new, slot
    <3>5. pfi' \in Header /\ data' \in Buffer
      BY <3>2, <3>4, <1>4, <1>6 DEF Header, Buffer
    <3>6. \A m \in 0 .. HeaderLen + DataLen - 1 :
            ByteIn(pfi', data', m) =
              IF m = HeaderLen + slot THEN new ELSE ByteIn(pfi, data, m)
      <4> TAKE m \in 0 .. HeaderLen + DataLen - 1
      <4>1. CASE m < HeaderLen
        <5>1. m # HeaderLen + slot
          BY <4>1, <3>2, Sizes
        <5>2. QED
          BY <4>1, <5>1, <3>4 DEF ByteIn
      <4>2. CASE ~(m < HeaderLen)
        <5>1. m - HeaderLen \in 0 .. DataLen - 1
              /\ (m - HeaderLen = slot <=> m = HeaderLen + slot)
          BY <4>2, <3>2, Sizes
        <5>2. data'[m - HeaderLen] =
                IF m - HeaderLen = slot THEN new ELSE data[m - HeaderLen]
          BY <5>1, <3>4, <1>6
        <5>3. QED
          BY <4>2, <5>1, <5>2, <3>4 DEF ByteIn
      <4>3. QED
        BY <4>1, <4>2
    <3>7. HeaderLen + slot \in Nat
          /\ HeaderLen + slot \in 0 .. HeaderLen + DataLen - 1
      BY <3>2, Sizes
    <3>8. QED
      BY <3>2, <3>5, <3>6, <3>7
  <2>3. QED
    BY <2>1, <2>2, <1>0 DEF TypeOK
<1> HIDE DEF at, b, old, new
<1>8. Taken' = Taken + 1
  <2>1. CASE i = Len(pcm)
    <3>1. Taken' = pos
      BY <2>1, <1>1 DEF Taken
    <3>2. Taken + 1 = pos
      BY <2>1, <1>0, <1>3, Counters
    <3>3. QED
      BY <3>1, <3>2
  <2>2. CASE i # Len(pcm)
    <3>1. Taken' = pos - Len(pcm) + ((i + 1) - 1)
      BY <2>2, <1>1 DEF Taken
    <3>2. pos - Len(pcm) + ((i + 1) - 1) = Taken + 1
      BY <1>0, <1>3, Counters
    <3>3. QED
      BY <3>1, <3>2
  <2>3. QED
    BY <2>1, <2>2
<1>9. /\ Origin \in Nat /\ Decoded \in Nat /\ Decoded = 8 * Origin + bits_read
      /\ Decoded <= 8 * (HeaderLen + DataLen)
      /\ Decoded = 8 * (Origin + at) + b
  <2>1. /\ Origin \in Nat /\ Decoded \in Nat
        /\ Decoded = 8 * Origin + bits_read
        /\ Decoded <= 8 * (HeaderLen + DataLen)
    BY <1>0, DecodedBits
  <2>2. 8 * Origin + (8 * at + b) = 8 * (Origin + at) + b
    BY <2>1, <1>2
  <2>3. QED
    BY <2>1, <2>2, <1>2
<1>10. Decoded' = Decoded + step /\ Origin' = Origin
  <2>1. Origin' = Origin
    BY <1>1 DEF Origin
  <2>2. Decoded' = Decoded + step
    <3>1. CASE buf = "pfi"
      BY <3>1, <1>1 DEF Decoded
    <3>2. CASE buf # "pfi"
      <4>1. Decoded = 8 * (HeaderLen + base) + bits_read
        BY <3>2 DEF Decoded
      <4>2. Decoded' = 8 * (HeaderLen + base) + (bits_read + step)
        BY <3>2, <1>1 DEF Decoded
      <4>3. 8 * (HeaderLen + base) \in Int
        BY <1>5, Sizes
      <4> HIDE DEF step
      <4>4. QED
        BY <4>1, <4>2, <4>3, <1>5
    <3>3. QED
      BY <3>1, <3>2
  <2>3. QED
    BY <2>1, <2>2
<1>11. TypeOK'
  <2>1. /\ ptr' \in 0 .. maxbytes' - 1 /\ bit_index' \in 0 .. 8
        /\ i' \in Nat \ {0}
        /\ pc' \in {"loop", "for", "break", "check", "test", "chunk",
                    "thrown", "done"}
    <3>1. at \in 0 .. maxbytes - 1 /\ b + step \in 0 .. 8
          /\ i + 1 \in Nat \ {0}
      BY <1>2, <1>3, <1>5
    <3>2. QED
      BY <3>1, <1>1
  <2>2. bits_read' \in 0 .. 8 * maxbytes'
    <3>1. bits_read + step \in 0 .. 8 * maxbytes
      BY <1>3, <1>5
    <3>2. QED
      BY <3>1, <1>1
  <2>3. QED
    BY <2>1, <2>2, <1>0, <1>1, <1>7 DEF TypeOK
<1>12. Reading'
  <2>1. pc' = "for" => i' \in 1 .. Len(pcm')
    <3>1. i # Len(pcm) => i + 1 \in 1 .. Len(pcm)
      BY <1>3
    <3>2. QED
      BY <3>1, <1>1
  <2>2. QED
    BY <2>1, <1>0, <1>1 DEF Reading
<1>13. Quota'
  <2>1. bits_read' = 8 * ptr' + bit_index'
    <3>1. bits_read + step = 8 * at + (b + step)
      BY <1>2, <1>5
    <3>2. QED
      BY <3>1, <1>1
  <2>2. pc' = "for" => Len(pcm') - (i' - 1) <= 8 * maxbytes' - bits_read'
    <3> DEFINE all == 8 * maxbytes
    <3>1. Len(pcm) - (i - 1) <= all - bits_read
      BY <1>0, <1>1 DEF Quota
    <3>2. all \in Nat
      BY <1>5
    <3> HIDE DEF all, step
    <3>3. Len(pcm) - ((i + 1) - 1) <= all - (bits_read + step)
      BY <3>1, <3>2, <1>3, <1>5
    <3>4. QED
      BY <3>3, <1>1 DEF all
  <2>3. QED
    BY <2>1, <2>2, <1>1 DEF Quota
<1>14. Calls'
  <2>1. pc' \in {"loop", "for"} /\ ~(pc' = "done")
    BY <1>1
  <2>2. QED
    BY <2>1, <1>0, <1>1 DEF Calls
<1>15. Counting'
  <2>1. Carriers(image, Taken + 1) =
          Carriers(image, Taken) + (IF Encodable(pcm[i]) THEN 1 ELSE 0)
    BY <1>3, CarriersNext
  <2>2. QED
    BY <2>1, <1>0, <1>1, <1>8, <1>10 DEF Counting
<1>16. Clean'
  <2>1. ByteIn(pfi', data', Origin' + ptr') = new
    BY <1>1, <1>7, <1>10
  <2>2. ASSUME NEW k \in 0 .. 7, k >= b + step
        PROVE  new[k] = 0
    <3>1. CASE Encodable(pcm[i])
      <4>1. step = 1
        BY <3>1
      <4>2. k # b /\ k >= b
        BY <4>1, <2>2, <1>2
      <4>3. QED
        BY <4>2, <1>2, <1>4
    <3>2. CASE ~Encodable(pcm[i])
      <4>1. step = 0
        BY <3>2
      <4>2. k >= b
        BY <4>1, <2>2, <1>2
      <4>3. QED
        BY <4>2, <3>2, <1>2, <1>4
    <3>3. QED
      BY <3>1, <3>2
  <2>3. QED
    BY <2>1, <2>2, <1>1 DEF Clean
<1>17. Bits'
  <2> DEFINE o == FileOf(pfi', data')
  <2>1. ASSUME NEW k \in 0 .. 7, 8 * (Origin + at) + k < Decoded
        PROVE  new[k] = ByteIn(pfi, data, Origin + at)[k]
    <3>1. k < b
      BY <2>1, <1>2, <1>7, <1>9
    <3>2. k # b
      BY <3>1, <1>2
    <3>3. QED
      BY <3>1, <3>2, <1>2, <1>4
  <2>2. \A c \in 0 .. Decoded - 1 :
          StreamBit(FileOf(pfi', data'), c) = StreamBit(FileOf(pfi, data), c)
    <3>1. Rewritten(pfi, data, pfi', data', Origin + at, new)
      BY <1>7 DEF Rewritten
    <3>2. SameBefore(new, ByteIn(pfi, data, Origin + at), Origin + at,
                     Decoded)
      BY <2>1 DEF SameBefore
    <3>3. QED
      BY <3>1, <3>2, <1>7, <1>9, WriteByte
  <2> HIDE DEF o
  <2>3. \A c \in 0 .. Decoded - 1 :
          StreamBit(o, c) = StreamBit(FileOf(pfi, data), c)
    BY <2>2 DEF o
  <2>4. Taken <= Taken + 1 /\ Taken <= Taken /\ Taken + 1 \in Nat
    BY <1>3
  <2>5. CASE Encodable(pcm[i])
    <3>1. Held(image, Taken, o, Decoded)
      BY <2>3, <2>4, <1>0, <1>3, <1>9, HeldKept DEF Bits
    <3>2. StreamBit(o, Decoded) = LowBit(pcm[i])
      <4>1. StreamBit(o, 8 * (Origin + at) + b) =
              ByteIn(pfi', data', Origin + at)[b]
        BY <1>2, <1>7, BitOfByte DEF o
      <4>2. ByteIn(pfi', data', Origin + at)[b] = new[b]
        BY <1>7
      <4>3. QED
        BY <4>1, <4>2, <1>4, <1>9, <2>5
    <3>3. Carriers(image, Taken) = Decoded
      BY <1>0 DEF Counting
    <3>4. Held(image, Taken + 1, o, Decoded + 1)
      BY <3>1, <3>2, <3>3, <2>5, <1>3, <1>9, HeldNext
    <3>5. step = 1
      BY <2>5
    <3>6. QED
      BY <3>4, <3>5, <1>1, <1>8, <1>10 DEF Bits, o
  <2>6. CASE ~Encodable(pcm[i])
    <3>1. Held(image, Taken + 1, o, Decoded)
      BY <2>3, <2>4, <1>0, <1>3, <1>9, HeldKept DEF Bits
    <3>2. step = 0 /\ Decoded + 0 = Decoded
      BY <2>6, <1>9
    <3>3. QED
      BY <3>1, <3>2, <1>1, <1>8, <1>10 DEF Bits, o
  <2>7. QED
    BY <2>5, <2>6
<1>18. QED
  BY <1>11, <1>12, <1>13, <1>14, <1>15, <1>16, <1>17 DEF Inv

-----------------------------------------------------------------------------
(* No step of the constructor leaves Inv.                                  *)
LEMMA NextInv == Inv /\ Next => Inv'
BY FReadInv, TakeSampleInv, DecodeReturnInv, CheckMagicInv, CallChunkInv,
   ChunkDoneInv, LoadedInv DEF Next

(* Nor does a step that changes nothing.                                   *)
LEMMA IdleInv == Inv /\ UNCHANGED vars => Inv'
<1> SUFFICES ASSUME Inv, UNCHANGED vars
             PROVE  Inv'
  OBVIOUS
<1>1. /\ image' = image /\ pos' = pos /\ eof' = eof /\ pc' = pc
      /\ buf' = buf /\ base' = base /\ maxbytes' = maxbytes
      /\ bits_read' = bits_read /\ ptr' = ptr /\ bit_index' = bit_index
      /\ pcm' = pcm /\ i' = i /\ pfi' = pfi /\ data' = data
      /\ total' = total /\ thrown' = thrown
  BY DEF vars, call, object
<1>2. TypeOK'
  BY <1>1 DEF Inv, TypeOK
<1>3. Reading' /\ Quota'
  BY <1>1 DEF Inv, Reading, Quota
<1>4. Calls' /\ Clean'
  BY <1>1 DEF Inv, Calls, MoreToRead, Clean, Origin
<1>5. Taken' = Taken /\ Decoded' = Decoded
  BY <1>1 DEF Taken, Decoded
<1>6. Counting' /\ Bits'
  BY <1>1, <1>5 DEF Inv, Counting, Bits
<1>7. QED
  BY <1>2, <1>3, <1>4, <1>6 DEF Inv

(* Inv holds at every moment of every constructor.                         *)
THEOREM Invariance == Spec => []Inv
<1>1. Init => Inv
  BY InitInv
<1>2. Inv /\ [Next]_vars => Inv'
  BY NextInv, IdleInv
<1>3. QED
  BY <1>1, <1>2, PTL DEF Spec

(* No execution of the constructor leaves the types: whatever the audio    *)
(* holds, the pointers into the header and into the data buffer stay       *)
(* inside them, and no call reads more bits than it was asked for.         *)
THEOREM TypeCorrect == Spec => []TypeOK
<1>1. Inv => TypeOK
  BY DEF Inv
<1>2. QED
  BY <1>1, Invariance, PTL

(* Two carriers of the same bit are the same sample.                       *)
LEMMA CarrierUnique ==
  ASSUME NEW audio, NEW j \in Nat \ {0}, NEW k \in Nat \ {0},
         Encodable(audio[j]), Encodable(audio[k]),
         Carriers(audio, j - 1) = Carriers(audio, k - 1)
  PROVE  j = k
<1>1. /\ Carriers(audio, j - 1) \in Nat /\ j - 1 \in Nat /\ k - 1 \in Nat
  BY CarriersType
<1>2. ~(j < k)
  <2> SUFFICES ASSUME j < k
               PROVE  FALSE
    OBVIOUS
  <2>1. j \in 1 .. k - 1
    OBVIOUS
  <2>2. Carriers(audio, j - 1) < Carriers(audio, k - 1)
    BY <1>1, <2>1, CarriersMono
  <2>3. QED
    BY <1>1, <2>2
<1>3. ~(k < j)
  <2> SUFFICES ASSUME k < j
               PROVE  FALSE
    OBVIOUS
  <2>1. k \in 1 .. j - 1
    OBVIOUS
  <2>2. Carriers(audio, k - 1) < Carriers(audio, j - 1)
    BY <1>1, <2>1, CarriersMono
  <2>3. QED
    BY <1>1, <2>2
<1>4. QED
  BY <1>2, <1>3

(* What an object holds, read off the recording: a loud sample that has    *)
(* been taken is the bit of the object that its place among the carriers   *)
(* says.                                                                   *)
LEMMA TakenBit ==
  ASSUME Inv, pc # "for", NEW j \in 1 .. pos, Encodable(image[j])
  PROVE  LowBit(image[j]) = StreamBit(FileOf(pfi, data),
                                      Carriers(image, j - 1))
<1> DEFINE c == Carriers(image, j - 1)
<1>1. TypeOK /\ Counting /\ Bits
  BY DEF Inv
<1>2. Taken = pos /\ pos \in Nat /\ j \in Nat \ {0} /\ j - 1 \in Nat
  BY <1>1, Counters DEF Taken
<1>3. c \in Nat /\ Decoded = Carriers(image, pos)
  BY <1>1, <1>2, CarriersType DEF Counting
<1>4. Decoded \in Nat /\ c < Decoded
  BY <1>2, <1>3, CarriersMono, CarriersType
<1>5. c \in 0 .. Decoded - 1
  BY <1>3, <1>4
<1> HIDE DEF c
<1>6. PICK k \in 1 .. pos :
        /\ Encodable(image[k]) /\ Carriers(image, k - 1) = c
        /\ StreamBit(FileOf(pfi, data), c) = LowBit(image[k])
  BY <1>1, <1>2, <1>5 DEF Bits, Held
<1>7. k \in Nat \ {0} /\ Carriers(image, j - 1) = Carriers(image, k - 1)
  BY <1>2, <1>6 DEF c
<1>8. j = k
  BY <1>2, <1>6, <1>7, CarrierUnique
<1>9. QED
  BY <1>6, <1>8 DEF c

(* After every call the object holds what the loud samples read so far     *)
(* carry: no bit is lost, doubled or shifted, for recordings, chunks and   *)
(* headers of every size.                                                  *)
THEOREM InOrder == Spec => []BitsInOrder
<1>1. Inv => BitsInOrder
  <2> SUFFICES ASSUME Inv, pc \in {"check", "test", "chunk", "done"}
               PROVE  /\ Decoded = Carriers(image, pos)
                      /\ Carries(SubSeq(image, 1, pos), FileOf(pfi, data))
    BY DEF BitsInOrder, FileOf
  <2> DEFINE read == SubSeq(image, 1, pos)
  <2>1. TypeOK /\ Counting
    BY DEF Inv
  <2>2. Taken = pos /\ pos \in Nat /\ pos <= Len(image) /\ Len(image) \in Nat
    BY <2>1, Counters, Inputs DEF Taken
  <2>3. Decoded = Carriers(image, pos)
    BY <2>1, <2>2 DEF Counting
  <2>4. Len(read) = pos /\ \A j \in 1 .. pos : read[j] = image[j]
    <3>1. \A j \in 1 .. pos : image[j] \in Sample
      BY <2>1, <2>2, Inputs
    <3>2. /\ Len(SubSeq(image, 1, pos)) =
               IF 1 <= pos THEN pos - 1 + 1 ELSE 0
          /\ \A j \in 1 .. pos - 1 + 1 :
               SubSeq(image, 1, pos)[j] = image[1 + j - 1]
      BY <2>2, <3>1, SubSeqProperties
    <3>3. pos - 1 + 1 = pos /\ (~(1 <= pos) => pos = 0)
          /\ \A j \in 1 .. pos : 1 + j - 1 = j
      BY <2>2
    <3>4. QED
      BY <3>2, <3>3
  <2> HIDE DEF read
  <2>5. ASSUME NEW j \in 1 .. Len(read), Encodable(read[j])
        PROVE  LowBit(read[j]) =
                 StreamBit(FileOf(pfi, data), Carriers(read, j - 1))
    <3>1. j \in 1 .. pos /\ j - 1 \in Nat /\ read[j] = image[j]
      BY <2>2, <2>4
    <3>2. \A k \in 1 .. j - 1 : Encodable(read[k]) <=> Encodable(image[k])
      <4>1. \A k \in 1 .. j - 1 : read[k] = image[k]
        BY <2>2, <2>4, <3>1
      <4>2. QED
        BY <4>1
    <3>3. Carriers(read, j - 1) = Carriers(image, j - 1)
      BY <3>1, <3>2, CarriersSame
    <3>4. QED
      BY <2>5, <3>1, <3>3, TakenBit
  <2>6. Carries(read, FileOf(pfi, data))
    BY <2>5 DEF Carries
  <2>7. QED
    BY <2>3, <2>6 DEF read
<1>2. QED
  BY <1>1, Invariance, PTL

-----------------------------------------------------------------------------
(* An image that carries file p, and room for it.                          *)

(* The bits that have been decoded are p's.                                *)
LEMMA StreamOf ==
  ASSUME Inv, pc # "for", NEW p \in Payloads, Carries(image, p),
         NEW c \in Nat, c < Decoded, c < StreamBits(p)
  PROVE  StreamBit(FileOf(pfi, data), c) = StreamBit(p, c)
<1>1. TypeOK /\ Calls /\ Bits
  BY DEF Inv
<1>2. Taken = pos /\ pos \in Nat /\ pos <= Len(image) /\ Len(image) \in Nat
  BY <1>1, Counters, Inputs DEF Taken
<1>3. c \in 0 .. Decoded - 1
  BY <1>1, DecodedBits
<1>4. PICK j \in 1 .. pos :
        /\ Encodable(image[j]) /\ Carriers(image, j - 1) = c
        /\ StreamBit(FileOf(pfi, data), c) = LowBit(image[j])
  BY <1>1, <1>2, <1>3 DEF Bits, Held
<1>5. j \in 1 .. Len(image)
  BY <1>2
<1>6. LowBit(image[j]) = StreamBit(p, c)
  BY <1>4, <1>5 DEF Carries
<1>7. QED
  BY <1>4, <1>6

(* Byte m of the object is byte m of p, as far as p goes and bits have     *)
(* been decoded.                                                           *)
LEMMA ByteOfFile ==
  ASSUME Inv, pc # "for", NEW p \in Payloads, Carries(image, p),
         NEW m \in Nat, m < HeaderLen + p.size, 8 * m + 8 <= Decoded
  PROVE  ByteIn(pfi, data, m) = ByteIn(p.pfi, p.data, m)
<1>1. TypeOK /\ Calls
  BY DEF Inv
<1>2. /\ p.pfi \in [0 .. HeaderLen - 1 -> Byte]
      /\ p.data \in [0 .. DataLen - 1 -> Byte]
      /\ p.size \in Nat /\ p.size <= DataLen
  <2>1. p \in Payload
    BY LoadAssumption
  <2>2. QED
    BY <2>1, Sizes DEF Payload, Header, Buffer
<1>3. /\ pfi \in [0 .. HeaderLen - 1 -> Byte]
      /\ data \in [0 .. DataLen - 1 -> Byte]
  BY <1>1 DEF TypeOK, Header, Buffer
<1>4. /\ m < HeaderLen => m \in 0 .. HeaderLen - 1
      /\ ~(m < HeaderLen) => m - HeaderLen \in 0 .. DataLen - 1
  BY <1>2, Sizes
<1>5. ByteIn(pfi, data, m) \in Byte /\ ByteIn(p.pfi, p.data, m) \in Byte
  BY <1>2, <1>3, <1>4 DEF ByteIn
<1>6. ASSUME NEW k \in 0 .. 7
      PROVE  ByteIn(pfi, data, m)[k] = ByteIn(p.pfi, p.data, m)[k]
  <2>1. 8 * m + k \in Nat /\ 8 * m + k < Decoded
    BY <1>1, DecodedBits
  <2>2. 8 * m + k < StreamBits(p)
    BY <1>2, Sizes DEF StreamBits
  <2>3. StreamBit(FileOf(pfi, data), 8 * m + k) = StreamBit(p, 8 * m + k)
    BY <2>1, <2>2, StreamOf
  <2>4. StreamBit(p, 8 * m + k) = ByteIn(p.pfi, p.data, m)[k]
    <3>1. (8 * m + k) \div 8 = m /\ (8 * m + k) % 8 = k
      BY BytePosition
    <3>2. QED
      BY <3>1 DEF StreamBit, ByteIn
  <2>5. QED
    BY <2>3, <2>4, BitOfByte
<1>7. QED
  BY <1>5, <1>6 DEF Byte

(* Once the header's bits have been decoded, the header is p's.            *)
LEMMA HeaderOfFile ==
  ASSUME Inv, pc # "for", NEW p \in Payloads, Carries(image, p),
         8 * HeaderLen <= Decoded
  PROVE  pfi = p.pfi
<1>1. TypeOK /\ Calls
  BY DEF Inv
<1>2. p.pfi \in [0 .. HeaderLen - 1 -> Byte] /\ p.size \in Nat
  <2>1. p \in Payload
    BY LoadAssumption
  <2>2. QED
    BY <2>1, Sizes DEF Payload, Header
<1>3. Decoded \in Nat
  BY <1>1, DecodedBits
<1>4. pfi \in [0 .. HeaderLen - 1 -> Byte]
  BY <1>1 DEF TypeOK, Header
<1>5. ASSUME NEW m \in 0 .. HeaderLen - 1
      PROVE  pfi[m] = p.pfi[m]
  <2>1. /\ m \in Nat /\ m < HeaderLen /\ m < HeaderLen + p.size
        /\ 8 * m + 8 <= Decoded
    BY <1>2, <1>3, Sizes
  <2>2. ByteIn(pfi, data, m) = ByteIn(p.pfi, p.data, m)
    BY <2>1, ByteOfFile
  <2>3. QED
    BY <2>1, <2>2 DEF ByteIn
<1> DEFINE h == p.pfi
<1>6. h \in [0 .. HeaderLen - 1 -> Byte]
  BY <1>2
<1>7. \A m \in 0 .. HeaderLen - 1 : pfi[m] = h[m]
  BY <1>5
<1> HIDE DEF h
<1>8. pfi = h
  <2>1. /\ pfi = [m \in 0 .. HeaderLen - 1 |-> pfi[m]]
        /\ h = [m \in 0 .. HeaderLen - 1 |-> h[m]]
    BY <1>4, <1>6
  <2>2. [m \in 0 .. HeaderLen - 1 |-> pfi[m]] =
          [m \in 0 .. HeaderLen - 1 |-> h[m]]
    BY <1>7, Zenon
  <2>3. QED
    BY <2>1, <2>2, Zenon
<1>9. QED
  BY <1>8 DEF h

(* All the hidden bits that the image carries.                             *)
Carried == Carriers(image, Len(image))

(* At the audio's end everything it carries has been decoded; never more.  *)
LEMMA AllDecoded ==
  ASSUME Inv, pc # "for"
  PROVE  /\ Carried \in Nat /\ Decoded \in Nat /\ Decoded <= Carried
         /\ eof => Decoded = Carried
<1>1. TypeOK /\ Reading /\ Calls /\ Counting
  BY DEF Inv
<1>2. /\ Taken = pos /\ pos \in Nat /\ pos <= Len(image)
      /\ Len(image) \in Nat
  BY <1>1, Counters, Inputs DEF Taken
<1>3. Decoded = Carriers(image, pos) /\ Decoded \in Nat
  BY <1>1, <1>2, DecodedBits DEF Counting
<1>4. Carried \in Nat /\ Carriers(image, pos) <= Carried
  BY <1>2, CarriersGrow, CarriersType DEF Carried
<1>5. eof => pos = Len(image)
  BY <1>1 DEF Reading
<1>6. QED
  BY <1>3, <1>4, <1>5 DEF Carried

(* The constructor that returns has read the header, if there is one, and  *)
(* as much data as p has: it only stops where the header it read says, or  *)
(* where the audio ends.                                                   *)
LEMMA WholeFile ==
  ASSUME Inv, pc = "done", NEW p \in Payloads, Carries(image, p),
         8 * HeaderLen <= Carried
  PROVE  /\ pfi = p.pfi
         /\ ~eof => 8 * (HeaderLen + p.size) <= Decoded
         /\ 8 * (HeaderLen + p.size) <= Decoded => total >= p.size
         /\ Decoded % 8 = 0
<1>1. TypeOK /\ Reading /\ Quota /\ Calls /\ Counting
  BY DEF Inv
<1>2. /\ p \in Payload /\ SizeOf(p.pfi) = p.size
      /\ p.size \in Nat /\ p.size <= DataLen
  <2>1. p \in Payload /\ SizeOf(p.pfi) = p.size
    BY LoadAssumption
  <2>2. QED
    BY <2>1, Sizes DEF Payload
<1>3. /\ total \in Nat /\ base \in Nat /\ bits_read \in Nat
      /\ maxbytes \in Nat /\ Decoded \in Nat
  BY <1>1, Counters, DecodedBits
<1>4. /\ buf = "pfi" => /\ Decoded = bits_read /\ total = 0
                        /\ maxbytes = HeaderLen
      /\ buf = "data" => Decoded = 8 * (HeaderLen + total)
  <2>1. CASE buf = "pfi"
    BY <2>1, <1>1 DEF Decoded, Calls
  <2>2. CASE buf = "data"
    <3>1. Decoded = 8 * (HeaderLen + base) + bits_read
      BY <2>2 DEF Decoded
    <3>2. 8 * total = 8 * base + bits_read
      BY <2>2, <1>1 DEF Calls
    <3>3. 8 * (HeaderLen + base) + bits_read = 8 * (HeaderLen + total)
      BY <3>2, <1>3, Sizes
    <3>4. QED
      BY <2>2, <3>1, <3>3
  <2>3. QED
    BY <2>1, <2>2, <1>1 DEF TypeOK
<1>5. 8 * HeaderLen <= Decoded
  <2>1. CASE eof
    BY <2>1, AllDecoded
  <2>2. CASE ~eof
    <3>1. CASE buf = "pfi"
      <4>1. bits_read = 8 * HeaderLen
        BY <2>2, <3>1, <1>1, <1>4 DEF Quota
      <4>2. QED
        BY <4>1, <3>1, <1>3, <1>4
    <3>2. CASE buf = "data"
      BY <3>2, <1>3, <1>4, Sizes
    <3>3. QED
      BY <3>1, <3>2, <1>1 DEF TypeOK
  <2>3. QED
    BY <2>1, <2>2 DEF TypeOK
<1>6. pfi = p.pfi
  BY <1>5, HeaderOfFile
<1>7. 8 * (HeaderLen + p.size) <= Decoded => total >= p.size
  <2> SUFFICES ASSUME 8 * (HeaderLen + p.size) <= Decoded
               PROVE  total >= p.size
    OBVIOUS
  <2>1. CASE buf = "pfi"
    <3>1. Decoded <= 8 * HeaderLen
      BY <2>1, <1>1, <1>4, Counters
    <3>2. p.size = 0
      BY <3>1, <1>2, <1>3, Sizes
    <3>3. QED
      BY <3>2, <1>3
  <2>2. CASE buf = "data"
    BY <2>2, <1>2, <1>3, <1>4, Sizes
  <2>3. QED
    BY <2>1, <2>2, <1>1 DEF TypeOK
<1>8. ~eof => 8 * (HeaderLen + p.size) <= Decoded
  <2> SUFFICES ASSUME ~eof
               PROVE  8 * (HeaderLen + p.size) <= Decoded
    OBVIOUS
  <2>1. total >= p.size
    <3>1. ~(total < SizeOf(pfi))
      BY <1>1 DEF Calls, MoreToRead
    <3>2. QED
      BY <3>1, <1>2, <1>3, <1>6
  <2>2. CASE buf = "pfi"
    <3>1. p.size = 0
      BY <2>1, <2>2, <1>2, <1>4
    <3>2. QED
      BY <3>1, <1>5, Sizes
  <2>3. CASE buf = "data"
    BY <2>1, <2>3, <1>2, <1>3, <1>4, Sizes
  <2>4. QED
    BY <2>2, <2>3, <1>1 DEF TypeOK
<1>9. Decoded % 8 = 0
  <2>1. bits_read % 8 = 0
    BY <1>1 DEF Quota
  <2>2. Origin \in Nat /\ Decoded = 8 * Origin + bits_read
    BY <1>1, DecodedBits
  <2>3. QED
    BY <2>1, <2>2, <1>3
<1>10. QED
  BY <1>6, <1>7, <1>8, <1>9

(* A byte of data whose bits have all been decoded is p's.                 *)
LEMMA DataOfFile ==
  ASSUME Inv, pc # "for", NEW p \in Payloads, Carries(image, p),
         NEW d \in 0 .. p.size - 1, 8 * (HeaderLen + d + 1) <= Decoded
  PROVE  data[d] = p.data[d]
<1>1. p.size \in Nat
  BY LoadAssumption, Sizes DEF Payload
<1>2. Decoded \in Nat
  BY DecodedBits DEF Inv
<1>3. /\ HeaderLen + d \in Nat /\ HeaderLen + d < HeaderLen + p.size
      /\ 8 * (HeaderLen + d) + 8 <= Decoded
  BY <1>1, <1>2, Sizes
<1>4. ByteIn(pfi, data, HeaderLen + d) = ByteIn(p.pfi, p.data, HeaderLen + d)
  BY <1>3, ByteOfFile
<1>5. ~(HeaderLen + d < HeaderLen) /\ (HeaderLen + d) - HeaderLen = d
  BY <1>1, Sizes
<1>6. QED
  BY <1>4, <1>5 DEF ByteIn

(* An object made from an image that carries a whole file.                 *)
WholeFiles ==
  pc = "done" =>
    \A p \in Payloads :
      Carries(image, p) /\ Room(image, p) =>
        /\ pfi = p.pfi /\ total >= p.size
        /\ \A d \in 0 .. p.size - 1 : data[d] = p.data[d]

(* It is that file: its header, its size and its data.                     *)
LEMMA LoadedFile == Inv => WholeFiles
<1> SUFFICES ASSUME Inv, pc = "done", NEW p \in Payloads,
                    Carries(image, p), Room(image, p)
             PROVE  /\ pfi = p.pfi /\ total >= p.size
                    /\ \A d \in 0 .. p.size - 1 : data[d] = p.data[d]
  BY DEF WholeFiles
<1>1. p.size \in Nat
  BY LoadAssumption, Sizes DEF Payload
<1>2. 8 * (HeaderLen + p.size) <= Carried /\ Carried \in Nat
  BY AllDecoded DEF Room, StreamBits, Carried
<1>3. 8 * HeaderLen <= Carried
  BY <1>1, <1>2, Sizes
<1>4. pfi = p.pfi
  BY <1>3, WholeFile
<1>5. 8 * (HeaderLen + p.size) <= Decoded /\ Decoded \in Nat
  <2>1. CASE eof
    BY <2>1, <1>2, AllDecoded
  <2>2. CASE ~eof
    BY <2>2, <1>3, WholeFile, AllDecoded
  <2>3. QED
    BY <2>1, <2>2
<1>6. total >= p.size
  BY <1>3, <1>5, WholeFile
<1>7. ASSUME NEW d \in 0 .. p.size - 1
      PROVE  data[d] = p.data[d]
  <2>1. 8 * (HeaderLen + d + 1) <= Decoded
    BY <1>1, <1>5, Sizes
  <2>2. QED
    BY <2>1, DataOfFile
<1>8. QED
  BY <1>4, <1>6, <1>7

-----------------------------------------------------------------------------
(* Behind the audio's end.                                                 *)

(* No bit of the data is set that has not been decoded.                    *)
Behind ==
  \A d \in 0 .. DataLen - 1, b \in 0 .. 7 :
    Decoded <= 8 * (HeaderLen + d) + b => data[d][b] = 0

(* Why the constructor goes on to the data, and why it throws: at a byte   *)
(* that the audio's end cuts, at a header without the magic, or where the  *)
(* audio ends and the header says that there is more.                      *)
Refused ==
  /\ buf = "data" => IsMagic(pfi) /\ base < SizeOf(pfi)
  /\ pc = "test" => IsMagic(pfi)
  /\ pc = "thrown" =>
       \/ eof /\ bits_read % 8 # 0
       \/ buf = "pfi" /\ ~IsMagic(pfi) /\ (~eof => bits_read = 8 * HeaderLen)
       \/ buf = "data" /\ eof /\ bits_read = 0

(* At first no bit is set at all.                                          *)
LEMMA BehindInit == Init => Behind /\ Refused
<1> SUFFICES ASSUME Init
             PROVE  Behind /\ Refused
  OBVIOUS
<1>1. \A d \in 0 .. DataLen - 1 : data[d] = ZeroByte
  BY DEF Init
<1>2. Behind
  BY <1>1, ZeroByteType DEF Behind
<1>3. Refused
  BY DEF Init, Refused
<1>4. QED
  BY <1>2, <1>3

(* A turn of the inner loop sets no bit but the next one, which from then  *)
(* on counts as decoded.                                                   *)
LEMMA BehindSample == Inv /\ Behind /\ TakeSample => Behind'
<1> SUFFICES ASSUME Inv, Behind, TakeSample
             PROVE  Behind'
  OBVIOUS
<1> DEFINE at == At
           b == BitAt
           old == OldByte
           step == IF Encodable(pcm[i]) THEN 1 ELSE 0
           new == WithBit(old, b, pcm[i])
           slot == base + at
<1>0. TypeOK /\ Calls /\ Quota
  BY DEF Inv
<1>1. /\ pc = "for" /\ bits_read' = bits_read + step
      /\ buf' = buf /\ base' = base
  BY DEF TakeSample, call
<1>2. /\ at \in Nat /\ at < maxbytes /\ b \in 0 .. 7 /\ 8 * at + b = bits_read
      /\ old \in Byte
      /\ \A k \in 0 .. 7 : k >= b => old[k] = 0
  BY <1>1, Cursor
<1>3. /\ \A k \in 0 .. 7 : k # b => new[k] = old[k]
      /\ ~Encodable(pcm[i]) => new = old
  <2>1. pcm[i] \in Sample
    BY <1>1, CurrentSample
  <2> HIDE DEF b, old
  <2>2. QED
    BY <2>1, <1>2, OrBit
<1>4. /\ step \in {0, 1} /\ bits_read \in Nat /\ base \in Nat
      /\ Decoded \in Nat /\ maxbytes \in Nat
  BY <1>0, Counters, DecodedBits
<1>5. data \in [0 .. DataLen - 1 -> Byte]
  BY <1>0 DEF TypeOK, Buffer
<1>6. Decoded' = Decoded + step
  <2> HIDE DEF step
  <2>1. CASE buf = "pfi"
    BY <2>1, <1>1 DEF Decoded
  <2>2. CASE buf # "pfi"
    <3>1. Decoded = 8 * (HeaderLen + base) + bits_read
          /\ Decoded' = 8 * (HeaderLen + base) + (bits_read + step)
      BY <2>2, <1>1 DEF Decoded
    <3>2. QED
      BY <3>1, <1>4, Sizes
  <2>3. QED
    BY <2>1, <2>2
<1>7. CASE buf = "pfi"
  <2>1. data' = data
    BY <1>7 DEF TakeSample
  <2> HIDE DEF step
  <2>2. Decoded <= Decoded' /\ Decoded' \in Nat
    BY <1>4, <1>6
  <2>3. ASSUME NEW d \in 0 .. DataLen - 1, NEW k \in 0 .. 7,
               Decoded' <= 8 * (HeaderLen + d) + k
        PROVE  data[d][k] = 0
    <3>1. Decoded <= 8 * (HeaderLen + d) + k
      BY <2>2, <2>3, <1>4, Sizes
    <3>2. QED
      BY <3>1 DEF Behind
  <2>4. QED
    BY <2>1, <2>3 DEF Behind
<1>8. CASE buf # "pfi"
  <2>1. Origin = HeaderLen + base /\ maxbytes = Chunk
        /\ base + Chunk <= DataLen
    BY <1>8, <1>0 DEF Origin, Calls, TypeOK
  <2>2. slot \in 0 .. DataLen - 1 /\ slot \in Nat
    BY <2>1, <1>2, <1>4, Sizes
  <2>3. data' = [data EXCEPT ![slot] = new]
    <3>1. data' = [data EXCEPT ![slot] =
                     WithBit(IF NextByte THEN ZeroByte ELSE data[slot],
                             b, pcm[i])]
      BY <1>8 DEF TakeSample, At, BitAt
    <3>2. ByteIn(pfi, data, Origin + ptr) = data[slot] \/ NextByte
      <4> SUFFICES ASSUME ~NextByte
                   PROVE  ByteIn(pfi, data, Origin + ptr) = data[slot]
        OBVIOUS
      <4>1. at = ptr
        BY DEF At
      <4>2. ~(Origin + ptr < HeaderLen) /\ (Origin + ptr) - HeaderLen = slot
        BY <4>1, <2>1, <2>2, <1>2, <1>4, Sizes
      <4>3. QED
        BY <4>2 DEF ByteIn
    <3>3. old = IF NextByte THEN ZeroByte ELSE data[slot]
      BY <3>2 DEF OldByte
    <3>4. QED
      BY <3>1, <3>3
  <2>4. Decoded = 8 * (HeaderLen + slot) + b
    <3>1. Decoded = 8 * (HeaderLen + base) + bits_read
      BY <1>8 DEF Decoded
    <3> HIDE DEF at, b
    <3>2. 8 * (HeaderLen + base) + (8 * at + b) =
            8 * (HeaderLen + (base + at)) + b
      BY <1>2, <1>4, Sizes
    <3>3. QED
      BY <3>1, <3>2, <1>2
  <2>5. ASSUME NEW d \in 0 .. DataLen - 1, NEW k \in 0 .. 7,
               Decoded' <= 8 * (HeaderLen + d) + k
        PROVE  data'[d][k] = 0
    <3>1. Decoded + step <= 8 * (HeaderLen + d) + k
      BY <2>5, <1>6
    <3> HIDE DEF step, at, b, old, new, slot
    <3>2. CASE d # slot
      <4>1. Decoded <= 8 * (HeaderLen + d) + k
        BY <3>1, <1>4, Sizes
      <4>2. data[d][k] = 0
        BY <4>1 DEF Behind
      <4>3. data'[d] = data[d]
        BY <3>2, <2>2, <2>3, <1>5
      <4>4. QED
        BY <4>2, <4>3
    <3>3. CASE d = slot
      <4>1. data'[d] = new
        BY <3>3, <2>2, <2>3, <1>5
      <4>2. b + step <= k
        BY <3>1, <3>3, <2>2, <2>4, <1>2, <1>4, Sizes
      <4>3. old[k] = 0
        BY <4>2, <1>2, <1>4
      <4>4. new[k] = old[k]
        <5>1. CASE Encodable(pcm[i])
          <6>1. step = 1
            BY <5>1 DEF step
          <6>2. k # b
            BY <6>1, <4>2, <1>2
          <6>3. QED
            BY <6>2, <1>3
        <5>2. CASE ~Encodable(pcm[i])
          BY <5>2, <1>3
        <5>3. QED
          BY <5>1, <5>2
      <4>5. QED
        BY <4>1, <4>3, <4>4
    <3>4. QED
      BY <3>2, <3>3
  <2>6. QED
    BY <2>5 DEF Behind
<1>9. QED
  BY <1>7, <1>8

(* Nor does another step set one.                                          *)
LEMMA BehindNext == Inv /\ Behind /\ [Next]_vars => Behind'
<1> SUFFICES ASSUME Inv, Behind, [Next]_vars
             PROVE  Behind'
  OBVIOUS
<1>0. TypeOK
  BY DEF Inv
<1>1. CASE TakeSample
  BY <1>1, BehindSample
<1>2. CASE CallChunk
  <2>1. /\ pc = "test" /\ MoreToRead /\ buf' = "data" /\ base' = total
        /\ bits_read' = 0 /\ data' = [data EXCEPT ![total] = ZeroByte]
    BY <1>2 DEF CallChunk
  <2>2. total \in Nat /\ Decoded = 8 * (HeaderLen + total)
    BY <2>1, NextChunk
  <2>3. Decoded' = Decoded
    <3>1. Decoded' = 8 * (HeaderLen + total) + 0
      BY <2>1 DEF Decoded
    <3>2. QED
      BY <3>1, <2>2, Sizes
  <2>4. data \in [0 .. DataLen - 1 -> Byte]
    BY <1>0 DEF TypeOK, Buffer
  <2>5. \A d \in 0 .. DataLen - 1 : data'[d] = data[d] \/ data'[d] = ZeroByte
    BY <2>1, <2>4
  <2>6. QED
    BY <2>3, <2>5, ZeroByteType DEF Behind
<1>3. CASE FRead \/ DecodeReturn \/ CheckMagic \/ ChunkDone \/ Loaded
           \/ UNCHANGED vars
  <2>1. /\ buf' = buf /\ base' = base /\ bits_read' = bits_read
        /\ data' = data
    BY <1>3 DEF FRead, DecodeReturn, CheckMagic, ChunkDone, Loaded, call,
                object, vars
  <2>2. QED
    BY <2>1 DEF Behind, Decoded
<1>4. QED
  BY <1>1, <1>2, <1>3 DEF Next

(* The reasons of a refusal are the code's three throws.                   *)
LEMMA RefusedNext == Inv /\ Refused /\ [Next]_vars => Refused'
<1> SUFFICES ASSUME Inv, Refused, [Next]_vars
             PROVE  Refused'
  OBVIOUS
<1>0. TypeOK /\ Quota /\ Calls
  BY DEF Inv
<1>1. CASE FRead
  <2>1. /\ pc' # "test" /\ pc' # "thrown" /\ buf' = buf /\ base' = base
        /\ pfi' = pfi
    BY <1>1 DEF FRead, AfterRead, call, object
  <2>2. QED
    BY <2>1 DEF Refused
<1>2. CASE TakeSample
  <2>1. /\ pc' # "test" /\ pc' # "thrown" /\ buf' = buf /\ base' = base
        /\ buf = "data" => pfi' = pfi
    BY <1>2 DEF TakeSample, call
  <2>2. QED
    BY <2>1 DEF Refused
<1>3. CASE DecodeReturn
  <2>1. /\ buf' = buf /\ base' = base /\ pfi' = pfi /\ eof' = eof
        /\ bits_read' = bits_read /\ pc' # "test"
        /\ pc' = "thrown" => bits_read % 8 # 0
        /\ pc = "break" \/ bits_read >= 8 * maxbytes
    BY <1>3 DEF DecodeReturn, Aligned, call, object
  <2>2. bits_read >= 8 * maxbytes => bits_read % 8 = 0
    <3>1. /\ bits_read \in Nat /\ bits_read <= 8 * maxbytes
          /\ maxbytes \in Nat
      BY <1>0, Counters
    <3>2. QED
      BY <3>1
  <2>3. pc = "break" => eof
    BY <1>0 DEF Quota
  <2>4. pc' = "thrown" => eof /\ bits_read % 8 # 0
    BY <2>1, <2>2, <2>3
  <2>5. QED
    BY <2>1, <2>4 DEF Refused
<1>4. CASE CheckMagic
  <2>1. /\ pc = "check" /\ buf' = buf /\ base' = base /\ pfi' = pfi
        /\ eof' = eof /\ bits_read' = bits_read
        /\ pc' = "test" => IsMagic(pfi)
        /\ pc' = "thrown" => ~IsMagic(pfi)
    BY <1>4 DEF CheckMagic, call, object
  <2>2. buf = "pfi" /\ maxbytes = HeaderLen
    BY <2>1, <1>0 DEF Calls, TypeOK
  <2>3. ~eof => bits_read = 8 * HeaderLen
    BY <2>1, <2>2, <1>0 DEF Quota
  <2>4. QED
    BY <2>1, <2>2, <2>3 DEF Refused
<1>5. CASE CallChunk
  <2>1. /\ pc = "test" /\ pc' = "loop" /\ base' = total /\ pfi' = pfi
        /\ total < SizeOf(pfi)
    BY <1>5 DEF CallChunk, MoreToRead
  <2>2. IsMagic(pfi)
    BY <2>1 DEF Refused
  <2>3. QED
    BY <2>1, <2>2 DEF Refused
<1>6. CASE ChunkDone
  <2>1. /\ pc = "chunk" /\ buf' = buf /\ base' = base /\ pfi' = pfi
        /\ eof' = eof /\ bits_read' = bits_read
        /\ pc' = "thrown" => bits_read \div 8 = 0
    BY <1>6 DEF ChunkDone, call, object
  <2>2. buf = "data" /\ maxbytes = Chunk
    BY <2>1, <1>0 DEF Calls, TypeOK
  <2>3. bits_read % 8 = 0 /\ (~eof => bits_read = 8 * Chunk)
    BY <2>1, <2>2, <1>0 DEF Quota
  <2>4. pc' = "thrown" => bits_read = 0
    <3>1. bits_read \in Nat
      BY <1>0, Counters
    <3>2. QED
      BY <3>1, <2>1, <2>3
  <2>5. pc' = "thrown" => eof
    BY <2>3, <2>4, Sizes
  <2>6. QED
    BY <2>1, <2>2, <2>4, <2>5 DEF Refused
<1>7. CASE Loaded
  <2>1. /\ pc' = "done" /\ buf' = buf /\ base' = base /\ pfi' = pfi
    BY <1>7 DEF Loaded, call, object
  <2>2. QED
    BY <2>1 DEF Refused
<1>8. CASE UNCHANGED vars
  BY <1>8 DEF Refused, vars, call, object
<1>9. QED
  BY <1>1, <1>2, <1>3, <1>4, <1>5, <1>6, <1>7, <1>8 DEF Next

(* Both hold of every constructor at every moment.                         *)
THEOREM Endings == Spec => [](Inv /\ Behind /\ Refused)
<1>1. Init => Inv /\ Behind /\ Refused
  BY InitInv, BehindInit
<1>2. Inv /\ Behind /\ Refused /\ [Next]_vars => (Inv /\ Behind /\ Refused)'
  BY NextInv, IdleInv, BehindNext, RefusedNext
<1>3. QED
  BY <1>1, <1>2, PTL DEF Spec

(* An object made from an image that carries a file's header is that file  *)
(* as far as the audio goes, whatever the recording, the file, the sizes   *)
(* and the memory it was made in, and holds zeros behind; with             *)
(* PublishedCarries of Fsync, what was saved is what is loaded.            *)
THEOREM Loading == Spec => []LoadsTheFile
<1>1. Inv /\ Behind => LoadsTheFile
  <2> SUFFICES ASSUME Inv, Behind, pc = "done", NEW p \in Payloads,
                      Carries(image, p), Reaches(-1)
               PROVE  /\ pfi = p.pfi
                      /\ \A d \in 0 .. p.size - 1 :
                           data[d] = IF Reaches(d) THEN p.data[d] ELSE ZeroByte
                      /\ Room(image, p) => total >= p.size
    BY DEF LoadsTheFile
  <2>1. /\ p.size \in Nat /\ p.size <= DataLen /\ HeaderLen \in Nat
        /\ DataLen \in Nat
    BY LoadAssumption, Sizes DEF Payload
  <2>2. 8 * HeaderLen <= Carried
    <3>1. 8 * (HeaderLen + (-1) + 1) <= Carried
      BY DEF Reaches, Carried
    <3>2. HeaderLen + (-1) + 1 = HeaderLen
      BY <2>1
    <3>3. QED
      BY <3>1, <3>2
  <2>3. /\ pfi = p.pfi /\ Decoded % 8 = 0
        /\ ~eof => 8 * (HeaderLen + p.size) <= Decoded
    BY <2>2, WholeFile
  <2>4. /\ Carried \in Nat /\ Decoded \in Nat /\ Decoded <= Carried
        /\ eof => Decoded = Carried
    BY AllDecoded
  <2>5. Room(image, p) => total >= p.size
    BY LoadedFile DEF WholeFiles
  <2>6. ASSUME NEW d \in 0 .. p.size - 1
        PROVE  data[d] = IF Reaches(d) THEN p.data[d] ELSE ZeroByte
    <3>1. Reaches(d) <=> 8 * (HeaderLen + d + 1) <= Carried
      BY DEF Reaches, Carried
    <3>2. ~eof => 8 * (HeaderLen + d + 1) <= Decoded
      BY <2>1, <2>3, <2>4
    <3>3. CASE Reaches(d)
      <4>1. 8 * (HeaderLen + d + 1) <= Decoded
        BY <3>1, <3>2, <3>3, <2>4
      <4>2. data[d] = p.data[d]
        BY <4>1, DataOfFile
      <4>3. QED
        BY <3>3, <4>2
    <3>4. CASE ~Reaches(d)
      <4>1. eof /\ Decoded = Carried
        BY <3>1, <3>2, <3>4, <2>1, <2>4
      <4>2. Decoded <= 8 * (HeaderLen + d)
        BY <4>1, <3>1, <3>4, <2>1, <2>3, <2>4
      <4>3. d \in 0 .. DataLen - 1 /\ \A b \in 0 .. 7 : data[d][b] = 0
        BY <4>2, <2>1, <2>4 DEF Behind
      <4>4. data[d] \in Byte
        BY <4>3 DEF Inv, TypeOK, Buffer
      <4>5. data[d] = ZeroByte
        BY <4>3, <4>4, ZeroByteType DEF Byte
      <4>6. QED
        BY <3>4, <4>5
    <3>5. QED
      BY <3>3, <3>4
  <2>7. QED
    BY <2>3, <2>5, <2>6
<1>2. QED
  BY <1>1, Endings, PTL

(* A chunk that starts inside a file ends inside its padding.              *)
LEMMA ChunkPadded ==
  ASSUME NEW size \in Nat, NEW k \in Nat, Chunk * k < size
  PROVE  /\ Padded(size) \in Nat /\ Chunk * k \in Nat
         /\ Chunk * k + Chunk <= Padded(size)
<1> DEFINE n == size + Chunk - 1
           q == n \div Chunk
<1>1. Chunk \in Nat /\ Chunk > 0 /\ n \in Nat
  BY Sizes
<1>2. /\ q \in Nat /\ n = Chunk * q + (n % Chunk)
      /\ n % Chunk \in Nat /\ n % Chunk < Chunk
  BY <1>1
<1>3. Chunk * q \in Nat /\ Chunk * k \in Nat
      /\ Chunk * (q + 1) = Chunk * q + Chunk
      /\ Chunk * (k + 1) = Chunk * k + Chunk
  BY <1>1, <1>2
<1>4. k + 1 <= q
  <2> SUFFICES ASSUME q + 1 <= k + 1
               PROVE  FALSE
    BY <1>2
  <2>1. Chunk * (q + 1) <= Chunk * (k + 1)
    BY <1>1, <1>2, ProductMono
  <2>2. Chunk * k + Chunk <= n
    BY <1>1, <1>3
  <2> HIDE DEF q, n
  <2>3. QED
    BY <2>1, <2>2, <1>1, <1>2, <1>3
<1>5. Chunk * (k + 1) <= Chunk * q
  BY <1>1, <1>2, <1>4, ProductMono
<1>6. Padded(size) = Chunk * q
  BY DEF Padded
<1> HIDE DEF q
<1>7. QED
  BY <1>1, <1>3, <1>5, <1>6

(* Whatever the audio, the file and the sizes: a whole file is refused     *)
(* only where the audio ends inside a byte of the padding behind it. The   *)
(* header's bits are all there, so the magic is; the data's are, so a      *)
(* chunk that the header asks for is not empty.                            *)
THEOREM Refusing == Spec => []RefusesOnlyCut
<1>1. Inv /\ Refused => RefusesOnlyCut
  <2> SUFFICES ASSUME Inv, Refused, pc = "thrown", NEW p \in Payloads,
                      Carries(image, p), Room(image, p)
               PROVE  Carried % 8 # 0 /\ ~Reaches(Padded(p.size) - 1)
    BY DEF RefusesOnlyCut, Carried
  <2>0. TypeOK /\ Calls
    BY DEF Inv
  <2>1. /\ p.size \in Nat /\ IsMagic(p.pfi) /\ SizeOf(p.pfi) = p.size
        /\ HeaderLen \in Nat /\ Chunk \in Nat
    BY LoadAssumption, Sizes DEF Payload
  <2>2. 8 * (HeaderLen + p.size) <= Carried
    BY AllDecoded DEF Room, StreamBits, Carried
  <2>3. /\ Carried \in Nat /\ Decoded \in Nat /\ Decoded <= Carried
        /\ eof => Decoded = Carried
    BY AllDecoded
  <2>4. /\ bits_read \in Nat /\ bits_read <= 8 * maxbytes /\ base \in Nat
        /\ maxbytes \in Nat
    BY <2>0, Counters
  <2>5. 8 * HeaderLen <= Decoded => pfi = p.pfi
    BY HeaderOfFile
  <2>6. CASE buf = "pfi"
    <3>1. Decoded = bits_read /\ maxbytes = HeaderLen
      BY <2>6, <2>0 DEF Decoded, Calls
    <3>2. ~(eof /\ bits_read % 8 # 0)
      BY <3>1, <2>1, <2>2, <2>3, <2>4
    <3>3. ~IsMagic(pfi) /\ (~eof => bits_read = 8 * HeaderLen)
      BY <3>2, <2>6 DEF Refused
    <3>4. 8 * HeaderLen <= Decoded
      BY <3>1, <3>3, <2>1, <2>2, <2>3, <2>4
    <3>5. QED
      BY <3>3, <3>4, <2>1, <2>5
  <2>7. CASE buf = "data"
    <3>1. /\ Decoded = 8 * (HeaderLen + base) + bits_read
          /\ maxbytes = Chunk
      BY <2>7, <2>0 DEF Decoded, Calls
    <3>2. PICK k \in 0 .. BufChunks : base = Chunk * k
      BY <2>7, <2>0 DEF Calls
    <3>3. pfi = p.pfi
      BY <3>1, <2>1, <2>3, <2>4, <2>5
    <3>4. base < p.size
      BY <3>3, <2>1, <2>7 DEF Refused
    <3>5. eof /\ Decoded = Carried
      BY <2>3, <2>7 DEF Refused
    <3>6. bits_read # 0
      BY <3>1, <3>4, <3>5, <2>1, <2>2, <2>4
    <3>7. bits_read % 8 # 0
      BY <3>6, <2>7 DEF Refused
    <3>8. Carried % 8 # 0
      BY <3>1, <3>5, <3>7, <2>1, <2>4
    <3>9. base + Chunk <= Padded(p.size) /\ Padded(p.size) \in Nat
      BY <3>2, <3>4, <2>1, Sizes, ChunkPadded
    <3>10. Carried < 8 * (HeaderLen + (base + Chunk))
      BY <3>1, <3>5, <3>7, <2>1, <2>4
    <3>11. ~Reaches(Padded(p.size) - 1)
      <4>1. Carried < 8 * (HeaderLen + Padded(p.size))
        BY <3>9, <3>10, <2>1, <2>3, <2>4
      <4>2. HeaderLen + (Padded(p.size) - 1) + 1 = HeaderLen + Padded(p.size)
        BY <3>9, <2>1
      <4>3. QED
        BY <4>1, <4>2, <3>9, <2>1, <2>3 DEF Reaches, Carried
    <3>12. QED
      BY <3>8, <3>11
  <2>8. QED
    BY <2>6, <2>7, <2>0 DEF TypeOK
<1>2. QED
  BY <1>1, Endings, PTL
=============================================================================
