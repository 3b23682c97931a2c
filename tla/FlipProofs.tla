----------------------------- MODULE FlipProofs -----------------------------
(***************************************************************************)
(* flip_lowbits for any audio files, files to hide, header and chunk size. *)
(*                                                                         *)
(* The encoder: what is in encode_buf is the part of the stream that is to *)
(* be put in next (EncBuffer), and the loud samples passed so far are as   *)
(* many as the bits put in (EncCounting), so that every sample decided so  *)
(* far is the one of the finished cover (EncImage).                        *)
(*                                                                         *)
(* The decoder, as long as bit_index has not slipped: the loud samples     *)
(* taken are as many as the bits counted, over both of its loops and with  *)
(* what is left in the buffer between them (DecCounting), and every bit in *)
(* the buffer is the stream's at its place (Right), so that the header it  *)
(* believes is the file's, and the bytes it writes are the file's.         *)
(***************************************************************************)
EXTENDS FlipLowbits, LowBitsProofs, SequenceTheorems

(* Sample j of a recording that carries a stream as far as either goes.    *)
CoveredAt(recording, stream, j) ==
  LET c == Carriers(recording, j - 1)
  IN  IF Encodable(recording[j]) /\ c < 8 * Len(stream)
      THEN SetLowBit(recording[j], stream[(c \div 8) + 1][c % 8])
      ELSE recording[j]

Inputs == audio \in Audios /\ file \in Files

-----------------------------------------------------------------------------
(* The encoder.                                                            *)

(* Samples whose fate is decided: written, or passed in this round.        *)
Decided == IF pc = "put" THEN Len(out) + (i - 1) ELSE Len(out)

(* Bytes of the stream in front of encode_buf.                             *)
Origin == HeaderLen + fpos - Len(encode_buf)

EncTypes ==
  /\ pc \in {"start", "encode", "put", "done", "failed"}
  /\ pos \in 0 .. Len(audio) /\ eof \in BOOLEAN
  /\ pcm \in Seq(Sample) /\ out \in Seq(Sample) /\ i \in Nat \ {0}
  /\ encode_buf \in Seq(Byte) /\ fpos \in 0 .. Len(file)
  /\ ptr \in Nat /\ bit_index \in 0 .. 8 /\ still_encoding \in BOOLEAN

EncReading ==
  /\ pc = "put" => pos = Len(out) + Len(pcm) /\ i <= Len(pcm) + 1
  /\ pc \in {"start", "encode"} => pos = Len(out)
  /\ eof => pos = Len(audio)

(* What is in encode_buf, the header or a chunk of the file, is the part   *)
(* of the stream that is to be put in next.                                *)
EncBuffer ==
  /\ Origin \in Nat
  /\ \A k \in 1 .. Len(encode_buf) : encode_buf[k] = Stream[Origin + k]

EncCounting ==
  IF still_encoding
  THEN /\ ptr < Len(encode_buf)
       /\ pc \in {"start", "encode", "put"} =>
            Carriers(audio, Decided) = 8 * (Origin + ptr) + bit_index
  ELSE /\ fpos = Len(file)
       /\ pc \in {"start", "encode", "put"} =>
            Carriers(audio, Decided) >= 8 * Len(Stream)

EncImage ==
  /\ \A j \in 1 .. Len(out) : out[j] = CoveredAt(audio, Stream, j)
  /\ pc = "put" =>
       \A k \in 1 .. Len(pcm) :
         pcm[k] = IF k < i THEN CoveredAt(audio, Stream, Len(out) + k)
                           ELSE audio[Len(out) + k]

(* Nothing has been decoded.                                               *)
NotDecoded ==
  /\ decode_buf \in [0 .. HeaderLen + Chunk - 1 -> Byte]
  /\ bits_read = 0 /\ total_bits_read = 0 /\ total_bits_written = 0
  /\ header_done = FALSE /\ written = <<>> /\ slipped = FALSE

Location ==
  IF mode = "encode" /\ pc # "done" THEN location = audio
                                    ELSE location \in {audio, Covered}

Encoding ==
  mode = "encode" => /\ EncTypes /\ EncReading /\ EncBuffer /\ EncCounting
                     /\ EncImage /\ NotDecoded

-----------------------------------------------------------------------------
(* The decoder, on a recording that was covered.                           *)

Decodes == mode = "decode" /\ location # audio /\ ~slipped

(* Samples taken by decode_bits' loop, of those read.                      *)
Taken == IF pc = "take" THEN pos - Len(pcm) + (i - 1) ELSE pos

(* Between two calls of decode_bits that are not in turn.                  *)
Between == pc = "header" \/ pc = "data"

(* Where the next bit goes.                                                *)
At == IF Between THEN DecodeAt ELSE ptr

DecTypes ==
  /\ pc \in {"header", "take", "write", "data", "done", "failed", "smashed"}
  /\ pos \in 0 .. Len(location) /\ eof \in BOOLEAN
  /\ pcm \in Seq(Sample) /\ i \in Nat \ {0}
  /\ ptr \in Nat /\ bit_index \in 0 .. 8
  /\ decode_buf \in [0 .. HeaderLen + Chunk - 1 -> Byte]
  /\ bits_read \in Nat /\ total_bits_read \in Nat /\ header_done \in BOOLEAN
  /\ written \in Seq(Byte)

DecReading ==
  pc = "take" => /\ Len(pcm) <= pos /\ i <= Len(pcm) + 1
                 /\ \A k \in 1 .. Len(pcm) :
                      pcm[k] = location[pos - Len(pcm) + k]

(* What has been written is the beginning of the file, and all of it once  *)
(* enough bits have been read.                                             *)
Writing ==
  /\ total_bits_written = 8 * Len(written) /\ Len(written) <= Len(file)
  /\ 8 * Len(written) <= total_bits_read
  /\ \A k \in 1 .. Len(written) : written[k] = file[k]
  /\ header_done /\ total_bits_read >= 8 * Len(file)
       => Len(written) = Len(file)

Phase ==
  /\ header_done =>
       /\ pc # "header"
       /\ \A h \in 0 .. HeaderLen - 1 : decode_buf[h] = HeaderFor(file)[h + 1]
       /\ pc = "take" => ptr >= HeaderLen
  /\ ~header_done =>
       /\ pc \in {"header", "take", "failed", "smashed"}
       /\ written = <<>>
       /\ pc = "header" => total_bits_read < pstat_bits
  /\ pc = "done" => eof \/ total_bits_read >= 8 * Len(file)

(* There is something left to write.                                       *)
Live ==
  /\ pc \in {"header", "take", "write", "data"}
  /\ header_done => total_bits_read < 8 * Len(file)

(* The bits counted, behind the header once it is done.                    *)
Counted ==
  (IF Between THEN total_bits_read ELSE total_bits_read + bits_read)
  + (IF header_done THEN pstat_bits ELSE 0)

(* The bytes of the stream that have left the buffer are those written.    *)
DecCounting ==
  Live => /\ Carriers(location, Taken) = Counted
          /\ \/ Between /\ bit_index = 8
             \/ /\ At \in 0 .. HeaderLen + Chunk - 1
                /\ 8 * (At + Len(written)) + bit_index = Counted

(* The byte of the stream that byte a of decode_buf is for.                *)
ByteOfStream(a) == IF a < HeaderLen THEN a ELSE a + Len(written)

Right(a, b) ==
  LET m == ByteOfStream(a)
  IN  m < Len(Stream) => decode_buf[a][b] = Stream[m + 1][b]

(* Every bit in front of the next one is the stream's, those behind it in  *)
(* its byte are zero.                                                      *)
Bits ==
  Live => \/ Between /\ bit_index = 8
          \/ /\ \A a \in 0 .. At, b \in 0 .. 7 :
                  a < At \/ b < bit_index => Right(a, b)
             /\ \A b \in 0 .. 7 : b >= bit_index => decode_buf[At][b] = 0

Decoding ==
  Decodes => /\ DecTypes /\ DecReading /\ Writing /\ Phase
             /\ DecCounting /\ Bits

Modes ==
  \/ mode = "encode"
  \/ /\ mode = "decode"
     /\ pc \in {"header", "take", "write", "data", "done", "failed", "smashed"}

Inv == Inputs /\ Modes /\ Location /\ Encoding /\ Decoding

-----------------------------------------------------------------------------
(* Sizes and inputs.                                                       *)
LEMMA Sizes ==
  /\ HeaderLen \in Nat \ {0} /\ Chunk \in Nat \ {0} /\ HeaderLen < Chunk
  /\ Garbage \in Byte /\ Audios \subseteq Seq(Sample) /\ Files \subseteq Seq(Byte)
BY FlipAssumption

(* Samples are numbers.                                                    *)
LEMMA SamplesAreNat ==
  ASSUME NEW s \in Seq(Sample), NEW j \in 1 .. Len(s)
  PROVE  s[j] \in Nat
<1>1. PICK v : v = s[j]
  OBVIOUS
<1>2. v \in Sample
  BY <1>1, ElementOfSeq
<1>3. QED
  BY <1>1, <1>2, SampleNat

(* What a concatenation of bytes holds.                                    *)
LEMMA Joins ==
  ASSUME NEW B, NEW s \in Seq(B), NEW t \in Seq(B)
  PROVE  /\ s \o t \in Seq(B) /\ Len(s \o t) = Len(s) + Len(t)
         /\ \A j \in 1 .. Len(s) : (s \o t)[j] = s[j]
         /\ \A j \in 1 .. Len(t) : (s \o t)[Len(s) + j] = t[j]
  OBVIOUS

(* A piece of a sequence.                                                  *)
LEMMA Slice ==
  ASSUME NEW B, NEW s \in Seq(B), NEW g \in Nat, NEW n \in Nat,
         g + n <= Len(s)
  PROVE  /\ SubSeq(s, g + 1, g + n) \in Seq(B)
         /\ Len(SubSeq(s, g + 1, g + n)) = n
         /\ \A k \in 1 .. n : SubSeq(s, g + 1, g + n)[k] = s[g + k]
  OBVIOUS

(* The stream is the header and the file behind it.                        *)
LEMMA StreamIs ==
  ASSUME Inputs
  PROVE  /\ audio \in Seq(Sample) /\ Len(audio) \in Nat
         /\ file \in Seq(Byte) /\ Len(file) \in Nat
         /\ HeaderFor(file) \in Seq(Byte) /\ Len(HeaderFor(file)) = HeaderLen
         /\ Stream \in Seq(Byte) /\ Len(Stream) = HeaderLen + Len(file)
         /\ \A h \in 1 .. HeaderLen : Stream[h] = HeaderFor(file)[h]
         /\ \A k \in 1 .. Len(file) : Stream[HeaderLen + k] = file[k]
<1>1. /\ audio \in Seq(Sample) /\ file \in Seq(Byte) /\ file \in Files
      /\ HeaderFor(file) \in Seq(Byte) /\ Len(HeaderFor(file)) = HeaderLen
  BY FlipAssumption DEF Inputs
<1>2. PICK h \in Seq(Byte), f \in Seq(Byte) : h = HeaderFor(file) /\ f = file
  BY <1>1
<1>3. /\ h \o f \in Seq(Byte) /\ Len(h \o f) = Len(h) + Len(f)
      /\ \A j \in 1 .. Len(h) : (h \o f)[j] = h[j]
      /\ \A j \in 1 .. Len(f) : (h \o f)[Len(h) + j] = f[j]
  BY Joins
<1>4. Stream = h \o f /\ Len(h) = HeaderLen
  BY <1>1, <1>2 DEF Stream
<1>5. Len(audio) \in Nat /\ Len(f) \in Nat
  BY <1>1, LenProperties
<1>6. QED
  BY <1>1, <1>2, <1>3, <1>4, <1>5

(* The bits of the stream.                                                 *)
LEMMA StreamBits ==
  ASSUME Inputs, NEW m \in Nat, m < Len(Stream), NEW b \in 0 .. 7
  PROVE  Stream[m + 1][b] \in Bit
<1>1. m + 1 \in 1 .. Len(Stream)
  BY StreamIs
<1>2. Stream[m + 1] \in Byte
  BY <1>1, StreamIs, ElementOfSeq
<1>3. QED
  BY <1>2 DEF Byte

(* A bit of the stream by its number.                                      *)
LEMMA BitNumber ==
  ASSUME NEW m \in Nat, NEW b \in 0 .. 7, NEW c, c = 8 * m + b, NEW n \in Nat
  PROVE  /\ c \in Nat /\ c \div 8 = m /\ c % 8 = b
         /\ c < 8 * n <=> m < n
  BY BytePosition

(* Every number is that of a bit of a byte.                                *)
LEMMA BitOf ==
  ASSUME NEW n \in Nat
  PROVE  \E m \in Nat, b \in 0 .. 7 : n = 8 * m + b
<1>1. n \div 8 \in Nat /\ n % 8 \in 0 .. 7 /\ n = 8 * (n \div 8) + (n % 8)
  OBVIOUS
<1>2. QED
  BY <1>1

-----------------------------------------------------------------------------
(* Init.                                                                   *)
LEMMA InitInv == Init => Inv
<1> SUFFICES ASSUME Init
             PROVE  Inv
  OBVIOUS
<1> USE DEF Init
<1>1. Inputs /\ Modes /\ Location
  BY DEF Inputs, Modes, Location
<1>2. <<>> \in Seq(Sample) /\ Len(<<>>) = 0 /\ <<>> \in Seq(Byte)
  OBVIOUS
<1>3. EncTypes
  <2>1. /\ pc = "start" /\ eof = FALSE /\ pcm = <<>> /\ i = 1 /\ bit_index = 0
        /\ pos = 0 /\ ptr = 0 /\ out = <<>> /\ fpos = 0 /\ still_encoding = TRUE
        /\ encode_buf = HeaderFor(file)
    OBVIOUS
  <2>2. encode_buf \in Seq(Byte) /\ 0 \in 0 .. Len(file) /\ 0 \in 0 .. Len(audio)
    BY <1>1, <2>1, StreamIs
  <2>3. pc \in {"start", "encode", "put", "done", "failed"} /\ eof \in BOOLEAN
        /\ still_encoding \in BOOLEAN
    BY <2>1, Zenon
  <2>4. pos \in 0 .. Len(audio) /\ pcm \in Seq(Sample) /\ out \in Seq(Sample)
        /\ i \in Nat \ {0} /\ fpos \in 0 .. Len(file) /\ ptr \in Nat
        /\ bit_index \in 0 .. 8
    BY ONLY <1>2, <2>1, <2>2
  <2>5. QED
    BY <2>2, <2>3, <2>4, Zenon DEF EncTypes
<1>4. EncReading
  BY <1>2 DEF EncReading
<1>5. Len(encode_buf) = HeaderLen /\ Origin = 0
  BY <1>1, StreamIs, Sizes DEF Origin
<1>6. EncBuffer
  <2>1. ASSUME NEW k \in 1 .. HeaderLen
        PROVE  encode_buf[k] = Stream[0 + k]
    BY <1>1, StreamIs
  <2>2. QED
    BY <1>5, <2>1 DEF EncBuffer
<1>7. EncCounting
  BY <1>2, <1>5, Sizes, CarriersZero DEF EncCounting, Decided
<1>8. EncImage
  BY <1>2 DEF EncImage
<1>9. NotDecoded
  BY Sizes DEF NotDecoded
<1>10. QED
  BY <1>1, <1>3, <1>4, <1>6, <1>7, <1>8, <1>9
  DEF Inv, Encoding, Decoding, Decodes

-----------------------------------------------------------------------------
(* The encoder's steps.                                                    *)

(* main, -e.                                                               *)
LEMMA StartEncodeInv == Inv /\ StartEncode => Inv'
<1> SUFFICES ASSUME Inv, StartEncode
             PROVE  Inv'
  OBVIOUS
<1>1. /\ pc = "start" /\ mode = "encode" /\ pc' = "encode" /\ mode' = mode
      /\ audio' = audio /\ file' = file /\ location' = location
      /\ pos' = pos /\ eof' = eof /\ pcm' = pcm /\ i' = i
      /\ bit_index' = bit_index /\ ptr' = ptr /\ out' = out
      /\ encode_buf' = encode_buf /\ fpos' = fpos
      /\ still_encoding' = still_encoding /\ UNCHANGED decoder
  BY DEF StartEncode, pipe, encoder
<1>2. /\ Inputs /\ Location /\ EncTypes /\ EncReading /\ EncBuffer
      /\ EncCounting /\ EncImage /\ NotDecoded
  BY <1>1 DEF Inv, Encoding
<1>3. Inputs' /\ Modes' /\ Location'
  BY <1>1, <1>2 DEF Inputs, Modes, Location
<1>4. EncTypes' /\ EncReading'
  BY <1>1, <1>2 DEF EncTypes, EncReading
<1>5. Stream' = Stream /\ Origin' = Origin /\ Decided' = Decided
  BY <1>1 DEF Stream, Origin, Decided
<1>6. EncBuffer' /\ EncCounting'
  BY <1>1, <1>2, <1>5 DEF EncBuffer, EncCounting
<1>7. EncImage' /\ NotDecoded'
  BY <1>1, <1>2, <1>5 DEF EncImage, NotDecoded, decoder, counts
<1>8. QED
  BY <1>1, <1>3, <1>4, <1>6, <1>7 DEF Inv, Encoding, Decoding, Decodes

(* fread of a round: the next samples, fewer than it asks for only at the  *)
(* end.                                                                    *)
LEMMA ReadSome ==
  ASSUME NEW samples \in Seq(Sample), pos \in 0 .. Len(samples),
         NEW n \in Nat \ {0}, FRead(samples, n)
  PROVE  \E got \in Nat :
           /\ pos + got <= Len(samples) /\ pos' = pos + got
           /\ pcm' \in Seq(Sample) /\ Len(pcm') = got /\ i' = 1
           /\ \A k \in 1 .. got : pcm'[k] = samples[pos + k]
           /\ eof' \in BOOLEAN /\ (eof' => pos' = Len(samples))
           /\ (got = 0 => eof' = TRUE)
<1>1. PICK left \in Nat : left = Len(samples) - pos
  BY LenProperties
<1>2. PICK got \in Nat : got = LesserOf(n, left) /\ got <= left
  BY DEF LesserOf
<1>3. /\ pos' = pos + got /\ i' = 1 /\ eof' = (got < n)
      /\ pcm' = SubSeq(samples, pos + 1, pos + got)
  BY <1>1, <1>2 DEF FRead
<1>4. pos \in Nat /\ pos + got <= Len(samples)
  BY <1>1, <1>2
<1>5. /\ pcm' \in Seq(Sample) /\ Len(pcm') = got
      /\ \A k \in 1 .. got : pcm'[k] = samples[pos + k]
  <2>1. /\ SubSeq(samples, pos + 1, pos + got) \in Seq(Sample)
        /\ Len(SubSeq(samples, pos + 1, pos + got)) = got
        /\ \A k \in 1 .. got :
             SubSeq(samples, pos + 1, pos + got)[k] = samples[pos + k]
    BY <1>4, Slice
  <2>2. QED
    BY <1>3, <2>1
<1>6. (got < n => got = left) /\ (got = 0 => got < n)
  BY <1>2 DEF LesserOf
<1>7. got < n => pos' = Len(samples)
  BY <1>1, <1>3, <1>4, <1>6
<1>8. eof' \in BOOLEAN
  BY <1>3, (got < n) \in BOOLEAN
<1>9. eof' => pos' = Len(samples)
  BY <1>3, <1>7
<1>10. got = 0 => eof' = TRUE
  BY <1>3, <1>6
<1>11. QED
  BY <1>3, <1>4, <1>5, <1>8, <1>9, <1>10

(* A round is read: nothing in it is decided yet.                          *)
LEMMA EncodeReadInv == Inv /\ EncodeRead => Inv'
<1> SUFFICES ASSUME Inv, EncodeRead
             PROVE  Inv'
  OBVIOUS
<1>1. /\ pc = "encode" /\ ~eof /\ FRead(audio, Chunk) /\ mode' = mode
      /\ pc' = (IF pcm' = <<>> THEN "failed" ELSE "put")
      /\ audio' = audio /\ file' = file /\ location' = location
      /\ bit_index' = bit_index /\ ptr' = ptr /\ out' = out
      /\ encode_buf' = encode_buf /\ fpos' = fpos
      /\ still_encoding' = still_encoding /\ UNCHANGED decoder
  BY DEF EncodeRead, AfterRead, encoder
<1>2. mode = "encode"
  BY <1>1 DEF Inv, Modes
<1>3. /\ Inputs /\ Location /\ EncTypes /\ EncReading /\ EncBuffer
      /\ EncCounting /\ EncImage /\ NotDecoded
  BY <1>2 DEF Inv, Encoding
<1>4. /\ audio \in Seq(Sample) /\ Len(audio) \in Nat
      /\ pos \in 0 .. Len(audio) /\ out \in Seq(Sample) /\ Len(out) \in Nat
      /\ pos = Len(out)
  BY <1>1, <1>3, StreamIs, LenProperties DEF EncTypes, EncReading
<1>5. PICK got \in Nat :
        /\ pos + got <= Len(audio) /\ pos' = pos + got
        /\ pcm' \in Seq(Sample) /\ Len(pcm') = got /\ i' = 1
        /\ \A k \in 1 .. got : pcm'[k] = audio[pos + k]
        /\ eof' \in BOOLEAN /\ (eof' => pos' = Len(audio))
  BY <1>1, <1>4, Sizes, ReadSome
<1>6. Inputs' /\ Modes' /\ Location'
  BY <1>1, <1>2, <1>3 DEF Inputs, Modes, Location
<1>7. EncTypes'
  BY <1>1, <1>3, <1>4, <1>5 DEF EncTypes
<1>8. EncReading'
  BY <1>1, <1>4, <1>5 DEF EncReading
<1>9. /\ Stream' = Stream /\ Origin' = Origin
      /\ Decided = Len(out) /\ Decided' = Len(out)
  BY <1>1, <1>4, <1>5 DEF Stream, Origin, Decided
<1>10. EncBuffer' /\ EncCounting'
  BY <1>1, <1>3, <1>9 DEF EncBuffer, EncCounting
<1>11. EncImage'
  <2>1. \A k \in 1 .. Len(pcm') : ~(k < i') /\ pcm'[k] = audio[Len(out) + k]
    BY <1>4, <1>5
  <2>2. QED
    BY <1>1, <1>3, <1>9, <2>1 DEF EncImage
<1>12. NotDecoded'
  BY <1>1, <1>3 DEF NotDecoded, decoder, counts
<1>13. QED
  BY <1>1, <1>2, <1>6, <1>7, <1>8, <1>10, <1>11, <1>12
  DEF Inv, Encoding, Decoding, Decodes

(* What FileRead gives: the next bytes of the file, none only at its end.  *)
LEMMA FileReadIs ==
  ASSUME Inputs, fpos \in 0 .. Len(file)
  PROVE  \E n \in Nat :
           /\ FileRead \in Seq(Byte) /\ Len(FileRead) = n
           /\ fpos + n <= Len(file) /\ (n = 0 => fpos = Len(file))
           /\ \A k \in 1 .. n : FileRead[k] = Stream[HeaderLen + fpos + k]
<1>1. file \in Seq(Byte) /\ Len(file) \in Nat
  BY StreamIs
<1>2. PICK n \in Nat : n = LesserOf(fpos + Chunk, Len(file)) - fpos
  BY <1>1, Sizes DEF LesserOf
<1>3. /\ LesserOf(fpos + Chunk, Len(file)) = fpos + n
      /\ fpos + n <= Len(file) /\ (n = 0 => fpos = Len(file))
  BY <1>1, <1>2, Sizes DEF LesserOf
<1>4. FileRead = SubSeq(file, fpos + 1, fpos + n)
  BY <1>3 DEF FileRead
<1>5. fpos \in Nat
  BY <1>1
<1>6. /\ SubSeq(file, fpos + 1, fpos + n) \in Seq(Byte)
      /\ Len(SubSeq(file, fpos + 1, fpos + n)) = n
      /\ \A k \in 1 .. n : SubSeq(file, fpos + 1, fpos + n)[k] = file[fpos + k]
  BY <1>1, <1>3, <1>5, Slice
<1>7. ASSUME NEW k \in 1 .. n
      PROVE  FileRead[k] = Stream[HeaderLen + fpos + k]
  <2>1. fpos + k \in 1 .. Len(file) /\ HeaderLen + (fpos + k) = HeaderLen + fpos + k
    BY <1>1, <1>3, <1>5, Sizes
  <2>2. FileRead[k] = file[fpos + k]
    BY <1>4, <1>6
  <2>3. QED
    BY <2>1, <2>2, StreamIs
<1>8. QED
  BY <1>3, <1>4, <1>6, <1>7

(* The cursor that PutSample moves to, before it puts a bit.               *)
NextAt    == IF bit_index >= 8 THEN ptr + 1 ELSE ptr
NextBit   == IF bit_index >= 8 THEN 0 ELSE bit_index
NextBytes == IF NextAt >= Len(encode_buf) THEN FileRead ELSE encode_buf
NextPtr   == IF NextAt >= Len(encode_buf) THEN 0 ELSE NextAt
NextFpos  == IF NextAt >= Len(encode_buf) THEN fpos + Len(NextBytes) ELSE fpos

(* Where the next sample's bit comes from: the buffer after a full byte is *)
(* left and an empty buffer is filled holds it, unless the stream is over. *)
LEMMA NextByte ==
  ASSUME Inputs, EncTypes, EncBuffer, EncCounting, pc = "put",
         NEW c \in Nat, c = Carriers(audio, Decided)
  PROVE  /\ NextBytes \in Seq(Byte) /\ NextFpos \in 0 .. Len(file) /\ NextPtr \in Nat
         /\ NextBit \in 0 .. 7
         /\ HeaderLen + NextFpos - Len(NextBytes) \in Nat
         /\ \A k \in 1 .. Len(NextBytes) :
              NextBytes[k] = Stream[HeaderLen + NextFpos - Len(NextBytes) + k]
         /\ IF still_encoding /\ NextBytes # <<>>
            THEN /\ NextPtr < Len(NextBytes)
                 /\ c = 8 * (HeaderLen + NextFpos - Len(NextBytes) + NextPtr) + NextBit
            ELSE NextFpos = Len(file) /\ c >= 8 * Len(Stream)
<1>. /\ NextAt = (IF bit_index >= 8 THEN ptr + 1 ELSE ptr)
     /\ NextBit = (IF bit_index >= 8 THEN 0 ELSE bit_index)
     /\ NextBytes = (IF NextAt >= Len(encode_buf) THEN FileRead ELSE encode_buf)
     /\ NextPtr = (IF NextAt >= Len(encode_buf) THEN 0 ELSE NextAt)
     /\ NextFpos = (IF NextAt >= Len(encode_buf) THEN fpos + Len(NextBytes)
                                                ELSE fpos)
  BY DEF NextAt, NextBit, NextBytes, NextPtr, NextFpos
<1>1. /\ fpos \in Nat /\ fpos <= Len(file) /\ Len(file) \in Nat
      /\ encode_buf \in Seq(Byte) /\ Len(encode_buf) \in Nat
      /\ ptr \in Nat /\ bit_index \in 0 .. 8
      /\ Len(Stream) = HeaderLen + Len(file) /\ HeaderLen \in Nat
  BY StreamIs, Sizes, LenProperties DEF EncTypes
<1>2. /\ Origin \in Nat /\ Origin = HeaderLen + fpos - Len(encode_buf)
      /\ \A k \in 1 .. Len(encode_buf) : encode_buf[k] = Stream[Origin + k]
  BY DEF EncBuffer, Origin
<1>0. Origin \in Nat /\ HeaderLen + fpos = Origin + Len(encode_buf)
  BY ONLY <1>1, <1>2
<1>3. PICK o \in Nat, n \in Nat :
        /\ o = Origin /\ n = Len(encode_buf) /\ HeaderLen + fpos = o + n
  BY ONLY <1>0, <1>1
<1>4. NextBit \in 0 .. 7 /\ NextAt \in Nat /\ 8 * NextAt + NextBit = 8 * ptr + bit_index
  <2>1. CASE bit_index >= 8
    BY <1>1, <2>1
  <2>2. CASE bit_index < 8
    <3>1. NextAt = ptr /\ NextBit = bit_index
      BY <1>1, <2>2
    <3>2. QED
      BY <1>1, <2>2, <3>1
  <2>3. QED
    BY <1>1, <2>1, <2>2
<1>5. CASE NextAt < Len(encode_buf)
  <2>1. NextBytes = encode_buf /\ NextPtr = NextAt /\ NextFpos = fpos /\ NextBytes # <<>>
    <3>1. ~(NextAt >= Len(encode_buf)) /\ Len(encode_buf) # 0
      BY <1>1, <1>4, <1>5
    <3>2. QED
      BY <3>1, Len(<<>>) = 0
  <2>2. HeaderLen + NextFpos - Len(NextBytes) = Origin
    BY <1>2, <2>1
  <2>3. /\ NextBytes \in Seq(Byte) /\ NextFpos \in 0 .. Len(file) /\ NextPtr \in Nat
        /\ NextPtr < Len(NextBytes)
        /\ \A k \in 1 .. Len(NextBytes) : NextBytes[k] = Stream[Origin + k]
    BY <1>1, <1>2, <1>4, <1>5, <2>1
  <2>4. CASE still_encoding
    <3>1. c = 8 * (Origin + ptr) + bit_index
      BY <2>4 DEF EncCounting
    <3>2. c = 8 * (Origin + NextPtr) + NextBit
      BY ONLY <1>0, <1>1, <1>4, <2>1, <3>1
    <3>3. QED
      BY <1>2, <1>4, <2>1, <2>2, <2>3, <2>4, <3>2
  <2>5. CASE ~still_encoding
    <3>1. fpos = Len(file) /\ c >= 8 * Len(Stream)
      BY <2>5 DEF EncCounting
    <3>2. QED
      BY <1>2, <1>4, <2>1, <2>2, <2>3, <2>5, <3>1
  <2>6. QED
    BY <2>4, <2>5
<1>6. CASE NextAt >= Len(encode_buf)
  <2>1. PICK got \in Nat :
          /\ FileRead \in Seq(Byte) /\ Len(FileRead) = got
          /\ fpos + got <= Len(file) /\ (got = 0 => fpos = Len(file))
          /\ \A k \in 1 .. got : FileRead[k] = Stream[HeaderLen + fpos + k]
    <3>1. fpos \in 0 .. Len(file)
      BY ONLY <1>1
    <3>2. QED
      BY ONLY Inputs, <3>1, FileReadIs
  <2>2. NextBytes = FileRead /\ NextPtr = 0 /\ NextFpos = fpos + got /\ Len(NextBytes) = got
    BY <1>6, <2>1
  <2>3. HeaderLen + NextFpos - Len(NextBytes) = HeaderLen + fpos
    <3>1. got \in Nat
      OBVIOUS
    <3>2. QED
      BY ONLY <1>1, <2>2, <3>1
  <2>4. /\ NextBytes \in Seq(Byte) /\ NextFpos \in 0 .. Len(file) /\ NextPtr \in Nat
        /\ HeaderLen + fpos \in Nat
        /\ \A k \in 1 .. Len(NextBytes) : NextBytes[k] = Stream[HeaderLen + fpos + k]
    BY <1>1, <2>1, <2>2
  <2>5. NextBytes # <<>> => 0 < Len(NextBytes)
    BY <2>1, <2>2, EmptySeq
  <2>6. NextBytes = <<>> => NextFpos = Len(file) /\ fpos = Len(file)
    BY <1>1, <2>1, <2>2, Len(<<>>) = 0
  <2>7. CASE still_encoding
    <3>1. ptr < n /\ c = 8 * (o + ptr) + bit_index
      BY <1>3, <2>7 DEF EncCounting
    <3>2. NextAt >= n
      BY <1>3, <1>6
    <3>3. NextAt = n /\ NextBit = 0
      BY <1>1, <1>3, <1>4, <3>1, <3>2
    <3>4. c = 8 * (o + n)
      <4>1. /\ o \in Nat /\ n \in Nat /\ ptr \in Nat /\ bit_index \in Nat
            /\ NextAt = n /\ NextBit = 0 /\ c = 8 * (o + ptr) + bit_index
            /\ 8 * NextAt + NextBit = 8 * ptr + bit_index
        BY <1>1, <1>4, <3>1, <3>3
      <4>2. QED
        BY ONLY <4>1
    <3>5. c = 8 * (HeaderLen + fpos)
      BY <1>3, <3>4
    <3>6. c = 8 * (HeaderLen + NextFpos - Len(NextBytes) + NextPtr) + NextBit
      <4>1. /\ HeaderLen + fpos \in Nat /\ NextPtr = 0 /\ NextBit = 0
            /\ HeaderLen + NextFpos - Len(NextBytes) = HeaderLen + fpos
            /\ c = 8 * (HeaderLen + fpos)
        BY <2>2, <2>3, <2>4, <3>3, <3>5
      <4>2. (HeaderLen + fpos) + 0 = HeaderLen + fpos
            /\ 8 * (HeaderLen + fpos) + 0 = 8 * (HeaderLen + fpos)
        BY ONLY <4>1
      <4>3. QED
        BY ONLY <4>1, <4>2
    <3>7. NextBytes = <<>> => c >= 8 * Len(Stream)
      BY <1>1, <2>6, <3>5
    <3>8. QED
      BY <1>4, <2>2, <2>3, <2>4, <2>5, <2>6, <2>7, <3>6, <3>7
  <2>8. CASE ~still_encoding
    <3>1. fpos = Len(file) /\ c >= 8 * Len(Stream)
      BY <2>8 DEF EncCounting
    <3>2. NextFpos = Len(file)
      BY <1>1, <2>1, <2>2, <3>1
    <3>3. QED
      BY <1>4, <2>3, <2>4, <2>8, <3>1, <3>2
  <2>9. QED
    BY <2>7, <2>8
<1>7. NextAt < Len(encode_buf) \/ NextAt >= Len(encode_buf)
  BY <1>1, <1>4
<1>8. QED
  BY <1>5, <1>6, <1>7, Zenon

(* The sample at hand, and what it is worth in the count.                  *)
LEMMA SampleAtHand ==
  ASSUME Inputs, EncTypes, EncReading, EncImage, pc = "put", i <= Len(pcm)
  PROVE  /\ i \in 1 .. Len(pcm) /\ Len(out) \in Nat /\ Len(pcm) \in Nat
         /\ Len(out) + i \in 1 .. Len(audio)
         /\ pcm[i] = audio[Len(out) + i] /\ pcm[i] \in Sample
         /\ Decided = Len(out) + i - 1 /\ Decided \in Nat
         /\ Carriers(audio, Decided) \in Nat
         /\ Carriers(audio, Decided + 1) =
              Carriers(audio, Decided) + (IF Encodable(pcm[i]) THEN 1 ELSE 0)
<1>1. /\ i \in 1 .. Len(pcm) /\ Len(out) \in Nat /\ Len(pcm) \in Nat
      /\ pos \in 0 .. Len(audio) /\ Len(audio) \in Nat
      /\ pos = Len(out) + Len(pcm)
  BY StreamIs, LenProperties DEF EncTypes, EncReading
<1>2. Len(out) + i \in 1 .. Len(audio)
  BY <1>1
<1>3. pcm[i] = audio[Len(out) + i]
  <2>1. ~(i < i)
    BY <1>1
  <2>2. QED
    BY <1>1, <2>1 DEF EncImage
<1>4. pcm[i] \in Sample
  BY <1>2, <1>3, StreamIs, ElementOfSeq
<1>5. /\ Decided = Len(out) + i - 1 /\ Decided \in Nat
      /\ Decided + 1 = Len(out) + i
  BY <1>1 DEF Decided
<1>6. QED
  BY <1>1, <1>2, <1>3, <1>4, <1>5, CarriersType, CarriersNext

(* The bit that the stream has for a sample that c carriers precede.       *)
LEMMA StreamBitAt ==
  ASSUME Inputs, NEW m \in Nat, m < Len(Stream), NEW b \in 0 .. 7,
         NEW j \in Nat, NEW recording,
         Carriers(recording, j - 1) = 8 * m + b, Encodable(recording[j])
  PROVE  CoveredAt(recording, Stream, j) =
           SetLowBit(recording[j], Stream[m + 1][b])
<1>1. Len(Stream) \in Nat
  BY StreamIs, Sizes
<1>2. PICK c \in Nat : c = 8 * m + b /\ c = Carriers(recording, j - 1)
  OBVIOUS
<1>3. c \div 8 = m /\ c % 8 = b
  BY <1>2, BitNumber
<1>4. c < 8 * Len(Stream)
  BY <1>1, <1>2
<1>5. QED
  BY <1>2, <1>3, <1>4 DEF CoveredAt

(* One turn of the inner loop.                                             *)
LEMMA PutSampleInv == Inv /\ PutSample => Inv'
<1> SUFFICES ASSUME Inv, PutSample
             PROVE  Inv'
  OBVIOUS
<1> DEFINE b     == NextBit
           bytes == NextBytes
           byte  == NextPtr
           read  == NextFpos
           still == still_encoding /\ bytes # <<>>
           puts  == still /\ Encodable(pcm[i])
           s == IF puts THEN SetLowBit(pcm[i], bytes[byte + 1][b]) ELSE pcm[i]
           c == Carriers(audio, Decided)
           j == Len(out) + i
           m == HeaderLen + read - Len(bytes)
<1>1. /\ pc = "put" /\ i <= Len(pcm) /\ pc' = pc /\ i' = i + 1
      /\ audio' = audio /\ file' = file /\ location' = location
      /\ mode' = mode /\ pos' = pos /\ eof' = eof /\ out' = out
      /\ UNCHANGED decoder
  BY DEF PutSample
<1>2. /\ encode_buf' = bytes /\ fpos' = read /\ ptr' = byte
      /\ still_encoding' = still
      /\ bit_index' = (IF puts THEN b + 1 ELSE b)
      /\ pcm' = IF puts THEN [pcm EXCEPT ![i] = SetLowBit(@, bytes[byte + 1][b])]
                        ELSE pcm
  BY DEF PutSample, NextAt, NextBit, NextBytes, NextPtr, NextFpos
<1>3. mode = "encode"
  BY <1>1 DEF Inv, Modes
<1>4. /\ Inputs /\ Location /\ EncTypes /\ EncReading /\ EncBuffer
      /\ EncCounting /\ EncImage /\ NotDecoded
  BY <1>3 DEF Inv, Encoding
<1>5. /\ i \in 1 .. Len(pcm) /\ Len(out) \in Nat /\ Len(pcm) \in Nat
      /\ j \in 1 .. Len(audio)
      /\ pcm[i] = audio[j] /\ pcm[i] \in Sample
      /\ Decided = j - 1 /\ Decided \in Nat /\ c \in Nat
      /\ Carriers(audio, Decided + 1) =
           c + (IF Encodable(pcm[i]) THEN 1 ELSE 0)
  BY <1>1, <1>4, SampleAtHand
<1>6. /\ bytes \in Seq(Byte) /\ read \in 0 .. Len(file) /\ byte \in Nat
      /\ b \in 0 .. 7 /\ m \in Nat
      /\ \A k \in 1 .. Len(bytes) : bytes[k] = Stream[m + k]
      /\ IF still THEN byte < Len(bytes) /\ c = 8 * (m + byte) + b
                  ELSE read = Len(file) /\ c >= 8 * Len(Stream)
  BY <1>1, <1>4, <1>5, NextByte
<1>7. /\ Len(bytes) \in Nat /\ Len(Stream) \in Nat
      /\ m + Len(bytes) = HeaderLen + read /\ m + Len(bytes) <= Len(Stream)
  <2> HIDE DEF bytes, read
  <2>1. Len(bytes) \in Nat /\ Len(file) \in Nat /\ HeaderLen \in Nat
        /\ Len(Stream) = HeaderLen + Len(file)
    BY <1>4, <1>6, StreamIs, Sizes, LenProperties
  <2>2. QED
    BY <1>6, <2>1
<1> HIDE DEF bytes, byte, read, b, m, c, j
<1>8. still => /\ m + byte \in Nat /\ m + byte < Len(Stream)
               /\ bytes[byte + 1] = Stream[m + byte + 1]
               /\ bytes[byte + 1][b] \in Bit
  <2> SUFFICES ASSUME still
               PROVE  /\ m + byte \in Nat /\ m + byte < Len(Stream)
                      /\ bytes[byte + 1] = Stream[m + byte + 1]
                      /\ bytes[byte + 1][b] \in Bit
    OBVIOUS
  <2>1. byte < Len(bytes) /\ byte + 1 \in 1 .. Len(bytes)
    BY <1>6, <1>7
  <2>2. m + byte \in Nat /\ m + byte < Len(Stream) /\ m + (byte + 1) = m + byte + 1
    BY <1>6, <1>7, <2>1
  <2>3. bytes[byte + 1] = Stream[m + byte + 1]
    BY <1>6, <2>1, <2>2
  <2>4. QED
    BY <1>4, <1>6, <2>2, <2>3, StreamBits
<1> HIDE DEF still
<1>9. s \in Sample /\ s = CoveredAt(audio, Stream, j)
  <2>1. CASE puts
    <3>1. Encodable(audio[j]) /\ c = 8 * (m + byte) + b
      BY <1>5, <1>6, <2>1
    <3>2. j \in Nat /\ Carriers(audio, j - 1) = 8 * (m + byte) + b
      BY <1>5, <3>1 DEF c
    <3>3. CoveredAt(audio, Stream, j) =
            SetLowBit(audio[j], Stream[m + byte + 1][b])
      <4>1. m + byte \in Nat /\ m + byte < Len(Stream) /\ b \in 0 .. 7
        BY <1>6, <1>8, <2>1
      <4>2. QED
        BY ONLY <1>4, <3>1, <3>2, <4>1, StreamBitAt, ZenonT(30)
    <3>4. s = CoveredAt(audio, Stream, j)
      BY <1>5, <1>8, <2>1, <3>3
    <3>5. QED
      BY <1>5, <1>8, <2>1, <3>4, SetLowBitCorrect
  <2>2. CASE ~puts
    <3>1. ~(Encodable(audio[j]) /\ c < 8 * Len(Stream))
      BY <1>5, <1>6, <1>7, <2>2
    <3>2. CoveredAt(audio, Stream, j) = audio[j]
      BY <1>5, <3>1 DEF CoveredAt, c
    <3>3. QED
      BY <1>5, <2>2, <3>2
  <2>3. QED
    BY <2>1, <2>2
<1>10. pcm' = [pcm EXCEPT ![i] = s]
  <2>1. CASE puts
    BY <1>2, <1>5, <2>1
  <2>2. CASE ~puts
    <3>1. pcm' = pcm /\ s = pcm[i]
      BY <1>2, <2>2
    <3>2. pcm \in [1 .. Len(pcm) -> Sample]
      BY <1>4, LenProperties DEF EncTypes
    <3>3. QED
      BY <1>5, <3>1, <3>2
  <2>3. QED
    BY <2>1, <2>2
<1> HIDE DEF s
<1>11. /\ pcm' \in Seq(Sample) /\ Len(pcm') = Len(pcm)
       /\ \A k \in 1 .. Len(pcm) : pcm'[k] = IF k = i THEN s ELSE pcm[k]
  <2>1. pcm \in Seq(Sample)
    BY <1>4 DEF EncTypes
  <2>2. QED
    BY <2>1, <1>5, <1>9, <1>10, ExceptSeq
<1>12. /\ Decided' = Decided + 1 /\ Stream' = Stream /\ Origin' = m
       /\ Len(encode_buf') = Len(bytes)
  <2>1. Decided' = Decided + 1
    BY <1>1, <1>5 DEF Decided
  <2>2. Origin' = m
    BY <1>2 DEF Origin, m
  <2>3. QED
    BY <1>1, <1>2, <2>1, <2>2 DEF Stream
<1>13. bit_index' \in 0 .. 8
  BY <1>2, <1>6
<1>14. Inputs' /\ Modes' /\ Location'
  BY <1>1, <1>3, <1>4 DEF Inputs, Modes, Location
<1>15. EncTypes'
  <2>1. still_encoding' \in BOOLEAN
    BY <1>2, still \in BOOLEAN DEF still
  <2>2. QED
    BY <1>1, <1>2, <1>4, <1>5, <1>6, <1>11, <1>13, <2>1 DEF EncTypes
<1>16. EncReading'
  BY <1>1, <1>4, <1>5, <1>11 DEF EncReading
<1>17. EncBuffer'
  BY <1>2, <1>6, <1>12 DEF EncBuffer
<1>18. EncCounting'
  <2>1. Carriers(audio', Decided') = c + (IF Encodable(pcm[i]) THEN 1 ELSE 0)
    BY <1>1, <1>5, <1>12
  <2>2. CASE still
    <3>1. c = 8 * (m + byte) + b /\ byte < Len(bytes)
      BY <1>6, <2>2
    <3>2. Carriers(audio', Decided') = 8 * (m + byte) + bit_index'
      BY <1>2, <1>6, <2>1, <2>2, <3>1
    <3>3. QED
      BY <1>2, <1>12, <2>2, <3>1, <3>2 DEF EncCounting
  <2>3. CASE ~still
    <3>1. read = Len(file) /\ c >= 8 * Len(Stream)
      BY <1>6, <2>3
    <3>2. Carriers(audio', Decided') >= 8 * Len(Stream)
      BY <1>5, <1>7, <2>1, <3>1
    <3>3. QED
      BY <1>1, <1>2, <1>12, <2>3, <3>1, <3>2 DEF EncCounting
  <2>4. QED
    BY <2>2, <2>3
<1>19. EncImage'
  <2>1. \A k \in 1 .. Len(out) : out[k] = CoveredAt(audio, Stream, k)
    BY <1>4 DEF EncImage
  <2>2. ASSUME NEW k \in 1 .. Len(pcm)
        PROVE  pcm'[k] = IF k < i' THEN CoveredAt(audio, Stream, Len(out) + k)
                                   ELSE audio[Len(out) + k]
    <3>1. pcm'[k] = IF k = i THEN s ELSE pcm[k]
      BY <1>11
    <3>2. pcm[k] = IF k < i THEN CoveredAt(audio, Stream, Len(out) + k)
                            ELSE audio[Len(out) + k]
      BY <1>1, <1>4 DEF EncImage
    <3>3. CASE k = i
      BY <3>1, <3>3, <1>1, <1>5, <1>9 DEF j
    <3>4. CASE k # i
      BY <3>1, <3>2, <3>4, <1>1, <1>5
    <3>5. QED
      BY <3>3, <3>4
  <2>3. QED
    BY <1>1, <1>11, <1>12, <2>1, <2>2 DEF EncImage
<1>20. NotDecoded'
  BY <1>1, <1>4 DEF NotDecoded, decoder, counts
<1>21. QED
  BY <1>1, <1>3, <1>14, <1>15, <1>16, <1>17, <1>18, <1>19, <1>20
  DEF Inv, Encoding, Decoding, Decodes

(* fwrite appends a round all of whose samples are decided.                *)
LEMMA EncodeWriteInv == Inv /\ EncodeWrite => Inv'
<1> SUFFICES ASSUME Inv, EncodeWrite
             PROVE  Inv'
  OBVIOUS
<1>1. /\ pc = "put" /\ i > Len(pcm) /\ pc' = "encode" /\ out' = out \o pcm
      /\ audio' = audio /\ file' = file /\ location' = location
      /\ mode' = mode /\ pos' = pos /\ eof' = eof /\ pcm' = pcm /\ i' = i
      /\ bit_index' = bit_index /\ ptr' = ptr /\ encode_buf' = encode_buf
      /\ fpos' = fpos /\ still_encoding' = still_encoding
      /\ UNCHANGED decoder
  BY DEF EncodeWrite, pipe
<1>2. mode = "encode"
  BY <1>1 DEF Inv, Modes
<1>3. /\ Inputs /\ Location /\ EncTypes /\ EncReading /\ EncBuffer
      /\ EncCounting /\ EncImage /\ NotDecoded
  BY <1>2 DEF Inv, Encoding
<1>4. /\ out \in Seq(Sample) /\ pcm \in Seq(Sample)
      /\ Len(out) \in Nat /\ Len(pcm) \in Nat
      /\ i = Len(pcm) + 1 /\ pos = Len(out) + Len(pcm)
  BY <1>1, <1>3, LenProperties DEF EncTypes, EncReading
<1>5. /\ out' \in Seq(Sample) /\ Len(out') = Len(out) + Len(pcm)
      /\ \A k \in 1 .. Len(out) : out'[k] = out[k]
      /\ \A k \in 1 .. Len(pcm) : out'[Len(out) + k] = pcm[k]
  <2>1. /\ out \o pcm \in Seq(Sample)
        /\ Len(out \o pcm) = Len(out) + Len(pcm)
        /\ \A k \in 1 .. Len(out) : (out \o pcm)[k] = out[k]
        /\ \A k \in 1 .. Len(pcm) : (out \o pcm)[Len(out) + k] = pcm[k]
    BY <1>4, Joins
  <2>2. QED
    BY <1>1, <2>1
<1>6. Inputs' /\ Modes' /\ Location'
  BY <1>1, <1>2, <1>3 DEF Inputs, Modes, Location
<1>7. EncTypes'
  BY <1>1, <1>3, <1>5 DEF EncTypes
<1>8. EncReading'
  BY <1>1, <1>3, <1>4, <1>5 DEF EncReading
<1>9. Stream' = Stream /\ Origin' = Origin /\ Decided' = Decided
  BY <1>1, <1>4, <1>5 DEF Stream, Origin, Decided
<1>10. EncBuffer' /\ EncCounting'
  BY <1>1, <1>3, <1>9 DEF EncBuffer, EncCounting
<1>11. EncImage'
  <2>1. ASSUME NEW j \in 1 .. Len(out')
        PROVE  out'[j] = CoveredAt(audio, Stream, j)
    <3>1. CASE j <= Len(out)
      BY <1>3, <1>4, <1>5, <3>1 DEF EncImage
    <3>2. CASE j > Len(out)
      <4>1. PICK k \in 1 .. Len(pcm) : j = Len(out) + k
        BY <1>4, <1>5, <3>2, j - Len(out) \in 1 .. Len(pcm)
      <4>2. k < i
        BY <1>4
      <4>3. pcm[k] = CoveredAt(audio, Stream, Len(out) + k)
        BY <1>1, <1>3, <4>2 DEF EncImage
      <4>4. QED
        BY <1>5, <4>1, <4>3
    <3>3. QED
      BY <1>4, <1>5, <3>1, <3>2
  <2>2. QED
    BY <1>1, <1>9, <2>1 DEF EncImage
<1>12. NotDecoded'
  BY <1>1, <1>3 DEF NotDecoded, decoder, counts
<1>13. QED
  BY <1>1, <1>2, <1>6, <1>7, <1>8, <1>10, <1>11, <1>12
  DEF Inv, Encoding, Decoding, Decodes

(* rename at the end of the audio: what is published is the cover.         *)
LEMMA PublishInv == Inv /\ Publish => Inv'
<1> SUFFICES ASSUME Inv, Publish
             PROVE  Inv'
  OBVIOUS
<1>1. /\ pc = "encode" /\ eof /\ location' = out /\ pc' = "done"
      /\ audio' = audio /\ file' = file /\ mode' = mode
      /\ pos' = pos /\ eof' = eof /\ pcm' = pcm /\ i' = i
      /\ bit_index' = bit_index /\ ptr' = ptr /\ out' = out
      /\ encode_buf' = encode_buf /\ fpos' = fpos
      /\ still_encoding' = still_encoding /\ UNCHANGED decoder
  BY DEF Publish, pipe, encoder
<1>2. mode = "encode"
  BY <1>1 DEF Inv, Modes
<1>3. /\ Inputs /\ Location /\ EncTypes /\ EncReading /\ EncBuffer
      /\ EncCounting /\ EncImage /\ NotDecoded
  BY <1>2 DEF Inv, Encoding
<1>4. out = Covered
  <2>1. Len(out) = Len(audio) /\ out \in Seq(Sample)
    BY <1>1, <1>3 DEF EncReading, EncTypes
  <2>2. out = [j \in 1 .. Len(audio) |-> out[j]]
    BY <2>1, LenProperties
  <2>3. ASSUME NEW j \in 1 .. Len(audio)
        PROVE  out[j] = CoveredAt(audio, Stream, j)
    BY <1>3, <2>1 DEF EncImage
  <2>4. Covered = [j \in 1 .. Len(audio) |-> CoveredAt(audio, Stream, j)]
    BY DEF Covered, CoveredAt
  <2>5. QED
    BY <2>2, <2>3, <2>4
<1>5. Stream' = Stream /\ Origin' = Origin /\ Decided' = Decided
  BY <1>1 DEF Stream, Origin, Decided
<1>6. Covered' = Covered
  BY <1>1, <1>5 DEF Covered
<1>7. Inputs' /\ Modes' /\ Location'
  BY <1>1, <1>2, <1>3, <1>4, <1>6 DEF Inputs, Modes, Location
<1>8. EncTypes' /\ EncReading'
  BY <1>1, <1>3 DEF EncTypes, EncReading
<1>9. EncBuffer' /\ EncCounting' /\ EncImage'
  BY <1>1, <1>3, <1>5 DEF EncBuffer, EncCounting, EncImage
<1>10. NotDecoded'
  BY <1>1, <1>3 DEF NotDecoded, decoder, counts
<1>11. QED
  BY <1>1, <1>2, <1>7, <1>8, <1>9, <1>10
  DEF Inv, Encoding, Decoding, Decodes

-----------------------------------------------------------------------------
(* The decoder.                                                            *)

(* The cover is a recording whose loud samples are those of the original,  *)
(* each with the stream's bit in it as far as the stream goes.             *)
LEMMA CoveredIs ==
  ASSUME Inputs
  PROVE  /\ Covered \in Seq(Sample) /\ Len(Covered) = Len(audio)
         /\ \A n \in 0 .. Len(audio) : Carriers(Covered, n) = Carriers(audio, n)
         /\ \A j \in 1 .. Len(audio), m \in Nat, b \in 0 .. 7 :
              /\ Encodable(Covered[j]) /\ m < Len(Stream)
              /\ Carriers(Covered, j - 1) = 8 * m + b
              => LowBit(Covered[j]) = Stream[m + 1][b]
<1>1. audio \in Seq(Sample) /\ Len(audio) \in Nat /\ Len(Stream) \in Nat
  BY StreamIs, Sizes
<1>2. Covered = [j \in 1 .. Len(audio) |-> CoveredAt(audio, Stream, j)]
  BY DEF Covered, CoveredAt
<1>3. ASSUME NEW j \in 1 .. Len(audio)
      PROVE  /\ Covered[j] \in Sample
             /\ Encodable(Covered[j]) <=> Encodable(audio[j])
             /\ \A m \in Nat, b \in 0 .. 7 :
                  /\ Encodable(audio[j]) /\ m < Len(Stream)
                  /\ Carriers(audio, j - 1) = 8 * m + b
                  => LowBit(Covered[j]) = Stream[m + 1][b]
  <2> DEFINE c == Carriers(audio, j - 1)
  <2>1. audio[j] \in Sample /\ j \in Nat /\ j - 1 \in Nat /\ c \in Nat
    BY <1>1, ElementOfSeq, CarriersType
  <2>2. Covered[j] = CoveredAt(audio, Stream, j)
    BY <1>2
  <2>3. CASE Encodable(audio[j]) /\ c < 8 * Len(Stream)
    <3>1. PICK m \in Nat, b \in 0 .. 7 : c = 8 * m + b
      BY <2>1, BitOf
    <3>2. m < Len(Stream)
      BY <1>1, <2>3, <3>1
    <3>3. Stream[m + 1][b] \in Bit
      BY <3>2, StreamBits
    <3>4. Covered[j] = SetLowBit(audio[j], Stream[m + 1][b])
      BY <2>1, <2>2, <2>3, <3>1, <3>2, StreamBitAt
    <3>5. /\ Covered[j] \in Sample
          /\ LowBit(Covered[j]) = Stream[m + 1][b]
          /\ UpperBits(Covered[j]) = UpperBits(audio[j])
      BY <2>1, <3>3, <3>4, SetLowBitCorrect
    <3>6. ASSUME NEW n \in Nat, NEW d \in 0 .. 7, c = 8 * n + d
          PROVE  n = m /\ d = b
      BY <3>1, <3>6
    <3>7. QED
      BY <2>1, <3>5, <3>6, EncodableInvariant
  <2>4. CASE ~(Encodable(audio[j]) /\ c < 8 * Len(Stream))
    <3>1. Covered[j] = audio[j]
      BY <2>2, <2>4 DEF CoveredAt
    <3>2. ASSUME NEW m \in Nat, NEW b \in 0 .. 7, m < Len(Stream), c = 8 * m + b
          PROVE  c < 8 * Len(Stream)
      BY <1>1, <3>2
    <3>3. QED
      BY <2>1, <2>4, <3>1, <3>2
  <2>5. QED
    BY <2>3, <2>4
<1>4. Covered \in Seq(Sample) /\ Len(Covered) = Len(audio)
  <2>1. Covered \in [1 .. Len(audio) -> Sample]
    BY <1>2, <1>3
  <2>2. QED
    BY <1>1, <2>1, SeqDef, LenProperties
<1>5. ASSUME NEW n \in 0 .. Len(audio)
      PROVE  Carriers(Covered, n) = Carriers(audio, n)
  <2>1. \A j \in 1 .. n : Encodable(Covered[j]) <=> Encodable(audio[j])
    BY <1>1, <1>3
  <2>2. n \in Nat
    BY <1>1
  <2>3. QED
    BY <2>1, <2>2, CarriersSame
<1>6. ASSUME NEW j \in 1 .. Len(audio), NEW m \in Nat, NEW b \in 0 .. 7,
             Encodable(Covered[j]), m < Len(Stream),
             Carriers(Covered, j - 1) = 8 * m + b
      PROVE  LowBit(Covered[j]) = Stream[m + 1][b]
  <2>1. Carriers(audio, j - 1) = 8 * m + b
    BY <1>1, <1>5, <1>6, j - 1 \in 0 .. Len(audio)
  <2>2. QED
    BY <1>3, <1>6, <2>1
<1>7. QED
  BY <1>4, <1>5, <1>6

(* main, -d.                                                               *)
LEMMA StartDecodeInv == Inv /\ StartDecode => Inv'
<1> SUFFICES ASSUME Inv, StartDecode
             PROVE  Inv'
  OBVIOUS
<1>1. /\ pc \in {"done", "failed"} /\ mode = "encode"
      /\ pc' = "header" /\ mode' = "decode"
      /\ pos' = 0 /\ eof' = FALSE /\ pcm' = <<>> /\ i' = 1
      /\ bit_index' = 0 /\ ptr' = 0
      /\ decode_buf' = [decode_buf EXCEPT ![0] = ZeroByte]
      /\ audio' = audio /\ file' = file /\ location' = location
      /\ bits_read' = bits_read /\ total_bits_read' = total_bits_read
      /\ total_bits_written' = total_bits_written
      /\ header_done' = header_done /\ written' = written
      /\ slipped' = slipped
  BY DEF StartDecode, counts
<1>2. Inputs /\ Location /\ NotDecoded
  BY <1>1 DEF Inv, Encoding
<1>3. Stream' = Stream /\ Covered' = Covered
  BY <1>1 DEF Stream, Covered
<1>4. Inputs' /\ Modes' /\ Location'
  BY <1>1, <1>2, <1>3 DEF Inputs, Modes, Location
<1>5. bits_read' = 0 /\ total_bits_read' = 0 /\ total_bits_written' = 0
      /\ header_done' = FALSE /\ written' = <<>> /\ Len(written') = 0
  BY <1>1, <1>2 DEF NotDecoded
<1>6. /\ decode_buf' \in [0 .. HeaderLen + Chunk - 1 -> Byte]
      /\ decode_buf'[0] = ZeroByte /\ 0 \in 0 .. HeaderLen + Chunk - 1
  <2>1. ZeroByte \in Byte
    BY DEF ZeroByte, Byte, Bit
  <2>2. 0 \in 0 .. HeaderLen + Chunk - 1
    BY Sizes
  <2>3. QED
    BY <1>1, <1>2, <2>1, <2>2 DEF NotDecoded
<1>7. ASSUME Decodes'
      PROVE  Decoding'
  <2>1. location' \in Seq(Sample) /\ Len(location') \in Nat
    BY <1>1, <1>2, <1>7, CoveredIs, StreamIs DEF Location, Decodes
  <2>2. DecTypes'
    <3>1. <<>> \in Seq(Sample) /\ <<>> \in Seq(Byte)
      OBVIOUS
    <3>2. /\ eof' \in BOOLEAN /\ header_done' \in BOOLEAN
          /\ pc' \in {"header", "take", "write", "data", "done", "failed",
                     "smashed"}
      BY <1>1, <1>5, Zenon
    <3>3. /\ pos' \in 0 .. Len(location') /\ i' \in Nat \ {0} /\ ptr' \in Nat
          /\ bit_index' \in 0 .. 8 /\ bits_read' \in Nat
          /\ total_bits_read' \in Nat
      BY ONLY <1>1, <1>5, <2>1
    <3>4. QED
      BY <1>1, <1>5, <1>6, <3>1, <3>2, <3>3, Zenon DEF DecTypes
  <2>3. DecReading' /\ Phase'
    BY <1>1, <1>5, Sizes DEF DecReading, Phase, pstat_bits
  <2>4. Writing'
    <3>1. Len(file) \in Nat
      BY <1>2, StreamIs
    <3>2. QED
      BY <1>1, <1>5, <3>1 DEF Writing
  <2>5. Taken' = 0 /\ Counted' = 0 /\ At' = 0 /\ Between'
    BY <1>1, <1>5 DEF Taken, Counted, At, Between, DecodeAt
  <2>6. DecCounting'
    BY <1>1, <1>5, <1>6, <2>5, CarriersZero DEF DecCounting
  <2>7. Bits'
    <3>1. \A b \in 0 .. 7 : decode_buf'[At'][b] = 0
      BY <1>6, <2>5 DEF ZeroByte
    <3>2. \A a \in 0 .. At', b \in 0 .. 7 : ~(a < At' \/ b < bit_index')
      BY <1>1, <2>5
    <3>3. QED
      BY <3>1, <3>2 DEF Bits
  <2>8. QED
    BY <2>2, <2>3, <2>4, <2>6, <2>7 DEF Decoding
<1>8. QED
  BY <1>1, <1>4, <1>7 DEF Inv, Encoding, Decoding

(* What the decoder's steps start from.                                    *)
LEMMA DecodeFacts ==
  ASSUME Inv, Decodes
  PROVE  /\ Inputs /\ DecTypes /\ DecReading /\ Writing /\ Phase
         /\ DecCounting /\ Bits
         /\ location \in Seq(Sample) /\ Len(location) \in Nat
         /\ pos \in Nat /\ Len(pcm) \in Nat /\ Len(written) \in Nat
         /\ Len(file) \in Nat /\ Len(Stream) = HeaderLen + Len(file)
         /\ \A j \in 1 .. Len(location), m \in Nat, b \in 0 .. 7 :
              /\ Encodable(location[j]) /\ m < Len(Stream)
              /\ Carriers(location, j - 1) = 8 * m + b
              => LowBit(location[j]) = Stream[m + 1][b]
<1>1. /\ Inputs /\ DecTypes /\ DecReading /\ Writing /\ Phase
      /\ DecCounting /\ Bits
  BY DEF Inv, Decoding
<1>2. location = Covered
  BY DEF Inv, Location, Decodes
<1>3. /\ location \in Seq(Sample) /\ Len(location) \in Nat
      /\ \A j \in 1 .. Len(location), m \in Nat, b \in 0 .. 7 :
              /\ Encodable(location[j]) /\ m < Len(Stream)
              /\ Carriers(location, j - 1) = 8 * m + b
              => LowBit(location[j]) = Stream[m + 1][b]
  BY <1>1, <1>2, CoveredIs, StreamIs
<1>4. Len(file) \in Nat /\ Len(Stream) = HeaderLen + Len(file)
  BY <1>1, StreamIs
<1>5. pos \in Nat /\ Len(pcm) \in Nat /\ Len(written) \in Nat
  BY <1>1, <1>3, LenProperties DEF DecTypes
<1>6. QED
  BY <1>1, <1>3, <1>4, <1>5

(* A step of the decoder leaves audio, file and location alone: what is to *)
(* be shown is that it decodes on.                                         *)
LEMMA DecodeFrame ==
  ASSUME Inv, mode = "decode", mode' = mode, audio' = audio, file' = file,
         location' = location,
         pc' \in {"header", "take", "write", "data", "done", "failed",
                  "smashed"},
         Decodes' => Decoding'
  PROVE  Inv'
<1>1. Inputs /\ Location
  BY DEF Inv
<1>2. Stream' = Stream /\ Covered' = Covered
  BY DEF Stream, Covered
<1>3. Inputs' /\ Modes' /\ Location'
  BY <1>1, <1>2 DEF Inputs, Modes, Location
<1>4. Encoding'
  BY DEF Encoding
<1>5. Decoding'
  BY DEF Decoding
<1>6. QED
  BY <1>3, <1>4, <1>5 DEF Inv

(* Once enough bits are read the header in the buffer is the file's.       *)
LEMMA HeaderIs ==
  ASSUME Inputs,
         \A h \in 0 .. HeaderLen - 1 : decode_buf[h] = HeaderFor(file)[h + 1]
  PROVE  IsMagic(pfi) /\ SizeOf(pfi) = Len(file)
<1> DEFINE header == [h \in 0 .. HeaderLen - 1 |-> HeaderFor(file)[h + 1]]
<1>1. pfi = header
  BY DEF pfi
<1>2. file \in Files
  BY DEF Inputs
<1>3. IsMagic(header) /\ SizeOf(header) = Len(file)
  BY <1>2, FlipAssumption
<1>4. QED
  BY <1>1, <1>3

(* The first call of decode_bits, and the others that go on within a byte. *)
LEMMA DecodeReadInv == Inv /\ DecodeRead => Inv'
<1> SUFFICES ASSUME Inv, DecodeRead
             PROVE  Inv'
  OBVIOUS
<1> DEFINE n == IF header_done THEN 8 * Chunk ELSE pstat_bits
<1>1. /\ Between /\ FRead(location, n) /\ ptr' = DecodeAt /\ bits_read' = 0
      /\ pc' = (IF pcm' = <<>> THEN "failed" ELSE "take")
      /\ slipped' = (slipped \/ bit_index >= 8)
      /\ audio' = audio /\ file' = file /\ location' = location
      /\ mode' = mode /\ bit_index' = bit_index /\ decode_buf' = decode_buf
      /\ total_bits_read' = total_bits_read
      /\ total_bits_written' = total_bits_written
      /\ header_done' = header_done /\ written' = written
  BY DEF DecodeRead, AfterRead, Between
<1>2. mode = "decode"
  <2>1. pc \in {"header", "data"}
    BY <1>1 DEF Between
  <2>2. mode = "encode" => pc \notin {"header", "data"}
    BY DEF Inv, Encoding, EncTypes
  <2>3. QED
    BY <2>1, <2>2 DEF Inv, Modes
<1>3. ASSUME Decodes'
      PROVE  Decoding'
  <2>1. Decodes /\ ~(bit_index >= 8)
    BY <1>1, <1>2, <1>3 DEF Decodes
  <2>2. /\ Inputs /\ DecTypes /\ Writing /\ Phase /\ DecCounting /\ Bits
        /\ location \in Seq(Sample) /\ Len(location) \in Nat
        /\ pos \in Nat /\ bit_index \in 0 .. 7
    BY <2>1, DecodeFacts DEF DecTypes
  <2>3. n \in Nat \ {0}
    BY Sizes DEF pstat_bits
  <2>4. PICK got \in Nat :
          /\ pos + got <= Len(location) /\ pos' = pos + got
          /\ pcm' \in Seq(Sample) /\ Len(pcm') = got /\ i' = 1
          /\ \A k \in 1 .. got : pcm'[k] = location[pos + k]
          /\ eof' \in BOOLEAN
    <3> HIDE DEF n
    <3>1. pos \in 0 .. Len(location)
      BY <2>2 DEF DecTypes
    <3>2. QED
      BY <1>1, <2>2, <2>3, <3>1, ReadSome
  <2>5. DecodeAt \in Nat
    BY <2>2, Sizes DEF DecodeAt, DecTypes
  <2>6. DecTypes'
    <3>1. pc' \in {"header", "take", "write", "data", "done", "failed",
                   "smashed"}
      BY <1>1
    <3>2. QED
      BY <1>1, <2>2, <2>4, <2>5, <3>1 DEF DecTypes
  <2>7. DecReading'
    BY <1>1, <2>2, <2>4 DEF DecReading
  <2>8. Writing'
    BY <1>1, <2>2 DEF Writing
  <2>9. Phase'
    <3>1. header_done => ptr' >= HeaderLen
      BY <1>1, Sizes DEF DecodeAt
    <3>2. pc' \in {"failed", "take"}
      BY <1>1
    <3>3. QED
      BY <1>1, <2>2, <3>1, <3>2 DEF Phase
  <2>10. ASSUME Live'
         PROVE  /\ Live /\ pc' = "take" /\ Taken' = Taken /\ Counted' = Counted
                /\ At' = At /\ ~Between' /\ Stream' = Stream
    <3>1. pc' = "take"
      BY <1>1, <2>10 DEF Live
    <3>2. Live
      BY <1>1, <2>10 DEF Live, Between
    <3>3. Taken' = Taken
      BY <1>1, <2>2, <2>4, <3>1 DEF Taken, Between
    <3>4. ~Between'
      BY <3>1 DEF Between
    <3>5. Counted' = Counted
      BY <1>1, <2>2, <3>4 DEF Counted, DecTypes
    <3>6. At' = At
      BY <1>1, <3>4 DEF At
    <3>7. QED
      BY <1>1, <3>1, <3>2, <3>3, <3>4, <3>5, <3>6 DEF Stream
  <2>11. DecCounting'
    BY <1>1, <2>2, <2>10 DEF DecCounting
  <2>12. Bits'
    <3>1. \A a, b : Stream' = Stream => Right(a, b)' = Right(a, b)
      BY <1>1 DEF Right, ByteOfStream
    <3>2. QED
      BY <1>1, <2>2, <2>10, <3>1 DEF Bits
  <2>13. QED
    BY <2>6, <2>7, <2>8, <2>9, <2>11, <2>12 DEF Decoding
<1>4. QED
  BY <1>1, <1>2, <1>3, DecodeFrame

(* The byte and the bit that decode_bits' loop moves to before it takes a  *)
(* bit.                                                                    *)
NextTake == IF bit_index >= 8 THEN ptr + 1 ELSE ptr

OldByte == IF bit_index >= 8 THEN ZeroByte ELSE decode_buf[NextTake]

(* What is known of them while bits count.                                 *)
LEMMA TakeAt ==
  ASSUME Inv, Decodes, Live, pc = "take", i <= Len(pcm),
         NextTake \in DOMAIN decode_buf
  PROVE  /\ 8 * (NextTake + Len(written)) + NextBit = Counted
         /\ OldByte \in Byte
         /\ \A a \in 0 .. NextTake, b \in 0 .. 7 :
              a < NextTake => Right(a, b)
         /\ \A b \in 0 .. 7 :
              /\ b < NextBit => Right(NextTake, b)
              /\ b < NextBit => OldByte[b] = decode_buf[NextTake][b]
              /\ b >= NextBit => OldByte[b] = 0
<1>1. /\ DecTypes /\ DecCounting /\ Bits /\ Len(written) \in Nat
      /\ ptr \in Nat /\ bit_index \in 0 .. 8 /\ ~Between
      /\ decode_buf \in [0 .. HeaderLen + Chunk - 1 -> Byte]
  BY DecodeFacts DEF DecTypes, Between
<1>2. /\ At = ptr /\ 8 * (ptr + Len(written)) + bit_index = Counted
      /\ \A a \in 0 .. ptr, b \in 0 .. 7 :
           a < ptr \/ b < bit_index => Right(a, b)
      /\ \A b \in 0 .. 7 : b >= bit_index => decode_buf[ptr][b] = 0
  BY <1>1 DEF DecCounting, Bits, At
<1>3. CASE bit_index < 8
  <2>1. NextTake = ptr /\ NextBit = bit_index /\ OldByte = decode_buf[ptr]
    BY <1>1, <1>3 DEF NextTake, NextBit, OldByte
  <2>2. OldByte \in Byte
    BY <1>1, <2>1
  <2>3. QED
    BY <1>1, <1>2, <2>1, <2>2
<1>4. CASE bit_index >= 8
  <2>1. /\ NextTake = ptr + 1 /\ NextBit = 0 /\ OldByte = ZeroByte
        /\ bit_index = 8
    BY <1>1, <1>4 DEF NextTake, NextBit, OldByte
  <2>2. OldByte \in Byte /\ \A b \in 0 .. 7 : OldByte[b] = 0
    BY <2>1 DEF ZeroByte, Byte, Bit
  <2>3. ASSUME NEW a \in 0 .. NextTake, NEW b \in 0 .. 7, a < NextTake
        PROVE  Right(a, b)
    <3>1. a \in 0 .. ptr /\ b < bit_index
      BY <1>1, <2>1, <2>3
    <3>2. QED
      BY <1>2, <3>1
  <2>4. 8 * (NextTake + Len(written)) + NextBit = Counted
    BY <1>1, <1>2, <2>1
  <2>5. \A b \in 0 .. 7 : ~(b < NextBit)
    BY <2>1
  <2>6. QED
    BY <2>2, <2>3, <2>4, <2>5
<1>5. QED
  BY <1>1, <1>3, <1>4

(* One turn of decode_bits' loop.                                          *)
LEMMA TakeSampleInv == Inv /\ TakeSample => Inv'
<1> SUFFICES ASSUME Inv, TakeSample
             PROVE  Inv'
  OBVIOUS
<1> DEFINE at   == NextTake
           b    == NextBit
           old  == OldByte
           step == IF Encodable(pcm[i]) THEN 1 ELSE 0
           new  == IF step = 1 /\ LowBit(pcm[i]) = 1
                   THEN [old EXCEPT ![b] = 1] ELSE old
<1>1. /\ pc = "take" /\ i <= Len(pcm) /\ i' = i + 1
      /\ ptr' = at /\ bit_index' = b + step /\ bits_read' = bits_read + step
      /\ audio' = audio /\ file' = file /\ location' = location
      /\ mode' = mode /\ pos' = pos /\ eof' = eof /\ pcm' = pcm
      /\ total_bits_read' = total_bits_read
      /\ total_bits_written' = total_bits_written
      /\ header_done' = header_done /\ written' = written
      /\ slipped' = slipped
  BY DEF TakeSample, NextTake, NextBit
<1>2. \/ /\ at \in DOMAIN decode_buf /\ pc' = pc
         /\ decode_buf' = [decode_buf EXCEPT ![at] = new]
      \/ /\ at \notin DOMAIN decode_buf /\ pc' = "smashed"
         /\ decode_buf' = decode_buf
  BY DEF TakeSample, NextTake, NextBit, OldByte
<1>3. mode = "decode"
  <2>1. mode = "encode" => pc # "take"
    BY DEF Inv, Encoding, EncTypes
  <2>2. QED
    BY <1>1, <2>1 DEF Inv, Modes
<1>4. ASSUME Decodes'
      PROVE  Decoding'
  <2>1. Decodes
    BY <1>1, <1>4 DEF Decodes
  <2>2. /\ Inputs /\ DecTypes /\ DecReading /\ Writing /\ Phase
        /\ DecCounting /\ Bits
        /\ location \in Seq(Sample) /\ Len(location) \in Nat
        /\ pos \in Nat /\ Len(pcm) \in Nat /\ Len(written) \in Nat
        /\ Len(file) \in Nat /\ Len(Stream) = HeaderLen + Len(file)
        /\ \A j \in 1 .. Len(location), m \in Nat, d \in 0 .. 7 :
              /\ Encodable(location[j]) /\ m < Len(Stream)
              /\ Carriers(location, j - 1) = 8 * m + d
              => LowBit(location[j]) = Stream[m + 1][d]
    BY <2>1, DecodeFacts
  <2>3. /\ ptr \in Nat /\ bit_index \in 0 .. 8 /\ at \in Nat /\ b \in 0 .. 7
        /\ at >= ptr /\ bits_read \in Nat /\ total_bits_read \in Nat
    BY <2>2 DEF DecTypes, NextTake, NextBit
  <2>4. step \in {0, 1}
    OBVIOUS
  <2>5. at \in DOMAIN decode_buf => old \in [0 .. 7 -> Bit]
    <3>1. decode_buf \in [0 .. HeaderLen + Chunk - 1 -> Byte]
      BY <2>2 DEF DecTypes
    <3>2. ZeroByte \in [0 .. 7 -> Bit]
      BY DEF ZeroByte, Bit
    <3>3. QED
      BY <3>1, <3>2 DEF OldByte, Byte
  <2> HIDE DEF at, b, old, step
  <2>6. decode_buf' \in [0 .. HeaderLen + Chunk - 1 -> Byte]
    <3>1. decode_buf \in [0 .. HeaderLen + Chunk - 1 -> Byte]
      BY <2>2 DEF DecTypes
    <3>2. CASE at \in DOMAIN decode_buf
      <4>1. old \in Byte /\ [old EXCEPT ![b] = 1] \in Byte
        BY <2>3, <2>5, <3>2 DEF Byte, Bit
      <4>2. new \in Byte
        BY <4>1
      <4>3. QED
        BY <1>2, <3>1, <3>2, <4>2
    <3>3. QED
      BY <1>2, <3>1, <3>2
  <2>7. DecTypes'
    <3>1. pc' \in {"header", "take", "write", "data", "done", "failed",
                   "smashed"}
      BY <1>1, <1>2
    <3>2. i' \in Nat \ {0} /\ bit_index' \in 0 .. 8 /\ bits_read' \in Nat
      BY <1>1, <2>2, <2>3, <2>4 DEF DecTypes
    <3>3. QED
      BY <1>1, <2>2, <2>3, <2>6, <3>1, <3>2 DEF DecTypes
  <2>8. DecReading'
    BY <1>1, <2>2 DEF DecReading, DecTypes
  <2>9. Writing'
    BY <1>1, <2>2 DEF Writing
  <2>10. Phase'
    <3>1. header_done => at >= HeaderLen
      BY <1>1, <2>2, <2>3, Sizes DEF Phase
    <3>2. ASSUME header_done, NEW h \in 0 .. HeaderLen - 1
          PROVE  decode_buf'[h] = HeaderFor(file)[h + 1]
      <4>1. decode_buf[h] = HeaderFor(file)[h + 1] /\ h # at
        BY <2>2, <2>3, <3>1, <3>2, Sizes DEF Phase
      <4>2. decode_buf'[h] = decode_buf[h]
        <5>1. h \in DOMAIN decode_buf
          BY <2>2, Sizes DEF DecTypes
        <5>2. QED
          BY <1>2, <4>1, <5>1
      <4>3. QED
        BY <4>1, <4>2
    <3>3. pc' \in {"take", "smashed"}
      BY <1>1, <1>2
    <3>4. QED
      BY <1>1, <2>2, <3>1, <3>2, <3>3 DEF Phase
  <2>11. ASSUME Live'
         PROVE  DecCounting' /\ Bits'
    <3>1. /\ pc' = "take" /\ Live /\ at \in DOMAIN decode_buf
          /\ decode_buf' = [decode_buf EXCEPT ![at] = new]
          /\ Stream' = Stream /\ ~Between /\ ~Between'
      BY <1>1, <1>2, <2>11 DEF Live, Stream, Between
    <3>2. /\ 8 * (at + Len(written)) + b = Counted /\ old \in Byte
          /\ \A a \in 0 .. at, d \in 0 .. 7 : a < at => Right(a, d)
          /\ \A d \in 0 .. 7 :
               /\ d < b => Right(at, d)
               /\ d < b => old[d] = decode_buf[at][d]
               /\ d >= b => old[d] = 0
      BY <1>1, <2>1, <3>1, TakeAt DEF at, b, old
    <3>3. PICK j \in 1 .. Len(location) :
            /\ j = Taken + 1 /\ Taken = j - 1 /\ pcm[i] = location[j] /\ Taken' = j
      <4>1. /\ i \in 1 .. Len(pcm) /\ Len(pcm) <= pos /\ pos <= Len(location)
            /\ pcm[i] = location[pos - Len(pcm) + i]
        <5>1. i \in Nat \ {0} /\ pos <= Len(location)
          BY <2>2 DEF DecTypes
        <5>2. i \in 1 .. Len(pcm)
          <6>1. i <= Len(pcm) /\ Len(pcm) \in Nat
            BY <1>1, <2>2
          <6>2. QED
            BY ONLY <5>1, <6>1
        <5>3. QED
          BY <1>1, <2>2, <5>1, <5>2 DEF DecReading
      <4>2. /\ pos - Len(pcm) + i \in 1 .. Len(location)
            /\ pos - Len(pcm) + i = Taken + 1
            /\ Taken = (pos - Len(pcm) + i) - 1
            /\ Taken' = pos - Len(pcm) + i
        <5>1. /\ Taken = pos - Len(pcm) + (i - 1)
              /\ Taken' = pos - Len(pcm) + ((i + 1) - 1)
          BY <1>1, <3>1 DEF Taken
        <5>2. pos \in Nat /\ Len(pcm) \in Nat /\ Len(location) \in Nat
          BY <2>2
        <5>3. QED
          BY ONLY <4>1, <5>1, <5>2
      <4>3. QED
        BY <4>1, <4>2
    <3>4. /\ Carriers(location, j - 1) = Counted /\ j - 1 \in Nat
          /\ j = (j - 1) + 1 /\ Counted \in Nat
      <4>1. Carriers(location, Taken) = Counted /\ Taken = j - 1
        BY <2>2, <3>1, <3>3 DEF DecCounting
      <4>2. QED
        BY <3>3, <4>1, CarriersType
    <3>5. Carriers(location, j) = Counted + step
      BY <3>3, <3>4, CarriersNext DEF step
    <3>6. Counted' = Counted + step
      BY <1>1, <2>3, <2>4, <3>1, Sizes DEF Counted, pstat_bits
    <3>7. At' = at /\ at \in 0 .. HeaderLen + Chunk - 1
      BY <1>1, <2>2, <3>1 DEF At, DecTypes
    <3>8. DecCounting'
      <4>1. 8 * (at + Len(written)) + (b + step) = Counted + step
        <5>1. /\ at \in Nat /\ Len(written) \in Nat /\ b \in 0 .. 7
              /\ step \in {0, 1} /\ 8 * (at + Len(written)) + b = Counted
          BY <2>2, <2>3, <2>4, <3>2
        <5>2. QED
          BY ONLY <5>1
      <4>2. QED
        BY <1>1, <3>1, <3>3, <3>5, <3>6, <3>7, <4>1 DEF DecCounting
    <3>9. /\ \A a \in 0 .. at : a # at => decode_buf'[a] = decode_buf[a]
          /\ decode_buf'[at] = new
      <4>1. decode_buf \in [0 .. HeaderLen + Chunk - 1 -> Byte]
        BY <2>2 DEF DecTypes
      <4> HIDE DEF new
      <4>2. QED
        BY <2>3, <3>1, <3>7, <4>1
    <3>10. /\ \A d \in 0 .. 7 : d # b => new[d] = old[d]
           /\ step = 1 => new[b] = LowBit(pcm[i])
           /\ step = 0 => new = old
      <4>1. pcm[i] \in Nat
        <5>1. pcm[i] = location[j] /\ location \in Seq(Sample)
          BY <2>2, <3>3
        <5>2. location[j] \in Nat
          BY ONLY <5>1, j \in 1 .. Len(location), SamplesAreNat
        <5>3. QED
          BY ONLY <5>1, <5>2
      <4>2. LowBit(pcm[i]) \in {0, 1}
        <5>1. LowBit(pcm[i]) \in Bit
          BY ONLY <4>1, Parity, Zenon
        <5>2. QED
          BY ONLY <5>1 DEF Bit
      <4>3. old \in [0 .. 7 -> Bit] /\ old[b] = 0
        BY <2>3, <3>2 DEF Byte
      <4>4. QED
        BY <2>3, <4>2, <4>3
    <3> HIDE DEF new
    <3>11. ByteOfStream(at) = at + Len(written)
      <4>1. CASE header_done
        <5>1. ptr >= HeaderLen
          BY <1>1, <2>2, <4>1 DEF Phase
        <5>2. ~(at < HeaderLen)
          BY ONLY <2>3, <5>1, Sizes
        <5>3. QED
          BY <5>2 DEF ByteOfStream
      <4>2. CASE ~header_done
        <5>1. Len(written) = 0
          BY <2>2, <4>2 DEF Phase
        <5>2. QED
          BY <2>3, <5>1 DEF ByteOfStream
      <4>3. QED
        BY <4>1, <4>2
    <3>12. ASSUME NEW a \in 0 .. at, NEW d \in 0 .. 7,
                  a < at \/ d < b + step
           PROVE  Right(a, d)'
      <4>1. Right(a, d)' <=> (ByteOfStream(a) < Len(Stream)
                               => decode_buf'[a][d] = Stream[ByteOfStream(a) + 1][d])
        BY <1>1, <3>1 DEF Right, ByteOfStream
      <4>2. CASE a < at
        <5>1. Right(a, d) /\ decode_buf'[a] = decode_buf[a]
          BY <2>3, <3>2, <3>9, <4>2
        <5>2. QED
          BY <4>1, <5>1 DEF Right
      <4>3. CASE a = at /\ d < b
        <5>1. Right(at, d) /\ old[d] = decode_buf[at][d] /\ d # b
          <6>1. d < b /\ d # b
            BY <2>3, <4>3
          <6>2. QED
            BY <3>2, <6>1, Zenon
        <5>2. decode_buf'[a][d] = decode_buf[a][d]
          BY <3>9, <3>10, <4>3, <5>1
        <5>3. QED
          BY <4>1, <4>3, <5>1, <5>2 DEF Right
      <4>4. CASE a = at /\ d = b /\ step = 1
        <5>1. decode_buf'[a][d] = LowBit(location[j])
          BY <3>3, <3>9, <3>10, <4>4
        <5>2. Encodable(location[j])
          BY <3>3, <4>4 DEF step
        <5>3. ASSUME ByteOfStream(a) < Len(Stream)
              PROVE  LowBit(location[j]) = Stream[ByteOfStream(a) + 1][d]
          <6>1. at + Len(written) \in Nat /\ at + Len(written) < Len(Stream)
            BY <2>2, <2>3, <3>11, <4>4, <5>3
          <6>2. Carriers(location, j - 1) = 8 * (at + Len(written)) + b
            BY <3>2, <3>4
          <6>3. LowBit(location[j]) = Stream[at + Len(written) + 1][b]
            BY <2>2, <2>3, <5>2, <6>1, <6>2
          <6>4. QED
            BY <3>11, <4>4, <6>3
        <5>4. QED
          BY <4>1, <5>1, <5>3
      <4>5. a < at \/ (a = at /\ d < b) \/ (a = at /\ d = b /\ step = 1)
        BY <2>3, <2>4, <3>12
      <4>6. QED
        BY <4>2, <4>3, <4>4, <4>5
    <3>13. ASSUME NEW d \in 0 .. 7, d >= b + step
           PROVE  decode_buf'[at][d] = 0
      <4>1. old[d] = 0
        <5>1. d >= b
          BY ONLY <2>3, <2>4, <3>13
        <5>2. QED
          BY <3>2, <5>1, Zenon
      <4>2. CASE step = 0
        BY <3>9, <3>10, <4>1, <4>2
      <4>3. CASE step = 1
        BY <2>3, <3>9, <3>10, <3>13, <4>1, <4>3
      <4>4. QED
        BY <2>4, <4>2, <4>3
    <3>14. Bits'
      BY <1>1, <3>7, <3>12, <3>13 DEF Bits
    <3>15. QED
      BY <3>8, <3>14
  <2>12. DecCounting' /\ Bits'
    BY <2>11 DEF DecCounting, Bits
  <2>13. QED
    BY <2>7, <2>8, <2>9, <2>10, <2>12 DEF Decoding
<1>5. pc' \in {"header", "take", "write", "data", "done", "failed", "smashed"}
  BY <1>1, <1>2
<1>6. QED
  BY <1>1, <1>3, <1>4, <1>5, DecodeFrame

(* Every byte in front of the cursor, and the one a full byte's cursor is  *)
(* in, is the stream's.                                                    *)
LEMMA WholeByte ==
  ASSUME Inv, Decodes, Live, ~Between, NEW a \in Nat,
         8 * (a + 1) <= 8 * ptr + bit_index, ByteOfStream(a) < Len(Stream),
         ByteOfStream(a) \in Nat
  PROVE  /\ a \in 0 .. HeaderLen + Chunk - 1
         /\ decode_buf[a] = Stream[ByteOfStream(a) + 1]
<1>1. /\ Inputs /\ ptr \in 0 .. HeaderLen + Chunk - 1
      /\ \A k \in 0 .. ptr, b \in 0 .. 7 :
           k < ptr \/ b < bit_index => Right(k, b)
      /\ decode_buf \in [0 .. HeaderLen + Chunk - 1 -> Byte]
      /\ bit_index \in 0 .. 8 /\ Len(Stream) \in Nat /\ HeaderLen \in Nat
      /\ Chunk \in Nat
  <2>1. /\ Inputs /\ DecTypes /\ DecCounting /\ Bits
        /\ Len(file) \in Nat /\ Len(Stream) = HeaderLen + Len(file)
    BY DecodeFacts
  <2>2. At = ptr
    BY DEF At
  <2>3. /\ ptr \in 0 .. HeaderLen + Chunk - 1
        /\ \A k \in 0 .. ptr, b \in 0 .. 7 :
             k < ptr \/ b < bit_index => Right(k, b)
    BY <2>1, <2>2 DEF DecCounting, Bits
  <2>4. /\ decode_buf \in [0 .. HeaderLen + Chunk - 1 -> Byte]
        /\ bit_index \in 0 .. 8
    BY <2>1 DEF DecTypes
  <2>5. Len(Stream) \in Nat /\ HeaderLen \in Nat /\ Chunk \in Nat
    BY <2>1, Sizes
  <2>6. QED
    BY <2>1, <2>3, <2>4, <2>5
<1>2. a \in 0 .. ptr /\ (a < ptr \/ bit_index = 8)
  BY <1>1
<1>3. a \in 0 .. HeaderLen + Chunk - 1
  BY <1>1, <1>2
<1>4. ASSUME NEW b \in 0 .. 7
      PROVE  decode_buf[a][b] = Stream[ByteOfStream(a) + 1][b]
  <2>1. a < ptr \/ b < bit_index
    BY <1>1, <1>2
  <2>2. Right(a, b)
    BY <1>1, <1>2, <2>1
  <2>3. QED
    BY <2>2 DEF Right
<1>5. decode_buf[a] \in [0 .. 7 -> Bit]
  BY <1>1, <1>3 DEF Byte
<1>6. Stream[ByteOfStream(a) + 1] \in [0 .. 7 -> Bit]
  <2>1. ByteOfStream(a) + 1 \in 1 .. Len(Stream)
    BY <1>1
  <2>2. Stream[ByteOfStream(a) + 1] \in Byte
    BY <1>1, <2>1, StreamIs, ElementOfSeq
  <2>3. QED
    BY <2>2 DEF Byte
<1>7. decode_buf[a] = Stream[ByteOfStream(a) + 1]
  <2>1. PICK f \in [0 .. 7 -> Bit] : f = decode_buf[a]
    BY <1>5
  <2>2. PICK g \in [0 .. 7 -> Bit] : g = Stream[ByteOfStream(a) + 1]
    BY <1>6
  <2>3. \A b \in 0 .. 7 : f[b] = g[b]
    BY <1>4, <2>1, <2>2
  <2>4. f = g
    BY ONLY <2>3
  <2>5. QED
    BY <2>1, <2>2, <2>4
<1>8. QED
  BY <1>3, <1>7

(* The header's loop.                                                      *)
LEMMA HeaderDoneInv == Inv /\ HeaderDone => Inv'
<1> SUFFICES ASSUME Inv, HeaderDone
             PROVE  Inv'
  OBVIOUS
<1> DEFINE total == total_bits_read + bits_read
<1>1. /\ pc = "take" /\ i > Len(pcm) /\ header_done = FALSE
      /\ audio' = audio /\ file' = file /\ location' = location
      /\ mode' = mode /\ pos' = pos /\ eof' = eof /\ pcm' = pcm /\ i' = i
      /\ bit_index' = bit_index /\ ptr' = ptr /\ decode_buf' = decode_buf
      /\ total_bits_written' = total_bits_written /\ written' = written
      /\ slipped' = slipped
  BY DEF HeaderDone, pipe, Inv, Decoding, DecTypes
<1>2. \/ /\ total < pstat_bits /\ pc' = "header" /\ total_bits_read' = total
         /\ header_done' = header_done /\ bits_read' = bits_read
      \/ /\ ~(total < pstat_bits)
         /\ pc' = (IF IsMagic(pfi) THEN "write" ELSE "failed")
         /\ total_bits_read' = 0 /\ bits_read' = total - pstat_bits
         /\ header_done' = TRUE
  BY DEF HeaderDone
<1>3. mode = "decode"
  <2>1. mode = "encode" => pc # "take"
    BY DEF Inv, Encoding, EncTypes
  <2>2. QED
    BY <1>1, <2>1 DEF Inv, Modes
<1>4. pc' \in {"header", "write", "failed"}
  BY <1>2
<1>5. ASSUME Decodes'
      PROVE  Decoding'
  <2>1. Decodes
    BY <1>1, <1>5 DEF Decodes
  <2>2. /\ Inputs /\ DecTypes /\ DecReading /\ Writing /\ Phase
        /\ DecCounting /\ Bits
        /\ location \in Seq(Sample) /\ Len(location) \in Nat
        /\ pos \in Nat /\ Len(pcm) \in Nat /\ Len(written) \in Nat
        /\ Len(file) \in Nat /\ Len(Stream) = HeaderLen + Len(file)
    BY <2>1, DecodeFacts
  <2>3. Live /\ ~Between /\ written = <<>> /\ Len(written) = 0
    BY <1>1, <2>2 DEF Live, Between, Phase
  <2>4. /\ Stream' = Stream /\ Taken = pos /\ Taken' = pos /\ Counted = total
        /\ At = ptr /\ total \in Nat
    <3>1. i = Len(pcm) + 1
      BY <1>1, <2>2 DEF DecReading, DecTypes
    <3>2. Taken = pos /\ Taken' = pos
      BY <1>1, <1>4, <2>2, <3>1 DEF Taken
    <3>3. QED
      BY <1>1, <2>2, <2>3, <3>2 DEF Stream, Counted, At, DecTypes
  <2>5. /\ Carriers(location, pos) = total /\ ptr \in 0 .. HeaderLen + Chunk - 1
        /\ 8 * ptr + bit_index = total /\ bit_index \in 0 .. 8
        /\ \A a \in 0 .. ptr, b \in 0 .. 7 :
             a < ptr \/ b < bit_index => Right(a, b)
        /\ \A b \in 0 .. 7 : b >= bit_index => decode_buf[ptr][b] = 0
    BY <2>2, <2>3, <2>4 DEF DecCounting, Bits, DecTypes
  <2>6. \A a, b : Right(a, b)' = Right(a, b)
    BY <1>1, <2>4 DEF Right, ByteOfStream
  <2>7. DecReading'
    BY <1>4 DEF DecReading
  <2>8. CASE total < pstat_bits
    <3>1. /\ pc' = "header" /\ total_bits_read' = total /\ header_done' = FALSE
          /\ bits_read' = bits_read /\ Between'
      BY <1>1, <1>2, <2>8 DEF Between
    <3>2. DecTypes'
      BY <1>1, <2>2, <2>4, <3>1 DEF DecTypes
    <3>3. Writing'
      BY <1>1, <2>2, <2>3, <2>4, <3>1 DEF Writing
    <3>4. Phase'
      BY <1>1, <2>3, <2>8, <3>1 DEF Phase, pstat_bits
    <3>5. Counted' = total
      BY <2>4, <3>1 DEF Counted
    <3>6. bit_index # 8 => At' = ptr
      <4> SUFFICES ASSUME bit_index # 8
                   PROVE  At' = ptr
        OBVIOUS
      <4>1. ptr \in Nat /\ bit_index \in 0 .. 7
        BY <2>5, Sizes
      <4>2. PICK t \in Nat : t = total
        BY <2>4
      <4>3. t = 8 * ptr + bit_index
        BY <2>5, <4>2
      <4>4. t \div 8 = ptr
        BY <4>1, <4>3, BitNumber
      <4>5. QED
        BY <3>1, <4>2, <4>4 DEF At, DecodeAt
    <3>7. DecCounting'
      BY <1>1, <2>3, <2>4, <2>5, <3>1, <3>5, <3>6 DEF DecCounting
    <3>8. Bits'
      BY <1>1, <2>5, <2>6, <3>1, <3>6 DEF Bits
    <3>9. QED
      BY <2>7, <3>2, <3>3, <3>4, <3>7, <3>8 DEF Decoding
  <2>9. CASE ~(total < pstat_bits)
    <3>1. /\ pc' = (IF IsMagic(pfi) THEN "write" ELSE "failed")
          /\ total_bits_read' = 0 /\ bits_read' = total - pstat_bits
          /\ header_done' = TRUE
      BY <1>2, <2>9
    <3>2. total >= 8 * HeaderLen /\ bits_read' \in Nat /\ HeaderLen \in Nat
      BY <2>4, <2>9, <3>1, Sizes DEF pstat_bits
    <3>3. ASSUME NEW h \in 0 .. HeaderLen - 1
          PROVE  decode_buf[h] = HeaderFor(file)[h + 1]
      <4>1. h \in Nat /\ ByteOfStream(h) = h /\ h < Len(Stream)
            /\ 8 * (h + 1) <= 8 * ptr + bit_index /\ h + 1 \in 1 .. HeaderLen
        <5>0. h \in Nat /\ h < HeaderLen /\ h + 1 \in 1 .. HeaderLen
          BY <3>2
        <5>1. ByteOfStream(h) = h
          BY <5>0 DEF ByteOfStream
        <5>3. h < Len(Stream)
          BY <2>2, <3>2, <5>0
        <5>4. 8 * (h + 1) <= 8 * ptr + bit_index
          BY <2>4, <2>5, <3>2, <5>0
        <5>5. QED
          BY <5>0, <5>1, <5>3, <5>4
      <4>2. decode_buf[h] = Stream[h + 1]
        BY <2>1, <2>3, <4>1, WholeByte
      <4>3. QED
        BY <2>2, <4>1, <4>2, StreamIs
    <3>4. pc' = "write"
      BY <2>2, <3>1, <3>3, HeaderIs
    <3>5. DecTypes'
      BY <1>1, <2>2, <3>1, <3>2, <3>4 DEF DecTypes
    <3>6. Writing'
      BY <1>1, <2>2, <2>3, <3>1 DEF Writing
    <3>7. Phase'
      BY <1>1, <3>1, <3>3, <3>4 DEF Phase
    <3>8. Counted' = total /\ At' = ptr /\ ~Between'
      <4>1. ~Between'
        BY <3>4 DEF Between
      <4>2. 0 + (total - pstat_bits) + pstat_bits = total
        BY <2>4, <3>2 DEF pstat_bits
      <4>3. QED
        BY <1>1, <3>1, <4>1, <4>2 DEF Counted, At
    <3>9. DecCounting'
      BY <1>1, <2>3, <2>4, <2>5, <3>8 DEF DecCounting
    <3>10. Bits'
      BY <1>1, <2>5, <2>6, <3>8 DEF Bits
    <3>11. QED
      BY <2>7, <3>5, <3>6, <3>7, <3>9, <3>10 DEF Decoding
  <2>10. QED
    BY <2>8, <2>9
<1>6. QED
  BY <1>1, <1>3, <1>4, <1>5, DecodeFrame

(* Back in the data's loop.                                                *)
LEMMA DataReadInv == Inv /\ DataRead => Inv'
<1> SUFFICES ASSUME Inv, DataRead
             PROVE  Inv'
  OBVIOUS
<1>1. /\ pc = "take" /\ i > Len(pcm) /\ header_done /\ pc' = "write"
      /\ audio' = audio /\ file' = file /\ location' = location
      /\ mode' = mode /\ pos' = pos /\ eof' = eof /\ pcm' = pcm /\ i' = i
      /\ bit_index' = bit_index /\ ptr' = ptr /\ decode_buf' = decode_buf
      /\ bits_read' = bits_read /\ total_bits_read' = total_bits_read
      /\ total_bits_written' = total_bits_written /\ written' = written
      /\ header_done' = header_done /\ slipped' = slipped
  BY DEF DataRead, pipe, decoder, counts
<1>2. mode = "decode"
  <2>1. mode = "encode" => pc # "take"
    BY DEF Inv, Encoding, EncTypes
  <2>2. QED
    BY <1>1, <2>1 DEF Inv, Modes
<1>3. ASSUME Decodes'
      PROVE  Decoding'
  <2>1. Decodes
    BY <1>1, <1>3 DEF Decodes
  <2>2. /\ DecTypes /\ DecReading /\ Writing /\ Phase /\ DecCounting /\ Bits
        /\ pos \in Nat /\ Len(pcm) \in Nat
    BY <2>1, DecodeFacts
  <2>3. ~Between /\ ~Between' /\ (Live' => Live) /\ Stream' = Stream
    BY <1>1 DEF Between, Live, Stream
  <2>4. Taken' = Taken
    <3>1. i = Len(pcm) + 1
      BY <1>1, <2>2 DEF DecReading, DecTypes
    <3>2. QED
      BY <1>1, <2>2, <3>1 DEF Taken
  <2>5. Counted' = Counted /\ At' = At
    BY <1>1, <2>3 DEF Counted, At
  <2>6. \A a, b : Right(a, b)' = Right(a, b)
    BY <1>1, <2>3 DEF Right, ByteOfStream
  <2>7. DecTypes' /\ DecReading' /\ Writing'
    BY <1>1, <2>2 DEF DecTypes, DecReading, Writing
  <2>8. Phase'
    BY <1>1, <2>2 DEF Phase
  <2>9. DecCounting'
    BY <1>1, <2>2, <2>3, <2>4, <2>5 DEF DecCounting
  <2>10. Bits'
    BY <1>1, <2>2, <2>3, <2>5, <2>6 DEF Bits
  <2>11. QED
    BY <2>7, <2>8, <2>9, <2>10 DEF Decoding
<1>4. QED
  BY <1>1, <1>2, <1>3, DecodeFrame

(* How many bytes the data's loop can write: those that are whole, and no  *)
(* more than the file has.                                                 *)
LEMMA HowMany ==
  ASSUME NEW total \in Nat, NEW w \in Nat, NEW size \in Nat, 8 * w <= total,
         w <= size
  PROVE  LET n == LesserOf(total - 8 * w, 8 * size - 8 * w) \div 8
         IN  /\ n \in Nat /\ 8 * (w + n) <= total /\ w + n <= size
             /\ total >= 8 * size => w + n = size
             /\ total < 8 * size => total < 8 * (w + n) + 8
<1> DEFINE n == LesserOf(total - 8 * w, 8 * size - 8 * w) \div 8
<1>1. CASE total < 8 * size
  <2>1. PICK d \in Nat : d = total - 8 * w /\ d < 8 * size - 8 * w
    BY <1>1
  <2>2. PICK m \in Nat, b \in 0 .. 7 : d = 8 * m + b
    BY BitOf
  <2>3. d \div 8 = m
    BY <2>2, BitNumber
  <2>4. n = m
    BY <2>1, <2>3 DEF LesserOf
  <2>5. /\ m \in Nat /\ 8 * (w + m) <= total /\ w + m <= size
        /\ total < 8 * (w + m) + 8
    BY <1>1, <2>1, <2>2
  <2>6. QED
    BY <1>1, <2>4, <2>5
<1>2. CASE total >= 8 * size
  <2>1. PICK d \in Nat : d = size - w
    OBVIOUS
  <2>2. LesserOf(total - 8 * w, 8 * size - 8 * w) = 8 * d + 0
    BY <1>2, <2>1 DEF LesserOf
  <2>3. (8 * d + 0) \div 8 = d
    BY BitNumber
  <2>4. n = d
    BY <2>2, <2>3
  <2>5. QED
    BY <1>2, <2>1, <2>4
<1>3. QED
  BY <1>1, <1>2

(* Once the whole bytes are written, the byte that is begun is the next.   *)
LEMMA SameByte ==
  ASSUME NEW l \in Nat, NEW w \in Nat, NEW n \in Nat, NEW p \in Nat,
         NEW b \in 0 .. 7, NEW total \in Nat,
         8 * (p + w) + b = total + 8 * l,
         total < 8 * (w + n) + 8, 8 * (w + n) <= total
  PROVE  l + n = p /\ 8 * (l + (w + n)) + b = total + 8 * l
<1>1. l + n = p
  OBVIOUS
<1>2. QED
  BY <1>1

(* The data's loop.                                                        *)
LEMMA WriteBytesInv == Inv /\ WriteBytes => Inv'
<1> SUFFICES ASSUME Inv, WriteBytes
             PROVE  Inv'
  OBVIOUS
<1> DEFINE total == total_bits_read + bits_read
           n == LesserOf(total - total_bits_written,
                         file_bits - total_bits_written) \div 8
           some == [j \in 1 .. n |-> decode_buf[HeaderLen + j - 1]]
<1>1. /\ pc = "write" /\ total_bits_read < file_bits
      /\ total_bits_read' = total
      /\ total_bits_written' = total_bits_written + 8 * n
      /\ written' = written \o some
      /\ IF n = 0 THEN pc' = "failed" /\ decode_buf' = decode_buf
                  ELSE pc' = "data" /\ decode_buf' = Moved(n)
      /\ audio' = audio /\ file' = file /\ location' = location
      /\ mode' = mode /\ pos' = pos /\ eof' = eof /\ pcm' = pcm /\ i' = i
      /\ bit_index' = bit_index /\ ptr' = ptr
      /\ bits_read' = bits_read /\ header_done' = header_done
      /\ slipped' = slipped
  BY DEF WriteBytes, pipe
<1>2. mode = "decode"
  <2>1. mode = "encode" => pc # "write"
    BY DEF Inv, Encoding, EncTypes
  <2>2. QED
    BY <1>1, <2>1 DEF Inv, Modes
<1>3. pc' \in {"failed", "data"}
  BY <1>1
<1> HIDE DEF n
<1>4. ASSUME Decodes'
      PROVE  Decoding'
  <2>1. Decodes
    BY <1>1, <1>4 DEF Decodes
  <2>2. /\ Inputs /\ DecTypes /\ DecReading /\ Writing /\ Phase
        /\ DecCounting /\ Bits
        /\ location \in Seq(Sample) /\ Len(location) \in Nat
        /\ pos \in Nat /\ Len(written) \in Nat
        /\ Len(file) \in Nat /\ Len(Stream) = HeaderLen + Len(file)
    BY <2>1, DecodeFacts
  <2>3. /\ header_done
        /\ \A h \in 0 .. HeaderLen - 1 : decode_buf[h] = HeaderFor(file)[h + 1]
    BY <1>1, <2>2 DEF Phase
  <2>4. file_bits = 8 * Len(file)
    BY <2>2, <2>3, HeaderIs DEF file_bits
  <2>5. /\ bits_read \in Nat /\ total_bits_read \in Nat /\ total \in Nat
        /\ total_bits_written = 8 * Len(written)
        /\ Len(written) <= Len(file) /\ 8 * Len(written) <= total
        /\ written \in Seq(Byte)
        /\ decode_buf \in [0 .. HeaderLen + Chunk - 1 -> Byte]
        /\ bit_index \in 0 .. 8
        /\ HeaderLen \in Nat \ {0} /\ Chunk \in Nat \ {0}
    BY <2>2, Sizes DEF DecTypes, Writing
  <2>6. Live /\ ~Between /\ At = ptr /\ Taken = pos
    BY <1>1, <2>4 DEF Live, Between, At, Taken
  <2> HIDE DEF total
  <2>7. Counted = total + 8 * HeaderLen
    BY <2>3, <2>6 DEF Counted, pstat_bits, total
  <2>8. /\ ptr \in 0 .. HeaderLen + Chunk - 1
        /\ 8 * (ptr + Len(written)) + bit_index = total + 8 * HeaderLen
        /\ Carriers(location, pos) = total + 8 * HeaderLen
        /\ \A a \in 0 .. ptr, b \in 0 .. 7 :
             a < ptr \/ b < bit_index => Right(a, b)
        /\ \A b \in 0 .. 7 : b >= bit_index => decode_buf[ptr][b] = 0
    BY <2>2, <2>6, <2>7 DEF DecCounting, Bits
  <2>9. /\ n \in Nat /\ 8 * (Len(written) + n) <= total
        /\ Len(written) + n <= Len(file)
        /\ total >= 8 * Len(file) => Len(written) + n = Len(file)
        /\ total < 8 * Len(file) => total < 8 * (Len(written) + n) + 8
    <3>1. n = LesserOf(total - 8 * Len(written),
                       8 * Len(file) - 8 * Len(written)) \div 8
      BY <2>4, <2>5 DEF n
    <3>2. QED
      BY ONLY <2>2, <2>5, <3>1, HowMany
  <2>10. ASSUME NEW j \in 1 .. n
         PROVE  /\ some[j] \in Byte
                /\ some[j] = file[Len(written) + j]
    <3> DEFINE a == HeaderLen + j - 1
    <3>1. /\ a \in Nat /\ ~(a < HeaderLen)
          /\ 8 * (a + 1) <= 8 * ptr + bit_index
      BY <2>2, <2>5, <2>8, <2>9
    <3>2. /\ ByteOfStream(a) = a + Len(written) /\ ByteOfStream(a) \in Nat
          /\ ByteOfStream(a) < Len(Stream)
          /\ ByteOfStream(a) + 1 = HeaderLen + (Len(written) + j)
          /\ Len(written) + j \in 1 .. Len(file)
      BY <2>2, <2>5, <2>9, <3>1 DEF ByteOfStream
    <3> HIDE DEF a
    <3>3. /\ a \in 0 .. HeaderLen + Chunk - 1
          /\ decode_buf[a] = Stream[ByteOfStream(a) + 1]
      BY <2>1, <2>6, <3>1, <3>2, WholeByte
    <3>4. Stream[HeaderLen + (Len(written) + j)] = file[Len(written) + j]
      BY <2>2, <3>2, StreamIs
    <3>5. some[j] = decode_buf[a]
      BY DEF a
    <3>6. QED
      BY <2>5, <3>2, <3>3, <3>4, <3>5
  <2>11. some \in Seq(Byte) /\ Len(some) = n
    <3>1. some \in [1 .. n -> Byte]
      BY <2>10
    <3>2. QED
      BY <2>9, <3>1, SeqDef, LenProperties
  <2> HIDE DEF some
  <2>12. /\ written' \in Seq(Byte) /\ Len(written') = Len(written) + n
         /\ \A k \in 1 .. Len(written) : written'[k] = written[k]
         /\ \A k \in 1 .. n : written'[Len(written) + k] = some[k]
    <3>1. /\ written \o some \in Seq(Byte)
          /\ Len(written \o some) = Len(written) + Len(some)
          /\ \A k \in 1 .. Len(written) : (written \o some)[k] = written[k]
          /\ \A k \in 1 .. Len(some) :
               (written \o some)[Len(written) + k] = some[k]
      <4>1. written \in Seq(Byte) /\ some \in Seq(Byte)
        BY <2>5, <2>11
      <4>2. QED
        BY ONLY <4>1, Joins
    <3>2. QED
      BY <1>1, <2>11, <3>1
  <2>13. Writing'
    <3>1. ASSUME NEW k \in 1 .. Len(written')
          PROVE  written'[k] = file[k]
      <4>1. CASE k <= Len(written)
        BY <2>2, <2>12, <4>1 DEF Writing
      <4>2. CASE k > Len(written)
        <5>1. PICK j \in 1 .. n : k = Len(written) + j
          <6>1. k - Len(written) \in 1 .. n /\ k = Len(written) + (k - Len(written))
            BY <2>2, <2>9, <2>12, <4>2
          <6>2. QED
            BY <6>1, Zenon
        <5>2. QED
          BY <2>10, <2>12, <5>1
      <4>3. QED
        BY <2>2, <2>9, <2>12, <4>1, <4>2
    <3>2. total_bits_written' = 8 * Len(written')
      BY <1>1, <2>2, <2>5, <2>9, <2>12
    <3>3. QED
      BY <1>1, <2>9, <2>12, <3>1, <3>2 DEF Writing
  <2>14. DecReading'
    BY <1>3 DEF DecReading
  <2>15. CASE n = 0
    <3>1. pc' = "failed" /\ decode_buf' = decode_buf
      BY <1>1, <2>15
    <3>2. DecTypes'
      BY <1>1, <2>2, <2>5, <2>12, <3>1 DEF DecTypes, total
    <3>3. Phase'
      BY <1>1, <2>3, <3>1 DEF Phase
    <3>4. ~Live'
      BY <3>1 DEF Live
    <3>5. QED
      BY <2>13, <2>14, <3>2, <3>3, <3>4 DEF Decoding, DecCounting, Bits
  <2>16. CASE n # 0
    <3>1. pc' = "data" /\ decode_buf' = Moved(n) /\ Between'
      BY <1>1, <2>16 DEF Between
    <3>2. /\ decode_buf' \in [0 .. HeaderLen + Chunk - 1 -> Byte]
          /\ HeaderLen \in 0 .. HeaderLen + Chunk - 1
          /\ \A h \in 0 .. HeaderLen - 1 : decode_buf'[h] = decode_buf[h]
          /\ HeaderLen + n \in 0 .. HeaderLen + Chunk - 1
               => decode_buf'[HeaderLen] = decode_buf[HeaderLen + n]
      <4> DEFINE byte == IF HeaderLen + n \in DOMAIN decode_buf
                         THEN decode_buf[HeaderLen + n] ELSE Garbage
      <4>1. byte \in Byte
        BY <2>5, Sizes
      <4>2. HeaderLen \in 0 .. HeaderLen + Chunk - 1
        BY <2>5
      <4>3. decode_buf' = [decode_buf EXCEPT ![HeaderLen] = byte]
        BY <3>1 DEF Moved
      <4>4. HeaderLen + n \in 0 .. HeaderLen + Chunk - 1
              => byte = decode_buf[HeaderLen + n]
        BY <2>5
      <4> HIDE DEF byte
      <4>5. \A h \in 0 .. HeaderLen - 1 :
              h # HeaderLen /\ h \in 0 .. HeaderLen + Chunk - 1
        BY <2>5
      <4>6. QED
        BY <2>5, <4>1, <4>2, <4>3, <4>4, <4>5
    <3>3. DecTypes'
      BY <1>1, <2>2, <2>5, <2>12, <3>1, <3>2 DEF DecTypes, total
    <3>4. Phase'
      BY <1>1, <2>3, <3>1, <3>2 DEF Phase
    <3>5. /\ Stream' = Stream /\ Taken' = pos /\ At' = HeaderLen
          /\ Counted' = total + 8 * HeaderLen
      BY <1>1, <2>3, <3>1 DEF Stream, Taken, At, Counted, Between, DecodeAt,
                              pstat_bits
    <3>6. ASSUME Live', bit_index # 8
          PROVE  /\ HeaderLen + n = ptr
                 /\ 8 * (HeaderLen + Len(written')) + bit_index
                      = total + 8 * HeaderLen
      <4>1. total < 8 * Len(file)
        BY <1>1, <2>3, <3>6 DEF Live
      <4>2. /\ total < 8 * (Len(written) + n) + 8
            /\ 8 * (Len(written) + n) <= total /\ bit_index \in 0 .. 7
            /\ ptr \in Nat
        BY <2>5, <2>8, <2>9, <3>6, <4>1
      <4>3. /\ Len(written) \in Nat /\ HeaderLen \in Nat
            /\ 8 * (ptr + Len(written)) + bit_index = total + 8 * HeaderLen
            /\ total \in Nat /\ n \in Nat
        BY <2>2, <2>5, <2>8, <2>9
      <4>4. /\ HeaderLen + n = ptr
            /\ 8 * (HeaderLen + (Len(written) + n)) + bit_index
                 = total + 8 * HeaderLen
        BY ONLY <4>2, <4>3, SameByte
      <4>5. QED
        BY <2>12, <4>4
    <3>7. DecCounting'
      BY <1>1, <2>8, <3>1, <3>2, <3>5, <3>6 DEF DecCounting
    <3>8. ASSUME Live', bit_index # 8, NEW a \in 0 .. HeaderLen,
                 NEW b \in 0 .. 7, a < HeaderLen \/ b < bit_index
          PROVE  Right(a, b)'
      <4>1. Right(a, b)' <=> (ByteOfStream(a)' < Len(Stream)
                               => decode_buf'[a][b] = Stream[ByteOfStream(a)' + 1][b])
        BY <3>5 DEF Right
      <4>2. CASE a < HeaderLen
        <5>1. ByteOfStream(a)' = a
          BY <4>2 DEF ByteOfStream
        <5>2. decode_buf'[a] = HeaderFor(file)[a + 1]
          BY <2>3, <3>2, <4>2
        <5>3. Stream[a + 1] = HeaderFor(file)[a + 1]
          BY <2>2, <2>5, <4>2, StreamIs
        <5>4. QED
          BY <4>1, <5>1, <5>2, <5>3
      <4>3. CASE a = HeaderLen
        <5>1. HeaderLen + n = ptr /\ b < bit_index
          BY <2>5, <3>6, <3>8, <4>3
        <5>2. decode_buf'[a] = decode_buf[ptr]
          BY <2>8, <3>2, <4>3, <5>1
        <5>3. Right(ptr, b)
          <6>1. ptr \in 0 .. ptr
            BY <2>5, <2>8
          <6>2. QED
            BY <2>8, <5>1, <6>1, Zenon
        <5>4. ByteOfStream(a)' = HeaderLen + Len(written') /\ ~(ptr < HeaderLen)
          BY <2>5, <2>9, <4>3, <5>1 DEF ByteOfStream
        <5>5. ByteOfStream(ptr) = ptr + Len(written)
          BY <5>4 DEF ByteOfStream
        <5>6. ByteOfStream(a)' = ByteOfStream(ptr)
          BY <2>2, <2>5, <2>9, <2>12, <5>1, <5>4, <5>5
        <5>7. QED
          BY <4>1, <5>2, <5>3, <5>6 DEF Right
      <4>4. QED
        BY <2>5, <4>2, <4>3
    <3>9. ASSUME Live', bit_index # 8, NEW b \in 0 .. 7, b >= bit_index
          PROVE  decode_buf'[HeaderLen][b] = 0
      <4>1. HeaderLen + n = ptr
        BY <3>6, <3>9
      <4>2. QED
        BY <2>8, <3>2, <3>9, <4>1
    <3>10. Bits'
      BY <1>1, <3>1, <3>5, <3>8, <3>9 DEF Bits
    <3>11. QED
      BY <2>13, <2>14, <3>3, <3>4, <3>7, <3>10 DEF Decoding
  <2>17. QED
    BY <2>15, <2>16
<1>5. pc' \in {"header", "take", "write", "data", "done", "failed", "smashed"}
  BY <1>3
<1>6. QED
  BY <1>1, <1>2, <1>4, <1>5, DecodeFrame

(* The end of the data's loop.                                             *)
LEMMA DecodeEndsInv == Inv /\ DecodeEnds => Inv'
<1> SUFFICES ASSUME Inv, DecodeEnds
             PROVE  Inv'
  OBVIOUS
<1>1. /\ pc = "write" /\ (eof \/ total_bits_read >= file_bits) /\ pc' = "done"
      /\ audio' = audio /\ file' = file /\ location' = location
      /\ mode' = mode /\ pos' = pos /\ eof' = eof /\ pcm' = pcm /\ i' = i
      /\ bit_index' = bit_index /\ ptr' = ptr /\ decode_buf' = decode_buf
      /\ bits_read' = bits_read /\ total_bits_read' = total_bits_read
      /\ total_bits_written' = total_bits_written /\ written' = written
      /\ header_done' = header_done /\ slipped' = slipped
  BY DEF DecodeEnds, pipe, decoder, counts
<1>2. mode = "decode"
  <2>1. mode = "encode" => pc # "write"
    BY DEF Inv, Encoding, EncTypes
  <2>2. QED
    BY <1>1, <2>1 DEF Inv, Modes
<1>3. ASSUME Decodes'
      PROVE  Decoding'
  <2>1. Decodes
    BY <1>1, <1>3 DEF Decodes
  <2>2. Inputs /\ DecTypes /\ Writing /\ Phase
    BY <2>1, DecodeFacts
  <2>3. /\ header_done
        /\ \A h \in 0 .. HeaderLen - 1 : decode_buf[h] = HeaderFor(file)[h + 1]
    BY <1>1, <2>2 DEF Phase
  <2>4. eof \/ total_bits_read >= 8 * Len(file)
    BY <1>1, <2>2, <2>3, HeaderIs DEF file_bits
  <2>5. ~Live'
    BY <1>1 DEF Live
  <2>6. DecTypes' /\ DecReading' /\ Writing'
    BY <1>1, <2>2 DEF DecTypes, DecReading, Writing
  <2>7. Phase'
    BY <1>1, <2>3, <2>4 DEF Phase
  <2>8. QED
    BY <2>5, <2>6, <2>7 DEF Decoding, DecCounting, Bits
<1>4. QED
  BY <1>1, <1>2, <1>3, DecodeFrame

-----------------------------------------------------------------------------
(* Every step keeps the invariant.                                         *)
LEMMA NextInv == Inv /\ Next => Inv'
BY StartEncodeInv, EncodeReadInv, PutSampleInv, EncodeWriteInv, PublishInv,
   StartDecodeInv, DecodeReadInv, TakeSampleInv, HeaderDoneInv, DataReadInv,
   WriteBytesInv, DecodeEndsInv
DEF Next

(* A step that changes nothing keeps it.                                   *)
LEMMA IdleInv == Inv /\ UNCHANGED vars => Inv'
<1> SUFFICES ASSUME Inv, UNCHANGED vars
             PROVE  Inv'
  OBVIOUS
<1>1. /\ audio' = audio /\ file' = file /\ location' = location /\ pc' = pc
      /\ mode' = mode /\ pos' = pos /\ eof' = eof /\ pcm' = pcm /\ i' = i
      /\ bit_index' = bit_index /\ ptr' = ptr /\ out' = out
      /\ encode_buf' = encode_buf /\ fpos' = fpos
      /\ still_encoding' = still_encoding /\ decode_buf' = decode_buf
      /\ bits_read' = bits_read /\ total_bits_read' = total_bits_read
      /\ total_bits_written' = total_bits_written
      /\ header_done' = header_done /\ written' = written
      /\ slipped' = slipped
  BY DEF vars, pipe, encoder, decoder, counts
<1>2. /\ Stream' = Stream /\ Origin' = Origin /\ Decided' = Decided
      /\ Between' = Between /\ Live' = Live /\ Taken' = Taken
  BY <1>1 DEF Stream, Origin, Decided, Between, Live, Taken
<1>3. Covered' = Covered /\ At' = At /\ Counted' = Counted /\ Decodes' = Decodes
  BY <1>1, <1>2 DEF Covered, At, DecodeAt, Counted, Decodes
<1>4. \A a, b : Right(a, b)' = Right(a, b)
  BY <1>1, <1>2 DEF Right, ByteOfStream
<1>5. Inputs' /\ Modes' /\ Location'
  BY <1>1, <1>3 DEF Inv, Inputs, Modes, Location
<1>6. Encoding'
  BY <1>1, <1>2 DEF Inv, Encoding, EncTypes, EncReading, EncBuffer,
                    EncCounting, EncImage, NotDecoded
<1>7. ASSUME Decodes
      PROVE  /\ DecTypes' /\ DecReading' /\ Writing' /\ Phase'
             /\ DecCounting' /\ Bits'
  <2>1. /\ DecTypes /\ DecReading /\ Writing /\ Phase /\ DecCounting /\ Bits
    BY <1>7 DEF Inv, Decoding
  <2>2. DecTypes' /\ DecReading' /\ Writing' /\ Phase'
    BY <1>1, <2>1 DEF DecTypes, DecReading, Writing, Phase
  <2>3. DecCounting' /\ Bits'
    BY <1>1, <1>2, <1>3, <1>4, <2>1 DEF DecCounting, Bits
  <2>4. QED
    BY <2>2, <2>3
<1>8. QED
  BY <1>3, <1>5, <1>6, <1>7 DEF Inv, Decoding

(* The invariant that the results rest on.                                 *)
THEOREM Invariance == Spec => []Inv
<1>1. Init => Inv
  BY InitInv
<1>2. Inv /\ [Next]_vars => Inv'
  BY NextInv, IdleInv
<1>3. QED
  BY <1>1, <1>2, PTL DEF Spec

(* For every audio file, every file to hide and all chunk sizes: whatever  *)
(* way encode ends, the audio file is the recording as it was or the       *)
(* recording with the whole stream in its loud samples. (flip_lowbits.c:147)*)
THEOREM Whole == Spec => []LocationWhole
<1>1. Inv => LocationWhole
  BY DEF Inv, Location, LocationWhole
<1>2. QED
  BY <1>1, Invariance, PTL

(* What is known of the file that decode has written.                      *)
LEMMA InvDecodes == Inv => DecodesPrefix
<1> SUFFICES ASSUME Inv, mode = "decode", location # audio, ~slipped
             PROVE  /\ Len(written) <= Len(file)
                    /\ written = SubSeq(file, 1, Len(written))
                    /\ pc = "done" /\ ~eof => written = file
  BY DEF DecodesPrefix
<1>1. Decodes
  BY DEF Decodes
<1>2. /\ Inputs /\ DecTypes /\ Writing /\ Phase /\ Len(written) \in Nat
      /\ Len(file) \in Nat
  BY <1>1, DecodeFacts
<1>3. /\ written \in Seq(Byte) /\ file \in Seq(Byte)
      /\ Len(written) <= Len(file)
      /\ \A k \in 1 .. Len(written) : written[k] = file[k]
  BY <1>2, StreamIs DEF DecTypes, Writing
<1>4. written = SubSeq(file, 1, Len(written))
  <2>1. /\ SubSeq(file, 0 + 1, 0 + Len(written)) \in Seq(Byte)
        /\ Len(SubSeq(file, 0 + 1, 0 + Len(written))) = Len(written)
        /\ \A k \in 1 .. Len(written) :
             SubSeq(file, 0 + 1, 0 + Len(written))[k] = file[0 + k]
    BY <1>2, <1>3, Slice
  <2>2. PICK head \in Seq(Byte) : head = SubSeq(file, 1, Len(written))
    <3>1. 0 + 1 = 1 /\ 0 + Len(written) = Len(written)
      BY <1>2
    <3>2. SubSeq(file, 1, Len(written)) \in Seq(Byte)
      BY <2>1, <3>1
    <3>3. QED
      BY <3>2, Zenon
  <2>3. /\ Len(head) = Len(written)
        /\ \A k \in 1 .. Len(written) : head[k] = written[k]
    BY <1>2, <1>3, <2>1, <2>2
  <2>4. head = written
    BY <1>3, <2>3, SeqEqual
  <2>5. QED
    BY <2>2, <2>4
<1>5. ASSUME pc = "done", ~eof
      PROVE  written = file
  <2>1. Len(written) = Len(file)
    BY <1>2, <1>5 DEF Phase, Writing
  <2>2. QED
    BY <1>3, <2>1, SeqEqual
<1>6. QED
  BY <1>3, <1>4, <1>5

(* For every audio file, every file to hide and all chunk sizes: as long   *)
(* as no call of decode_bits begins on a full byte, what decode writes is  *)
(* the beginning of the hidden file, and all of it when it ends before the *)
(* audio does. (flip_lowbits.c:90)                                         *)
THEOREM Prefix == Spec => []DecodesPrefix
<1>1. QED
  BY InvDecodes, Invariance, PTL
=============================================================================
