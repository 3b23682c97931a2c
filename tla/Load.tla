-------------------------------- MODULE Load --------------------------------
(***************************************************************************)
(* The constructor SFSFSSFSF_File::SFSFSSFSF_File, when it is not told to  *)
(* overwrite, and the decode_bits calls it makes                           *)
(* (src/src/sfsfssfsf_file.cc): ffmpeg decodes the audio file into pipein, *)
(* the low bits of its loud samples become the header, and then, chunk by  *)
(* chunk, the data buffer.                                                 *)
(*                                                                         *)
(* A header says whether it is one (pfi.magic) and how long the file is    *)
(* (pfi.pst_size). Sizes behind the data buffer are not modelled.          *)
(***************************************************************************)
EXTENDS HiddenFile

CONSTANTS
  Images,        (* what the audio file may hold                           *)
  Payloads,      (* the hidden files it may carry                          *)
  Garbage,       (* what the memory of a new object's pfi may hold         *)
  IsMagic(_),    (* pfi.magic == SFSFSSFSF_MAGIC                           *)
  SizeOf(_)      (* pfi.pst_size                                           *)

ASSUME LoadAssumption ==
  /\ Images \subseteq Seq(Sample)
  /\ Garbage \subseteq Header
  /\ \A p \in Payloads : p \in Payload /\ IsMagic(p.pfi) /\ SizeOf(p.pfi) = p.size
  /\ \A h \in Header : IsMagic(h) \in BOOLEAN /\ SizeOf(h) \in 0 .. DataLen

VARIABLES
  image,        (* the samples that ffmpeg decodes                         *)
  pos,          (* samples read from pipein so far                         *)
  eof,          (* feof(pipein)                                            *)
  pc,           (* "loop", "for", "break" in decode_bits, then "check",    *)
                (* "test", "chunk" in the constructor, "thrown", "done"    *)
  buf,          (* what decode_ptr points into: "pfi" or "data"            *)
  base,         (* the constructor's decode_ptr - data                     *)
  maxbytes,
  bits_read,
  ptr,          (* decode_bits' decode_ptr - decode_buf                    *)
  bit_index,    (* 0 .. 8: a full byte is left at the next sample          *)
  pcm,          (* the part of pcm_buf the last fread filled               *)
  i,            (* the inner loop's index, from 1                          *)
  pfi,
  data,
  total,        (* total_bytes_read                                        *)
  thrown        (* the string that was thrown                              *)

call == <<buf, base, maxbytes>>
object == <<pfi, data>>
vars == <<image, pos, eof, pc, call, bits_read, ptr, bit_index, pcm, i,
          object, total, thrown>>

ZeroByte == [b \in 0 .. 7 |-> 0]

-----------------------------------------------------------------------------
(* decode_bits                                                             *)

(* Mutant of NumToRead: the count of the first round again in every round. *)
NumToReadAgain == 8 * maxbytes

(* maxbits - bits_read: no round can meet more bits than are wanted.       *)
NumToRead == 8 * maxbytes - bits_read

(* Mutant of AfterRead: the break is missing.                              *)
AfterReadNoBreak(num_read) == IF num_read = 0 THEN "loop" ELSE "for"

(* if (samples_read == 0) break *)
AfterRead(num_read) == IF num_read = 0 THEN "break" ELSE "for"

(* fread(pcm_buf, 2, maxbits - bits_read, pipein) *)
FRead ==
  /\ pc = "loop" /\ bits_read < 8 * maxbytes
  /\ LET left     == Len(image) - pos
         num_read == IF NumToRead <= left THEN NumToRead ELSE left
     IN  /\ pcm' = SubSeq(image, pos + 1, pos + num_read)
         /\ pos' = pos + num_read
         /\ eof' = (num_read < NumToRead)
         /\ pc'  = AfterRead(num_read)
  /\ i' = 1
  /\ UNCHANGED <<image, call, bits_read, ptr, bit_index, object, total, thrown>>

(* The byte under decode_ptr, with the bit of a loud sample or-ed in.      *)
WithBit(byte, b, sample) ==
  IF Encodable(sample) /\ LowBit(sample) = 1 THEN [byte EXCEPT ![b] = 1]
                                             ELSE byte

(* Mutant of NextByte: a byte is left one bit late.                        *)
NextByteLate == bit_index > 8

(* bit_index >= 8: decode_ptr moves on, and what it finds is zeroed.       *)
NextByte == bit_index >= 8

(* One turn of the inner loop. *)
TakeSample ==
  /\ pc = "for"
  /\ LET at   == IF NextByte THEN ptr + 1 ELSE ptr
         b    == IF NextByte THEN 0 ELSE bit_index
         slot == IF buf = "pfi" THEN at ELSE base + at
         old  == IF NextByte THEN ZeroByte
                 ELSE IF buf = "pfi" THEN pfi[slot] ELSE data[slot]
         step == IF Encodable(pcm[i]) THEN 1 ELSE 0
     IN  /\ ptr' = at
         /\ bit_index' = b + step
         /\ bits_read' = bits_read + step
         /\ IF buf = "pfi"
            THEN /\ pfi' = [pfi EXCEPT ![slot] = WithBit(old, b, pcm[i])]
                 /\ data' = data
            ELSE /\ data' = [data EXCEPT ![slot] = WithBit(old, b, pcm[i])]
                 /\ pfi' = pfi
  /\ i' = i + 1
  /\ pc' = IF i = Len(pcm) THEN "loop" ELSE "for"
  /\ UNCHANGED <<image, pos, eof, call, pcm, total, thrown>>

(* Mutant of Aligned: a short call is refused wherever it ends.            *)
AlignedFull == bits_read = 8 * maxbytes

(* bits_read % 8 == 0 *)
Aligned == bits_read % 8 = 0

(* The end of decode_bits: the throw, or back in the constructor.          *)
DecodeReturn ==
  /\ pc = "break" \/ (pc = "loop" /\ bits_read >= 8 * maxbytes)
  /\ IF Aligned
     THEN /\ pc' = IF buf = "pfi" THEN "check" ELSE "chunk"
          /\ thrown' = thrown
     ELSE /\ pc' = "thrown"
          /\ thrown' = "Non-byte-aligned read"
  /\ UNCHANGED <<image, pos, eof, call, bits_read, ptr, bit_index, pcm, i,
                 object, total>>

-----------------------------------------------------------------------------
(* The constructor                                                         *)

(* The pipe is open, the data buffer zeroed, and decode_bits has zeroed    *)
(* the first byte of the header. Nothing else of pfi is initialised.       *)
Init ==
  /\ image \in Images
  /\ \E g \in Garbage : pfi = [g EXCEPT ![0] = ZeroByte]
  /\ data = [d \in 0 .. DataLen - 1 |-> ZeroByte]
  /\ pos = 0 /\ eof = FALSE
  /\ pc = "loop"
  /\ buf = "pfi" /\ base = 0 /\ maxbytes = HeaderLen
  /\ bits_read = 0 /\ ptr = 0 /\ bit_index = 0
  /\ pcm = <<>> /\ i = 1
  /\ total = 0 /\ thrown = ""

(* if (pfi.magic != SFSFSSFSF_MAGIC) throw "Not an SFSFSSFSF"              *)
CheckMagic ==
  /\ pc = "check"
  /\ IF IsMagic(pfi) THEN pc' = "test" /\ thrown' = thrown
                     ELSE pc' = "thrown" /\ thrown' = "Not an SFSFSSFSF"
  /\ UNCHANGED <<image, pos, eof, call, bits_read, ptr, bit_index, pcm, i,
                 object, total>>

(* Mutant of MoreToRead: whole chunks only.                                *)
MoreToReadWhole == ~eof /\ total + Chunk <= SizeOf(pfi)

(* !feof(pipein) && (total_bytes_read < file_bytes) *)
MoreToRead == ~eof /\ total < SizeOf(pfi)

(* decode_bits on the next chunk. *)
CallChunk ==
  /\ pc = "test" /\ MoreToRead
  /\ buf' = "data" /\ base' = total /\ maxbytes' = Chunk
  /\ bits_read' = 0 /\ ptr' = 0 /\ bit_index' = 0
  /\ data' = [data EXCEPT ![total] = ZeroByte]
  /\ pc' = "loop"
  /\ UNCHANGED <<image, pos, eof, pcm, i, pfi, total, thrown>>

(* No bytes: throw; otherwise total_bytes_read += bytes_read.              *)
ChunkDone ==
  /\ pc = "chunk"
  /\ IF bits_read \div 8 = 0
     THEN pc' = "thrown" /\ thrown' = "Pipe error on read" /\ total' = total
     ELSE pc' = "test" /\ thrown' = thrown /\ total' = total + bits_read \div 8
  /\ UNCHANGED <<image, pos, eof, call, bits_read, ptr, bit_index, pcm, i,
                 object>>

(* The object is there. *)
Loaded ==
  /\ pc = "test" /\ ~MoreToRead
  /\ pc' = "done"
  /\ UNCHANGED <<image, pos, eof, call, bits_read, ptr, bit_index, pcm, i,
                 object, total, thrown>>

Next == \/ FRead
        \/ TakeSample
        \/ DecodeReturn
        \/ CheckMagic
        \/ CallChunk
        \/ ChunkDone
        \/ Loaded

Spec == Init /\ [][Next]_vars

(* As in Fsync: the thread runs and ffmpeg keeps the pipe moving.          *)
FairSpec == Spec /\ WF_vars(Next)

-----------------------------------------------------------------------------
(* What the constructor promises.                                          *)

(* Every variable has its type; the pointers stay inside their buffers.    *)
TypeOK ==
  /\ image \in Seq(Sample)
  /\ pos \in 0 .. Len(image) /\ eof \in BOOLEAN
  /\ pc \in {"loop", "for", "break", "check", "test", "chunk", "thrown", "done"}
  /\ buf \in {"pfi", "data"} /\ base \in 0 .. DataLen
  /\ maxbytes \in {HeaderLen, Chunk}
  /\ bits_read \in 0 .. 8 * maxbytes
  /\ ptr \in 0 .. maxbytes - 1 /\ bit_index \in 0 .. 8
  /\ pcm \in Seq(Sample) /\ i \in Nat \ {0}
  /\ pfi \in Header /\ data \in Buffer
  /\ total \in 0 .. DataLen
  /\ thrown \in {"", "Non-byte-aligned read", "Not an SFSFSSFSF",
                 "Pipe error on read"}

(* Hidden bits decoded so far, header included.                            *)
Decoded ==
  IF buf = "pfi" THEN bits_read
  ELSE 8 * (HeaderLen + base) + bits_read

(* After every call the object holds what the loud samples read so far     *)
(* carry, bit for bit, and no other: rounds of fread, the byte left only   *)
(* at the next sample, the zeroing of bytes and the switch from header to  *)
(* data lose, double and shift nothing. (decode_bits)                      *)
BitsInOrder ==
  pc \in {"check", "test", "chunk", "done"} =>
    /\ Decoded = Carriers(image, pos)
    /\ Carries(SubSeq(image, 1, pos),
               [pfi |-> pfi, data |-> data, size |-> DataLen])

(* What the audio carries of the byte of data at d: all of it, or not.     *)
Reaches(d) == 8 * (HeaderLen + d + 1) <= Carriers(image, Len(image))

(* "Each audio file has a header encoded in it [...] followed by the data  *)
(* of the file" (doc/writeup.tex:93): an object made from an image that    *)
(* carries a file's header is that file: its header and size, its data as  *)
(* far as the audio goes, all of it where there is room, and zeros behind  *)
(* the audio's end, none of the bits of a byte that it cuts.               *)
LoadsTheFile ==
  pc = "done" =>
    \A p \in Payloads :
      Carries(image, p) /\ Reaches(-1) =>
        /\ pfi = p.pfi
        /\ \A d \in 0 .. p.size - 1 :
             data[d] = IF Reaches(d) THEN p.data[d] ELSE ZeroByte
        /\ Room(image, p) => total >= p.size

(* The size of a file with the padding of its last chunk, which the loop   *)
(* reads as well.                                                          *)
Padded(size) == Chunk * ((size + Chunk - 1) \div Chunk)

(* "will decode maxbytes bytes unless at EOF" (sfsfssfsf_file.cc:6): where *)
(* an image carries a whole file the constructor gives it, except that it  *)
(* throws if the audio ends inside a byte of the padding, which is no part *)
(* of the file (decode_bits, sfsfssfsf_file.cc:40).                        *)
RefusesOnlyCut ==
  pc = "thrown" =>
    \A p \in Payloads :
      Carries(image, p) /\ Room(image, p) =>
        /\ Carriers(image, Len(image)) % 8 # 0
        /\ ~Reaches(Padded(p.size) - 1)

(* The constructor ends.                                                   *)
Ends == <>(pc \in {"done", "thrown"})
=============================================================================
