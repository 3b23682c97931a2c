------------------------------- MODULE Fsync -------------------------------
(***************************************************************************)
(* SFSFSSFSF_File::fsync and the encode_bits calls it makes                *)
(* (src/src/sfsfssfsf_file.cc): the audio file is decoded by one ffmpeg    *)
(* into pipein, the header and the file's bytes are put into the low bits  *)
(* of its loud samples, and the altered samples go to a second ffmpeg      *)
(* through pipeout, which writes <location>.tmp; a rename publishes it.    *)
(*                                                                         *)
(* One action per step of the code that another step can depend on: a      *)
(* fread, one sample of the inner loop, a fwrite, a return, and each       *)
(* statement of fsync that looks at the result.                            *)
(***************************************************************************)
EXTENDS HiddenFile

CONSTANTS
  Audios,        (* the sample sequences an audio file may hold            *)
  Payloads,      (* the in-memory files: header, data buffer and size      *)
  SignedCounter  (* FALSE: num_encoded is a size_t, as the code declares   *)
                 (* it, and `num_encoded >= 0` cannot fail. TRUE: the      *)
                 (* off_t that encode_bits returns, which the loop is      *)
                 (* written for. Safety is checked and proved for both.    *)

ASSUME FsyncAssumption ==
  /\ Audios \subseteq Seq(Sample)
  /\ Payloads \subseteq Payload
  /\ SignedCounter \in BOOLEAN

VARIABLES
  audio,        (* what ffmpeg decodes out of location when fsync starts   *)
  payload,      (* the SFSFSSFSF_File object: pfi, data, pfi.pst_size      *)
  location,     (* what the file at location holds                         *)
  pos,          (* samples read from pipein so far                         *)
  eof,          (* feof(pipein)                                            *)
  out,          (* samples written to pipeout so far                       *)
  pc,           (* "loop", "for", "returned", "test", "thrown", "done"     *)
  buf,          (* which buffer encode_buf points into: "pfi" or "data"    *)
  base,         (* encode_ptr - data of fsync, in bytes                    *)
  nbytes,       (* num_bytes                                               *)
  still,        (* still_encoding                                          *)
  ptr,          (* encode_ptr - encode_buf of encode_bits                  *)
  bit_index,
  pcm,          (* the part of pcm_buf the last fread filled               *)
  i,            (* the inner loop's index, from 1                          *)
  num_encoded   (* what encode_bits returned                               *)

input == <<audio, payload>>
cursor == <<ptr, bit_index>>
call == <<buf, base, nbytes, still>>
vars == <<audio, payload, location, pos, eof, out, pc, buf, base, nbytes,
          still, ptr, bit_index, pcm, i, num_encoded>>

-----------------------------------------------------------------------------
(* encode_bits *)

(* Mutant of EncodeByte: every chunk starts at the buffer's beginning.     *)
EncodeByteRestart ==
  IF buf = "pfi" THEN payload.pfi[ptr] ELSE payload.data[ptr]

(* The byte that encode_ptr points at.                                     *)
EncodeByte == IF buf = "pfi" THEN payload.pfi[ptr] ELSE payload.data[base + ptr]

(* The outer loop's condition.                                             *)
WantsMore == ptr < nbytes /\ ~eof

(* Mutant of NumToRead: a sample per bit, as decode_bits reads; a round    *)
(* may then carry more bits than the call has left.                        *)
NumToReadBits == 8 * (nbytes - ptr)

(* A round reads one sample per byte that is left to encode, so that it    *)
(* cannot meet more carriers than the call has bits.                       *)
NumToRead == nbytes - ptr

(* fread(pcm_buf, 2, num_to_read, pipein): a pipe read blocks until it has *)
(* all it was asked for or the decoder has closed its end, which sets the  *)
(* end-of-file flag. No samples at all is the `break`.                     *)
FRead ==
  /\ pc = "loop" /\ WantsMore
  /\ LET left     == Len(audio) - pos
         num_read == IF NumToRead <= left THEN NumToRead ELSE left
     IN  /\ pcm' = SubSeq(audio, pos + 1, pos + num_read)
         /\ pos' = pos + num_read
         /\ eof' = (num_read < NumToRead)
         /\ pc'  = IF num_read = 0 THEN "loop" ELSE "for"
  /\ i' = 1
  /\ UNCHANGED <<input, location, out, call, cursor, num_encoded>>

(* One turn of the inner loop: a loud sample takes the next bit while      *)
(* still_encoding, any other sample is passed as it is.                    *)
PutSample ==
  /\ pc = "for" /\ i <= Len(pcm)
  /\ LET used == still /\ Encodable(pcm[i])
         next == IF used THEN bit_index + 1 ELSE bit_index
     IN  /\ pcm' = IF used
                   THEN [pcm EXCEPT ![i] = SetLowBit(@, EncodeByte[bit_index])]
                   ELSE pcm
         /\ bit_index' = IF next >= 8 THEN 0 ELSE next
         /\ ptr' = IF next >= 8 THEN ptr + 1 ELSE ptr
  /\ i' = i + 1
  /\ UNCHANGED <<input, location, pos, eof, out, pc, call, num_encoded>>

(* Mutant of FWrite: the encoder writes to location, not to a file beside  *)
(* it.                                                                     *)
FWriteInPlace ==
  /\ pc = "for" /\ i > Len(pcm)
  /\ out' = out \o pcm
  /\ location' = out \o pcm
  /\ pcm' = <<>>
  /\ pc'  = "loop"
  /\ UNCHANGED <<input, pos, eof, call, cursor, i, num_encoded>>

(* fwrite(pcm_buf, 2, num_read, pipeout) *)
FWrite ==
  /\ pc = "for" /\ i > Len(pcm)
  /\ out' = out \o pcm
  /\ pcm' = <<>>
  /\ pc'  = "loop"
  /\ UNCHANGED <<input, location, pos, eof, call, cursor, i, num_encoded>>

(* Mutants of Returned: the count in bits; no -1 at the end of the audio.  *)
ReturnedBits == IF eof THEN -1 ELSE 8 * ptr
ReturnedNoEof == ptr

(* if (feof(pipein)) return -1; else the bytes encoded.                    *)
Returned == IF eof THEN -1 ELSE ptr

EncodeReturn ==
  /\ pc = "loop" /\ ~WantsMore
  /\ num_encoded' = Returned
  /\ pc' = "returned"
  /\ UNCHANGED <<input, location, pos, eof, out, call, cursor, pcm, i>>

-----------------------------------------------------------------------------
(* fsync *)

(* The two pipes are open and encode_bits has been called on the header.   *)
Init ==
  /\ audio \in Audios
  /\ payload \in Payloads
  /\ location = audio
  /\ pos = 0 /\ eof = FALSE /\ out = <<>>
  /\ pc = "loop"
  /\ buf = "pfi" /\ base = 0 /\ nbytes = HeaderLen /\ still = TRUE
  /\ ptr = 0 /\ bit_index = 0
  /\ pcm = <<>> /\ i = 1
  /\ num_encoded = 0

(* if (num_encoded == 0) throw "Couldn't encode header"; the data follows. *)
HeaderDone ==
  /\ pc = "returned" /\ buf = "pfi"
  /\ IF num_encoded = 0
     THEN pc' = "thrown" /\ UNCHANGED <<buf, base>>
     ELSE pc' = "test" /\ buf' = "data" /\ base' = 0
  /\ UNCHANGED <<input, location, pos, eof, out, nbytes, still, cursor, pcm,
                 i, num_encoded>>

(* encode_ptr += num_encoded. After the end of the audio that adds -1 on   *)
(* every turn; nothing reads through the pointer any more, so its descent  *)
(* is left out and base stays where it was.                                *)
ChunkDone ==
  /\ pc = "returned" /\ buf = "data"
  /\ base' = IF num_encoded >= 0 THEN base + num_encoded ELSE base
  /\ pc' = "test"
  /\ UNCHANGED <<input, location, pos, eof, out, buf, nbytes, still, cursor,
                 pcm, i, num_encoded>>

(* Mutant of LoopGoesOn: the loop ends with the data and not with the      *)
(* audio, and what is published is cut off there.                          *)
LoopGoesOnWhileData == base < payload.size

(* while (num_encoded >= 0) *)
LoopGoesOn == SignedCounter => num_encoded >= 0

(* Mutant of StillEncoding: the buffer's capacity in place of pst_size.    *)
StillEncodingAll == base < DataLen

(* (size_t)(encode_ptr - data) < pfi.pst_size                              *)
StillEncoding == base < payload.size

(* encode_bits on the next chunk.                                          *)
CallChunk ==
  /\ pc = "test" /\ LoopGoesOn
  /\ nbytes' = Chunk
  /\ still' = StillEncoding
  /\ ptr' = 0 /\ bit_index' = 0
  /\ pc' = "loop"
  /\ UNCHANGED <<input, location, pos, eof, out, buf, base, pcm, i,
                 num_encoded>>

(* Both pipes are closed and rename(tmpname, location) publishes the       *)
(* encoder's output, which is lossless.                                    *)
Publish ==
  /\ pc = "test" /\ ~LoopGoesOn
  /\ location' = out
  /\ pc' = "done"
  /\ UNCHANGED <<input, pos, eof, out, call, cursor, pcm, i, num_encoded>>

Next == \/ FRead
        \/ PutSample
        \/ FWrite
        \/ EncodeReturn
        \/ HeaderDone
        \/ ChunkDone
        \/ CallChunk
        \/ Publish

Spec == Init /\ [][Next]_vars

(* The handler's thread runs and ffmpeg keeps the pipes moving: nothing in *)
(* the loop waits for anybody else.                                        *)
FairSpec == Spec /\ WF_vars(Next)

-----------------------------------------------------------------------------
(* What fsync promises.                                                    *)

PCs == {"loop", "for", "returned", "test", "thrown", "done"}

TypeOK ==
  /\ audio \in Audios /\ payload \in Payloads
  /\ location \in Seq(Sample) /\ out \in Seq(Sample) /\ pcm \in Seq(Sample)
  /\ pos \in 0 .. Len(audio) /\ eof \in BOOLEAN
  /\ pc \in PCs
  /\ buf \in {"pfi", "data"} /\ base \in 0 .. DataLen
  /\ nbytes \in {HeaderLen, Chunk} /\ still \in BOOLEAN
  /\ ptr \in 0 .. nbytes /\ bit_index \in 0 .. 7
  /\ i \in Nat \ {0}
  /\ num_encoded \in -1 .. Chunk

(* The image is a cover for the original audio: sample by sample, nothing  *)
(* but the low bit of a loud sample differs. A handler that shifted,       *)
(* dropped or repeated samples between two rounds would break it, and so   *)
(* would a bit put into silence, where decode_bits does not look for it.   *)
(* (encode_bits; the comment "altered samples", sfsfssfsf_file.cc:163)     *)
UpperBitsKept ==
  \A j \in 1 .. Len(out) :
    /\ UpperBits(out[j]) = UpperBits(audio[j])
    /\ ~Encodable(audio[j]) => out[j] = audio[j]

(* The c-th loud sample of the image carries bit c of header and data,     *)
(* whatever rounds, calls and buffers that bit went through: the order in  *)
(* which the constructor reads them back.                                  *)
PayloadPlaced ==
  \A j \in 1 .. Len(out) :
    LET c == Carriers(audio, j - 1)
    IN  Encodable(audio[j]) /\ c < StreamBits(payload)
          => LowBit(out[j]) = StreamBit(payload, c)

(* Once the data is out, "the data is passed unaltered"                    *)
(* (sfsfssfsf_file.cc:166): less than a chunk of padding, and then the     *)
(* recording's own low bits.                                               *)
TailUntouched ==
  \A j \in 1 .. Len(out) :
    Carriers(audio, j - 1) >= StreamBits(payload) + 8 * Chunk
      => out[j] = audio[j]

(* The assertions of encode_bits, lines 182 and 211: a call never asks for *)
(* more than a chunk, never runs past its buffer, and only the end of the  *)
(* audio leaves a byte half encoded.                                       *)
EncodeAsserts ==
  /\ pc = "loop" => nbytes - ptr <= Chunk
  /\ pc = "returned" => (eof \/ (bit_index = 0 /\ ptr = nbytes))
  /\ pc = "for" /\ i <= Len(pcm) => ptr < nbytes

(* "we'll write to a separate file to avoid screwing things up"            *)
(* (sfsfssfsf_file.cc:237): at every moment, and so after a crash at any   *)
(* moment, location holds the old recording or a whole new image of it,    *)
(* never a shortened one.                                                  *)
LocationWhole ==
  location # audio => location = out /\ Len(location) = Len(audio)

(* What fsync publishes carries the file, and has room for it if the       *)
(* recording had. Carriers are counted here in the image, as the reader    *)
(* counts them, and not in the recording, which is gone: a loud sample     *)
(* that its new low bit made a silent one, or the reverse, would shift     *)
(* every bit behind it. ("MUST guarantee that SFSFSSFSF_ENCODABLE(byte) is *)
(* invariant on flipping last bit of byte", sfsfssfsf.h:33)                *)
PublishedCarries ==
  pc = "done" => /\ Carries(location, payload)
                 /\ Room(audio, payload) => Room(location, payload)

(* "_fsync()_ write dirty cache" (doc/notes.md:204): a call to fsync ends, *)
(* with the image published.                                               *)
FsyncWrites == <>(pc = "done" /\ location = out)

=============================================================================
