----------------------------- MODULE FlipLowbits -----------------------------
(***************************************************************************)
(* The stand-alone codec (src/src/flip_lowbits.c): `-e` hides a file in an *)
(* audio file, `-d` gets it out again. A run of the one, and then a run of *)
(* the other on what the first has left. As in Fsync and Load, ffmpeg      *)
(* supplies the samples through pipein, and a rename publishes the result. *)
(*                                                                         *)
(* The pairs of functions differ from those of the file system: encode     *)
(* walks all of the audio in one loop and reads the file as it goes;       *)
(* decode_bits reads maxbits samples, not bits, and keeps its place in a   *)
(* byte from call to call.                                                 *)
(***************************************************************************)
EXTENDS LowBits

CONSTANTS
  HeaderLen,     (* sizeof(struct pstat)                                   *)
  Chunk,         (* SFSFSSFSF_CHUNK                                        *)
  Audios,        (* what the audio file may hold                           *)
  Files,         (* the files to hide, sequences of bytes                  *)
  HeaderFor(_),  (* the bytes of a file's header: pstat_write              *)
  IsMagic(_),    (* pfi->magic == SFSFSSFSF_MAGIC                          *)
  SizeOf(_),     (* pfi->pst_size                                          *)
  Garbage        (* the byte that uninitialised memory is full of          *)

(* "this MUST be larger than sizeof(pstat)" (flip_lowbits.c:19). A header  *)
(* has the magic and the file's size, which is where they are looked for.  *)
ASSUME FlipAssumption ==
  /\ HeaderLen \in Nat \ {0} /\ Chunk \in Nat /\ HeaderLen < Chunk
  /\ Audios \subseteq Seq(Sample) /\ Files \subseteq Seq(Byte)
  /\ Garbage \in Byte
  /\ \A f \in Files :
       /\ HeaderFor(f) \in Seq(Byte) /\ Len(HeaderFor(f)) = HeaderLen
       /\ LET header == [h \in 0 .. HeaderLen - 1 |-> HeaderFor(f)[h + 1]]
          IN  IsMagic(header) /\ SizeOf(header) = Len(f)

VARIABLES
  audio,         (* what the audio file holds at the start                 *)
  file,          (* the file to hide                                       *)
  location,      (* what the audio file holds now                          *)
  pc,            (* "start", the steps of a run, or how it ended: "done",  *)
                 (* "failed" (err), "smashed" (decode_buf was overrun)     *)
  mode,          (* "encode" or "decode"                                   *)
  pos, eof,      (* pipein                                                 *)
  pcm, i,        (* what the last fread gave, and the loop's place in it   *)
  bit_index,
  ptr,           (* encode_ptr, or decode_ptr of decode_bits               *)
  out,           (* encode: samples written to pipeout                     *)
  encode_buf,    (* its first num_encode bytes                             *)
  fpos,          (* bytes of the file that encode has read                 *)
  still_encoding,
  decode_buf,
  bits_read, total_bits_read, total_bits_written,
  header_done,   (* decode is behind the header                            *)
  written,       (* decode: bytes written to the destination               *)
  slipped        (* history: a call of decode_bits found a full byte       *)

pipe == <<pos, eof, pcm, i>>
encoder == <<out, encode_buf, fpos, still_encoding>>
counts == <<bits_read, total_bits_read, total_bits_written>>
decoder == <<decode_buf, counts, header_done, written, slipped>>
vars == <<audio, file, location, pc, mode, pipe, bit_index, ptr, encoder,
          decoder>>

ZeroByte == [b \in 0 .. 7 |-> 0]

pstat_bits == 8 * HeaderLen

LesserOf(a, b) == IF a < b THEN a ELSE b

-----------------------------------------------------------------------------
Init ==
  /\ audio \in Audios /\ file \in Files
  /\ location = audio
  /\ pc = "start" /\ mode = "encode"
  /\ pos = 0 /\ eof = FALSE /\ pcm = <<>> /\ i = 1 /\ bit_index = 0 /\ ptr = 0
  /\ out = <<>> /\ encode_buf = HeaderFor(file) /\ fpos = 0
  /\ still_encoding = TRUE
  /\ decode_buf = [d \in 0 .. HeaderLen + Chunk - 1 |-> Garbage]
  /\ bits_read = 0 /\ total_bits_read = 0 /\ total_bits_written = 0
  /\ header_done = FALSE /\ written = <<>> /\ slipped = FALSE

(* main, -e: the pipes are open, the header is in encode_buf.              *)
StartEncode ==
  /\ pc = "start" /\ mode = "encode"
  /\ pc' = "encode"
  /\ UNCHANGED <<audio, file, location, mode, pipe, bit_index, ptr, encoder,
                 decoder>>

(* main, -d, on what there is once the first run is over.                  *)
StartDecode ==
  /\ pc \in {"done", "failed"} /\ mode = "encode"
  /\ pc' = "header" /\ mode' = "decode"
  /\ pos' = 0 /\ eof' = FALSE /\ pcm' = <<>> /\ i' = 1
  /\ bit_index' = 0 /\ ptr' = 0
  /\ decode_buf' = [decode_buf EXCEPT ![0] = ZeroByte]
  /\ UNCHANGED <<audio, file, location, encoder, counts, header_done, written,
                 slipped>>

(* fread(pcm_buf, 2, n, pipein) of samples: nothing at all is an error.    *)
FRead(samples, n) ==
  LET num_read == LesserOf(n, Len(samples) - pos)
  IN  /\ pcm' = SubSeq(samples, pos + 1, pos + num_read)
      /\ pos' = pos + num_read
      /\ eof' = (num_read < n)
      /\ i' = 1

(* Mutant of AfterRead: decode_bits goes on with what it has.              *)
AfterReadNoError(next) == IF mode = "encode" /\ pcm' = <<>> THEN "failed"
                                                            ELSE next

(* if (num_read == 0) err(...)                                             *)
AfterRead(next) == IF pcm' = <<>> THEN "failed" ELSE next

-----------------------------------------------------------------------------
(* encode *)

(* A round of the outer loop.                                              *)
EncodeRead ==
  /\ pc = "encode" /\ ~eof
  /\ FRead(audio, Chunk)
  /\ pc' = AfterRead("put")
  /\ UNCHANGED <<audio, file, location, mode, bit_index, ptr, encoder, decoder>>

(* Mutant of FileRead: every fread starts at the beginning of the file.    *)
FileReadAgain == SubSeq(file, 1, LesserOf(Chunk, Len(file)))

(* fread(encode_buf, 1, SFSFSSFSF_CHUNK, f)                                *)
FileRead == SubSeq(file, fpos + 1, LesserOf(fpos + Chunk, Len(file)))

(* One turn of the inner loop: leave a full byte; refill an empty buffer,  *)
(* header or chunk, from the file; put a bit into a loud sample.           *)
PutSample ==
  /\ pc = "put" /\ i <= Len(pcm)
  /\ LET full  == bit_index >= 8
         at    == IF full THEN ptr + 1 ELSE ptr
         b     == IF full THEN 0 ELSE bit_index
         empty == at >= Len(encode_buf)
         bytes == IF empty THEN FileRead ELSE encode_buf
         byte  == IF empty THEN 0 ELSE at
         still == still_encoding /\ bytes # <<>>
         puts  == still /\ Encodable(pcm[i])
     IN  /\ encode_buf' = bytes
         /\ fpos' = IF empty THEN fpos + Len(bytes) ELSE fpos
         /\ ptr' = byte
         /\ still_encoding' = still
         /\ bit_index' = IF puts THEN b + 1 ELSE b
         /\ pcm' = IF puts THEN [pcm EXCEPT ![i] = SetLowBit(@, bytes[byte + 1][b])]
                           ELSE pcm
  /\ i' = i + 1
  /\ UNCHANGED <<audio, file, location, pc, mode, pos, eof, out, decoder>>

(* fwrite of the round to pipeout                                          *)
EncodeWrite ==
  /\ pc = "put" /\ i > Len(pcm)
  /\ out' = out \o pcm
  /\ pc' = "encode"
  /\ UNCHANGED <<audio, file, location, mode, pipe, bit_index, ptr, encode_buf,
                 fpos, still_encoding, decoder>>

(* The end of the audio: pclose and rename.                                *)
Publish ==
  /\ pc = "encode" /\ eof
  /\ location' = out
  /\ pc' = "done"
  /\ UNCHANGED <<audio, file, mode, pipe, bit_index, ptr, encoder, decoder>>

-----------------------------------------------------------------------------
(* decode and decode_bits *)

(* Mutant of DecodeAt: a call of the header begins a byte further on when  *)
(* a byte is begun.                                                        *)
DecodeAtNext == IF header_done THEN HeaderLen
                               ELSE (total_bits_read + 7) \div 8

(* Where a call of decode_bits is told to put its bits.                    *)
DecodeAt == IF header_done THEN HeaderLen ELSE total_bits_read \div 8

(* decode_bits: fread of as many samples as bits are wanted.               *)
DecodeRead ==
  /\ pc = "header" \/ pc = "data"
  /\ FRead(location, IF header_done THEN 8 * Chunk ELSE pstat_bits)
  /\ pc' = AfterRead("take")
  /\ ptr' = DecodeAt
  /\ bits_read' = 0
  /\ slipped' = (slipped \/ bit_index >= 8)
  /\ UNCHANGED <<audio, file, location, mode, bit_index, encoder, decode_buf,
                 total_bits_read, total_bits_written, header_done, written>>

(* One turn of decode_bits' loop: a full byte is left, and the next one    *)
(* zeroed, before the sample is looked at.                                 *)
TakeSample ==
  /\ pc = "take" /\ i <= Len(pcm)
  /\ LET full == bit_index >= 8
         at   == IF full THEN ptr + 1 ELSE ptr
         b    == IF full THEN 0 ELSE bit_index
         step == IF Encodable(pcm[i]) THEN 1 ELSE 0
         old  == IF full THEN ZeroByte ELSE decode_buf[at]
     IN  /\ ptr' = at
         /\ bit_index' = b + step
         /\ bits_read' = bits_read + step
         /\ IF at \in DOMAIN decode_buf
            THEN /\ decode_buf' =
                      [decode_buf EXCEPT ![at] =
                         IF step = 1 /\ LowBit(pcm[i]) = 1
                         THEN [old EXCEPT ![b] = 1] ELSE old]
                 /\ pc' = pc
            ELSE /\ decode_buf' = decode_buf
                 /\ pc' = "smashed"
  /\ i' = i + 1
  /\ UNCHANGED <<audio, file, location, mode, pos, eof, pcm, encoder,
                 total_bits_read, total_bits_written, header_done, written,
                 slipped>>

(* pfi, which points to decode_buf: the header in it.                      *)
pfi == [h \in 0 .. HeaderLen - 1 |-> decode_buf[h]]

(* Back in the header's loop: once there are enough bits the header is     *)
(* looked at, and the bits behind it are the first of the data.            *)
HeaderDone ==
  /\ pc = "take" /\ i > Len(pcm) /\ ~header_done
  /\ LET total == total_bits_read + bits_read
     IN  IF total < pstat_bits
         THEN /\ pc' = "header"
              /\ total_bits_read' = total
              /\ UNCHANGED <<header_done, bits_read>>
         ELSE /\ pc' = IF IsMagic(pfi) THEN "write" ELSE "failed"
              /\ total_bits_read' = 0
              /\ bits_read' = total - pstat_bits
              /\ header_done' = TRUE
  /\ UNCHANGED <<audio, file, location, mode, pipe, bit_index, ptr, encoder,
                 decode_buf, total_bits_written, written, slipped>>

(* Back in the data's loop.                                                *)
DataRead ==
  /\ pc = "take" /\ i > Len(pcm) /\ header_done
  /\ pc' = "write"
  /\ UNCHANGED <<audio, file, location, mode, pipe, bit_index, ptr, encoder,
                 decoder>>

file_bits == 8 * SizeOf(pfi)

(* Mutant of Moved: the byte that is begun stays where it is.              *)
MovedNot(n) == decode_buf

(* decode_ptr[0] = decode_ptr[bytes_written]. When all of the buffer was   *)
(* written, that is whatever lies behind it.                               *)
Moved(n) ==
  [decode_buf EXCEPT ![HeaderLen] =
     IF HeaderLen + n \in DOMAIN decode_buf THEN decode_buf[HeaderLen + n]
                                            ELSE Garbage]

(* The data's loop up to its decode_bits: whole bytes are written, none is *)
(* an error.                                                               *)
WriteBytes ==
  /\ pc = "write" /\ ~eof /\ total_bits_read < file_bits
  /\ LET total == total_bits_read + bits_read
         n     == LesserOf(total - total_bits_written,
                           file_bits - total_bits_written) \div 8
     IN  /\ total_bits_read' = total
         /\ total_bits_written' = total_bits_written + 8 * n
         /\ written' = written \o
                         [j \in 1 .. n |-> decode_buf[HeaderLen + j - 1]]
         /\ IF n = 0 THEN pc' = "failed" /\ decode_buf' = decode_buf
                     ELSE pc' = "data" /\ decode_buf' = Moved(n)
  /\ UNCHANGED <<audio, file, location, mode, pipe, bit_index, ptr, encoder,
                 bits_read, header_done, slipped>>

DecodeEnds ==
  /\ pc = "write" /\ (eof \/ total_bits_read >= file_bits)
  /\ pc' = "done"
  /\ UNCHANGED <<audio, file, location, mode, pipe, bit_index, ptr, encoder,
                 decoder>>

Next ==
  \/ StartEncode \/ EncodeRead \/ PutSample \/ EncodeWrite \/ Publish
  \/ StartDecode \/ DecodeRead \/ TakeSample \/ HeaderDone \/ DataRead
  \/ WriteBytes \/ DecodeEnds

Spec == Init /\ [][Next]_vars /\ WF_vars(Next)

-----------------------------------------------------------------------------
(* What the two programs promise.                                          *)

Stream == HeaderFor(file) \o file

(* The recording with the stream in its loud samples, as far as they or    *)
(* it go.                                                                  *)
Covered ==
  [j \in 1 .. Len(audio) |->
     LET c == Carriers(audio, j - 1)
     IN  IF Encodable(audio[j]) /\ c < 8 * Len(Stream)
         THEN SetLowBit(audio[j], Stream[(c \div 8) + 1][c % 8])
         ELSE audio[j]]

(* At every moment, error exits included, the audio file is the recording  *)
(* as it was or the recording with the whole stream in it, bit for bit,    *)
(* however header, chunks of the file and rounds of samples overlap.       *)
(* (encode, flip_lowbits.c:147)                                            *)
LocationWhole == location = audio \/ location = Covered

(* As long as no call of decode_bits began on a full byte, what decode     *)
(* writes is the beginning of the file that was hidden, and all of it if   *)
(* it ends before the audio does, however silence shifts the calls against *)
(* the bytes. (decode, flip_lowbits.c:90)                                  *)
DecodesPrefix ==
  mode = "decode" /\ location # audio /\ ~slipped =>
    /\ Len(written) <= Len(file)
    /\ written = SubSeq(file, 1, Len(written))
    /\ pc = "done" /\ ~eof => written = file

(* Both programs end, on any recording: at the end of the audio, with an   *)
(* error or with the file. (flip_lowbits.c:64, 113 and 185)                *)
BothEnd == <>(mode = "decode" /\ pc \in {"done", "failed", "smashed"})
=============================================================================
