----------------------------- MODULE HiddenFile -----------------------------
(***************************************************************************)
(* What a hidden file is: a header and a data buffer in memory             *)
(* (src/src/sfsfssfsf.h, class SFSFSSFSF_File), a stream of bits in the    *)
(* loud samples of an audio file on disk.                                  *)
(***************************************************************************)
EXTENDS LowBits

CONSTANTS
  HeaderLen,     (* sizeof(struct pstat), 48                               *)
  Chunk,         (* SFSFSSFSF_CHUNK, 16384 bytes                           *)
  BufChunks      (* the data buffer holds this many chunks, 256            *)

(* The chunk "MUST be larger than sizeof(pstat)", sfsfssfsf.h:28. *)
ASSUME SizesAssumption ==
  /\ HeaderLen \in Nat \ {0}
  /\ Chunk \in Nat \ {0}
  /\ HeaderLen < Chunk
  /\ BufChunks \in Nat \ {0}

(* new uint8_t[4194304] *)
DataLen == Chunk * BufChunks

(* struct pstat, as the bytes that the codec sees *)
Header == [0 .. HeaderLen - 1 -> Byte]

Buffer == [0 .. DataLen - 1 -> Byte]

(* What fsync writes; size is pfi.pst_size. *)
Payload == [pfi : Header, data : Buffer, size : 0 .. DataLen]

(* The bits of the hidden stream of a file p: the header's, then the       *)
(* data's, each byte's bit 0 first.                                        *)
StreamBit(p, c) ==
  LET byte == c \div 8
  IN  IF byte < HeaderLen THEN p.pfi[byte][c % 8]
                          ELSE p.data[byte - HeaderLen][c % 8]

StreamBits(p) == 8 * (HeaderLen + p.size)

(* The loud samples of an image carry the stream of p, as far as they go.  *)
Carries(image, p) ==
  \A j \in 1 .. Len(image) :
    LET c == Carriers(image, j - 1)
    IN  Encodable(image[j]) /\ c < StreamBits(p)
          => LowBit(image[j]) = StreamBit(p, c)

(* They go to the stream's end. *)
Room(image, p) == Carriers(image, Len(image)) >= StreamBits(p)
=============================================================================
