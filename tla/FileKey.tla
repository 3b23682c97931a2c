------------------------------ MODULE FileKey ------------------------------
(***************************************************************************)
(* The key of an audio file: sha256sum (src/src/fuse_service.cc) hashes    *)
(* the upper twelve bits of the samples behind the header. A start of the  *)
(* file system computes the keys anew, and finds a hidden file by the key  *)
(* that was written down before its audio file was written, so no fsync    *)
(* may change a key. SHA-256 itself is ideal.                              *)
(***************************************************************************)
EXTENDS Fsync

CONSTANTS
  KeyLen,        (* samples that are hashed: SFSFSSFSF_CHUNK               *)
  Stale          (* what the static pcm_buf may hold from the file before  *)

ASSUME FileKeyAssumption == KeyLen \in Nat \ {0}

(* Where decode_bits leaves the pipe: behind the carrier that completes    *)
(* the header, or at the end. So many samples are read for the header as   *)
(* have less than a header of carriers before them.                        *)
HeaderEnd(samples) ==
  Cardinality({n \in 1 .. Len(samples) :
                 Carriers(samples, n - 1) < 8 * HeaderLen})

(* Mutant of Shifted: all sixteen bits are hashed.                         *)
ShiftedNot(sample) == sample

(* pcm_buf[i] >> 4                                                         *)
Shifted(sample) == sample \div 16

(* pcm_buf, once it has been read into and shifted: what an earlier file   *)
(* has left in it is shifted once more.                                    *)
KeyWords(samples, stale) ==
  LET end == HeaderEnd(samples)
  IN  [k \in 1 .. KeyLen |->
         Shifted(IF end + k <= Len(samples) THEN samples[end + k]
                                            ELSE stale[k])]

(* string(char pointer to pcm_buf): its bytes, the lower of a word first,  *)
(* up to a zero.                                                           *)
CString(words) ==
  LET bytes == [b \in 1 .. 2 * Len(words) |->
                  IF b % 2 = 1 THEN words[(b + 1) \div 2] % 256
                               ELSE words[b \div 2] \div 256]
      end   == CHOOSE n \in 0 .. Len(bytes) :
                 /\ n = Len(bytes) \/ bytes[n + 1] = 0
                 /\ \A m \in 1 .. n : bytes[m] # 0
  IN  SubSeq(bytes, 1, end)

(* sha256sum: decode_bits may throw, and there may be no sample behind the *)
(* header.                                                                 *)
Sha256sum(samples, stale) ==
  LET carriers == Carriers(samples, HeaderEnd(samples))
  IN  IF carriers % 8 # 0 THEN [kind |-> "thrown", of |-> <<>>]
      ELSE IF HeaderEnd(samples) = Len(samples)
      THEN [kind |-> "empty", of |-> <<>>]
      ELSE [kind |-> "hash", of |-> CString(KeyWords(samples, stale))]

(* At every moment of a fsync, and after a crash at that moment, the audio *)
(* file has the key that it had before: the start that follows finds it    *)
(* under the key in the superblock, whatever was hidden in it, and         *)
(* wherever its loud samples put the end of the header. ("use remaining    *)
(* static hash to indentify file", fuse_service.cc:32)                     *)
KeyKept ==
  \A stale \in Stale : Sha256sum(location, stale) = Sha256sum(audio, stale)
=============================================================================
