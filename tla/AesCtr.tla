------------------------------- MODULE AesCtr -------------------------------
(***************************************************************************)
(* AES in counter mode as a stream (src/src/crypto_aesctr.c): how a stream *)
(* keeps its place in a block between calls. AES itself is ideal: a block  *)
(* of cipherstream is the nonce and the number that were encrypted. A byte *)
(* is a set of atoms, as in XorBytes.                                      *)
(***************************************************************************)
EXTENDS XorBytes, Integers, Sequences

CONSTANT
  AesBlock       (* bytes in a block: 16                                   *)

ASSUME AesAssumption == AesBlock \in Nat \ {0}

Cipherstream(nonce, block, bytemod) == {<<"aes", nonce, block, bytemod>>}

(* crypto_aesctr_init: buf is not set, and no block.                       *)
crypto_aesctr_init(nonce) == [nonce |-> nonce, bytectr |-> 0, buf |-> -1]

(* Mutant of BlockAt: a block that begins with the call is not generated.  *)
BlockMissed(stream, ctr) ==
  LET start == ctr - (ctr % AesBlock)
  IN  IF start > stream.bytectr THEN ctr \div AesBlock ELSE stream.buf

(* The block that buf holds when byte ctr is encrypted, in a call that     *)
(* starts with the stream at stream.bytectr: a block is generated where    *)
(* one begins, and kept otherwise.                                         *)
BlockAt(stream, ctr) ==
  LET start == ctr - (ctr % AesBlock)
  IN  IF start >= stream.bytectr THEN ctr \div AesBlock ELSE stream.buf

(* crypto_aesctr_stream: outbuf, and the stream afterwards.                *)
StreamBytes(stream, inbuf) ==
  [pos \in 1 .. Len(inbuf) |->
     LET ctr == stream.bytectr + pos - 1
     IN  Xor(inbuf[pos], Cipherstream(stream.nonce, BlockAt(stream, ctr),
                                      ctr % AesBlock))]

Advanced(stream, n) ==
  [nonce |-> stream.nonce, bytectr |-> stream.bytectr + n,
   buf |-> IF n = 0 THEN stream.buf
                    ELSE BlockAt(stream, stream.bytectr + n - 1)]
=============================================================================
