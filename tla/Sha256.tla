------------------------------- MODULE Sha256 -------------------------------
(***************************************************************************)
(* SHA-256 and HMAC over it (src/src/sha256.c), as operators on the        *)
(* contexts that the code keeps between calls: what matters here is how a  *)
(* message is gathered into blocks, counted and padded, however it is cut  *)
(* into calls.                                                             *)
(*                                                                         *)
(* A byte is a set of atoms, as in XorBytes. The compression function is   *)
(* ideal: a state is the sequence of blocks that went into it. Each of the *)
(* two words of the bit count, four bytes in the code, is one byte here.   *)
(***************************************************************************)
EXTENDS XorBytes, Integers, Sequences

CONSTANTS
  Block,         (* bytes in a block: 64                                   *)
  DigestLen,     (* bytes in a digest: 32                                  *)
  Word           (* what a word of the bit count wraps at: 2^32            *)

ASSUME Sha256Assumption ==
  /\ Block \in Nat /\ Block > 2
  /\ DigestLen \in 1 .. Block
  /\ Word \in Nat \ {0} /\ Word % (8 * Block) = 0

(* be32enc_vect of ctx->count                                              *)
Encoded(count) ==
  [w \in 1 .. 2 |-> IF count[w] = 0 THEN {} ELSE {<<"word", count[w]>>}]

(* The whole blocks that bytes begin with.                                 *)
BlocksOf(bytes) ==
  [k \in 1 .. Len(bytes) \div Block |->
     SubSeq(bytes, Block * (k - 1) + 1, Block * k)]

-----------------------------------------------------------------------------
(* SHA256_Init: the buffer is whatever the memory held.                    *)
SHA256_Init ==
  [count |-> <<0, 0>>, state |-> <<>>,
   buf |-> [b \in 1 .. Block |-> {<<"stale">>}]]

(* SHA256_Transform, once for each of the blocks.                          *)
SHA256_Transform(state, blocks) == state \o blocks

(* Bytes left in the buffer from previous updates.                         *)
Left(count) == (count[2] \div 8) % Block

(* Mutant of Counted: no carry into the upper word.                        *)
CountedNoCarry(count, len) ==
  <<(count[1] + (len \div (Word \div 8))) % Word, (count[2] + 8 * len) % Word>>

(* The number of bits, in two words.                                       *)
Counted(count, len) ==
  LET bitlen == (8 * len) % Word
      low    == (count[2] + bitlen) % Word
      carry  == IF low < bitlen THEN 1 ELSE 0
  IN  <<(count[1] + carry + (len \div (Word \div 8))) % Word, low>>

(* memcpy(&buf[r], src, Len(src))                                          *)
Copied(buf, r, src) ==
  [b \in 1 .. Block |-> IF r < b /\ b <= r + Len(src) THEN src[b - r]
                                                      ELSE buf[b]]

(* Mutant of SHA256_Update: the test for a full block is one off.          *)
SHA256_UpdateLate(ctx, src) ==
  LET r   == Left(ctx.count)
      len == Len(src)
  IN  IF len <= Block - r
      THEN [count |-> Counted(ctx.count, len), state |-> ctx.state,
            buf |-> Copied(ctx.buf, r, src)]
      ELSE [count |-> Counted(ctx.count, len),
            state |-> SHA256_Transform(ctx.state,
                        << Copied(ctx.buf, r, SubSeq(src, 1, Block - r)) >>),
            buf |-> Copied(ctx.buf, 0, SubSeq(src, Block - r + 1, len))]

(* SHA256_Update: the bytes fill the buffer up; full blocks are            *)
(* transformed, the first from the buffer, the others from src; what       *)
(* remains goes to the buffer.                                             *)
SHA256_Update(ctx, src) ==
  LET r     == Left(ctx.count)
      len   == Len(src)
      first == Copied(ctx.buf, r, SubSeq(src, 1, Block - r))
      rest  == SubSeq(src, Block - r + 1, len)
      whole == BlocksOf(rest)
  IN  IF len < Block - r
      THEN [count |-> Counted(ctx.count, len), state |-> ctx.state,
            buf |-> Copied(ctx.buf, r, src)]
      ELSE [count |-> Counted(ctx.count, len),
            state |-> SHA256_Transform(ctx.state, <<first>> \o whole),
            buf |-> Copied(first, 0,
                      SubSeq(rest, Block * Len(whole) + 1, Len(rest)))]

(* SHA256_Pad: up to where the count fits, and the count.                  *)
SHA256_Pad(ctx) ==
  LET r    == Left(ctx.count)
      plen == IF r < Block - 2 THEN Block - 2 - r ELSE 2 * Block - 2 - r
      PAD  == [b \in 1 .. plen |-> IF b = 1 THEN {<<"0x80">>} ELSE {}]
  IN  SHA256_Update(SHA256_Update(ctx, PAD), Encoded(ctx.count))

DigestOf(state) == [d \in 1 .. DigestLen |-> {<<"digest", d, state>>}]

SHA256_Final(ctx) == DigestOf(SHA256_Pad(ctx).state)

-----------------------------------------------------------------------------
(* The key, filled up with the constant of the inner or the outer hash.    *)
KeyPad(fill, K) ==
  [b \in 1 .. Block |-> IF b <= Len(K) THEN Xor({<<fill>>}, K[b])
                                       ELSE {<<fill>>}]

(* A key that is longer than a block is hashed.                            *)
ShortKey(K) ==
  IF Len(K) > Block THEN SHA256_Final(SHA256_Update(SHA256_Init, K)) ELSE K

HMAC_SHA256_Init(K) ==
  [ictx |-> SHA256_Update(SHA256_Init, KeyPad("0x36", ShortKey(K))),
   octx |-> SHA256_Update(SHA256_Init, KeyPad("0x5c", ShortKey(K)))]

HMAC_SHA256_Update(hctx, src) == [hctx EXCEPT !.ictx = SHA256_Update(@, src)]

HMAC_SHA256_Final(hctx) ==
  SHA256_Final(SHA256_Update(hctx.octx, SHA256_Final(hctx.ictx)))

-----------------------------------------------------------------------------
(* The same without contexts: what a whole message hashes to.              *)

(* The message, a one, zeros up to where the count ends a block, and the   *)
(* count of its bits.                                                      *)
Padded(message) ==
  LET bits  == 8 * Len(message)
      zeros == (Block - 3 - (Len(message) % Block)) % Block
  IN  message \o << {<<"0x80">>} >> \o [z \in 1 .. zeros |-> {}]
              \o Encoded(<<(bits \div Word) % Word, bits % Word>>)

Sha(message) == DigestOf(BlocksOf(Padded(message)))

Hmac(K, message) ==
  LET key == IF Len(K) > Block THEN Sha(K) ELSE K
  IN  Sha(KeyPad("0x5c", key) \o Sha(KeyPad("0x36", key) \o message))
=============================================================================
