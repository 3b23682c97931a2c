---------------------------- MODULE CryptoProofs ----------------------------
(***************************************************************************)
(* The encryption streams keep their place, for every size of block, every *)
(* amount of input and every cut of it into calls with any room: nothing   *)
(* is lost, doubled or moved between the input, the cache and the output,  *)
(* and the decryptor, cutting differently, undoes what the encryptor did   *)
(* if both drew one iv, and otherwise gives nothing of the input back.     *)
(*                                                                         *)
(* The invariant adds where each stream is (Placed): bytectr counts the    *)
(* bytes that came out, and the block in buf is the one that the byte      *)
(* before the next was in, which is what lets a call begin inside a block. *)
(* Does says of a call that it has done its part of all the bytes it was   *)
(* responsible for, cached or fresh; what a call does depends on its room, *)
(* that it does its part does not.                                         *)
(*                                                                         *)
(* And both ends compute HMAC of the ciphertext that they have, for every  *)
(* hash block, digest, key and width of the bit count. A context holds the *)
(* message that it was given, however that was cut (Holds): its count, its *)
(* whole blocks and the bytes behind them; SHA256_Pad then makes of it the *)
(* blocks that the definition makes of the whole message (Padded). An HMAC *)
(* context holds a message under the key (Keyed): the encryptor's what is  *)
(* out, the decryptor's what it decrypted or, after a refusal, was fed     *)
(* (Macs). They agree if the MAC was written over no ciphertext (Sent).    *)
(***************************************************************************)
EXTENDS CryptoWrapper, SequenceTheorems, TLAPS

(* NULL is no state.                                                       *)
NoState == \A a, b, h : NULL # [aes_state |-> a, buf |-> b, hctx |-> h]

Atom ==
  {<<"plain", n>> : n \in Nat}
    \cup {<<"aes", iv, b, m>> : iv \in Nonces, b \in Int, m \in Int}
Octet == SUBSET Atom

(* Byte n of the cipherstream of an iv, from 0.                            *)
KeyByte(iv, n) == Cipherstream(iv, n \div AesBlock, n % AesBlock)

(* After n bytes the stream's buf is the block of the last of them.        *)
HasBlock(stream, n) == n > 0 => stream.buf = (n - 1) \div AesBlock

(* c was made with iv and has put out n bytes.                             *)
Placed(iv, c, n) ==
  /\ iv \in Nonces /\ n \in Nat
  /\ c = [aes_state |-> c.aes_state, buf |-> c.buf, hctx |-> c.hctx]
  /\ c.aes_state \in [nonce : {iv}, bytectr : {n}, buf : Int]
  /\ c.buf \in Seq(Octet)
  /\ HasBlock(c.aes_state, n)

(* out is what the stream makes of the first of these bytes, from n on.    *)
Gives(iv, n, bytes, out) ==
  \A pos \in 1 .. Len(out) :
    out[pos] = Xor(bytes[pos], KeyByte(iv, n + pos - 1))

(* r is what a call may give that was responsible for all and began at n.  *)
Does(iv, n, all, r) ==
  /\ r.outbuf \in Seq(Octet) /\ Len(r.outbuf) \in 0 .. Len(all)
  /\ Gives(iv, n, all, r.outbuf)
  /\ Placed(iv, r.state, n + Len(r.outbuf))
  /\ r.state.buf = SubSeq(all, Len(r.outbuf) + 1, Len(all))
  /\ r.count \in 0 .. Len(r.outbuf)

-----------------------------------------------------------------------------
(* Bytes and blocks.                                                       *)

(* What is xored into a byte twice is not in it.                           *)
LEMMA XorTwice ==
  ASSUME NEW a, NEW b
  PROVE  Xor(Xor(a, b), b) = a
  BY DEF Xor

(* A byte that is xored with a cipherstream byte is a byte.                *)
LEMMA XorType ==
  ASSUME NEW a \in Octet, NEW iv \in Nonces, NEW n \in Int
  PROVE  Xor(a, KeyByte(iv, n)) \in Octet
<1>1. n \div AesBlock \in Int /\ n % AesBlock \in Int
  BY AesAssumption
<1>2. <<"aes", iv, n \div AesBlock, n % AesBlock>> \in Atom
  BY <1>1 DEF Atom
<1>3. KeyByte(iv, n) \subseteq Atom
  BY <1>2 DEF KeyByte, Cipherstream
<1>4. QED
  BY <1>3 DEF Xor, Octet

(* More of something is no less.                                           *)
LEMMA ProductMono ==
  ASSUME NEW a \in Nat, NEW k \in Nat, NEW n \in Nat, k <= n
  PROVE  a * k <= a * n
<1>1. PICK d \in Nat : n = k + d
  BY n - k \in Nat
<1>2. a * n = a * k + a * d
  BY <1>1
<1>3. a * k \in Nat /\ a * d \in Nat /\ a * n \in Nat
  OBVIOUS
<1>4. QED
  BY <1>2, <1>3

(* Quotient and remainder.                                                 *)
LEMMA Division ==
  ASSUME NEW d \in Nat \ {0}, NEW x \in Nat
  PROVE  /\ x \div d \in Nat /\ x % d \in 0 .. d - 1
         /\ x = d * (x \div d) + (x % d)
  OBVIOUS

(* A block is where it is.                                                 *)
LEMMA BlockOf ==
  ASSUME NEW d \in Nat \ {0}, NEW q \in Nat, NEW x \in Nat,
         d * q <= x, x < d * q + d
  PROVE  x \div d = q
<1>1. PICK p \in Nat : p = x \div d
  BY Division
<1>2. PICK r \in 0 .. d - 1 : r = x % d
  BY Division
<1>3. x = d * p + r
  BY <1>1, <1>2, Division
<1>4. d * p \in Nat /\ d * q \in Nat
  OBVIOUS
<1>5. CASE p < q
  <2>1. d * (p + 1) <= d * q
    BY <1>5, ProductMono
  <2>2. d * (p + 1) = d * p + d
    OBVIOUS
  <2>3. QED
    BY <1>3, <1>4, <2>1, <2>2
<1>6. CASE p > q
  <2>1. d * (q + 1) <= d * p
    BY <1>6, ProductMono
  <2>2. d * (q + 1) = d * q + d
    OBVIOUS
  <2>3. QED
    BY <1>3, <1>4, <2>1, <2>2
<1>7. QED
  BY <1>1, <1>5, <1>6

(* A quotient and a remainder are the quotient and the remainder.          *)
LEMMA Quotient ==
  ASSUME NEW d \in Nat \ {0}, NEW q \in Nat, NEW r \in 0 .. d - 1, NEW x,
         x = d * q + r
  PROVE  x \div d = q /\ x % d = r
<1>1. d * q \in Nat /\ x \in Nat
  OBVIOUS
<1>2. x \div d = q
  BY <1>1, BlockOf
<1>3. x = d * (x \div d) + (x % d) /\ x % d \in 0 .. d - 1
  BY <1>1, Division
<1>4. x = d * q + (x % d)
  BY <1>2, <1>3
<1>5. QED
  BY <1>1, <1>2, <1>3, <1>4

(* A remainder, and one that has gone round once.                          *)
LEMMA Wrapped ==
  ASSUME NEW d \in Nat \ {0}, NEW r \in 0 .. d - 1
  PROVE  r % d = r /\ (d + r) % d = r
<1>1. ASSUME NEW e \in Nat
      PROVE  (d * e + r) % d = r
  BY <1>1, d * e \in Nat, Quotient
<1>2. (d * 0 + r) % d = r
  BY <1>1, Zenon, 0 \in Nat
<1>3. (d * 1 + r) % d = r
  BY <1>1, Zenon, 1 \in Nat
<1>4. d * 0 + r = r /\ d * 1 + r = d + r
  OBVIOUS
<1>5. QED
  BY <1>2, <1>3, <1>4

(* A sum may be reduced at every step.                                     *)
LEMMA ModuloSum ==
  ASSUME NEW d \in Nat \ {0}, NEW x \in Nat, NEW y \in Nat
  PROVE  ((x % d) + y) % d = (x + y) % d
<1>1. PICK q \in Nat, r \in 0 .. d - 1 : x = d * q + r /\ r = x % d
  BY Division
<1>2. PICK p \in Nat, s \in 0 .. d - 1 : r + y = d * p + s
  BY Division, r + y \in Nat
<1>3. (r + y) % d = s
  BY <1>2, Quotient, ZenonT(30)
<1>4. x + y = d * (q + p) + s
  <2>1. d * (q + p) = d * q + d * p
    OBVIOUS
  <2>2. d * q \in Nat /\ d * p \in Nat
    OBVIOUS
  <2>3. QED
    BY <1>1, <1>2, <2>1, <2>2
<1>5. (x + y) % d = s
  BY <1>4, q + p \in Nat, Quotient, ZenonT(30)
<1>6. QED
  BY <1>1, <1>3, <1>5

(* A byte finds its own block: generated in this call, or kept from the    *)
(* one before.                                                             *)
LEMMA OwnBlock ==
  ASSUME NEW stream \in [nonce : Nonces, bytectr : Nat, buf : Int],
         NEW ctr \in Nat, ctr >= stream.bytectr,
         HasBlock(stream, stream.bytectr)
  PROVE  BlockAt(stream, ctr) = ctr \div AesBlock
<1>1. PICK n \in Nat : n = stream.bytectr
  OBVIOUS
<1>2. PICK q \in Nat, r \in 0 .. AesBlock - 1 :
        q = ctr \div AesBlock /\ r = ctr % AesBlock
  BY Division, AesAssumption
<1>3. ctr = AesBlock * q + r /\ AesBlock * q \in Nat
  BY <1>2, Division, AesAssumption
<1>4. ctr - r = AesBlock * q
  BY <1>2, <1>3, AesAssumption
<1>5. CASE AesBlock * q >= n
  BY <1>1, <1>2, <1>4, <1>5 DEF BlockAt
<1>6. CASE AesBlock * q < n
  <2>1. n - 1 \in Nat /\ AesBlock * q <= n - 1 /\ n - 1 < AesBlock * q + AesBlock
    BY <1>1, <1>2, <1>3, <1>6, AesAssumption
  <2>2. (n - 1) \div AesBlock = q
    BY <2>1, BlockOf, AesAssumption
  <2>3. ~(ctr - (ctr % AesBlock) >= stream.bytectr)
    BY <1>1, <1>2, <1>3, <1>4, <1>6
  <2>4. stream.buf = q
    BY <1>1, <1>3, <1>6, <2>2 DEF HasBlock
  <2>5. QED
    BY <1>2, <2>3, <2>4 DEF BlockAt
<1>7. QED
  BY <1>1, <1>3, <1>5, <1>6

-----------------------------------------------------------------------------
(* Sequences: the end of a concatenation.                                  *)

(* The end of s and all of t are the end of both.                          *)
LEMMA TailOfFirst ==
  ASSUME NEW s \in Seq(Octet), NEW t \in Seq(Octet), NEW k \in 0 .. Len(s)
  PROVE  SubSeq(s, k + 1, Len(s)) \o t = SubSeq(s \o t, k + 1, Len(s \o t))
<1> DEFINE a == SubSeq(s, k + 1, Len(s)) \o t
           b == SubSeq(s \o t, k + 1, Len(s \o t))
<1>1. a \in Seq(Octet) /\ b \in Seq(Octet)
  OBVIOUS
<1>2. Len(a) = Len(s) - k + Len(t) /\ Len(b) = Len(s) - k + Len(t)
  OBVIOUS
<1>3. ASSUME NEW j \in 1 .. Len(s) - k + Len(t)
      PROVE  a[j] = b[j]
  OBVIOUS
<1>4. QED
  BY <1>1, <1>2, <1>3, SeqEqual

(* The end of t is the end of both.                                        *)
LEMMA TailOfSecond ==
  ASSUME NEW s \in Seq(Octet), NEW t \in Seq(Octet), NEW k \in 0 .. Len(t)
  PROVE  SubSeq(t, k + 1, Len(t))
           = SubSeq(s \o t, Len(s) + k + 1, Len(s \o t))
  OBVIOUS

(* A sequence is its beginning and the rest.                               *)
LEMMA HeadAndTail ==
  ASSUME NEW s \in Seq(Octet), NEW k \in 0 .. Len(s)
  PROVE  /\ SubSeq(s, k + 1, Len(s)) \in Seq(Octet)
         /\ s = SubSeq(s, 1, k) \o SubSeq(s, k + 1, Len(s))
<1>1. 1 \in 1 .. Len(s) + 1 /\ k \in 1 - 1 .. Len(s) /\ Len(s) \in k .. Len(s)
  OBVIOUS
<1>2. SubSeq(s, 1, k) \o SubSeq(s, k + 1, Len(s)) = SubSeq(s, 1, Len(s))
  BY <1>1, ConcatAdjacentSubSeq
<1>3. SubSeq(s, 1, Len(s)) = s
  BY SubSeqFull
<1>4. SubSeq(s, k + 1, Len(s)) \in Seq(Octet)
  OBVIOUS
<1>5. QED
  BY <1>2, <1>3, <1>4

-----------------------------------------------------------------------------
(* The bit count.                                                          *)

(* So many bytes are counted before the lower word wraps.                  *)
Span == Word \div 8

(* The lower word of the count holds a whole number of blocks.             *)
LEMMA Spans ==
  /\ Block \in Nat /\ Block > 2
  /\ Span \in Nat \ {0} /\ Word = 8 * Span
  /\ \E c \in Nat : Span = Block * c
<1>1. Block \in Nat /\ Block > 2 /\ Word \in Nat \ {0} /\ Word % (8 * Block) = 0
  BY Sha256Assumption
<1>2. PICK e \in Nat \ {0} : e = 8 * Block
  BY <1>1
<1>3. PICK c \in Nat : Word = e * c
  BY <1>1, <1>2, Division
<1>4. PICK s \in Nat : s = Block * c
  BY <1>1
<1>5. e * c = 8 * s
  BY <1>1, <1>2, <1>4
<1>6. Word = 8 * s + 0
  BY <1>3, <1>5
<1>7. Span = s
  BY <1>6 DEF Span
<1>8. QED
  BY <1>1, <1>4, <1>6, <1>7

(* The count of n bytes.                                                   *)
CountOf(n) == <<(n \div Span) % Word, 8 * (n % Span)>>

(* The bits of n bytes, in two words.                                      *)
LEMMA BitCount ==
  ASSUME NEW n \in Nat
  PROVE  (8 * n) \div Word = n \div Span /\ (8 * n) % Word = 8 * (n % Span)
<1>1. PICK q \in Nat, r \in 0 .. Span - 1 :
        n = Span * q + r /\ q = n \div Span /\ r = n % Span
  BY Spans, Division
<1>2. PICK p \in Nat : p = Span * q
  BY Spans
<1>3. Word * q = 8 * p
  BY <1>2, Spans
<1>4. n = p + r
  BY <1>1, <1>2
<1>5. 8 * n = Word * q + 8 * r
  BY <1>3, <1>4
<1>6. PICK w \in Nat \ {0} : w = Word
  BY Spans
<1>7. PICK s \in 0 .. w - 1 : s = 8 * r
  BY <1>6, Spans
<1>8. 8 * n = w * q + s
  BY <1>5, <1>6, <1>7
<1>9. (8 * n) \div w = q /\ (8 * n) % w = s
  <2>1. w \in Nat \ {0} /\ q \in Nat /\ s \in 0 .. w - 1
    OBVIOUS
  <2>2. (w * q + s) \div w = q /\ (w * q + s) % w = s
    BY ONLY <2>1, Quotient, ZenonT(30)
  <2>3. QED
    BY ONLY <1>8, <2>2, ZenonT(30)
<1>10. QED
  BY <1>1, <1>6, <1>7, <1>9

(* The number of bits, kept in two words, is that of all the bytes: the    *)
(* lower word carries when it wraps.                                       *)
LEMMA CountAdds ==
  ASSUME NEW n \in Nat, NEW len \in Nat
  PROVE  Counted(CountOf(n), len) = CountOf(n + len)
<1>1. PICK q \in Nat, a \in 0 .. Span - 1 :
        n = Span * q + a /\ q = n \div Span /\ a = n % Span
  BY Spans, Division
<1>2. PICK p \in Nat, b \in 0 .. Span - 1 :
        len = Span * p + b /\ p = len \div Span /\ b = len % Span
  BY Spans, Division
<1>3. (8 * len) % Word = 8 * b /\ Word \div 8 = Span
  BY <1>2, BitCount DEF Span
<1>4. PICK u \in 0 .. Word - 1 : u = q % Word
  BY Division, Spans
<1>5. CountOf(n) = <<u, 8 * a>>
  BY <1>1, <1>4 DEF CountOf
<1> DEFINE low   == (8 * a + 8 * b) % Word
           carry == IF low < 8 * b THEN 1 ELSE 0
<1>6. Counted(CountOf(n), len) = <<(u + carry + p) % Word, low>>
  BY <1>2, <1>3, <1>5 DEF Counted
<1>7. PICK e \in {0, 1}, r \in 0 .. Span - 1 :
        /\ a + b = Span * e + r /\ low = 8 * r /\ carry = e
  <2>0. Word = 8 * Span /\ Span \in Nat \ {0} /\ Word \in Nat \ {0}
    BY Spans
  <2>1. CASE a + b < Span
    <3>0. PICK w \in Nat \ {0}, s \in 0 .. Word - 1 :
            w = Word /\ s = 8 * (a + b)
      BY <2>0, <2>1
    <3>1. 8 * a + 8 * b = w * 0 + s
      BY <3>0
    <3>2. low = 8 * (a + b)
      <4>1. (8 * a + 8 * b) % w = s
        BY <3>0, <3>1, Wrapped
      <4>2. QED
        BY <3>0, <4>1
    <3>3. carry = 0
      BY <3>2
    <3>4. a + b = Span * 0 + (a + b) /\ a + b \in 0 .. Span - 1
      BY <2>0, <2>1
    <3>5. QED
      BY <3>2, <3>3, <3>4
  <2>2. CASE a + b >= Span
    <3>0. PICK w \in Nat \ {0}, s \in 0 .. Word - 1 :
            w = Word /\ s = 8 * (a + b - Span)
      BY <2>0, <2>2
    <3>1. 8 * a + 8 * b = w * 1 + s
      BY <2>0, <3>0
    <3>2. low = 8 * (a + b - Span)
      <4>1. (8 * a + 8 * b) % w = s
        BY <3>0, <3>1, Wrapped
      <4>2. QED
        BY <3>0, <4>1
    <3>3. carry = 1
      BY <2>0, <3>2
    <3>4. a + b = Span * 1 + (a + b - Span) /\ a + b - Span \in 0 .. Span - 1
      BY <2>0, <2>2
    <3>5. QED
      BY <3>2, <3>3, <3>4
  <2>3. QED
    BY <2>0, <2>1, <2>2
<1> HIDE DEF low, carry
<1>8. n + len = Span * (q + e + p) + r
  <2>1. PICK x \in Nat, y \in Nat, z \in Nat :
          x = Span * q /\ y = Span * p /\ z = Span * e
    BY Spans
  <2>2. Span * (q + e + p) = x + z + y
    BY <2>1, Spans
  <2>3. n = x + a /\ len = y + b /\ a + b = z + r
    BY <1>1, <1>2, <1>7, <2>1
  <2>4. n + len = x + z + y + r
    BY <2>3
  <2>5. QED
    BY <2>2, <2>4
<1>9. (n + len) \div Span = q + e + p /\ (n + len) % Span = r
  <2>1. PICK k \in Nat, d \in Nat \ {0} : k = q + e + p /\ d = Span
    BY Spans
  <2>2. r \in 0 .. d - 1 /\ n + len = d * k + r
    BY <1>8, <2>1
  <2>3. (n + len) \div d = k /\ (n + len) % d = r
    BY <2>2, Quotient, ZenonT(30)
  <2>4. QED
    BY <2>1, <2>3
<1>10. (u + carry + p) % Word = (q + e + p) % Word
  <2>0. PICK w \in Nat \ {0}, y \in Nat : w = Word /\ y = e + p
    BY Spans
  <2>1. ((q % w) + y) % w = (q + y) % w
    BY ModuloSum
  <2>2. u + carry + p = (q % w) + y /\ q + e + p = q + y
    BY <1>4, <1>7, <2>0
  <2>3. QED
    BY <2>0, <2>1, <2>2
<1>11. CountOf(n + len) = <<(q + e + p) % Word, 8 * r>>
  BY <1>9 DEF CountOf
<1>12. QED
  BY <1>6, <1>7, <1>10, <1>11

(* Where the buffer is filled up to.                                       *)
LEMMA LeftOf ==
  ASSUME NEW n \in Nat
  PROVE  Left(CountOf(n)) = n % Block
<1>1. PICK q \in Nat, a \in 0 .. Span - 1 :
        n = Span * q + a /\ a = n % Span
  BY Spans, Division
<1>2. PICK p \in Nat, r \in 0 .. Block - 1 : a = Block * p + r
  <2>1. a \in Nat /\ Block \in Nat \ {0}
    BY Spans
  <2>2. QED
    BY <2>1, Division
<1>3. PICK c \in Nat : Span = Block * c
  BY Spans
<1>4. n = Block * (c * q + p) + r
  <2>1. PICK x \in Nat : x = c * q
    OBVIOUS
  <2>2. Span * q = Block * x
    BY <1>3, <2>1, Spans
  <2>3. PICK y \in Nat, z \in Nat : y = Block * x /\ z = Block * p
    BY Spans
  <2>4. Block * (x + p) = y + z
    BY <2>3, Spans
  <2>5. n = y + a /\ a = z + r
    BY <1>1, <1>2, <2>2, <2>3
  <2>6. QED
    BY <2>1, <2>4, <2>5
<1>5. n % Block = r
  <2>1. c * q + p \in Nat
    OBVIOUS
  <2>2. QED
    BY <1>4, <2>1, Spans, Quotient
<1>6. a % Block = r
  BY <1>2, Spans, Quotient
<1>7. (8 * a) \div 8 = a
  OBVIOUS
<1>8. CountOf(n)[2] = 8 * a
  BY <1>1 DEF CountOf
<1>9. QED
  BY <1>5, <1>6, <1>7, <1>8 DEF Left

-----------------------------------------------------------------------------
(* Blocks.                                                                 *)

(* Byte b of whole block k is in the message.                              *)
LEMMA InBlock ==
  ASSUME NEW n \in Nat, NEW k \in 1 .. n \div Block, NEW b \in 1 .. Block
  PROVE  Block * (k - 1) + b \in 1 .. n /\ Block * (k - 1) \in Nat
         /\ Block * k = Block * (k - 1) + Block
<1>1. PICK q \in Nat, r \in 0 .. Block - 1 :
        n = Block * q + r /\ q = n \div Block
  BY Spans, Division
<1>2. k - 1 \in Nat /\ k \in Nat /\ k <= q /\ Block \in Nat
  BY <1>1, Spans
<1>3. Block * k <= Block * q
  BY <1>2, ProductMono
<1>4. PICK x \in Nat : x = Block * (k - 1)
  BY <1>2
<1>5. Block * k = x + Block
  BY <1>2, <1>4
<1>6. PICK y \in Nat : y = Block * q
  BY <1>1, <1>2
<1>7. QED
  BY <1>1, <1>2, <1>3, <1>4, <1>5, <1>6

(* The whole blocks of a message, byte by byte.                            *)
LEMMA BlocksType ==
  ASSUME NEW B, NEW m \in Seq(B)
  PROVE  /\ BlocksOf(m) \in Seq(Seq(B)) /\ Len(BlocksOf(m)) = Len(m) \div Block
         /\ \A k \in 1 .. Len(m) \div Block :
              /\ BlocksOf(m)[k] \in Seq(B) /\ Len(BlocksOf(m)[k]) = Block
              /\ \A b \in 1 .. Block : BlocksOf(m)[k][b] = m[Block * (k - 1) + b]
<1>0. Block \in Nat \ {0} /\ 1 \in 1 .. Block /\ Block \in 1 .. Block
  BY Spans
<1>1. PICK n \in Nat, p \in Nat : n = Len(m) /\ p = n \div Block
  <2>1. Len(m) \in Nat
    OBVIOUS
  <2>2. QED
    BY <1>0, <2>1, Division
<1>2. ASSUME NEW k \in 1 .. p
      PROVE  LET s == SubSeq(m, Block * (k - 1) + 1, Block * k)
             IN  /\ s \in Seq(B) /\ Len(s) = Block
                 /\ \A b \in 1 .. Block : s[b] = m[Block * (k - 1) + b]
  <2>1. PICK x \in Nat : x = Block * (k - 1) /\ Block * k = x + Block
    BY <1>0, <1>1, <1>2, InBlock
  <2>2. x + Block <= n
    BY <1>0, <1>1, <1>2, <2>1, InBlock
  <2>3. PICK d \in Nat : d = Block
    BY Spans
  <2>4. PICK s : s = SubSeq(m, x + 1, x + d)
    OBVIOUS
  <2>5. s \in Seq(B) /\ Len(s) = d /\ \A b \in 1 .. d : s[b] = m[x + b]
    BY <1>1, <2>2, <2>3, <2>4
  <2>6. QED
    BY <2>1, <2>3, <2>4, <2>5
<1>3. BlocksOf(m)
        = [k \in 1 .. p |-> SubSeq(m, Block * (k - 1) + 1, Block * k)]
  BY <1>1 DEF BlocksOf
<1>4. BlocksOf(m) \in [1 .. p -> Seq(B)]
  BY <1>2, <1>3
<1>5. BlocksOf(m) \in Seq(Seq(B)) /\ Len(BlocksOf(m)) = p
  BY <1>4
<1>6. QED
  BY <1>1, <1>2, <1>3, <1>5

(* The blocks of m are the only sequence that has its bytes in order.      *)
LEMMA BlocksAre ==
  ASSUME NEW B, NEW m \in Seq(B), NEW t \in Seq(Seq(B)),
         Len(t) = Len(m) \div Block,
         \A k \in 1 .. Len(t) :
           /\ Len(t[k]) = Block
           /\ \A b \in 1 .. Block : t[k][b] = m[Block * (k - 1) + b]
  PROVE  t = BlocksOf(m)
<1>1. PICK u \in Seq(Seq(B)) :
        /\ u = BlocksOf(m) /\ Len(u) = Len(t)
        /\ \A k \in 1 .. Len(t) :
             /\ u[k] \in Seq(B) /\ Len(u[k]) = Block
             /\ \A b \in 1 .. Block : u[k][b] = m[Block * (k - 1) + b]
  <2>1. BlocksOf(m) \in Seq(Seq(B)) /\ Len(BlocksOf(m)) = Len(t)
    BY BlocksType
  <2>2. \A k \in 1 .. Len(t) :
          /\ BlocksOf(m)[k] \in Seq(B) /\ Len(BlocksOf(m)[k]) = Block
          /\ \A b \in 1 .. Block : BlocksOf(m)[k][b] = m[Block * (k - 1) + b]
    <3>1. \A k \in 1 .. Len(m) \div Block :
            /\ BlocksOf(m)[k] \in Seq(B) /\ Len(BlocksOf(m)[k]) = Block
            /\ \A b \in 1 .. Block : BlocksOf(m)[k][b] = m[Block * (k - 1) + b]
      BY BlocksType
    <3>2. 1 .. Len(m) \div Block = 1 .. Len(t)
      OBVIOUS
    <3>3. QED
      BY <3>1, <3>2, Zenon
  <2>3. QED
    BY <2>1, <2>2, Zenon
<1>2. ASSUME NEW k \in 1 .. Len(t)
      PROVE  t[k] = u[k]
  <2>1. u[k] \in Seq(B) /\ Len(u[k]) = Block
        /\ \A b \in 1 .. Block : u[k][b] = m[Block * (k - 1) + b]
    BY <1>1, <1>2
  <2>2. t[k] \in Seq(B) /\ Len(t[k]) = Block
    OBVIOUS
  <2>3. \A b \in 1 .. Block : t[k][b] = u[k][b]
    BY <2>1
  <2>4. PICK f \in Seq(B), g \in Seq(B) : f = t[k] /\ g = u[k]
    BY <2>1, <2>2
  <2>5. f = g
    BY <2>1, <2>2, <2>3, <2>4, SeqEqual
  <2>6. QED
    BY <2>4, <2>5
<1>3. t = u
  BY <1>1, <1>2, SeqEqual, ZenonT(30)
<1>4. QED
  BY <1>1, <1>3

-----------------------------------------------------------------------------
(* Contexts.                                                               *)

(* ctx has been given m: the count is that of its bytes, its whole blocks  *)
(* have been transformed, and its other bytes are in the buffer. What is   *)
(* behind them is whatever was there.                                      *)
Holds(ctx, m) ==
  /\ ctx = [count |-> CountOf(Len(m)), state |-> BlocksOf(m), buf |-> ctx.buf]
  /\ \A b \in 1 .. Len(m) % Block :
       ctx.buf[b] = m[Block * (Len(m) \div Block) + b]

(* A new context has been given nothing.                                   *)
LEMMA InitHolds == Holds(SHA256_Init, <<>>)
<1>1. Len(<<>>) = 0
  OBVIOUS
<1>2. 0 = Block * 0 + 0 /\ 0 = Span * 0 + 0
  BY Spans
<1>3. 0 \div Block = 0 /\ 0 % Block = 0 /\ 0 \div Span = 0 /\ 0 % Span = 0
  BY Spans
<1>4. 0 % Word = 0
  BY Spans
<1>5. CountOf(0) = <<0, 0>>
  BY <1>3, <1>4 DEF CountOf
<1>6. BlocksOf(<<>>) = <<>>
  BY <1>1, <1>3 DEF BlocksOf
<1>7. PICK ctx : ctx = SHA256_Init
  OBVIOUS
<1>8. ctx = [count |-> <<0, 0>>, state |-> <<>>, buf |-> ctx.buf]
  BY <1>7 DEF SHA256_Init
<1>9. Holds(ctx, <<>>)
  BY <1>1, <1>3, <1>5, <1>6, <1>8 DEF Holds
<1>10. QED
  BY <1>7, <1>9

(* The message so far, as the numbers of its bytes and blocks.             *)
Parts(n, k, r) ==
  /\ n \in Nat /\ k \in Nat /\ r \in 0 .. Block - 1
  /\ n = Block * k + r /\ k = n \div Block /\ r = n % Block

(* Every message has its parts.                                            *)
LEMMA PartsOf ==
  ASSUME NEW n \in Nat
  PROVE  Parts(n, n \div Block, n % Block)
<1>1. Block \in Nat \ {0}
  BY Spans
<1>2. QED
  BY <1>1, Division DEF Parts

(* Numbers that add up are the parts.                                      *)
LEMMA PartsAre ==
  ASSUME NEW n, NEW k \in Nat, NEW r \in 0 .. Block - 1, n = Block * k + r
  PROVE  Parts(n, k, r)
<1>1. Block \in Nat \ {0}
  BY Spans
<1>2. n \div Block = k /\ n % Block = r
  BY <1>1, Quotient
<1>3. n \in Nat
  BY <1>1
<1>4. QED
  BY <1>2, <1>3 DEF Parts

(* What a concatenation holds.                                             *)
LEMMA Joins ==
  ASSUME NEW B, NEW s \in Seq(B), NEW t \in Seq(B)
  PROVE  /\ s \o t \in Seq(B) /\ Len(s \o t) = Len(s) + Len(t)
         /\ \A j \in 1 .. Len(s) : (s \o t)[j] = s[j]
         /\ \A j \in 1 .. Len(t) : (s \o t)[Len(s) + j] = t[j]
  OBVIOUS

(* Bytes that do not fill the buffer up.                                   *)
LEMMA Gathered ==
  ASSUME NEW B, NEW m \in Seq(B), NEW s \in Seq(B), NEW ctx, Holds(ctx, m),
         NEW k, NEW r, Parts(Len(m), k, r), Len(s) < Block - r
  PROVE  Holds([count |-> CountOf(Len(m \o s)), state |-> ctx.state,
                buf |-> Copied(ctx.buf, r, s)], m \o s)
<1> DEFINE new == [count |-> CountOf(Len(m \o s)), state |-> ctx.state,
                   buf |-> Copied(ctx.buf, r, s)]
<1>1. PICK n \in Nat, l \in Nat : n = Len(m) /\ l = Len(s)
  OBVIOUS
<1>2. Block \in Nat /\ k \in Nat /\ r \in 0 .. Block - 1 /\ n = Block * k + r
  BY <1>1, Spans DEF Parts
<1>3. PICK x \in Nat : x = Block * k /\ n = x + r
  BY <1>2
<1>4. PICK all \in Seq(B) :
        /\ all = m \o s /\ Len(all) = n + l
        /\ \A j \in 1 .. n : all[j] = m[j]
        /\ \A j \in 1 .. l : all[n + j] = s[j]
  <2>1. /\ m \o s \in Seq(B) /\ Len(m \o s) = Len(m) + Len(s)
        /\ \A j \in 1 .. Len(m) : (m \o s)[j] = m[j]
        /\ \A j \in 1 .. Len(s) : (m \o s)[Len(m) + j] = s[j]
    BY Joins
  <2>2. QED
    BY <1>1, <2>1, Zenon
<1>5. Parts(n + l, k, r + l)
  BY <1>1, <1>2, <1>3, PartsAre
<1>6. ctx.state = BlocksOf(m)
      /\ \A b \in 1 .. r : ctx.buf[b] = m[x + b]
  <2>1. \A b \in 1 .. Len(m) % Block :
          ctx.buf[b] = m[Block * (Len(m) \div Block) + b]
    BY DEF Holds
  <2>2. Len(m) % Block = r /\ Len(m) \div Block = k
    BY DEF Parts
  <2>3. QED
    BY <1>3, <2>1, <2>2 DEF Holds
<1>7. BlocksOf(m) = BlocksOf(all)
  <2>1. PICK t \in Seq(Seq(B)) : t = BlocksOf(m) /\ Len(t) = k
    BY BlocksType DEF Parts
  <2>2. Len(t) = Len(all) \div Block
    BY <1>4, <1>5, <2>1 DEF Parts
  <2>3. ASSUME NEW j \in 1 .. k
        PROVE  /\ Len(t[j]) = Block
               /\ \A b \in 1 .. Block : t[j][b] = all[Block * (j - 1) + b]
    <3>1. j \in 1 .. Len(m) \div Block /\ n \in Nat
      BY <2>3 DEF Parts
    <3>2. Len(t[j]) = Block
          /\ \A b \in 1 .. Block : t[j][b] = m[Block * (j - 1) + b]
      BY <2>1, <3>1, BlocksType
    <3>3. \A b \in 1 .. Block : Block * (j - 1) + b \in 1 .. n
      BY <1>1, <3>1, InBlock
    <3>4. QED
      BY <1>4, <3>2, <3>3
  <2>4. t = BlocksOf(all)
    BY <2>1, <2>2, <2>3, BlocksAre
  <2>5. QED
    BY <2>1, <2>4
<1>8. ASSUME NEW b \in 1 .. r + l
      PROVE  Copied(ctx.buf, r, s)[b] = all[x + b]
  <2>1. b \in 1 .. Block
    BY <1>1, <1>2
  <2>2. Copied(ctx.buf, r, s)[b]
          = IF r < b /\ b <= r + l THEN s[b - r] ELSE ctx.buf[b]
    BY <1>1, <2>1 DEF Copied
  <2>3. CASE b <= r
    <3>1. x + b \in 1 .. n /\ b \in 1 .. r /\ ~(r < b)
      BY <1>2, <1>3, <2>3
    <3>2. all[x + b] = m[x + b] /\ ctx.buf[b] = m[x + b]
      BY <1>4, <1>6, <3>1
    <3>3. QED
      BY <2>2, <3>1, <3>2
  <2>4. CASE r < b
    <3>1. PICK j \in 1 .. l : j = b - r
      BY <1>2, <2>4
    <3>2. n + j = x + b
      BY <1>2, <1>3, <3>1
    <3>3. all[n + j] = s[j]
      BY <1>4
    <3>4. Copied(ctx.buf, r, s)[b] = s[j]
      BY <2>2, <2>4, <3>1
    <3>5. QED
      BY <3>2, <3>3, <3>4
  <2>5. QED
    BY <1>2, <2>3, <2>4
<1>9. /\ new = [count |-> CountOf(Len(all)), state |-> BlocksOf(all),
                buf |-> new.buf]
      /\ new.buf = Copied(ctx.buf, r, s)
  BY <1>4, <1>6, <1>7
<1> HIDE DEF new
<1>10. Len(all) % Block = r + l /\ Len(all) \div Block = k
  BY <1>4, <1>5 DEF Parts
<1>11. \A b \in 1 .. Len(all) % Block :
         new.buf[b] = all[Block * (Len(all) \div Block) + b]
  BY <1>3, <1>8, <1>9, <1>10
<1>12. Holds(new, all)
  BY <1>9, <1>11 DEF Holds
<1>13. QED
  BY <1>4, <1>12 DEF new

(* What a piece of a sequence holds.                                       *)
LEMMA Slice ==
  ASSUME NEW B, NEW s \in Seq(B), NEW g \in Nat, NEW e \in Nat, g <= e, e <= Len(s)
  PROVE  /\ SubSeq(s, g + 1, e) \in Seq(B) /\ Len(SubSeq(s, g + 1, e)) = e - g
         /\ \A j \in 1 .. e - g : SubSeq(s, g + 1, e)[j] = s[g + j]
  OBVIOUS

(* What a block of a message holds.                                        *)
LEMMA BlockBytes ==
  ASSUME NEW B, NEW m \in Seq(B), NEW k \in 1 .. Len(m) \div Block
  PROVE  /\ Len(BlocksOf(m)[k]) = Block
         /\ \A b \in 1 .. Block : BlocksOf(m)[k][b] = m[Block * (k - 1) + b]
  BY BlocksType

(* Bytes that fill the buffer up, and how the rest is cut.                 *)
LEMMA Filled ==
  ASSUME NEW B, NEW m \in Seq(B), NEW s \in Seq(B), NEW ctx, Holds(ctx, m),
         NEW k, NEW r, Parts(Len(m), k, r), Len(s) >= Block - r
  PROVE  LET first == Copied(ctx.buf, r, SubSeq(s, 1, Block - r))
             rest  == SubSeq(s, Block - r + 1, Len(s))
             whole == BlocksOf(rest)
         IN  Holds([count |-> CountOf(Len(m \o s)),
                    state |-> ctx.state \o (<<first>> \o whole),
                    buf |-> Copied(first, 0,
                              SubSeq(rest, Block * Len(whole) + 1, Len(rest)))],
                   m \o s)
<1> DEFINE First == Copied(ctx.buf, r, SubSeq(s, 1, Block - r))
           Rest  == SubSeq(s, Block - r + 1, Len(s))
           Whole == BlocksOf(Rest)
           new   == [count |-> CountOf(Len(m \o s)),
                     state |-> ctx.state \o (<<First>> \o Whole),
                     buf |-> Copied(First, 0,
                               SubSeq(Rest, Block * Len(Whole) + 1, Len(Rest)))]
<1>1. PICK n \in Nat, l \in Nat, d \in Nat \ {0} :
        n = Len(m) /\ l = Len(s) /\ d = Block
  BY Spans
<1>2. k \in Nat /\ r \in 0 .. d - 1 /\ n = d * k + r
  BY <1>1 DEF Parts
<1>20. PICK x \in Nat : x = d * k
  BY <1>2
<1>3. PICK g \in 1 .. d :
        /\ g = d - r /\ g <= l /\ n = x + r /\ x + g \in Nat
        /\ r \in Nat /\ r < d /\ r + g = d
  BY <1>1, <1>2, <1>20
<1>4. PICK all \in Seq(B) :
        /\ all = m \o s /\ Len(all) = n + l
        /\ \A j \in 1 .. n : all[j] = m[j]
        /\ \A j \in 1 .. l : all[n + j] = s[j]
  <2>1. /\ m \o s \in Seq(B) /\ Len(m \o s) = Len(m) + Len(s)
        /\ \A j \in 1 .. Len(m) : (m \o s)[j] = m[j]
        /\ \A j \in 1 .. Len(s) : (m \o s)[Len(m) + j] = s[j]
    BY Joins
  <2>2. QED
    BY <1>1, <2>1, Zenon
<1>5. PICK rest \in Seq(B), z \in Nat :
        /\ rest = Rest /\ Len(rest) = z /\ z = l - g
        /\ \A j \in 1 .. z : rest[j] = s[g + j]
  <2>1. SubSeq(s, g + 1, l) \in Seq(B) /\ Len(SubSeq(s, g + 1, l)) = l - g
        /\ \A j \in 1 .. l - g : SubSeq(s, g + 1, l)[j] = s[g + j]
    <3>1. g \in Nat /\ l \in Nat /\ g <= l /\ l <= Len(s)
      BY <1>1, <1>3
    <3>2. QED
      BY ONLY <3>1, s \in Seq(B), Slice
  <2>2. Rest = SubSeq(s, g + 1, l) /\ l - g \in Nat
    BY <1>1, <1>3
  <2>3. QED
    BY <2>1, <2>2
<1>6. PICK p \in Nat, q \in 0 .. d - 1 : Parts(z, p, q)
  BY <1>1, PartsOf DEF Parts
<1>21. PICK y \in Nat : y = d * p
  BY <1>1, <1>6, SMTT(30) DEF Parts
<1>7. z = y + q /\ q \in Nat /\ q < d
  <2>1. z = Block * p + q
    BY <1>6 DEF Parts
  <2>2. z = y + q
    BY <1>1, <1>21, <2>1
  <2>3. QED
    BY <1>6, <2>2
<1>8. x + d = n + g /\ d * (k + 1 + p) = x + d + y
  <2>1. d * (k + 1 + p) = d * k + d + d * p
    BY <1>2
  <2>2. x + d = n + g
    BY <1>3
  <2>3. QED
    BY <1>20, <1>21, <2>1, <2>2
<1>9. Parts(n + l, k + 1 + p, q)
  <2>1. PICK e \in Nat : e = k + 1 + p
    BY <1>2
  <2>2. n + l = d * e + q
    <3>1. d * e = x + d + y
      BY <1>8, <2>1
    <3>2. n + l = x + d + y + q
      BY <1>3, <1>5, <1>7
    <3>3. QED
      BY <3>1, <3>2
  <2>3. Parts(n + l, e, q)
    BY <1>1, <2>2, PartsAre
  <2>4. QED
    BY <2>1, <2>3
<1>10. ctx.state = BlocksOf(m) /\ \A b \in 1 .. r : ctx.buf[b] = m[x + b]
  <2>1. \A b \in 1 .. Len(m) % Block :
          ctx.buf[b] = m[Block * (Len(m) \div Block) + b]
    BY DEF Holds
  <2>2. Len(m) % Block = r /\ Len(m) \div Block = k
    BY DEF Parts
  <2>3. QED
    BY <1>1, <1>20, <2>1, <2>2 DEF Holds
<1>11. PICK first \in Seq(B) :
         /\ first = First /\ Len(first) = d
         /\ \A b \in 1 .. d : first[b] = all[x + b]
  <2>1. PICK head \in Seq(B) : head = SubSeq(s, 1, Block - r) /\ Len(head) = g
                               /\ \A j \in 1 .. g : head[j] = s[j]
    <3>1. SubSeq(s, 1, g) \in Seq(B) /\ Len(SubSeq(s, 1, g)) = g
          /\ \A j \in 1 .. g : SubSeq(s, 1, g)[j] = s[j]
      <4>1. g \in 0 .. Len(s)
        BY <1>1, <1>3
      <4>2. QED
        BY <4>1
    <3>2. QED
      BY <1>1, <1>3, <3>1
  <2>2. First = [b \in 1 .. d |-> IF r < b /\ b <= r + g THEN head[b - r]
                                                        ELSE ctx.buf[b]]
    BY <1>1, <2>1 DEF Copied
  <2>3. ASSUME NEW b \in 1 .. d
        PROVE  First[b] = all[x + b] /\ all[x + b] \in B
    <3>0. x + b \in 1 .. n + l
      BY <1>3
    <3>1. CASE b <= r
      <4>1. x + b \in 1 .. n /\ b \in 1 .. r /\ ~(r < b)
        BY <1>2, <1>3, <3>1
      <4>2. all[x + b] = m[x + b] /\ ctx.buf[b] = m[x + b]
        BY <1>4, <1>10, <4>1
      <4>3. First[b] = ctx.buf[b]
        BY <2>2, <4>1
      <4>4. QED
        BY <1>4, <3>0, <4>2, <4>3
    <3>2. CASE r < b
      <4>1. PICK j \in 1 .. g : j = b - r /\ b <= r + g
        BY <1>2, <1>3, <3>2
      <4>2. n + j = x + b /\ j \in 1 .. l
        BY <1>2, <1>3, <4>1
      <4>3. all[n + j] = s[j] /\ head[j] = s[j]
        BY <1>4, <2>1, <4>2
      <4>4. First[b] = head[j]
        BY <2>2, <3>2, <4>1
      <4>5. QED
        BY <1>4, <3>0, <4>2, <4>3, <4>4, SMTT(30)
    <3>3. QED
      BY <1>2, <3>1, <3>2
  <2>4. First \in [1 .. d -> B]
    BY <2>2, <2>3
  <2>5. First \in Seq(B) /\ Len(First) = d
    BY <2>4
  <2>6. QED
    BY <2>3, <2>5
<1>12. PICK tail \in Seq(B) :
         /\ tail = SubSeq(Rest, Block * Len(Whole) + 1, Len(Rest))
         /\ Len(tail) = q /\ \A b \in 1 .. q : tail[b] = rest[y + b]
  <2>1. Len(Whole) = p
    BY <1>5, <1>6, BlocksType DEF Parts
  <2>2. SubSeq(rest, y + 1, z) \in Seq(B) /\ Len(SubSeq(rest, y + 1, z)) = q
        /\ \A b \in 1 .. q : SubSeq(rest, y + 1, z)[b] = rest[y + b]
    <3>1. y \in Nat /\ z \in Nat /\ z = Len(rest)
      BY <1>5
    <3>2. z = y + q /\ q \in Nat
      BY <1>7
    <3>3. y <= z /\ z <= Len(rest) /\ z - y = q
      BY <3>1, <3>2
    <3>4. SubSeq(rest, y + 1, z) \in Seq(B) /\ Len(SubSeq(rest, y + 1, z)) = q
      BY <3>1, <3>3
    <3>5. ASSUME NEW b \in 1 .. q
          PROVE  SubSeq(rest, y + 1, z)[b] = rest[y + b]
      BY <3>1, <3>3
    <3>6. QED
      BY <3>4, <3>5
  <2>3. SubSeq(rest, y + 1, z) = SubSeq(Rest, Block * Len(Whole) + 1, Len(Rest))
    <3>1. Block * Len(Whole) = y
      BY <1>1, <1>21, <2>1
    <3>2. QED
      BY <1>5, <3>1
  <2>4. QED
    BY <2>2, <2>3
<1>13. Whole = BlocksOf(rest)
  BY <1>5
<1> HIDE DEF First, Rest, Whole
<1>14. ctx.state \o (<<First>> \o Whole) = BlocksOf(all)
  <2>1. PICK u \in Seq(Seq(B)), w \in Seq(Seq(B)) :
          /\ u = BlocksOf(m) /\ Len(u) = k
          /\ w = BlocksOf(rest) /\ Len(w) = p
    <3>1. BlocksOf(m) \in Seq(Seq(B)) /\ Len(BlocksOf(m)) = k
      BY BlocksType DEF Parts
    <3>2. BlocksOf(rest) \in Seq(Seq(B)) /\ Len(BlocksOf(rest)) = p
      BY <1>5, <1>6, BlocksType DEF Parts
    <3>3. QED
      BY <3>1, <3>2
  <2>2. PICK v \in Seq(Seq(B)) :
          /\ v = <<first>> \o w /\ Len(v) = 1 + p /\ v[1] = first
          /\ \A j \in 1 .. p : v[1 + j] = w[j]
    <3>1. PICK f \in Seq(Seq(B)) : f = <<first>> /\ Len(f) = 1 /\ f[1] = first
      BY <<first>> \in Seq(Seq(B))
    <3>2. /\ f \o w \in Seq(Seq(B)) /\ Len(f \o w) = 1 + p
          /\ \A j \in 1 .. 1 : (f \o w)[j] = f[j]
          /\ \A j \in 1 .. p : (f \o w)[1 + j] = w[j]
      BY <2>1, <3>1, Joins
    <3>3. (f \o w)[1] = first
      BY <3>1, <3>2
    <3>4. QED
      BY <3>1, <3>2, <3>3
  <2>3. PICK t \in Seq(Seq(B)) :
          /\ t = u \o v /\ Len(t) = k + 1 + p
          /\ \A j \in 1 .. k : t[j] = u[j]
          /\ t[k + 1] = first
          /\ \A j \in 1 .. p : t[k + 1 + j] = w[j]
    <3>1. /\ u \o v \in Seq(Seq(B)) /\ Len(u \o v) = k + (1 + p)
          /\ \A j \in 1 .. k : (u \o v)[j] = u[j]
          /\ \A j \in 1 .. 1 + p : (u \o v)[k + j] = v[j]
      <4>1. /\ u \o v \in Seq(Seq(B)) /\ Len(u \o v) = Len(u) + Len(v)
            /\ \A j \in 1 .. Len(u) : (u \o v)[j] = u[j]
            /\ \A j \in 1 .. Len(v) : (u \o v)[Len(u) + j] = v[j]
        BY Joins
      <4>2. QED
        BY <2>1, <2>2, <4>1, Zenon
    <3>2. (u \o v)[k + 1] = first
      <4>1. 1 \in 1 .. 1 + p
        BY <1>6
      <4>2. QED
        BY <2>2, <3>1, <4>1
    <3>3. ASSUME NEW j \in 1 .. p
          PROVE  (u \o v)[k + 1 + j] = w[j]
      <4>0. 1 + j \in 1 .. 1 + p
        BY <1>6
      <4>1. (u \o v)[k + (1 + j)] = v[1 + j]
        BY <3>1, <4>0
      <4>2. k + (1 + j) = k + 1 + j
        BY <1>2
      <4>3. QED
        BY <2>2, <4>1, <4>2
    <3>4. k + (1 + p) = k + 1 + p
      BY <1>2, <1>6
    <3>5. QED
      BY <3>1, <3>2, <3>3, <3>4, Zenon
  <2>4. Len(t) = Len(all) \div Block
    BY <1>4, <1>9, <2>3 DEF Parts
  <2>5. ASSUME NEW j \in 1 .. k
        PROVE  /\ Len(t[j]) = Block
               /\ \A b \in 1 .. Block : t[j][b] = all[Block * (j - 1) + b]
    <3>1. j \in 1 .. Len(m) \div Block
      BY <2>5 DEF Parts
    <3>2. Len(u[j]) = Block
          /\ \A b \in 1 .. Block : u[j][b] = m[Block * (j - 1) + b]
      BY <2>1, <3>1, BlockBytes, ZenonT(30)
    <3>3. \A b \in 1 .. Block : Block * (j - 1) + b \in 1 .. n
      BY <1>1, <3>1, InBlock
    <3>4. QED
      BY <1>4, <2>3, <3>2, <3>3
  <2>6. /\ Len(t[k + 1]) = Block
        /\ \A b \in 1 .. Block : t[k + 1][b] = all[Block * ((k + 1) - 1) + b]
    <3>1. Block * ((k + 1) - 1) = x
      BY <1>1, <1>2, <1>3, SMTT(30)
    <3>2. QED
      BY <1>1, <1>11, <2>3, <3>1
  <2>7. ASSUME NEW i \in 1 .. p
        PROVE  /\ Len(t[k + 1 + i]) = Block
               /\ \A b \in 1 .. Block :
                    t[k + 1 + i][b] = all[Block * ((k + 1 + i) - 1) + b]
    <3>1. i \in 1 .. z \div Block /\ i \in 1 .. Len(rest) \div Block
      BY <1>5, <1>6 DEF Parts
    <3>2. Len(w[i]) = Block
          /\ \A b \in 1 .. Block : w[i][b] = rest[Block * (i - 1) + b]
      BY <2>1, <3>1, BlockBytes, ZenonT(30)
    <3>3. \A b \in 1 .. Block : Block * (i - 1) + b \in 1 .. z
      BY <3>1, InBlock
    <3>4. PICK h \in Nat : h = Block * (i - 1)
      BY <1>1
    <3>5. Block * ((k + 1 + i) - 1) = n + g + h
      <4>1. (k + 1 + i) - 1 = k + 1 + (i - 1)
        BY <1>2
      <4>2. d * (k + 1 + (i - 1)) = d * k + d + d * (i - 1)
        BY <1>2
      <4>3. QED
        BY <1>1, <1>8, <1>20, <3>4, <4>1, <4>2
    <3>6. ASSUME NEW b \in 1 .. d
          PROVE  w[i][b] = all[n + g + h + b]
      <4>1. w[i][b] = rest[h + b] /\ h + b \in 1 .. z
        BY <1>1, <3>2, <3>3, <3>4
      <4>2. PICK e \in 1 .. z : e = h + b
        BY <4>1
      <4>3. rest[e] = s[g + e]
        BY <1>5
      <4>31. g + e \in 1 .. l
        BY <1>5
      <4>4. all[n + (g + e)] = s[g + e]
        BY <1>4, <4>31
      <4>5. n + (g + e) = n + g + h + b
        <5>1. b \in Nat /\ h \in Nat /\ e = h + b
          BY <4>2
        <5>2. QED
          BY <5>1
      <4>6. QED
        BY <4>1, <4>2, <4>3, <4>4, <4>5
    <3>7. t[k + 1 + i] = w[i]
      BY <2>3
    <3>8. QED
      BY <1>1, <3>2, <3>5, <3>6, <3>7
  <2>8. ASSUME NEW j \in 1 .. Len(t)
        PROVE  /\ Len(t[j]) = Block
               /\ \A b \in 1 .. Block : t[j][b] = all[Block * (j - 1) + b]
    <3>1. CASE j <= k
      BY <1>2, <2>5, <3>1
    <3>2. CASE j = k + 1
      BY <2>6, <3>2
    <3>3. CASE j > k + 1
      <4>1. PICK i \in 1 .. p : j = k + 1 + i
        BY <1>2, <2>3, <3>3, j - (k + 1) \in 1 .. p
      <4>2. QED
        BY <2>7, <4>1
    <3>4. QED
      BY <1>2, <3>1, <3>2, <3>3
  <2>9. t = BlocksOf(all)
    BY <2>4, <2>8, BlocksAre
  <2>10. QED
    BY <1>10, <1>11, <1>13, <2>1, <2>2, <2>3, <2>9
<1>15. ASSUME NEW b \in 1 .. q
       PROVE  Copied(First, 0, tail)[b] = all[x + d + y + b]
  <2>1. b \in 1 .. Block /\ 0 < b /\ b <= 0 + q /\ b - 0 = b
    BY <1>1
  <2>2. Copied(First, 0, tail)[b] = tail[b]
    BY <1>12, <2>1 DEF Copied
  <2>3. PICK e \in 1 .. z : e = y + b
    BY <1>7, y + b \in 1 .. z
  <2>4. tail[b] = rest[e] /\ rest[e] = s[g + e] /\ g + e \in 1 .. l
    <3>1. tail[b] = rest[e]
      BY <1>12, <2>3
    <3>2. rest[e] = s[g + e]
      BY <1>5
    <3>3. g + e \in 1 .. l
      BY <1>5
    <3>4. QED
      BY <3>1, <3>2, <3>3
  <2>5. all[n + (g + e)] = s[g + e]
    BY <1>4, <2>4
  <2>6. n + (g + e) = x + d + y + b
    BY <1>8, <2>3
  <2>7. QED
    BY <2>2, <2>4, <2>5, <2>6
<1>16. /\ new = [count |-> CountOf(Len(all)), state |-> BlocksOf(all),
                 buf |-> new.buf]
       /\ new.buf = Copied(First, 0, tail)
  BY <1>4, <1>12, <1>14
<1>17. Holds(new, all)
  <2> HIDE DEF new
  <2>1. Len(all) % Block = q /\ Block * (Len(all) \div Block) = x + d + y
    BY <1>1, <1>4, <1>8, <1>9 DEF Parts
  <2>2. \A b \in 1 .. Len(all) % Block :
          new.buf[b] = all[Block * (Len(all) \div Block) + b]
    BY <1>15, <1>16, <2>1
  <2>3. QED
    BY <1>16, <2>2 DEF Holds
<1>18. Holds(new, m \o s)
  BY <1>4, <1>17
<1>19. QED
  BY <1>18 DEF First, Rest, Whole

(* However a message is cut into updates, the context has been given it.   *)
LEMMA UpdateHolds ==
  ASSUME NEW B, NEW m \in Seq(B), NEW s \in Seq(B), NEW ctx, Holds(ctx, m)
  PROVE  Holds(SHA256_Update(ctx, s), m \o s)
<1>1. PICK n \in Nat, l \in Nat : n = Len(m) /\ l = Len(s)
  OBVIOUS
<1>2. PICK k \in Nat, r \in 0 .. Block - 1 : Parts(n, k, r)
  BY PartsOf DEF Parts
<1>3. ctx.count = CountOf(n)
  BY <1>1 DEF Holds
<1>4. Left(ctx.count) = r
  BY <1>2, <1>3, LeftOf DEF Parts
<1>5. Len(m \o s) = n + l
  BY <1>1
<1>6. Counted(ctx.count, Len(s)) = CountOf(Len(m \o s))
  BY <1>1, <1>3, <1>5, CountAdds
<1>7. CASE Len(s) < Block - r
  <2>1. SHA256_Update(ctx, s)
          = [count |-> CountOf(Len(m \o s)), state |-> ctx.state,
             buf |-> Copied(ctx.buf, r, s)]
    BY <1>4, <1>6, <1>7 DEF SHA256_Update
  <2>2. QED
    BY <1>1, <1>2, <1>7, <2>1, Gathered
<1>8. CASE ~(Len(s) < Block - r)
  <2>1. Len(s) >= Block - r
    BY <1>1, <1>8, Spans
  <2> DEFINE first == Copied(ctx.buf, r, SubSeq(s, 1, Block - r))
             rest  == SubSeq(s, Block - r + 1, Len(s))
             whole == BlocksOf(rest)
             new   == [count |-> CountOf(Len(m \o s)),
                       state |-> ctx.state \o (<<first>> \o whole),
                       buf |-> Copied(first, 0,
                                 SubSeq(rest, Block * Len(whole) + 1, Len(rest)))]
  <2>2. SHA256_Update(ctx, s) = new
    BY <1>4, <1>6, <1>8 DEF SHA256_Update, SHA256_Transform
  <2>3. Holds(new, m \o s)
    BY <1>1, <1>2, <2>1, Filled
  <2> HIDE DEF new
  <2>4. QED
    BY <2>2, <2>3
<1>9. QED
  BY <1>7, <1>8

(* A function of an interval is a sequence of what it gives.               *)
LEMMA SequenceOf ==
  ASSUME NEW n \in Nat, NEW f, f = [j \in 1 .. n |-> f[j]],
         NEW B, \A j \in 1 .. n : f[j] \in B
  PROVE  f \in Seq(B) /\ Len(f) = n
<1>1. f \in [1 .. n -> B]
  OBVIOUS
<1>2. QED
  BY <1>1

(* A sequence of bytes of one kind, among bytes of more kinds.             *)
LEMMA Wider ==
  ASSUME NEW B, NEW C, NEW m \in Seq(B)
  PROVE  m \in Seq(B \cup C) /\ m \in Seq(C \cup B)
  OBVIOUS

Pad(plen) == [b \in 1 .. plen |-> IF b = 1 THEN {<<"0x80">>} ELSE {}]

(* The padding ends where the count fits into the last block.              *)
LEMMA PadLength ==
  ASSUME NEW n \in Nat
  PROVE  LET r     == n % Block
             zeros == (Block - 3 - r) % Block
         IN  /\ zeros \in Nat
             /\ (IF r < Block - 2 THEN Block - 2 - r ELSE 2 * Block - 2 - r)
                  = 1 + zeros
<1>1. PICK d \in Nat \ {0} : d = Block /\ d > 2
  BY Spans
<1>2. PICK r \in 0 .. d - 1 : r = n % d
  BY Division
<1>3. CASE r < d - 2
  <2>1. PICK z \in 0 .. d - 1 : z = d - 3 - r
    BY <1>1, <1>3
  <2>2. z % d = z
    BY Wrapped
  <2>3. QED
    BY <1>1, <1>2, <1>3, <2>1, <2>2
<1>4. CASE r >= d - 2
  <2>1. PICK z \in 0 .. d - 1 : z = 2 * d - 3 - r
    BY <1>1, <1>2, <1>4
  <2>2. PICK x \in Int : x = d - 3 - r
    BY <1>1
  <2>3. x = d * (-1) + z
    BY <2>1, <2>2
  <2>4. x % d = z
    BY <2>1, <2>2, <2>3, <1>1, <1>2
  <2>5. QED
    BY <1>1, <1>2, <1>4, <2>1, <2>2, <2>4
<1>5. QED
  BY <1>2, <1>3, <1>4

(* What a context gives is the hash of the message that it was given.      *)
LEMMA FinalIsSha ==
  ASSUME NEW A, NEW m \in Seq(A), NEW ctx, Holds(ctx, m)
  PROVE  SHA256_Final(ctx) = Sha(m)
<1>1. PICK n \in Nat : n = Len(m)
  OBVIOUS
<1>2. PICK z \in Nat :
        /\ z = (Block - 3 - (n % Block)) % Block
        /\ (IF n % Block < Block - 2 THEN Block - 2 - (n % Block)
                                     ELSE 2 * Block - 2 - (n % Block)) = 1 + z
  BY PadLength
<1> DEFINE one   == <<{<<"0x80">>}>>
           zeros == [j \in 1 .. z |-> {}]
           word  == Encoded(CountOf(n))
<1>3. PICK B : /\ m \in Seq(B) /\ {<<"0x80">>} \in B /\ {} \in B
               /\ word[1] \in B /\ word[2] \in B
  <2>1. m \in Seq(A \cup {{<<"0x80">>}, {}, word[1], word[2]})
    BY Wider
  <2>2. QED
    BY <2>1
<1>4. word \in Seq(B) /\ Len(word) = 2
  <2>1. word = [j \in 1 .. 2 |-> word[j]]
    BY DEF Encoded
  <2> HIDE DEF word
  <2>2. \A j \in 1 .. 2 : word[j] \in B
    BY <1>3
  <2>3. QED
    BY <2>1, <2>2, SequenceOf
<1>5. one \in Seq(B) /\ Len(one) = 1 /\ one[1] = {<<"0x80">>}
  BY <1>3
<1>6. zeros \in Seq(B) /\ Len(zeros) = z /\ \A j \in 1 .. z : zeros[j] = {}
  <2>1. zeros \in [1 .. z -> B]
    BY <1>3
  <2>2. QED
    BY <2>1
<1> HIDE DEF word, one, zeros
<1>7. Pad(1 + z) = one \o zeros
  <2>1. Pad(1 + z) \in [1 .. 1 + z -> B]
    BY <1>3 DEF Pad
  <2>2. PICK p \in Seq(B) : p = Pad(1 + z) /\ Len(p) = 1 + z
    BY <2>1
  <2>0. PICK u \in Seq(B), v \in Seq(B) : u = one /\ v = zeros
    BY <1>5, <1>6
  <2>3. /\ u \o v \in Seq(B) /\ Len(u \o v) = Len(u) + Len(v)
        /\ \A j \in 1 .. Len(u) : (u \o v)[j] = u[j]
        /\ \A j \in 1 .. Len(v) : (u \o v)[Len(u) + j] = v[j]
    BY Joins
  <2>4. PICK q \in Seq(B) :
          /\ q = one \o zeros /\ Len(q) = 1 + z /\ q[1] = {<<"0x80">>}
          /\ \A j \in 1 .. z : q[1 + j] = {}
    <3>1. /\ u \o v \in Seq(B) /\ Len(u \o v) = 1 + z
          /\ \A j \in 1 .. 1 : (u \o v)[j] = one[j]
          /\ \A j \in 1 .. z : (u \o v)[1 + j] = zeros[j]
      BY <1>5, <1>6, <2>0, <2>3, ZenonT(30)
    <3>2. (u \o v)[1] = {<<"0x80">>}
      BY <1>5, <3>1
    <3>3. \A j \in 1 .. z : (u \o v)[1 + j] = {}
      BY <1>6, <3>1
    <3>4. QED
      BY <2>0, <3>1, <3>2, <3>3
  <2>5. ASSUME NEW b \in 1 .. 1 + z
        PROVE  p[b] = q[b]
    <3>1. CASE b = 1
      BY <2>2, <2>4, <3>1 DEF Pad
    <3>2. CASE b # 1
      <4>1. PICK j \in 1 .. z : b = 1 + j
        BY <3>2, b - 1 \in 1 .. z
      <4>2. q[b] = {}
        BY <2>4, <4>1
      <4>3. QED
        BY <2>2, <3>2, <4>2 DEF Pad
    <3>3. QED
      BY <3>1, <3>2
  <2>6. p = q
    BY <2>2, <2>4, <2>5, SeqEqual
  <2>7. QED
    BY <2>2, <2>4, <2>6
<1>8. PICK p \in Seq(B) : p = Pad(1 + z)
  <2>1. one \o zeros \in Seq(B)
    BY <1>5, <1>6
  <2>2. QED
    BY <1>7, <2>1
<1>9. ctx.count = CountOf(n)
  BY <1>1 DEF Holds
<1>10. SHA256_Pad(ctx) = SHA256_Update(SHA256_Update(ctx, p), word)
  <2>1. Left(ctx.count) = n % Block
    BY <1>9, LeftOf
  <2>2. QED
    BY <1>2, <1>8, <1>9, <2>1 DEF SHA256_Pad, Pad, word
<1>11. Holds(SHA256_Update(ctx, p), m \o p)
  BY <1>3, UpdateHolds
<1>12. PICK mp \in Seq(B) : mp = m \o p
  <2>1. m \in Seq(B) /\ p \in Seq(B)
    BY <1>3
  <2>2. m \o p \in Seq(B)
    BY <2>1
  <2>3. QED
    BY <2>2
<1>13. Holds(SHA256_Pad(ctx), mp \o word)
  BY <1>4, <1>10, <1>11, <1>12, UpdateHolds
<1>14. mp \o word = Padded(m)
  <2>1. <<((8 * n) \div Word) % Word, (8 * n) % Word>> = CountOf(n)
    BY BitCount DEF CountOf
  <2>2. Padded(m) = ((m \o one) \o zeros) \o word
    BY <1>1, <1>2, <2>1 DEF Padded, one, zeros, word
  <2>3. m \o (one \o zeros) = (m \o one) \o zeros
    BY <1>3, <1>5, <1>6, SMTT(30)
  <2>4. QED
    BY <1>7, <1>8, <1>12, <2>2, <2>3
<1>15. SHA256_Pad(ctx).state = BlocksOf(Padded(m))
  BY <1>13, <1>14 DEF Holds
<1>16. QED
  BY <1>15 DEF SHA256_Final, Sha

-----------------------------------------------------------------------------
(* HMAC.                                                                   *)

(* The key as Hmac uses it.                                                *)
HashKey == IF Len(HmacKey) > Block THEN Sha(HmacKey) ELSE HmacKey

(* hctx has been given m under the key.                                    *)
Keyed(hctx, m) ==
  /\ hctx = [ictx |-> hctx.ictx, octx |-> hctx.octx]
  /\ Holds(hctx.ictx, KeyPad("0x36", HashKey) \o m)
  /\ Holds(hctx.octx, KeyPad("0x5c", HashKey))

(* A padded key is a sequence.                                             *)
LEMMA KeyPadType ==
  ASSUME NEW fill, NEW K
  PROVE  \E B : KeyPad(fill, K) \in Seq(B)
<1> DEFINE p == KeyPad(fill, K)
<1>1. Block \in Nat /\ p = [b \in 1 .. Block |-> p[b]]
  BY Spans DEF KeyPad
<1> HIDE DEF p
<1>2. \A b \in 1 .. Block : p[b] \in {p[j] : j \in 1 .. Block}
  OBVIOUS
<1>3. p \in Seq({p[j] : j \in 1 .. Block})
  BY <1>1, <1>2, SequenceOf
<1>4. QED
  BY <1>3 DEF p

(* A digest is a sequence.                                                 *)
LEMMA DigestType ==
  ASSUME NEW state
  PROVE  \E B : DigestOf(state) \in Seq(B)
<1> DEFINE p == DigestOf(state)
<1>1. DigestLen \in Nat /\ p = [d \in 1 .. DigestLen |-> p[d]]
  BY Sha256Assumption DEF DigestOf
<1> HIDE DEF p
<1>2. \A b \in 1 .. DigestLen : p[b] \in {p[j] : j \in 1 .. DigestLen}
  OBVIOUS
<1>3. p \in Seq({p[j] : j \in 1 .. DigestLen})
  BY <1>1, <1>2, SequenceOf
<1>4. QED
  BY <1>3 DEF p

(* The key is a sequence.                                                  *)
LEMMA HmacKeyType ==
  ASSUME KeyLen \in Nat
  PROVE  \E B : HmacKey \in Seq(B)
<1>1. HmacKey = [j \in 1 .. KeyLen |-> HmacKey[j]]
  BY DEF HmacKey
<1>2. \A b \in 1 .. KeyLen : HmacKey[b] \in {HmacKey[j] : j \in 1 .. KeyLen}
  OBVIOUS
<1>3. QED
  BY <1>1, <1>2, SequenceOf

(* A hash context that is given its first message.                         *)
LEMMA FirstHolds ==
  ASSUME NEW B, NEW s \in Seq(B)
  PROVE  Holds(SHA256_Update(SHA256_Init, s), s)
<1>1. <<>> \in Seq(B) /\ <<>> \o s = s
  OBVIOUS
<1>2. Holds(SHA256_Update(SHA256_Init, s), <<>> \o s)
  BY <1>1, InitHolds, UpdateHolds
<1>3. QED
  BY <1>1, <1>2

(* A new HMAC context has been given nothing, under the key.               *)
LEMMA InitKeyed ==
  ASSUME KeyLen \in Nat
  PROVE  Keyed(HMAC_SHA256_Init(HmacKey), <<>>)
<1> DEFINE h == HMAC_SHA256_Init(HmacKey)
<1>1. PICK A : HmacKey \in Seq(A)
  BY HmacKeyType
<1>2. SHA256_Final(SHA256_Update(SHA256_Init, HmacKey)) = Sha(HmacKey)
  BY <1>1, FirstHolds, FinalIsSha
<1>3. ShortKey(HmacKey) = HashKey
  BY <1>2 DEF ShortKey, HashKey
<1>4. h = [ictx |-> SHA256_Update(SHA256_Init, KeyPad("0x36", HashKey)),
           octx |-> SHA256_Update(SHA256_Init, KeyPad("0x5c", HashKey))]
  BY <1>3 DEF HMAC_SHA256_Init
<1> HIDE DEF h
<1>5. PICK B : KeyPad("0x36", HashKey) \in Seq(B)
  BY KeyPadType
<1>6. PICK C : KeyPad("0x5c", HashKey) \in Seq(C)
  BY KeyPadType
<1>7. Holds(h.ictx, KeyPad("0x36", HashKey))
      /\ Holds(h.octx, KeyPad("0x5c", HashKey))
  BY <1>4, <1>5, <1>6, FirstHolds
<1>8. KeyPad("0x36", HashKey) \o <<>> = KeyPad("0x36", HashKey)
  BY <1>5
<1>9. Keyed(h, <<>>)
  BY <1>4, <1>7, <1>8 DEF Keyed
<1>10. QED
  BY <1>9 DEF h

(* HMAC_SHA256_Update gives the context what is behind the message.        *)
LEMMA KeyedUpdate ==
  ASSUME NEW A, NEW m \in Seq(A), NEW s \in Seq(A), NEW hctx, Keyed(hctx, m)
  PROVE  Keyed(HMAC_SHA256_Update(hctx, s), m \o s)
<1>1. PICK p : p = KeyPad("0x36", HashKey)
  OBVIOUS
<1>2. PICK C : p \in Seq(C)
  BY <1>1, KeyPadType
<1>3. PICK B : p \in Seq(B) /\ m \in Seq(B) /\ s \in Seq(B)
  <2>1. p \in Seq(A \cup C) /\ m \in Seq(A \cup C) /\ s \in Seq(A \cup C)
    BY <1>2, Wider
  <2>2. QED
    BY <2>1
<1>4. Holds(hctx.ictx, p \o m)
  BY <1>1 DEF Keyed
<1>5. PICK q \in Seq(B) : q = p \o m
  <2>1. p \o m \in Seq(B)
    BY <1>3
  <2>2. QED
    BY <2>1
<1>6. Holds(SHA256_Update(hctx.ictx, s), q \o s)
  BY <1>3, <1>4, <1>5, UpdateHolds
<1>7. q \o s = p \o (m \o s)
  BY <1>3, <1>5
<1>8. HMAC_SHA256_Update(hctx, s)
        = [ictx |-> SHA256_Update(hctx.ictx, s), octx |-> hctx.octx]
  BY DEF HMAC_SHA256_Update, Keyed
<1>9. QED
  BY <1>1, <1>6, <1>7, <1>8 DEF Keyed

(* What comes out is HMAC of the message.                                  *)
LEMMA FinalIsHmac ==
  ASSUME NEW A, NEW m \in Seq(A), NEW hctx, Keyed(hctx, m)
  PROVE  HMAC_SHA256_Final(hctx) = Hmac(HmacKey, m)
<1>1. PICK p, q : p = KeyPad("0x36", HashKey) /\ q = KeyPad("0x5c", HashKey)
  OBVIOUS
<1>2. PICK B : p \o m \in Seq(B)
  <2>1. PICK C : p \in Seq(C)
    BY <1>1, KeyPadType
  <2>2. p \in Seq(A \cup C) /\ m \in Seq(A \cup C)
    BY <2>1, Wider
  <2>3. p \o m \in Seq(A \cup C)
    BY <2>2
  <2>4. QED
    BY <2>3
<1>3. PICK d : d = SHA256_Final(hctx.ictx)
  OBVIOUS
<1>4. d = Sha(p \o m)
  BY <1>1, <1>2, <1>3, FinalIsSha DEF Keyed
<1>5. PICK C : q \in Seq(C) /\ d \in Seq(C)
  <2>1. PICK D : q \in Seq(D)
    BY <1>1, KeyPadType
  <2>2. PICK E : d \in Seq(E)
    BY <1>3, DigestType DEF SHA256_Final
  <2>3. q \in Seq(D \cup E) /\ d \in Seq(D \cup E)
    BY <2>1, <2>2, Wider
  <2>4. QED
    BY <2>3
<1>6. Holds(SHA256_Update(hctx.octx, d), q \o d)
  BY <1>1, <1>5, UpdateHolds DEF Keyed
<1>7. SHA256_Final(SHA256_Update(hctx.octx, d)) = Sha(q \o d)
  <2>1. q \o d \in Seq(C)
    BY <1>5
  <2>2. QED
    BY <1>6, <2>1, FinalIsSha
<1>8. Hmac(HmacKey, m) = Sha(q \o Sha(p \o m))
  BY <1>1 DEF Hmac, HashKey
<1>9. QED
  BY <1>3, <1>4, <1>7, <1>8 DEF HMAC_SHA256_Final

-----------------------------------------------------------------------------
(* Calls.                                                                  *)

(* A state that is put together is placed where its stream is.             *)
LEMMA PlacedState ==
  ASSUME NEW iv \in Nonces, NEW n \in Nat,
         NEW a \in [nonce : {iv}, bytectr : {n}, buf : Int],
         NEW b \in Seq(Octet), NEW h,
         HasBlock(a, n)
  PROVE  Placed(iv, [aes_state |-> a, buf |-> b, hctx |-> h], n)
<1> DEFINE c == [aes_state |-> a, buf |-> b, hctx |-> h]
<1>1. c.aes_state = a /\ c.buf = b /\ c.hctx = h
  OBVIOUS
<1> HIDE DEF c
<1>2. c = [aes_state |-> c.aes_state, buf |-> c.buf, hctx |-> c.hctx]
  BY <1>1 DEF c
<1>3. Placed(iv, c, n)
  BY <1>1, <1>2 DEF Placed
<1>4. QED
  BY <1>3 DEF c

(* With nothing cached.                                                    *)
LEMMA ProcessedDoes ==
  ASSUME NEW c, NEW iv, NEW n, Placed(iv, c, n), NEW outbuflen \in Nat,
         NEW inbuf \in Seq(Octet), NEW encrypts
  PROVE  Does(iv, n, inbuf, Processed(c, outbuflen, inbuf, encrypts))
<1> DEFINE r == Processed(c, outbuflen, inbuf, encrypts)
<1>1. PICK m \in 0 .. Len(inbuf) : m = LesserOf(outbuflen, Len(inbuf))
  BY DEF LesserOf
<1>2. PICK taken \in Seq(Octet) : taken = SubSeq(inbuf, 1, m)
  <2>1. SubSeq(inbuf, 1, m) \in Seq(Octet)
    OBVIOUS
  <2>2. QED
    BY <2>1
<1>3. Len(taken) = m /\ \A pos \in 1 .. m : taken[pos] = inbuf[pos]
  BY <1>2
<1>4. PICK stream \in [nonce : Nonces, bytectr : Nat, buf : Int] :
        stream = c.aes_state
  BY DEF Placed
<1>5. /\ iv \in Nonces /\ n \in Nat /\ stream.nonce = iv /\ stream.bytectr = n
      /\ HasBlock(stream, n)
  BY <1>4 DEF Placed
<1>6. r = [state |-> [aes_state |-> Advanced(stream, m),
                      buf |-> SubSeq(inbuf, m + 1, Len(inbuf)),
                      hctx |-> r.state.hctx],
           outbuf |-> StreamBytes(stream, taken), count |-> m]
  BY <1>1, <1>2, <1>4 DEF Processed
<1>7. ASSUME NEW pos \in 1 .. m
      PROVE  /\ StreamBytes(stream, taken)[pos]
                  = Xor(inbuf[pos], KeyByte(iv, n + pos - 1))
             /\ StreamBytes(stream, taken)[pos] \in Octet
  <2>1. PICK ctr \in Nat : ctr = n + pos - 1 /\ ctr >= n
    BY <1>5
  <2>2. BlockAt(stream, ctr) = ctr \div AesBlock
    BY <1>5, <2>1, OwnBlock
  <2>3. StreamBytes(stream, taken)[pos]
          = Xor(taken[pos], Cipherstream(iv, BlockAt(stream, ctr),
                                         ctr % AesBlock))
    BY <1>3, <1>5, <2>1 DEF StreamBytes
  <2>4. StreamBytes(stream, taken)[pos] = Xor(inbuf[pos], KeyByte(iv, ctr))
    BY <1>3, <2>2, <2>3 DEF KeyByte
  <2>5. inbuf[pos] \in Octet
    OBVIOUS
  <2>6. QED
    BY <1>5, <2>1, <2>4, <2>5, XorType
<1>8. StreamBytes(stream, taken) \in Seq(Octet)
      /\ Len(StreamBytes(stream, taken)) = m
  <2>1. StreamBytes(stream, taken) \in [1 .. m -> Octet]
    <3>1. StreamBytes(stream, taken)
            = [pos \in 1 .. m |-> StreamBytes(stream, taken)[pos]]
      BY <1>3 DEF StreamBytes
    <3>2. QED
      BY <1>7, <3>1
  <2>2. QED
    BY <2>1
<1>9. /\ Advanced(stream, m) \in [nonce : {iv}, bytectr : {n + m}, buf : Int]
      /\ HasBlock(Advanced(stream, m), n + m)
  <2>1. CASE m = 0
    <3>1. Advanced(stream, m)
            = [nonce |-> iv, bytectr |-> n + m, buf |-> stream.buf]
      BY <1>5, <2>1 DEF Advanced
    <3>2. n + m = n
      BY <1>5, <2>1
    <3>3. QED
      BY <1>4, <1>5, <3>1, <3>2 DEF HasBlock
  <2>2. CASE m # 0
    <3>1. PICK ctr \in Nat : ctr = n + m - 1 /\ ctr >= n
      BY <1>5, <2>2
    <3>2. BlockAt(stream, ctr) = ctr \div AesBlock
      BY <1>5, <3>1, OwnBlock
    <3>3. ctr \div AesBlock \in Int
      BY Division, AesAssumption
    <3>4. Advanced(stream, m)
            = [nonce |-> iv, bytectr |-> n + m, buf |-> ctr \div AesBlock]
      BY <1>5, <2>2, <3>1, <3>2 DEF Advanced
    <3>0. PICK q \in Nat : q = n + m
      BY <1>5
    <3>5. PICK b \in Int : b = ctr \div AesBlock
      BY <3>3
    <3>6. Advanced(stream, m) = [nonce |-> iv, bytectr |-> q, buf |-> b]
      BY <3>0, <3>4, <3>5
    <3>7. q - 1 = ctr
      BY <1>5, <3>0, <3>1
    <3>8. b = (q - 1) \div AesBlock
      BY <3>5, <3>7
    <3>9. [nonce |-> iv, bytectr |-> q, buf |-> b]
            \in [nonce : {iv}, bytectr : {q}, buf : Int]
      OBVIOUS
    <3>10. HasBlock([nonce |-> iv, bytectr |-> q, buf |-> b], q)
      BY <3>8 DEF HasBlock
    <3>11. QED
      BY <3>0, <3>6, <3>9, <3>10
  <2>3. QED
    BY <2>1, <2>2
<1>10. /\ Placed(iv, r.state, n + m)
       /\ r.state.buf = SubSeq(inbuf, m + 1, Len(inbuf))
  <2>1. SubSeq(inbuf, m + 1, Len(inbuf)) \in Seq(Octet)
    OBVIOUS
  <2>2. r.state = [aes_state |-> Advanced(stream, m),
                   buf |-> SubSeq(inbuf, m + 1, Len(inbuf)),
                   hctx |-> r.state.hctx]
    BY <1>6
  <2>3. n + m \in Nat
    BY <1>5
  <2>4. PICK h : h = r.state.hctx
    OBVIOUS
  <2>5. r.state = [aes_state |-> Advanced(stream, m),
                   buf |-> SubSeq(inbuf, m + 1, Len(inbuf)), hctx |-> h]
    BY <2>2, <2>4
  <2>6. PICK p \in Nat : p = n + m
    BY <2>3
  <2>7. PICK a \in [nonce : {iv}, bytectr : {p}, buf : Int] :
          a = Advanced(stream, m)
    BY <1>9, <2>6
  <2>8. PICK b \in Seq(Octet) : b = SubSeq(inbuf, m + 1, Len(inbuf))
    BY <2>1
  <2>9. HasBlock(a, p)
    BY <1>9, <2>6, <2>7
  <2>10. Placed(iv, [aes_state |-> a, buf |-> b, hctx |-> h], p)
    BY <1>5, <2>9, PlacedState
  <2>11. r.state = [aes_state |-> a, buf |-> b, hctx |-> h]
    BY <2>5, <2>7, <2>8
  <2> HIDE DEF r
  <2>12. QED
    BY <2>6, <2>8, <2>10, <2>11
<1>11. r.outbuf = StreamBytes(stream, taken) /\ r.count = m
  BY <1>6
<1>12. PICK o \in Seq(Octet) : o = r.outbuf /\ Len(o) = m
  BY <1>8, <1>11
<1>13. Gives(iv, n, inbuf, o)
  BY <1>7, <1>11, <1>12 DEF Gives
<1>14. m \in 0 .. Len(o) /\ Len(o) \in 0 .. Len(inbuf)
  BY <1>12
<1> HIDE DEF r
<1>15. Does(iv, n, inbuf, r)
  BY <1>10, <1>11, <1>12, <1>13, <1>14 DEF Does
<1>16. QED
  BY <1>15 DEF r

(* What a concatenation of bytes holds, by place.                          *)
LEMMA Concat ==
  ASSUME NEW s \in Seq(Octet), NEW t \in Seq(Octet)
  PROVE  /\ s \o t \in Seq(Octet) /\ Len(s \o t) = Len(s) + Len(t)
         /\ Len(s) \in Nat /\ Len(t) \in Nat
         /\ \A pos \in 1 .. Len(s) + Len(t) :
              (s \o t)[pos] = IF pos <= Len(s) THEN s[pos] ELSE t[pos - Len(s)]
  BY ConcatProperties

(* a is what the stream made of all of s, and b, after it, of some of t.   *)
InTurn(iv, n, s, t, a, b) ==
  /\ n \in Nat /\ s \in Seq(Octet) /\ t \in Seq(Octet)
  /\ a \in Seq(Octet) /\ b \in Seq(Octet)
  /\ Len(a) = Len(s) /\ Len(b) \in 0 .. Len(t)
  /\ Gives(iv, n, s, a) /\ Gives(iv, n + Len(s), t, b)

(* Then a \o b is what it makes of some of s \o t.                         *)
InOne(iv, n, s, t, a, b) ==
  /\ a \o b \in Seq(Octet)
  /\ Len(a \o b) \in 0 .. Len(s \o t)
  /\ Len(a \o b) = Len(s) + Len(b)
  /\ Gives(iv, n, s \o t, a \o b)
  /\ SubSeq(t, Len(b) + 1, Len(t))
       = SubSeq(s \o t, Len(a \o b) + 1, Len(s \o t))

(* Two calls in turn are one call for both.                                *)
LEMMA Joined ==
  ASSUME NEW iv, NEW n, NEW s, NEW t, NEW a, NEW b, InTurn(iv, n, s, t, a, b)
  PROVE  InOne(iv, n, s, t, a, b)
<1> USE DEF InTurn, InOne
<1>0. Len(s) \in Nat /\ Len(b) \in Nat /\ Len(t) \in Nat
  OBVIOUS
<1>1. /\ a \o b \in Seq(Octet) /\ Len(a \o b) = Len(s) + Len(b)
      /\ Len(s \o t) = Len(s) + Len(t)
      /\ \A pos \in 1 .. Len(s) + Len(b) :
           (a \o b)[pos] = IF pos <= Len(s) THEN a[pos] ELSE b[pos - Len(s)]
      /\ \A pos \in 1 .. Len(s) + Len(t) :
           (s \o t)[pos] = IF pos <= Len(s) THEN s[pos] ELSE t[pos - Len(s)]
  <2>1. /\ a \o b \in Seq(Octet) /\ Len(a \o b) = Len(a) + Len(b)
        /\ \A pos \in 1 .. Len(a) + Len(b) :
             (a \o b)[pos] = IF pos <= Len(a) THEN a[pos] ELSE b[pos - Len(a)]
    BY Concat, Zenon
  <2>2. /\ Len(s \o t) = Len(s) + Len(t)
        /\ \A pos \in 1 .. Len(s) + Len(t) :
             (s \o t)[pos] = IF pos <= Len(s) THEN s[pos] ELSE t[pos - Len(s)]
    BY Concat, Zenon
  <2>3. Len(a) = Len(s)
    OBVIOUS
  <2>4. QED
    BY <2>1, <2>2, <2>3, Zenon
<1>2. ASSUME NEW pos \in 1 .. Len(s) + Len(b)
      PROVE  (a \o b)[pos] = Xor((s \o t)[pos], KeyByte(iv, n + pos - 1))
  <2>1. CASE pos <= Len(s)
    <3>1. (a \o b)[pos] = a[pos] /\ (s \o t)[pos] = s[pos]
      BY <1>0, <1>1, <2>1
    <3>2. QED
      BY <2>1, <3>1 DEF Gives
  <2>2. CASE pos > Len(s)
    <3>1. pos - Len(s) \in 1 .. Len(b)
      BY <1>0, <2>2
    <3>0. PICK j \in 1 .. Len(b) : j = pos - Len(s)
      BY <3>1
    <3>2. (a \o b)[pos] = b[j] /\ (s \o t)[pos] = t[j]
      BY <1>0, <1>1, <2>2, <3>0
    <3>3. n + Len(s) + j - 1 = n + pos - 1
      BY <1>0, <3>0
    <3>4. b[j] = Xor(t[j], KeyByte(iv, n + Len(s) + j - 1))
      BY DEF Gives
    <3>5. QED
      BY <3>2, <3>3, <3>4
  <2>3. QED
    BY <2>1, <2>2, SMTT(30)
<1>3. SubSeq(t, Len(b) + 1, Len(t))
        = SubSeq(s \o t, Len(s) + Len(b) + 1, Len(s \o t))
  BY TailOfSecond
<1>4. Len(s) + Len(b) \in 0 .. Len(s) + Len(t)
  BY <1>0
<1>5. Gives(iv, n, s \o t, a \o b)
  BY <1>1, <1>2 DEF Gives
<1>6. QED
  BY <1>1, <1>3, <1>4, <1>5

(* With something cached: first that, and then, if the cache is empty, the *)
(* fresh bytes.                                                            *)
LEMMA CryptDoes ==
  ASSUME NEW c, NEW iv, NEW n, Placed(iv, c, n), NEW outbuflen \in Nat,
         NEW inbuf \in Seq(Octet), NEW encrypts
  PROVE  Does(iv, n, c.buf \o inbuf, Crypt(c, outbuflen, inbuf, encrypts))
<1> DEFINE r == Crypt(c, outbuflen, inbuf, encrypts)
           empty  == [c EXCEPT !.buf = None]
           cached == Processed(empty, outbuflen, c.buf, encrypts)
           k      == Len(cached.outbuf)
           newlen == Len(c.buf) - k
           fresh  == Processed(cached.state, newlen, inbuf, encrypts)
           all    == c.buf \o inbuf
<1>1. c.buf \in Seq(Octet) /\ n \in Nat
  BY DEF Placed
<1>2. CASE c.buf = None
  <2>1. all = inbuf
    BY <1>2 DEF None
  <2>2. r = Processed(c, outbuflen, inbuf, encrypts)
    BY <1>2 DEF Crypt
  <2>3. QED
    BY <2>1, <2>2, ProcessedDoes
<1>3. CASE c.buf # None
  <2>1. Placed(iv, empty, n)
    <3>1. c = [aes_state |-> c.aes_state, buf |-> c.buf, hctx |-> c.hctx]
      BY DEF Placed
    <3>2. empty = [aes_state |-> c.aes_state, buf |-> <<>>, hctx |-> c.hctx]
      BY <3>1 DEF None
    <3>3. /\ iv \in Nonces /\ n \in Nat
          /\ c.aes_state \in [nonce : {iv}, bytectr : {n}, buf : Int]
          /\ HasBlock(c.aes_state, n)
      BY DEF Placed
    <3>4. <<>> \in Seq(Octet)
      OBVIOUS
    <3>5. PICK a \in [nonce : {iv}, bytectr : {n}, buf : Int],
               b \in Seq(Octet) :
            a = c.aes_state /\ b = <<>>
      BY <3>3, <3>4
    <3>6. PICK h : h = c.hctx
      OBVIOUS
    <3>7. Placed(iv, [aes_state |-> a, buf |-> b, hctx |-> h], n)
      BY <3>3, <3>5, PlacedState
    <3>8. QED
      BY <3>2, <3>5, <3>6, <3>7
  <2>2. Does(iv, n, c.buf, cached)
    BY <1>1, <2>1, ProcessedDoes
  <2>3. /\ k \in 0 .. Len(c.buf) /\ cached.outbuf \in Seq(Octet)
        /\ Placed(iv, cached.state, n + k)
        /\ cached.state.buf = SubSeq(c.buf, k + 1, Len(c.buf))
        /\ Gives(iv, n, c.buf, cached.outbuf)
        /\ cached.count \in 0 .. k
    BY <2>2 DEF Does
  <2>4. newlen \in Nat
    BY <1>1, <2>3
  <2>5. cached = [state |-> cached.state, outbuf |-> cached.outbuf,
                  count |-> cached.count]
    BY DEF Processed
  <2>6. /\ all \in Seq(Octet) /\ Len(all) = Len(c.buf) + Len(inbuf)
        /\ \A pos \in 1 .. Len(c.buf) : all[pos] = c.buf[pos]
        /\ \A pos \in 1 .. Len(inbuf) : all[Len(c.buf) + pos] = inbuf[pos]
    BY <1>1
  <2>7. CASE newlen # 0
    <3>1. r = [cached EXCEPT !.state.buf = @ \o inbuf]
      BY <1>3, <2>7 DEF Crypt
    <3>2. /\ r.outbuf = cached.outbuf /\ r.count = cached.count
          /\ r.state = [cached.state EXCEPT !.buf = @ \o inbuf]
      BY <2>5, <3>1
    <3>3. SubSeq(c.buf, k + 1, Len(c.buf)) \o inbuf
            = SubSeq(all, k + 1, Len(all))
      BY <1>1, <2>3, TailOfFirst
    <3>4. SubSeq(all, k + 1, Len(all)) \in Seq(Octet)
      BY <2>6
    <3>5. /\ Placed(iv, r.state, n + k)
          /\ r.state.buf = SubSeq(all, k + 1, Len(all))
      BY <2>3, <3>2, <3>3, <3>4 DEF Placed
    <3>0. \A pos \in 1 .. k : all[pos] = c.buf[pos]
      BY <1>1, <2>3, <2>6
    <3>6. Gives(iv, n, all, r.outbuf)
      BY <2>3, <3>0, <3>2 DEF Gives
    <3>7. k \in 0 .. Len(all)
      BY <1>1, <2>3, <2>6
    <3>8. QED
      BY <2>3, <3>2, <3>5, <3>6, <3>7 DEF Does
  <2>8. CASE newlen = 0
    <3>1. r = [fresh EXCEPT !.outbuf = cached.outbuf \o @]
      BY <1>3, <2>8 DEF Crypt
    <3>2. fresh = [state |-> fresh.state, outbuf |-> fresh.outbuf,
                   count |-> fresh.count]
      BY DEF Processed
    <3>3. /\ r.outbuf = cached.outbuf \o fresh.outbuf
          /\ r.state = fresh.state /\ r.count = fresh.count
      BY <3>1, <3>2
    <3>4. Does(iv, n + k, inbuf, fresh)
      BY <2>3, <2>4, ProcessedDoes
    <3>5. PICK m \in 0 .. Len(inbuf) : m = Len(fresh.outbuf)
      BY <3>4 DEF Does
    <3>6. /\ fresh.outbuf \in Seq(Octet)
          /\ Placed(iv, r.state, n + k + m)
          /\ r.state.buf = SubSeq(inbuf, m + 1, Len(inbuf))
          /\ Gives(iv, n + k, inbuf, fresh.outbuf)
          /\ r.count \in 0 .. m
      BY <3>3, <3>4, <3>5 DEF Does
    <3>7. k = Len(c.buf)
      BY <1>1, <2>3, <2>8
    <3>8. PICK s \in Seq(Octet), a \in Seq(Octet), b \in Seq(Octet) :
            s = c.buf /\ a = cached.outbuf /\ b = fresh.outbuf
      BY <1>1, <2>3, <3>6
    <3>9. /\ Len(a) = Len(s) /\ Len(b) \in 0 .. Len(inbuf)
          /\ Gives(iv, n, s, a) /\ Gives(iv, n + Len(s), inbuf, b)
      BY <2>3, <3>5, <3>6, <3>7, <3>8
    <3>10. PICK g \in Nat : g = n
      BY <1>1
    <3>11. Gives(iv, g, s, a) /\ Gives(iv, g + Len(s), inbuf, b)
      BY <3>9, <3>10
    <3> HIDE DEF r, empty, cached, k, newlen, fresh
    <3>12. InOne(iv, g, s, inbuf, a, b)
      <4>1. Len(a) = Len(s) /\ Len(b) \in 0 .. Len(inbuf)
        BY <3>9
      <4>2. InTurn(iv, g, s, inbuf, a, b)
        BY <3>11, <4>1 DEF InTurn
      <4>3. QED
        BY <4>2, Joined
    <3>13. Placed(iv, r.state, n + Len(a \o b))
      <4>1. k = Len(s) /\ m = Len(b)
        BY <3>5, <3>7, <3>8
      <4>2. PICK x \in Nat, y \in Nat : x = k /\ y = m
        BY <4>1
      <4>3. Len(a \o b) = x + y
        BY <3>12, <4>1, <4>2 DEF InOne
      <4>4. n + k + m = g + (x + y)
        BY <3>10, <4>2
      <4>5. n + Len(a \o b) = g + (x + y)
        BY <3>10, <4>3
      <4>6. QED
        BY <3>6, <4>4, <4>5
    <3>14. /\ r.outbuf = a \o b
           /\ r.state.buf = SubSeq(s \o inbuf, Len(a \o b) + 1, Len(s \o inbuf))
      BY <3>3, <3>5, <3>6, <3>8, <3>12 DEF InOne
    <3>15. Gives(iv, n, s \o inbuf, a \o b)
      BY <3>10, <3>12 DEF InOne
    <3>16. PICK o : o = a \o b
      OBVIOUS
    <3>17. /\ o \in Seq(Octet) /\ Len(o) \in 0 .. Len(s \o inbuf)
           /\ Gives(iv, n, s \o inbuf, o) /\ Placed(iv, r.state, n + Len(o))
           /\ r.state.buf = SubSeq(s \o inbuf, Len(o) + 1, Len(s \o inbuf))
           /\ r.count \in 0 .. Len(o)
      <4>0. Len(o) = Len(s) + Len(b)
        BY <3>12, <3>16, Zenon DEF InOne
      <4>1. Len(o) = Len(s) + m /\ Len(s) \in Nat
        BY <3>5, <3>8, <4>0
      <4>2. r.count \in 0 .. Len(o)
        BY <3>6, <4>1
      <4>3. QED
        BY <3>12, <3>13, <3>14, <3>15, <3>16, <4>2, Zenon DEF InOne
    <3>18. Does(iv, n, s \o inbuf, r)
      BY <3>14, <3>16, <3>17, Zenon DEF Does
    <3>19. QED
      BY <3>8, <3>18, Zenon DEF r
  <2>9. QED
    BY <2>7, <2>8
<1>4. QED
  BY <1>2, <1>3

(* What of a call goes into the hash: the encrypted side.                  *)
Hashed(all, r, encrypts) ==
  IF encrypts THEN r.outbuf ELSE SubSeq(all, 1, Len(r.outbuf))

(* A call with nothing cached hashes the ciphertext that it made or used.  *)
LEMMA ProcessedHashes ==
  ASSUME NEW c, NEW iv, NEW n, Placed(iv, c, n), NEW outbuflen \in Nat,
         NEW inbuf \in Seq(Octet), NEW encrypts,
         NEW m \in Seq(Octet), Keyed(c.hctx, m)
  PROVE  LET r == Processed(c, outbuflen, inbuf, encrypts)
         IN  Keyed(r.state.hctx, m \o Hashed(inbuf, r, encrypts))
<1> DEFINE r == Processed(c, outbuflen, inbuf, encrypts)
<1>1. PICK k \in 0 .. Len(inbuf) : k = LesserOf(outbuflen, Len(inbuf))
  BY DEF LesserOf
<1>2. PICK taken \in Seq(Octet) : taken = SubSeq(inbuf, 1, k) /\ Len(taken) = k
  <2>1. SubSeq(inbuf, 1, k) \in Seq(Octet) /\ Len(SubSeq(inbuf, 1, k)) = k
    OBVIOUS
  <2>2. QED
    BY <2>1
<1>3. r.outbuf = StreamBytes(c.aes_state, taken)
  BY <1>1, <1>2 DEF Processed
<1>4. r.state.hctx
        = HMAC_SHA256_Update(c.hctx, IF encrypts THEN r.outbuf ELSE taken)
  BY <1>1, <1>2 DEF Processed
<1>5. r.outbuf \in Seq(Octet)
  BY ProcessedDoes DEF Does
<1> HIDE DEF r
<1>6. Len(r.outbuf) = k
  <2>1. DOMAIN r.outbuf = 1 .. k
    BY <1>2, <1>3 DEF StreamBytes
  <2>2. QED
    BY <1>5, <2>1
<1>7. Hashed(inbuf, r, encrypts) = IF encrypts THEN r.outbuf ELSE taken
  BY <1>2, <1>6 DEF Hashed
<1>8. PICK s \in Seq(Octet) : s = Hashed(inbuf, r, encrypts)
  BY <1>5, <1>7
<1>9. Keyed(HMAC_SHA256_Update(c.hctx, s), m \o s)
  BY KeyedUpdate
<1>10. Keyed(r.state.hctx, m \o s)
  BY <1>4, <1>7, <1>8, <1>9
<1>11. QED
  BY <1>8, <1>10 DEF r

(* s and the beginning of t are the beginning of both.                     *)
LEMMA HeadOfJoined ==
  ASSUME NEW s \in Seq(Octet), NEW t \in Seq(Octet), NEW k \in 0 .. Len(t)
  PROVE  s \o SubSeq(t, 1, k) = SubSeq(s \o t, 1, Len(s) + k)
<1>1. PICK u \in Seq(Octet) :
        u = SubSeq(t, 1, k) /\ Len(u) = k /\ \A j \in 1 .. k : u[j] = t[j]
  <2>1. SubSeq(t, 1, k) \in Seq(Octet) /\ Len(SubSeq(t, 1, k)) = k
        /\ \A j \in 1 .. k : SubSeq(t, 1, k)[j] = t[j]
    OBVIOUS
  <2>2. QED
    BY <2>1
<1>2. PICK n \in Nat, l \in Nat : n = Len(s) /\ l = Len(t)
  OBVIOUS
<1>3. PICK v \in Seq(Octet) :
        /\ v = s \o t /\ Len(v) = n + l
        /\ \A j \in 1 .. n : v[j] = s[j]
        /\ \A j \in 1 .. l : v[n + j] = t[j]
  <2>1. /\ s \o t \in Seq(Octet) /\ Len(s \o t) = Len(s) + Len(t)
        /\ \A j \in 1 .. Len(s) : (s \o t)[j] = s[j]
        /\ \A j \in 1 .. Len(t) : (s \o t)[Len(s) + j] = t[j]
    BY Joins
  <2>2. Len(s) = n /\ Len(t) = l
    BY <1>2
  <2>3. /\ s \o t \in Seq(Octet) /\ Len(s \o t) = n + l
        /\ \A j \in 1 .. n : (s \o t)[j] = s[j]
        /\ \A j \in 1 .. l : (s \o t)[n + j] = t[j]
    BY ONLY <2>1, <2>2, ZenonT(30)
  <2>4. QED
    BY ONLY <2>3
<1>4. PICK a \in Seq(Octet) :
        /\ a = s \o u /\ Len(a) = n + k
        /\ \A j \in 1 .. n : a[j] = s[j]
        /\ \A j \in 1 .. k : a[n + j] = u[j]
  <2>1. /\ s \o u \in Seq(Octet) /\ Len(s \o u) = Len(s) + Len(u)
        /\ \A j \in 1 .. Len(s) : (s \o u)[j] = s[j]
        /\ \A j \in 1 .. Len(u) : (s \o u)[Len(s) + j] = u[j]
    BY Joins
  <2>2. Len(s) = n /\ Len(u) = k
    BY <1>1, <1>2
  <2>3. /\ s \o u \in Seq(Octet) /\ Len(s \o u) = n + k
        /\ \A j \in 1 .. n : (s \o u)[j] = s[j]
        /\ \A j \in 1 .. k : (s \o u)[n + j] = u[j]
    BY ONLY <2>1, <2>2, ZenonT(30)
  <2>4. QED
    BY ONLY <2>3
<1>5. PICK b \in Seq(Octet) :
        b = SubSeq(v, 1, n + k) /\ Len(b) = n + k
        /\ \A j \in 1 .. n + k : b[j] = v[j]
  <2>1. n + k \in 0 .. Len(v)
    BY <1>2, <1>3
  <2>2. SubSeq(v, 1, n + k) \in Seq(Octet) /\ Len(SubSeq(v, 1, n + k)) = n + k
        /\ \A j \in 1 .. n + k : SubSeq(v, 1, n + k)[j] = v[j]
    BY <2>1
  <2>3. QED
    BY <2>2
<1>6. ASSUME NEW j \in 1 .. n + k
      PROVE  a[j] = b[j]
  <2>1. CASE j <= n
    BY <1>3, <1>4, <1>5, <2>1, SMTT(30)
  <2>2. CASE j > n
    <3>1. PICK i \in 1 .. k : j = n + i
      BY <2>2, j - n \in 1 .. k
    <3>2. a[j] = u[i] /\ u[i] = t[i]
      BY <1>1, <1>4, <3>1
    <3>3. i \in 1 .. l
      BY <1>2
    <3>4. v[j] = t[i]
      BY <1>3, <3>1, <3>3
    <3>5. QED
      BY <1>5, <3>2, <3>4
  <2>3. QED
    BY <2>1, <2>2
<1>7. a = b
  BY <1>4, <1>5, <1>6, SeqEqual
<1>8. QED
  BY <1>1, <1>2, <1>3, <1>4, <1>5, <1>7

(* Every call hashes the ciphertext that it made or used, cached or fresh. *)
LEMMA CryptHashes ==
  ASSUME NEW c, NEW iv, NEW n, Placed(iv, c, n), NEW outbuflen \in Nat,
         NEW inbuf \in Seq(Octet), NEW encrypts,
         NEW m \in Seq(Octet), Keyed(c.hctx, m)
  PROVE  LET r == Crypt(c, outbuflen, inbuf, encrypts)
         IN  Keyed(r.state.hctx, m \o Hashed(c.buf \o inbuf, r, encrypts))
<1> DEFINE r == Crypt(c, outbuflen, inbuf, encrypts)
           empty  == [c EXCEPT !.buf = None]
           cached == Processed(empty, outbuflen, c.buf, encrypts)
           k      == Len(cached.outbuf)
           newlen == Len(c.buf) - k
           fresh  == Processed(cached.state, newlen, inbuf, encrypts)
<1>1. c.buf \in Seq(Octet) /\ n \in Nat
  BY DEF Placed
<1>2. CASE c.buf = None
  <2>1. c.buf \o inbuf = inbuf
    BY <1>2 DEF None
  <2>2. r = Processed(c, outbuflen, inbuf, encrypts)
    BY <1>2 DEF Crypt
  <2>3. QED
    BY <2>1, <2>2, ProcessedHashes
<1>3. CASE c.buf # None
  <2>1. Placed(iv, empty, n) /\ empty.hctx = c.hctx
    <3>1. c = [aes_state |-> c.aes_state, buf |-> c.buf, hctx |-> c.hctx]
      BY DEF Placed
    <3>2. empty = [aes_state |-> c.aes_state, buf |-> <<>>, hctx |-> c.hctx]
      BY <3>1 DEF None
    <3>3. /\ iv \in Nonces /\ n \in Nat
          /\ c.aes_state \in [nonce : {iv}, bytectr : {n}, buf : Int]
          /\ HasBlock(c.aes_state, n)
      BY DEF Placed
    <3>4. <<>> \in Seq(Octet)
      OBVIOUS
    <3>5. PICK a \in [nonce : {iv}, bytectr : {n}, buf : Int],
               b \in Seq(Octet) :
            a = c.aes_state /\ b = <<>>
      BY <3>3, <3>4
    <3>6. PICK h : h = c.hctx
      OBVIOUS
    <3>7. Placed(iv, [aes_state |-> a, buf |-> b, hctx |-> h], n)
      BY <3>3, <3>5, PlacedState
    <3>8. Placed(iv, empty, n)
      BY <3>2, <3>5, <3>6, <3>7
    <3>9. QED
      BY <3>2, <3>8
  <2>2. Does(iv, n, c.buf, cached)
    BY <1>1, <2>1, ProcessedDoes
  <2>3. k \in 0 .. Len(c.buf) /\ cached.outbuf \in Seq(Octet)
        /\ Placed(iv, cached.state, n + k)
    BY <2>2 DEF Does
  <2>4. newlen \in Nat
    BY <1>1, <2>3
  <2>5. Keyed(cached.state.hctx, m \o Hashed(c.buf, cached, encrypts))
    BY <1>1, <2>1, ProcessedHashes
  <2>6. cached = [state |-> cached.state, outbuf |-> cached.outbuf,
                  count |-> cached.count]
        /\ cached.state = [aes_state |-> cached.state.aes_state,
                           buf |-> cached.state.buf,
                           hctx |-> cached.state.hctx]
    <3>1. cached = [state |-> cached.state, outbuf |-> cached.outbuf,
                    count |-> cached.count]
      BY DEF Processed
    <3> HIDE DEF cached
    <3>2. QED
      BY <2>3, <3>1 DEF Placed
  <2>7. fresh = [state |-> fresh.state, outbuf |-> fresh.outbuf,
                 count |-> fresh.count]
    BY DEF Processed
  <2>8. PICK s \in Seq(Octet), a \in Seq(Octet) : s = c.buf /\ a = cached.outbuf
    BY <1>1, <2>3
  <2>9. newlen # 0 => r = [cached EXCEPT !.state.buf = @ \o inbuf]
    BY <1>3 DEF Crypt
  <2>10. newlen = 0 => r = [fresh EXCEPT !.outbuf = cached.outbuf \o @]
    BY <1>3 DEF Crypt
  <2>11. Does(iv, n + k, inbuf, fresh)
    BY <2>3, <2>4, ProcessedDoes
  <2>12. ASSUME NEW u \in Seq(Octet), Keyed(cached.state.hctx, u)
         PROVE  Keyed(fresh.state.hctx, u \o Hashed(inbuf, fresh, encrypts))
    BY <2>3, <2>4, <2>12, ProcessedHashes
  <2>13. newlen = Len(s) - Len(a) /\ Len(a) \in 0 .. Len(s)
    BY <2>3, <2>8
  <2> HIDE DEF r, empty, cached, k, newlen, fresh
  <2>14. CASE newlen # 0
    <3>1. r.outbuf = a /\ r.state.hctx = cached.state.hctx
      BY <2>6, <2>8, <2>9, <2>14
    <3>2. SubSeq(s \o inbuf, 1, Len(a)) = SubSeq(s, 1, Len(a))
      BY <2>13
    <3>3. Hashed(s \o inbuf, r, encrypts) = Hashed(s, cached, encrypts)
      BY <2>8, <3>1, <3>2 DEF Hashed
    <3>4. QED
      BY <2>5, <2>8, <3>1, <3>3 DEF r
  <2>15. CASE newlen = 0
    <3>1. r.outbuf = a \o fresh.outbuf /\ r.state.hctx = fresh.state.hctx
      BY <2>7, <2>8, <2>10, <2>15
    <3>2. Len(a) = Len(s)
      BY <2>13, <2>15
    <3>3. PICK b \in Seq(Octet) : b = fresh.outbuf /\ Len(b) \in 0 .. Len(inbuf)
      BY <2>11 DEF Does
    <3>4. PICK u \in Seq(Octet) : u = Hashed(s, cached, encrypts)
                                  /\ (encrypts => u = a) /\ (~encrypts => u = s)
      <4>1. SubSeq(s, 1, Len(s)) = s
        BY SubSeqFull
      <4>2. Hashed(s, cached, encrypts) = IF encrypts THEN a ELSE s
        BY <2>8, <3>2, <4>1 DEF Hashed
      <4>3. QED
        BY <4>2
    <3>5. PICK v \in Seq(Octet) : v = Hashed(inbuf, fresh, encrypts)
             /\ (encrypts => v = b) /\ (~encrypts => v = SubSeq(inbuf, 1, Len(b)))
      <4>1. SubSeq(inbuf, 1, Len(b)) \in Seq(Octet)
        BY <3>3
      <4>2. QED
        BY <3>3, <4>1 DEF Hashed
    <3>6. Keyed(cached.state.hctx, m \o u) /\ m \o u \in Seq(Octet)
      BY <2>5, <2>8, <3>4
    <3>7. Keyed(fresh.state.hctx, (m \o u) \o v)
      BY <2>12, <3>5, <3>6
    <3>8. (m \o u) \o v = m \o (u \o v)
      BY SMTT(30)
    <3>9. Hashed(s \o inbuf, r, encrypts) = u \o v
      <4>1. CASE encrypts
        BY <3>1, <3>3, <3>4, <3>5, <4>1 DEF Hashed
      <4>2. CASE ~encrypts
        <5>1. Len(r.outbuf) = Len(s) + Len(b)
          <6>1. Len(a \o b) = Len(a) + Len(b)
            OBVIOUS
          <6>2. QED
            BY <3>1, <3>2, <3>3, <6>1
        <5>2. s \o SubSeq(inbuf, 1, Len(b))
                = SubSeq(s \o inbuf, 1, Len(s) + Len(b))
          BY <3>3, HeadOfJoined
        <5>3. QED
          BY <3>4, <3>5, <4>2, <5>1, <5>2 DEF Hashed
      <4>3. QED
        BY <4>1, <4>2
    <3>10. QED
      BY <2>8, <3>1, <3>7, <3>8, <3>9 DEF r
  <2>16. QED
    BY <2>14, <2>15
<1>4. QED
  BY <1>2, <1>3

-----------------------------------------------------------------------------
(* Runs.                                                                   *)

(* Of all the bytes in src, out is what the stream made of the first, and  *)
(* c, which was made with iv, has the others.                              *)
Streamed(iv, src, out, c) ==
  /\ src \in Seq(Octet) /\ out \in Seq(Octet) /\ Len(out) \in 0 .. Len(src)
  /\ Gives(iv, 0, src, out)
  /\ Placed(iv, c, Len(out))
  /\ c.buf = SubSeq(src, Len(out) + 1, Len(src))

(* A call with more bytes leaves the stream streamed.                      *)
LEMMA Continued ==
  ASSUME NEW iv, NEW src, NEW out, NEW c, NEW more \in Seq(Octet), NEW r,
         Streamed(iv, src, out, c),
         Does(iv, Len(out), c.buf \o more, r)
  PROVE  Streamed(iv, src \o more, out \o r.outbuf, r.state)
<1>1. PICK n \in 0 .. Len(src), s \in Seq(Octet), t \in Seq(Octet),
           b \in Seq(Octet) :
        n = Len(out) /\ s = SubSeq(src, 1, n) /\ t = c.buf \o more
        /\ b = r.outbuf
  <2>1. PICK n \in 0 .. Len(src) : n = Len(out)
    BY DEF Streamed
  <2>2. SubSeq(src, 1, n) \in Seq(Octet)
    BY DEF Streamed
  <2>3. c.buf \o more \in Seq(Octet)
    BY DEF Streamed, Placed
  <2>4. r.outbuf \in Seq(Octet)
    BY DEF Does
  <2>5. QED
    BY <2>1, <2>2, <2>3, <2>4
<1>2. Len(s) = n /\ \A pos \in 1 .. n : s[pos] = src[pos]
  BY <1>1 DEF Streamed
<1>3. PICK a \in Seq(Octet) : a = out
  BY DEF Streamed
<1>4. Gives(iv, 0, s, a)
  BY <1>1, <1>2, <1>3 DEF Gives, Streamed
<1>5. Len(b) \in 0 .. Len(t) /\ Gives(iv, Len(s), t, b)
  BY <1>1, <1>2 DEF Does
<1>6. 0 + Len(s) = Len(s)
  BY <1>1, <1>2
<1>7. InTurn(iv, 0, s, t, a, b)
  BY <1>1, <1>2, <1>3, <1>4, <1>5, <1>6 DEF InTurn
<1>8. InOne(iv, 0, s, t, a, b)
  BY <1>7, Joined
<1>9. s \o t = src \o more
  <2>1. c.buf = SubSeq(src, n + 1, Len(src)) /\ src \in Seq(Octet)
    BY <1>1 DEF Streamed
  <2>2. t = SubSeq(src, n + 1, Len(src)) \o more
    BY <1>1, <2>1
  <2>3. src = s \o SubSeq(src, n + 1, Len(src))
    BY <1>1, <2>1, HeadAndTail
  <2>4. SubSeq(src, n + 1, Len(src)) \in Seq(Octet)
    BY <2>1, HeadAndTail
  <2>5. PICK u \in Seq(Octet) : u = SubSeq(src, n + 1, Len(src))
    BY <2>4
  <2>6. s \o (u \o more) = (s \o u) \o more
    BY SMTT(30)
  <2>7. QED
    BY <2>2, <2>3, <2>5, <2>6
<1>10. Placed(iv, r.state, Len(a \o b))
  <2>1. Placed(iv, r.state, n + Len(b))
    BY <1>1 DEF Does
  <2>2. Len(a \o b) = n + Len(b)
    BY <1>2, <1>8 DEF InOne
  <2>3. QED
    BY <2>1, <2>2
<1>11. r.state.buf = SubSeq(t, Len(b) + 1, Len(t))
  BY <1>1 DEF Does
<1>12. s \o t \in Seq(Octet)
  OBVIOUS
<1>13. Streamed(iv, s \o t, a \o b, r.state)
  BY <1>8, <1>10, <1>11, <1>12 DEF InOne, Streamed
<1>14. QED
  BY <1>1, <1>3, <1>9, <1>13

(* A call to c_encrypt or c_decrypt does.                                  *)
LEMMA CryptContinues ==
  ASSUME NEW iv, NEW src, NEW out, NEW c, NEW more \in Seq(Octet),
         NEW outbuflen \in Nat, NEW encrypts, Streamed(iv, src, out, c)
  PROVE  LET r == Crypt(c, outbuflen, more, encrypts)
         IN  Streamed(iv, src \o more, out \o r.outbuf, r.state)
<1>1. Placed(iv, c, Len(out))
  BY DEF Streamed
<1>2. Does(iv, Len(out), c.buf \o more, Crypt(c, outbuflen, more, encrypts))
  BY <1>1, CryptDoes
<1>3. QED
  BY <1>2, Continued

EncIv == enc.aes_state.nonce

DecIv == dec.aes_state.nonce

EncStreamed == Streamed(EncIv, plain, cipher, enc)

Sent == sent \in 0 .. Len(cipher) /\ (tag = None => sent = Len(cipher))

DecFed == fed \in 0 .. Len(cipher) /\ fed <= sent

DecDecrypts == clear \in Seq(Octet) /\ Len(clear) \in 0 .. fed
               /\ Gives(DecIv, 0, cipher, clear)

DecStreamed == Streamed(DecIv, SubSeq(cipher, 1, fed), clear, dec)

(* c is a c_state, whatever has become of its stream.                      *)
IsState(c) == c = [aes_state |-> c.aes_state, buf |-> c.buf, hctx |-> c.hctx]

Inv ==
  /\ enc = NULL => /\ dec = NULL /\ hbuf = None /\ tag = None
                   /\ plain = None /\ cipher = None /\ sent = 0
                   /\ fed = 0 /\ clear = None /\ verdict = NotAsked
  /\ enc # NULL => EncStreamed /\ Sent
  /\ dec # NULL => /\ IsState(dec) /\ enc # NULL /\ DecFed /\ DecDecrypts
                   /\ verdict = NotAsked => DecStreamed /\ hbuf = None

(* A state knows the iv that it was made with.                             *)
LEMMA OwnIv ==
  ASSUME NEW iv, NEW src, NEW out, NEW c, Streamed(iv, src, out, c)
  PROVE  c.aes_state.nonce = iv /\ IsState(c)
<1>1. c.aes_state \in [nonce : {iv}, bytectr : {Len(out)}, buf : Int]
  BY DEF Streamed, Placed
<1>2. IsState(c)
  BY DEF Streamed, Placed, IsState
<1>3. QED
  BY <1>1, <1>2

(* A placed state is not NULL.                                             *)
LEMMA PlacedNotNull ==
  ASSUME NoState, NEW c, NEW iv, NEW n, Placed(iv, c, n)
  PROVE  c # NULL
<1>1. PICK a, b, h : c = [aes_state |-> a, buf |-> b, hctx |-> h]
  BY DEF Placed
<1>2. QED
  BY <1>1 DEF NoState

(* Init.                                                                   *)
LEMMA InitInv == Init => Inv
  BY DEF Init, Inv

(* What c_initialize gives is placed at the beginning.                     *)
LEMMA Started ==
  ASSUME NEW iv \in Nonces, c_initialize(iv) # NULL
  PROVE  Streamed(iv, None, None, c_initialize(iv))
<1> DEFINE c == c_initialize(iv)
<1>1. /\ c.aes_state = [nonce |-> iv, bytectr |-> 0, buf |-> -1] /\ c.buf = <<>>
      /\ c = [aes_state |-> c.aes_state, buf |-> c.buf, hctx |-> c.hctx]
  BY DEF c_initialize, crypto_aesctr_init, None
<1> HIDE DEF c
<1>2. <<>> \in Seq(Octet) /\ Len(<<>>) = 0
  OBVIOUS
<1>3. Placed(iv, c, 0)
  BY <1>1, <1>2 DEF Placed, HasBlock
<1>4. Gives(iv, 0, <<>>, <<>>)
  BY <1>2 DEF Gives
<1>5. c.buf = SubSeq(<<>>, 0 + 1, 0)
  BY <1>1
<1>6. QED
  BY <1>2, <1>3, <1>4, <1>5 DEF Streamed, None, c

(* c_initialize fails for every iv or for none.                            *)
LEMMA AllOrNone ==
  ASSUME NoState, NEW iv, NEW other, c_initialize(iv) # NULL
  PROVE  c_initialize(other) # NULL
<1>1. \A x : c_initialize(x)
              = IF TestsHold
                THEN [aes_state |-> crypto_aesctr_init(x), buf |-> None,
                      hctx |-> HMAC_SHA256_Init(HmacKey)]
                ELSE NULL
  BY DEF c_initialize
<1>2. QED
  BY <1>1 DEF NoState

(* c_initialize, twice.                                                    *)
LEMMA InitializeInv ==
  ASSUME NoState, Inv, Initialize
  PROVE  Inv'
<1>1. /\ hbuf' = None /\ tag' = None /\ plain' = None /\ cipher' = None
      /\ sent' = 0 /\ fed' = 0 /\ clear' = None /\ verdict' = NotAsked
  BY DEF Inv, Initialize
<1>2. PICK iv \in Nonces, other \in Nonces :
        enc' = c_initialize(iv) /\ dec' = c_initialize(other)
  BY DEF Initialize
<1>3. CASE c_initialize(iv) = NULL
  <2>1. c_initialize(other) = NULL
    BY <1>3, AllOrNone
  <2>2. QED
    BY <1>1, <1>2, <1>3, <2>1 DEF Inv
<1>4. CASE c_initialize(iv) # NULL
  <2>1. Streamed(iv, None, None, enc') /\ Streamed(other, None, None, dec')
    BY <1>2, <1>4, AllOrNone, Started
  <2>2. EncIv' = iv /\ DecIv' = other /\ IsState(dec')
    BY <2>1, OwnIv DEF EncIv, DecIv
  <2>3. EncStreamed'
    BY <1>1, <2>1, <2>2 DEF EncStreamed
  <2>4. SubSeq(None, 1, 0) = None /\ Len(None) = 0 /\ None \in Seq(Octet)
    BY DEF None
  <2>5. DecStreamed'
    BY <1>1, <2>1, <2>2, <2>4 DEF DecStreamed
  <2>6. DecFed' /\ DecDecrypts' /\ Sent'
    BY <1>1, <2>1, <2>2, <2>4 DEF DecFed, DecDecrypts, Streamed, Sent
  <2>7. QED
    BY <1>1, <1>2, <1>4, <2>2, <2>3, <2>5, <2>6 DEF Inv
<1>5. QED
  BY <1>3, <1>4

(* What the encryptor appends to the ciphertext does not concern what was  *)
(* fed of it already.                                                      *)
LEMMA FedStays ==
  ASSUME NEW s \in Seq(Octet), NEW t \in Seq(Octet), NEW n \in 0 .. Len(s)
  PROVE  SubSeq(s \o t, 1, n) = SubSeq(s, 1, n)
  OBVIOUS

(* What the encryptor puts out changes nothing for the decryptor.          *)
LEMMA ProducedInv ==
  ASSUME NoState, Inv, enc # NULL,
         NEW more \in Seq(Octet), NEW out \in Seq(Octet),
         plain' = plain \o more, cipher' = cipher \o out,
         EncStreamed', Sent', sent <= sent',
         UNCHANGED <<dec, fed, clear, hbuf, verdict>>
  PROVE  Inv'
<1>1. enc' # NULL
  BY PlacedNotNull DEF EncStreamed, Streamed
<1>2. PICK s \in Seq(Octet) : s = cipher
  BY DEF Inv, EncStreamed, Streamed
<1>3. ASSUME dec # NULL
      PROVE  /\ DecFed' /\ DecDecrypts'
             /\ verdict' = NotAsked => DecStreamed' /\ hbuf' = None
  <2>1. PICK n \in 0 .. Len(s) : n = fed
    BY <1>2, <1>3 DEF Inv, DecFed
  <2>2. Len(s \o out) = Len(s) + Len(out) /\ Len(s) \in Nat /\ Len(out) \in Nat
    OBVIOUS
  <2>3. SubSeq(s \o out, 1, n) = SubSeq(s, 1, n)
    BY FedStays
  <2>0. fed <= sent /\ sent \in Nat /\ sent' \in Nat
    BY <1>2, <1>3, <2>2 DEF Inv, DecFed, Sent
  <2>4. DecFed'
    BY <1>2, <2>0, <2>1, <2>2 DEF DecFed
  <2>5. PICK d \in Seq(Octet) :
          d = clear /\ Len(d) \in 0 .. n /\ Gives(DecIv, 0, s, d)
    BY <1>2, <1>3, <2>1 DEF Inv, DecDecrypts
  <2>6. \A pos \in 1 .. Len(d) : (s \o out)[pos] = s[pos]
    BY <2>1, <2>5
  <2>7. Gives(DecIv, 0, s \o out, d)
    BY <2>5, <2>6 DEF Gives
  <2>8. DecDecrypts'
    BY <1>2, <2>1, <2>5, <2>7 DEF DecDecrypts, DecIv
  <2>9. verdict' = NotAsked => DecStreamed' /\ hbuf' = None
    BY <1>2, <1>3, <2>1, <2>3 DEF Inv, DecStreamed, DecIv
  <2>10. QED
    BY <2>4, <2>8, <2>9
<1>4. QED
  BY <1>1, <1>3 DEF Inv

(* c_encrypt.                                                              *)
LEMMA EncryptInv ==
  ASSUME NoState, Inv, NEW n \in Nat, NEW outbuflen \in Nat,
         Encrypt(n, outbuflen)
  PROVE  Inv'
<1> DEFINE inbuf == [j \in 1 .. n |-> {<<"plain", Len(plain) + j>>}]
           call  == Crypt(enc, outbuflen, inbuf, TRUE)
<1>1. /\ enc # NULL /\ tag = None /\ tag' = None /\ enc' = call.state
      /\ plain' = plain \o inbuf /\ cipher' = cipher \o call.outbuf
      /\ sent' = sent + Len(call.outbuf)
      /\ UNCHANGED <<dec, fed, clear, hbuf, verdict>>
  BY DEF Encrypt
<1>2. PICK iv : iv = EncIv /\ Streamed(iv, plain, cipher, enc)
  BY <1>1 DEF Inv, EncStreamed
<1>3. PICK l \in Nat : l = Len(plain)
  BY <1>2 DEF Streamed
<1>4. inbuf \in Seq(Octet)
  <2>1. ASSUME NEW j \in 1 .. n
        PROVE  {<<"plain", l + j>>} \in Octet
    <3>1. l + j \in Nat
      OBVIOUS
    <3>2. <<"plain", l + j>> \in Atom
      BY <3>1 DEF Atom
    <3>3. QED
      BY <3>2 DEF Octet
  <2>2. inbuf \in [1 .. n -> Octet]
    BY <1>3, <2>1
  <2>3. QED
    BY <2>2
<1> HIDE DEF inbuf
<1>5. PICK more \in Seq(Octet) : more = inbuf
  BY <1>4
<1>6. Streamed(iv, plain \o more, cipher \o call.outbuf, call.state)
  BY <1>2, <1>5, CryptContinues
<1>7. Does(iv, Len(cipher), enc.buf \o more, call)
  BY <1>2, <1>5, CryptDoes DEF Streamed
<1>8. PICK out \in Seq(Octet) : out = call.outbuf
  BY <1>7 DEF Does
<1> HIDE DEF call
<1>9. EncStreamed'
  BY <1>1, <1>5, <1>6, OwnIv DEF EncStreamed, EncIv
<1>10. plain' = plain \o more /\ cipher' = cipher \o out
  BY <1>1, <1>5, <1>8
<1>11. Sent' /\ sent <= sent'
  <2>1. sent = Len(cipher) /\ cipher \in Seq(Octet)
    BY <1>1, <1>2 DEF Inv, Sent, Streamed
  <2>2. sent' = Len(cipher) + Len(out)
    BY <1>1, <1>8, <2>1
  <2>3. QED
    BY <1>10, <2>1, <2>2, Concat DEF Sent
<1>12. QED
  BY <1>1, <1>9, <1>10, <1>11, ProducedInv

(* A MAC is not empty.                                                     *)
LEMMA FinalNotNone ==
  ASSUME NEW hctx
  PROVE  HMAC_SHA256_Final(hctx) # None
<1>1. PICK ctx : HMAC_SHA256_Final(hctx) = DigestOf(ctx)
  BY DEF HMAC_SHA256_Final, SHA256_Final
<1>2. 1 \in DOMAIN DigestOf(ctx)
  BY Sha256Assumption DEF DigestOf
<1>3. DOMAIN <<>> = {}
  OBVIOUS
<1>4. QED
  BY <1>1, <1>2, <1>3 DEF None

(* What c_encrypt_finalize leaves of its call: a context that is used up   *)
(* when the MAC is written.                                                *)
UsedUp(c, done) == IF done THEN [c EXCEPT !.hctx = NULL] ELSE c

LEMMA UsedUpStreamed ==
  ASSUME NEW iv, NEW src, NEW out, NEW c, Streamed(iv, src, out, c), NEW done
  PROVE  Streamed(iv, src, out, UsedUp(c, done))
<1>1. PICK n : n = Len(out) /\ Placed(iv, c, n)
  BY DEF Streamed
<1>2. c = [aes_state |-> c.aes_state, buf |-> c.buf, hctx |-> c.hctx]
  BY <1>1 DEF Placed
<1>3. /\ iv \in Nonces /\ n \in Nat /\ c.buf \in Seq(Octet)
      /\ c.aes_state \in [nonce : {iv}, bytectr : {n}, buf : Int]
      /\ HasBlock(c.aes_state, n)
  BY <1>1 DEF Placed
<1>4. PICK a \in [nonce : {iv}, bytectr : {n}, buf : Int], b \in Seq(Octet) :
        a = c.aes_state /\ b = c.buf
  BY <1>3
<1>5. PICK h : UsedUp(c, done) = [aes_state |-> a, buf |-> b, hctx |-> h]
  <2>1. [c EXCEPT !.hctx = NULL] = [aes_state |-> a, buf |-> b, hctx |-> NULL]
    BY <1>2, <1>4
  <2>2. QED
    BY <1>2, <1>4, <2>1 DEF UsedUp
<1>6. Placed(iv, UsedUp(c, done), n)
  BY <1>3, <1>4, <1>5, PlacedState
<1>7. UsedUp(c, done).buf = c.buf
  BY <1>4, <1>5
<1>8. QED
  BY <1>1, <1>6, <1>7 DEF Streamed

(* c_encrypt_finalize: what was cached is put out, hashed and counted.     *)
Flushed(r, done) ==
  /\ Streamed(EncIv, plain, cipher \o r.outbuf, r.state)
  /\ r.outbuf \in Seq(Octet) /\ r.count \in 0 .. Len(r.outbuf)
  /\ Keyed(enc.hctx, cipher) => Keyed(r.state.hctx, cipher \o r.outbuf)
  /\ enc' = UsedUp(r.state, done) /\ cipher' = cipher \o r.outbuf
  /\ sent' = sent + IF done THEN r.count ELSE Len(r.outbuf)
  /\ tag' = IF done THEN HMAC_SHA256_Final(r.state.hctx) ELSE None

LEMMA Finalizes ==
  ASSUME Inv, NEW outbuflen \in Nat, EncryptFinalize(outbuflen)
  PROVE  \E r : \E done \in BOOLEAN : Flushed(r, done)
<1> DEFINE call == IF enc.buf = None
                   THEN [state |-> enc, outbuf |-> None, count |-> 0]
                   ELSE Crypt(enc, outbuflen, None, TRUE)
           done == call.state.buf = None /\ outbuflen - call.count > DigestLen
<1>1. /\ enc # NULL /\ enc' = UsedUp(call.state, done)
      /\ cipher' = cipher \o call.outbuf
      /\ sent' = sent + IF done THEN call.count ELSE Len(call.outbuf)
      /\ tag' = IF done THEN HMAC_SHA256_Final(call.state.hctx) ELSE None
  BY DEF EncryptFinalize, UsedUp
<1>2. Streamed(EncIv, plain, cipher, enc)
  BY <1>1 DEF Inv, EncStreamed
<1>3. plain \in Seq(Octet) /\ cipher \in Seq(Octet)
  BY <1>2 DEF Streamed
<1>4. PICK none \in Seq(Octet) :
        none = None /\ plain \o none = plain /\ cipher \o none = cipher
        /\ Len(none) = 0
  <2>1. <<>> \in Seq(Octet) /\ Len(<<>>) = 0
        /\ plain \o <<>> = plain /\ cipher \o <<>> = cipher
    BY <1>3
  <2>2. QED
    BY <2>1 DEF None
<1>5. /\ Streamed(EncIv, plain, cipher \o call.outbuf, call.state)
      /\ call.outbuf \in Seq(Octet) /\ call.count \in 0 .. Len(call.outbuf)
      /\ Keyed(enc.hctx, cipher)
           => Keyed(call.state.hctx, cipher \o call.outbuf)
  <2>1. CASE enc.buf = None
    <3>1. call = [state |-> enc, outbuf |-> none, count |-> 0]
      BY <1>4, <2>1
    <3> HIDE DEF call
    <3>2. call.state = enc /\ call.outbuf = none /\ call.count = 0
      BY <3>1
    <3>3. QED
      BY <1>2, <1>4, <3>2
  <2>2. CASE enc.buf # None
    <3>1. call = Crypt(enc, outbuflen, none, TRUE)
      BY <1>4, <2>2
    <3> HIDE DEF call
    <3>2. Placed(EncIv, enc, Len(cipher))
      BY <1>2 DEF Streamed
    <3>3. Does(EncIv, Len(cipher), enc.buf \o none, call)
      BY <3>1, <3>2, CryptDoes
    <3>4. Streamed(EncIv, plain \o none, cipher \o call.outbuf, call.state)
      BY <1>2, <3>1, CryptContinues
    <3>5. ASSUME Keyed(enc.hctx, cipher)
          PROVE  Keyed(call.state.hctx,
                       cipher \o Hashed(enc.buf \o none, call, TRUE))
      BY <1>3, <3>1, <3>2, <3>5, CryptHashes
    <3>6. QED
      BY <1>4, <3>3, <3>4, <3>5 DEF Does, Hashed
  <2>3. QED
    BY <2>1, <2>2
<1>6. done \in BOOLEAN
  OBVIOUS
<1> HIDE DEF call, done
<1>7. Flushed(call, done)
  BY <1>1, <1>5 DEF Flushed
<1>8. QED
  BY <1>6, <1>7

(* c_encrypt_finalize.                                                     *)
LEMMA EncryptFinalizeInv ==
  ASSUME NoState, Inv, NEW outbuflen \in Nat, EncryptFinalize(outbuflen)
  PROVE  Inv'
<1>1. /\ enc # NULL /\ tag = None
      /\ UNCHANGED <<dec, plain, fed, clear, hbuf, verdict>>
  BY DEF EncryptFinalize
<1>a. PICK r : \E done \in BOOLEAN : Flushed(r, done)
  BY Finalizes
<1>b. PICK done \in BOOLEAN : Flushed(r, done)
  BY <1>a
<1>c. PICK iv : iv = EncIv
  OBVIOUS
<1>2. /\ Streamed(iv, plain, cipher \o r.outbuf, r.state)
      /\ r.outbuf \in Seq(Octet) /\ r.count \in 0 .. Len(r.outbuf)
      /\ enc' = UsedUp(r.state, done) /\ cipher' = cipher \o r.outbuf
      /\ sent' = sent + IF done THEN r.count ELSE Len(r.outbuf)
      /\ tag' = IF done THEN HMAC_SHA256_Final(r.state.hctx) ELSE None
  BY <1>b, <1>c DEF Flushed
<1>3. Streamed(iv, plain, cipher', enc')
  BY <1>2, UsedUpStreamed
<1>4. EncStreamed'
  <2>1. EncIv' = iv
    BY <1>3, OwnIv DEF EncIv
  <2>2. QED
    BY <1>1, <1>3, <2>1, Zenon DEF EncStreamed
<1>0. PICK out \in Seq(Octet) : out = r.outbuf
  BY <1>2
<1>5. PICK n \in 0 .. Len(out) : n = r.count
  BY <1>0, <1>2
<1>6. sent = Len(cipher) /\ cipher \in Seq(Octet) /\ plain \in Seq(Octet)
  BY <1>1 DEF Inv, Sent, EncStreamed, Streamed
<1>7. Sent' /\ sent <= sent'
  <2>1. cipher' = cipher \o out /\ sent' = Len(cipher) + IF done THEN n ELSE Len(out)
    BY <1>0, <1>2, <1>5, <1>6
  <2>2. Len(cipher') = Len(cipher) + Len(out)
    BY <1>6, <2>1, Concat
  <2>3. CASE done
    <3>1. tag' # None
      BY <1>2, <2>3, FinalNotNone
    <3>2. QED
      BY <1>6, <2>1, <2>2, <2>3, <3>1 DEF Sent
  <2>4. CASE ~done
    BY <1>6, <2>1, <2>2, <2>4 DEF Sent
  <2>5. QED
    BY <2>3, <2>4
<1>8. PICK none \in Seq(Octet) : plain' = plain \o none
  <2>1. <<>> \in Seq(Octet) /\ plain \o <<>> = plain
    BY <1>6
  <2>2. QED
    BY <1>1, <2>1
<1>9. QED
  BY <1>0, <1>1, <1>2, <1>4, <1>7, <1>8, ProducedInv

(* c_decrypt.                                                              *)
LEMMA DecryptInv ==
  ASSUME NoState, Inv, NEW n \in Nat, NEW outbuflen \in Nat,
         Decrypt(n, outbuflen)
  PROVE  Inv'
<1> DEFINE inbuf == SubSeq(cipher, fed + 1, fed + n)
           call  == Crypt(dec, outbuflen, inbuf, FALSE)
<1>1. /\ dec # NULL /\ verdict = NotAsked /\ fed + n <= sent
      /\ dec' = call.state /\ clear' = clear \o call.outbuf /\ fed' = fed + n
      /\ UNCHANGED <<enc, plain, cipher, sent, tag, hbuf, verdict>>
  BY DEF Decrypt
<1>2. /\ enc # NULL /\ DecFed /\ DecDecrypts /\ DecStreamed /\ EncStreamed
      /\ Sent /\ hbuf = None
  BY <1>1 DEF Inv
<1>3. PICK s \in Seq(Octet) : s = cipher
  BY <1>2 DEF EncStreamed, Streamed
<1>4. PICK f \in 0 .. Len(s) : f = fed
  BY <1>2, <1>3 DEF DecFed
<1>5. PICK g \in f .. Len(s) : g = f + n
  BY <1>1, <1>2, <1>3, <1>4 DEF Sent
<1>6. PICK more \in Seq(Octet) : more = SubSeq(s, f + 1, g)
  <2>1. SubSeq(s, f + 1, g) \in Seq(Octet)
    OBVIOUS
  <2>2. QED
    BY <2>1
<1>7. more = inbuf
  BY <1>3, <1>4, <1>5, <1>6
<1>8. SubSeq(s, 1, f) \o more = SubSeq(s, 1, g)
  BY <1>6
<1> HIDE DEF inbuf
<1>9. PICK iv : iv = DecIv /\ Streamed(iv, SubSeq(s, 1, f), clear, dec)
  BY <1>2, <1>3, <1>4 DEF DecStreamed
<1>10. Streamed(iv, SubSeq(s, 1, f) \o more, clear \o call.outbuf, call.state)
  BY <1>7, <1>9, CryptContinues
<1> HIDE DEF call
<1>11. Streamed(iv, SubSeq(s, 1, g), clear', dec')
  BY <1>1, <1>8, <1>10
<1>12. cipher' = s /\ fed' = g
  BY <1>1, <1>3, <1>4, <1>5
<1>13. DecStreamed' /\ DecIv' = iv /\ IsState(dec')
  BY <1>11, <1>12, OwnIv DEF DecStreamed, DecIv
<1>14. DecFed'
  BY <1>1, <1>4, <1>5, <1>12 DEF DecFed
<1>15. DecDecrypts'
  <2>1. PICK d \in Seq(Octet) : d = clear'
    BY <1>11 DEF Streamed
  <2>2. Len(SubSeq(s, 1, g)) = g /\ \A pos \in 1 .. g : SubSeq(s, 1, g)[pos] = s[pos]
    OBVIOUS
  <2>3. Len(d) \in 0 .. g /\ Gives(iv, 0, SubSeq(s, 1, g), d)
    BY <1>11, <2>1, <2>2 DEF Streamed
  <2>4. Gives(iv, 0, s, d)
    BY <2>2, <2>3 DEF Gives
  <2>5. QED
    BY <1>12, <1>13, <2>1, <2>3, <2>4 DEF DecDecrypts
<1>16. EncStreamed' /\ Sent' /\ enc' # NULL /\ hbuf' = None
  BY <1>1, <1>2 DEF EncStreamed, EncIv, Sent
<1>17. QED
  BY <1>13, <1>14, <1>15, <1>16 DEF Inv

(* Hashing what is cached does not change the stream of a state.           *)
LEMMA CacheGone ==
  ASSUME NEW c, IsState(c)
  PROVE  /\ CacheHashed(c).aes_state = c.aes_state /\ IsState(CacheHashed(c))
         /\ CacheHashed(c).buf = None
         /\ CacheHashed(c).hctx = HMAC_SHA256_Update(c.hctx, c.buf)
         /\ [c EXCEPT !.buf = None, !.hctx = NULL].aes_state = c.aes_state
         /\ IsState([c EXCEPT !.buf = None, !.hctx = NULL])
<1>1. PICK a, b, h : c = [aes_state |-> a, buf |-> b, hctx |-> h]
  BY DEF IsState
<1>2. ASSUME NEW x
      PROVE  [c EXCEPT !.buf = None, !.hctx = x]
               = [aes_state |-> a, buf |-> None, hctx |-> x]
  <2>1. PICK e : e = None
    OBVIOUS
  <2>2. PICK d : d = [aes_state |-> a, buf |-> e, hctx |-> h]
    OBVIOUS
  <2>3. [c EXCEPT !.buf = e] = d
    BY <1>1, <2>2
  <2>4. [d EXCEPT !.hctx = x] = [aes_state |-> a, buf |-> e, hctx |-> x]
    BY <2>2
  <2>5. [c EXCEPT !.buf = e, !.hctx = x] = [[c EXCEPT !.buf = e] EXCEPT !.hctx = x]
    OBVIOUS
  <2>6. QED
    BY <2>1, <2>3, <2>4, <2>5
<1>3. c.hctx = h /\ c.buf = b /\ c.aes_state = a
  BY <1>1
<1>4. CacheHashed(c)
        = [c EXCEPT !.buf = None, !.hctx = HMAC_SHA256_Update(h, b)]
  BY <1>1, <1>3 DEF CacheHashed
<1>5. PICK y : y = HMAC_SHA256_Update(h, b)
  OBVIOUS
<1>6. CacheHashed(c) = [aes_state |-> a, buf |-> None, hctx |-> y]
  BY <1>2, <1>4, <1>5
<1>7. [c EXCEPT !.buf = None, !.hctx = NULL]
        = [aes_state |-> a, buf |-> None, hctx |-> NULL]
  BY <1>2
<1>8. QED
  BY <1>3, <1>5, <1>6, <1>7 DEF IsState

(* A state is not NULL.                                                    *)
LEMMA StateNotNull ==
  ASSUME NoState, NEW c, IsState(c)
  PROVE  c # NULL
  BY DEF NoState, IsState

(* c_decrypt_finalize, with or without a MAC: what is decrypted stays.     *)
LEMMA ClosedInv ==
  ASSUME Inv, dec # NULL, IsState(dec'), DecIv' = DecIv,
         verdict' # NotAsked, fed' \in fed .. sent,
         UNCHANGED <<enc, plain, cipher, sent, tag, clear>>
  PROVE  Inv'
<1>1. enc # NULL /\ DecFed /\ DecDecrypts /\ EncStreamed /\ Sent
  BY DEF Inv
<1>0. Len(cipher) \in Nat
  BY <1>1 DEF EncStreamed, Streamed
<1>2. DecFed'
  BY <1>0, <1>1 DEF DecFed, Sent
<1>3. DecDecrypts'
  BY <1>0, <1>1 DEF DecDecrypts, DecFed, Sent
<1>4. EncStreamed' /\ Sent' /\ enc' # NULL
  BY <1>1 DEF EncStreamed, EncIv, Sent
<1>5. QED
  BY <1>2, <1>3, <1>4 DEF Inv

(* c_decrypt_finalize with a MAC.                                          *)
LEMMA DecryptFinalizeInv ==
  ASSUME NoState, Inv, DecryptFinalize
  PROVE  Inv'
<1>1. /\ dec # NULL /\ fed' = sent
      /\ dec' = [dec EXCEPT !.buf = None, !.hctx = NULL]
      /\ UNCHANGED <<enc, plain, cipher, sent, tag, clear>>
  BY DEF DecryptFinalize
<1>2. verdict' # NotAsked
  BY DEF DecryptFinalize, Verdicts, NotAsked
<1>3. IsState(dec') /\ DecIv' = DecIv
  BY <1>1, CacheGone DEF Inv, DecIv
<1>4. fed' \in fed .. sent
  BY <1>1 DEF Inv, Sent, DecFed, EncStreamed, Streamed
<1>5. QED
  BY <1>1, <1>2, <1>3, <1>4, ClosedInv

(* c_decrypt_finalize without.                                             *)
LEMMA DecryptFinalizeShortInv ==
  ASSUME NoState, Inv, DecryptFinalizeShort
  PROVE  Inv'
<1>1. /\ dec # NULL /\ dec' = CacheHashed(dec) /\ verdict' = -2 /\ fed' = fed
      /\ UNCHANGED <<enc, plain, cipher, sent, tag, clear>>
  BY DEF DecryptFinalizeShort
<1>2. verdict' # NotAsked
  BY <1>1 DEF NotAsked
<1>3. IsState(dec') /\ DecIv' = DecIv
  BY <1>1, CacheGone DEF Inv, DecIv
<1>4. fed' \in fed .. sent
  BY <1>1 DEF Inv, Sent, DecFed, EncStreamed, Streamed
<1>5. QED
  BY <1>1, <1>2, <1>3, <1>4, ClosedInv

(* Every step.                                                             *)
LEMMA NextInv ==
  ASSUME NoState, MaxIn \in Nat, MaxOut \in Nat, Inv, [Next]_vars
  PROVE  Inv'
<1>1. CASE Initialize
  BY <1>1, InitializeInv
<1>2. ASSUME NEW n \in 0 .. MaxIn, NEW outbuflen \in 0 .. MaxOut,
             Encrypt(n, outbuflen)
      PROVE  Inv'
  <2>1. n \in Nat /\ outbuflen \in Nat
    OBVIOUS
  <2>2. QED
    BY <1>2, <2>1, EncryptInv
<1>3. ASSUME NEW outbuflen \in 0 .. MaxOut, EncryptFinalize(outbuflen)
      PROVE  Inv'
  <2>1. outbuflen \in Nat
    OBVIOUS
  <2>2. QED
    BY <1>3, <2>1, EncryptFinalizeInv
<1>4. ASSUME NEW n \in 0 .. MaxIn, NEW outbuflen \in 0 .. MaxOut,
             Decrypt(n, outbuflen)
      PROVE  Inv'
  <2>1. n \in Nat /\ outbuflen \in Nat
    OBVIOUS
  <2>2. QED
    BY <1>4, <2>1, DecryptInv
<1>5. CASE DecryptFinalize
  BY <1>5, DecryptFinalizeInv
<1>6. CASE DecryptFinalizeShort
  BY <1>6, DecryptFinalizeShortInv
<1>7. CASE UNCHANGED vars
  BY <1>7 DEF vars, Inv, EncIv, DecIv, EncStreamed, Sent, IsState, DecFed,
              DecDecrypts, DecStreamed
<1>8. QED
  BY <1>1, <1>2, <1>3, <1>4, <1>5, <1>6, <1>7 DEF Next

-----------------------------------------------------------------------------
(* The MAC.                                                                *)

(* The decryptor has hashed the ciphertext that it has decrypted; or, when *)
(* c_decrypt_finalize has given up, all that it was fed.                   *)
DecHashed ==
  IF verdict = NotAsked
  THEN Keyed(dec.hctx, SubSeq(cipher, 1, Len(clear)))
  ELSE dec.buf = None /\ Keyed(dec.hctx, SubSeq(cipher, 1, fed))

(* The encryptor has hashed the ciphertext that it has put out. A MAC that *)
(* was written is that of all ciphertext, and so is one that was computed, *)
(* if all of it was left to compute it from.                               *)
Macs ==
  /\ enc # NULL /\ tag = None => Keyed(enc.hctx, cipher)
  /\ dec # NULL /\ hbuf = None => DecHashed
  /\ tag # None => enc # NULL /\ tag = Hmac(HmacKey, cipher)
  /\ hbuf # None => /\ tag # None
                    /\ sent = Len(cipher) => hbuf = Hmac(HmacKey, cipher)

(* Init.                                                                   *)
LEMMA InitMacs == Init => Macs
  BY DEF Init, Macs

(* c_initialize, twice: neither context has been given anything.           *)
LEMMA InitializeMacs ==
  ASSUME KeyLen \in Nat, Inv, Macs, Initialize
  PROVE  Macs'
<1>1. /\ tag = None /\ hbuf = None /\ tag' = None /\ hbuf' = None
      /\ cipher' = <<>> /\ clear' = <<>> /\ verdict' = NotAsked
  BY DEF Inv, Macs, Initialize, None
<1>2. PICK iv, other : enc' = c_initialize(iv) /\ dec' = c_initialize(other)
  BY DEF Initialize
<1>3. ASSUME NEW x, c_initialize(x) # NULL
      PROVE  Keyed(c_initialize(x).hctx, <<>>)
  BY <1>3, InitKeyed DEF c_initialize
<1>4. SubSeq(cipher', 1, Len(clear')) = <<>>
  BY <1>1
<1>5. dec' # NULL => DecHashed'
  BY <1>1, <1>2, <1>3, <1>4 DEF DecHashed
<1>6. QED
  BY <1>1, <1>2, <1>3, <1>5 DEF Macs

(* Ciphertext that is put out later is not what the decryptor has hashed.  *)
LEMMA DecKeyed ==
  ASSUME Inv, Macs, hbuf = None, NEW out \in Seq(Octet),
         cipher' = cipher \o out, UNCHANGED <<dec, fed, clear, hbuf, verdict>>
  PROVE  dec' # NULL /\ hbuf' = None => DecHashed'
<1> SUFFICES ASSUME dec # NULL
             PROVE  DecHashed'
  OBVIOUS
<1>1. EncStreamed /\ DecFed /\ DecDecrypts
  BY DEF Inv
<1>2. PICK s \in Seq(Octet) : s = cipher
  BY <1>1 DEF EncStreamed, Streamed
<1>3. PICK f \in 0 .. Len(s) : f = fed
  BY <1>1, <1>2 DEF DecFed
<1>4. Len(clear) \in 0 .. Len(s)
  <2>1. Len(clear) \in 0 .. f
    BY <1>1, <1>3 DEF DecDecrypts
  <2>2. QED
    BY <2>1
<1>5. /\ SubSeq(s \o out, 1, Len(clear)) = SubSeq(s, 1, Len(clear))
      /\ SubSeq(s \o out, 1, f) = SubSeq(s, 1, f)
  BY <1>4, FedStays
<1>6. DecHashed
  BY DEF Macs
<1>7. QED
  BY <1>2, <1>3, <1>5, <1>6 DEF DecHashed

(* c_encrypt: what comes out is what was hashed.                           *)
LEMMA EncryptMacs ==
  ASSUME NoState, Inv, Macs, NEW n \in Nat, NEW outbuflen \in Nat,
         Encrypt(n, outbuflen)
  PROVE  Macs'
<1> DEFINE inbuf == [j \in 1 .. n |-> {<<"plain", Len(plain) + j>>}]
           call  == Crypt(enc, outbuflen, inbuf, TRUE)
<1>1. /\ enc # NULL /\ tag = None /\ enc' = call.state
      /\ cipher' = cipher \o call.outbuf
      /\ UNCHANGED <<dec, fed, clear, tag, hbuf, verdict>>
  BY DEF Encrypt
<1>2. hbuf = None
  BY <1>1 DEF Macs
<1>3. PICK iv : Streamed(iv, plain, cipher, enc)
  BY <1>1 DEF Inv, EncStreamed
<1>4. /\ Placed(iv, enc, Len(cipher))
      /\ cipher \in Seq(Octet) /\ plain \in Seq(Octet)
  BY <1>3 DEF Streamed
<1>0. Keyed(enc.hctx, cipher)
  BY <1>1 DEF Macs
<1>5. PICK l \in Nat : l = Len(plain)
  BY <1>4
<1>6. inbuf \in Seq(Octet)
  <2>1. ASSUME NEW j \in 1 .. n
        PROVE  {<<"plain", l + j>>} \in Octet
    <3>1. <<"plain", l + j>> \in Atom
      BY l + j \in Nat DEF Atom
    <3>2. QED
      BY <3>1 DEF Octet
  <2>2. inbuf \in [1 .. n -> Octet]
    BY <1>5, <2>1
  <2>3. \A g \in [1 .. n -> Octet] : g \in Seq(Octet)
    OBVIOUS
  <2>4. QED
    BY <2>2, <2>3, Zenon
<1>7. PICK more \in Seq(Octet) : more = inbuf
  BY <1>6
<1> HIDE DEF inbuf
<1>8. Does(iv, Len(cipher), enc.buf \o more, call)
  BY <1>4, <1>7, CryptDoes
<1>9. Keyed(call.state.hctx, cipher \o Hashed(enc.buf \o more, call, TRUE))
  BY <1>0, <1>4, <1>7, CryptHashes
<1> HIDE DEF call
<1>10. Hashed(enc.buf \o more, call, TRUE) = call.outbuf
  BY DEF Hashed
<1>11. Keyed(enc'.hctx, cipher')
  BY <1>1, <1>9, <1>10
<1>12. call.outbuf \in Seq(Octet)
  BY <1>8 DEF Does
<1>13. dec' # NULL /\ hbuf' = None => DecHashed'
  BY <1>1, <1>2, <1>12, DecKeyed
<1>14. QED
  BY <1>1, <1>2, <1>11, <1>13 DEF Macs

(* c_encrypt_finalize: all ciphertext has been hashed when the tag is      *)
(* written, what was cached till then included.                            *)
LEMMA EncryptFinalizeMacs ==
  ASSUME NoState, Inv, Macs, NEW outbuflen \in Nat, EncryptFinalize(outbuflen)
  PROVE  Macs'
<1>1. /\ enc # NULL /\ tag = None
      /\ UNCHANGED <<dec, fed, clear, hbuf, verdict>>
  BY DEF EncryptFinalize
<1>2. hbuf = None /\ Keyed(enc.hctx, cipher)
  BY <1>1 DEF Macs
<1>a. PICK r : \E done \in BOOLEAN : Flushed(r, done)
  BY Finalizes
<1>b. PICK done \in BOOLEAN : Flushed(r, done)
  BY <1>a
<1>3. /\ r.outbuf \in Seq(Octet) /\ Keyed(r.state.hctx, cipher \o r.outbuf)
      /\ enc' = UsedUp(r.state, done) /\ cipher' = cipher \o r.outbuf
      /\ tag' = IF done THEN HMAC_SHA256_Final(r.state.hctx) ELSE None
  BY <1>2, <1>b DEF Flushed
<1>4. PICK iv : Streamed(iv, plain, cipher \o r.outbuf, r.state)
  BY <1>b DEF Flushed
<1>5. cipher' \in Seq(Octet) /\ enc' # NULL
  <2>1. Streamed(iv, plain, cipher', enc')
    BY <1>3, <1>4, UsedUpStreamed
  <2>2. QED
    BY <2>1, PlacedNotNull DEF Streamed
<1>6. HMAC_SHA256_Final(r.state.hctx) = Hmac(HmacKey, cipher')
  BY <1>3, <1>5, FinalIsHmac
<1>7. tag' # None => tag' = Hmac(HmacKey, cipher')
  BY <1>3, <1>6
<1>8. tag' = None => Keyed(enc'.hctx, cipher')
  <2>1. CASE done
    BY <1>3, <2>1, FinalNotNone
  <2>2. CASE ~done
    BY <1>3, <2>2 DEF UsedUp
  <2>3. QED
    BY <2>1, <2>2
<1>9. dec' # NULL /\ hbuf' = None => DecHashed'
  BY <1>1, <1>2, <1>3, DecKeyed
<1>10. QED
  BY <1>1, <1>2, <1>5, <1>7, <1>8, <1>9 DEF Macs

(* The beginning of s, in two pieces.                                      *)
LEMMA TwoPieces ==
  ASSUME NEW s \in Seq(Octet), NEW a \in Nat, NEW g \in Nat, NEW k \in Nat,
         a + k <= g, g <= Len(s)
  PROVE  SubSeq(s, 1, a) \o SubSeq(SubSeq(SubSeq(s, 1, g), a + 1, g), 1, k)
           = SubSeq(s, 1, a + k)
<1>1. PICK w \in Seq(Octet) :
        w = SubSeq(s, 1, g) /\ Len(w) = g /\ \A j \in 1 .. g : w[j] = s[j]
  <2>1. SubSeq(s, 1, g) \in Seq(Octet) /\ Len(SubSeq(s, 1, g)) = g
        /\ \A j \in 1 .. g : SubSeq(s, 1, g)[j] = s[j]
    OBVIOUS
  <2>2. QED
    BY <2>1
<1>2. PICK t \in Seq(Octet) :
        t = SubSeq(w, a + 1, g) /\ w = SubSeq(w, 1, a) \o t
  <2>1. a \in 0 .. Len(w)
    BY <1>1
  <2>2. SubSeq(w, a + 1, Len(w)) \in Seq(Octet)
        /\ w = SubSeq(w, 1, a) \o SubSeq(w, a + 1, Len(w))
    BY <2>1, HeadAndTail
  <2>3. QED
    BY <1>1, <2>2
<1>3. SubSeq(w, 1, a) = SubSeq(s, 1, a)
  BY <1>1
<1>4. PICK u \in Seq(Octet) : u = SubSeq(w, 1, a) /\ Len(u) = a
  <2>1. SubSeq(w, 1, a) \in Seq(Octet) /\ Len(SubSeq(w, 1, a)) = a
    BY <1>1
  <2>2. QED
    BY <2>1
<1>5. Len(t) = g - a
  BY <1>1, <1>2
<1>6. k \in 0 .. Len(t)
  BY <1>5
<1>7. u \o SubSeq(t, 1, k) = SubSeq(w, 1, a + k)
  BY <1>2, <1>4, <1>6, HeadOfJoined
<1>8. SubSeq(w, 1, a + k) = SubSeq(s, 1, a + k)
  BY <1>1
<1>9. QED
  BY <1>1, <1>2, <1>3, <1>4, <1>7, <1>8

(* c_decrypt: what comes out is what was hashed.                           *)
LEMMA DecryptMacs ==
  ASSUME NoState, Inv, Macs, NEW n \in Nat, NEW outbuflen \in Nat,
         Decrypt(n, outbuflen)
  PROVE  Macs'
<1> DEFINE inbuf == SubSeq(cipher, fed + 1, fed + n)
           call  == Crypt(dec, outbuflen, inbuf, FALSE)
<1>1. /\ dec # NULL /\ verdict = NotAsked /\ fed + n <= sent
      /\ dec' = call.state /\ clear' = clear \o call.outbuf /\ fed' = fed + n
      /\ UNCHANGED <<enc, plain, cipher, sent, tag, hbuf, verdict>>
  BY DEF Decrypt
<1>2. EncStreamed /\ Sent /\ DecFed /\ DecStreamed /\ hbuf = None
  BY <1>1 DEF Inv
<1>3. PICK s \in Seq(Octet) : s = cipher
  BY <1>2 DEF EncStreamed, Streamed
<1>4. PICK f \in 0 .. Len(s) : f = fed
  BY <1>2, <1>3 DEF DecFed
<1>5. PICK g \in f .. Len(s) : g = f + n
  BY <1>1, <1>2, <1>3, <1>4 DEF Sent
<1>6. PICK more \in Seq(Octet) : more = SubSeq(s, f + 1, g)
  <2>1. SubSeq(s, f + 1, g) \in Seq(Octet)
    OBVIOUS
  <2>2. QED
    BY <2>1
<1>7. more = inbuf
  BY <1>3, <1>4, <1>5, <1>6
<1> HIDE DEF inbuf
<1>8. PICK u \in Seq(Octet) : u = SubSeq(s, 1, f) /\ Len(u) = f
  <2>1. SubSeq(s, 1, f) \in Seq(Octet) /\ Len(SubSeq(s, 1, f)) = f
    OBVIOUS
  <2>2. QED
    BY <2>1
<1>9. u \o more = SubSeq(s, 1, g)
  BY <1>6, <1>8
<1>10. PICK iv : Streamed(iv, u, clear, dec)
  BY <1>2, <1>3, <1>4, <1>8 DEF DecStreamed
<1>11. PICK d \in Seq(Octet), a \in 0 .. f : d = clear /\ a = Len(d)
  BY <1>8, <1>10 DEF Streamed
<1>12. Placed(iv, dec, a) /\ dec.buf = SubSeq(u, a + 1, Len(u))
  BY <1>10, <1>11 DEF Streamed
<1>13. dec.buf \o more = SubSeq(SubSeq(s, 1, g), a + 1, g)
  <2>1. a \in 0 .. Len(u)
    BY <1>8
  <2>2. SubSeq(u, a + 1, Len(u)) \o more
          = SubSeq(u \o more, a + 1, Len(u \o more))
    BY <2>1, TailOfFirst
  <2>3. Len(SubSeq(s, 1, g)) = g
    OBVIOUS
  <2>4. QED
    BY <1>9, <1>12, <2>2, <2>3
<1>14. Does(iv, a, dec.buf \o more, call)
  BY <1>7, <1>12, CryptDoes
<1>15. PICK b \in Seq(Octet), k \in 0 .. Len(dec.buf \o more) :
         b = call.outbuf /\ k = Len(b)
  BY <1>14 DEF Does
<1>16. k \in Nat /\ a + k <= g
  <2>1. Len(dec.buf \o more) = g - a
    BY <1>13
  <2>2. k \in 0 .. g - a
    BY <1>15, <2>1
  <2>3. QED
    BY <2>2
<1>17. PICK h \in Seq(Octet) : h = SubSeq(s, 1, a)
  <2>1. SubSeq(s, 1, a) \in Seq(Octet)
    OBVIOUS
  <2>2. QED
    BY <2>1
<1>18. Keyed(dec.hctx, h)
  BY <1>1, <1>2, <1>3, <1>11, <1>17 DEF Macs, DecHashed
<1>19. Keyed(call.state.hctx, h \o Hashed(dec.buf \o more, call, FALSE))
  BY <1>7, <1>12, <1>18, CryptHashes
<1> HIDE DEF call
<1>20. Hashed(dec.buf \o more, call, FALSE)
         = SubSeq(SubSeq(SubSeq(s, 1, g), a + 1, g), 1, k)
  BY <1>13, <1>15 DEF Hashed
<1>21. h \o Hashed(dec.buf \o more, call, FALSE) = SubSeq(s, 1, a + k)
  <2>1. a \in Nat /\ g \in Nat /\ g <= Len(s)
    OBVIOUS
  <2>2. SubSeq(s, 1, a)
          \o SubSeq(SubSeq(SubSeq(s, 1, g), a + 1, g), 1, k)
          = SubSeq(s, 1, a + k)
    BY <1>16, <2>1, TwoPieces, SMTT(30)
  <2>3. QED
    BY <1>17, <1>20, <2>2
<1>22. Len(clear') = a + k
  BY <1>1, <1>11, <1>15
<1>23. Keyed(dec'.hctx, SubSeq(cipher', 1, Len(clear')))
  BY <1>1, <1>3, <1>19, <1>21, <1>22
<1>24. DecHashed'
  BY <1>1, <1>23 DEF DecHashed
<1>25. QED
  BY <1>1, <1>24 DEF Macs

(* Hashing what is cached, undecrypted, brings the decryptor to the end of *)
(* what it was fed.                                                        *)
LEMMA CacheKeyed ==
  ASSUME Inv, Macs, dec # NULL, hbuf = None
  PROVE  Keyed(CacheHashed(dec).hctx, SubSeq(cipher, 1, fed))
<1>1. EncStreamed /\ DecFed /\ IsState(dec) /\ DecHashed
  BY DEF Inv, Macs
<1>2. PICK s \in Seq(Octet) : s = cipher
  BY <1>1 DEF EncStreamed, Streamed
<1>3. PICK f \in 0 .. Len(s) : f = fed
  BY <1>1, <1>2 DEF DecFed
<1>4. PICK u \in Seq(Octet) : u = SubSeq(s, 1, f) /\ Len(u) = f
  <2>1. SubSeq(s, 1, f) \in Seq(Octet) /\ Len(SubSeq(s, 1, f)) = f
    OBVIOUS
  <2>2. QED
    BY <2>1
<1>5. CacheHashed(dec).hctx = HMAC_SHA256_Update(dec.hctx, dec.buf)
  BY <1>1, CacheGone
<1>6. CASE verdict = NotAsked
  <2>1. PICK iv : Streamed(iv, u, clear, dec)
    BY <1>2, <1>3, <1>4, <1>6 DEF Inv, DecStreamed
  <2>2. PICK d \in Seq(Octet), a \in 0 .. f : d = clear /\ a = Len(d)
    BY <1>4, <2>1 DEF Streamed
  <2>3. PICK t \in Seq(Octet) : t = dec.buf /\ u = SubSeq(u, 1, a) \o t
    <3>1. dec.buf = SubSeq(u, a + 1, Len(u))
      BY <2>1, <2>2 DEF Streamed
    <3>2. a \in 0 .. Len(u)
      BY <1>4
    <3>3. SubSeq(u, a + 1, Len(u)) \in Seq(Octet)
          /\ u = SubSeq(u, 1, a) \o SubSeq(u, a + 1, Len(u))
      BY <3>2, HeadAndTail
    <3>4. QED
      BY <3>1, <3>3
  <2>4. PICK h \in Seq(Octet) : h = SubSeq(s, 1, a) /\ u = h \o t
    <3>1. SubSeq(s, 1, a) \in Seq(Octet) /\ SubSeq(u, 1, a) = SubSeq(s, 1, a)
      BY <1>4
    <3>2. QED
      BY <2>3, <3>1
  <2>5. Keyed(dec.hctx, h)
    BY <1>1, <1>2, <1>6, <2>2, <2>4 DEF DecHashed
  <2>6. Keyed(HMAC_SHA256_Update(dec.hctx, t), u)
    BY <2>4, <2>5, KeyedUpdate
  <2>7. QED
    BY <1>2, <1>3, <1>4, <1>5, <2>3, <2>6
<1>7. CASE verdict # NotAsked
  <2>1. PICK none \in Seq(Octet) : none = None /\ u \o none = u
    <3>1. <<>> \in Seq(Octet) /\ u \o <<>> = u
      OBVIOUS
    <3>2. QED
      BY <3>1 DEF None
  <2>2. dec.buf = none /\ Keyed(dec.hctx, u)
    BY <1>1, <1>2, <1>3, <1>4, <1>7, <2>1 DEF DecHashed
  <2>3. Keyed(HMAC_SHA256_Update(dec.hctx, none), u)
    BY <2>1, <2>2, KeyedUpdate
  <2>4. QED
    BY <1>2, <1>3, <1>4, <1>5, <2>2, <2>3
<1>8. QED
  BY <1>6, <1>7

(* c_decrypt_finalize: the bytes still cached and those not fed are hashed *)
(* too.                                                                    *)
LEMMA DecryptFinalizeMacs ==
  ASSUME NoState, Inv, Macs, DecryptFinalize
  PROVE  Macs'
<1>1. PICK rest, hctx :
        /\ rest = SubSeq(cipher, fed + 1, sent)
        /\ hctx = HMAC_SHA256_Update(CacheHashed(dec).hctx, rest)
        /\ hbuf' = HMAC_SHA256_Final(hctx)
  BY DEF DecryptFinalize
<1>2. /\ dec # NULL /\ hbuf = None /\ tag # None
      /\ UNCHANGED <<enc, cipher, sent, tag>>
  BY DEF DecryptFinalize
<1>3. EncStreamed /\ DecFed
  BY <1>2 DEF Inv
<1>4. PICK s \in Seq(Octet) : s = cipher
  BY <1>3 DEF EncStreamed, Streamed
<1>5. PICK f \in 0 .. Len(s) : f = fed
  BY <1>3, <1>4 DEF DecFed
<1>6. ASSUME sent = Len(s)
      PROVE  hbuf' = Hmac(HmacKey, s)
  <2>1. PICK u \in Seq(Octet) : u = SubSeq(s, 1, f)
    <3>1. SubSeq(s, 1, f) \in Seq(Octet)
      OBVIOUS
    <3>2. QED
      BY <3>1
  <2>2. PICK e \in Seq(Octet) : e = rest /\ s = u \o e
    <3>1. SubSeq(s, f + 1, Len(s)) \in Seq(Octet)
          /\ s = SubSeq(s, 1, f) \o SubSeq(s, f + 1, Len(s))
      BY HeadAndTail
    <3>2. rest = SubSeq(s, f + 1, Len(s))
      BY <1>1, <1>4, <1>5, <1>6
    <3>3. QED
      BY <2>1, <3>1, <3>2
  <2>3. Keyed(CacheHashed(dec).hctx, u)
    BY <1>2, <1>4, <1>5, <2>1, CacheKeyed
  <2>4. Keyed(hctx, s)
    BY <1>1, <2>2, <2>3, KeyedUpdate
  <2>5. QED
    BY <1>1, <2>4, FinalIsHmac
<1>7. hbuf' # None
  BY <1>1, FinalNotNone
<1>8. QED
  BY <1>2, <1>4, <1>6, <1>7 DEF Macs

(* c_decrypt_finalize without a MAC: what was fed has been hashed.         *)
LEMMA DecryptFinalizeShortMacs ==
  ASSUME NoState, Inv, Macs, DecryptFinalizeShort
  PROVE  Macs'
<1>1. /\ dec # NULL /\ hbuf = None /\ dec' = CacheHashed(dec) /\ verdict' = -2
      /\ UNCHANGED <<enc, cipher, sent, tag, fed, hbuf>>
  BY DEF DecryptFinalizeShort
<1>2. dec'.buf = None
  BY <1>1, CacheGone DEF Inv
<1>3. Keyed(dec'.hctx, SubSeq(cipher', 1, fed'))
  BY <1>1, CacheKeyed
<1>4. verdict' # NotAsked
  BY <1>1 DEF NotAsked
<1>5. DecHashed'
  BY <1>2, <1>3, <1>4 DEF DecHashed
<1>6. QED
  BY <1>1, <1>5 DEF Macs

(* Every step.                                                             *)
LEMMA NextMacs ==
  ASSUME NoState, KeyLen \in Nat, MaxIn \in Nat, MaxOut \in Nat,
         Inv, Macs, [Next]_vars
  PROVE  Macs'
<1>1. CASE Initialize
  BY <1>1, InitializeMacs
<1>2. ASSUME NEW n \in 0 .. MaxIn, NEW outbuflen \in 0 .. MaxOut,
             Encrypt(n, outbuflen)
      PROVE  Macs'
  <2>1. n \in Nat /\ outbuflen \in Nat
    OBVIOUS
  <2>2. QED
    BY <1>2, <2>1, EncryptMacs
<1>3. ASSUME NEW outbuflen \in 0 .. MaxOut, EncryptFinalize(outbuflen)
      PROVE  Macs'
  <2>1. outbuflen \in Nat
    OBVIOUS
  <2>2. QED
    BY <1>3, <2>1, EncryptFinalizeMacs
<1>4. ASSUME NEW n \in 0 .. MaxIn, NEW outbuflen \in 0 .. MaxOut,
             Decrypt(n, outbuflen)
      PROVE  Macs'
  <2>1. n \in Nat /\ outbuflen \in Nat
    OBVIOUS
  <2>2. QED
    BY <1>4, <2>1, DecryptMacs
<1>5. CASE DecryptFinalize
  BY <1>5, DecryptFinalizeMacs
<1>6. CASE DecryptFinalizeShort
  BY <1>6, DecryptFinalizeShortMacs
<1>7. CASE UNCHANGED vars
  BY <1>7 DEF vars, Macs, DecHashed
<1>8. QED
  BY <1>1, <1>2, <1>3, <1>4, <1>5, <1>6, <1>7 DEF Next

(* In every run each stream is in its place, under its own iv, and both    *)
(* hash contexts have been given the ciphertext up to there; after a       *)
(* refusal for a missing MAC the decryptor's has been given all that it    *)
(* was fed (c_encrypt and c_decrypt, crypto_wrapper.c:74, 127;             *)
(* c_decrypt_finalize, crypto_wrapper.c:201).                              *)
THEOREM Invariance ==
  ASSUME NoState, KeyLen \in Nat, MaxIn \in Nat, MaxOut \in Nat
  PROVE  Spec => [](Inv /\ Macs)
<1>1. Inv /\ Macs /\ [Next]_vars => (Inv /\ Macs)'
  BY NextInv, NextMacs
<1>2. QED
  BY <1>1, InitInv, InitMacs, PTL DEF Spec

(* The MAC that would come out at any moment, and the one that did, is     *)
(* HMAC of the ciphertext that was put out, for every key, block, digest   *)
(* and word of the bit count: gathering, counting and padding are the      *)
(* definition's, wherever the calls cut (SHA256_Update, sha256.c:231;      *)
(* SHA256_Pad, sha256.c:190).                                              *)
THEOREM Mac ==
  ASSUME NoState, KeyLen \in Nat, MaxIn \in Nat, MaxOut \in Nat
  PROVE  Spec => []MacOfCiphertext
<1>1. Inv /\ Macs => MacOfCiphertext
  <2> SUFFICES ASSUME Inv, Macs, enc # NULL
               PROVE  Hmac(HmacKey, cipher)
                        = IF tag = None THEN HMAC_SHA256_Final(enc.hctx)
                                        ELSE tag
    BY DEF MacOfCiphertext
  <2>1. CASE tag = None
    <3>1. cipher \in Seq(Octet) /\ Keyed(enc.hctx, cipher)
      BY <2>1 DEF Inv, Macs, EncStreamed, Streamed
    <3>2. QED
      BY <2>1, <3>1, FinalIsHmac
  <2>2. CASE tag # None
    BY <2>2 DEF Macs
  <2>3. QED
    BY <2>1, <2>2
<1>2. QED
  BY <1>1, Invariance, PTL

(* Both ends compute one MAC, however each cuts the stream, unless the     *)
(* encryptor's was written over the ciphertext that c_encrypt_finalize had *)
(* just put out (c_decrypt_finalize, crypto_wrapper.c:201; the exception,  *)
(* crypto_wrapper.c:187).                                                  *)
THEOREM Agree ==
  ASSUME NoState, KeyLen \in Nat, MaxIn \in Nat, MaxOut \in Nat
  PROVE  Spec => []TagsAgree
<1>1. Macs => TagsAgree
  BY DEF Macs, TagsAgree
<1>2. QED
  BY <1>1, Invariance, PTL

(* The encryptor, in every run: the ciphertext is that of a prefix of the  *)
(* input, byte by byte with its own place in the cipherstream of its iv,   *)
(* and the rest is cached (c_encrypt, crypto_wrapper.c:74).                *)
THEOREM InOrder ==
  ASSUME NoState, MaxIn \in Nat, MaxOut \in Nat
  PROVE  Spec => []EncryptsInOrder
<1>1. Inv => EncryptsInOrder
  <2> SUFFICES ASSUME Inv, enc # NULL
               PROVE  /\ \A c \in 1 .. Len(cipher) : cipher[c] = Encrypted(c)
                      /\ enc.buf = SubSeq(plain, Len(cipher) + 1, Len(plain))
    BY DEF EncryptsInOrder
  <2>1. Streamed(EncIv, plain, cipher, enc)
    BY DEF Inv, EncStreamed
  <2>2. ASSUME NEW c \in 1 .. Len(cipher)
        PROVE  cipher[c] = Encrypted(c)
    <3>1. cipher[c] = Xor(plain[c], KeyByte(EncIv, 0 + c - 1))
      BY <2>1 DEF Streamed, Gives
    <3>2. c \in Int
      OBVIOUS
    <3>3. 0 + c - 1 = c - 1
      BY <3>2
    <3>4. QED
      BY <3>1, <3>3 DEF KeyByte, Encrypted, EncIv
  <2>3. QED
    BY <2>1, <2>2 DEF Streamed
<1>2. QED
  BY InitInv, NextInv, <1>1, PTL DEF Spec

(* What is xored with two atoms is as it was exactly if they are one.      *)
LEMMA XorWithTwo ==
  ASSUME NEW p, NEW x, NEW y
  PROVE  Xor(Xor(p, {x}), {y}) = p <=> x = y
<1>1. CASE x = y
  BY <1>1, XorTwice
<1>2. CASE x # y
  <2>1. y \in Xor(Xor(p, {x}), {y}) <=> y \notin p
    BY <1>2 DEF Xor
  <2>2. QED
    BY <1>2, <2>1
<1>3. QED
  BY <1>1, <1>2

(* The decryptor, cutting the ciphertext in other places, keeps its place: *)
(* it has cached the rest of what it was fed, and what it put out is the   *)
(* input from its beginning exactly if it drew the encryptor's iv, and     *)
(* otherwise differs from it in every byte (c_decrypt,                     *)
(* crypto_wrapper.c:127; c_initialize, crypto_wrapper.c:40).               *)
THEOREM Back ==
  ASSUME NoState, MaxIn \in Nat, MaxOut \in Nat
  PROVE  Spec => []DecryptsBack
<1>1. Inv => DecryptsBack
  <2> SUFFICES ASSUME Inv, dec # NULL
               PROVE  /\ \A c \in 1 .. Len(clear) :
                            clear[c] = plain[c] <=> DecIv = EncIv
                      /\ verdict = NotAsked => Len(clear) + Len(dec.buf) = fed
    BY DEF DecryptsBack, DecIv, EncIv
  <2>1. Streamed(EncIv, plain, cipher, enc) /\ DecFed /\ DecDecrypts
    BY DEF Inv, EncStreamed
  <2>2. ASSUME NEW c \in 1 .. Len(clear)
        PROVE  clear[c] = plain[c] <=> DecIv = EncIv
    <3>1. clear[c] = Xor(cipher[c], KeyByte(DecIv, 0 + c - 1))
      BY <2>1 DEF DecDecrypts, Gives
    <3>2. c \in 1 .. Len(cipher)
      BY <2>1 DEF DecDecrypts, DecFed, Streamed
    <3>3. cipher[c] = Xor(plain[c], KeyByte(EncIv, 0 + c - 1))
      BY <2>1, <3>2 DEF Streamed, Gives
    <3>4. PICK k, m :
            \A iv : KeyByte(iv, 0 + c - 1) = {<<"aes", iv, k, m>>}
      BY DEF KeyByte, Cipherstream
    <3>5. PICK p, x, y : /\ p = plain[c]
                         /\ x = <<"aes", EncIv, k, m>>
                         /\ y = <<"aes", DecIv, k, m>>
      OBVIOUS
    <3>6. x = y <=> DecIv = EncIv
      BY <3>5
    <3>7. Xor(Xor(p, {x}), {y}) = p <=> x = y
      BY XorWithTwo, Zenon
    <3>8. clear[c] = Xor(Xor(p, {x}), {y})
      BY <3>1, <3>3, <3>4, <3>5
    <3>9. QED
      BY <3>5, <3>6, <3>7, <3>8
  <2>3. ASSUME verdict = NotAsked
        PROVE  Len(clear) + Len(dec.buf) = fed
    <3>1. PICK iv : Streamed(iv, SubSeq(cipher, 1, fed), clear, dec)
      BY <2>3 DEF Inv, DecStreamed
    <3>0. PICK s \in Seq(Octet) : s = cipher
      BY <2>1 DEF Streamed
    <3>2. PICK f \in 0 .. Len(s) : f = fed
      BY <2>1, <3>0 DEF DecFed
    <3>3. SubSeq(s, 1, f) \in Seq(Octet) /\ Len(SubSeq(s, 1, f)) = f
      OBVIOUS
    <3>4. PICK u \in Seq(Octet) : u = SubSeq(s, 1, f) /\ Len(u) = f
      BY <3>3
    <3>5. PICK d \in Seq(Octet) : d = clear
      BY <3>1 DEF Streamed
    <3>6. Len(d) \in 0 .. Len(u) /\ dec.buf = SubSeq(u, Len(d) + 1, Len(u))
      BY <3>0, <3>1, <3>2, <3>4, <3>5 DEF Streamed
    <3>7. Len(dec.buf) = Len(u) - Len(d)
      BY <3>6
    <3>8. QED
      BY <3>2, <3>4, <3>5, <3>6, <3>7
  <2>4. QED
    BY <2>2, <2>3
<1>2. QED
  BY InitInv, NextInv, <1>1, PTL DEF Spec
=============================================================================
