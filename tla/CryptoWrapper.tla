--------------------------- MODULE CryptoWrapper ---------------------------
(***************************************************************************)
(* Streaming encryption with a MAC (src/src/crypto_wrapper.c): c_encrypt   *)
(* and c_decrypt take any number of bytes, give back as many as the output *)
(* buffer has room for, and keep the others for the next call. Here one    *)
(* state encrypts, and another decrypts what the first has left in its     *)
(* output buffers. Each drew an iv of its own when it was made, and none   *)
(* is ever given out. malloc does not fail.                                *)
(***************************************************************************)
EXTENDS Sha256, AesCtr

CONSTANTS
  NULL,
  Nonces,        (* what /dev/random may give for an iv                    *)
  KeyLen,        (* bytes of the key that are for the MAC: 32              *)
  MaxPlain,      (* bytes that are encrypted                               *)
  MaxIn,         (* bytes given to a call                                  *)
  MaxOut,        (* room in a call's output buffer                         *)
  TestsHold      (* FALSE: c_initialize as it is, which always gives NULL. *)
                 (* TRUE: its tests are about what fread and               *)
                 (* AES_set_encrypt_key return.                            *)

VARIABLES
  enc, dec,      (* a c_state each, or NULL                                *)
  plain,         (* what was given to c_encrypt                            *)
  cipher,        (* what c_encrypt has put into output buffers             *)
  sent,          (* how much of it is there still, in front of the MAC     *)
  tag,           (* the MAC that c_encrypt_finalize wrote                  *)
  fed,           (* how much was given to c_decrypt                        *)
  clear,         (* what c_decrypt has put into output buffers             *)
  hbuf,          (* the MAC that c_decrypt_finalize computed               *)
  verdict        (* what c_decrypt_finalize has returned                   *)

vars == <<enc, dec, plain, cipher, sent, tag, fed, clear, hbuf, verdict>>

None == <<>>

NotAsked == 1    (* verdict, before c_decrypt_finalize is called           *)

HmacKey == [k \in 1 .. KeyLen |-> {<<"key", k>>}]

LesserOf(a, b) == IF a < b THEN a ELSE b

-----------------------------------------------------------------------------
(* c_initialize, with the iv that it read: fread gives the 1 item that it  *)
(* was asked for, not its size; AES_set_encrypt_key gives 0 when it        *)
(* succeeds.                                                               *)
c_initialize(iv) ==
  LET freadTest == IF TestsHold THEN 1 ELSE 8
      setKeyOk  == IF TestsHold THEN 0 ELSE 1
  IN  IF 1 # freadTest \/ 0 # setKeyOk
      THEN NULL
      ELSE [aes_state |-> crypto_aesctr_init(iv), buf |-> None,
            hctx |-> HMAC_SHA256_Init(HmacKey)]

(* With nothing cached, either way round: as much as there is room for,    *)
(* the rest is cached. The MAC is over the encrypted side.                 *)
Processed(c, outbuflen, inbuf, encrypts) ==
  LET minlen == LesserOf(outbuflen, Len(inbuf))
      taken  == SubSeq(inbuf, 1, minlen)
      outbuf == StreamBytes(c.aes_state, taken)
  IN  [state |-> [aes_state |-> Advanced(c.aes_state, minlen),
                  buf |-> SubSeq(inbuf, minlen + 1, Len(inbuf)),
                  hctx |-> HMAC_SHA256_Update(c.hctx, IF encrypts THEN outbuf
                                                                  ELSE taken)],
       outbuf |-> outbuf, count |-> minlen]

(* Mutant of Crypt: fresh bytes go before the cached ones.                 *)
CryptSwaps(c, outbuflen, inbuf, encrypts) ==
  Processed(c, outbuflen, inbuf \o c.buf, encrypts)

(* c_encrypt and c_decrypt: what is cached goes first. If that does not    *)
(* empty the cache, the fresh bytes are cached behind the rest; if it      *)
(* does, the fresh bytes are processed, but with the room that the cache   *)
(* has left of itself, which is none, and only they are counted.           *)
Crypt(c, outbuflen, inbuf, encrypts) ==
  LET cached == Processed([c EXCEPT !.buf = None], outbuflen, c.buf, encrypts)
      newlen == Len(c.buf) - Len(cached.outbuf)
      fresh  == Processed(cached.state, newlen, inbuf, encrypts)
  IN  IF c.buf = None
      THEN Processed(c, outbuflen, inbuf, encrypts)
      ELSE IF newlen # 0
      THEN [cached EXCEPT !.state.buf = @ \o inbuf]
      ELSE [fresh EXCEPT !.outbuf = cached.outbuf \o @]

-----------------------------------------------------------------------------
Init ==
  /\ enc = NULL /\ dec = NULL
  /\ plain = None /\ cipher = None /\ sent = 0 /\ tag = None
  /\ fed = 0 /\ clear = None /\ hbuf = None /\ verdict = NotAsked

(* Two states, with one key; each call draws an iv.                        *)
Initialize ==
  /\ enc = NULL /\ dec = NULL
  /\ \E iv \in Nonces : enc' = c_initialize(iv)
  /\ \E iv \in Nonces : dec' = c_initialize(iv)
  /\ UNCHANGED <<plain, cipher, sent, tag, fed, clear, hbuf, verdict>>

(* c_encrypt with the next n bytes                                         *)
Encrypt(n, outbuflen) ==
  /\ enc # NULL /\ tag = None
  /\ Len(plain) + n <= MaxPlain
  /\ LET inbuf == [j \in 1 .. n |-> {<<"plain", Len(plain) + j>>}]
         call  == Crypt(enc, outbuflen, inbuf, TRUE)
     IN  /\ enc' = call.state
         /\ plain' = plain \o inbuf
         /\ cipher' = cipher \o call.outbuf
         /\ sent' = sent + Len(call.outbuf)
  /\ UNCHANGED <<dec, tag, fed, clear, hbuf, verdict>>

(* c_encrypt_finalize: what is cached is encrypted first; -1 if that does  *)
(* not empty the cache. Then -2 if there is no room for the MAC, and       *)
(* otherwise it is written behind as many bytes as c_encrypt has counted,  *)
(* which is over those that it has just put out: they are lost. What of    *)
(* them lies behind the MAC is lost too, for a stream ends with its MAC    *)
(* (line 200). The context is zeroed.                                      *)
EncryptFinalize(outbuflen) ==
  /\ enc # NULL /\ tag = None
  /\ LET call == IF enc.buf = None
                 THEN [state |-> enc, outbuf |-> None, count |-> 0]
                 ELSE Crypt(enc, outbuflen, None, TRUE)
         done == call.state.buf = None /\ outbuflen - call.count > DigestLen
     IN  /\ enc' = IF done THEN [call.state EXCEPT !.hctx = NULL]
                           ELSE call.state
         /\ cipher' = cipher \o call.outbuf
         /\ sent' = sent + IF done THEN call.count ELSE Len(call.outbuf)
         /\ tag' = IF done THEN HMAC_SHA256_Final(call.state.hctx) ELSE None
  /\ UNCHANGED <<dec, plain, fed, clear, hbuf, verdict>>

(* c_decrypt with the next n bytes that are there                          *)
Decrypt(n, outbuflen) ==
  /\ dec # NULL /\ verdict = NotAsked
  /\ fed + n <= sent
  /\ LET call == Crypt(dec, outbuflen, SubSeq(cipher, fed + 1, fed + n), FALSE)
     IN  /\ dec' = call.state
         /\ clear' = clear \o call.outbuf
  /\ fed' = fed + n
  /\ UNCHANGED <<enc, plain, cipher, sent, tag, hbuf, verdict>>

(* c_decrypt_finalize begins with hashing what is cached, undecrypted.     *)
CacheHashed(c) ==
  [c EXCEPT !.buf = None, !.hctx = HMAC_SHA256_Update(@, c.buf)]

(* What c_decrypt_finalize returns. It compares the hash with the bytes    *)
(* from DigestLen on, wherever the MAC is in inbuf; where inbuf ends       *)
(* before, with whatever the memory holds. If they differ it gives -1; if  *)
(* not it returns no value, and the caller gets any.                       *)
Verdicts(hash, inbuf) ==
  LET differ == \E d \in 1 .. LesserOf(DigestLen, Len(inbuf) - DigestLen) :
                  inbuf[DigestLen + d] # hash[d]
  IN  IF differ THEN {-1} ELSE -2 .. 0

(* c_decrypt_finalize with all that was not given to c_decrypt, and the    *)
(* MAC behind it.                                                          *)
DecryptFinalize ==
  /\ dec # NULL /\ hbuf = None /\ tag # None
  /\ LET rest == SubSeq(cipher, fed + 1, sent)
     IN  /\ hbuf' = HMAC_SHA256_Final(
                      HMAC_SHA256_Update(CacheHashed(dec).hctx, rest))
         /\ verdict' \in Verdicts(hbuf', rest \o tag)
  /\ dec' = [dec EXCEPT !.buf = None, !.hctx = NULL]
  /\ fed' = sent
  /\ UNCHANGED <<enc, plain, cipher, sent, tag, clear>>

(* c_decrypt_finalize with less than a MAC: -2, and the cache is gone. It  *)
(* may be called again; c_decrypt, which would skip what was cached, is    *)
(* not.                                                                    *)
DecryptFinalizeShort ==
  /\ dec # NULL /\ hbuf = None
  /\ dec' = CacheHashed(dec)
  /\ verdict' = -2
  /\ UNCHANGED <<enc, plain, cipher, sent, tag, fed, clear, hbuf>>

Next ==
  \/ Initialize
  \/ \E n \in 0 .. MaxIn, outbuflen \in 0 .. MaxOut : Encrypt(n, outbuflen)
  \/ \E outbuflen \in 0 .. MaxOut : EncryptFinalize(outbuflen)
  \/ \E n \in 0 .. MaxIn, outbuflen \in 0 .. MaxOut : Decrypt(n, outbuflen)
  \/ DecryptFinalize
  \/ DecryptFinalizeShort

Spec == Init /\ [][Next]_vars

-----------------------------------------------------------------------------
(* What the streams promise.                                               *)

(* Byte c of the stream, encrypted: each has a byte of cipherstream of its *)
(* own.                                                                    *)
Encrypted(c) ==
  Xor(plain[c], Cipherstream(enc.aes_state.nonce, (c - 1) \div AesBlock,
                             (c - 1) % AesBlock))

(* Nothing is lost, doubled or moved on the way into the output buffers,   *)
(* and no byte of cipherstream is used twice, however the input is cut     *)
(* into calls and however little room each has: the ciphertext is that of  *)
(* a prefix, and the rest of the input is what is cached. (c_encrypt,      *)
(* crypto_wrapper.c:74, and crypto_aesctr_stream, crypto_aesctr.c:79)      *)
EncryptsInOrder ==
  enc # NULL =>
    /\ \A c \in 1 .. Len(cipher) : cipher[c] = Encrypted(c)
    /\ enc.buf = SubSeq(plain, Len(cipher) + 1, Len(plain))

(* The decryptor, fed the ciphertext in other pieces than it was made in   *)
(* and with other room, keeps its place: it has cached what it was fed     *)
(* beyond what it put out, and that is the plaintext from its beginning,   *)
(* byte for byte, exactly if it drew the iv that the encryptor drew.       *)
(* (c_decrypt, crypto_wrapper.c:127; c_initialize, crypto_wrapper.c:40)    *)
DecryptsBack ==
  dec # NULL =>
    /\ \A c \in 1 .. Len(clear) :
         clear[c] = plain[c] <=> dec.aes_state.nonce = enc.aes_state.nonce
    /\ verdict = NotAsked => Len(clear) + Len(dec.buf) = fed

(* The MAC that would come out now, and the one that came out, is HMAC of  *)
(* the ciphertext that was put out, as defined for whole messages, with    *)
(* the padding at every length and with a bit count that has carried into  *)
(* its upper word. (SHA256_Update, sha256.c:231; SHA256_Pad, sha256.c:190) *)
MacOfCiphertext ==
  enc # NULL =>
    Hmac(HmacKey, cipher)
      = IF tag = None THEN HMAC_SHA256_Final(enc.hctx) ELSE tag

(* If c_encrypt_finalize had nothing to put out, and so wrote the MAC over *)
(* no ciphertext, both ends compute the same MAC, though they cut the      *)
(* stream differently, the decryptor may have bytes cached that it never   *)
(* decrypted, and it may have been given too few bytes to finalize before. *)
(* (c_decrypt_finalize, crypto_wrapper.c:201; the exception is the code's, *)
(* crypto_wrapper.c:183)                                                   *)
TagsAgree == hbuf # None /\ sent = Len(cipher) => hbuf = tag
=============================================================================
