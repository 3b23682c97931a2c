------------------------------ MODULE MCFsync ------------------------------
(* A small instance of Fsync, with keys: bytes of eight bits as in the     *)
(* code, a header of one byte, chunks of two bytes, a data buffer of two   *)
(* chunks, keys of two samples.                                            *)
EXTENDS FileKey

(* Recordings of n samples: the loud ones sit on both sides of the silent  *)
(* band and next to its edges, every k-th one is inside it.                *)
Loud  == <<32751, 32784, 32750, 65535, 0, 32785>>
Quiet == <<32752, 32783, 32768>>
Recording(n, k) ==
  [j \in 1 .. n |-> IF j % k = 0 THEN Quiet[((j \div k) % 3) + 1]
                                 ELSE Loud[(j % 6) + 1]]

(* Too short for the header; shorter than, exactly as long as and longer   *)
(* than the stream; with no, some and much silence.                        *)
MCAudios == {Recording(n, k) : n \in {0, 1, 7, 8, 9, 15, 24, 30, 40, 47, 59},
                               k \in {2, 3, 60}}

ByteOf(n) == [b \in 0 .. 7 |-> (n \div (2 ^ b)) % 2]

MCPayloads ==
  {[pfi |-> [p \in 0 .. 0 |-> ByteOf(seed)],
    data |-> [p \in 0 .. 3 |-> ByteOf((seed * (p + 3)) % 256)],
    size |-> s] : seed \in {77, 178}, s \in {0, 1, 2, 3, 4}}

(* pcm_buf is zeros at first, and later what a key was made of.            *)
MCStale == {<<0, 0>>, <<2047, 4095>>}
=============================================================================
