------------------------------- MODULE MCFlip -------------------------------
(* An instance of FlipLowbits: a header of two bytes, the magic and the    *)
(* size; chunks of three bytes.                                            *)
EXTENDS FlipLowbits

ByteOf(n) == [b \in 0 .. 7 |-> (n \div (2 ^ b)) % 2]

ValueOf(byte) == byte[0] + 2 * byte[1] + 4 * byte[2] + 8 * byte[3]
                 + 16 * (byte[4] + 2 * byte[5] + 4 * byte[6] + 8 * byte[7])

MCFiles == {[j \in 1 .. n |-> ByteOf((59 * (j + 2)) % 256)] : n \in {0, 4, 9}}

MCHeaderFor(f) == <<ByteOf(77), ByteOf(Len(f))>>
MCIsMagic(buf) == buf[0] = ByteOf(77)
MCSizeOf(buf) == ValueOf(buf[1])
MCGarbage == ByteOf(170)

(* Recordings of n samples; the silent ones are spread unevenly.           *)
Loud  == <<32751, 32784, 32750, 65535, 0, 32785>>
Quiet == <<32752, 32783, 32768>>
Recording(n, silence) ==
  [j \in 1 .. n |-> IF (j * j + j) % silence[1] < silence[2]
                    THEN Quiet[(j % 3) + 1] ELSE Loud[(j % 6) + 1]]

(* Silence with which calls of decode_bits end within bytes until the file *)
(* is whole, with which one ends at a byte or finds decode_buf too small,  *)
(* sooner or later, and with which the header's last call leaves too       *)
(* little; and none.                                                       *)
Silences == {<<36, 4>>, <<58, 18>>, <<31, 13>>, <<25, 9>>, <<45, 8>>, <<41, 9>>,
             <<11, 3>>, <<5, 1>>, <<7, 1>>, <<2, 0>>}

(* Recordings that encode refuses, for their length is a multiple of a     *)
(* round's; that end in the header, in the file and behind it.             *)
MCAudios == {Recording(n, silence) :
               n \in {0, 7, 31, 48, 80, 121, 241}, silence \in Silences}
=============================================================================
