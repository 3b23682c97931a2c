------------------------------- MODULE MCLoad -------------------------------
(* An instance of Load: a header of two bytes, the magic and the size, so  *)
(* that the audio can end between them; chunks of three bytes, a data      *)
(* buffer of two chunks.                                                   *)
EXTENDS Load

ByteOf(n) == [b \in 0 .. 7 |-> (n \div (2 ^ b)) % 2]

HeaderOf(size) == [h \in 0 .. 1 |-> IF h = 0 THEN ByteOf(77) ELSE ByteOf(size)]

MCIsMagic(h) == h[0] = ByteOf(77)

(* A size behind the buffer is read as the buffer's: see Load.             *)
MCSizeOf(h) ==
  LET size == h[1][0] + 2 * h[1][1] + 4 * h[1][2] + 8 * h[1][3]
  IN  IF size <= DataLen THEN size ELSE DataLen

MCPayloads ==
  {[pfi |-> HeaderOf(size), size |-> size,
    data |-> [d \in 0 .. DataLen - 1 |-> ByteOf((59 * (d + 2)) % 256)]] :
   size \in {0, 1, 2, 3, 4, 6}}

(* What the memory of a new object held before: nothing, or an object.     *)
MCGarbage == {[h \in 0 .. 1 |-> ByteOf(0)], HeaderOf(3)}

(* Recordings of n samples, every k-th one silent.                         *)
Loud  == <<32751, 32784, 32750, 65535, 0, 32785>>
Quiet == <<32752, 32783, 32768>>
Recording(n, k) ==
  [j \in 1 .. n |-> IF j % k = 0 THEN Quiet[((j \div k) % 3) + 1]
                                 ELSE Loud[(j % 6) + 1]]

(* The recording with a file's stream in its loud samples.                 *)
Embed(audio, p) ==
  [j \in 1 .. Len(audio) |->
     LET c == Carriers(audio, j - 1)
     IN  IF Encodable(audio[j]) /\ c < StreamBits(p)
         THEN SetLowBit(audio[j], StreamBit(p, c)) ELSE audio[j]]

(* Files in recordings that are too short for the header, cut it between   *)
(* its bytes, cut the data at a byte, in a byte, end where the file ends,  *)
(* in the padding of its chunk, or behind it; and recordings without one.  *)
MCImages ==
  {Embed(Recording(n, k), p) :
     n \in {0, 5, 8, 12, 16, 20, 24, 32, 36, 41, 48, 64, 70, 96},
     k \in {3, 100}, p \in MCPayloads}
  \cup {Recording(n, k) : n \in {0, 16, 40, 70}, k \in {3, 100}}
=============================================================================
