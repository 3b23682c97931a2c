----------------------------- MODULE MCSaveLoad -----------------------------
(* An instance of SaveLoad: a header of two bytes, chunks of three, a data *)
(* buffer of two chunks; recordings that carry an old file already.        *)
EXTENDS SaveLoad

ByteOf(n) == [b \in 0 .. 7 |-> (n \div (2 ^ b)) % 2]

HeaderOf(size) == [h \in 0 .. 1 |-> IF h = 0 THEN ByteOf(77) ELSE ByteOf(size)]

MCIsMagic(h) == h[0] = ByteOf(77)

MCSizeOf(h) ==
  LET size == h[1][0] + 2 * h[1][1] + 4 * h[1][2] + 8 * h[1][3]
  IN  IF size <= DataLen THEN size ELSE DataLen

(* Two files of each size, with other data.                                *)
FileOf(size, seed) ==
  [pfi |-> HeaderOf(size), size |-> size,
   data |-> [d \in 0 .. DataLen - 1 |->
               IF d < size THEN ByteOf((seed * (d + 2)) % 256) ELSE ByteOf(0)]]

MCPayloads == {FileOf(size, seed) : size \in {0, 1, 3, 4}, seed \in {59, 166}}

MCGarbage == {HeaderOf(2)}

Loud  == <<32751, 32784, 32750, 65535, 0, 32785>>
Quiet == <<32752, 32783, 32768>>
Recording(n, k) ==
  [j \in 1 .. n |-> IF j % k = 0 THEN Quiet[((j \div k) % 3) + 1]
                                 ELSE Loud[(j % 6) + 1]]

Embed(samples, p) ==
  [j \in 1 .. Len(samples) |->
     LET c == Carriers(samples, j - 1)
     IN  IF Encodable(samples[j]) /\ c < StreamBits(p)
         THEN SetLowBit(samples[j], StreamBit(p, c)) ELSE samples[j]]

(* Recordings that end with a file, within its chunk, and behind it.       *)
MCAudios == {Embed(Recording(n, k), p) :
               n \in {40, 64, 75}, k \in {3, 100}, p \in MCPayloads}
=============================================================================
