--------------------------- MODULE LowBitsProofs ---------------------------
(* Facts about the sample arithmetic, for every sample and every audio     *)
(* file. The codec's proofs cite them by name.                             *)
EXTENDS LowBits, FiniteSetTheorems, TLAPS

(* A sample is a natural number of 16 bits. The bound is kept out of the   *)
(* other proofs: a literal interval of this size is expanded by the solver.*)
LEMMA SampleNat ==
  ASSUME NEW s
  PROVE  s \in Sample <=> s \in Nat /\ s <= 65535
<1>1. UInt16Max = 65535
  BY DEF UInt16Max
<1>2. UInt16Max \in Int
  BY <1>1
<1>3. s \in Sample <=> s \in Nat /\ s <= UInt16Max
  BY <1>2 DEF Sample
<1>4. QED
  BY <1>1, <1>3

(* Every sample is an even number and its low bit.                         *)
LEMMA Parity ==
  ASSUME NEW n \in Nat
  PROVE  /\ LowBit(n) \in Bit
         /\ \E q \in Nat : n = 2 * q + LowBit(n)
<1>1. n = 2 * (n \div 2) + (n % 2) /\ n % 2 \in 0 .. 1 /\ n \div 2 \in Nat
  OBVIOUS
<1>2. QED
  BY <1>1 DEF LowBit, Bit

(* An even number and a bit: the bit is its low bit.                       *)
LEMMA LowBitOfSum ==
  ASSUME NEW q \in Nat, NEW b \in Bit
  PROVE  LowBit(2 * q + b) = b
BY DEF LowBit, Bit

(* Putting a bit in gives a sample, takes nothing but the low bit, and     *)
(* reading it out gives that bit (encode_bits line 192, decode_bits line   *)
(* 32).                                                                    *)
THEOREM SetLowBitCorrect ==
  ASSUME NEW s \in Sample, NEW b \in Bit
  PROVE  /\ SetLowBit(s, b) \in Sample
         /\ LowBit(SetLowBit(s, b)) = b
         /\ UpperBits(SetLowBit(s, b)) = UpperBits(s)
<1>1. s \in Nat /\ s <= 65535
  BY SampleNat
<1>2. PICK q \in Nat : s = 2 * q + LowBit(s)
  BY <1>1, Parity
<1>3. LowBit(s) \in 0 .. 1 /\ b \in 0 .. 1
  BY <1>1, Parity DEF Bit
<1>4. SetLowBit(s, b) = 2 * q + b
  BY <1>2, <1>3 DEF SetLowBit, UpperBits
<1>5. LowBit(SetLowBit(s, b)) = b
  BY <1>4, LowBitOfSum
<1>6. SetLowBit(s, b) \in Nat /\ SetLowBit(s, b) <= 65535
  BY <1>1, <1>2, <1>3, <1>4
<1>7. UpperBits(SetLowBit(s, b)) = UpperBits(s)
  BY <1>2, <1>3, <1>4, <1>5 DEF UpperBits
<1>8. QED
  BY <1>5, <1>6, <1>7, SampleNat

(* "MUST guarantee that SFSFSSFSF_ENCODABLE(byte) is invariant on flipping *)
(* last bit of byte" (sfsfssfsf.h:33): two samples that agree above the    *)
(* low bit are both loud or both silent, so the reader finds the carriers  *)
(* where the writer left them.                                             *)
THEOREM EncodableInvariant ==
  ASSUME NEW s \in Sample, NEW t \in Sample, UpperBits(s) = UpperBits(t)
  PROVE  Encodable(s) <=> Encodable(t)
<1>1. s \in Nat /\ t \in Nat
  BY SampleNat
<1>2. PICK q \in Nat : s = 2 * q + LowBit(s)
  BY <1>1, Parity
<1>3. PICK r \in Nat : t = 2 * r + LowBit(t)
  BY <1>1, Parity
<1>4. LowBit(s) \in 0 .. 1 /\ LowBit(t) \in 0 .. 1
  BY <1>1, Parity DEF Bit
<1>5. q = r
  BY <1>2, <1>3, <1>4 DEF UpperBits
<1>6. QED
  BY <1>2, <1>3, <1>4, <1>5 DEF Encodable

(* The number of carriers among the first n samples is a natural number.   *)
LEMMA CarriersType ==
  ASSUME NEW audio, NEW n \in Nat
  PROVE  Carriers(audio, n) \in Nat
<1>1. IsFiniteSet(1 .. n)
  BY FS_Interval
<1>2. IsFiniteSet({j \in 1 .. n : Encodable(audio[j])})
  BY <1>1, FS_Subset, {j \in 1 .. n : Encodable(audio[j])} \in SUBSET (1 .. n)
<1>3. QED
  BY <1>2, FS_CardinalityType DEF Carriers

(* Before the first sample there is no carrier: bit 0 of the header is in  *)
(* the first loud sample.                                                  *)
LEMMA CarriersZero ==
  ASSUME NEW audio
  PROVE  Carriers(audio, 0) = 0
<1>1. {j \in 1 .. 0 : Encodable(audio[j])} = {}
  OBVIOUS
<1>2. QED
  BY <1>1, FS_EmptySet DEF Carriers

(* One more sample is one more carrier exactly when it is loud.            *)
LEMMA CarriersNext ==
  ASSUME NEW audio, NEW n \in Nat
  PROVE  Carriers(audio, n + 1) =
           Carriers(audio, n) + (IF Encodable(audio[n + 1]) THEN 1 ELSE 0)
<1> DEFINE S(m) == {j \in 1 .. m : Encodable(audio[j])}
<1>1. IsFiniteSet(S(n))
  <2>1. IsFiniteSet(1 .. n)
    BY FS_Interval
  <2>2. QED
    BY <2>1, FS_Subset, S(n) \in SUBSET (1 .. n)
<1>2. n + 1 \notin S(n)
  OBVIOUS
<1>3. CASE Encodable(audio[n + 1])
  <2>1. S(n + 1) = S(n) \cup {n + 1}
    BY <1>3
  <2>2. Cardinality(S(n + 1)) = Cardinality(S(n)) + 1
    BY <2>1, <1>1, <1>2, FS_AddElement
  <2>3. QED
    BY <2>2, <1>3 DEF Carriers
<1>4. CASE ~Encodable(audio[n + 1])
  <2>1. S(n + 1) = S(n)
    BY <1>4
  <2>2. Cardinality(S(n)) \in Nat
    BY <1>1, FS_CardinalityType
  <2>3. QED
    BY <2>1, <2>2, <1>4 DEF Carriers
<1>5. QED
  BY <1>3, <1>4

(* The carriers of a recording are those of any cover of it.               *)
LEMMA CarriersSame ==
  ASSUME NEW a, NEW b, NEW n \in Nat,
         \A j \in 1 .. n : Encodable(a[j]) <=> Encodable(b[j])
  PROVE  Carriers(a, n) = Carriers(b, n)
<1>1. {j \in 1 .. n : Encodable(a[j])} = {j \in 1 .. n : Encodable(b[j])}
  OBVIOUS
<1>2. QED
  BY <1>1 DEF Carriers

(* Past a loud sample the count has grown: no two carriers hold the same   *)
(* bit of the hidden stream.                                               *)
LEMMA CarriersMono ==
  ASSUME NEW audio, NEW n \in Nat, NEW j \in 1 .. n, Encodable(audio[j])
  PROVE  Carriers(audio, j - 1) < Carriers(audio, n)
<1> DEFINE S(m) == {k \in 1 .. m : Encodable(audio[k])}
<1>1. j \in Nat /\ j - 1 \in Nat /\ (j - 1) + 1 = j /\ j <= n
  OBVIOUS
<1>2. Carriers(audio, j) = Carriers(audio, j - 1) + 1
  BY <1>1, CarriersNext
<1>3. IsFiniteSet(S(n))
  <2>1. IsFiniteSet(1 .. n)
    BY FS_Interval
  <2>2. QED
    BY <2>1, FS_Subset, S(n) \in SUBSET (1 .. n)
<1>4. S(j) \in SUBSET S(n)
  BY <1>1
<1>5. Cardinality(S(j)) <= Cardinality(S(n))
  BY <1>3, <1>4, FS_Subset
<1>6. Carriers(audio, j - 1) \in Nat /\ Carriers(audio, n) \in Nat
  BY <1>1, CarriersType
<1>7. QED
  BY <1>2, <1>5, <1>6 DEF Carriers

(* The count only grows.                                                   *)
LEMMA CarriersGrow ==
  ASSUME NEW audio, NEW n \in Nat, NEW m \in Nat, m <= n
  PROVE  Carriers(audio, m) <= Carriers(audio, n)
<1> DEFINE S(k) == {j \in 1 .. k : Encodable(audio[j])}
<1>1. IsFiniteSet(S(n))
  <2>1. IsFiniteSet(1 .. n)
    BY FS_Interval
  <2>2. QED
    BY <2>1, FS_Subset, S(n) \in SUBSET (1 .. n)
<1>2. S(m) \in SUBSET S(n)
  OBVIOUS
<1>3. Cardinality(S(m)) <= Cardinality(S(n))
  BY <1>1, <1>2, FS_Subset
<1>4. QED
  BY <1>3 DEF Carriers

-----------------------------------------------------------------------------
(* Arithmetic that the codec's proofs share.                               *)

(* A product grows with its second factor.                                 *)
LEMMA ProductMono ==
  ASSUME NEW a \in Nat, NEW k \in Nat, NEW n \in Nat, k <= n
  PROVE  a * k <= a * n
<1>1. PICK d \in Nat : n = k + d
  BY n - k \in Nat
<1>2. a * n = a * k + a * d
  BY <1>1
<1>3. a * k \in Nat /\ a * d \in Nat /\ a * n \in Nat
  OBVIOUS
<1>4. QED
  BY <1>2, <1>3

(* A position in the hidden stream is a byte of it and a bit of the byte.  *)
LEMMA BytePosition ==
  ASSUME NEW b \in Nat, NEW k \in 0 .. 7
  PROVE  (8 * b + k) \div 8 = b /\ (8 * b + k) % 8 = k
  OBVIOUS
=============================================================================
