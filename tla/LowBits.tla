------------------------------ MODULE LowBits ------------------------------
(***************************************************************************)
(* The sample arithmetic of the steganographic codec: which 16-bit PCM     *)
(* samples carry a hidden bit, and how that bit is put in and taken out.   *)
(* Everything here is a constant operator; the codec's state machines      *)
(* (Fsync, Load) are built on it.                                          *)
(***************************************************************************)
EXTENDS Integers, Sequences, FiniteSets

(* uint16_t: the "u16le" samples that ffmpeg writes to the pipe. *)
UInt16Max == 65535
Sample == 0 .. UInt16Max

Bit == 0 .. 1

(* A byte as its eight bits, bit 0 first: the order in which the codec    *)
(* walks it with bit_index.                                                *)
Byte == [0 .. 7 -> Bit]

(* Mutant of Encodable: a silent band of odd length, whose last pair of    *)
(* samples is half silent and half loud.                                   *)
EncodableOdd(sample) == sample < 32752 \/ sample > 32782

(* SFSFSSFSF_ENCODABLE: a sample within 0x7FF0 .. 0x800F is (near) silence *)
(* around the unsigned midpoint and is left alone.                         *)
Encodable(sample) == sample < 32752 \/ sample > 32783

(* pcm & 0x1 *)
LowBit(sample) == sample % 2

(* What no write ever touches: the sample without its low bit. *)
UpperBits(sample) == sample - LowBit(sample)

(* Mutant of SetLowBit: pcm | bit, the mask forgotten, adds to what is     *)
(* already there.                                                          *)
SetLowBitUnmasked(sample, bit) == sample + bit

(* (pcm & ~0x1) | bit *)
SetLowBit(sample, bit) == UpperBits(sample) + bit

(* The number of bit-carrying samples among the first n of an audio file:  *)
(* the index (from 0) of the hidden bit that sample n + 1 carries, if any. *)
Carriers(audio, n) == Cardinality({j \in 1 .. n : Encodable(audio[j])})
=============================================================================
