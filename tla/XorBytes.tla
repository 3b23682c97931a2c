------------------------------ MODULE XorBytes ------------------------------
(***************************************************************************)
(* Bytes of which nothing matters but where they come from: a byte is a    *)
(* finite set of atoms, the values that were xored into it.                *)
(***************************************************************************)

(* x ^ y: zero is {}, x ^ x is zero, and the order does not matter.        *)
Xor(a, b) == (a \ b) \cup (b \ a)
=============================================================================
