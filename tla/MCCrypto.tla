------------------------------ MODULE MCCrypto ------------------------------
(* CryptoWrapper for TLC: neither iv is special.                           *)
EXTENDS CryptoWrapper, TLC

IvSymmetry == Permutations(Nonces)
=============================================================================
