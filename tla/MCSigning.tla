----------------------------- MODULE MCSigning -----------------------------
(* An instance of Signing for TLC: two keygens on three paths, a signer and a *)
(* verifier.                                                                  *)
EXTENDS Signing, TLC

CONSTANTS k1, k2, pathA, pathB, pathC

MCKeygen == {k1, k2}
MCKeyPath == {pathA, pathB, pathC}
Symmetry == Permutations(MCKeygen) \cup Permutations(MCKeyPath) \cup Permutations(Data)

=============================================================================
