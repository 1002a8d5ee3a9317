------------------------------- MODULE MC_Dedup -------------------------------
(***************************************************************************)
(* Instances of DedupService.  Two bands of two rows, and a last row in no *)
(* band: A and B share the second band; A and D differ in all rows, but    *)
(* the cut of the hash value gives their first bands one key; B and D      *)
(* share nothing.  An array that is not written holds zeros (Unset) or     *)
(* what the stack held before, such as another signature.                  *)
(***************************************************************************)
EXTENDS DedupService

MCHashCombine(seed, value) == 3 * seed + value
MCInt32(value) == value % 32

A == <<1, 1, 1, 1, 0>>
B == <<3, 4, 1, 1, 0>>
D == <<12, 0, 7, 7, 0>>
Unset == <<0, 0, 0, 0, 0>>

ThreeSignatures == {A, B, D}
AAndD == {A, D}
AAndUnset == {A, Unset}
OnlyUnset == {Unset}
=============================================================================
