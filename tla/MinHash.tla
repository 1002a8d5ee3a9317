------------------------------- MODULE MinHash -------------------------------
(***************************************************************************)
(* engine/include/clustering/minhash.h: the signature of an article's set  *)
(* of shingles.  Hashes[hidx] is the murmur3 hash with seed hidx.          *)
(***************************************************************************)
EXTENDS Integers, Sequences, FiniteSetsExt

CONSTANTS
    Shingles,        \* the shingles of all articles
    Hashes,          \* one hash function per position of a signature
    RangeMax         \* range_max_

ASSUME MinHashAssumption ==
    /\ Hashes \in Seq([Shingles -> Int])
    /\ RangeMax \in Nat \ {0}

-----------------------------------------------------------------------------
\* C's %: the remainder has the sign of the hash.
Rem(hash) == IF hash >= 0 THEN hash % RangeMax ELSE -((-hash) % RangeMax)

HashVal(hidx, elem) == Rem(Hashes[hidx][elem])

\* A position starts above the range and keeps the least value.
NoShingle == RangeMax + 1

\* Mutant: a position starts at zero.
ComputeSignatureFromZero(shingles) ==
    [hidx \in DOMAIN Hashes |-> Min({0} \cup {HashVal(hidx, elem) : elem \in shingles})]

ComputeSignature(shingles) ==
    [hidx \in DOMAIN Hashes |-> Min({NoShingle} \cup {HashVal(hidx, elem) : elem \in shingles})]

\* The signatures there can be: a position without a shingle keeps NoShingle.
AnySignature == [DOMAIN Hashes -> -(RangeMax - 1) .. NoShingle]
=============================================================================
