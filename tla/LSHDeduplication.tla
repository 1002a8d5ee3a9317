--------------------------- MODULE LSHDeduplication ---------------------------
(***************************************************************************)
(* engine/include/dedup/lsh_deduplication.h: an index of articles by the   *)
(* bands of their signatures.  A signature is cut in BandsNo bands of      *)
(* SignatureSize \div BandsNo rows; the hash value of each band, cut to    *)
(* the int32_t that keys the buckets, leads to the ids that share it.      *)
(***************************************************************************)
EXTENDS Integers, Sequences, SequencesExt

CONSTANTS
    Ids,                   \* article ids
    Signatures,            \* sequences of SignatureSize numbers
    SignatureSize,
    BandsNo,               \* BANDS_NO
    HashCombine(_, _),     \* boost::hash_combine
    Int32(_)               \* conversion of a size_t to int32_t

\* The assertion of compute_lsh_groups.
ASSUME LSHAssumption ==
    /\ SignatureSize \in Nat
    /\ BandsNo \in Nat \ {0}
    /\ BandsNo < SignatureSize

VARIABLE buckets           \* lsh_buckets_: <<band, key, id>> triples

-----------------------------------------------------------------------------
RowsNo == SignatureSize \div BandsNo

Bands == 0 .. BandsNo - 1

\* The rows of a band: the rows left over after the last band are in none.
Rows(signature, band) == SubSeq(signature, band * RowsNo + 1, (band + 1) * RowsNo)

Key(signature, band) == Int32(FoldLeft(HashCombine, 17, Rows(signature, band)))

\* Two signatures are similar when a band of theirs has one key.
Similar(s1, s2) == \E band \in Bands : Key(s1, band) = Key(s2, band)

\* The buckets a document is inserted in.
Entries(id, signature) == {<<band, Key(signature, band), id>> : band \in Bands}

\* The constructor: docs are <<id, signature>> pairs.
ComputeLshGroups(docs) == UNION {Entries(d[1], d[2]) : d \in docs}

\* Mutant: only the bucket of the first band is looked up.
DuplicatesInFirstBand(id, signature) ==
    {id} \cup {d \in Ids : <<0, Key(signature, 0), d>> \in buckets}

\* The ids process_signature returns: the document's own and those it meets.
Duplicates(id, signature) ==
    {id} \cup {d \in Ids : \E band \in Bands :
                               <<band, Key(signature, band), d>> \in buckets}

\* Mutant: a document that is a duplicate is not inserted.
InsertOriginal(id, signature) ==
    buckets' = IF Duplicates(id, signature) # {id} THEN buckets
               ELSE buckets \cup Entries(id, signature)

Insert(id, signature) == buckets' = buckets \cup Entries(id, signature)
=============================================================================
