------------------------------ MODULE Vocabulary ------------------------------
(***************************************************************************)
(* engine/include/common/vocabulary.h: the stems of the accepted articles  *)
(* in a std::set, whose positions are the stem ids; how many articles each *)
(* stem id was counted in; and the tokens seen for each stem id.           *)
(*                                                                         *)
(* A stem is a natural number: all that matters of the strings is their    *)
(* lexicographic order, which gives the positions.  One thread uses the    *)
(* vocabulary here; the tokens map is TokensMap, which                     *)
(* StemIdTokensRCUMap implements.                                          *)
(***************************************************************************)
EXTENDS Positions

CONSTANTS
    Stems,           \* stems of the words of words.dat, in their order
    Tokens,          \* tokens of the articles, as written
    MaxStemsNo,      \* MAX_STEMS_NO
    InitialFreqs     \* what the memory of stems_freq_ may hold at first

\* Nothing relates MAX_STEMS_NO to the number of stems there are.
ASSUME VocabularyAssumption ==
    /\ Stems \subseteq Nat
    /\ IsFiniteSet(Stems)
    /\ MaxStemsNo \in Nat
    /\ InitialFreqs \subseteq Int

StemIds == 0 .. MaxStemsNo - 1

VARIABLES
    stems,           \* stems_
    stems_freq,      \* stems_freq_
    freq_stems_no,   \* freq_stems_no_
    tokensOf         \* stemid_tokens_map_

vocabulary == <<stems, stems_freq, freq_stems_no, tokensOf>>

TokensMap == INSTANCE TokensMap

-----------------------------------------------------------------------------
\* stems_freq_ is an array of std::atomic without an initialiser: in C++17 its
\* elements hold whatever the memory held.
InitVocabulary ==
    /\ stems = {}
    /\ stems_freq \in [StemIds -> InitialFreqs]
    /\ freq_stems_no = 0
    /\ TokensMap!Init

\* The position of a stem in stems_, std::distance(begin, find(stem)).
StemId(stem) == Position(stem, stems)

\* The assertion of increase_stem_freq, and that of add_token.
HasRoom(id) == id \in StemIds

\* The stem at a position.
StemAt(id) == ElementAt(id, stems)

AddStems(newStems) == stems' = stems \cup newStems

\* freq_stems_no_ is stepped on each increase beyond three, not on the first.
IncreaseStemFreq(id) ==
    /\ stems_freq' = [stems_freq EXCEPT ![id] = @ + 1]
    /\ freq_stems_no' =
           IF stems_freq[id] + 1 > 3 THEN freq_stems_no + 1 ELSE freq_stems_no

VocabularyTypeOK ==
    /\ stems \subseteq Stems
    /\ stems_freq \in [StemIds -> Int]
    /\ freq_stems_no \in Nat
    /\ tokensOf \in [StemIds -> SUBSET Tokens]
=============================================================================
