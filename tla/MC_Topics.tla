------------------------------ MODULE MC_Topics ------------------------------
(***************************************************************************)
(* Instances of Topics: the stems mous, tabl, water and zebra are 10, 20,  *)
(* 30 and 50.  "was" is a stop word that words.dat has: its stem, 40, is   *)
(* in the vocabulary and never counted.  Together they are one more than   *)
(* there is room for.  With TfThreshold 1 and MaxFreq 4 a counter that     *)
(* began at zero makes a row of a stem met in two or three titles.         *)
(*                                                                         *)
(* Every file lists its articles in any order, so a valid article may come *)
(* after an invalid one of its title.                                      *)
(***************************************************************************)
EXTENDS Topics, SequencesExt

MCTokens == {"mouse", "mice", "table", "Table", "water", "zebra", "the", "was", "xyz"}
MCLower == [t \in MCTokens |-> IF t = "Table" THEN "table" ELSE t]
MCStem == [t \in MCTokens |-> CASE t \in {"mouse", "mice"} -> 10
                                [] t \in {"table", "Table"} -> 20
                                [] t = "water" -> 30
                                [] t = "was" -> 40
                                [] t = "zebra" -> 50
                                [] OTHER -> 60]
MCStems == {10, 20, 30, 40, 50}
MCWords == {"mouse", "mice", "table", "water", "zebra", "was"}

Entry(title, tokens) == [title |-> title, tokens |-> tokens]

MCEntries == {
    Entry("t1", <<"table", "mouse", "mice", "the">>),
    Entry("t1", <<"xyz", "xyz", "table">>),
    Entry("t2", <<"table", "water", "zebra">>),
    Entry("t3", <<"the", "mouse", "Table">>),
    Entry("t4", <<"table", "mouse", "was">>)}

MCFiles == {Missing} \cup SeqOf(MCEntries \cup {Malformed}, 4)
=============================================================================
