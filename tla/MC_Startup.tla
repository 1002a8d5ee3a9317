------------------------------ MODULE MC_Startup ------------------------------
(***************************************************************************)
(* An instance of Clustering, with the batch before it.  The stems mous,   *)
(* tabl, water and zebra are 10, 20, 30 and 40: one more than the arrays   *)
(* have room for.  "xyz" is unknown; "Table" is unknown as written, but    *)
(* its stem is known when another article has "table"; "The" is unknown as *)
(* written and a stop word in lower case.                                  *)
(*                                                                         *)
(* A counter may start below zero, or at two, so that stems become rows     *)
(* late or early and a counter behind the last stem may be a row.          *)
(***************************************************************************)
EXTENDS Clustering, SequencesExt

MCTokens == {"mouse", "mice", "table", "tables", "Table", "water", "zebra",
             "the", "The", "a", "xyz"}

MCLower == [t \in MCTokens |-> CASE t = "Table" -> "table"
                                 [] t = "The" -> "the"
                                 [] OTHER -> t]

MCStem == [t \in MCTokens |-> CASE t \in {"mouse", "mice"} -> 10
                                [] t \in {"table", "tables", "Table"} -> 20
                                [] t = "water" -> 30
                                [] t = "zebra" -> 40
                                [] t \in {"the", "The"} -> 25
                                [] t = "a" -> 1
                                [] OTHER -> 50]

MCStems == {10, 20, 30, 40}
MCWords == {"mouse", "mice", "table", "tables", "water", "zebra"}

MCInitialFreqs == {-1, 2}

\* A hash in which triples collide.
MCShingle ==
    [s \in {<<u, v, w>> : u, v, w \in MCTokens} |->
        IF s[2] \in {"table", "Table"} THEN 1 ELSE MCStem[s[1]] - MCStem[s[3]]]

MCArticles == {
    <<"water", "tables", "water", "the", "a", "xyz">>,
    <<"the", "Table", "mouse", "mice">>,
    <<"The", "table", "tables", "mouse">>,
    <<"zebra", "water", "the", "zebra">>,
    <<"xyz", "xyz", "table", "xyz">>}

\* articles.xml holds up to three articles, with repetitions.
MCFiles == SeqOf(MCArticles \cup {Malformed}, 3)
=============================================================================
