-------------------------------- MODULE MC_Rerun --------------------------------
(***************************************************************************)
(* An instance of Startup: two runs of main over files of up to two        *)
(* articles, of two valid contents with one shingle in common, a valid one *)
(* without shingles, an invalid one and a malformed one.  The hash         *)
(* functions are the six rankings of the three shingles, with values that  *)
(* are negative or exceed the range; a band is three positions.            *)
(***************************************************************************)
EXTENDS Startup, SequencesExt

MCTokens == {"mouse", "table", "the", "xyz"}
MCLower == [t \in MCTokens |-> t]
MCStem == [t \in MCTokens |-> CASE t = "mouse" -> 10 [] t = "table" -> 20 [] OTHER -> 40]
MCStems == {10, 20}

MCArticles == {
    <<"the", "the", "table", "mouse">>,
    <<"the", "table", "mouse", "the", "mouse", "table">>,
    <<"table", "mouse", "table">>,
    <<"xyz", "the", "xyz">>}

MCFiles == SeqOf(MCArticles \cup {Malformed}, 2)

MCShingle ==
    [s \in {<<u, v, w>> : u, v, w \in MCTokens} |->
        CASE s = <<"the", "the", "table">> -> -7
          [] s = <<"the", "table", "mouse">> -> 2
          [] s = <<"the", "mouse", "table">> -> 9
          [] OTHER -> 0]

MCShingles == {-7, 2, 9}
MCValues == {-8, 3, 6}

Rankings == {h \in [MCShingles -> MCValues] :
                 \A e, f \in MCShingles : h[e] = h[f] => e = f}

MCHashes == FoldSet(LAMBDA h, hs : Append(hs, h), <<>>, Rankings)

MCSimilar(a, b) ==
    /\ a # Garbage
    /\ \E band \in {1 .. 3, 4 .. 6} : \A hidx \in band : a[hidx] = b[hidx]
=============================================================================
