------------------------------ MODULE MC_Handler ------------------------------
(***************************************************************************)
(* An instance of ArticleHandler.  Letters make an article valid for a     *)
(* pipeline without words: the second is not, though its words are all in  *)
(* words.dat.  The stem of water is in no vocabulary document; that of     *)
(* zebra is, behind the two that have a counter.                           *)
(***************************************************************************)
EXTENDS ArticleHandler, TLC

MCTokens == {"a", "b", "mouse", "table", "water", "zebra"}
MCLower == [t \in MCTokens |-> t]
MCStem == [t \in MCTokens |-> CASE t = "mouse" -> 10
                                [] t = "table" -> 20
                                [] t = "water" -> 30
                                [] t = "zebra" -> 40
                                [] OTHER -> 1]
MCStems == {10, 20, 30, 40}

\* The threads run the same code, and no invariant tells them apart.
Symmetry == Permutations(Threads)

MCScraped ==
    <<<<"a", "mouse", "b", "a", "b", "table">>, <<"table", "mouse", "table", "mouse">>,
      <<"b", "water", "a", "b", "a", "table">>, Malformed,
      <<"zebra", "a", "b", "a">>>>
=============================================================================
