------------------------------- MODULE MC_Store -------------------------------
(***************************************************************************)
(* Instances of ArticleStore, with integers of three bits: every signature *)
(* value, and articles with and without stem ids.                          *)
(***************************************************************************)
EXTENDS ArticleStore

Article(id, signature, stem_ids, ids_tokens_map) ==
    [id |-> id, title |-> "t", date |-> 1, signature |-> signature, stem_ids |-> stem_ids,
     unknown_tokens_no |-> 1, tokens_no |-> 3, ids_tokens_map |-> ids_tokens_map]

MCArticles == UNION {
    {Article(NoText, <<x>>, <<>>, {}), Article(NoText, <<x>>, <<2, 0>>, {<<2, 0>>, <<0, 1>>})} :
        x \in Int32}
=============================================================================
