------------------------------ MODULE MC_Ingest ------------------------------
(***************************************************************************)
(* Instances of Ingest: pipes of one message, so that every queue fills.   *)
(***************************************************************************)
EXTENDS Ingest
=============================================================================
