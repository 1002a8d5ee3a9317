-------------------------------- MODULE MC_RCU --------------------------------
(***************************************************************************)
(* Instances of StemIdTokensRCUMap: threads that call both functions, as   *)
(* those of unit_tests/test_vocabulary.cpp and of a pipeline may.          *)
(***************************************************************************)
EXTENDS StemIdTokensRCUMap
=============================================================================
