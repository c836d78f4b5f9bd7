------------------------------- MODULE MCCAbi -------------------------------
(* Instances of CAbi for TLC.                                              *)
EXTENDS CAbi
EveryApi == AllApis
=============================================================================
