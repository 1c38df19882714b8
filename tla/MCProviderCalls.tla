-------------------------- MODULE MCProviderCalls --------------------------
(***************************************************************************)
(* Instances of ProviderCalls for TLC.                                     *)
(***************************************************************************)
EXTENDS ProviderCalls, TLC

WorkerSymmetry == Permutations(Workers)
==============================================================================
