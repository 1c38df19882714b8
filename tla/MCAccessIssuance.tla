-------------------------- MODULE MCAccessIssuance --------------------------
(***************************************************************************)
(* Instances of AccessIssuance for TLC.                                    *)
(***************************************************************************)
EXTENDS AccessIssuance
=============================================================================
