------------------------------ MODULE MCClaims ------------------------------
(* Instances of Claims for TLC.                                            *)
EXTENDS Claims, SmallDefinitions
=============================================================================
