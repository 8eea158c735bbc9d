---------------------------- MODULE MCArgoWatch ----------------------------
(* Values of ArgoWatch's constants for TLC. *)
EXTENDS ArgoWatch, TLC

CONSTANT o1
=============================================================================
