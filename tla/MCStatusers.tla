------------------------------ MODULE MCStatusers ------------------------------
(* Two calls at a time, of any methods, on every provider in turn.         *)
EXTENDS Statusers
=============================================================================
