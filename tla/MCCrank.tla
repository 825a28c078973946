------------------------------ MODULE MCCrank ------------------------------
(***************************************************************************)
(* Small instances of Crank.                                               *)
(***************************************************************************)
EXTENDS Crank
=============================================================================
