------------------------------ MODULE MCEngine ------------------------------
(* The engine with its intervals scaled down, their order kept. *)
EXTENDS Engine
=============================================================================
