--------------------------- MODULE MCStateStorage ---------------------------
(* The package history with two packages, four tables. *)
EXTENDS StateStorage
=============================================================================
