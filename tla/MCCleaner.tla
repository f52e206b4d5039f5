------------------------------ MODULE MCCleaner -----------------------------
(* Two entries in the cleaned directory, two in the first of them and one    *)
(* more below: each may be a file, a directory or absent at any time.        *)
EXTENDS Cleaner

CONSTANTS r, a, b, a1, a2, x

MCNodes == {a, b, a1, a2, x}
MCParent == [n \in MCNodes |-> CASE n \in {a, b} -> r
                                 [] n \in {a1, a2} -> a
                                 [] n = x -> a1]
=============================================================================
