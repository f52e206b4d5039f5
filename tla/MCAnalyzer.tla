----------------------------- MODULE MCAnalyzer -----------------------------
(* One package with the three directories ScanPackageCache looks for.        *)
EXTENDS Analyzer

CONSTANTS p, cache, code_cache, external

MCOrder == <<cache, code_cache, external>>
MCOwner == [d \in {cache, code_cache, external} |-> p]
=============================================================================
