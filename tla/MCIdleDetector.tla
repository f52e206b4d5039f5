--------------------------- MODULE MCIdleDetector ---------------------------
(* A zone in degrees and one in millidegrees, at both sides of the limit, the *)
(* second also just above freezing.                                          *)
EXTENDS IdleDetector

CONSTANTS skin, cpu

MCUnit == [z \in {skin, cpu} |-> IF z = cpu THEN Milli ELSE 1]
MCRaw == [z \in {skin, cpu} |-> IF z = cpu THEN {900, 45999, 46000} ELSE {45, 46}]
=============================================================================
