----------------------------- MODULE MCMicFixer -----------------------------
(* The microphone fixer with few streams and short queues. *)
EXTENDS MicFixer
=============================================================================
