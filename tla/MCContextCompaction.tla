-------------------------- MODULE MCContextCompaction --------------------------
(* Instances of ContextCompaction for TLC. *)
EXTENDS ContextCompaction
=============================================================================
