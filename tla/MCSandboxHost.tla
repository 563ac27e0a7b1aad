---------------------------- MODULE MCSandboxHost ----------------------------
(* Instances of SandboxHost for TLC. *)
EXTENDS SandboxHost
=============================================================================
