---------------------------- MODULE MCSandboxDisk ----------------------------
(* Instances of SandboxDisk for TLC. *)
EXTENDS SandboxDisk
=============================================================================
