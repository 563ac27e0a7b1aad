------------------------ MODULE MCSandboxRegistry ------------------------
(* Instances of SandboxRegistry for TLC. *)
EXTENDS SandboxRegistry, TLC

CONSTANTS w1, w2, s1, s2

\* The owner is on the first worker, with one spec.
OneSpec == w1 :> {s1} @@ w2 :> {}
==========================================================================
