---------------------------- MODULE MCToolGroup ----------------------------
(* Instances of ToolGroup for TLC. *)
EXTENDS ToolGroup, TLC
CONSTANTS c1, c2

\* One call runs, or is refused; the other runs, or waits for a person.
Either == (c1 :> {"execute", "deny"}) @@ (c2 :> {"execute", "await"})
\* One call runs; the other waits for a person.
OneExecuteOneAsk == (c1 :> {"execute"}) @@ (c2 :> {"await"})
=============================================================================
