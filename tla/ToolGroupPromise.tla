-------------------------- MODULE ToolGroupPromise --------------------------
(***************************************************************************)
(* What a tool group promises the agent run, whoever executes, denies,     *)
(* answers or cancels its calls: each call is settled once with one        *)
(* result, the transcript is told that result once, and the group ends     *)
(* only when the transcript has been told about every call.                *)
(***************************************************************************)
EXTENDS Sequences

CONSTANTS Calls, Results, Unsettled

VARIABLES
  settled,   \* per call, its result, or Unsettled
  told,      \* per call, the results the transcript holds
  ended      \* the group is over

promise == <<settled, told, ended>>

Init ==
  /\ settled = [c \in Calls |-> Unsettled]
  /\ told = [c \in Calls |-> <<>>]
  /\ ended = FALSE

Settle(c) ==
  /\ settled[c] = Unsettled
  /\ \E r \in Results : settled' = [settled EXCEPT ![c] = r]
  /\ UNCHANGED <<told, ended>>

Tell(c) ==
  /\ settled[c] # Unsettled /\ told[c] = <<>>
  /\ told' = [told EXCEPT ![c] = <<settled[c]>>]
  /\ UNCHANGED <<settled, ended>>

End ==
  /\ \A c \in Calls : told[c] # <<>>
  /\ ended' = TRUE
  /\ UNCHANGED <<settled, told>>

Next == End \/ \E c \in Calls : Settle(c) \/ Tell(c)

Spec == Init /\ [][Next]_promise
=============================================================================
