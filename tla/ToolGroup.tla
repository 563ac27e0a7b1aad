----------------------------- MODULE ToolGroup -----------------------------
(***************************************************************************)
(* One tool group of an agent run: AgentThreadWorkflow._run_tool_group,    *)
(* the activities it schedules (admit_tool, execute_tool, resolve_tool,    *)
(* finalize_tool_group, finalize_run, apply_thread_cancellation) and the   *)
(* client that may cancel the thread or answer a waiting call meanwhile.   *)
(*                                                                         *)
(* An activity reads and writes the stores in steps of its own.  Temporal  *)
(* may give an attempt up while it still runs (it outlived its timeout, or *)
(* its heartbeats did not arrive): the attempt goes on writing, and what   *)
(* it reports is ignored.  One that died with its worker is one that takes *)
(* no further step.                                                        *)
(***************************************************************************)
EXTENDS ToolCallStore

CONSTANTS
  RetrySafe,     \* calls whose tool is marked retry_safe
  Verdicts,      \* per call, what its can_execute may decide
  MaxAttempts,   \* _LOST_TOOL_RETRY.maximum_attempts
  MaxFaults,     \* bound: failures of a local activity
  StoreFails,    \* calls whose record admit_tool or execute_tool may fail to write
  Cancels        \* the ways this instance is cancelled: a subset of
                 \* {"client", "signal"}

Verdict == {"execute", "await", "deny"}

ASSUME GroupAssumption ==
  /\ RetrySafe \subseteq Calls
  /\ Verdicts \in [Calls -> SUBSET Verdict]
  /\ MaxAttempts \in Nat \ {0}
  /\ MaxFaults \in Nat
  /\ StoreFails \subseteq Calls
  /\ Cancels \subseteq {"client", "signal"}
  /\ Writers = {"workflow", "client"}
  /\ "timeout" \notin Answers

Attempts == 1 .. MaxAttempts

VARIABLES
  stage,       \* where _run_tool_group, and the run's end after it, stands
  verdict,     \* how the group ended for the run
  faults,      \* failures of the finalizing local activities so far
  todo,        \* calls the current finalizing activity has not handled
  hand,        \* the call finalize_run has closed and not yet paired
  admits,      \* per call, the AdmitOutcome the workflow has received
  heard,       \* per call, the ExecuteOutcome the workflow has received
  stop,        \* terminal_tool
  admission,   \* per call, its admit_tool activity
  attempt,     \* per call, the execute_tool attempt Temporal waits for
  run,         \* per call and attempt, the execute_tool activity
  ran,         \* per call, how many attempts entered the tool's body
  unwritten,   \* calls one of whose outcomes was reported and not stored (history)
  resolve,     \* per call, its resolve_tool activity
  taken,       \* per call, the resolution given to resolve_tool
  resolutions, \* _tool_resolutions
  mail,        \* resolve_tool signals on their way
  first,       \* per call, the first resolution signalled (history)
  cancelled,   \* _cancelled, set by the cancel signal
  cancelReq,   \* the thread's workflow was asked to cancel and has not seen it
  sweep,       \* per writer, its pass of record_cancelled
  swept        \* per writer, the calls left in that pass

flow  == <<stage, verdict, faults, todo, hand>>
known == <<admits, heard, stop>>
tasks == <<admission, attempt, run, ran, unwritten, resolve, taken>>
human == <<resolutions, mail, first>>
stops == <<cancelled, cancelReq, sweep, swept>>
vars  == <<records, messages, flow, known, tasks, human, stops>>

None == "none"

Init ==
  /\ StoreInit
  /\ stage = "admitting" /\ verdict = None /\ faults = 0
  /\ todo = {} /\ hand = {}
  /\ admits = [c \in Calls |-> "pending"]
  /\ heard  = [c \in Calls |-> "pending"]
  /\ stop = FALSE
  /\ admission = [c \in Calls |-> "started"]
  /\ attempt = [c \in Calls |-> 0]
  /\ run = [c \in Calls |-> [k \in Attempts |-> "idle"]]
  /\ ran = [c \in Calls |-> 0]
  /\ unwritten = {}
  /\ resolve = [c \in Calls |-> "idle"]
  /\ taken = [c \in Calls |-> None]
  /\ resolutions = [c \in Calls |-> None]
  /\ mail = {}
  /\ first = [c \in Calls |-> None]
  /\ cancelled = FALSE /\ cancelReq = FALSE
  /\ sweep = [w \in Writers |-> "off"]
  /\ swept = [w \in Writers |-> {}]

-----------------------------------------------------------------------------
(* admit_tool: one attempt.  Its verdict is written before it is reported, *)
(* and a call someone else settled meanwhile is reported as denied.        *)

AdmitTool(c) ==
  /\ admission[c] \in {"started", "adrift"}
  /\ \E v \in Verdicts[c] :
       /\ CASE v = "execute" -> UpdateStatus(c, "running", NoResult)
            [] v = "await"   -> UpdateStatus(c, "waiting", NoResult)
            [] v = "deny"    -> UpdateStatus(c, "blocked", "denied")
       /\ admission' = [admission EXCEPT ![c] =
            IF @ = "adrift" THEN "over" ELSE IF Settled(c) THEN "deny" ELSE v]
  /\ UNCHANGED <<messages, flow, known, attempt, run, ran, unwritten, resolve, taken, human, stops>>

\* _admit_failed: the refusal is reported though it could not be written.
AdmitUnwritten(c) ==
  /\ c \in StoreFails /\ admission[c] \in {"started", "adrift"}
  /\ admission' = [admission EXCEPT ![c] = IF @ = "adrift" THEN "over" ELSE "deny"]
  /\ unwritten' = unwritten \cup {c}
  /\ UNCHANGED <<records, messages, flow, known, attempt, run, ran, resolve, taken, human, stops>>

AdmitReport(c) ==
  /\ stage = "admitting"
  /\ admission[c] \in Verdict
  /\ admits' = [admits EXCEPT ![c] = admission[c]]
  /\ admission' = [admission EXCEPT ![c] = "over"]
  /\ UNCHANGED <<records, messages, flow, heard, stop, attempt, run, ran, unwritten, resolve, taken, human, stops>>

AdmitLost(c) ==
  /\ stage = "admitting"
  /\ admits[c] = "pending"
  /\ admits' = [admits EXCEPT ![c] = "error"]
  /\ admission' = [admission EXCEPT ![c] = IF @ = "started" THEN "adrift" ELSE "over"]
  /\ UNCHANGED <<records, messages, flow, heard, stop, attempt, run, ran, unwritten, resolve, taken, human, stops>>

\* The admissions are drained before one that failed fails the run.
StartWork ==
  /\ stage = "admitting"
  /\ \A c \in Calls : admits[c] # "pending"
  /\ IF \E c \in Calls : admits[c] = "error"
     THEN /\ stage' = "repairing" /\ verdict' = "failed" /\ todo' = Calls
          /\ UNCHANGED <<heard, attempt, run>>
     ELSE /\ stage' = "working"
          /\ heard' = [c \in Calls |-> IF admits[c] = "deny" THEN "done" ELSE "pending"]
          /\ attempt' = [c \in Calls |-> IF admits[c] = "execute" THEN 1 ELSE 0]
          /\ run' = [c \in Calls |-> IF admits[c] = "execute"
                                     THEN [run[c] EXCEPT ![1] = "started"] ELSE run[c]]
          /\ UNCHANGED <<verdict, todo>>
  /\ UNCHANGED <<records, messages, faults, hand, admits, stop, admission, ran, unwritten, resolve, taken, human, stops>>

-----------------------------------------------------------------------------
(* What the group has started goes on, unheard, while a cancelled workflow *)
(* repairs its run and its thread.                                         *)

InFlight == stage \in {"working", "repairing", "sweeping"}

-----------------------------------------------------------------------------
(* execute_tool: up to MaxAttempts attempts, each tried again only when it *)
(* was lost.                                                               *)

\* Mutant: a later attempt enters the body of any tool.
NeverRefuses(c, k) == FALSE

Refuses(c, k) == k > 1 /\ c \notin RetrySafe

\* The attempt reads the record: a settled call is reported as it is, and a
\* later attempt enters the body only of a retry_safe tool.
ExecuteTool(c, k) ==
  /\ run[c][k] = "started"
  /\ IF Settled(c)
     THEN run' = [run EXCEPT ![c][k] = "wrote"] /\ UNCHANGED ran
     ELSE IF Refuses(c, k)
     THEN run' = [run EXCEPT ![c][k] = "closing"] /\ UNCHANGED ran
     ELSE /\ run' = [run EXCEPT ![c][k] = "body"]
          /\ ran' = [ran EXCEPT ![c] = @ + 1]
  /\ UNCHANGED <<records, messages, flow, known, admission, attempt, unwritten, resolve, taken, human, stops>>

ExecuteFailed(c, k) ==
  /\ run[c][k] = "closing"
  /\ UpdateStatus(c, "failed", "interrupted")
  /\ run' = [run EXCEPT ![c][k] = "wrote"]
  /\ UNCHANGED <<messages, flow, known, admission, attempt, ran, unwritten, resolve, taken, human, stops>>

ExecuteWrite(c, k) ==
  /\ run[c][k] = "body"
  /\ \E r \in ToolResults : UpdateStatus(c, StatusOf(r), r)
  /\ run' = [run EXCEPT ![c][k] = "wrote"]
  /\ UNCHANGED <<messages, flow, known, admission, attempt, ran, unwritten, resolve, taken, human, stops>>

\* _execute_failed: the failure is reported though it could not be written.
ExecuteUnwritten(c, k) ==
  /\ c \in StoreFails /\ run[c][k] \in {"closing", "body"}
  /\ run' = [run EXCEPT ![c][k] = "unwritten"]
  /\ unwritten' = unwritten \cup {c}
  /\ UNCHANGED <<records, messages, flow, known, admission, attempt, ran, resolve, taken, human, stops>>

\* Mutant: a result that ends the run does not.
NeverEnds(c) == FALSE

EndsRun(c) == result[c] = "finish"

\* The attempt Temporal waits for returns the outcome of the stored result.
ExecuteReport(c) ==
  /\ stage = "working" /\ heard[c] = "pending" /\ attempt[c] > 0
  /\ run[c][attempt[c]] \in {"wrote", "unwritten"}
  /\ heard' = [heard EXCEPT ![c] = "done"]
  /\ stop' = (stop \/ (run[c][attempt[c]] = "wrote" /\ EndsRun(c)))
  /\ run' = [run EXCEPT ![c][attempt[c]] = "over"]
  /\ UNCHANGED <<records, messages, flow, admits, admission, attempt, ran, unwritten, resolve, taken, human, stops>>

\* A lost attempt is made again as long as the workflow is open.
ExecuteLost(c) ==
  /\ InFlight /\ heard[c] = "pending" /\ attempt[c] > 0
  /\ IF attempt[c] < MaxAttempts
     THEN /\ attempt' = [attempt EXCEPT ![c] = @ + 1]
          /\ run' = [run EXCEPT ![c][attempt[c] + 1] = "started"]
          /\ UNCHANGED heard
     ELSE /\ heard' = [heard EXCEPT ![c] = "error"]
          /\ UNCHANGED <<attempt, run>>
  /\ UNCHANGED <<records, messages, flow, admits, stop, admission, ran, unwritten, resolve, taken, human, stops>>

-----------------------------------------------------------------------------
(* A call that waits for a person: _resolve_tool and resolve_tool.         *)

Waits(c) == InFlight /\ admits[c] = "await" /\ heard[c] = "pending" /\ resolve[c] = "idle"

\* AgentRuntime.resolve_tool_call: signals only when the record is waiting.
ResolveToolCall(c, a) ==
  /\ status[c] = "waiting" /\ <<c, a>> \notin mail
  /\ mail' = mail \cup {<<c, a>>}
  /\ UNCHANGED <<records, messages, flow, known, tasks, resolutions, first, stops>>

\* Mutant: a later resolution replaces one that waits.
Resolving(c) == taken[c] \in Answers \/ resolve[c] = "over"

Resolved(c) == taken[c] \in Answers \/ resolve[c] = "over" \/ resolutions[c] # None

\* The resolve_tool signal: the first one is kept, and none once a resolution
\* of the call is being written or is written.
ResolveSignal(c, a) ==
  /\ <<c, a>> \in mail /\ stage # "closed"
  /\ mail' = mail \ {<<c, a>>}
  /\ IF Resolved(c)
     THEN UNCHANGED resolutions
     ELSE resolutions' = [resolutions EXCEPT ![c] = a]
  /\ first' = IF first[c] = None THEN [first EXCEPT ![c] = a] ELSE first
  /\ UNCHANGED <<records, messages, flow, known, tasks, stops>>

TakeResolution(c) ==
  /\ Waits(c) /\ ~cancelled
  /\ resolutions[c] # None
  /\ taken' = [taken EXCEPT ![c] = resolutions[c]]
  /\ resolutions' = [resolutions EXCEPT ![c] = None]
  /\ resolve' = [resolve EXCEPT ![c] = "started"]
  /\ UNCHANGED <<records, messages, flow, known, admission, attempt, run, ran, unwritten, mail, first, stops>>

\* Mutant: a wait without a timeout.
WaitForAnswer(c) == TakeResolution(c)

WaitTimeout(c) ==
  /\ Waits(c) /\ ~cancelled
  /\ resolutions[c] = None
  /\ taken' = [taken EXCEPT ![c] = "timeout"]
  /\ resolve' = [resolve EXCEPT ![c] = "started"]
  /\ UNCHANGED <<records, messages, flow, known, admission, attempt, run, ran, unwritten, human, stops>>

WaitCancelled(c) ==
  /\ Waits(c) /\ cancelled
  /\ heard' = [heard EXCEPT ![c] = "done"]
  /\ UNCHANGED <<records, messages, flow, admits, stop, tasks, human, stops>>

ResolveTool(c) ==
  /\ resolve[c] = "started"
  /\ resolve' = [resolve EXCEPT ![c] =
       IF Settled(c) THEN "wrote" ELSE IF status[c] = "waiting" THEN "body" ELSE "closing"]
  /\ UNCHANGED <<records, messages, flow, known, admission, attempt, run, ran, unwritten, taken, human, stops>>

\* on_resolve turns the resolution into a result, or raises.
ResolveWrite(c) ==
  /\ resolve[c] \in {"body", "closing"}
  /\ IF resolve[c] = "closing" THEN UpdateStatus(c, "failed", "error")
     ELSE \E r \in IF taken[c] = "timeout" THEN {"timed_out"}
                   ELSE {taken[c], "error", "finish"} : FinishWaiting(c, StatusOf(r), r)
  /\ resolve' = [resolve EXCEPT ![c] = "wrote"]
  /\ UNCHANGED <<messages, flow, known, admission, attempt, run, ran, unwritten, taken, human, stops>>

ResolveReport(c) ==
  /\ stage = "working" /\ heard[c] = "pending"
  /\ resolve[c] = "wrote"
  /\ heard' = [heard EXCEPT ![c] = "done"]
  /\ stop' = (stop \/ EndsRun(c))
  /\ resolve' = [resolve EXCEPT ![c] = "over"]
  /\ UNCHANGED <<records, messages, flow, admits, admission, attempt, run, ran, unwritten, taken, human, stops>>

\* resolve_tool has one attempt.
ResolveLost(c) ==
  /\ stage = "working" /\ heard[c] = "pending"
  /\ resolve[c] \in {"started", "body", "closing", "wrote"}
  /\ heard' = [heard EXCEPT ![c] = "error"]
  /\ UNCHANGED <<records, messages, flow, admits, stop, tasks, human, stops>>

-----------------------------------------------------------------------------
(* The barrier, and what ends the group.                                   *)

\* Mutant: the first outcome ends the barrier.
SomeHeard == \E c \in Calls : heard[c] = "done"

AllHeard == \A c \in Calls : heard[c] # "pending"

\* Every started activity is drained; a failed one fails the run only then.
Barrier ==
  /\ stage = "working" /\ AllHeard
  /\ todo' = Calls
  /\ IF \E c \in Calls : heard[c] = "error"
     THEN stage' = "repairing" /\ verdict' = "failed"
     ELSE IF cancelled
     THEN stage' = "repairing" /\ verdict' = "cancelled"
     ELSE stage' = "finalizing" /\ UNCHANGED verdict
  /\ UNCHANGED <<records, messages, faults, hand, known, tasks, human, stops>>

ToldResult(c) == IF result[c] = NoResult THEN "no_result" ELSE result[c]

\* finalize_tool_group, one call at a time.
FinalizeToolGroup(c) ==
  /\ stage = "finalizing" /\ c \in todo
  /\ AppendToolResult("workflow", c, ToldResult(c))
  /\ todo' = todo \ {c}
  /\ UNCHANGED <<records, stage, verdict, faults, hand, known, tasks, human, stops>>

\* The group is over for the run: it goes on, stops when a result says so, or
\* is finalized as cancelled when the cancel signal arrived meanwhile.
GroupDone ==
  /\ stage = "finalizing" /\ todo = {} /\ posting["workflow"] = {}
  /\ IF cancelled
     THEN stage' = "repairing" /\ verdict' = "cancelled" /\ todo' = Calls
     ELSE /\ stage' = "closed" /\ verdict' = IF stop THEN "completed" ELSE "continue"
          /\ UNCHANGED todo
  /\ UNCHANGED <<records, messages, faults, hand, known, tasks, human, stops>>

\* A failed attempt starts over: finalize_tool_group once, then the run
\* fails; finalize_run until it succeeds.
LocalActivityFails ==
  /\ stage \in {"finalizing", "repairing"} /\ faults < MaxFaults
  /\ faults' = faults + 1
  /\ posting' = [posting EXCEPT !["workflow"] = {}]
  /\ todo' = Calls /\ hand' = {}
  /\ IF stage = "finalizing" /\ faults # 0
     THEN stage' = "repairing" /\ verdict' = "failed"
     ELSE UNCHANGED <<stage, verdict>>
  /\ UNCHANGED <<records, posted, known, tasks, human, stops>>

\* Mutant: only a call that this repair closed is paired.
RepairOpenOnly(c) ==
  /\ stage = "repairing" /\ c \in todo /\ hand = {}
  /\ IF verdict = "cancelled" THEN UpdateStatus(c, "completed", "cancelled")
                              ELSE UpdateStatus(c, "failed", "uncertain")
  /\ todo' = todo \ {c} /\ hand' = IF Settled(c) THEN {} ELSE {c}
  /\ UNCHANGED <<messages, stage, verdict, faults, known, tasks, human, stops>>

\* finalize_run for a run that failed or was cancelled: close the call if it
\* is open ...
RepairClose(c) ==
  /\ stage = "repairing" /\ c \in todo /\ hand = {}
  /\ IF verdict = "cancelled" THEN UpdateStatus(c, "completed", "cancelled")
                              ELSE UpdateStatus(c, "failed", "uncertain")
  /\ todo' = todo \ {c} /\ hand' = {c}
  /\ UNCHANGED <<messages, stage, verdict, faults, known, tasks, human, stops>>

\* Mutant: the repair tells what it meant to write, without reading it again.
RepairTellsItself(c) ==
  /\ stage = "repairing" /\ c \in hand
  /\ AppendToolResult("workflow", c, IF verdict = "cancelled" THEN "cancelled" ELSE "uncertain")
  /\ hand' = {}
  /\ UNCHANGED <<records, stage, verdict, faults, todo, known, tasks, human, stops>>

\* ... read it again and pair it in the transcript.
RepairAppend(c) ==
  /\ stage = "repairing" /\ c \in hand
  /\ AppendToolResult("workflow", c, ToldResult(c))
  /\ hand' = {}
  /\ UNCHANGED <<records, stage, verdict, faults, todo, known, tasks, human, stops>>

\* The run is finished.  A workflow that was asked to cancel then repairs the
\* whole thread (apply_thread_cancellation) before it closes.
RunFinished ==
  /\ stage = "repairing" /\ todo = {} /\ hand = {} /\ posting["workflow"] = {}
  /\ IF sweep["workflow"] = "due"
     THEN /\ stage' = "sweeping"
          /\ sweep' = [sweep EXCEPT !["workflow"] = "closing"]
          /\ swept' = [swept EXCEPT !["workflow"] = {c \in Calls : ~Settled(c)}]
     ELSE stage' = "closed" /\ UNCHANGED <<sweep, swept>>
  /\ UNCHANGED <<records, messages, verdict, faults, todo, hand, known, tasks, human, cancelled, cancelReq>>

-----------------------------------------------------------------------------
(* Cancellation.                                                           *)

CancelSignal ==
  /\ "signal" \in Cancels /\ ~cancelled /\ stage # "closed"
  /\ cancelled' = TRUE
  /\ UNCHANGED <<records, messages, flow, known, tasks, human, cancelReq, sweep, swept>>

\* AgentRuntime.cancel_thread: ask the workflow to cancel, then
\* record_cancelled in the caller's own process.
CancelThread ==
  /\ "client" \in Cancels /\ sweep["client"] = "off"
  /\ cancelReq' = (stage # "closed")
  /\ sweep' = [sweep EXCEPT !["client"] = "due"]
  /\ UNCHANGED <<records, messages, flow, known, tasks, human, cancelled, swept>>

\* record_cancelled by the client starts with a read of the open calls.
CancelThreadSweep ==
  /\ sweep["client"] = "due"
  /\ sweep' = [sweep EXCEPT !["client"] = "closing"]
  /\ swept' = [swept EXCEPT !["client"] = {c \in Calls : ~Settled(c)}]
  /\ UNCHANGED <<records, messages, flow, known, tasks, human, cancelled, cancelReq>>

\* The caller's process may end at any point of it.
ClientDies ==
  /\ sweep["client"] \in {"due", "closing", "pairing"}
  /\ sweep' = [sweep EXCEPT !["client"] = "dead"]
  /\ swept' = [swept EXCEPT !["client"] = {}]
  /\ posting' = [posting EXCEPT !["client"] = {}]
  /\ UNCHANGED <<records, posted, flow, known, tasks, human, cancelled, cancelReq>>

\* The workflow sees the request: a tool group is abandoned and its run
\* finalized as cancelled (_record_cancellation); a local activity that is
\* cancelled raises ActivityError, which fails the run while the group is
\* being finalized, and ends the execution while the run is.
WorkflowCancelled ==
  /\ cancelReq /\ stage \in {"admitting", "working", "finalizing", "repairing"}
  /\ sweep["workflow"] = "off"
  /\ cancelReq' = FALSE
  /\ posting' = [posting EXCEPT !["workflow"] = {}]
  /\ IF stage \in {"admitting", "working"}
     THEN /\ stage' = "repairing" /\ verdict' = "cancelled" /\ todo' = Calls
          /\ sweep' = [sweep EXCEPT !["workflow"] = "due"]
          /\ UNCHANGED hand
     ELSE IF stage = "finalizing"
     THEN stage' = "repairing" /\ verdict' = "failed" /\ todo' = Calls /\ UNCHANGED <<hand, sweep>>
     ELSE stage' = "closed" /\ verdict' = "aborted" /\ todo' = {} /\ hand' = {} /\ UNCHANGED sweep
  /\ UNCHANGED <<records, posted, faults, known, tasks, human, cancelled, swept>>

\* record_cancelled: close every call read as open ...
SweepClose(w, c) ==
  /\ sweep[w] = "closing" /\ c \in swept[w]
  /\ UpdateStatus(c, "completed", "cancelled")
  /\ swept' = [swept EXCEPT ![w] = @ \ {c}]
  /\ UNCHANGED <<messages, flow, known, tasks, human, cancelled, cancelReq, sweep>>

\* ... read the transcript for the calls without a result ...
SweepScan(w) ==
  /\ sweep[w] = "closing" /\ swept[w] = {}
  /\ sweep' = [sweep EXCEPT ![w] = "pairing"]
  /\ swept' = [swept EXCEPT ![w] = {c \in Calls : posted[c] = <<>>}]
  /\ UNCHANGED <<records, messages, flow, known, tasks, human, cancelled, cancelReq>>

\* ... and pair each of them.
SweepPair(w, c) ==
  /\ sweep[w] = "pairing" /\ c \in swept[w]
  /\ AppendToolResult(w, c, IF result[c] = NoResult THEN "cancelled" ELSE result[c])
  /\ swept' = [swept EXCEPT ![w] = @ \ {c}]
  /\ UNCHANGED <<records, flow, known, tasks, human, cancelled, cancelReq, sweep>>

\* apply_thread_cancellation is retried until it succeeds.
SweepFails ==
  /\ sweep["workflow"] \in {"closing", "pairing"} /\ faults < MaxFaults
  /\ faults' = faults + 1
  /\ sweep' = [sweep EXCEPT !["workflow"] = "closing"]
  /\ swept' = [swept EXCEPT !["workflow"] = {c \in Calls : ~Settled(c)}]
  /\ posting' = [posting EXCEPT !["workflow"] = {}]
  /\ UNCHANGED <<records, posted, stage, verdict, todo, hand, known, tasks, human, cancelled, cancelReq>>

SweepDone(w) ==
  /\ sweep[w] = "pairing" /\ swept[w] = {} /\ posting[w] = {}
  /\ sweep' = [sweep EXCEPT ![w] = "done"]
  /\ stage' = IF w = "workflow" THEN "closed" ELSE stage
  /\ UNCHANGED <<records, messages, verdict, faults, todo, hand, known, tasks, human, cancelled, cancelReq, swept>>

Insert(w) ==
  /\ InsertToolResult(w)
  /\ UNCHANGED <<records, flow, known, tasks, human, stops>>

-----------------------------------------------------------------------------
Admission(c)  == AdmitTool(c) \/ AdmitUnwritten(c) \/ AdmitReport(c) \/ AdmitLost(c)
Execution(c)  == \/ \E k \in Attempts : \/ ExecuteTool(c, k) \/ ExecuteFailed(c, k)
                                        \/ ExecuteWrite(c, k) \/ ExecuteUnwritten(c, k)
                 \/ ExecuteReport(c) \/ ExecuteLost(c)
Waiting(c)    == TakeResolution(c) \/ WaitTimeout(c) \/ WaitCancelled(c)
Resolution(c) == ResolveTool(c) \/ ResolveWrite(c) \/ ResolveReport(c) \/ ResolveLost(c)
Ending        == \/ StartWork \/ Barrier \/ GroupDone \/ RunFinished
                 \/ \E c \in Calls : FinalizeToolGroup(c) \/ RepairClose(c) \/ RepairAppend(c)
Sweep(w)      == \/ SweepScan(w) \/ SweepDone(w) \/ Insert(w)
                 \/ \E c \in Calls : SweepClose(w, c) \/ SweepPair(w, c)
Client        == \/ CancelSignal \/ CancelThread \/ CancelThreadSweep \/ ClientDies
                 \/ \E c \in Calls, a \in Answers : ResolveToolCall(c, a) \/ ResolveSignal(c, a)

Next ==
  \/ \E c \in Calls : Admission(c) \/ Execution(c) \/ Waiting(c) \/ Resolution(c)
  \/ Ending
  \/ LocalActivityFails \/ SweepFails
  \/ WorkflowCancelled
  \/ \E w \in Writers : Sweep(w)
  \/ Client

Spec == Init /\ [][Next]_vars

\* Temporal runs or times out every attempt it waits for and fires its timers;
\* nobody need answer, cancel, or survive.
Fairness ==
  /\ \A c \in Calls : /\ WF_vars(Admission(c)) /\ WF_vars(Execution(c))
                      /\ WF_vars(Waiting(c))   /\ WF_vars(Resolution(c))
  /\ WF_vars(Ending)
  /\ WF_vars(Sweep("workflow"))

FairSpec == Spec /\ Fairness
-----------------------------------------------------------------------------
(* Properties.                                                             *)

AttemptStates == {"idle", "started", "closing", "body", "wrote", "unwritten", "over"}

TypeOK ==
  /\ StoreTypeOK
  /\ stage \in {"admitting", "working", "finalizing", "repairing", "sweeping", "closed"}
  /\ verdict \in {None, "continue", "completed", "failed", "cancelled", "aborted"}
  /\ faults \in 0 .. MaxFaults
  /\ todo \subseteq Calls /\ hand \subseteq Calls
  /\ admits \in [Calls -> Verdict \cup {"pending", "error"}]
  /\ heard \in [Calls -> {"pending", "done", "error"}]
  /\ stop \in BOOLEAN
  /\ admission \in [Calls -> Verdict \cup {"started", "adrift", "over"}]
  /\ attempt \in [Calls -> 0 .. MaxAttempts]
  /\ run \in [Calls -> [Attempts -> AttemptStates]]
  /\ unwritten \subseteq Calls
  /\ ran \in [Calls -> Nat]
  /\ resolve \in [Calls -> {"idle", "started", "closing", "body", "wrote", "over"}]
  /\ taken \in [Calls -> Answers \cup {None, "timeout"}]
  /\ resolutions \in [Calls -> Answers \cup {None}]
  /\ mail \subseteq Calls \X Answers
  /\ first \in [Calls -> Answers \cup {None}]
  /\ cancelled \in BOOLEAN /\ cancelReq \in BOOLEAN
  /\ sweep \in [Writers -> {"off", "due", "closing", "pairing", "done", "dead"}]
  /\ swept \in [Writers -> SUBSET Calls]

\* What the transcript says of a call is the result its record holds for good,
\* whether finalize_tool_group, finalize_run or record_cancelled wrote it: never
\* "No result", never a cancellation placeholder beside a result.  The exception
\* is a call whose outcome was reported to the workflow and could not be stored.
TranscriptAgrees ==
  \A c \in Calls \ unwritten : \A i \in 1 .. Len(posted[c]) :
    Settled(c) /\ posted[c][i] = result[c]

\* The transcript never holds two tool messages for one call
\* (append_tool_result is idempotent by tool_call_id).
OneMessagePerCall == \A c \in Calls : Len(posted[c]) <= 1

\* A group that is over left no call without a tool message (a provider refuses
\* such a transcript), however it ended, and so did a cancel_thread that
\* returned.  The exception is an execution whose finalize_run was cancelled.
PairedAtRest ==
  (stage = "closed" /\ verdict # "aborted") \/ sweep["client"] = "done"
    => \A c \in Calls : posted[c] # <<>>

\* Over a store that appends atomically, a group at rest has one message per call.
OneMessageEach == OneMessagePerCall /\ PairedAtRest

\* Once finalize_tool_group runs, no activity of the group, given up or not,
\* can change a record any more: the barrier waited for every stored outcome.
BarrierDrained ==
  stage = "finalizing" => \A c \in Calls \ unwritten : Settled(c)

\* The state is well formed, and the barrier of a group let nothing through.
GroupInv == TypeOK /\ BarrierDrained

\* A call with a terminal record keeps its status and its result, whichever
\* attempt, repair or resolution comes later.
SettledForever ==
  [][\A c \in Calls : Settled(c) => status'[c] = status[c] /\ result'[c] = result[c]]_vars

\* The body of a tool that is not retry_safe is entered at most once over all
\* attempts, and no body without an execute verdict.
BodyEnteredOnce ==
  \A c \in Calls : /\ c \notin RetrySafe => ran[c] <= 1
                   /\ ran[c] > 0 => admits[c] = "execute"

\* The answer a call ends with, or is being resolved with, is the first one
\* that reached the workflow, however many were signalled and however late.
FirstAnswerWins ==
  \A c \in Calls : /\ result[c] \in Answers => result[c] = first[c]
                   /\ taken[c] \in Answers => taken[c] = first[c]

\* The run stops after the group exactly when some stored result is terminal,
\* whichever attempt or resolution stored it.
StopIsStored ==
  verdict \in {"continue", "completed"} /\ unwritten = {} =>
    (verdict = "completed" <=> \E c \in Calls : result[c] = "finish")

\* Every group ends, though nobody answers and every worker may be lost.
GroupEnds == <>(stage = "closed")

Promise == INSTANCE ToolGroupPromise WITH
  Unsettled <- NoResult,
  settled   <- [c \in Calls |-> IF Settled(c) THEN result[c] ELSE NoResult],
  told      <- posted,
  ended     <- stage = "closed" /\ verdict # "aborted"

\* The group keeps its promise to the run.
KeepsPromise == Promise!Spec
=============================================================================
