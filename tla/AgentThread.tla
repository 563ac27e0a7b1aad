---------------------------- MODULE AgentThread ----------------------------
(***************************************************************************)
(* The life of one agent thread: AgentThreadWorkflow.run and the runs it   *)
(* opens, the activities start_run, run_turn, finalize_run and             *)
(* apply_thread_cancellation, and the clients that send messages and       *)
(* cancel.  The thread's row is read and written whole, in two steps; a    *)
(* turn holds the row it read while the model answers.                     *)
(*                                                                         *)
(* A tool group is one step here, taken by its promise (ToolGroupPromise): *)
(* every call the turn asked for is settled and told.  Compaction, the     *)
(* turn gate and the finish reminder are left out.                         *)
(***************************************************************************)
EXTENDS Naturals, Sequences, FiniteSets

CONSTANTS
  Msgs,          \* messages the clients send, each once
  MaxTurns,      \* max_turns_per_run
  MaxAttempts,   \* _LOST_TURN_RETRY.maximum_attempts
  Survivors,     \* TRUE: a run_turn attempt Temporal gave up may go on
  Interleaves,   \* interleave_inbox
  Cancels        \* the ways this instance is cancelled: a subset of
                 \* {"client", "signal"}

ASSUME ThreadAssumption ==
  /\ IsFiniteSet(Msgs)
  /\ MaxTurns \in Nat \ {0}
  /\ MaxAttempts \in Nat \ {0}
  /\ Survivors \in BOOLEAN
  /\ Interleaves \in BOOLEAN
  /\ Cancels \subseteq {"client", "signal"}

Runs     == 1 .. Cardinality(Msgs)               \* each run takes a message
Turns    == 1 .. Cardinality(Msgs) * MaxTurns
Attempts == 1 .. MaxAttempts

VARIABLES
  \* the stores
  thread,     \* the thread's row: status, active_run_id (0: None), turn_count
  runs,       \* per run, its row: status, turn_count
  stored,     \* the user messages of the transcript, each with its turn
  answered,   \* per turn, the attempts that stored an assistant message
  calls,      \* per turn and attempt, the tool calls that answer asks for
  \* the workflow
  wf,         \* where AgentThreadWorkflow.run stands; "closed": no execution
  recording,  \* _record_cancellation is under way
  cut,        \* the runs under way when a cancelled local activity ended the
              \* execution (history)
  inbox, fresh,          \* _inbox, new_messages
  lastRun, current,      \* runs opened so far, _current_run_id (0: None)
  left, count, outcome,  \* turns_remaining, _turn_count_total, the RunOutcome
  cancelled,  \* _cancelled
  cancelReq,  \* the execution was asked to cancel and has not seen it
  took,       \* per message, the run that drained it from the inbox (history)
  seen,       \* where the last cancel request was seen, until the next message
              \* (history)
  \* the activities
  turn,       \* turns begun so far; the last is the one under way
  attempt,    \* the attempt of it that Temporal waits for
  payload,    \* per turn, its RunTurnInput: run, turn_index, new_messages
  act,        \* per turn and attempt, the run_turn activity
  astray,     \* an attempt that Temporal gave up went on (history)
  row,        \* per process, the row it has read and is about to write
  \* the clients
  sent,       \* messages sent, in order (history)
  client,     \* cancel_thread
  rewound     \* a client wrote a row that had counted fewer turns (history)

stores     == <<thread, runs, stored, answered, calls>>
flow       == <<wf, recording, cut, outcome>>
position   == <<lastRun, current, left, count>>
queues     == <<inbox, fresh, took>>
stops      == <<cancelled, cancelReq, seen>>
activities == <<turn, attempt, payload, act, astray>>
clients    == <<sent, client, rewound>>
vars == <<stores, flow, position, queues, stops, activities, row, clients>>

Finished == {"idle", "exhausted", "failed", "cancelled"}
NoRow    == [status |-> "idle", active |-> 0, turns |-> 0]
Asleep   == [pc |-> "none", thread |-> NoRow, turns |-> 0, skip |-> 0, reply |-> 0]

\* An attempt that takes no further step.
Spent(pc, reply) == [Asleep EXCEPT !.pc = pc, !.reply = reply]

RunOf(t)    == payload[t].run
Members(s) == {s[i] : i \in 1 .. Len(s)}

Init ==
  /\ thread = NoRow
  /\ runs = [r \in Runs |-> [status |-> "absent", turns |-> 0]]
  /\ stored = <<>>
  /\ answered = [t \in Turns |-> <<>>]
  /\ calls = [t \in Turns |-> [k \in Attempts |-> "none"]]
  /\ wf = "closed" /\ recording = FALSE /\ cut = {} /\ outcome = "none"
  /\ inbox = <<>> /\ fresh = <<>> /\ took = [m \in Msgs |-> 0]
  /\ lastRun = 0 /\ current = 0 /\ left = 0 /\ count = 0
  /\ cancelled = FALSE /\ cancelReq = FALSE /\ seen = "nowhere"
  /\ turn = 0 /\ attempt = 0
  /\ payload = [t \in Turns |-> [run |-> 0, index |-> 0, msgs |-> <<>>]]
  /\ act = [t \in Turns |-> [k \in Attempts |-> Asleep]] /\ astray = FALSE
  /\ row = [p \in {"workflow", "client"} |-> NoRow]
  /\ sent = <<>> /\ client = "off" /\ rewound = FALSE

-----------------------------------------------------------------------------
(* The rows, and what an outcome makes of them.                            *)

\* ThreadStore.update writes the row whole, as it was read and changed since.
WriteThread(t) == thread' = t

\* RunStore.create, update (the row as it was read) and finish (its status alone).
CreateRun(r)         == runs' = [runs EXCEPT ![r].status = "active"]
UpdateRun(r, turns)  == runs' = [runs EXCEPT ![r] = [status |-> "active", turns |-> turns]]
FinishRun(r, status) == runs' = [runs EXCEPT ![r].status = status]

RunStatus(o)    == IF o = "completed" THEN "idle" ELSE o
ThreadStatus(o) == IF o \in {"failed", "cancelled"} THEN o ELSE "idle"

-----------------------------------------------------------------------------
(* Messages.                                                               *)

\* AgentRuntime.send_message: the signal reaches the execution that is open,
\* or starts one.
SendMessage(m) ==
  /\ m \notin Members(sent)
  /\ sent' = Append(sent, m)
  /\ seen' = "nowhere"
  /\ IF wf = "closed"
     THEN /\ wf' = "idle" /\ inbox' = <<m>>
          /\ recording' = FALSE /\ cancelled' = FALSE /\ cancelReq' = FALSE
          /\ current' = 0 /\ count' = 0
     ELSE /\ inbox' = Append(inbox, m)
          /\ UNCHANGED <<wf, recording, cancelled, cancelReq, current, count>>
  /\ UNCHANGED <<stores, cut, outcome, lastRun, left, fresh, took, activities, row, client, rewound>>

-----------------------------------------------------------------------------
(* A run.                                                                  *)

\* The thread wakes; the inbox is drained into a new run and start_run opens
\* it and reads the thread's row.
StartRun ==
  /\ wf = "idle" /\ inbox # <<>> /\ ~cancelled
  /\ lastRun' = lastRun + 1 /\ current' = lastRun'
  /\ fresh' = inbox /\ inbox' = <<>>
  /\ took' = [m \in Msgs |-> IF m \in Members(inbox) THEN lastRun' ELSE took[m]]
  /\ CreateRun(lastRun')
  /\ row' = [row EXCEPT !["workflow"] = thread]
  /\ wf' = "starting"
  /\ UNCHANGED <<thread, stored, answered, calls, recording, cut, outcome, left, count, stops, activities, clients>>

TurnsSoFar == row["workflow"].turns

\* start_run writes the row and returns the turns the row has counted.  A run
\* of a definition that cannot be resolved fails at once.
StartRunWrite ==
  /\ wf = "starting"
  /\ WriteThread([row["workflow"] EXCEPT !.status = "active", !.active = current])
  /\ count' = TurnsSoFar /\ left' = MaxTurns
  /\ \/ wf' = "looping" /\ UNCHANGED outcome
     \/ wf' = "finalizing" /\ outcome' = "failed"
  /\ UNCHANGED <<runs, stored, answered, calls, recording, cut, lastRun, current, queues, stops, activities, row, clients>>

MayTurn == left > 0 /\ ~cancelled

NewMessages == IF Interleaves THEN fresh \o inbox ELSE fresh

\* The next turn, or the end of the loop.
BeginTurn ==
  /\ wf = "looping" /\ MayTurn
  /\ fresh' = NewMessages
  /\ payload' = [payload EXCEPT ![turn + 1] =
       [run |-> current, index |-> count + 1, msgs |-> NewMessages]]
  /\ inbox' = IF Interleaves THEN <<>> ELSE inbox
  /\ took' = [m \in Msgs |-> IF Interleaves /\ m \in Members(inbox) THEN current ELSE took[m]]
  /\ turn' = turn + 1 /\ attempt' = 1
  /\ act' = [act EXCEPT ![turn + 1][1].pc = "started"]
  /\ wf' = "turning"
  /\ UNCHANGED <<stores, recording, cut, outcome, position, stops, astray, row, clients>>

\* Mutant: the end of the loop does not look at the cancel flag.
LoopSpent == left = 0

LoopOver == left = 0 \/ cancelled

LoopEnds ==
  /\ wf = "looping" /\ LoopOver
  /\ wf' = "finalizing" /\ outcome' = IF cancelled THEN "cancelled" ELSE "exhausted"
  /\ UNCHANGED <<stores, recording, cut, position, queues, stops, activities, row, clients>>

-----------------------------------------------------------------------------
(* run_turn: one attempt.                                                  *)

At(t, k, pc) == act[t][k].pc = pc
Step(t, k, pc) == act' = [act EXCEPT ![t][k].pc = pc]

\* Mutant: a later attempt does not look for the answer an earlier one stored.
NeverResumes(t, k) == FALSE

Resumes(t, k) == k > 1 /\ answered[t] # <<>>

\* Mutant: a later attempt stores the turn's messages again.
StoresAgain(t, k) == 0

\* The messages of its turn an attempt finds in the transcript.
FoundStored(t, k) ==
  IF k > 1 THEN Cardinality({i \in 1 .. Len(stored) : stored[i][2] = t}) ELSE 0

\* An attempt looks for what earlier ones stored and reads the rows it will
\* write.
RunTurn(t, k) ==
  /\ At(t, k, "started")
  /\ act' = [act EXCEPT ![t][k] =
       [pc     |-> IF Resumes(t, k) THEN "resumed" ELSE "inbound",
        thread |-> thread,
        turns  |-> runs[RunOf(t)].turns,
        skip   |-> FoundStored(t, k),
        reply  |-> IF Resumes(t, k) THEN answered[t][Len(answered[t])] ELSE k]]
  /\ UNCHANGED <<stores, flow, position, queues, stops, turn, attempt, payload, astray, row, clients>>

AppendInbound(t, k) ==
  /\ At(t, k, "inbound") /\ act[t][k].skip < Len(payload[t].msgs)
  /\ stored' = Append(stored, <<payload[t].msgs[act[t][k].skip + 1], t>>)
  /\ act' = [act EXCEPT ![t][k].skip = @ + 1]
  /\ UNCHANGED <<thread, runs, answered, calls, flow, position, queues, stops, turn, attempt, payload, astray, row, clients>>

\* The model answers in prose or asks for tools; the assistant message and its
\* call records are one transaction.
AppendAssistant(t, k) ==
  /\ At(t, k, "inbound") /\ act[t][k].skip >= Len(payload[t].msgs)
  /\ answered' = [answered EXCEPT ![t] = Append(@, k)]
  /\ \/ calls' = [calls EXCEPT ![t][k] = "open"]
     \/ UNCHANGED calls
  /\ Step(t, k, "answered")
  /\ UNCHANGED <<thread, runs, stored, flow, position, queues, stops, turn, attempt, payload, astray, row, clients>>

\* The model call, or a read or write of a store, failed: no attempt follows.
TurnError(t, k) ==
  /\ act[t][k].pc \in {"started", "inbound", "resumed", "answered", "counted"}
  /\ act' = [act EXCEPT ![t][k] = Spent("error", 0)]
  /\ UNCHANGED <<stores, flow, position, queues, stops, turn, attempt, payload, astray, row, clients>>

\* _run_turn counts its turn on the row it read at its start; _stored_turn
\* does so only when the row has not counted it.
CountThreadTurn(t, k) ==
  /\ \/ At(t, k, "answered")
     \/ At(t, k, "resumed") /\ act[t][k].thread.turns < payload[t].index
  /\ WriteThread([act[t][k].thread EXCEPT !.turns = @ + 1])
  /\ Step(t, k, "counted")
  /\ UNCHANGED <<runs, stored, answered, calls, flow, position, queues, stops, turn, attempt, payload, astray, row, clients>>

CountRunTurn(t, k) ==
  /\ At(t, k, "counted")
  /\ UpdateRun(RunOf(t), act[t][k].turns + 1)
  /\ Step(t, k, "done")
  /\ UNCHANGED <<thread, stored, answered, calls, flow, position, queues, stops, turn, attempt, payload, astray, row, clients>>

CountedBefore(t, k) ==
  /\ At(t, k, "resumed") /\ act[t][k].thread.turns >= payload[t].index
  /\ Step(t, k, "done")
  /\ UNCHANGED <<stores, flow, position, queues, stops, turn, attempt, payload, astray, row, clients>>

Attempt(t, k) == \/ RunTurn(t, k) \/ AppendInbound(t, k) \/ AppendAssistant(t, k) \/ TurnError(t, k)
                 \/ CountThreadTurn(t, k) \/ CountRunTurn(t, k) \/ CountedBefore(t, k)

-----------------------------------------------------------------------------
(* What the workflow makes of it.                                          *)

Reply == act[turn][attempt].reply

TurnReturns ==
  /\ wf = "turning" /\ At(turn, attempt, "done")
  /\ fresh' = <<>> /\ count' = count + 1 /\ left' = left - 1
  /\ act' = [act EXCEPT ![turn][attempt] = Spent("over", Reply)]
  /\ IF calls[turn][Reply] # "none"
     THEN wf' = "grouping" /\ UNCHANGED outcome
     ELSE wf' = "finalizing" /\ outcome' = "completed"
  /\ UNCHANGED <<stores, recording, cut, lastRun, current, inbox, took, stops, turn, attempt, payload, astray, row, clients>>

TurnFails ==
  /\ wf = "turning" /\ At(turn, attempt, "error")
  /\ wf' = "finalizing" /\ outcome' = "failed"
  /\ UNCHANGED <<stores, recording, cut, position, queues, stops, activities, row, clients>>

\* What becomes of an attempt nobody waits for: it ends, or it survives and goes on.
GivenUp(a, goesOn) == IF goesOn THEN a ELSE Spent("dead", 0)

\* The attempt was lost (its heartbeats stopped, or it outlived its timeout).
TurnLost ==
  /\ wf = "turning" /\ act[turn][attempt].pc \notin {"error", "dead"}
  /\ \E goesOn \in {FALSE, Survivors} :
       /\ astray' = (astray \/ goesOn)
       /\ IF attempt < MaxAttempts
          THEN /\ attempt' = attempt + 1
               /\ act' = [act EXCEPT ![turn][attempt] = GivenUp(@, goesOn),
                                     ![turn][attempt + 1].pc = "started"]
               /\ UNCHANGED <<wf, outcome>>
          ELSE /\ wf' = "finalizing" /\ outcome' = "failed"
               /\ act' = [act EXCEPT ![turn][attempt] = GivenUp(@, goesOn)]
               /\ UNCHANGED attempt
  /\ UNCHANGED <<stores, recording, cut, position, queues, stops, turn, payload, row, clients>>

\* finalize_tool_group, the last step of a group, tells its calls.
GroupTold == calls' = [calls EXCEPT ![turn][Reply] = "told"]

\* The group is over: told (and the run goes on or a result ends it), failed
\* before or after it told its calls, or stopped by the cancel signal, which is
\* looked at before they are told and again after.
GroupOver ==
  /\ wf = "grouping"
  /\ \/ /\ ~cancelled /\ GroupTold
        /\ \/ wf' = "looping" /\ UNCHANGED outcome
           \/ wf' = "finalizing" /\ outcome' = "completed"
     \/ /\ wf' = "finalizing"
        /\ outcome' \in {"failed"} \cup (IF cancelled THEN {"cancelled"} ELSE {})
        /\ GroupTold \/ UNCHANGED calls
  /\ UNCHANGED <<thread, runs, stored, answered, recording, cut, position, queues, stops, activities, row, clients>>

-----------------------------------------------------------------------------
(* The end of a run.                                                       *)

Told(c) == IF c = "open" THEN "told" ELSE c

\* Mutant: a cancelled run is not repaired.
RepairsFailed == outcome = "failed"

\* Mutant: a failed run is not.
RepairsCancelled == outcome = "cancelled"

Repairs == outcome \in {"failed", "cancelled"}

\* finalize_run: a failed or cancelled run's calls are closed and told, its
\* row is finished, and the thread's row is read ...
FinalizeRun ==
  /\ wf = "finalizing"
  /\ calls' = [t \in Turns |-> [k \in Attempts |->
       IF Repairs /\ RunOf(t) = current THEN Told(calls[t][k]) ELSE calls[t][k]]]
  /\ FinishRun(current, RunStatus(outcome))
  /\ row' = [row EXCEPT !["workflow"] = thread]
  /\ wf' = "finalized"
  /\ UNCHANGED <<thread, stored, answered, recording, cut, outcome, position, queues, stops, activities, clients>>

\* ... and written.  The execution closes when nothing waits; otherwise it
\* goes on, as a new execution when its history has grown (continue_as_new
\* carries the inbox and nothing of the signals).
FinalizeWrite ==
  /\ wf = "finalized"
  /\ WriteThread([row["workflow"] EXCEPT !.active = 0, !.status = ThreadStatus(outcome)])
  /\ current' = 0
  /\ IF recording THEN wf' = "recorded" /\ UNCHANGED cancelled
     ELSE IF inbox = <<>> THEN wf' = "closed" /\ UNCHANGED cancelled
     ELSE wf' = "idle" /\ cancelled' \in {cancelled, FALSE}
  /\ UNCHANGED <<runs, stored, answered, calls, recording, cut, outcome, lastRun, left, count, queues, cancelReq, seen, activities, row, clients>>

-----------------------------------------------------------------------------
(* Cancellation.                                                           *)

\* The cancel signal.
CancelSignal ==
  /\ "signal" \in Cancels /\ wf # "closed" /\ ~cancelled
  /\ cancelled' = TRUE
  /\ UNCHANGED <<stores, flow, position, queues, cancelReq, seen, activities, row, clients>>

\* A thread that wakes cancelled closes without reading its inbox.
WakeCancelled ==
  /\ wf = "idle" /\ cancelled
  /\ wf' = "closed"
  /\ UNCHANGED <<stores, recording, cut, outcome, position, queues, stops, activities, row, clients>>

\* AgentRuntime.cancel_thread: ask the execution to cancel ...
CancelThread ==
  /\ "client" \in Cancels /\ client = "off" /\ sent # <<>>
  /\ cancelReq' = (wf # "closed")
  /\ client' = "asked"
  /\ UNCHANGED <<stores, flow, position, queues, cancelled, seen, activities, row, sent, rewound>>

\* record_cancelled: close and tell every open call and read the row ...
SweepCalls == calls' = [t \in Turns |-> [k \in Attempts |-> Told(calls[t][k])]]

\* ... and write it.
SweptRow(p) == [row[p] EXCEPT !.active = 0, !.status = "cancelled"]

ClientSweep ==
  /\ client = "asked"
  /\ SweepCalls
  /\ row' = [row EXCEPT !["client"] = thread]
  /\ client' = "swept"
  /\ UNCHANGED <<thread, runs, stored, answered, flow, position, queues, stops, activities, sent, rewound>>

ClientWrite ==
  /\ client = "swept"
  /\ WriteThread(SweptRow("client"))
  /\ client' = "done" /\ rewound' = (rewound \/ row["client"].turns < thread.turns)
  /\ UNCHANGED <<runs, stored, answered, calls, flow, position, queues, stops, activities, row, sent>>

\* Mutant: only a thread that waits for messages goes on to record it.
RecordsIdle == recording' = (wf = "idle")

RecordsWait == recording' = TRUE

\* The workflow sees the request.  At a wait of its own it records the
\* cancellation.
Records ==
  /\ wf \in {"idle", "grouping"}
  /\ seen' = wf /\ RecordsWait
  /\ IF current # 0 THEN wf' = "finalizing" /\ outcome' = "cancelled"
                    ELSE wf' = "recorded" /\ UNCHANGED outcome
  /\ UNCHANGED <<cut, act, astray, calls>>

\* A cancelled local activity ends the execution.
Aborts ==
  /\ wf \in {"starting", "finalizing", "finalized"}
  /\ seen' = wf /\ wf' = "closed" /\ cut' = cut \cup {current}
  /\ UNCHANGED <<recording, outcome, act, astray, calls>>

\* A cancelled run_turn is caught as a failed turn.
TurnCaught ==
  /\ wf = "turning"
  /\ seen' = wf /\ wf' = "finalizing" /\ outcome' = "failed"
  /\ \E goesOn \in {FALSE, Survivors} :
       /\ astray' = (astray \/ goesOn)
       /\ act' = [act EXCEPT ![turn][attempt] = GivenUp(@, goesOn)]
  /\ UNCHANGED <<recording, cut, calls>>

\* So is a cancelled finalize_tool_group, before or after it told its calls.
GroupCaught ==
  /\ wf = "grouping"
  /\ seen' = "telling" /\ wf' = "finalizing" /\ outcome' = "failed"
  /\ GroupTold \/ UNCHANGED calls
  /\ UNCHANGED <<recording, cut, act, astray>>

SeeCancel ==
  /\ cancelReq /\ ~recording
  /\ cancelReq' = FALSE
  /\ Records \/ Aborts \/ TurnCaught \/ GroupCaught
  /\ UNCHANGED <<thread, runs, stored, answered, position, queues, cancelled, turn, attempt, payload, row, clients>>

\* apply_thread_cancellation, in the same two steps.
ApplyThreadCancellation ==
  /\ wf = "recorded"
  /\ SweepCalls
  /\ row' = [row EXCEPT !["workflow"] = thread]
  /\ wf' = "sweeping"
  /\ UNCHANGED <<thread, runs, stored, answered, recording, cut, outcome, position, queues, stops, activities, clients>>

ApplyWrite ==
  /\ wf = "sweeping"
  /\ WriteThread(SweptRow("workflow"))
  /\ wf' = "closed"
  /\ UNCHANGED <<runs, stored, answered, calls, recording, cut, outcome, position, queues, stops, activities, row, clients>>

-----------------------------------------------------------------------------
Workflow == \/ StartRun \/ StartRunWrite \/ BeginTurn \/ LoopEnds
            \/ TurnReturns \/ TurnFails \/ GroupOver
            \/ FinalizeRun \/ FinalizeWrite
            \/ WakeCancelled \/ ApplyThreadCancellation \/ ApplyWrite

Next ==
  \/ Workflow \/ TurnLost \/ SeeCancel
  \/ \E t \in Turns, k \in Attempts : Attempt(t, k)
  \/ \E m \in Msgs : SendMessage(m)
  \/ CancelSignal \/ CancelThread \/ ClientSweep \/ ClientWrite

Spec == Init /\ [][Next]_vars

\* Workers run what Temporal gives them; nobody need send, cancel or survive.
Fairness == WF_vars(Workflow) /\ \A t \in Turns, k \in Attempts : WF_vars(Attempt(t, k))

FairSpec == Spec /\ Fairness
-----------------------------------------------------------------------------
(* Properties.                                                             *)

Rows == [status : {"idle", "active", "failed", "cancelled"}, active : {0} \cup Runs, turns : Nat]

TypeOK ==
  /\ thread \in Rows
  /\ runs \in [Runs -> [status : {"absent", "active"} \cup Finished, turns : Nat]]
  /\ stored \in Seq(Msgs \X Turns)
  /\ answered \in [Turns -> Seq(Attempts)]
  /\ calls \in [Turns -> [Attempts -> {"none", "open", "told"}]]
  /\ wf \in {"closed", "idle", "starting", "looping", "turning", "grouping",
             "finalizing", "finalized", "recorded", "sweeping"}
  /\ recording \in BOOLEAN
  /\ cut \subseteq Runs
  /\ outcome \in {"none", "completed", "exhausted", "failed", "cancelled"}
  /\ inbox \in Seq(Msgs) /\ fresh \in Seq(Msgs)
  /\ took \in [Msgs -> {0} \cup Runs]
  /\ lastRun \in {0} \cup Runs /\ current \in {0} \cup Runs
  /\ left \in 0 .. MaxTurns /\ count \in Nat
  /\ cancelled \in BOOLEAN /\ cancelReq \in BOOLEAN
  /\ seen \in {"nowhere", "idle", "starting", "turning", "grouping", "telling", "finalizing", "finalized"}
  /\ turn \in {0} \cup Turns /\ attempt \in {0} \cup Attempts
  /\ payload \in [Turns -> [run : {0} \cup Runs, index : Nat, msgs : Seq(Msgs)]]
  /\ act \in [Turns -> [Attempts ->
       [pc : {"none", "started", "inbound", "resumed", "answered", "counted", "done",
              "error", "over", "dead"},
        thread : Rows, turns : Nat, skip : Nat, reply : {0} \cup Attempts]]]
  /\ astray \in BOOLEAN
  /\ row \in [{"workflow", "client"} -> Rows]
  /\ sent \in Seq(Msgs)
  /\ client \in {"off", "asked", "swept", "done"} /\ rewound \in BOOLEAN

\* An attempt that Temporal gave up and that goes on stores what it has beside its
\* successor, and writes the row it read: until there is one (astray), the
\* transcript holds the messages that were sent, each once and in the order they
\* were sent, over retries, runs and interleaved inboxes.
StoredInOrder ==
  ~astray => \A i, j \in 1 .. Len(stored) : i < j =>
    \E a, b \in 1 .. Len(sent) : a < b /\ sent[a] = stored[i][1] /\ sent[b] = stored[j][1]

\* A run that ended well has every message it took in the transcript.
CompletedRunsStored ==
  \A m \in Msgs : took[m] # 0 /\ runs[took[m]].status \in {"idle", "exhausted"}
    => \E i \in 1 .. Len(stored) : stored[i][1] = m

\* A turn asks the model for one answer: an answer already stored is not asked
\* for again, and no tool call is stored that the workflow does not know of.
OneAnswerPerTurn ==
  ~astray => \A t \in Turns : Len(answered[t]) <= 1

\* A thread whose execution closed shows no active run, no run still open in its
\* rows and no call without a result, but of the runs that a cancelled local
\* activity cut off.
AtRest ==
  wf = "closed" =>
    /\ thread.active \in {0} \cup cut /\ (thread.status = "active" => thread.active # 0)
    /\ \A r \in Runs : runs[r].status = "active" => r \in cut
    /\ \A t \in Turns, k \in Attempts : calls[t][k] = "open" => RunOf(t) \in cut

\* While a run works, get_state names it, unless a client recorded a cancel.
RunIsShown ==
  wf \in {"looping", "turning", "grouping"} /\ client \in {"off", "asked"} =>
    thread.status = "active" /\ thread.active = current

\* A thread cancelled while its tools ran or its inbox waited stays recorded as
\* cancelled until somebody writes to it again.
CancelRecorded ==
  wf = "closed" /\ seen \in {"idle", "grouping"} /\ client = "done" =>
    thread.status = "cancelled" /\ thread.active = 0

\* Turns that were returned to the workflow have increasing turn numbers.
TurnsNumbered ==
  \A t, u \in Turns : t < u /\ (\E k \in Attempts : At(t, k, "over"))
    /\ payload[u].index # 0 => payload[t].index < payload[u].index

\* Every thread comes to rest.
ThreadRests == <>[](wf = "closed")

\* The state is well formed.  Until an attempt that Temporal gave up goes on, a
\* run that ended well stored what it took, a thread at rest shows nothing that
\* is still at work, and, until a client writes an older row back, turns are
\* numbered on from the thread's row.
ThreadInv ==
  /\ TypeOK
  /\ ~astray => CompletedRunsStored /\ AtRest /\ (rewound \/ TurnsNumbered)

\* What a reader of the rows sees of a run at work, and of one a client cancelled.
RowsShow == ~astray => RunIsShown /\ CancelRecorded
=============================================================================
