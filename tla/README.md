# Actant in TLA+

This directory holds a specification of Actant, a runtime that keeps conversations
between people and language-model agents alive over Temporal workflows. The
modules follow the code under `src/actant/`; `PROJECT.json` maps each definition to
the lines it stands for. TLC checks the modules on small instances, and TLAPS checks
proofs of the most important invariants for every instance.

## The system

| Component | State | Operations | Talks to |
|---|---|---|---|
| Thread workflow (`runtime/temporal/workflow.py`) | inbox, cancel flag, current run, turn counters, waiting resolutions, background summary | signals `inbound`, `cancel`, `resolve_tool`, `summary_ready`; the run loop; history rotation | schedules the activities, waits on them |
| Run activities (`activities/runs.py`) | none of its own | `start_run`, `run_turn`, `compact_context`, `store_summary`, `finalize_run` | stores, model provider |
| Tool activities (`activities/tools.py`) | none | `admit_tool`, `execute_tool`, `resolve_tool`, `finalize_tool_group` | stores, tools, sandboxes |
| Cancellation (`cancellation.py`, `activities/threads.py`) | none | `record_cancelled`, by the client and by the workflow | stores, sandbox registry |
| Stores (`stores/in_memory.py`, `stores/postgres/stores.py`) | thread and run rows, tool-call records, the transcript | guarded updates, whole-row updates, idempotent appends | database |
| Client API (`runtime.py`, `thread.py`) | none | `send_message`, `spawn`, `resolve_tool_call`, `cancel_thread`, `get_state` | Temporal, stores |
| Compaction (`compaction.py`, `ContextSummaryWorkflow`) | a summary under way or ready | measure, summarize, store over a base | transcript, model provider |
| Local runtime (`local.py`) | the same loop in one process | `run` | the same activities |
| Subagents (`tools/task.py`, `supervise.py`) | child threads | spawn, message, cancel with cascade | client API |
| Sandbox registry (`sandbox/registry.py`, `store.py`) | cached handles, shared resolves, a record per sandbox | `open`, `attach`, `close` | sandbox backend, record store |
| Sandbox host (`sandbox/host.py`, `processes.py`, `worker.py`) | call ids, instances, pending push | call, cancel, push, shutdown | worker processes, object storage |
| Storage of a sandbox (`sandbox/entry.py`, `modal.py`, the pusher of `host.py`) | a bucket prefix, its seed marker, the disk of each container | restore or seed, serve, push, close | `s5cmd`, the host |
| Rate limiter (`llm/rate_limit.py`) | sliding windows of tokens and requests | reserve, correct | model providers |
| Model providers (`llm/providers/`) | a stream under way, its retries and timeouts | `complete`: request, stream, answer | the limiter, a listener, a remote service |
| Message rows (`session.py`, `stores/postgres/conversion.py`) | parts of messages | to parts and back | stores, providers |
| Tools, events, assets, migrations, command line | | dispatch, notifications, start-up | not part of any decision of the runtime |

How the parts interact. A message is a signal that starts the thread's workflow when
none is open. The workflow opens a run, then alternates model turns (`run_turn`) and
tool groups until a turn answers in prose, the budget is spent, a result ends the run,
something fails or a cancel arrives; `finalize_run` closes the run, and the execution
closes when its inbox is empty. Nothing of the conversation lives in the workflow: it is
in the stores, which activities, surviving attempts of them and clients all write.

What makes it hard:

* Temporal may give an attempt up while it still runs, and starts another: two attempts,
  a repair and a client's cancellation write one record.
* Rows are written whole from copies read much earlier (a model call earlier).
* A cancel is seen at whatever the workflow awaits at that moment, and the exception it
  raises differs: `CancelledError` at a wait, `ActivityError` at an activity.
* A group's siblings end in any order, with failures, timeouts, answers by people and
  outcomes that could not be stored.
* `append_tool_result` is a lookup and an insert, in one step or in two.
* A background summary is written from a context that goes on growing, or is compacted
  meanwhile, by a child that outlives the run, the execution and the thread's next one.
* A call id of the sandbox host is sent again, cancelled before it arrives, forgotten; the
  worker process that runs it dies; a container dies in the middle of a copy or a push.
* A parent is cancelled while it spawns children, and while their runs report to it.
* A stream breaks after part of an answer was shown, or waits behind a limiter that others
  hold; a tool result joins the transcript late, twice or never.

What each component must guarantee, in short: a call is settled once and the transcript
tells that very result once; nothing is told before it is settled; a body with side
effects is entered once; the first answer counts; every group and thread ends; a
transcript at rest has no unanswered call; messages are stored once, in order; turns are
numbered upwards; rows at rest show no active run; a cancel stays recorded. Every message
is in the model's view or was read by the summary the view begins with. A cancel reaches the
children at work, and their reports reach the parent. A call id runs once, ends, and what it
wrote is stored; a container serves the whole workspace. A request pairs every call with one
output, and a listener ends with what the answer holds. `PROJECT.json` lists the hazards at their lines.

## Modules

| Module | Models |
|---|---|
| `ToolCallStore` | tool-call records and tool messages: `update_status`, `finish_waiting`, `append_tool_result` |
| `ToolGroup` (extends it) | `_run_tool_group`, `_resolve_tool`, the tool activities, the repair by `finalize_run`, both `record_cancelled` passes, the client |
| `ToolGroupPromise` | what a group promises the run: settle once, tell that result once, end when all are told |
| `AgentThread` | the thread workflow, `start_run`, `run_turn`, `finalize_run`, cancellation, rows and transcript |
| `ContextCompaction` | the view of a transcript, the turns of a thread that compacts, its summaries, under the workflow and under the local runtime |
| `Subagents` | a thread and its children: spawn, message, stop, reports, `cancel_thread` and its cascade |
| `SandboxRegistry` | one sandbox id under the registries of several workers, its record in the store and its backend |
| `SandboxHost` | the service host of a sandbox, its callers over HTTP, its worker processes |
| `SandboxDisk` | the stored files of a sandbox and the containers that seed, pull, write and push them |
| `RateLimiter` | the window of a provider, its lock and its corrections |
| `ModelCall` (extends it) | a call of the OpenAI provider: attempts, stream, timeouts, listener |
| `ProviderRequest` | a conversation through each adapter and store: rows, repair, request, answer |
| `ToolGroupProofs`, `AgentThreadProofs`, `ContextCompactionProofs`, `SubagentsProofs`, `SandboxRegistryProofs`, `SandboxProofs`, `ModelCallProofs`, `ProviderRequestProofs` | theorems about the module they extend; `SandboxProofs` extends both `SandboxHost` and `SandboxDisk`, whose specification is `DiskSpec` |
| `MC...` | instances for TLC |

How they fit together. `ToolGroup` extends `ToolCallStore` and implements `ToolGroupPromise`.
`AgentThread` takes a tool group as one step with the outcomes the promise allows, and a model
call as one step with the outcomes `ModelCall` ends in. `ContextCompaction` is the same
run loop seen from the transcript; `Subagents` is the same thread life with one turn and one
group a run, seen from its relatives. `ProviderRequest` starts from the transcript that the
others may leave, the duplicate results of two writers included. `SandboxHost` has the calls
of a host, `SandboxDisk` what those calls wrote.

### ToolCallStore and ToolGroup

A result is a tag that says who produced it; a tool's own result is `ok`, `error` or
`finish` (one whose metadata is terminal), an answer by a person is itself. A record is a
status and a result; a terminal record is never updated (`UpdateStatus`), and a resolution
is written only over a waiting one (`FinishWaiting`). `AtomicAppend` says which message
store is used: the in-memory one, whose append nothing can interrupt, or the Postgres one,
where `posting` holds what a process found absent and has still to insert.

`stage` is the position of `_run_tool_group` and of the end of the run after it:
`admitting`, `working` (the barrier), `finalizing` (`finalize_tool_group`), `repairing`
(`finalize_run` of a failed or cancelled run), `sweeping` (`apply_thread_cancellation`),
`closed`. Each activity has a state of its own per call, `run` one per attempt. An attempt
reads, enters the body and writes in separate steps. `AdmitLost`, `ExecuteLost` and
`ResolveLost` are Temporal giving an attempt up: the attempt stays where it is and may go
on writing, which also covers one that died. `heard` is what the workflow has received.
`unwritten` remembers the calls whose outcome was reported though the store refused it
(`_admit_failed` and `_execute_failed` swallow that error); properties about stored
outcomes except them by name.

A cancel reaches a group in two ways: the `cancel` signal sets a flag (`CancelSignal`),
and `cancel_thread` asks Temporal to cancel the execution and then runs
`record_cancelled` itself (`CancelThread`, the sweep of writer `"client"`). When the
workflow sees the request it abandons admission or work and repairs, then sweeps; during
`finalize_tool_group` it fails the run; during `finalize_run` the execution ends
(`verdict = "aborted"`).

Simplifications: `finalize_tool_group` and `finalize_run` tell the calls in any order, where
the code sorts them; building a tool's context is part of its body, and its failure is the
result `error`; an attempt of `apply_thread_cancellation` that was given up does not go on;
the cascade to children is in `Subagents`, the sandbox's close in `SandboxRegistry`.

### AgentThread

`wf` is the position of `AgentThreadWorkflow.run`; `closed` means that no execution is
open, and `SendMessage` starts one. `act` holds every `run_turn` attempt with the rows it
read when it began, because it writes those copies back when it ends. Thread rows are read
and written in two steps everywhere (`row`). A turn's messages are stored one at a time,
its answer and call records in one transaction, its counts in two. `TurnLost` gives the
attempt up; with `Survivors` it may go on (`astray`, history), otherwise it stops. `TurnError`
is any exception of `run_turn`: it is not retried. `FinalizeWrite` may turn the execution into a
new one (`continue_as_new`), which drops the cancel flag and keeps the inbox.

What a client's request to cancel does is decided by what the workflow awaits when it sees it
(`SeeCancel`, `seen`): at the inbox, or in the group before its results are told, it is recorded
(`Records`); in `start_run` or `finalize_run` it ends the execution where it stands (`Aborts`, the
run is in `cut`); in `run_turn` (`TurnCaught`) and in `finalize_tool_group` (`GroupCaught`) it is
caught as a failed run and the execution goes on. `ClientSweep` and `ClientWrite` are the client's
own `record_cancelled`; `rewound` remembers that it wrote back a row that had counted fewer turns.

Left out: compaction, background summaries and the turn gate (`ContextCompaction`), the finish
reminder, attempts of local activities that fail and are repeated, the order of events. A tool
group is one step, `GroupOver`, whose outcomes are those `ToolGroupPromise` allows: every
call settled and told, or left to `finalize_run`.

### ContextCompaction

A message is its position in `rows`; a compaction row names the messages it keeps, the row it
follows (`base`) and, as history, every message its summary has seen (`covers`). `View` is what
`list_for_model` and `build_view` give a model, `Replaceable` what `pending_start` lets a
summary replace, `Kept` what `_store_summary` keeps. Every message has size one, so `Hard` and
`Soft` are numbers of messages; images are messages like others.

`wf` is the position of the thread: a turn stores the summary it was handed (`store`, `row`),
asks the gate, measures, and then stores its messages and asks the model, or stops before
either (`MeasureAbove`), waits for the summary that is being written (`wait`) or writes one
itself (`compact` to `resend`). A turn below the hard limit and above the soft one makes the
workflow start `ContextSummaryWorkflow` (`child`), which signals the thread or, when it finds
the execution closed, stores the summary itself. Reading the rows and appending the row are two
steps for both. `AttemptLost` gives a `run_turn` attempt up after it stored its summary.

`caller = "local"` is `LocalThreadRuntime`: the same activities without an inbox and without lost
attempts. `child` is then the `asyncio` task and `job` its place in `_summarizing`: the workflow
clears `_summary_job` when it is signalled and keeps it over a failed child until the hard limit;
the local runtime pops a task that is done at the next turn, failed or not (`Taken`), and a run
that closes leaves a running task behind (`Outlives`), which stores its own summary when it finds
no run open (`LocalSummarizes`).

A client's message may open the thread while its summary is on the way into the store (`beside`),
and the thread may then turn and compact between that read and that append. A compaction row
remembers the length of the transcript it was computed from (`read`), and `Missed` is what came
between: the code loses it, and the properties name it.

### Subagents

`Root` delegates to `Kids`, one level deep as `TaskTool.build` demands. A run is one turn and at
most one tool group. `rows` are what the stores hold (`status`, the parent link, finished runs, the
reports in Root's transcript), `wf` is each execution. `SpawnRow` and `SpawnStart` are
`DemoCoordinator.spawn` (the row first, then the brief), `SpawnDirect` is `AgentRuntime.spawn` with a
parent. `FinishRun` closes a child's run in its row; `HandlerReports` is the
`run_completion_handler` of the demo, which tells the parent, and `FinalizeAgain` a
`finalize_run` that was lost and calls it again. `cancel` holds the cancels under way: a
person's, the one `apply_thread_cancellation` of Root makes, and that of `stop_subagent`; each
asks an execution, records, lists the children that are active and goes on to them one by one.
A run that fails at its start (in `StartRun`), is cancelled there (`StartAborted`) or fails in its
turn before its messages are stored (`TurnFails`, `TurnStops`) loses what it drained: `dropped`
names the reports among it. A cancel seen in the group is recorded or, in `finalize_tool_group`,
caught as a failed run (`SeeCancel`). `open`, `hit`, `stopped` and `dropped` are history.

### SandboxRegistry

`record` is the row of the store, `alive` the sandboxes that run, numbered as they were
opened. Per worker, `handle`, `fresh` and `noted` are `_live`, `VERIFIED_FOR_S` and
`_recorded`; `task` holds the resolves of `_resolving`, one per owner's spec and one
(`None`) for all who attach. A task takes one step per await of `_resolve`: it reads the
record, attaches, claims a new spec, opens, claims what it opened, drops what lost the
claim. `Close` is the prologue of `close`, which cancels the worker's tasks wherever they
are (`dropping` holds what the cancelled ones are still stopping); `CloseRead`,
`CloseForget`, `ClosePop` and `CloseStop` are its awaits. The backend may reclaim a sandbox at any time,
and up to `MaxFails` calls of the store or the backend fail.

`lost` and `raced` remember the sandboxes that the code does leave running: one whose claim
failed in the store, whose stop failed or was interrupted by a close, and one that another
worker recorded between the read and the forget of a close. `NoStray` shows there are no
others.

Simplifications: an open that is cancelled inside the backend leaves nothing behind (the
backend's own handler terminates it), `attach` tells a live sandbox from a reclaimed one,
and at `MaxOpened` the backend refuses to open more.

### SandboxHost

One service and one key, so one instance and one worker slot. A call id is sent by several
attempts (`att`); requests and cancels are in `net` until they arrive, in any order or never.
`entry` is `Host.calls`: a run, how it ended, or the tombstone of a cancel that came first. `held` are
the requests whose handler waits for the run. `kept` is the order in which
`_forget_finished` drops what ended, after `KEEP_FINISHED_S` (any time here) or above
`MAX_FINISHED`. A run is placed in the worker, or in the host once the slot's starts are spent.
A worker is a host of its own (`wcall`, `wcancel`, `wopened`); when it exits its pipe may end before
its death is noticed, and the slot may have the next one by then (`dying`). A host that is
restarted is not modelled: the container goes with it (`SandboxDisk`).

### SandboxDisk

A bucket prefix of a few files, a marker, and containers. A file holds a version, 1 for the
seed's. `Boot` begins the pull or, on an empty prefix, the seed's copy in the bucket and the pull of
the seed; `WriteMarker` and `Serve` follow what `_restore_own` asks for. `s5cmd` moves one file at a
time; the pull of the seed may fail (`SeedPullFails`), which ends the start-up when the copy is
over and marked. Calls write a file and end by themselves (`CallEnds`, which makes a push due) or by
a cancel (`CallCancelled`, which does not); `done` holds what the former had written. `PushDue`,
`PushSucceeds`, `PushFails` are `push_now` with its `_pending` mark; `Shutdown`, `FinalPush`, `Exit`
the end of a host that is asked to stop, with `asked` for `done` at that moment. The final push may
fail like any other, and the host then stops all the same (`"unsaved"`). `Die` is a container killed
at any point. `Together` lets two containers be open at once on one prefix; the
run takes `FALSE`, which is what the registry is for.

### RateLimiter and ModelCall

Times are ticks, ages grow. `window` stands for both deques, which gain and lose their entries at
the same moments. `lock` is `_lock` and its queue: a holder that waits keeps it. `Wait` is what
`_compute_wait` computes, always a whole window (findings). `From` is the loop of `_evict`, which
drops from the oldest on; `Leave` takes a task out of the queue wherever it is. `Commit` corrects the newest entry,
whoever made it.

A call is a record: its place (`pc`), its attempt, what is left of `turn_s` and of the timer it waits
for, the item open in its stream, whether the server declared its response failed. An event of the
stream is an action; an item's deltas are one with its opening. `shown` is what the listener
holds. Cancellation (`Abandoned`, `StreamCancelled`), the deadline (`TurnExpires`) and breaks of
the connection (`Broken`) are possible at every await.

### ProviderRequest

A message is a record of what the four adapters tell apart: whether it has text, an image, a
thought, a signature, reasoning items, and its calls. `Parts` and `Together` are `message_to_parts`
and `parts_to_messages`; the memory store keeps the message. `Sanitize` is
`sanitize_tool_messages`, `Request` the adapter's `convert_messages`. `Thinkings` are the blocks
Anthropic's model may think in one answer, each with or without text and a signature; `Gathered`
makes one thought of them as the adapter does, the text of all and the first
signature. What the model answers, and the order of its fragments, are the environment's. `ToolTells` adds a result at any time after its
call, and a second one over Postgres, as the two writers of `ToolGroup` do.

Left out: blank ids (paired in order), text and arguments themselves, the thoughts of Gemini and
Qwen (never sent back), redacted thinking blocks (the adapter drops them). A call's id in
`GeminiTurn` is there for the properties only: the wire has names and an order.

## Runs

| Run | Instance | Shows |
|---|---|---|
| `group` | two calls, one runs or is refused and may fail to be written, the other (retry_safe) runs or waits; two answers, two attempts, two faults, the cancel signal; two-step append; 2.1 M states | `GroupInv` (types, the barrier `BarrierDrained`), `BodyEnteredOnce`, `FirstAnswerWins`, `StopIsStored`, `SettledForever` |
| `group_cancel` | one call runs, one waits; a client cancels at any point and may die; one fault; atomic append; fair; 1.1 M states | `TranscriptAgrees`, `OneMessageEach` (one message per call, and every call paired at rest), `KeepsPromise` (the refinement), `GroupEnds` |
| `thread` | two messages, up to two runs of two turns with two attempts each; cancel signal; fair; 1.0 M states | `ThreadInv` (types, turn numbers, completed runs are stored, nothing open at rest), `StoredInOrder`, `OneAnswerPerTurn`, `ThreadRests` |
| `thread_cancel` | two messages, two runs of one turn; a client cancels at any point; 3.4 M states | `ThreadInv`, `RowsShow` (the run at work is shown, a cancel seen at a wait stays recorded) |
| `summary` | three messages, five answers, one lost attempt, limits of 2 and 4 messages, both callers; fair; 76 k states | `CompactionInv` (types, one chain of compaction rows), `NothingHidden`, `ValidRequest`, `SummarySettles` |
| `subagents` | one child, one message of a person, one call about the child, three cancels, a start or a turn that fails; fair; 0.8 M states | `DelegationInv` (types, a report follows its row), `RunningChildrenStop`, `ReportsArrive` |
| `sandbox_close` | an owner who opens and closes, an attach on another worker, a record with another spec, two sandboxes, one failure; fair; 0.2 M states | `RegistryInv` (types, no stray sandbox, all reach the same one), `RecordKept`, `CloseEnds` |
| `host_calls` | two calls, two attempts, one finished call kept, two starts of the worker; fair; 0.4 M states | `HostInv` (types, the attempts of a call are told the same), `RunsOnce`, `CallsEnd` |
| `disk_files` | two containers, two files, two versions, one failed push each (the final one included), cancelled calls; fair; 0.2 M states | `DiskInv` (types, "nothing pending" is true of calls that ended by themselves, a final push that exits 0 leaves nothing unsaved), `ServesWhole`, `NeverOlder`, `CallsGetStored` |
| `model_calls` | two callers of one limiter, two attempts, streams of up to two items, a turn of three ticks; fair; 0.2 M states | `CallInv` (types, the listener was shown the answer, a failure stands), `RateKept`, `NoHiddenFailure`, `CallEnds` |
| `limiter_wait` | one request a window of three ticks | violated: `WakesWhenItFits` |
| `provider` | four adapters, two stores, two answers of up to two calls and of one or two thinking blocks, two messages of the user; 2.5 M states | `ConversationInv` (types, answers are kept and shown whole), `Paired`, `ThinkingGoesOn`, `ResultsNext` |

Bounds. Two calls are the least with a sibling to wait for, and the calls of a group do not
interact otherwise. Two attempts stand for the three of `_LOST_TOOL_RETRY` and
`_LOST_TURN_RETRY`: nothing in the code tells a third from a second. Two answers are the
least that can compete. `MaxFaults` bounds failures of local activities (`finalize_tool_group`
has two attempts, `finalize_run` and the sweep repeat); two exhaust the first and repeat the
second. Two messages give interleaving inside a run and a second run on the same thread.
The client cancels once. A lost attempt of `run_turn` ends there (`Survivors = FALSE`) in both
thread runs; what a surviving one does is under the divergences. Five answers with limits of 2
and 4 make two summaries follow each other, one behind the other's back, a blocking one past
a background one, and a second run. One child shows every race of one child with its parent;
children do not meet otherwise. Two workers are the least that share a sandbox; two sandboxes
let one be recorded while the other is closed. Two call ids and one kept end make the host
forget early. Two files let a copy or a push be cut between them; two versions tell the seed's
from a call's. A window of one tick, a turn of three and waits of one and two ticks make every
timer meet every other. Two answers of two calls have results before, between and after the next
message; two thinking blocks are the least that are joined. Deadlock is not checked where a system
at rest has no next step: a closed thread nobody writes to, bounded messages or attempts that are spent, containers that are all dead.

Fairness. The workflow's own steps and the activities it waits for are weakly fair: Temporal
schedules an open workflow's tasks, times out an attempt that does not answer and fires its
timers. Nobody is assumed to answer, cancel or send, an attempt that was given up need not
go on, and the client's sweep may stop anywhere. `GroupEnds` and `ThreadRests` rely on
nothing else. `SummarySettles` needs the thread and the summary's writer: activities time out and
a summary that fails is dropped. In `Subagents` the handler of a finished run is strongly fair:
`finalize_run` is retried without limit, and each retry may be lost but not all. A worker's close of
a sandbox is weakly fair from its wait on: that wait has a timeout, the store answers, and a
backend bounds the stop it is asked for. What a cancelled resolve asked of the backend may never
end; `CloseEnds` does not need it. A host's methods and opens end (they have deadlines), its event
loop and a live worker's run, and the end of a process is noticed; callers and workers owe
nothing. The pusher's loop runs and a push is bounded by its timeout; it fails a bounded number
of times. In `ModelCall` time passes (strongly: events between two ticks are finite in a run) and the
event loop serves the lock and the timers that are due; the server owes nothing.

## Findings

`limiter_wait` is violated by the code: `_compute_wait` begins with `target = now` and takes the
maximum with the time of an entry that is never younger than now, so that a request waits a whole
window, with the lock of all others, though `rate_limit.py:95` says "Find the earliest entry whose
expiry would free enough budget."

These behaviours of the code are denied by one of its comments or tests too. The models have
them, as the value of a constant that no run takes (`AtomicAppend` with the client's sweep,
`Survivors`, `Together`) or as the exception a property names:

* A cancel that is not recorded: `runtime.py:290` says "The stores record the cancel before this
  returns" and `cancellation.py:6` "the second repairs whatever a turn still in flight wrote after
  it". The workflow records only a cancel it sees at a wait of its own (`workflow.py:207`). In
  `run_turn` (365) and `finalize_tool_group` (393) it is caught as a failed run, whose row replaces the
  client's; in `start_run` or `finalize_run` it ends the execution, and the run that was at work stays
  active in the rows with nothing to repair it. `CancelRecorded` is about the waits, and `AtRest` names
  the runs that were cut off (`cut`).
* Turns numbered again: `record_cancelled` writes the thread's row back as it read it
  (`cancellation.py:46`), so that a turn counted in between is taken off again, and the next run gives
  its number a second time, which `workflow.py:222` means to exclude ("Seeded from the store, not
  carried", or "turn numbers would repeat within one thread"). `TurnsNumbered` holds until `rewound`.
* A thread that opens beside its summary: the summary of a closed thread is "stored here when the thread
  has closed meanwhile, since no turn is open then" (`workflow.py:687`), but a message may open the
  thread between the read of its rows (`runs.py:661`) and the append. What that run stores in
  between is in no `kept` list, against "every message the model sees after the boundary is kept"
  (`runs.py:659`). `Missed` names it.
* A stop that saved nothing: `modal.py:666` says of `_stop_host` "whether the host confirmed it
  closed and pushed". A final push that fails only sets an error (`host.py:574`), the shutdown is
  answered "stopped" with 200, and `ModalSandbox.close` skips its own push (`modal.py:647`).
  `CloseStores` is about a final push that exited 0; the other stop is the phase `"unsaved"`.
* Two tool messages for one call (`stores/postgres/stores.py:271`): the lookup and the insert of
  `append_tool_result` are two transactions with no unique key on the call, so
  `record_cancelled` in the client's process and `finalize_run` in the worker both insert. Line 268:
  "Idempotent on (agent_id, thread_id, tool_call_id). The transcript should never have two tool
  messages for the same call." `AtomicAppend = FALSE` violates `OneMessagePerCall`.
* A turn stored late (`runs.py:321`): `run_turn` stores its answer with no look at whether its run
  is still open, so an attempt given up after a cancel leaves a call open after both repairs.
  `cancellation.py:6`: "the second repairs whatever a turn still in flight wrote after it";
  `tests/test_late_cancelled_turn.py:33` expects the failure. `Survivors = TRUE`.
* A resumed turn (`runs.py:372`): the turn is counted on the thread's row and then on the run's. An
  attempt lost between them leaves the run's row one short for good, since `_stored_turn` looks at the
  thread's count alone, though line 356 says "finish what that attempt did not".
* What a run drained from the inbox is lost when it fails before it stored it: in `start_run`
  (`workflow.py:242`) or in `run_turn` before `_append_inbound` (365-371). A report of a child is among it:
  `ReportsArrive` names them (`dropped`).
* The owner's spec is lost (`sandbox/registry.py:155`): `claim` compares the provider id only, so an
  attach that read the record before an open with a new spec may record the old one again. Line
  66: "``spec`` is recorded with it".
* The gate and a compacting thread (`runs.py:232`): the gate is asked before `_append_inbound`, and a
  refused turn's messages are in no row. `gate.py:26`: "Inbound messages are persisted first, so a
  stopped run loses nothing the user sent". `gated` counts them.
* `cancel_thread` ("Stop a thread and its persisted descendants, across agents and workers.") follows
  the children whose row is active when it reads them (`runtime.py:320`): one whose brief was
  sent and whose run has not begun is missed. A finished run of a cancelled child reports to, and so
  starts, the cancelled parent again. `stop_subagent` may record as cancelled a run begun since.
* A call that is cancelled leaves `Host._run` by `CancelledError`, past the lines that make a push due
  (`host.py:539`): what it wrote is stored with another call's push, or at the close. `done` leaves it
  out.
* Two containers on one prefix: the marker of the one that seeds first lets the other serve a part
  (`entry.py:156`), though "startup fails rather than serve a partial workspace".
  `Together = TRUE`.
* `Host.instance`: a caller that gives up cancels the `open` that others wait for, and they are told
  "cancelled: its caller gave up on it", though its comment says "A cancelled waiter leaves an
  ``open`` still running in place".
* A slot whose worker cannot be started serves a key in the host while a worker of the same key
  may still be ending, against "One instance per ``(service, key)``" (`host.py:28`). A lost attempt that
  still lives may, by `_abandon` (`service.py:287`), cancel the run its retry attached to.
* The limiter's correction takes the newest entry, which may be another call's (`rate_limit.py:123`);
  a request above the whole budget holds the lock until its turn's budget ends; a stream salvaged
  from whitespace returns its open call alone and reports no tokens.
* OpenAI's reasoning items have a place in a row only beside a summary (`session.py:30`), so one
  without a summary is lost over Postgres; `ThinkingGoesOn` names it. Several thinking blocks of an
  Anthropic answer become one, under the signature of the first that has one (`anthropic.py:302`), and
  a signature without text is dropped (122): the later requests have neither the blocks nor the
  other signatures, and `ThinkingGoesOn` claims no more. A result that comes after
  another message of the user is not next to its call (`ResultsNext` names it), though
  `sanitize_tool_messages` promises "Messages every adapter can send". A call without a name is
  dropped when it is read back. Gemini's results carry the name of the tool only; Qwen's
  drop images.
* `docs/subagents.md` has nested delegation; `TaskTool.build` says "a subagent cannot spawn
  subagents". `docs/pauses-and-resume.md:84` says "Actant does not assume that cancelling a parent
  should terminate independently useful delegated work", and `cancel_thread` does.

## Proofs

Eight modules hold the theorems, each proved for every value of the constants but where the table
names an assumption. The assumptions declared in the modules (`GroupAssumption`,
`ThreadAssumption` and so on) are finiteness, types and positive bounds; TLC evaluates them on
each instance.

| Theorem | Property | Assumes |
|---|---|---|
| `ToolGroupProofs!TypeCorrect` | `TypeOK` | |
| `ToolGroupProofs!SettledCorrect` | `SettledForever` | |
| `ToolGroupProofs!BarrierHolds` | `GroupInv` | |
| `ToolGroupProofs!TranscriptCorrect` | `TranscriptAgrees` | |
| `ToolGroupProofs!BodyCorrect` | `BodyEnteredOnce` | |
| `ToolGroupProofs!AnswerCorrect` | `FirstAnswerWins` | |
| `ToolGroupProofs!StopCorrect` | `StopIsStored` | |
| `ToolGroupProofs!PairedCorrect` | `PairedAtRest` | |
| `ToolGroupProofs!OneMessageCorrect` | `OneMessageEach` | `AtomicAppend` |
| `ToolGroupProofs!PromiseKept` | `KeepsPromise`, the refinement | `AtomicAppend`, `StoreFails = {}` |
| `AgentThreadProofs!ThreadTypes` | `TypeOK` | |
| `AgentThreadProofs!OneAnswer` | `OneAnswerPerTurn` | |
| `AgentThreadProofs!TranscriptInOrder` | `StoredInOrder` | |
| `AgentThreadProofs!RowsTell` | `RowsShow` | |
| `AgentThreadProofs!ThreadKept` | `ThreadInv` | |
| `ContextCompactionProofs!NothingIsHidden` | `NothingHidden` | |
| `ContextCompactionProofs!CompactionCorrect` | `CompactionInv` | |
| `ContextCompactionProofs!RequestsAreValid` | `ValidRequest` | |
| `SubagentsProofs!DelegationCorrect` | `DelegationInv` | |
| `SubagentsProofs!CancelReaches` | `RunningChildrenStop` | |
| `SandboxRegistryProofs!RegistryCorrect` | `RegistryInv` | |
| `SandboxRegistryProofs!RegistryKeepsRecord` | `RecordKept` | |
| `SandboxProofs!HostCorrect` | `HostInv` | |
| `SandboxProofs!HostRunsOnce` | `RunsOnce` | |
| `SandboxProofs!DiskTypes` | `DiskTypeOK` | |
| `SandboxProofs!StoredAndHonest` | `DiskInv` | `~Together` |
| `SandboxProofs!WholeWorkspace` | `ServesWhole` | `~Together` |
| `SandboxProofs!NoStepBack` | `NeverOlder` | `~Together` |
| `ModelCallProofs!CallsCorrect` | `CallInv` | |
| `ModelCallProofs!LimitHolds` | `RateKept` | |
| `ModelCallProofs!FailureTold` | `NoHiddenFailure` | |
| `ProviderRequestProofs!ConversationCorrect` | `ConversationInv` | |
| `ProviderRequestProofs!RequestsPaired` | `Paired` | |
| `ProviderRequestProofs!ThinkingKept` | `ThinkingGoesOn` | |
| `ProviderRequestProofs!ResultsFollow` | `ResultsNext` | |

The assumptions of the last column are values of a constant, each with a reason. Over the Postgres
store (`~AtomicAppend`) a call may get two messages, and two containers at once (`Together`) serve a
part and push an older file: those are the divergences above. `StoreFails` are the calls whose outcome
may fail to be stored: the group then reports what no record holds, and the promise is about
records.

The theorems about `AgentThread` and `ContextCompaction` assume nothing; the properties name
what the code does break. An attempt that Temporal gave up and that goes on (`Survivors`) ends what
can be said of answers, order and rows, so those hold in every behaviour up to the step in which
the first one does (`astray`). A client's cancel is in all of them: of `ThreadInv` it costs the
turn numbers once a client has written an older row back (`rewound`), and of `AtRest` the runs in
`cut`. `NothingHidden` and `ValidRequest` except exactly what came between the read and the append of a
compaction row (`Missed`), and `NoneBetween`, part of `CompactionInv`, says that this happens only to a
thread that opened while the background stored its summary (`beside`).

Each proof has one invariant, checked by TLC on the run of the property before it was proved, with
a lemma for each group of actions.

**ToolGroup.** `StoreInv`: a record has a result exactly when it is settled (`ResultWritten`); what
the workflow heard of an admission fits the activity's state (`Admitted`); an attempt, admission or
resolution that reports has settled its call, unless it is in `unwritten`, and so does an outcome
that was heard while the group works (`Written`); a call that the repair holds or that a sweep
has passed is settled (`Closed`); what a process is about to insert is what the record holds
(`Posting`). `TranscriptAgrees` alone is not inductive: nothing in it says that the call about to
be told is settled, nor that its result will not change before the insert. `BarrierDrained` needs
`Written`, because the barrier looks at outcomes and not at records. One lemma,
`NextStillTrue`, says that no step changes a settled record; it gives `SettledForever` and
carries every other invariant over the steps of the other processes. `BodyInv` counts the
attempts of a call that may still enter its body; `AnswerStrong` follows one answer from the signal
into the record. `PairInv` says which calls the group, the repair and each sweep still have
to tell, which makes a group at rest paired; `StopInv` ties `stop` to what was heard and stored. For
the refinement, `NextOneThing` says that a step writes a record, or tells the transcript, or ends the
group, and never two of these; each of the three is then a step of `ToolGroupPromise` or a stutter.

**AgentThread.** `LifeInv` has four parts. `Bounds`: every run took a message of its own and no run
begins more turns than its budget, so that run and turn numbers stay in their sets. `TurnsInv`: one
attempt is alive, the one the workflow waits for, and it knows the answer of its turn, if there
is one; without that, an attempt that resumes might store a second. `OrderInv`: the transcript, the
messages of the run and the inbox follow each other as they were sent, and the last rows of the
transcript are the first messages of the turn under way, as many as the attempt will skip.
`ShownInv`: a row that an attempt read names the run, unless a client wrote its cancel. `RestInv`
says where a call may be open and which row may show a run, with a client's sweep anywhere between,
and, until one rewound the row, that the workflow's copy of the row is the row, and the tallies of
turns that the row, the run and the payloads share. All but `Bounds` are about what happens before
`astray`, which stays once it is set (`StaysAstray`).

**ContextCompaction.** `ContextInv`: each message the user sent is in one place (`Counted`), a
summary that is not stale covers what it replaces, wherever it waits (`Texts`), and a row about to be
appended replaces the latest that was read, hides nothing that was read and cuts no call from its
result (`Plans`). The
properties look at `rows` alone; they are not inductive because a row is planned and appended
in two steps, with the thread or the child between them.

**Subagents.** `DelegateInv`: what the parent was told is finished (`Told`), a child that works has
a row and a parent link (`AtWork`), and a child that was at work when the cancel began is asked, still
to be listed, or on the list (`Followed`).

**SandboxRegistry.** `SightInv`: every sandbox that runs is the recorded one or in the hands of a
named resolve, close or drop, with what each stage of a resolve and of a close has in its hand.

**SandboxHost.** `CallsInv`: a call that was not forgotten and has no entry was never entered, one
that runs has one body in at most one place (host, worker or a worker that is dying), and `kept`
lists each call that ended once, so that forgetting drops only what ended.

**SandboxDisk.** `FilesInv`: containers follow each other, the marker is beside a whole seed only,
what a container serves is at least what is stored, and a file that a call which ended by itself
has written and that is not stored is pending, about to be sent, or asked for by the shutdown.

**ModelCall.** `ToldInv`: a listener of a call under way was shown exactly the items of its attempt; a
call that waits to retry has another attempt and more budget than wait. `QueueInv`: a task is in
the lock's queue once, exactly while it acquires, and only the holder sleeps; without it
`Acquire` could let a task through that had already given up. `AgesInv`: the entries of the window that are
not too old are the requests that were sent, one for one and with their ages, so that what
`_evict` leaves is as long as what `RateKept` counts.

**ProviderRequest.** `IInv`: each answer the model made has one row, in order, with its calls whole and
as much of its thinking as the store keeps (`History`); a result comes after its call (`RowsOK`); the
request is made of the first rows (`AskedOK`, `Requested`); and of the answer under way, each call's
fragments are counted, and Anthropic's listener was shown what the counts say (`StreamOK`). The
properties are about the request, which recursive definitions make of the transcript, so the
work is in what those compute for every transcript:

* `Flatten`, `FlattenPlaces`, `FlattenConcat`: what `FlattenSeq` gives, and where each element of it
  comes from;
* `Sanitized`: the repaired transcript has each message but the repeated results, in order, and
  behind each call without a result the output that says so;
* `WireOf`, `AddsSaid`, `RequestSays`: whatever turns an adapter makes, the parts of a request are the
  contents of its messages, one after another (`Carried` says what one message's content has);
* `PairedOf`, `ThinkingOf`, `ResultsOf`: the three properties, from those;
* `ThoughtOfIs`, `SignatureIs`, `ThoughtsAre`: what is made of an answer's thinking blocks;
* `CallsWhole`, `GivenBack`: fragments put together by index give the calls of the answer, and the
  parts of a row give back its message; `HearsOn`: one fragment more.

The library's induction theorems take an operator as a parameter, which these provers cannot
instantiate. The lemmas do without them: `Recursion` shows that the function a recursive definition
describes exists, and `UpTo` that what holds at 0 and is passed on by each step holds up to n, as the
smallest counterexample (`Smallest`) would have a predecessor.

Only model-checked:

* liveness (`GroupEnds`, `ThreadRests`, `SummarySettles`, `ReportsArrive`, `CloseEnds`,
  `CallsEnd`, `CallsGetStored`, `CallEnds`): fairness and `ENABLED` are beyond the prover;
* the token budget of the limiter (`TokensIn`, a fold): `RateKept` is about requests. `WakesWhenItFits`
  is violated (findings). In the other modules, where a loop takes a prefix or one element, as in
  `_evict`, `_forget_finished` and the lock's queue, the models say so directly (`From`,
  `Younger`, `RemoveFirst`), and theorems reach them.

## Plan

1. Done: the tool group with its stores, its promise and its proofs; the thread lifecycle;
   the sandbox registry; compaction under both runtimes; subagents and the cascade; the
   sandbox's host and its files; the limiter, the provider's calls and requests.
2. Done: every safety and action property of the passing runs is a theorem, and so is the
   refinement of `ToolGroupPromise`.
3. Proofs left: `RunIsShown` and `CompletedRunsStored` also after an attempt went astray; what a
   group keeps of its promise when a store fails; the tokens of a window.
4. The tool group of the local runtime as a second caller of `ToolGroup`'s activities.

## Not modelled

* The local runtime's tool group, where a call that waits for a person is left out of the group
  (`local.py:264`); its cancellation and a crash of its process, which leave a run open with nothing
  to repair it.
* The finish reminder of `run_turn`, which adds a message and a turn and decides nothing else.
* Terminals, logs and access rules of a sandbox, its commands and files while it runs, the local
  backend: adapters over a shell and a file system.
* Tools, their schemas and dispatch; routing between models, token estimates, prices: pure
  functions of their input whose results other modules take as any value.
* Events: nothing reads them back. Assets, object storage and its signing, the command line,
  migrations: I/O, cryptography and start-up code.
