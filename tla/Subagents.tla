------------------------------- MODULE Subagents -------------------------------
(***************************************************************************)
(* A thread that delegates (actant/tools/task.py, supervise.py), the       *)
(* cancel that follows its children (AgentRuntime.cancel_thread), and the  *)
(* message each child's finished run sends it (the run_completion_handler  *)
(* of examples/demo/server/app/coordinator.py).                            *)
(*                                                                         *)
(* Delegation is one level deep: TaskTool.build refuses a thread that has  *)
(* a parent, so there is Root and its Kids.  A run is a turn and at most   *)
(* one tool group; AgentThread has the rest of a thread's life.            *)
(***************************************************************************)
EXTENDS Naturals, FiniteSets

CONSTANTS
    Root,       \* the delegating thread
    Kids,       \* the threads it may start
    MaxUser,    \* messages a person sends to Root, a bound
    MaxTold     \* message_subagent and stop_subagent calls, a bound

ASSUME SubagentAssumption ==
    /\ Root \notin Kids /\ IsFiniteSet(Kids)
    /\ MaxUser \in Nat /\ MaxTold \in Nat

Threads == {Root} \cup Kids
Reports == Kids \X (1 .. 1 + MaxTold)       \* a child's run, and its report
Brief   == <<Root, 0>>                      \* what a person sends
Cancels == {"user", "cascade", "stop"}

VARIABLES
    \* the stores
    status,     \* per thread, its row: "none" is no row, "idle" idle or failed
    linked,     \* children whose row names the parent
    finished,   \* runs of the children whose row is terminal
    stored,     \* what Root's transcript holds: reports, and Brief
    \* the executions
    wf,         \* where the thread's workflow is; "closed": no execution
    recording,  \* threads whose workflow records its cancellation
    asked,      \* whether the execution was asked to cancel, and has seen it
    inbox,      \* messages not drained: of each child, how many; of Root, which
    fresh,      \* what Root's run drained and its turn has not stored
    run,        \* runs the child has begun
    \* the activities and clients
    spawning,   \* children whose spawn wrote the row and has not yet sent the brief
    cancel,     \* the cancels under way: the user's, Root's own, stop_subagent's
    sent, told, \* messages the person sent, and calls about a child Root made
    \* history
    open,       \* the children open when the user's cancel under way began, and their run
    hit,        \* threads whose execution was ever asked to cancel
    stopped,    \* children stop_subagent was ever called for
    dropped     \* reports Root's run drained and lost as its start or its turn failed

rows     == <<status, linked, finished, stored>>
clients  == <<spawning, cancel, sent, told>>
history  == <<open, hit, stopped, dropped>>
vars     == <<rows, wf, recording, asked, inbox, fresh, run, clients, history>>

Working == {"turn", "tools"}
Final   == {"store", "notify"}    \* finalize_run, and its handler

Off == [at |-> "off", of |-> Root, todo |-> {}]

Init ==
    /\ status = [t \in Threads |-> "none"] /\ linked = {} /\ finished = {} /\ stored = {}
    /\ wf = [t \in Threads |-> "closed"] /\ recording = {}
    /\ asked = [t \in Threads |-> "no"]
    /\ inbox = [kid |-> [k \in Kids |-> 0], root |-> {}]
    /\ fresh = {} /\ run = [k \in Kids |-> 0]
    /\ spawning = {} /\ cancel = [p \in Cancels |-> Off]
    /\ sent = 0 /\ told = 0 /\ open = {} /\ hit = {} /\ stopped = {}
    /\ dropped = {}

(***************************************************************************)
(* Messages: signal_with_start.                                            *)
(***************************************************************************)
HasMail(t) == IF t = Root THEN inbox.root # {} ELSE inbox.kid[t] > 0

Opens(t) == wf' = [wf EXCEPT ![t] = IF @ = "closed" THEN "waiting" ELSE @]

Tell(k) == inbox' = [inbox EXCEPT !.kid[k] = @ + 1] /\ Opens(k)

UserSends ==
    /\ sent < MaxUser
    /\ sent' = sent + 1
    /\ inbox' = [inbox EXCEPT !.root = @ \cup {Brief}] /\ Opens(Root)
    /\ UNCHANGED <<rows, recording, asked, fresh, run, spawning, cancel, told, history>>

(***************************************************************************)
(* Runs.                                                                   *)
(***************************************************************************)
\* Mutant: start_run leaves the row's status alone.
IdleRow(t) == [status EXCEPT ![t] = IF @ = "none" THEN "idle" ELSE @]

ActiveRow(t) == [status EXCEPT ![t] = "active"]

Loses(messages) == dropped' = dropped \cup (messages \ {Brief})

\* start_run: the row is active, and names the parent the execution was given.
\* A run whose definition cannot be resolved fails at once, and what it drained
\* is lost.
StartRun(t) ==
    /\ wf[t] = "waiting" /\ HasMail(t)
    /\ \E next \in {"turn", "store"} :
          /\ wf' = [wf EXCEPT ![t] = next]
          /\ IF t = Root
             THEN /\ inbox' = [inbox EXCEPT !.root = {}]
                  /\ IF next = "turn" THEN fresh' = inbox.root /\ UNCHANGED dropped
                                      ELSE Loses(inbox.root) /\ UNCHANGED fresh
                  /\ UNCHANGED <<linked, run>>
             ELSE /\ linked' = linked \cup {t} /\ run' = [run EXCEPT ![t] = @ + 1]
                  /\ inbox' = [inbox EXCEPT !.kid[t] = 0]
                  /\ UNCHANGED <<fresh, dropped>>
    /\ status' = ActiveRow(t)
    /\ UNCHANGED <<finished, stored, recording, asked, clients, open, hit, stopped>>

\* The turn stores what it was given, and answers with calls, with text or not at all.
TurnEnds(t) ==
    /\ wf[t] = "turn"
    /\ \E next \in {"tools", "store"} : wf' = [wf EXCEPT ![t] = next]
    /\ IF t = Root THEN stored' = stored \cup fresh /\ fresh' = {}
                   ELSE UNCHANGED <<stored, fresh>>
    /\ UNCHANGED <<status, linked, finished, recording, asked, inbox, run, clients, history>>

\* A turn that fails has stored some of it, and the rest is lost.
TurnStops(t) ==
    /\ wf' = [wf EXCEPT ![t] = "store"]
    /\ IF t = Root
       THEN \E kept \in SUBSET fresh :
               stored' = stored \cup kept /\ Loses(fresh \ kept) /\ fresh' = {}
       ELSE UNCHANGED <<stored, fresh, dropped>>

TurnFails(t) ==
    /\ wf[t] = "turn"
    /\ TurnStops(t)
    /\ UNCHANGED <<status, linked, finished, recording, asked, inbox, run, clients, open, hit, stopped>>

\* The group waits for its calls.
ToolsEnd(t) ==
    /\ wf[t] = "tools"
    /\ t = Root => spawning = {} /\ cancel["stop"].at = "off"
    /\ wf' = [wf EXCEPT ![t] = "store"]
    /\ UNCHANGED <<rows, recording, asked, fresh, run, inbox, clients, history>>

\* Mutant: the inbox is not looked at again.
ClosesAnyway(t) == IF t \in recording THEN "recorded" ELSE "closed"

\* What the execution does once finalize_run returned: record the cancellation,
\* open the next run, or close.
Onward(t) == IF t \in recording THEN "recorded" ELSE IF HasMail(t) THEN "waiting" ELSE "closed"

\* A request is the execution's, and goes with it.
Reaches(t, next) == asked' = [asked EXCEPT ![t] = IF next = "closed" THEN "no" ELSE @]

AfterRun(t) == wf' = [wf EXCEPT ![t] = Onward(t)] /\ Reaches(t, Onward(t))

\* Mutant: the handler is called before the run's row is written.
NotYetEnded(k) == finished

Ended(k) == finished \cup {<<k, run[k]>>}

\* finalize_run: the run's row and the thread's, then the completion handler,
\* which has nothing to tell of a thread without a parent.
FinishRun(t) ==
    /\ wf[t] = "store"
    /\ status' = [status EXCEPT ![t] = IF t \in recording THEN "cancelled" ELSE "idle"]
    /\ IF t = Root
       THEN AfterRun(t) /\ UNCHANGED finished
       ELSE finished' = Ended(t) /\ wf' = [wf EXCEPT ![t] = "notify"] /\ UNCHANGED asked
    /\ UNCHANGED <<linked, stored, recording, inbox, fresh, run, clients, history>>

\* handle_run_completion: nothing to say if the parent's transcript names the run;
\* otherwise the report reaches Root's execution, or starts one.  An attempt lost
\* after the signal is made again from the start.
HandlerReports(k) ==
    /\ wf[k] = "notify"
    /\ IF <<k, run[k]>> \in stored
       THEN AfterRun(k) /\ UNCHANGED inbox
       ELSE /\ inbox' = [inbox EXCEPT !.root = @ \cup {<<k, run[k]>>}]
            /\ \E next \in {Onward(k), "store"} :
                  /\ wf' = [wf EXCEPT ![k] = next,
                                      ![Root] = IF @ = "closed" THEN "waiting" ELSE @]
                  /\ Reaches(k, next)
    /\ UNCHANGED <<rows, recording, fresh, run, clients, history>>

FinalizeAgain(k) ==
    /\ wf[k] = "notify"
    /\ wf' = [wf EXCEPT ![k] = "store"]
    /\ UNCHANGED <<rows, recording, asked, inbox, fresh, run, clients, history>>

(***************************************************************************)
(* Tools of Root: task, message_subagent, stop_subagent.                   *)
(***************************************************************************)
Unspawned(k) == status[k] = "none" /\ run[k] = 0 /\ inbox.kid[k] = 0

\* TaskTool: a subagent is refused one of its own, so only Root delegates.
Delegates(k) == wf[Root] = "tools" /\ Unspawned(k)

\* DemoCoordinator.spawn: the row and its link first ...
SpawnRow(k) ==
    /\ Delegates(k)
    /\ status' = [status EXCEPT ![k] = "idle"] /\ linked' = linked \cup {k}
    /\ spawning' = spawning \cup {k}
    /\ UNCHANGED <<finished, stored, wf, recording, asked, inbox, fresh, run, cancel, sent,
                   told, history>>

\* ... then the brief; the activity may outlive the group that was cancelled.
SpawnStart(k) ==
    /\ k \in spawning
    /\ spawning' = spawning \ {k}
    /\ Tell(k)
    /\ UNCHANGED <<rows, recording, asked, fresh, run, cancel, sent, told, history>>

SpawnDies(k) ==
    /\ k \in spawning /\ wf[Root] # "tools"
    /\ spawning' = spawning \ {k}
    /\ UNCHANGED <<rows, wf, recording, asked, inbox, fresh, run, cancel, sent, told, history>>

\* AgentRuntime.spawn with parent_thread_id: the child's first run writes the row.
SpawnDirect(k) ==
    /\ Delegates(k)
    /\ Tell(k)
    /\ UNCHANGED <<rows, recording, asked, fresh, run, clients, history>>

MessageKid(k) ==
    /\ wf[Root] = "tools" /\ status[k] # "none" /\ k \notin spawning /\ told < MaxTold
    /\ told' = told + 1
    /\ Tell(k)
    /\ UNCHANGED <<rows, recording, asked, fresh, run, spawning, cancel, sent, history>>

StopKid(k) ==
    /\ wf[Root] = "tools" /\ status[k] # "none" /\ k \notin spawning
    /\ told < MaxTold /\ cancel["stop"].at = "off"
    /\ told' = told + 1
    /\ cancel' = [cancel EXCEPT !["stop"] = [at |-> "ask", of |-> k, todo |-> {}]]
    /\ stopped' = stopped \cup {k}
    /\ UNCHANGED <<rows, wf, recording, asked, inbox, fresh, run, spawning, sent, open, hit, dropped>>

(***************************************************************************)
(* cancel_thread.                                                          *)
(***************************************************************************)
Goes(p, to) == cancel' = [cancel EXCEPT ![p].at = to]

\* A person cancels Root, once.
UserCancels ==
    /\ status[Root] # "none" /\ cancel["user"] = Off
    /\ Goes("user", "ask")
    /\ open' = {[kid |-> k, run |-> run[k], phase |-> wf[k]] : k \in {k \in linked : wf[k] # "closed"}}
    /\ UNCHANGED <<rows, wf, recording, asked, inbox, fresh, run, spawning, sent, told, hit, stopped, dropped>>

\* The thread's execution is asked to cancel, once; a closed one is left alone.
Ask(t) ==
    IF wf[t] = "closed" THEN UNCHANGED <<asked, hit>>
    ELSE /\ asked' = [asked EXCEPT ![t] = IF @ = "no" THEN "yes" ELSE @]
         /\ hit' = hit \cup {t}

\* The thread the call names, and then each child the call found.
CancelAsk(p) ==
    /\ \/ /\ cancel[p].at = "ask"
          /\ Goes(p, "record") /\ Ask(cancel[p].of)
       \/ /\ cancel[p].at = "next"
          /\ \E k \in cancel[p].todo :
                /\ cancel' = [cancel EXCEPT ![p] = [at |-> "record", of |-> k, todo |-> @.todo \ {k}]]
                /\ Ask(k)
    /\ UNCHANGED <<rows, wf, recording, inbox, fresh, run, spawning, sent, told, open, stopped, dropped>>

\* record_cancelled, then the children.
CancelRecord(p) ==
    /\ cancel[p].at = "record"
    /\ status' = [status EXCEPT ![cancel[p].of] = "cancelled"]
    /\ Goes(p, IF cancel[p].of = Root THEN "list" ELSE "next")
    /\ UNCHANGED <<linked, finished, stored, wf, recording, asked, inbox, fresh, run, spawning,
                   sent, told, history>>

ActiveKids == {k \in linked : status[k] = "active"}

\* _cancel_children reads the rows that name the thread once, and follows those
\* that are active.
CancelList(p) ==
    /\ cancel[p].at = "list"
    /\ cancel' = [cancel EXCEPT ![p].at = "next", ![p].todo = ActiveKids]
    /\ UNCHANGED <<rows, wf, recording, asked, inbox, fresh, run, spawning, sent, told, history>>

Returns(p) == cancel[p].at = "next" /\ cancel[p].todo = {}

\* The user's cancel is not made again; "cascade" is apply_thread_cancellation of
\* Root, whose execution closes with it.
CancelReturns(p) ==
    /\ Returns(p)
    /\ cancel' = [cancel EXCEPT ![p] = [Off EXCEPT !.at = IF p = "user" THEN "done" ELSE "off"]]
    /\ IF p = "cascade"
       THEN /\ wf' = [wf EXCEPT ![Root] = "closed"] /\ inbox' = [inbox EXCEPT !.root = {}]
            /\ recording' = recording \ {Root} /\ asked' = [asked EXCEPT ![Root] = "no"]
       ELSE UNCHANGED <<wf, inbox, recording, asked>>
    /\ open' = IF p = "user" THEN {} ELSE open
    /\ UNCHANGED <<rows, fresh, run, spawning, sent, told, hit, stopped, dropped>>

NoMail(t) == IF t = Root THEN [inbox EXCEPT !.root = {}] ELSE [inbox EXCEPT !.kid[t] = 0]

\* The execution sees the request: at rest it records its cancellation, in a tool
\* group it closes the run first; a turn fails, and so may the end of a group
\* (finalize_tool_group), and the execution goes on; a finalization is abandoned,
\* and the execution with it.
SeeCancel(t) ==
    /\ asked[t] = "yes" /\ t \notin recording
    /\ \/ /\ wf[t] \in {"waiting", "tools"}
          /\ wf' = [wf EXCEPT ![t] = IF @ = "tools" THEN "store" ELSE "recorded"]
          /\ recording' = recording \cup {t} /\ asked' = [asked EXCEPT ![t] = "seen"]
          /\ UNCHANGED <<stored, fresh, inbox, dropped>>
       \/ /\ wf[t] = "tools"
          /\ wf' = [wf EXCEPT ![t] = "store"] /\ asked' = [asked EXCEPT ![t] = "seen"]
          /\ UNCHANGED <<stored, fresh, recording, inbox, dropped>>
       \/ /\ wf[t] = "turn"
          /\ TurnStops(t) /\ asked' = [asked EXCEPT ![t] = "seen"]
          /\ UNCHANGED <<recording, inbox>>
       \/ /\ wf[t] \in Final
          /\ wf' = [wf EXCEPT ![t] = "closed"] /\ asked' = [asked EXCEPT ![t] = "no"]
          /\ inbox' = NoMail(t)
          /\ UNCHANGED <<stored, fresh, recording, dropped>>
    /\ UNCHANGED <<status, linked, finished, run, clients, open, hit, stopped>>

\* A cancelled start_run ends the execution, whether it wrote the rows or not: what
\* the run drained is lost.
StartAborted(t) ==
    /\ wf[t] = "waiting" /\ HasMail(t) /\ asked[t] = "yes"
    /\ wf' = [wf EXCEPT ![t] = "closed"] /\ asked' = [asked EXCEPT ![t] = "no"]
    /\ inbox' = NoMail(t)
    /\ run' = IF t = Root THEN run ELSE [run EXCEPT ![t] = @ + 1]
    /\ \/ UNCHANGED <<status, linked>>
       \/ status' = ActiveRow(t) /\ linked' = linked \cup ({t} \ {Root})
    /\ UNCHANGED <<finished, stored, recording, fresh, clients, history>>

\* apply_thread_cancellation: record_cancelled, then the children.
ApplyCancellation(t) ==
    /\ wf[t] = "recorded"
    /\ status' = [status EXCEPT ![t] = "cancelled"]
    /\ IF t = Root
       THEN /\ cancel["cascade"] = Off /\ Goes("cascade", "list")
            /\ wf' = [wf EXCEPT ![t] = "cascading"]
            /\ UNCHANGED <<recording, asked, inbox>>
       ELSE /\ wf' = [wf EXCEPT ![t] = "closed"] /\ inbox' = NoMail(t)
            /\ recording' = recording \ {t} /\ asked' = [asked EXCEPT ![t] = "no"]
            /\ UNCHANGED cancel
    /\ UNCHANGED <<linked, finished, stored, fresh, run, spawning, sent, told, history>>

-----------------------------------------------------------------------------
Workflow(t) == StartRun(t) \/ TurnEnds(t) \/ TurnFails(t) \/ ToolsEnd(t) \/ FinishRun(t) \/ SeeCancel(t)
               \/ StartAborted(t) \/ ApplyCancellation(t)
Handler(k)  == HandlerReports(k) \/ FinalizeAgain(k)
Tool(k)     == SpawnRow(k) \/ SpawnStart(k) \/ SpawnDies(k) \/ SpawnDirect(k)
               \/ MessageKid(k) \/ StopKid(k)
Cancel(p)   == CancelAsk(p) \/ CancelRecord(p) \/ CancelList(p)
               \/ CancelReturns(p)

Next ==
    \/ UserSends \/ UserCancels
    \/ \E t \in Threads : Workflow(t)
    \/ \E k \in Kids : Handler(k) \/ Tool(k)
    \/ \E p \in Cancels : Cancel(p)

Spec == Init /\ [][Next]_vars

\* Temporal runs what is due and gives up no finalization, though it may lose
\* attempts; the activities and calls under way end.  Nobody need send, delegate,
\* message or cancel.
Fairness ==
    /\ \A t \in Threads : WF_vars(Workflow(t))
    /\ \A k \in Kids  : SF_vars(HandlerReports(k)) /\ WF_vars(SpawnStart(k))
    /\ \A p \in Cancels : WF_vars(Cancel(p))

FairSpec == Spec /\ Fairness

-----------------------------------------------------------------------------
\* Types, and how the parts relate: only Root reaches "cascading", only a child a
\* handler; who records has no run at work; a closed execution was asked nothing.
TypeOK ==
    /\ status \in [Threads -> {"none", "idle", "active", "cancelled"}]
    /\ linked \subseteq {k \in Kids : status[k] # "none"}
    /\ finished \subseteq Reports
    /\ stored \subseteq Reports \cup {Brief} /\ fresh \subseteq Reports \cup {Brief}
    /\ dropped \subseteq Reports
    /\ wf \in [Threads -> {"closed", "waiting", "recorded", "cascading"} \cup Working \cup Final]
    /\ wf[Root] # "notify" /\ \A k \in Kids : wf[k] # "cascading"
    /\ recording \subseteq {t \in Threads : wf[t] \in Final \cup {"recorded", "cascading"}}
    /\ asked \in [Threads -> {"no", "yes", "seen"}]
    /\ \A t \in Threads : wf[t] = "closed" => asked[t] = "no"
    /\ inbox.kid \in [Kids -> 0 .. 1 + MaxTold] /\ inbox.root \subseteq Reports \cup {Brief}
    /\ run \in [Kids -> 0 .. 1 + MaxTold]
    /\ spawning \subseteq linked
    /\ \A p \in Cancels : cancel[p].at \in {"off", "ask", "record", "list", "next", "done"}
    /\ sent \in 0 .. MaxUser /\ told \in 0 .. MaxTold /\ hit \subseteq Threads

\* Nothing tells the parent of a run that is still open in the stores
\* (finalize_run writes the rows before it calls the handler): a parent that is
\* woken and looks finds what the message says.
ReportAfterFinish == (inbox.root \cup fresh \cup stored \cup dropped) \ {Brief} \subseteq finished

\* When cancel_thread returns, a child that was at work when it was called, and is
\* at work on that run still, has been asked to cancel, unless stop_subagent wrote
\* its row too (a stop that finds no execution may mark a run begun since).
RunningChildrenStop ==
    [][cancel["user"].at = "next" /\ cancel'["user"].at = "done" =>
          \A o \in open :
             /\ o.phase \in Working /\ o.kid \notin stopped
             /\ run[o.kid] = o.run /\ wf[o.kid] \in Working
             => asked[o.kid] # "no"]_vars

\* Every finished run of a child reaches the parent's transcript, unless the child
\* or the parent was asked to cancel, or the run of the parent that drained the
\* report failed at its start or in its turn: the handler's retries, the read that
\* keeps it quiet and a parent that closes meanwhile lose none.
ReportsArrive ==
    \A r \in Reports :
       r \in finished ~> (r \in stored \cup dropped \/ {Root, r[1]} \cap hit # {})

\* The state is well formed, and no report goes before the end of the run it tells of.
DelegationInv == TypeOK /\ ReportAfterFinish
================================================================================
