------------------------------ MODULE SandboxHost ------------------------------
(***************************************************************************)
(* The service host of a sandbox (actant/sandbox/host.py), the callers     *)
(* that reach it over HTTP (actant/sandbox/service.py) and the worker      *)
(* processes a placed service runs in (processes.py, worker.py).           *)
(*                                                                         *)
(* The calls are those of one service and one key: one instance, one       *)
(* worker slot.  A call id is sent by several attempts of one tool call:   *)
(* a retry follows an attempt that is gone, or that is believed to be.     *)
(* An attempt that gives up tells the host to cancel, if it still can;     *)
(* requests and cancels travel on their own connections, in any order,     *)
(* and none is delivered twice (host.post, one request per connection).    *)
(***************************************************************************)
EXTENDS Naturals, FiniteSets, Sequences, SequencesExt

CONSTANTS
    Calls,      \* call ids
    Stable,     \* those a caller names itself, to send them again (_call)
    Attempts,   \* attempts of a call, 1 .. Attempts
    MaxKept,    \* MAX_FINISHED: finished calls the host keeps
    Starts      \* processes.STARTS; 0 for a service that is not placed

ASSUME HostAssumption ==
    Stable \subseteq Calls /\ Attempts \in Nat \ {0} /\ MaxKept \in Nat /\ Starts \in Nat

VARIABLES
    att,        \* att[c][a]: "idle", "out", "gone", or the answer it was told
    net,        \* requests and cancels under way
    held,       \* attempts whose handler waits for the run of their call
    entry,      \* Host.calls: "none", "running", or how the run ended
    task,       \* where the run of a call is: Host._run
    cancelling, \* calls whose method in the host is told to stop
    kept,       \* finished and cancelled calls, in the order they ended
    opened,     \* Host.instances in the host: "none", "opening", "cancelling", "ready"
    slot,       \* Slot._current: "empty", "starting", "alive"
    starts,     \* Slot._starts
    proc,       \* the worker process is "up", or "down"
    wcall,      \* the calls in the worker: its own Host.calls
    wcancel,    \* CANCEL frames the worker has not acted on
    wopened,    \* the worker's instance
    entered,    \* history: how often the method was entered, per call
    forgot      \* history: calls whose finished run was forgotten

callers == <<att, net, held>>
runs    == <<entry, task, cancelling, kept>>
workers == <<slot, starts, proc, wcall, wcancel, wopened>>
vars    == <<callers, runs, opened, workers, entered, forgot>>

Ends     == {"result", "error", "cancelled", "died"}
Ids      == 1 .. Attempts
Requests == [kind : {"call"}, call : Calls, att : Ids] \cup [kind : {"cancel"}, call : Calls]
Call(c, a)  == [kind |-> "call", call |-> c, att |-> a]
Cancel(c)   == [kind |-> "cancel", call |-> c]

TypeOK ==
    /\ att \in [Calls -> [Ids -> {"idle", "out", "gone"} \cup Ends]]
    /\ net \subseteq Requests
    /\ held \subseteq Calls \X Ids
    /\ entry \in [Calls -> {"none", "running"} \cup Ends]
    /\ task \in [Calls -> {"none", "placing", "worker", "dying", "opening", "method"}]
    /\ \A c \in Calls : task[c] = "none" <=> entry[c] # "running"
    /\ cancelling \subseteq {c \in Calls : task[c] = "method"}
    /\ kept \in Seq(Calls) /\ IsInjective(kept)
    /\ Range(kept) = {c \in Calls : entry[c] \in Ends}
    /\ opened \in {"none", "opening", "cancelling", "ready"}
    /\ slot \in {"empty", "starting", "alive"}
    /\ starts \in 0 .. Starts
    /\ proc \in {"up", "down"}
    /\ wcall \in [Calls -> {"none", "sent", "opening", "method"} \cup Ends]
    /\ wcancel \subseteq Calls
    /\ wopened \in {"none", "opening", "ready"}
    /\ entered \in [Calls -> 0 .. Attempts]
    /\ forgot \subseteq Calls

Init ==
    /\ att = [c \in Calls |-> [a \in Ids |-> "idle"]]
    /\ net = {} /\ held = {}
    /\ entry = [c \in Calls |-> "none"]
    /\ task = [c \in Calls |-> "none"]
    /\ cancelling = {} /\ kept = <<>>
    /\ opened = "none"
    /\ slot = "empty" /\ starts = 0 /\ proc = "down"
    /\ wcall = [c \in Calls |-> "none"]
    /\ wcancel = {} /\ wopened = "none"
    /\ entered = [c \in Calls |-> 0] /\ forgot = {}

(***************************************************************************)
(* A caller: SandboxRunner.call, _send and _post.                          *)
(***************************************************************************)
\* A retry (of the activity, with the same call id) is sent when the attempt
\* before it is gone or believed lost.
SendCall(c, a) ==
    /\ att[c][a] = "idle"
    /\ a > 1 => c \in Stable /\ att[c][a - 1] \in {"gone", "out"}
    /\ att' = [att EXCEPT ![c][a] = "out"]
    /\ net' = net \cup {Call(c, a)}
    /\ UNCHANGED <<held, runs, opened, workers, entered, forgot>>

\* _post gives up: cancelled, timed out or disconnected, it sends the cancel
\* (_abandon); its process was killed or the host cannot be reached, it does not.
GiveUp(c, a) ==
    /\ att[c][a] = "out"
    /\ att' = [att EXCEPT ![c][a] = "gone"]
    /\ \/ net' = net \cup {Cancel(c)}
       \/ net' = net
    /\ UNCHANGED <<held, runs, opened, workers, entered, forgot>>

(***************************************************************************)
(* Host: what is kept of the calls that ended.                             *)
(***************************************************************************)
\* The runs of the calls in S end with e: done callbacks note the time, and the
\* handlers that wait answer their callers (Host.call).
Finish(S, e) ==
    /\ entry' = [c \in Calls |-> IF c \in S THEN e ELSE entry[c]]
    /\ task' = [c \in Calls |-> IF c \in S THEN "none" ELSE task[c]]
    /\ cancelling' = cancelling \ S
    /\ kept' = kept \o SetToSeq(S)
    /\ held' = {h \in held : h[1] \notin S}
    /\ att' = [c \in Calls |-> [a \in Ids |->
                 IF <<c, a>> \in held /\ c \in S /\ att[c][a] = "out" THEN e ELSE att[c][a]]]

\* Host._forget_finished drops what is older than KEEP_FINISHED_S, here any
\* number of the oldest, and at least what exceeds MAX_FINISHED.
Excess     == IF Len(kept) > MaxKept THEN Len(kept) - MaxKept ELSE 0
Dropped(n) == {kept[i] : i \in 1 .. n}
Younger(n) == SubSeq(kept, n + 1, Len(kept))

(***************************************************************************)
(* Host._run, in the host: Host.instance and call_method.                  *)
(***************************************************************************)
\* Runs that need the instance take it, or wait for its one open.
ServeInHost(S) ==
    /\ task' = [c \in Calls |-> IF c \notin S THEN task[c]
                                ELSE IF opened = "ready" THEN "method" ELSE "opening"]
    /\ opened' = IF opened = "none" /\ S # {} THEN "opening" ELSE opened
    /\ entered' = [c \in Calls |-> entered[c] +
                     IF c \in S /\ opened = "ready" THEN 1 ELSE 0]

\* Slot.worker and Workers.call: the run goes to the worker, waits for one that
\* starts, starts one, or stays in the host once the starts are spent.
Place(c) ==
    \/ /\ slot = "alive"
       /\ task' = [task EXCEPT ![c] = "worker"]
       /\ wcall' = [wcall EXCEPT ![c] = IF @ = "none" THEN "sent" ELSE @]
       /\ UNCHANGED <<opened, slot, starts, proc, wcancel, wopened, entered>>
    \/ /\ slot = "starting" \/ (slot = "empty" /\ starts < Starts)
       /\ task' = [task EXCEPT ![c] = "placing"]
       /\ slot' = "starting"
       /\ starts' = IF slot = "empty" THEN starts + 1 ELSE starts
       /\ UNCHANGED <<opened, proc, wcall, wcancel, wopened, entered>>
    \/ /\ slot = "empty" /\ starts = Starts
       /\ ServeInHost({c})
       /\ UNCHANGED workers

\* Mutant: a cancel that came first is not remembered.
KnownRequest(c) == entry[c] \notin {"none", "cancelled"}

\* Mutant: a finished call is not remembered.
KnownRun(c) == entry[c] = "running"

Known(c) == entry[c] # "none"

\* Host.call under an unknown id: forget, then run.
CallArrives(c, a) ==
    /\ Call(c, a) \in net /\ ~Known(c)
    /\ net' = net \ {Call(c, a)}
    /\ held' = held \cup {<<c, a>>}
    /\ \E n \in Excess .. Len(kept) :
         LET gone == Dropped(n) IN
         /\ kept' = Younger(n)
         /\ entry' = [d \in Calls |-> IF d = c THEN "running"
                                      ELSE IF d \in gone THEN "none" ELSE entry[d]]
         /\ forgot' = forgot \cup gone
    /\ Place(c)
    /\ UNCHANGED <<att, cancelling>>

\* Host.call under an id that runs: the handler waits for that run.
CallAttaches(c, a) ==
    /\ Call(c, a) \in net /\ Known(c) /\ entry[c] = "running"
    /\ net' = net \ {Call(c, a)}
    /\ held' = held \cup {<<c, a>>}
    /\ UNCHANGED <<att, runs, opened, workers, entered, forgot>>

\* Host.call under an id that ended: its end is the answer.
CallAnswered(c, a) ==
    /\ Call(c, a) \in net /\ Known(c) /\ entry[c] \in Ends
    /\ net' = net \ {Call(c, a)}
    /\ att' = [att EXCEPT ![c][a] = IF @ = "out" THEN entry[c] ELSE @]
    /\ UNCHANGED <<held, runs, opened, workers, entered, forgot>>

\* Host.cancel of an unknown id: its request, when it comes, must not run.
CancelUnknown(c) ==
    /\ Cancel(c) \in net /\ entry[c] = "none"
    /\ net' = net \ {Cancel(c)}
    /\ \E n \in Excess .. Len(kept) :
         LET gone == Dropped(n) IN
         /\ kept' = Append(Younger(n), c)
         /\ entry' = [d \in Calls |-> IF d = c THEN "cancelled"
                                      ELSE IF d \in gone THEN "none" ELSE entry[d]]
         /\ forgot' = forgot \cup gone
    /\ UNCHANGED <<att, held, task, cancelling, opened, workers, entered>>

CancelTooLate(c) ==
    /\ Cancel(c) \in net /\ entry[c] \in Ends
    /\ net' = net \ {Cancel(c)}
    /\ UNCHANGED <<att, held, runs, opened, workers, entered, forgot>>

\* Host.cancel of a run: what the run awaits is cancelled.  A wait for a worker
\* is over at once, the worker is told (Worker.call); a wait for the instance
\* cancels the open it awaits; a method sees CancelledError.
CancelRun(c) ==
    /\ Cancel(c) \in net /\ entry[c] = "running"
    /\ net' = net \ {Cancel(c)}
    /\ \/ /\ task[c] \in {"placing", "worker", "dying"}
          /\ Finish({c}, "cancelled")
          /\ wcancel' = IF task[c] = "worker" THEN wcancel \cup {c} ELSE wcancel
          /\ UNCHANGED <<opened>>
       \/ /\ task[c] = "opening"
          /\ opened' = "cancelling"
          /\ UNCHANGED <<att, held, runs, wcancel>>
       \/ /\ task[c] = "method"
          /\ cancelling' = cancelling \cup {c}
          /\ UNCHANGED <<att, held, entry, task, kept, opened, wcancel>>
    /\ UNCHANGED <<slot, starts, proc, wcall, wopened, entered, forgot>>

CancelArrives(c) == CancelUnknown(c) \/ CancelTooLate(c) \/ CancelRun(c)

Opening == {c \in Calls : task[c] = "opening"}

\* open_instance returns: the runs that waited enter their methods.
Opened ==
    /\ opened = "opening"
    /\ opened' = "ready"
    /\ task' = [c \in Calls |-> IF c \in Opening THEN "method" ELSE task[c]]
    /\ entered' = [c \in Calls |-> entered[c] + IF c \in Opening THEN 1 ELSE 0]
    /\ UNCHANGED <<callers, entry, cancelling, kept, workers, forgot>>

\* open_instance fails or was cancelled: every run that waited for it ends so,
\* and the next call opens again.
OpenFailed ==
    /\ opened \in {"opening", "cancelling"}
    /\ opened' = "none"
    /\ Finish(Opening, IF opened = "opening" THEN "error" ELSE "cancelled")
    /\ UNCHANGED <<net, workers, entered, forgot>>

\* A method told to stop ends cancelled, unless it catches that and returns.
MethodEnds(c) ==
    /\ task[c] = "method"
    /\ \/ Finish({c}, "result")
       \/ c \in cancelling /\ Finish({c}, "cancelled")
    /\ UNCHANGED <<net, opened, workers, entered, forgot>>

(***************************************************************************)
(* Worker processes: Slot, Worker, and worker.serve with its own Host.     *)
(***************************************************************************)
Placing == {c \in Calls : task[c] = "placing"}
AtWorker == {c \in Calls : task[c] = "worker"}

\* Worker.spawn succeeds: the runs that waited are sent.
WorkerStarted ==
    /\ slot = "starting"
    /\ slot' = "alive" /\ proc' = "up"
    /\ task' = [c \in Calls |-> IF c \in Placing THEN "worker" ELSE task[c]]
    /\ wcall' = [c \in Calls |-> IF c \in Placing THEN "sent" ELSE "none"]
    /\ UNCHANGED <<callers, entry, cancelling, kept, opened, starts, wcancel, wopened,
                   entered, forgot>>

\* Worker.spawn raises OSError: the runs that waited for it are served in the host.
StartFails ==
    /\ slot = "starting"
    /\ slot' = "empty"
    /\ ServeInHost(Placing)
    /\ UNCHANGED <<callers, entry, cancelling, kept, starts, proc, wcall, wcancel,
                   wopened, forgot>>

\* The worker reads a CALL frame.  A CANCEL right behind it is acted on first.
WorkerReceives(c) ==
    /\ proc = "up" /\ wcall[c] = "sent"
    /\ \/ /\ wcall' = [wcall EXCEPT ![c] = IF wopened = "ready" THEN "method" ELSE "opening"]
          /\ wopened' = IF wopened = "none" THEN "opening" ELSE wopened
          /\ entered' = [entered EXCEPT ![c] = @ + IF wopened = "ready" THEN 1 ELSE 0]
          /\ UNCHANGED wcancel
       \/ /\ c \in wcancel
          /\ wcancel' = wcancel \ {c}
          /\ wcall' = [wcall EXCEPT ![c] = "cancelled"]
          /\ UNCHANGED <<wopened, entered>>
    /\ UNCHANGED <<callers, runs, opened, slot, starts, proc, forgot>>

WOpening == {c \in Calls : wcall[c] = "opening"}

WorkerOpens ==
    /\ proc = "up" /\ wopened = "opening"
    /\ \/ /\ wopened' = "ready"
          /\ wcall' = [c \in Calls |-> IF c \in WOpening THEN "method" ELSE wcall[c]]
          /\ entered' = [c \in Calls |-> entered[c] + IF c \in WOpening THEN 1 ELSE 0]
       \/ /\ wopened' = "none"
          /\ wcall' = [c \in Calls |-> IF c \in WOpening THEN "error" ELSE wcall[c]]
          /\ UNCHANGED entered
    /\ UNCHANGED <<callers, runs, opened, slot, starts, proc, wcancel, forgot>>

\* The worker's Host.cancel; a cancelled wait cancels the open, as in the host.
WorkerCancels(c) ==
    /\ proc = "up" /\ c \in wcancel /\ wcall[c] # "sent"
    /\ wcancel' = wcancel \ {c}
    /\ LET stopped == IF wcall[c] = "opening" THEN WOpening
                      ELSE IF wcall[c] = "method" THEN {c} ELSE {}
       IN  wcall' = [d \in Calls |-> IF d \in stopped THEN "cancelled" ELSE wcall[d]]
    /\ wopened' = IF wcall[c] = "opening" THEN "none" ELSE wopened
    /\ UNCHANGED <<callers, runs, opened, slot, starts, proc, entered, forgot>>

WorkerAnswers(c) ==
    /\ proc = "up" /\ wcall[c] = "method"
    /\ wcall' = [wcall EXCEPT ![c] = "result"]
    /\ UNCHANGED <<callers, runs, opened, slot, starts, proc, wcancel, wopened, entered, forgot>>

\* Worker._listen takes a DONE frame; one nobody waits for is ignored.
HostHears(c) ==
    /\ slot = "alive" /\ task[c] = "worker" /\ wcall[c] \in Ends
    /\ Finish({c}, wcall[c])
    /\ UNCHANGED <<net, opened, workers, entered, forgot>>

WorkerExits ==
    /\ proc = "up"
    /\ proc' = "down"
    /\ UNCHANGED <<callers, runs, opened, slot, starts, wcall, wcancel, wopened, entered, forgot>>

\* Worker._listen ends, as the process exited or sent what cannot be read: the
\* worker is no longer alive and is killed; its calls are told once it is reaped.
ListenEnds ==
    /\ slot = "alive"
    /\ slot' = "empty" /\ proc' = "down"
    /\ wcall' = [c \in Calls |-> "none"]
    /\ wcancel' = {} /\ wopened' = "none"
    /\ task' = [c \in Calls |-> IF c \in AtWorker THEN "dying" ELSE task[c]]
    /\ UNCHANGED <<callers, entry, cancelling, kept, opened, starts, entered, forgot>>

\* Mutant: the calls end only when no worker has taken the slot.
DyingWithoutNext == {c \in Calls : task[c] = "dying" /\ slot = "empty"}

Dying == {c \in Calls : task[c] = "dying"}

\* process.wait returned: each call in flight ends with WorkerDied.
Reaped ==
    /\ Dying # {}
    /\ Finish(Dying, "died")
    /\ UNCHANGED <<net, opened, workers, entered, forgot>>
-----------------------------------------------------------------------------
Next ==
    \/ \E c \in Calls : \E a \in Ids :
         SendCall(c, a) \/ GiveUp(c, a) \/ CallArrives(c, a) \/ CallAttaches(c, a) \/ CallAnswered(c, a)
    \/ \E c \in Calls : CancelArrives(c) \/ MethodEnds(c)
    \/ Opened \/ OpenFailed
    \/ WorkerStarted \/ StartFails \/ WorkerOpens \/ WorkerExits \/ ListenEnds \/ Reaped
    \/ \E c \in Calls : WorkerReceives(c) \/ WorkerCancels(c) \/ WorkerAnswers(c) \/ HostHears(c)

\* Methods and opens end, and the host's and a live worker's event loops run:
\* a started worker starts or fails, and the end of a process is noticed.
Fairness ==
    /\ WF_vars(Opened \/ OpenFailed) /\ WF_vars(WorkerStarted \/ StartFails)
    /\ WF_vars(WorkerOpens) /\ WF_vars(Reaped)
    /\ WF_vars(proc = "down" /\ ListenEnds)
    /\ \A c \in Calls : /\ WF_vars(MethodEnds(c)) /\ WF_vars(WorkerReceives(c))
                        /\ WF_vars(WorkerAnswers(c)) /\ WF_vars(HostHears(c))

Spec == Init /\ [][Next]_vars /\ Fairness
-----------------------------------------------------------------------------
\* The host runs a call id once: however many attempts send it, in whatever
\* order their requests and cancels arrive, and whichever worker dies, its method
\* is entered a second time only after the host forgot its first run.
RunsOnce == \A c \in Calls : entered[c] > 1 => c \in forgot

\* The attempts of a call that are answered are told the same, unless the host
\* forgot the call between them: a retry gets the one result of the run, and
\* never a result beside a "cancelled" or a WorkerDied of the same run.
OneAnswer ==
    \A c \in Calls : \A a, b \in Ids :
        {att[c][a], att[c][b]} \subseteq Ends /\ c \notin forgot => att[c][a] = att[c][b]

\* A call ends: a worker that dies, an open that fails or is cancelled by another
\* call, or a slot that cannot start leaves no run, and so no caller, waiting.
CallsEnd == \A c \in Calls : entry[c] = "running" ~> entry[c] # "running"

\* The host's calls, runs, handlers and kept ends fit together, and the attempts of a
\* call are told the same.
HostInv == TypeOK /\ OneAnswer
=============================================================================
