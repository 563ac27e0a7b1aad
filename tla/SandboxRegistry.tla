-------------------------- MODULE SandboxRegistry --------------------------
(***************************************************************************)
(* One sandbox id, as the workers that share its record see it:            *)
(* SandboxRegistry.open, attach and close of every worker, over the        *)
(* compare-and-set of SandboxStore.claim and a backend that reclaims       *)
(* sandboxes when it likes.                                                *)
(*                                                                         *)
(* A worker's concurrent resolves with one spec are one task, shared.  A   *)
(* task, or a close, takes one step per await.                             *)
(***************************************************************************)
EXTENDS Naturals, FiniteSets

CONSTANTS
  Workers,    \* worker processes, each with a registry
  Specs,      \* the specs an owner opens the sandbox with
  Opens,      \* per worker, the specs an owner opens it with there
  Attachers,  \* workers where somebody attaches
  Closers,    \* workers where the owner may close
  MaxOpened,  \* bound: sandboxes the backend opens, an earlier process's among them
  MaxFails    \* bound: backend and store operations that fail

None == "none"
Keys == Specs \cup {None}   \* what a resolve is shared by: its owner's spec, or None

ASSUME RegistryAssumption ==
  /\ None \notin Specs
  /\ Opens \in [Workers -> SUBSET Specs]
  /\ Attachers \subseteq Workers /\ Closers \subseteq Workers
  /\ MaxOpened \in Nat \ {0} /\ MaxFails \in Nat

VARIABLES
  record,   \* the store's record: provider_id (0: no record) and spec
  alive,    \* sandboxes that run in the backend
  opened,   \* sandboxes opened so far; they are numbered from 1
  handle,   \* per worker, the cached handle of _live (0: none)
  fresh,    \* per worker, the handle was verified within VERIFIED_FOR_S
  noted,    \* per worker, _recorded
  task,     \* per worker and key, the shared resolve
  closing,  \* per worker, its close: where it stands, the record it read and
            \* the sandboxes it stops
  dropping, \* per worker, sandboxes that resolves it cancelled are closing
  fails,    \* operations that failed so far
  lost,     \* sandboxes a failed or interrupted call left running (history)
  raced     \* sandboxes whose record a close forgot without having read it (history)

backend == <<alive, opened>>
caches  == <<handle, fresh, noted>>
history == <<fails, lost, raced>>
vars    == <<record, backend, caches, task, closing, dropping, history>>

Ids      == 1 .. MaxOpened
NoRecord == [id |-> 0, spec |-> None]
NoTask   == [pc |-> "idle", seen |-> NoRecord, own |-> 0]
NotClosing == [pc |-> "idle", seen |-> NoRecord, stops |-> {}]

\* Nothing is recorded, or what an earlier process recorded, running or reclaimed since.
Init ==
  /\ \/ record = NoRecord /\ alive = {} /\ opened = 0
     \/ /\ record \in [id : {1}, spec : Specs] /\ opened = 1
        /\ alive \in {{}, {1}}
  /\ handle = [w \in Workers |-> 0]
  /\ fresh = [w \in Workers |-> FALSE]
  /\ noted = [w \in Workers |-> None]
  /\ task = [w \in Workers |-> [k \in Keys |-> NoTask]]
  /\ closing = [w \in Workers |-> NotClosing]
  /\ dropping = [w \in Workers |-> {}]
  /\ fails = 0 /\ lost = {} /\ raced = {}

-----------------------------------------------------------------------------
(* Callers.                                                                *)

At(w, k, pc) == task[w][k].pc = pc
Goto(w, k, pc) == task' = [task EXCEPT ![w][k].pc = pc]

\* _verified: a handle served without asking the backend again.
Verified(w) == handle[w] # 0 /\ fresh[w]

\* An owner's open starts a resolve for its spec, unless one runs, which it
\* joins, or the cache serves it: the spec is the one this worker last saw
\* recorded.
Open(w, s) ==
  /\ s \in Opens[w] /\ At(w, s, "idle")
  /\ ~(Verified(w) /\ noted[w] = s)
  /\ Goto(w, s, "reading")
  /\ UNCHANGED <<record, backend, caches, closing, dropping, history>>

Attach(w) ==
  /\ w \in Attachers /\ ~Verified(w) /\ At(w, None, "idle")
  /\ Goto(w, None, "reading")
  /\ UNCHANGED <<record, backend, caches, closing, dropping, history>>

-----------------------------------------------------------------------------
(* _resolve.                                                               *)

\* The spec a sandbox is opened with: the owner's, else the recorded one.
Use(k, seen) == IF k # None THEN k ELSE seen.spec

\* _keep, and what the callers of the resolve learn.
Keep(w, k, id) ==
  /\ handle' = [handle EXCEPT ![w] = id]
  /\ fresh' = [fresh EXCEPT ![w] = TRUE]
  /\ noted' = [noted EXCEPT ![w] = Use(k, task[w][k].seen)]
  /\ task' = [task EXCEPT ![w][k] = NoTask]

\* Reads the record, not the cache: another worker may have replaced it.
\* An attach finds nobody opened the sandbox, or its owner closed it.
ReadRecord(w, k) ==
  /\ At(w, k, "reading")
  /\ task' = [task EXCEPT ![w][k] =
       IF record.id # 0 THEN [pc |-> "attaching", seen |-> record, own |-> 0]
       ELSE IF k # None THEN [pc |-> "opening", seen |-> record, own |-> 0]
       ELSE NoTask]
  /\ UNCHANGED <<record, backend, caches, closing, dropping, history>>

AttachBackend(w, k) ==
  /\ At(w, k, "attaching")
  /\ LET seen == task[w][k].seen IN
     IF seen.id \notin alive
     THEN Goto(w, k, "opening") /\ UNCHANGED caches
     ELSE IF k \notin {None, seen.spec}
     THEN Goto(w, k, "respeccing") /\ UNCHANGED caches
     ELSE Keep(w, k, seen.id)
  /\ UNCHANGED <<record, backend, closing, dropping, history>>

\* Mutant: a claim that does not compare.
ClaimsAnyway(seen) == TRUE

\* SandboxStore.claim: the record still holds the id that was read.
Claims(seen) == record.id = seen.id

\* An owner's new spec is recorded with a live sandbox.
ClaimSpec(w, k) ==
  /\ At(w, k, "respeccing")
  /\ LET seen == task[w][k].seen IN
     IF Claims(seen)
     THEN record' = [id |-> seen.id, spec |-> k] /\ Keep(w, k, seen.id)
     ELSE Goto(w, k, "reading") /\ UNCHANGED <<record, caches>>
  /\ UNCHANGED <<backend, closing, dropping, history>>

OpenBackend(w, k) ==
  /\ At(w, k, "opening") /\ opened < MaxOpened
  /\ opened' = opened + 1 /\ alive' = alive \cup {opened'}
  /\ task' = [task EXCEPT ![w][k].pc = "claiming", ![w][k].own = opened']
  /\ UNCHANGED <<record, caches, closing, dropping, history>>

ClaimOpened(w, k) ==
  /\ At(w, k, "claiming")
  /\ LET seen == task[w][k].seen
         own  == task[w][k].own IN
     IF Claims(seen)
     THEN record' = [id |-> own, spec |-> Use(k, seen)] /\ Keep(w, k, own)
     ELSE /\ Goto(w, k, IF record.id = 0 THEN "quitting" ELSE "yielding")
          /\ UNCHANGED <<record, caches>>
  /\ UNCHANGED <<backend, closing, dropping, history>>

\* Mutant: the sandboxes are left running.
LeftRunning(ids) == alive

\* ModalSandbox.close: the stop is asked for, and waited for, so that no attach finds it.
Stopped(ids) == alive \ ids

\* Sandbox.close, whose error nobody sees.
Stop(ids) ==
  \/ alive' = Stopped(ids) /\ UNCHANGED <<fails, lost>>
  \/ /\ fails < MaxFails /\ fails' = fails + 1
     /\ lost' = lost \cup ids
     /\ UNCHANGED alive

\* Another worker recorded one first, or the owner closed it: drop ours, and
\* look again, unless this is an attach to what was closed.
DropOpened(w, k) ==
  /\ task[w][k].pc \in {"yielding", "quitting"}
  /\ Stop({task[w][k].own})
  /\ task' = [task EXCEPT ![w][k] =
       IF At(w, k, "quitting") /\ k = None THEN NoTask ELSE [NoTask EXCEPT !.pc = "reading"]]
  /\ UNCHANGED <<record, opened, caches, closing, dropping, raced>>

\* The backend, or the store, refuses: every caller of the resolve gets the
\* error.  A sandbox that was just opened is not closed.  At the bound of opens
\* the backend refuses another.
ResolveFails(w, k) ==
  /\ task[w][k].pc \in {"reading", "attaching", "respeccing", "opening", "claiming"}
  /\ IF At(w, k, "opening") /\ opened = MaxOpened
     THEN UNCHANGED fails
     ELSE fails < MaxFails /\ fails' = fails + 1
  /\ lost' = IF At(w, k, "claiming") THEN lost \cup {task[w][k].own} ELSE lost
  /\ task' = [task EXCEPT ![w][k] = NoTask]
  /\ UNCHANGED <<record, backend, caches, closing, dropping, raced>>

Resolve(w, k) == \/ ReadRecord(w, k) \/ AttachBackend(w, k) \/ ClaimSpec(w, k)
                 \/ OpenBackend(w, k) \/ ClaimOpened(w, k) \/ DropOpened(w, k)

-----------------------------------------------------------------------------
(* close.                                                                  *)

Holding(w, pcs) == {task[w][k].own : k \in {j \in Keys : task[w][j].pc \in pcs}}

\* The worker's resolves are cancelled.  One that was claiming, whether or not
\* its claim was stored, closes what it opened (shielded); one that was closing
\* what it opened may be interrupted.
Close(w) ==
  /\ w \in Closers /\ closing[w].pc = "idle"
  /\ closing' = [closing EXCEPT ![w].pc = "waiting"]
  /\ \/ UNCHANGED record
     \/ \E k \in Keys :
          /\ At(w, k, "claiming") /\ Claims(task[w][k].seen)
          /\ record' = [id |-> task[w][k].own, spec |-> Use(k, task[w][k].seen)]
  /\ dropping' = [dropping EXCEPT ![w] = @ \cup Holding(w, {"claiming"})]
  /\ LET halfway == Holding(w, {"yielding", "quitting"}) IN
     \/ lost' = lost \cup halfway /\ UNCHANGED alive
     \/ alive' = alive \ halfway /\ UNCHANGED lost
  /\ task' = [task EXCEPT ![w] = [k \in Keys |-> NoTask]]
  /\ UNCHANGED <<opened, caches, fails, raced>>

DropCancelled(w, i) ==
  /\ i \in dropping[w]
  /\ Stop({i})
  /\ dropping' = [dropping EXCEPT ![w] = @ \ {i}]
  /\ UNCHANGED <<record, opened, caches, task, closing, raced>>

\* Mutant: no bound on the wait for the cancelled resolves.
CleanedUp(w) == dropping[w] = {}

\* CANCEL_WAIT_S bounds the wait.
Waited(w) == TRUE

CloseRead(w) ==
  /\ closing[w].pc = "waiting" /\ Waited(w)
  /\ closing' = [closing EXCEPT ![w].pc = "forgetting", ![w].seen = record]
  /\ UNCHANGED <<record, backend, caches, task, dropping, history>>

\* SandboxStore.forget removes whatever record there is by now.
CloseForget(w) ==
  /\ closing[w].pc = "forgetting"
  /\ record' = NoRecord
  /\ raced' = raced \cup ({record.id} \ {0, closing[w].seen.id})
  /\ closing' = [closing EXCEPT ![w].pc = "popping"]
  /\ UNCHANGED <<backend, caches, task, dropping, fails, lost>>

\* The sandbox of the cached handle, and the recorded one ...
ToStop(w) == {handle[w], closing[w].seen.id} \ {0}

ClosePop(w) ==
  /\ closing[w].pc = "popping"
  /\ closing' = [closing EXCEPT ![w].pc = "stopping",
                               ![w].stops = ToStop(w)]
  /\ handle' = [handle EXCEPT ![w] = 0]
  /\ fresh' = [fresh EXCEPT ![w] = FALSE]
  /\ noted' = [noted EXCEPT ![w] = None]
  /\ UNCHANGED <<record, backend, task, dropping, history>>

\* ... stop.
CloseStop(w) ==
  /\ closing[w].pc = "stopping"
  /\ Stop(closing[w].stops)
  /\ closing' = [closing EXCEPT ![w] = NotClosing]
  /\ UNCHANGED <<record, opened, caches, task, dropping, raced>>

\* The store fails the close: its caller gets the error.
CloseFails(w) ==
  /\ closing[w].pc \in {"waiting", "forgetting"}
  /\ fails < MaxFails /\ fails' = fails + 1
  /\ closing' = [closing EXCEPT ![w] = NotClosing]
  /\ UNCHANGED <<record, backend, caches, task, dropping, lost, raced>>

Closing(w) == CloseRead(w) \/ CloseForget(w) \/ ClosePop(w) \/ CloseStop(w)

-----------------------------------------------------------------------------
(* The backend, and time.                                                  *)

Reclaim(i) ==
  /\ i \in alive
  /\ alive' = alive \ {i}
  /\ UNCHANGED <<record, opened, caches, task, closing, dropping, history>>

Expire(w) ==
  /\ fresh[w]
  /\ fresh' = [fresh EXCEPT ![w] = FALSE]
  /\ UNCHANGED <<record, backend, handle, noted, task, closing, dropping, history>>

-----------------------------------------------------------------------------
Worker(w) ==
  \/ \E s \in Specs : Open(w, s)
  \/ Attach(w)
  \/ \E k \in Keys : Resolve(w, k) \/ ResolveFails(w, k)
  \/ Close(w) \/ Closing(w) \/ CloseFails(w)
  \/ \E i \in Ids : DropCancelled(w, i)
  \/ Expire(w)

Next == (\E w \in Workers : Worker(w)) \/ (\E i \in Ids : Reclaim(i))

Spec == Init /\ [][Next]_vars

\* The store answers, and the backend ends a stop close asks for; what a
\* cancelled resolve asked of it may never end.
Fairness == \A w \in Workers : WF_vars(Closing(w))

FairSpec == Spec /\ Fairness
-----------------------------------------------------------------------------
(* Properties.                                                             *)

Records == {NoRecord} \cup [id : Ids, spec : Specs]

TypeOK ==
  /\ record \in Records
  /\ alive \subseteq 1 .. opened /\ opened \in 0 .. MaxOpened
  /\ handle \in [Workers -> 0 .. MaxOpened]
  /\ fresh \in [Workers -> BOOLEAN]
  /\ noted \in [Workers -> Keys]
  /\ task \in [Workers -> [Keys ->
       [pc : {"idle", "reading", "attaching", "respeccing", "opening", "claiming", "yielding", "quitting"},
        seen : Records, own : 0 .. MaxOpened]]]
  /\ closing \in [Workers -> [pc : {"idle", "waiting", "forgetting", "popping", "stopping"},
                            seen : Records, stops : SUBSET Ids]]
  /\ dropping \in [Workers -> SUBSET Ids]
  /\ fails \in 0 .. MaxFails
  /\ lost \subseteq Ids /\ raced \subseteq Ids

\* Sandboxes somebody is about to record or to stop.
InHand ==
  {task[w][k].own : w \in Workers, k \in Keys}
  \cup (UNION {dropping[w] \cup closing[w].stops : w \in Workers})
  \cup {closing[w].seen.id : w \in Workers}
  \cup {handle[w] : w \in {v \in Workers : closing[v].pc = "popping"}}

\* No sandbox runs on that nobody will ever stop: it is the recorded one, or
\* somebody is about to record or to stop it.  The exceptions are those left by
\* a failed or interrupted call, or by a close whose record was replaced
\* between its read and its forget.
NoStray == alive \subseteq {record.id} \cup InHand \cup lost \cup raced

\* A recorded sandbox that runs is never replaced by another, and a sandbox its
\* owner closed is recorded again only by an owner's open.
RecordKept ==
  [][/\ record.id \in alive /\ record.id # record'.id => record'.id = 0
     /\ record.id = 0 /\ record'.id # 0 =>
          \E w \in Workers, s \in Specs : At(w, s, "claiming") /\ task[w][s].own = record'.id]_vars

\* A close ends, though what it cancelled never does.
CloseEnds == \A w \in Workers : closing[w].pc = "waiting" ~> closing[w].pc = "idle"

\* Every worker reaches the same sandbox: two live handles are one, unless one of them is
\* being closed.
SameSandbox ==
  \A v, w \in Workers :
    {handle[v], handle[w]} \subseteq alive \ (InHand \cup lost \cup raced) => handle[v] = handle[w]

\* The state is well formed, no sandbox is left running that nobody will stop, and the
\* workers reach the same one.
RegistryInv == TypeOK /\ NoStray /\ SameSandbox
=============================================================================
