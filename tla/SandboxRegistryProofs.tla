------------------------- MODULE SandboxRegistryProofs -------------------------
(* What holds of a sandbox id for any workers, specs, openers, attachers and  *)
(* closers, sandboxes and failures, with proofs.                              *)
EXTENDS SandboxRegistry, TLAPS

-----------------------------------------------------------------------------
(* The invariant.                                                          *)

\* The types, of a resolve, of a close and of the rest.
Stages == {"idle", "reading", "attaching", "respeccing", "opening", "claiming", "yielding",
           "quitting"}
Tasks    == [pc : Stages, seen : Records, own : 0 .. MaxOpened]
Closings == [pc : {"idle", "waiting", "forgetting", "popping", "stopping"},
             seen : Records, stops : SUBSET Ids]

PlainTypes ==
  /\ record \in Records /\ record.id <= opened
  /\ alive \subseteq 1 .. opened /\ opened \in 0 .. MaxOpened
  /\ handle \in [Workers -> 0 .. MaxOpened]
  /\ fresh \in [Workers -> BOOLEAN]
  /\ noted \in [Workers -> Keys]
  /\ dropping \in [Workers -> SUBSET Ids]
  /\ fails \in 0 .. MaxFails
  /\ lost \subseteq Ids /\ raced \subseteq Ids

\* A resolve has a sandbox of its own from its open to its claim, or to its drop, and
\* an attach that goes on to open or to record has read a record.  It opens another
\* sandbox only in the place of one that is gone: what the record said when it was
\* read does not run any more, nor will it again (n were opened, and these are running).
Owning == {"claiming", "yielding", "quitting"}
Resolves(k, t, n, running) ==
  /\ t.own # 0 <=> t.pc \in Owning
  /\ t.pc \in {"attaching", "respeccing"} => t.seen.id # 0
  /\ k = None /\ t.pc \in {"opening", "claiming"} => t.seen.id # 0
  /\ t.pc = "respeccing" => k # None
  /\ t.seen.id <= n /\ t.own <= n
  /\ t.pc \in {"opening", "claiming"} => t.seen.id \notin running
Resolving ==
  /\ task \in [Workers -> [Keys -> Tasks]]
  /\ \A w \in Workers, k \in Keys : Resolves(k, task[w][k], opened, alive)

\* A close stops what it read, once it comes to that.
Ends(c) ==
  /\ c.stops # {} => c.pc = "stopping"
  /\ c.pc = "stopping" => c.seen.id \in c.stops \cup {0}
Ending ==
  /\ closing \in [Workers -> Closings]
  /\ \A w \in Workers : Ends(closing[w])

\* Every sandbox that runs is the recorded one or in the hands of somebody who goes on:
\* a close that only read its record, or a cached handle, is nobody.
Owned(i)  == \E w \in Workers, k \in Keys : task[w][k].own = i
Closed(i) == \E w \in Workers : \/ i \in closing[w].stops
                                \/ closing[w].pc \in {"popping", "stopping"} /\ closing[w].seen.id = i
Dropped(i) == \E w \in Workers : i \in dropping[w]
InSight ==
  \A i \in alive : i = record.id \/ Owned(i) \/ Closed(i) \/ Dropped(i) \/ i \in lost \cup raced

SightInv == PlainTypes /\ Resolving /\ Ending /\ InSight
-----------------------------------------------------------------------------
(* Every step.                                                             *)

USE RegistryAssumption

\* The initial state, with nothing recorded or what an earlier process recorded.
LEMMA SightInit == Init => SightInv
<1> SUFFICES ASSUME Init PROVE SightInv
    OBVIOUS
<1>0. NoRecord \in Records /\ NoRecord.id = 0 /\ Records \subseteq [id : 0 .. MaxOpened, spec : Keys]
    BY DEF NoRecord, Records, Ids, Keys
<1>1. PlainTypes
    BY DEF Init, PlainTypes, NoRecord, Records, Ids, Keys
<1>2. NoTask \in Tasks /\ Resolves(None, NoTask, opened, alive) /\ \A k \in Specs : Resolves(k, NoTask, opened, alive)
    BY <1>0, <1>1 DEF Tasks, Stages, NoTask, Resolves, Owning, PlainTypes
<1>3. NotClosing \in Closings /\ Ends(NotClosing)
    BY <1>0 DEF Closings, NotClosing, Ends
<1>4. Resolving /\ Ending
    BY <1>2, <1>3 DEF Init, Resolving, Ending, Keys
<1>5. InSight
    BY DEF Init, InSight, NoRecord
<1> QED BY <1>1, <1>4, <1>5 DEF SightInv

\* Time goes on: sandboxes are opened with new numbers, and none is revived.
Onwards == opened <= opened' /\ alive' \cap 1 .. opened \subseteq alive

\* The records and tasks, by their fields.
LEMMA Fields ==
  /\ \A x \in Records : x.id \in 0 .. MaxOpened /\ x.spec \in Keys /\ (x.id # 0 => x.spec \in Specs)
  /\ \A i \in Ids, k \in Specs : [id |-> i, spec |-> k] \in Records
  /\ NoRecord \in Records /\ NoRecord.id = 0
  /\ NoTask \in Tasks /\ NoTask.own = 0 /\ NoTask.pc = "idle" /\ NoTask.seen = NoRecord
  /\ NotClosing \in Closings /\ Ends(NotClosing)
<1>1. /\ \A x \in Records : x.id \in 0 .. MaxOpened /\ x.spec \in Keys /\ (x.id # 0 => x.spec \in Specs)
      /\ \A i \in Ids, k \in Specs : [id |-> i, spec |-> k] \in Records
      /\ NoRecord \in Records /\ NoRecord.id = 0
    BY DEF Records, NoRecord, Ids, Keys
<1> QED BY <1>1 DEF NoTask, Tasks, Stages, NotClosing, Closings, Ends

\* A resolve that a step leaves alone is as it should be after it, too.
LEMMA ResolvesOn ==
  ASSUME PlainTypes, PlainTypes', Onwards, NEW k \in Keys, NEW t \in Tasks,
         Resolves(k, t, opened, alive)
  PROVE  Resolves(k, t, opened', alive')
<1>1. t.seen.id \in 0 .. MaxOpened /\ t.own \in 0 .. MaxOpened
    BY Fields DEF Tasks
<1>2. opened \in Nat /\ opened' \in Nat /\ alive' \subseteq 1 .. opened' /\ opened <= opened'
    BY DEF PlainTypes, Onwards
<1>3. t.seen.id \notin alive /\ t.seen.id <= opened => t.seen.id \notin alive'
    BY <1>1, <1>2 DEF Onwards
<1>4. (t.seen.id <= opened => t.seen.id <= opened') /\ (t.own <= opened => t.own <= opened')
    BY <1>1, <1>2
<1> QED BY <1>3, <1>4 DEF Resolves

\* A step changes one resolve, opens a sandbox at most, and revives none.
LEMMA OneResolve ==
  ASSUME PlainTypes, Resolving, PlainTypes', Onwards,
         NEW w \in Workers, NEW k \in Keys, NEW t \in Tasks, task' = [task EXCEPT ![w][k] = t],
         Resolves(k, t, opened', alive')
  PROVE  /\ Resolving'
         /\ task'[w][k] = t
         /\ \A v \in Workers, j \in Keys : v # w \/ j # k => task'[v][j] = task[v][j]
<1>1. /\ task' \in [Workers -> [Keys -> Tasks]] /\ task'[w][k] = t
      /\ \A v \in Workers, j \in Keys : v # w \/ j # k => task'[v][j] = task[v][j]
    BY DEF Resolving
<1>2. ASSUME NEW v \in Workers, NEW j \in Keys, task'[v][j] = task[v][j]
      PROVE  Resolves(j, task'[v][j], opened', alive')
    BY <1>2, ResolvesOn DEF Resolving
<1> QED BY <1>1, <1>2 DEF Resolving

\* Of a step that leaves the resolves alone, and of one that leaves the closes alone.
LEMMA NoResolve ==
  ASSUME PlainTypes, Resolving, PlainTypes', Onwards, task' = task
  PROVE  Resolving'
BY ResolvesOn DEF Resolving

\* The sandboxes and resolves keep their types and stages.
LEMMA StageStep == SightInv /\ [Next]_vars => (PlainTypes /\ Resolving /\ Ending)'
<1> SUFFICES ASSUME PlainTypes, Resolving, Ending, [Next]_vars
             PROVE  (PlainTypes /\ Resolving /\ Ending)'
    BY DEF SightInv
<1> DEFINE Good == PlainTypes /\ Resolving /\ Ending
<1> USE DEF backend, caches, history, At, Goto
<1>t. ASSUME NEW w \in Workers, NEW k \in Keys
      PROVE  /\ task[w][k] \in Tasks /\ Resolves(k, task[w][k], opened, alive)
             /\ task[w][k].seen \in Records /\ task[w][k].own \in 0 .. MaxOpened
             /\ task[w][k].pc \in Stages
    BY DEF Resolving, Tasks
<1>s. UNCHANGED <<opened, alive>> => Onwards
    BY DEF Onwards, PlainTypes
<1>g. ASSUME NEW w \in Workers, NEW k \in Keys, NEW pc \in Stages, Goto(w, k, pc),
             PlainTypes', UNCHANGED <<opened, alive>>,
             Resolves(k, [task[w][k] EXCEPT !.pc = pc], opened, alive)
      PROVE  Resolving'
  <2> DEFINE t == [task[w][k] EXCEPT !.pc = pc]
  <2>1. t \in Tasks
      BY <1>t DEF Tasks
  <2>2. task' = [task EXCEPT ![w][k] = t]
      BY <1>g
  <2> QED BY <1>g, <1>s, <2>1, <2>2, OneResolve
<1>c. ASSUME closing' = closing PROVE Ending'
    BY <1>c DEF Ending
<1>0. CASE UNCHANGED vars
  <2>1. PlainTypes'
      BY <1>0 DEF vars, PlainTypes
  <2> QED BY <1>0, <1>s, <1>c, <2>1, NoResolve DEF vars
<1>1. ASSUME NEW w \in Workers, NEW k \in Keys, At(w, k, "idle"), Goto(w, k, "reading"),
             UNCHANGED <<record, backend, caches, closing, dropping, history>>
      PROVE  Good'
  <2>1. PlainTypes' /\ Ending'
      BY <1>1, <1>c DEF PlainTypes
  <2>2. Resolves(k, [task[w][k] EXCEPT !.pc = "reading"], opened, alive)
      BY <1>1, <1>t DEF Resolves, Owning, Tasks
  <2>3. Resolving'
      BY <1>1, <1>g, <2>1, <2>2 DEF Stages
  <2> QED BY <2>1, <2>3
<1>2. ASSUME NEW w \in Workers, Attach(w) \/ \E s \in Specs : Open(w, s) PROVE Good'
    BY <1>1, <1>2 DEF Attach, Open, Keys
<1>3. ASSUME NEW w \in Workers, NEW k \in Keys, ReadRecord(w, k) PROVE Good'
  <2>1. PlainTypes' /\ Ending'
      BY <1>3, <1>c DEF ReadRecord, PlainTypes
  <2> DEFINE r == IF record.id # 0 THEN [pc |-> "attaching", seen |-> record, own |-> 0]
                  ELSE IF k # None THEN [pc |-> "opening", seen |-> record, own |-> 0]
                  ELSE NoTask
  <2>2. r \in Tasks /\ task' = [task EXCEPT ![w][k] = r]
      BY <1>3, Fields DEF ReadRecord, Tasks, Stages, PlainTypes
  <2>3. Resolves(k, r, opened, alive)
      BY Fields DEF Resolves, Owning, PlainTypes
  <2>4. Resolving'
      BY <1>3, <1>s, <2>1, <2>2, <2>3, OneResolve DEF ReadRecord
  <2> QED BY <2>1, <2>4
<1>k. ASSUME NEW w \in Workers, NEW k \in Keys, NEW i \in Ids, Keep(w, k, i), k # None \/ task[w][k].seen.id # 0,
             record' \in Records, record'.id <= opened,
             UNCHANGED <<alive, opened, closing, dropping, history>>
      PROVE  Good'
  <2>1. Use(k, task[w][k].seen) \in Specs
      BY <1>k, <1>t, Fields DEF Use, Keys
  <2>2. PlainTypes' /\ Ending'
      BY <1>k, <1>c, <2>1 DEF Keep, PlainTypes, Keys, Ids
  <2>3. Resolves(k, NoTask, opened, alive) /\ NoTask \in Tasks
      BY Fields DEF Resolves, Owning, PlainTypes
  <2>4. Resolving'
      BY <1>k, <1>s, <2>2, <2>3, OneResolve DEF Keep
  <2> QED BY <2>2, <2>4
<1>4. ASSUME NEW w \in Workers, NEW k \in Keys, AttachBackend(w, k) PROVE Good'
  <2> DEFINE seen == task[w][k].seen
  <2>1. /\ seen.id # 0 /\ seen \in Records /\ seen.id \in Ids /\ seen.spec \in Specs
        /\ UNCHANGED <<record, backend, closing, dropping, history>>
      BY <1>4, <1>t, Fields DEF AttachBackend, Resolves, Ids
  <2>2. CASE seen.id \notin alive /\ Goto(w, k, "opening") /\ UNCHANGED caches
    <3>1. Resolves(k, [task[w][k] EXCEPT !.pc = "opening"], opened, alive)
        BY <1>4, <1>t, <2>1, <2>2 DEF AttachBackend, Resolves, Owning, Tasks
    <3>2. PlainTypes' /\ Ending'
        BY <2>1, <2>2, <1>c DEF PlainTypes
    <3> QED BY <1>g, <2>1, <2>2, <3>1, <3>2 DEF Stages
  <2>3. CASE k \notin {None, seen.spec} /\ Goto(w, k, "respeccing") /\ UNCHANGED caches
    <3>1. Resolves(k, [task[w][k] EXCEPT !.pc = "respeccing"], opened, alive)
        BY <1>4, <1>t, <2>1, <2>3 DEF AttachBackend, Resolves, Owning, Tasks
    <3>2. PlainTypes' /\ Ending'
        BY <2>1, <2>3, <1>c DEF PlainTypes
    <3> QED BY <1>g, <2>1, <2>3, <3>1, <3>2 DEF Stages
  <2>4. CASE Keep(w, k, seen.id)
      BY <1>k, <2>1, <2>4 DEF PlainTypes
  <2> QED BY <1>4, <2>2, <2>3, <2>4 DEF AttachBackend
<1>5. ASSUME NEW w \in Workers, NEW k \in Keys, ClaimSpec(w, k) PROVE Good'
  <2> DEFINE seen == task[w][k].seen
  <2>1. /\ seen.id # 0 /\ seen \in Records /\ seen.id \in Ids /\ k \in Specs
        /\ seen.id <= opened /\ UNCHANGED <<backend, closing, dropping, history>>
      BY <1>5, <1>t, Fields DEF ClaimSpec, Resolves, Ids, Keys
  <2>2. CASE record' = [id |-> seen.id, spec |-> k] /\ Keep(w, k, seen.id)
    <3>1. record' \in Records /\ record'.id = seen.id
        BY <2>1, <2>2, Fields
    <3> QED BY <1>k, <2>1, <2>2, <3>1
  <2>3. CASE Goto(w, k, "reading") /\ UNCHANGED <<record, caches>>
    <3>1. Resolves(k, [task[w][k] EXCEPT !.pc = "reading"], opened, alive)
        BY <1>5, <1>t, <2>1 DEF ClaimSpec, Resolves, Owning, Tasks
    <3>2. PlainTypes' /\ Ending'
        BY <2>1, <2>3, <1>c DEF PlainTypes
    <3> QED BY <1>g, <2>1, <2>3, <3>1, <3>2 DEF Stages
  <2> QED BY <1>5, <2>2, <2>3 DEF ClaimSpec
<1>6. ASSUME NEW w \in Workers, NEW k \in Keys, OpenBackend(w, k) PROVE Good'
  <2> DEFINE r == [task[w][k] EXCEPT !.pc = "claiming", !.own = opened']
  <2>1. /\ opened' = opened + 1 /\ opened' <= MaxOpened /\ opened' \in Ids
        /\ alive' = alive \cup {opened'} /\ opened \in Nat
      BY <1>6 DEF OpenBackend, PlainTypes, Ids
  <2>2. PlainTypes' /\ Ending' /\ Onwards
    <3>1. alive' \subseteq 1 .. opened' /\ opened' \in 0 .. MaxOpened /\ record'.id <= opened'
        BY <1>6, <2>1, Fields DEF OpenBackend, PlainTypes
    <3> QED BY <1>6, <1>c, <2>1, <3>1 DEF OpenBackend, PlainTypes, Onwards
  <2>3. r \in Tasks /\ task' = [task EXCEPT ![w][k] = r]
    <3>1. r \in Tasks
      <4>1. opened' \in 0 .. MaxOpened
          BY <2>1
      <4>2. \A t \in Tasks, n \in 0 .. MaxOpened :
              [t EXCEPT !.pc = "claiming", !.own = n] \in Tasks
          BY DEF Tasks, Stages
      <4> QED BY <1>t, <4>1, <4>2
    <3>2. task' = [task EXCEPT ![w][k].pc = "claiming", ![w][k].own = opened']
        BY <1>6 DEF OpenBackend
    <3>3. /\ task \in [Workers -> [Keys -> Tasks]] /\ task[w] \in [Keys -> Tasks]
          /\ task[w][k] = [pc |-> task[w][k].pc, seen |-> task[w][k].seen, own |-> task[w][k].own]
        BY <1>t DEF Resolving, Tasks
    <3>4. task' = [task EXCEPT ![w] = [task[w] EXCEPT ![k] = r]]
        BY <3>2, <3>3
    <3> QED BY <3>1, <3>3, <3>4
  <2>4. Resolves(k, task[w][k], opened', alive')
      BY <1>t, <2>2, ResolvesOn
  <2>5. Resolves(k, r, opened', alive')
      BY <1>6, <1>t, <2>1, <2>4, Fields DEF OpenBackend, Resolves, Owning, Tasks
  <2> QED BY <2>2, <2>3, <2>5, OneResolve
<1>7. ASSUME NEW w \in Workers, NEW k \in Keys, ClaimOpened(w, k) PROVE Good'
  <2> DEFINE seen == task[w][k].seen
             own  == task[w][k].own
  <2>1. /\ k # None \/ seen.id # 0
        /\ seen \in Records /\ own \in Ids /\ own <= opened
        /\ UNCHANGED <<backend, closing, dropping, history>> /\ Use(k, seen) \in Specs
      BY <1>7, <1>t, Fields DEF ClaimOpened, Resolves, Ids, Keys, Use, Owning
  <2>2. CASE record' = [id |-> own, spec |-> Use(k, seen)] /\ Keep(w, k, own)
    <3>1. record' \in Records /\ record'.id = own
        BY <2>1, <2>2, Fields
    <3> QED BY <1>k, <2>1, <2>2, <3>1
  <2>3. CASE UNCHANGED <<record, caches>> /\ \E pc \in {"quitting", "yielding"} : Goto(w, k, pc)
    <3>1. PICK pc \in {"quitting", "yielding"} : Goto(w, k, pc)
        BY <2>3
    <3>2. Resolves(k, [task[w][k] EXCEPT !.pc = pc], opened, alive) /\ pc \in Stages
        BY <1>7, <1>t, <2>1, <3>1 DEF ClaimOpened, Resolves, Owning, Tasks, Stages
    <3>3. PlainTypes' /\ Ending'
        BY <2>1, <2>3, <1>c DEF PlainTypes
    <3> QED BY <1>g, <2>1, <3>1, <3>2, <3>3
  <2> QED BY <1>7, <2>2, <2>3 DEF ClaimOpened
<1>8. ASSUME NEW w \in Workers, NEW k \in Keys, DropOpened(w, k) PROVE Good'
  <2> DEFINE r == IF At(w, k, "quitting") /\ k = None THEN NoTask ELSE [NoTask EXCEPT !.pc = "reading"]
  <2>1. task[w][k].own \in Ids
      BY <1>8, <1>t DEF DropOpened, Resolves, Owning, Ids
  <2>2. PlainTypes' /\ Ending' /\ Onwards
      BY <1>8, <1>c, <2>1 DEF DropOpened, Stop, Stopped, PlainTypes, Onwards
  <2>3. /\ r \in Tasks /\ task' = [task EXCEPT ![w][k] = r]
        /\ r.own = 0 /\ r.seen.id = 0 /\ r.pc \in {"idle", "reading"}
      BY <1>8, Fields DEF DropOpened, Tasks, Stages
  <2>4. Resolves(k, r, opened', alive')
      BY <2>2, <2>3 DEF Resolves, Owning, PlainTypes
  <2> QED BY <2>2, <2>3, <2>4, OneResolve
<1>9. ASSUME NEW w \in Workers, NEW k \in Keys, ResolveFails(w, k) PROVE Good'
  <2>1. PlainTypes' /\ Ending' /\ UNCHANGED <<opened, alive>>
      BY <1>9, <1>c, <1>t DEF ResolveFails, PlainTypes, Resolves, Owning, Ids
  <2>3. Resolves(k, NoTask, opened, alive) /\ NoTask \in Tasks
      BY Fields DEF Resolves, Owning, PlainTypes
  <2> QED BY <1>9, <1>s, <2>1, <2>3, OneResolve, ZenonT(40) DEF ResolveFails
<1>10. ASSUME NEW w \in Workers, Close(w) PROVE Good'
  <2>1. \A k \in Keys : At(w, k, "claiming") => task[w][k].own \in Ids /\ task[w][k].own <= opened
                                                /\ Use(k, task[w][k].seen) \in Specs
      BY <1>t, Fields DEF Resolves, Owning, Ids, Use, Keys
  <2>2. record' \in Records /\ record'.id <= opened
      BY <1>10, <2>1, Fields DEF Close, PlainTypes
  <2>3. Holding(w, {"claiming"}) \subseteq Ids /\ Holding(w, {"yielding", "quitting"}) \subseteq Ids
      BY <1>t DEF Holding, Resolves, Owning, Ids
  <2>4. PlainTypes' /\ Onwards
      BY <1>10, <2>2, <2>3 DEF Close, PlainTypes, Onwards
  <2>5. Ending'
      BY <1>10 DEF Close, Ending, Ends, Closings
  <2>6. /\ task' \in [Workers -> [Keys -> Tasks]]
        /\ \A v \in Workers, k \in Keys : task'[v][k] = IF v = w THEN NoTask ELSE task[v][k]
      BY <1>10, Fields DEF Close, Resolving
  <2>7. \A v \in Workers, k \in Keys : Resolves(k, task'[v][k], opened', alive')
    <3>1. \A k \in Keys : Resolves(k, NoTask, opened', alive')
        BY <2>4, Fields DEF Resolves, Owning, PlainTypes
    <3>2. \A v \in Workers, k \in Keys : Resolves(k, task[v][k], opened', alive')
        BY <1>t, <2>4, ResolvesOn
    <3> QED BY <2>6, <3>1, <3>2
  <2> QED BY <2>4, <2>5, <2>6, <2>7 DEF Resolving
<1>11. ASSUME NEW w \in Workers, CloseRead(w) PROVE Good'
  <2>1. PlainTypes' /\ Ending'
      BY <1>11 DEF CloseRead, PlainTypes, Ending, Ends, Closings
  <2> QED BY <1>11, <1>s, <2>1, NoResolve DEF CloseRead
<1>12. ASSUME NEW w \in Workers, CloseForget(w) PROVE Good'
  <2>1. PlainTypes'
      BY <1>12, Fields DEF CloseForget, PlainTypes, Ids
  <2>2. Ending'
      BY <1>12 DEF CloseForget, Ending, Ends, Closings
  <2> QED BY <1>12, <1>s, <2>1, <2>2, NoResolve DEF CloseForget
<1>13. ASSUME NEW w \in Workers, ClosePop(w) PROVE Good'
  <2>1. PlainTypes' /\ ToStop(w) \subseteq Ids
      BY <1>13, Fields DEF ClosePop, PlainTypes, ToStop, Ids, Ending, Closings, Keys
  <2>2. Ending'
      BY <1>13, <2>1 DEF ClosePop, Ending, Ends, Closings, ToStop
  <2> QED BY <1>13, <1>s, <2>1, <2>2, NoResolve DEF ClosePop
<1>14. ASSUME NEW w \in Workers, CloseStop(w) PROVE Good'
  <2>1. PlainTypes' /\ Onwards
    <3>1. Stop(closing[w].stops) /\ closing[w].stops \subseteq Ids
        BY <1>14 DEF CloseStop, Ending, Closings
    <3>2. alive' \subseteq alive /\ fails' \in 0 .. MaxFails /\ lost' \subseteq Ids
        BY <3>1 DEF Stop, Stopped, PlainTypes
    <3> QED BY <1>14, <3>2 DEF CloseStop, PlainTypes, Onwards
  <2>2. Ending'
      BY <1>14, Fields DEF CloseStop, Ending
  <2> QED BY <1>14, <2>1, <2>2, NoResolve DEF CloseStop
<1>15. ASSUME NEW w \in Workers, CloseFails(w) PROVE Good'
  <2>1. PlainTypes'
      BY <1>15 DEF CloseFails, PlainTypes
  <2>2. Ending'
      BY <1>15, Fields DEF CloseFails, Ending
  <2> QED BY <1>15, <1>s, <2>1, <2>2, NoResolve DEF CloseFails
<1>16. ASSUME NEW w \in Workers, NEW i \in Ids, DropCancelled(w, i) PROVE Good'
  <2>1. PlainTypes' /\ Onwards
    <3>1. Stop({i}) /\ {i} \subseteq Ids
        BY <1>16 DEF DropCancelled
    <3>2. alive' \subseteq alive /\ fails' \in 0 .. MaxFails /\ lost' \subseteq Ids
        BY <3>1 DEF Stop, Stopped, PlainTypes
    <3> QED BY <1>16, <3>2 DEF DropCancelled, PlainTypes, Onwards
  <2> QED BY <1>16, <1>c, <2>1, NoResolve DEF DropCancelled
<1>17. ASSUME NEW w \in Workers, Expire(w) PROVE Good'
  <2>1. PlainTypes'
      BY <1>17 DEF Expire, PlainTypes
  <2> QED BY <1>17, <1>s, <1>c, <2>1, NoResolve DEF Expire
<1>18. ASSUME NEW i \in Ids, Reclaim(i) PROVE Good'
  <2>1. PlainTypes' /\ Onwards
      BY <1>18 DEF Reclaim, PlainTypes, Onwards
  <2> QED BY <1>18, <1>c, <2>1, NoResolve DEF Reclaim
<1> QED BY <1>0, <1>2, <1>3, <1>4, <1>5, <1>6, <1>7, <1>8, <1>9, <1>10, <1>11, <1>12, <1>13,
           <1>14, <1>15, <1>16, <1>17, <1>18 DEF Next, Worker, Resolve, Closing
-----------------------------------------------------------------------------
(* No stray.                                                               *)

\* Every step leaves each sandbox that runs recorded or in somebody's hands.
LEMMA SightStep == SightInv /\ [Next]_vars => InSight'
<1> SUFFICES ASSUME SightInv, [Next]_vars PROVE InSight'
    OBVIOUS
<1> USE DEF backend, caches, history, At, Goto
<1>t. ASSUME NEW w \in Workers, NEW k \in Keys
      PROVE  /\ task[w][k] \in Tasks /\ Resolves(k, task[w][k], opened, alive)
             /\ task[w][k].seen \in Records
    BY DEF SightInv, Resolving, Tasks
\* A resolve that goes on to something else and has the same sandbox, or none.
<1>g. ASSUME NEW w \in Workers, NEW k \in Keys, NEW t, task' = [task EXCEPT ![w][k] = t],
             \/ t.own = task[w][k].own
             \/ task[w][k].own \notin alive' \/ task[w][k].own = record'.id
             \/ task[w][k].own \in lost',
             alive' \subseteq alive, lost \subseteq lost',
             record.id \notin alive \/ record'.id = record.id, UNCHANGED <<closing, dropping, raced>>
      PROVE  InSight'
  <2> SUFFICES ASSUME NEW i \in alive',
                      i # record'.id, ~Closed(i)', ~Dropped(i)', i \notin lost' \cup raced'
               PROVE  Owned(i)'
      BY DEF InSight
  <2>1. ~Closed(i) /\ ~Dropped(i) /\ i \notin lost \cup raced /\ i # record.id /\ i \in alive
      BY <1>g DEF Closed, Dropped
  <2>2. PICK v \in Workers, j \in Keys : task[v][j].own = i
      BY <2>1 DEF SightInv, InSight, Owned
  <2>3. /\ \A v1 \in Workers, j1 \in Keys : v1 # w \/ j1 # k => task'[v1][j1] = task[v1][j1]
        /\ task'[w][k] = t
      BY <1>g DEF SightInv, Resolving
  <2> QED BY <1>g, <2>2, <2>3 DEF Owned
\* A step of somebody else.
<1>n. ASSUME UNCHANGED <<task, closing, dropping, record>>, alive' \subseteq alive,
             lost \subseteq lost', raced \subseteq raced'
      PROVE  InSight'
    BY <1>n DEF SightInv, InSight, Owned, Closed, Dropped
<1>0. CASE UNCHANGED vars
    BY <1>0, <1>n DEF vars
<1>1. ASSUME NEW w \in Workers, NEW k \in Keys, NEW pc, Goto(w, k, pc),
             UNCHANGED <<alive, lost, record, closing, dropping, raced>>
      PROVE  InSight'
  <2> DEFINE t == [task[w][k] EXCEPT !.pc = pc]
  <2>1. task' = [task EXCEPT ![w][k] = t] /\ t.own = task[w][k].own
      BY <1>1, <1>t DEF Tasks
  <2> QED BY <1>1, <1>g, <2>1
<1>2. ASSUME NEW w \in Workers, Attach(w) \/ \E s \in Specs : Open(w, s) PROVE InSight'
    BY <1>1, <1>2 DEF Attach, Open, Keys
<1>3. ASSUME NEW w \in Workers, NEW k \in Keys, ReadRecord(w, k) PROVE InSight'
  <2> DEFINE t == IF record.id # 0 THEN [pc |-> "attaching", seen |-> record, own |-> 0]
                  ELSE IF k # None THEN [pc |-> "opening", seen |-> record, own |-> 0]
                  ELSE NoTask
  <2>1. /\ task' = [task EXCEPT ![w][k] = t] /\ t.own = 0 /\ task[w][k].own = 0
        /\ UNCHANGED <<alive, lost, record, closing, dropping, raced>>
      BY <1>3, <1>t, Fields DEF ReadRecord, Resolves, Owning
  <2> QED BY <1>g, <2>1
<1>k. ASSUME NEW w \in Workers, NEW k \in Keys, NEW i, Keep(w, k, i),
             task[w][k].own \in {0, record'.id}, record.id \notin alive \/ record'.id = record.id,
             UNCHANGED <<alive, lost, closing, dropping, raced>>
      PROVE  InSight'
  <2>1. NoTask.own = 0 /\ task' = [task EXCEPT ![w][k] = NoTask]
      BY <1>k, Fields DEF Keep
  <2> QED BY <1>k, <1>g, <2>1
<1>4. ASSUME NEW w \in Workers, NEW k \in Keys, AttachBackend(w, k) PROVE InSight'
  <2>1. task[w][k].own = 0 /\ UNCHANGED <<record, backend, closing, dropping, history>>
      BY <1>4, <1>t DEF AttachBackend, Resolves, Owning
  <2>2. CASE \E pc \in Stages : Goto(w, k, pc)
      BY <1>1, <2>1, <2>2
  <2>3. CASE Keep(w, k, task[w][k].seen.id)
      BY <1>k, <2>1, <2>3
  <2> QED BY <1>4, <2>2, <2>3 DEF AttachBackend, Stages
<1>5. ASSUME NEW w \in Workers, NEW k \in Keys, ClaimSpec(w, k) PROVE InSight'
  <2>1. task[w][k].own = 0 /\ UNCHANGED <<backend, closing, dropping, history>>
      BY <1>5, <1>t DEF ClaimSpec, Resolves, Owning
  <2>2. CASE Claims(task[w][k].seen)
      BY <1>5, <1>k, <2>1, <2>2 DEF ClaimSpec, Claims
  <2>3. CASE ~Claims(task[w][k].seen)
      BY <1>5, <1>1, <2>1, <2>3 DEF ClaimSpec
  <2> QED BY <2>2, <2>3
<1>6. ASSUME NEW w \in Workers, NEW k \in Keys, OpenBackend(w, k) PROVE InSight'
  <2>1. /\ alive' = alive \cup {opened'} /\ UNCHANGED <<record, closing, dropping, history>>
        /\ task[w][k].pc = "opening"
      BY <1>6 DEF OpenBackend
  <2>5. task[w][k].own = 0
      BY <2>1, <1>t DEF Resolves, Owning
  <2>2. /\ task'[w][k].own = opened'
        /\ \A v \in Workers, j \in Keys : v # w \/ j # k => task'[v][j] = task[v][j]
    <3>1. /\ task \in [Workers -> [Keys -> Tasks]] /\ task[w] \in [Keys -> Tasks]
          /\ task[w][k] = [pc |-> task[w][k].pc, seen |-> task[w][k].seen, own |-> task[w][k].own]
        BY <1>t DEF SightInv, Resolving, Tasks
    <3>2. task' = [task EXCEPT ![w][k].pc = "claiming", ![w][k].own = opened']
        BY <1>6 DEF OpenBackend
    <3> QED BY <3>1, <3>2
  <2>3. ASSUME NEW i \in alive, Owned(i) PROVE Owned(i)'
    <3>1. i # 0
        BY DEF SightInv, PlainTypes
    <3> QED BY <2>1, <2>2, <2>3, <2>5, <3>1 DEF Owned
  <2>4. ASSUME NEW i, i = opened' PROVE Owned(i)'
      BY <2>2, <2>4 DEF Owned
  <2> QED BY <2>1, <2>3, <2>4 DEF InSight, SightInv, Closed, Dropped
<1>7. ASSUME NEW w \in Workers, NEW k \in Keys, ClaimOpened(w, k) PROVE InSight'
  <2>1. UNCHANGED <<backend, closing, dropping, history>>
      BY <1>7 DEF ClaimOpened
  <2>2. CASE Claims(task[w][k].seen)
    <3>1. /\ record' = [id |-> task[w][k].own, spec |-> Use(k, task[w][k].seen)]
          /\ Keep(w, k, task[w][k].own) /\ record.id \notin alive
        BY <1>7, <1>t, <2>2 DEF ClaimOpened, Claims, Resolves
    <3> QED BY <1>k, <2>1, <3>1
  <2>3. CASE ~Claims(task[w][k].seen)
      BY <1>7, <1>1, <2>1, <2>3 DEF ClaimOpened
  <2> QED BY <2>2, <2>3
<1>8. ASSUME NEW w \in Workers, NEW k \in Keys, DropOpened(w, k) PROVE InSight'
  <2> DEFINE t == IF At(w, k, "quitting") /\ k = None THEN NoTask ELSE [NoTask EXCEPT !.pc = "reading"]
  <2>1. task' = [task EXCEPT ![w][k] = t] /\ UNCHANGED <<record, closing, dropping, raced>>
      BY <1>8 DEF DropOpened
  <2>2. /\ alive' \subseteq alive /\ lost \subseteq lost'
        /\ task[w][k].own \notin alive' \/ task[w][k].own \in lost'
      BY <1>8 DEF DropOpened, Stop, Stopped
  <2> QED BY <1>g, <2>1, <2>2
<1>9. ASSUME NEW w \in Workers, NEW k \in Keys, ResolveFails(w, k) PROVE InSight'
  <2>1. /\ task' = [task EXCEPT ![w][k] = NoTask] /\ NoTask.own = 0
        /\ UNCHANGED <<record, backend, closing, dropping, raced>> /\ lost \subseteq lost'
      BY <1>9, Fields DEF ResolveFails
  <2>2. task[w][k].own = 0 \/ task[w][k].own \in lost'
      BY <1>9, <1>t DEF ResolveFails, Resolves, Owning
  <2> QED BY <1>g, <2>1, <2>2
<1>10. ASSUME NEW w \in Workers, Close(w) PROVE InSight'
  <2> DEFINE halfway == Holding(w, {"yielding", "quitting"})
  <2>1. /\ dropping' = [dropping EXCEPT ![w] = @ \cup Holding(w, {"claiming"})]
        /\ alive' \subseteq alive /\ lost \subseteq lost' /\ raced' = raced
        /\ \A i \in halfway : i \notin alive' \/ i \in lost'
        /\ task' = [task EXCEPT ![w] = [k \in Keys |-> NoTask]]
        /\ closing' = [closing EXCEPT ![w].pc = "waiting"] /\ closing[w].pc = "idle"
      BY <1>10 DEF Close
  <2>2. record' = record \/ record.id \notin alive
      BY <1>10, <1>t DEF Close, Claims, Resolves
  <2>3. \A i : Closed(i) => Closed(i)'
      BY <2>1 DEF Closed, SightInv, Ending, Closings, Ends
  <2>4. \A i : Dropped(i) \/ i \in Holding(w, {"claiming"}) => Dropped(i)'
      BY <2>1 DEF Dropped, SightInv, PlainTypes
  <2>5. ASSUME NEW i \in alive', Owned(i) PROVE Owned(i)' \/ Dropped(i)' \/ i \in lost'
    <3>1. PICK v \in Workers, k \in Keys : task[v][k].own = i
        BY <2>5 DEF Owned
    <3>2. CASE v # w
      <4>1. task'[v] = task[v]
          BY <2>1, <3>2 DEF SightInv, Resolving
      <4> QED BY <3>1, <4>1 DEF Owned
    <3>3. CASE v = w
      <4>1. i # 0
          BY <2>1 DEF SightInv, PlainTypes
      <4>2. task[w][k].pc \in Owning
          BY <1>t, <3>1, <3>3, <4>1 DEF Resolves
      <4>3. i \in Holding(w, {"claiming"}) \/ i \in halfway
          BY <3>1, <3>3, <4>2 DEF Holding, Owning
      <4> QED BY <2>1, <2>4, <4>3
    <3> QED BY <3>2, <3>3
  <2> QED BY <2>1, <2>2, <2>3, <2>4, <2>5 DEF InSight, SightInv
<1>11. ASSUME NEW w \in Workers, CloseRead(w) PROVE InSight'
    BY <1>11 DEF CloseRead, InSight, SightInv, Owned, Closed, Dropped, Ending, Closings, Ends
<1>12. ASSUME NEW w \in Workers, CloseForget(w) PROVE InSight'
  <2>1. /\ raced' = raced \cup ({record.id} \ {0, closing[w].seen.id})
        /\ closing' = [closing EXCEPT ![w].pc = "popping"] /\ closing[w].pc = "forgetting"
        /\ UNCHANGED <<backend, caches, task, dropping, fails, lost>>
      BY <1>12 DEF CloseForget
  <2>2. \A i : (Closed(i) => Closed(i)') /\ (i = closing[w].seen.id => Closed(i)')
      BY <2>1 DEF Closed, SightInv, Ending, Closings, Ends
  <2>3. 0 \notin alive
      BY DEF SightInv, PlainTypes
  <2> QED BY <2>1, <2>2, <2>3 DEF InSight, SightInv, Owned, Dropped
<1>13. ASSUME NEW w \in Workers, ClosePop(w) PROVE InSight'
  <2>1. /\ closing' = [closing EXCEPT ![w].pc = "stopping", ![w].stops = ToStop(w)]
        /\ closing[w].pc = "popping" /\ UNCHANGED <<record, backend, task, dropping, history>>
      BY <1>13 DEF ClosePop
  <2>2. /\ closing'[w].pc = "stopping" /\ closing'[w].seen = closing[w].seen
        /\ \A v \in Workers \ {w} : closing'[v] = closing[v]
      BY <2>1 DEF SightInv, Ending, Closings
  <2>3. \A i : Closed(i) => Closed(i)'
      BY <2>1, <2>2 DEF Closed, SightInv, Ending, Ends
  <2> QED BY <2>1, <2>3 DEF InSight, SightInv, Owned, Dropped
<1>14. ASSUME NEW w \in Workers, CloseStop(w) PROVE InSight'
  <2>1. /\ closing[w].pc = "stopping" /\ alive' \subseteq alive /\ lost \subseteq lost'
        /\ \A i \in closing[w].stops : i \notin alive' \/ i \in lost'
        /\ closing' = [closing EXCEPT ![w] = NotClosing]
        /\ UNCHANGED <<record, task, dropping, raced>>
      BY <1>14 DEF CloseStop, Stop, Stopped
  <2>2. \A v \in Workers \ {w} : closing'[v] = closing[v]
      BY <2>1 DEF SightInv, Ending
  <2>3. 0 \notin alive'
      BY <2>1 DEF SightInv, PlainTypes
  <2>4. ASSUME NEW i \in alive', Closed(i) PROVE Closed(i)' \/ i \in lost'
      BY <2>1, <2>2, <2>3, <2>4 DEF Closed, SightInv, Ending, Ends
  <2> QED BY <2>1, <2>4 DEF InSight, SightInv, Owned, Dropped
<1>15. ASSUME NEW w \in Workers, CloseFails(w) PROVE InSight'
  <2>1. /\ closing[w].pc \in {"waiting", "forgetting"} /\ closing' = [closing EXCEPT ![w] = NotClosing]
        /\ UNCHANGED <<record, backend, caches, task, dropping, lost, raced>>
      BY <1>15 DEF CloseFails
  <2>2. \A v \in Workers \ {w} : closing'[v] = closing[v]
      BY <2>1 DEF SightInv, Ending
  <2>3. \A i : Closed(i) => Closed(i)'
      BY <2>1, <2>2 DEF Closed, SightInv, Ending, Ends
  <2> QED BY <2>1, <2>3 DEF InSight, SightInv, Owned, Dropped
<1>16. ASSUME NEW w \in Workers, NEW i \in Ids, DropCancelled(w, i) PROVE InSight'
  <2>1. /\ alive' \subseteq alive /\ lost \subseteq lost' /\ (i \notin alive' \/ i \in lost')
        /\ dropping' = [dropping EXCEPT ![w] = @ \ {i}]
        /\ UNCHANGED <<record, task, closing, raced>>
      BY <1>16 DEF DropCancelled, Stop, Stopped
  <2>2. \A j : Dropped(j) => Dropped(j)' \/ j = i
      BY <2>1 DEF Dropped, SightInv, PlainTypes
  <2> QED BY <2>1, <2>2 DEF InSight, SightInv, Owned, Closed
<1>17. ASSUME NEW w \in Workers, Expire(w) PROVE InSight'
    BY <1>17, <1>n DEF Expire
<1>18. ASSUME NEW i \in Ids, Reclaim(i) PROVE InSight'
    BY <1>18, <1>n DEF Reclaim
<1> QED BY <1>0, <1>2, <1>3, <1>4, <1>5, <1>6, <1>7, <1>8, <1>9, <1>10, <1>11, <1>12, <1>13,
           <1>14, <1>15, <1>16, <1>17, <1>18 DEF Next, Worker, Resolve, Closing
-----------------------------------------------------------------------------
(* What follows.                                                           *)

\* The invariant holds of every state.
LEMMA SightThen == Spec => []SightInv
<1>1. SightInv /\ [Next]_vars => SightInv'
    BY StageStep, SightStep DEF SightInv
<1> QED BY <1>1, SightInit, PTL DEF Spec

\* The registries and the store (SandboxRegistry.open, attach and close, and the claim
\* of SandboxStore) leave no sandbox running that nobody will stop, beside the ones a
\* failed call or a raced close loses, and give the workers the same one, for any
\* workers, openers, closers, sandboxes and failures.
THEOREM RegistryCorrect == Spec => []RegistryInv
<1> SUFFICES SightInv => RegistryInv
    BY SightThen, PTL
<1> SUFFICES ASSUME SightInv PROVE RegistryInv
    OBVIOUS
<1>1. TypeOK
    BY DEF SightInv, PlainTypes, Resolving, Ending, Tasks, Stages, Closings, TypeOK
<1>2. ASSUME NEW i \in alive PROVE i = record.id \/ i \in InHand \cup lost \cup raced
  <2>1. Owned(i) \/ Closed(i) \/ Dropped(i) => i \in InHand
    <3> DEFINE A == {task[w][k].own : w \in Workers, k \in Keys}
               B == {dropping[w] \cup closing[w].stops : w \in Workers}
               C == {closing[w].seen.id : w \in Workers}
               D == {handle[w] : w \in {v \in Workers : closing[v].pc = "popping"}}
    <3>1. Owned(i) => i \in A
        BY DEF Owned
    <3>2. ASSUME NEW w \in Workers, i \in closing[w].stops \/ i \in dropping[w] PROVE i \in UNION B
      <4>1. i \in dropping[w] \cup closing[w].stops /\ dropping[w] \cup closing[w].stops \in B
          BY <3>2
      <4> QED BY <4>1
    <3>3. ASSUME NEW w \in Workers, i = closing[w].seen.id PROVE i \in C
        BY <3>3
    <3>4. InHand = A \cup (UNION B) \cup C \cup D
        BY DEF InHand
    <3> HIDE DEF A, B, C, D
    <3> QED BY <3>1, <3>2, <3>3, <3>4 DEF Closed, Dropped
  <2> QED BY <2>1 DEF SightInv, InSight
<1>3. NoStray
    BY <1>2 DEF NoStray
<1>4. SameSandbox
    BY <1>2 DEF SameSandbox
<1> QED BY <1>1, <1>3, <1>4 DEF RegistryInv

\* A recorded sandbox that runs is never replaced, and one its owner closed is recorded
\* again only by an owner's open: the claims of _resolve compare the id that was read.
THEOREM RegistryKeepsRecord == Spec => RecordKept
<1> DEFINE Kept ==
      /\ record.id \in alive /\ record.id # record'.id => record'.id = 0
      /\ record.id = 0 /\ record'.id # 0 =>
           \E w \in Workers, s \in Specs : At(w, s, "claiming") /\ task[w][s].own = record'.id
<1>1. ASSUME SightInv, [Next]_vars PROVE [Kept]_vars
  <2>t. ASSUME NEW w \in Workers, NEW k \in Keys PROVE Resolves(k, task[w][k], opened, alive)
      BY <1>1 DEF SightInv, Resolving
  <2>1. ASSUME NEW w \in Workers, NEW k \in Keys, At(w, k, "claiming"), Claims(task[w][k].seen),
               record' = [id |-> task[w][k].own, spec |-> Use(k, task[w][k].seen)]
        PROVE  Kept
      BY <2>1, <2>t DEF At, Claims, Resolves, Keys
  <2>2. CASE record'.id = record.id
      BY <2>2
  <2>3. ASSUME NEW w \in Workers, NEW k \in Keys, Resolve(w, k) \/ ResolveFails(w, k) PROVE Kept
    <3>1. CASE ClaimOpened(w, k)
      <4>1. CASE Claims(task[w][k].seen)
          BY <3>1, <4>1, <2>1 DEF ClaimOpened
      <4>2. CASE ~Claims(task[w][k].seen)
          BY <3>1, <4>2, <2>2 DEF ClaimOpened
      <4> QED BY <4>1, <4>2
    <3>2. CASE ClaimSpec(w, k)
        BY <3>2, <2>2 DEF ClaimSpec, Claims
    <3>3. CASE ReadRecord(w, k) \/ AttachBackend(w, k) \/ OpenBackend(w, k) \/ DropOpened(w, k)
               \/ ResolveFails(w, k)
        BY <3>3, <2>2 DEF ReadRecord, AttachBackend, OpenBackend, DropOpened, ResolveFails
    <3> QED BY <2>3, <3>1, <3>2, <3>3 DEF Resolve
  <2>4. ASSUME NEW w \in Workers, Close(w) PROVE Kept
    <3>1. CASE record' = record
        BY <3>1, <2>2
    <3>2. CASE record' # record
        BY <2>4, <3>2, <2>1 DEF Close
    <3> QED BY <3>1, <3>2
  <2>5. ASSUME NEW w \in Workers, CloseForget(w) PROVE Kept
      BY <2>5, Fields DEF CloseForget
  <2>6. ASSUME NEW w \in Workers, \/ CloseRead(w) \/ ClosePop(w) \/ CloseStop(w) \/ CloseFails(w)
                                  \/ Attach(w) \/ Expire(w) \/ \E s \in Specs : Open(w, s)
                                  \/ \E i \in Ids : DropCancelled(w, i)
        PROVE  Kept
      BY <2>6, <2>2 DEF CloseRead, ClosePop, CloseStop, CloseFails, Attach, Expire, Open, DropCancelled
  <2>7. ASSUME NEW i \in Ids, Reclaim(i) PROVE Kept
      BY <2>7, <2>2 DEF Reclaim
  <2> HIDE DEF Kept
  <2> QED BY <1>1, <2>3, <2>4, <2>5, <2>6, <2>7 DEF Next, Worker, Closing
<1> QED BY <1>1, SightThen, PTL DEF Spec, RecordKept
=============================================================================
