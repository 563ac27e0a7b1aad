--------------------------- MODULE AgentThreadProofs ---------------------------
(* What holds of a thread for any messages, turns and attempts, and whoever  *)
(* cancels it, with proofs.  Types and bounds hold of every state; the rest  *)
(* until an attempt that Temporal gave up goes on (astray), which would      *)
(* store an answer beside its successor's.                                   *)
EXTENDS AgentThread, FiniteSetTheorems, SequenceTheorems, TLAPS

-----------------------------------------------------------------------------
(* The invariant: types and bounds.                                        *)

Statuses == {"none", "started", "inbound", "resumed", "answered", "counted", "done",
             "error", "over", "dead"}
AttemptState == [pc : Statuses, thread : Rows, turns : Nat, skip : Nat, reply : {0} \cup Attempts]

\* The messages that some run took.
Taken == {m \in Msgs : took[m] # 0}

\* Every run took a message of its own.
RunsCounted ==
  /\ lastRun <= Cardinality(Taken)
  /\ \A m \in Taken : m \in Members(sent)
  /\ \A m \in Members(inbox) : m \in Members(sent) /\ took[m] = 0

\* No run has begun more turns than it may: t of a budget, with l left to the run.
Within(budget, w, t, l) ==
  /\ t <= budget
  /\ w = "starting" => t + MaxTurns <= budget
  /\ w \in {"looping", "grouping"} => t + l <= budget
  /\ w = "turning" => l > 0 /\ t + l <= budget + 1

TurnsCounted == Within(lastRun * MaxTurns, wf, turn, left)

\* The workflow has a run from its start to its end, and a turn while it awaits one.
Opened    == {"starting", "looping", "turning", "grouping", "finalizing"}
Underway ==
  /\ wf \in Opened \cup {"finalized"} => current = lastRun /\ lastRun # 0
  /\ wf \in Opened => runs[current].status = "active"
  /\ wf = "idle" => current = 0
  /\ wf \in {"finalizing", "finalized"} => outcome # "none"
  /\ \A r \in Runs : r > lastRun => runs[r].status = "absent"
  /\ wf \in {"turning", "grouping"} => turn # 0 /\ attempt # 0 /\ RunOf(turn) = current

\* Turns belong to runs that were opened.
Begun ==
  /\ \A t \in Turns : RunOf(t) <= lastRun
  /\ \A t \in Turns, k \in Attempts : act[t][k].pc # "none" => RunOf(t) # 0

Bounds == TypeOK /\ RunsCounted /\ TurnsCounted /\ Underway /\ Begun

-----------------------------------------------------------------------------
(* The invariant: one attempt at a time, one answer a turn.                *)

Alive == {"started", "inbound", "resumed", "answered", "counted", "done"}
Wrote == {"resumed", "answered", "counted", "done", "over"}

\* Only the attempt the workflow waits for takes steps.
OneAlive ==
  \A t \in Turns, k \in Attempts :
    act[t][k].pc \in Alive => wf = "turning" /\ t = turn /\ k = attempt

\* Turns to come have nothing.
ToCome ==
  \A t \in Turns : t > turn =>
    /\ answered[t] = <<>> /\ payload[t].index = 0
    /\ \A k \in Attempts : act[t][k].pc = "none"

\* An attempt a, the k-th, that asks the model found no answer; one that has an answer has
\* the answer of its turn.
Accounts(a, k, answer) ==
  /\ a.pc = "started" /\ k = 1 => answer = <<>>
  /\ a.pc = "inbound" => answer = <<>> /\ a.reply = k
  /\ a.pc \in Wrote => answer = <<a.reply>>

Answered == \A t \in Turns, k \in Attempts : Accounts(act[t][k], k, answered[t])

\* The group is that of an attempt that is over.
Grouped == wf = "grouping" => act[turn][attempt].pc = "over"

OneEach == \A t \in Turns : Len(answered[t]) <= 1

TurnsInv == OneAlive /\ ToCome /\ Answered /\ Grouped /\ OneEach

-----------------------------------------------------------------------------
(* The invariant: messages wait, and are stored, in the order they came.   *)

\* x was sent before y, s being what was sent.
Before(s, x, y) == \E a, b \in 1 .. Len(s) : a < b /\ s[a] = x /\ s[b] = y

Sorted(s, q)     == \A i, j \in 1 .. Len(q) : i < j => Before(s, q[i], q[j])
Precede(s, X, Y) == \A x \in X, y \in Y : Before(s, x, y)

\* The messages among the rows of a transcript, and those of a queue after its n-th.
Texts(rows)   == {rows[i][1] : i \in 1 .. Len(rows)}
Remains(q, n) == {q[j] : j \in n + 1 .. Len(q)}

Reading == {"starting", "looping", "turning", "grouping"}

\* The transcript, the messages of the run and those of the inbox follow each other.
Queued ==
  /\ Texts(stored) \subseteq Members(sent)
  /\ \A i \in 1 .. Len(stored) : stored[i][2] <= turn
  /\ Sorted(sent, inbox) /\ Precede(sent, Texts(stored), Members(inbox))
  /\ wf \in Reading =>
       /\ Sorted(sent, fresh) /\ Precede(sent, Members(fresh), Members(inbox))
       /\ Members(fresh) \subseteq Members(sent)
  /\ wf \in {"starting", "looping"} => Precede(sent, Texts(stored), Members(fresh))

\* The last n rows of the transcript are the first n messages of the turn t, and none before.
Latest(rows, n, t, q) ==
  LET rest == Len(rows) - n IN
  /\ n \in 0 .. Len(rows) /\ n <= Len(q)
  /\ \A i \in 1 .. Len(rows) : rows[i][2] = t <=> i > rest
  /\ \A j \in 1 .. n : rows[rest + j][1] = q[j]

\* An attempt a, the k-th, of a turn that has an answer or none, knows how many those are.
Knows(a, k, answer, n, q) ==
  /\ a.pc = "inbound" => a.skip = n
  /\ a.pc = "started" /\ k = 1 => n = 0
  /\ answer # <<>> => n = Len(q)

Delivered(n) ==
  /\ Latest(stored, n, turn, fresh)
  /\ Knows(act[turn][attempt], attempt, answered[turn], n, fresh)
  /\ Precede(sent, Texts(stored), Remains(fresh, n))

Delivering ==
  wf = "turning" => payload[turn].msgs = fresh /\ \E n \in 0 .. Len(stored) : Delivered(n)

\* A message the run under way took is stored or still before it; a run that ends well
\* has none left.
Kept ==
  /\ \A m \in Msgs : took[m] <= lastRun
  /\ wf \in Reading => \A m \in Msgs : took[m] = current => m \in Texts(stored) \cup Members(fresh)
  /\ wf = "looping" /\ left = 0 => fresh = <<>>
  /\ wf = "grouping" => fresh = <<>>
  /\ wf = "finalizing" /\ outcome \in {"completed", "exhausted"} =>
       \A m \in Msgs : took[m] = current => m \in Texts(stored)

InOrder == \A i, j \in 1 .. Len(stored) : i < j => Before(sent, stored[i][1], stored[j][1])

OrderInv == Queued /\ InOrder /\ Delivering /\ Kept /\ CompletedRunsStored

-----------------------------------------------------------------------------
(* The invariant: what the rows show.                                      *)

Names(t) == t.status = "active" /\ t.active = current

\* An attempt that has read the thread's row read it naming the run.
Shown ==
  /\ RunIsShown
  /\ client \in {"off", "asked"} =>
       \A t \in Turns, k \in Attempts :
         act[t][k].pc \in {"inbound", "resumed", "answered", "counted"} => Names(act[t][k].thread)

\* A cancel the workflow saw at a wait of its own is on its way to the row, or in it.
Recorded ==
  /\ client = "off" => ~cancelReq /\ seen = "nowhere"
  /\ seen \in {"idle", "grouping"} =>
       /\ ~cancelReq
       /\ \/ recording /\ wf \in {"finalizing", "finalized", "recorded", "sweeping"}
          \/ wf = "closed" /\ thread.status = "cancelled" /\ thread.active = 0

ShownInv == Shown /\ Recorded /\ CancelRecorded

LifeInv == Bounds /\ TurnsInv /\ OrderInv /\ ShownInv

-----------------------------------------------------------------------------
(* The invariant: rest, and turn numbers.                                  *)

\* A call without a result is of a run that was cut off, or is the answer's of the turn under
\* way, or of a run that finalize_run is about to repair.
Open ==
  \A t \in Turns, k \in Attempts : calls[t][k] = "open" =>
    /\ t <= turn
    /\ \/ RunOf(t) \in cut
       \/ /\ wf \in {"turning", "grouping", "finalizing"}
          /\ t = turn /\ answered[t] = <<k>> /\ RunOf(t) = current
          /\ wf = "finalizing" => Repairs

\* The runs a row may name, the current one c being in hand at w.
Named(w, c) == {0} \cup cut \cup IF w \in Opened \cup {"finalized"} THEN {c} ELSE {}

\* A row names none but those, and one if it is active.
Fits(t) == t.active \in Named(wf, current) /\ (t.status = "active" => t.active # 0)

\* So does the thread's row, and the one an attempt has read; between runs no run is open but
\* those that were cut off.
Resting ==
  /\ Fits(thread)
  /\ \A t \in Turns, k \in Attempts :
       act[t][k].pc \in {"inbound", "resumed", "answered"} => Fits(act[t][k].thread)
  /\ \A r \in Runs : runs[r].status = "active" => r \in cut \/ (wf \in Opened /\ r = current)

\* A row that was read counts what the thread's row counts; a client's, not more.
Counts ==
  /\ wf \in {"starting", "finalized", "sweeping"} => row["workflow"].turns = thread.turns
  /\ client = "swept" => row["client"].turns <= thread.turns

\* What an attempt that has read the row, or counted on it, knows of the row's count n
\* when the workflow's is c.
Tallies(a, n, c) ==
  /\ a.pc \in {"inbound", "resumed", "answered"} => a.thread.turns = n
  /\ a.pc = "answered" => n = c
  /\ a.pc \in {"counted", "done"} => n = c + 1

\* The workflow counts with the thread's row: behind it only while a turn is being counted.
Numbered ==
  /\ wf \in {"looping", "grouping"} => count = thread.turns
  /\ wf = "turning" =>
       /\ payload[turn].index = count + 1
       /\ thread.turns \in {count, count + 1}
       /\ answered[turn] = <<>> => thread.turns = count
       /\ Tallies(act[turn][attempt], thread.turns, count)
  /\ \A t \in Turns, k \in Attempts : act[t][k].pc = "over" => payload[t].index <= thread.turns

RestInv ==
  Open /\ Resting /\ AtRest /\ (rewound \/ (Counts /\ Numbered /\ TurnsNumbered))
-----------------------------------------------------------------------------
(* Attempts.                                                               *)

USE ThreadAssumption

AttemptStates == [Turns -> [Attempts -> AttemptState]]

\* b takes the place of attempt k of turn t.
Becomes(old, new, t, k, b) ==
  \A u \in Turns, j \in Attempts : new[u][j] = IF u = t /\ j = k THEN b ELSE old[u][j]

\* Turns, attempts and runs are natural numbers, from 1 on.
Numbers ==
  /\ Cardinality(Msgs) \in Nat
  /\ Cardinality(Msgs) * MaxTurns \in Nat
  /\ Runs \subseteq Nat \ {0} /\ Turns \subseteq Nat \ {0} /\ Attempts \subseteq Nat \ {0}
  /\ 1 \in Attempts

\* So the constants have them.
LEMMA Ranges == Numbers
<1> USE DEF Numbers
<1>1. Cardinality(Msgs) \in Nat
    BY FS_CardinalityType
<1> DEFINE N == Cardinality(Msgs)
<1>2. N * MaxTurns \in Nat
  <2> HIDE DEF N
  <2> QED BY <1>1 DEF N
<1> HIDE DEF N
<1> QED BY <1>1, <1>2 DEF Runs, Turns, Attempts, N

\* A sequence of one.
LEMMA OneElement ==
  ASSUME NEW S, NEW s \in Seq(S), s # <<>>, Len(s) <= 1
  PROVE  Len(s) = 1 /\ s = <<s[1]>>
<1>1. Len(s) = 1
  <2>1. Len(s) \in Nat \ {0}
      BY EmptySeq, Zenon
  <2>2. \A n \in Nat \ {0} : n <= 1 => n = 1
      OBVIOUS
  <2> QED BY <2>1, <2>2, Zenon
<1>2. <<s[1]>> \in Seq(S) /\ Len(<<s[1]>>) = 1 /\ <<s[1]>>[1] = s[1]
    BY <1>1
<1> QED BY <1>1, <1>2, SeqEqual

\* Writing an attempt changes that attempt alone.
LEMMA Writing ==
  ASSUME NEW old \in AttemptStates, NEW t \in Turns, NEW k \in Attempts, NEW b \in AttemptState
  PROVE  LET new == [old EXCEPT ![t][k] = b] IN
         new \in AttemptStates /\ Becomes(old, new, t, k, b)
  BY DEF AttemptStates, Becomes

\* So does moving it to a further place.
LEMMA Moving ==
  ASSUME NEW old \in AttemptStates, NEW t \in Turns, NEW k \in Attempts, NEW pc \in Statuses
  PROVE  LET new == [old EXCEPT ![t][k].pc = pc]
             b   == [old[t][k] EXCEPT !.pc = pc] IN
         /\ new \in AttemptStates /\ b \in AttemptState
         /\ Becomes(old, new, t, k, b)
<1>1. old[t][k] \in AttemptState
    BY DEF AttemptStates
<1>2. [old[t][k] EXCEPT !.pc = pc] \in AttemptState
    BY <1>1 DEF AttemptState
<1> QED BY <1>2 DEF AttemptStates, Becomes

-----------------------------------------------------------------------------
(* Types.                                                                  *)

\* The types of the stores, of the workflow's place, of its queues and of its turns.
StoreTypes ==
  /\ thread \in Rows
  /\ runs \in [Runs -> [status : {"absent", "active"} \cup Finished, turns : Nat]]
  /\ stored \in Seq(Msgs \X Turns)
  /\ answered \in [Turns -> Seq(Attempts)]
  /\ calls \in [Turns -> [Attempts -> {"none", "open", "told"}]]
FlowTypes ==
  /\ wf \in {"closed", "idle", "starting", "looping", "turning", "grouping",
             "finalizing", "finalized", "recorded", "sweeping"}
  /\ recording \in BOOLEAN
  /\ cut \subseteq Runs
  /\ outcome \in {"none", "completed", "exhausted", "failed", "cancelled"}
  /\ cancelled \in BOOLEAN /\ cancelReq \in BOOLEAN
  /\ seen \in {"nowhere", "idle", "starting", "turning", "grouping", "telling", "finalizing", "finalized"}
  /\ client \in {"off", "asked", "swept", "done"} /\ rewound \in BOOLEAN /\ astray \in BOOLEAN
QueueTypes ==
  /\ inbox \in Seq(Msgs) /\ fresh \in Seq(Msgs) /\ sent \in Seq(Msgs)
  /\ took \in [Msgs -> {0} \cup Runs]
TurnTypes ==
  /\ lastRun \in {0} \cup Runs /\ current \in {0} \cup Runs
  /\ left \in 0 .. MaxTurns /\ count \in Nat
  /\ turn \in {0} \cup Turns /\ attempt \in {0} \cup Attempts
  /\ payload \in [Turns -> [run : {0} \cup Runs, index : Nat, msgs : Seq(Msgs)]]
  /\ row \in [{"workflow", "client"} -> Rows]

\* Together with those of the attempts they are the types of the thread.
LEMMA Typed ==
  TypeOK <=> StoreTypes /\ FlowTypes /\ QueueTypes /\ TurnTypes /\ act \in AttemptStates
<1> QED BY DEF TypeOK, StoreTypes, FlowTypes, QueueTypes, TurnTypes, AttemptStates, AttemptState, Statuses

\* The initial state is well formed.
LEMMA TypeInit == Init => TypeOK
<1> SUFFICES ASSUME Init PROVE TypeOK
    OBVIOUS
<1>1. Asleep \in AttemptState /\ NoRow \in Rows
    BY DEF Asleep, NoRow, AttemptState, Statuses, Rows
<1>2. act \in AttemptStates
    BY <1>1 DEF Init, AttemptStates
<1>3. thread \in Rows /\ row \in [{"workflow", "client"} -> Rows]
    BY <1>1 DEF Init
<1>4. payload \in [Turns -> [run : {0} \cup Runs, index : Nat, msgs : Seq(Msgs)]]
    BY DEF Init
<1>5. /\ runs \in [Runs -> [status : {"absent", "active"} \cup Finished, turns : Nat]]
      /\ stored \in Seq(Msgs \X Turns) /\ answered \in [Turns -> Seq(Attempts)]
      /\ calls \in [Turns -> [Attempts -> {"none", "open", "told"}]]
      /\ inbox \in Seq(Msgs) /\ fresh \in Seq(Msgs) /\ sent \in Seq(Msgs)
      /\ took \in [Msgs -> {0} \cup Runs]
    BY DEF Init
<1>6. left \in 0 .. MaxTurns
    BY DEF Init
<1> QED BY <1>2, <1>3, <1>4, <1>5, <1>6 DEF Init, TypeOK, AttemptStates, AttemptState, Statuses

\* The members of a sequence of messages.
LEMMA Drained ==
  ASSUME NEW q \in Seq(Msgs), NEW m \in Msgs
  PROVE  /\ Members(Append(q, m)) = Members(q) \cup {m}
         /\ q # <<>> => q[1] \in Members(q) /\ q[1] \in Msgs
         /\ Members(<<m>>) = {m}
         /\ Members(q) \subseteq Msgs
<1>1. Members(Append(q, m)) = Members(q) \cup {m}
    BY DEF Members
<1>2. q # <<>> => q[1] \in Members(q) /\ q[1] \in Msgs
    BY DEF Members
<1>3. Members(<<m>>) = {m}
    BY DEF Members
<1>4. Members(q) \subseteq Msgs
    BY DEF Members
<1> QED BY <1>1, <1>2, <1>3, <1>4

\* There is a run for the messages that wait, and a turn for the run that may take one.
LEMMA RoomForRun ==
  ASSUME TypeOK, RunsCounted, StartRun
  PROVE  lastRun + 1 \in Runs /\ lastRun + 1 <= Cardinality(Taken')
<1> DEFINE m == inbox[1]
<1>1. m \in Msgs /\ m \in Members(inbox) /\ took[m] = 0
  <2>1. inbox \in Seq(Msgs) /\ inbox # <<>>
      BY DEF TypeOK, StartRun
  <2>2. m \in Members(inbox) /\ m \in Msgs
      BY <2>1 DEF Members
  <2> QED BY <2>2 DEF RunsCounted
<1>2. IsFiniteSet(Taken) /\ IsFiniteSet(Taken') /\ Cardinality(Taken') <= Cardinality(Msgs)
    BY FS_Subset DEF Taken
<1>3. lastRun \in Nat
    BY Ranges DEF TypeOK, Numbers
<1>4. Taken \cup {m} \subseteq Taken'
    BY <1>1, <1>3 DEF StartRun, Taken, TypeOK
<1>5. Cardinality(Taken \cup {m}) = Cardinality(Taken) + 1
    BY <1>1, <1>2, FS_AddElement DEF Taken
<1>6. Cardinality(Taken \cup {m}) <= Cardinality(Taken')
    BY <1>2, <1>4, FS_Subset
<1>7. Cardinality(Taken) \in Nat /\ Cardinality(Taken') \in Nat
    BY <1>2, FS_CardinalityType
<1>8. lastRun <= Cardinality(Taken)
    BY DEF RunsCounted
<1> QED BY <1>2, <1>3, <1>5, <1>6, <1>7, <1>8, Ranges DEF Runs, Numbers

\* There is a turn for a run with turns left.
LEMMA RoomForTurn ==
  ASSUME TypeOK, TurnsCounted, Underway, wf = "looping", left > 0
  PROVE  turn + 1 \in Turns
<1> DEFINE N == Cardinality(Msgs)
<1>1. N \in Nat /\ lastRun \in Nat /\ lastRun <= N /\ turn \in Nat
    BY Ranges DEF TypeOK, Runs, Numbers
<1>2. turn + left <= lastRun * MaxTurns /\ left \in Nat
    BY DEF TurnsCounted, Within, TypeOK
<1>3. lastRun * MaxTurns <= N * MaxTurns /\ lastRun * MaxTurns \in Nat /\ N * MaxTurns \in Nat
  <2> HIDE DEF N
  <2> QED BY <1>1
<1> QED BY <1>1, <1>2, <1>3 DEF Turns

USE DEF stores, flow, position, queues, stops, activities, clients

\* Every step leaves the attempts well formed.
LEMMA ActStep == Bounds /\ [Next]_vars => act' \in AttemptStates
<1> SUFFICES ASSUME Bounds, [Next]_vars PROVE act' \in AttemptStates
    OBVIOUS
<1>1. TypeOK /\ act \in AttemptStates
    BY Typed DEF Bounds
<1>2. Spent("error", 0) \in AttemptState /\ Spent("dead", 0) \in AttemptState
      /\ \A k \in {0} \cup Attempts : Spent("over", k) \in AttemptState
    BY Ranges DEF Spent, Asleep, NoRow, AttemptState, Statuses, Rows, Numbers
<1>3. \A a \in AttemptState, goesOn \in BOOLEAN : GivenUp(a, goesOn) \in AttemptState
    BY <1>2 DEF GivenUp
<1>4. wf \in {"turning", "grouping"} => turn \in Turns /\ attempt \in Attempts
    BY <1>1 DEF TypeOK, Bounds, Underway
<1> USE DEF Statuses
<1>5. CASE UNCHANGED act
    BY <1>1, <1>5
<1>6. CASE BeginTurn
  <2>1. turn + 1 \in Turns
      BY <1>1, <1>6, RoomForTurn DEF BeginTurn, MayTurn, Bounds
  <2> QED BY <1>1, <1>6, <2>1, Ranges, Moving DEF BeginTurn, Numbers
<1>7. CASE TurnReturns
  <2>1. act[turn][attempt] \in AttemptState
      BY <1>1, <1>4, <1>7 DEF TurnReturns, AttemptStates
  <2>2. Spent("over", Reply) \in AttemptState
      BY <1>2, <2>1 DEF Reply, AttemptState
  <2> QED BY <1>1, <1>4, <1>7, <2>2, Writing DEF TurnReturns
<1>8. CASE TurnLost
  <2>4. PICK goesOn \in {FALSE, Survivors} :
          IF attempt < MaxAttempts
          THEN act' = [act EXCEPT ![turn][attempt] = GivenUp(@, goesOn), ![turn][attempt + 1].pc = "started"]
          ELSE act' = [act EXCEPT ![turn][attempt] = GivenUp(@, goesOn)]
      BY <1>8 DEF TurnLost
  <2> DEFINE lost == [act EXCEPT ![turn][attempt] = GivenUp(@, goesOn)]
  <2>1. lost \in AttemptStates
      BY <1>1, <1>3, <1>4, <1>8 DEF TurnLost, AttemptStates
  <2>2. CASE attempt < MaxAttempts
    <3>1. attempt + 1 \in Attempts
        BY <1>4, <1>8, <2>2 DEF TurnLost, Attempts
    <3>2. act' = [lost EXCEPT ![turn][attempt + 1].pc = "started"]
        BY <2>2, <2>4
    <3> HIDE DEF lost
    <3> QED BY <1>4, <1>8, <2>1, <3>1, <3>2, Moving DEF TurnLost
  <2>3. CASE ~(attempt < MaxAttempts)
      BY <2>1, <2>3, <2>4
  <2> QED BY <2>2, <2>3
<1>9. CASE SeeCancel
  <2>1. CASE UNCHANGED act
      BY <1>1, <2>1
  <2>2. CASE TurnCaught
    <3>1. PICK goesOn \in {FALSE, Survivors} : act' = [act EXCEPT ![turn][attempt] = GivenUp(@, goesOn)]
        BY <2>2 DEF TurnCaught
    <3>2. GivenUp(act[turn][attempt], goesOn) \in AttemptState
        BY <1>1, <1>3, <1>4, <2>2 DEF AttemptStates, TurnCaught
    <3> QED BY <1>1, <1>4, <2>2, <3>1, <3>2, Writing DEF TurnCaught
  <2> QED BY <1>9, <2>1, <2>2 DEF SeeCancel, Records, Aborts, GroupCaught
<1>10. ASSUME NEW t \in Turns, NEW k \in Attempts, Attempt(t, k)
       PROVE  act' \in AttemptStates
  <2>1. act[t][k] \in AttemptState
      BY <1>1 DEF AttemptStates
  <2>2. CASE RunTurn(t, k)
    <3> DEFINE b == [pc     |-> IF Resumes(t, k) THEN "resumed" ELSE "inbound",
                     thread |-> thread, turns |-> runs[RunOf(t)].turns, skip |-> FoundStored(t, k),
                     reply  |-> IF Resumes(t, k) THEN answered[t][Len(answered[t])] ELSE k]
    <3>1. runs[RunOf(t)].turns \in Nat /\ thread \in Rows
      <4>1. RunOf(t) # 0 /\ RunOf(t) \in {0} \cup Runs
          BY <1>1, <2>2 DEF RunTurn, At, Bounds, Begun, RunOf, TypeOK
      <4> QED BY <1>1, <4>1 DEF TypeOK
    <3>2. FoundStored(t, k) \in Nat
      <4>1. IsFiniteSet({i \in 1 .. Len(stored) : stored[i][2] = t})
        <5>1. Len(stored) \in Nat
            BY <1>1 DEF TypeOK
        <5>2. IsFiniteSet(1 .. Len(stored))
            BY <5>1, FS_Interval
        <5> QED BY <5>2, FS_Subset
      <4> QED BY <4>1, FS_CardinalityType DEF FoundStored
    <3>3. answered[t] # <<>> => answered[t][Len(answered[t])] \in Attempts
        BY <1>1 DEF TypeOK
    <3>4. b \in AttemptState
      <4>1. b.reply \in {0} \cup Attempts
          BY <3>3 DEF Resumes
      <4> QED BY <3>1, <3>2, <4>1 DEF AttemptState
    <3> QED BY <1>1, <2>2, <3>4, Writing DEF RunTurn
  <2>3. CASE AppendInbound(t, k)
    <3> DEFINE b == [act[t][k] EXCEPT !.skip = @ + 1]
    <3>1. b \in AttemptState
        BY <2>1 DEF AttemptState
    <3>2. act' = [act EXCEPT ![t][k] = b]
        BY <2>3 DEF AppendInbound
    <3> HIDE DEF b
    <3> QED BY <1>1, <3>1, <3>2, Writing
  <2>4. CASE TurnError(t, k)
      BY <1>1, <1>2, <2>4, Writing DEF TurnError
  <2>5. CASE AppendAssistant(t, k) \/ CountThreadTurn(t, k) \/ CountRunTurn(t, k) \/ CountedBefore(t, k)
    <3>1. \E pc \in Statuses : act' = [act EXCEPT ![t][k].pc = pc]
        BY <2>5 DEF AppendAssistant, CountThreadTurn, CountRunTurn, CountedBefore, Step
    <3>2. PICK pc \in Statuses : act' = [act EXCEPT ![t][k].pc = pc]
        BY <3>1
    <3> QED BY <1>1, <3>2, Moving
  <2> QED BY <1>10, <2>2, <2>3, <2>4, <2>5 DEF Attempt
<1>11. CASE [Workflow \/ CancelSignal \/ CancelThread \/ ClientSweep \/ ClientWrite
             \/ \E m \in Msgs : SendMessage(m)]_vars
    BY <1>5, <1>6, <1>7, <1>11 DEF Workflow, StartRun, StartRunWrite, LoopEnds, TurnFails, GroupOver, FinalizeRun,
       FinalizeWrite, WakeCancelled, ApplyThreadCancellation, ApplyWrite, SendMessage, CancelSignal, CancelThread,
       ClientSweep, ClientWrite, vars
<1> QED BY <1>8, <1>9, <1>10, <1>11 DEF Next

USE DEF Workflow, Next, Records, RecordsWait, Aborts, TurnCaught, GroupCaught

\* What the steps leave alone.
LEMMA Unchanged ==
  ASSUME [Next]_vars
  PROVE  /\ BeginTurn \/ TurnReturns \/ TurnLost \/ SeeCancel \/ UNCHANGED act
            \/ \E t \in Turns, k \in Attempts : Attempt(t, k)
         /\ \/ UNCHANGED stores
            \/ StartRun \/ StartRunWrite \/ GroupOver \/ FinalizeRun \/ FinalizeWrite
            \/ SeeCancel \/ ApplyThreadCancellation \/ ApplyWrite \/ ClientSweep \/ ClientWrite
            \/ \E t \in Turns, k \in Attempts :
                 AppendInbound(t, k) \/ AppendAssistant(t, k) \/ CountThreadTurn(t, k) \/ CountRunTurn(t, k)
         /\ \/ StartRun \/ BeginTurn \/ TurnReturns \/ \E m \in Msgs : SendMessage(m)
            \/ UNCHANGED <<queues, sent>>
         /\ \/ StartRun \/ StartRunWrite \/ BeginTurn \/ TurnReturns \/ TurnLost
            \/ FinalizeRun \/ FinalizeWrite \/ ApplyThreadCancellation \/ ClientSweep
            \/ \E m \in Msgs : SendMessage(m)
            \/ UNCHANGED <<position, row, turn, attempt, payload>>
<1>1. BeginTurn \/ TurnReturns \/ TurnLost \/ SeeCancel \/ UNCHANGED act
      \/ \E t \in Turns, k \in Attempts : Attempt(t, k)
    BY DEF StartRun, StartRunWrite, LoopEnds, TurnFails, GroupOver, FinalizeRun, FinalizeWrite,
      WakeCancelled, ApplyThreadCancellation, ApplyWrite, SendMessage, CancelSignal, CancelThread, ClientSweep,
      ClientWrite, vars
<1> USE DEF Attempt
<1>2. \/ UNCHANGED stores
      \/ StartRun \/ StartRunWrite \/ GroupOver \/ FinalizeRun \/ FinalizeWrite
      \/ SeeCancel \/ ApplyThreadCancellation \/ ApplyWrite \/ ClientSweep \/ ClientWrite
      \/ \E t \in Turns, k \in Attempts :
           AppendInbound(t, k) \/ AppendAssistant(t, k) \/ CountThreadTurn(t, k) \/ CountRunTurn(t, k)
  <2>1. ASSUME NEW t \in Turns, NEW k \in Attempts, Attempt(t, k)
        PROVE  \/ UNCHANGED stores
               \/ AppendInbound(t, k) \/ AppendAssistant(t, k) \/ CountThreadTurn(t, k) \/ CountRunTurn(t, k)
      BY <2>1 DEF RunTurn, TurnError, CountedBefore
  <2> HIDE DEF Attempt
  <2>2. LoopEnds \/ TurnFails \/ WakeCancelled \/ CancelSignal \/ CancelThread \/ BeginTurn \/ TurnReturns
        \/ TurnLost \/ UNCHANGED vars \/ (\E m \in Msgs : SendMessage(m)) => UNCHANGED stores
      BY DEF LoopEnds, TurnFails, WakeCancelled, SendMessage, CancelSignal, CancelThread,
        BeginTurn, TurnReturns, TurnLost, vars
  <2> QED BY <2>1, <2>2
<1> HIDE DEF Attempt
<1>5. ASSUME NEW t \in Turns, NEW k \in Attempts, Attempt(t, k)
      PROVE  UNCHANGED <<queues, sent>> /\ UNCHANGED <<position, row, turn, attempt, payload>>
    BY <1>5 DEF Attempt, RunTurn, TurnError, CountedBefore, AppendInbound, AppendAssistant, CountThreadTurn,
      CountRunTurn
<1>3. \/ StartRun \/ BeginTurn \/ TurnReturns \/ \E m \in Msgs : SendMessage(m)
      \/ UNCHANGED <<queues, sent>>
    BY <1>5 DEF StartRunWrite, LoopEnds, TurnFails, GroupOver, FinalizeRun, FinalizeWrite,
      WakeCancelled, ApplyThreadCancellation, ApplyWrite, CancelSignal, CancelThread, ClientSweep, ClientWrite,
      TurnLost, SeeCancel, vars
<1>4. \/ StartRun \/ StartRunWrite \/ BeginTurn \/ TurnReturns \/ TurnLost
      \/ FinalizeRun \/ FinalizeWrite \/ ApplyThreadCancellation \/ ClientSweep
      \/ \E m \in Msgs : SendMessage(m)
      \/ UNCHANGED <<position, row, turn, attempt, payload>>
    BY <1>5 DEF LoopEnds, TurnFails, GroupOver, WakeCancelled, ApplyWrite, CancelSignal, CancelThread,
      ClientWrite, SeeCancel, vars
<1> QED BY <1>1, <1>2, <1>3, <1>4

USE DEF Attempt

\* Every step keeps the types of the stores.
LEMMA StoreStep == Bounds /\ [Next]_vars => StoreTypes'
<1> SUFFICES ASSUME Bounds, [Next]_vars PROVE StoreTypes'
    OBVIOUS
<1>1. StoreTypes /\ TurnTypes /\ FlowTypes /\ act \in AttemptStates /\ Numbers
    BY Typed, Ranges DEF Bounds
<1>2. row["workflow"] \in Rows /\ row["client"] \in Rows
    BY <1>1 DEF TurnTypes
<1> USE DEF StoreTypes
<1>3. CASE UNCHANGED stores
    BY <1>1, <1>3
<1>4. CASE StartRun
    BY <1>1, <1>4, RoomForRun DEF StartRun, CreateRun, Bounds
<1>5. CASE StartRunWrite
    BY <1>1, <1>2, <1>5 DEF StartRunWrite, WriteThread, TurnTypes, Rows
<1>12. [calls EXCEPT ![turn][Reply] = "told"] \in [Turns -> [Attempts -> {"none", "open", "told"}]]
    BY <1>1
<1>6. CASE GroupOver
    BY <1>1, <1>6, <1>12 DEF GroupOver, GroupTold
<1>13. CASE SeeCancel
    BY <1>1, <1>12, <1>13 DEF SeeCancel, GroupTold
<1>7. CASE FinalizeRun
  <2>1. RunStatus(outcome) \in Finished
      BY <1>1, <1>7 DEF FinalizeRun, RunStatus, FlowTypes, Finished, Bounds, Underway
  <2>2. calls' \in [Turns -> [Attempts -> {"none", "open", "told"}]]
      BY <1>1, <1>7 DEF FinalizeRun, Told
  <2> QED BY <1>1, <1>7, <2>1, <2>2 DEF FinalizeRun, FinishRun
<1>8. CASE FinalizeWrite
    BY <1>1, <1>2, <1>8 DEF FinalizeWrite, WriteThread, ThreadStatus, Rows
<1>9. CASE ApplyThreadCancellation \/ ClientSweep
    BY <1>1, <1>9 DEF ApplyThreadCancellation, ClientSweep, SweepCalls, Told
<1>10. CASE ApplyWrite \/ ClientWrite
    BY <1>1, <1>2, <1>10 DEF ApplyWrite, ClientWrite, WriteThread, SweptRow, Rows
<1>11. ASSUME NEW t \in Turns, NEW k \in Attempts,
              AppendInbound(t, k) \/ AppendAssistant(t, k) \/ CountThreadTurn(t, k) \/ CountRunTurn(t, k)
       PROVE  StoreTypes'
  <2>1. act[t][k].thread \in Rows /\ act[t][k].turns \in Nat /\ act[t][k].skip \in Nat
      BY <1>1 DEF AttemptStates, AttemptState
  <2>2. CASE AppendInbound(t, k)
    <3>1. payload[t].msgs \in Seq(Msgs)
        BY <1>1 DEF TurnTypes
    <3>2. act[t][k].skip + 1 \in 1 .. Len(payload[t].msgs)
      <4>1. act[t][k].skip < Len(payload[t].msgs)
          BY <2>2 DEF AppendInbound
      <4>2. Len(payload[t].msgs) \in Nat
          BY <3>1
      <4> QED BY <2>1, <4>1, <4>2
    <3>3. payload[t].msgs[act[t][k].skip + 1] \in Msgs
        BY <3>1, <3>2
    <3> DEFINE e == <<payload[t].msgs[act[t][k].skip + 1], t>>
    <3>4. e \in Msgs \X Turns /\ stored' = Append(stored, e) /\ stored \in Seq(Msgs \X Turns)
        BY <1>1, <2>2, <3>3 DEF AppendInbound
    <3>5. stored' \in Seq(Msgs \X Turns)
      <4> HIDE DEF e
      <4> QED BY <3>4
    <3>6. UNCHANGED <<thread, runs, answered, calls>>
        BY <2>2 DEF AppendInbound
    <3> QED BY <1>1, <3>5, <3>6
  <2>3. CASE AppendAssistant(t, k)
    <3>1. [answered EXCEPT ![t] = Append(@, k)] \in [Turns -> Seq(Attempts)]
        BY <1>1
    <3>2. [calls EXCEPT ![t][k] = "open"] \in [Turns -> [Attempts -> {"none", "open", "told"}]]
        BY <1>1
    <3> QED BY <1>1, <2>3, <3>1, <3>2 DEF AppendAssistant
  <2>4. CASE CountThreadTurn(t, k)
    <3>1. [act[t][k].thread EXCEPT !.turns = @ + 1] \in Rows
        BY <2>1 DEF Rows
    <3> QED BY <1>1, <2>4, <3>1 DEF CountThreadTurn, WriteThread
  <2>5. CASE CountRunTurn(t, k)
    <3>1. act[t][k].turns + 1 \in Nat
        BY <2>1
    <3> HIDE DEF At, Step
    <3> QED BY <1>1, <2>5, <3>1 DEF CountRunTurn, UpdateRun
  <2> QED BY <1>11, <2>2, <2>3, <2>4, <2>5
<1> QED BY <1>3, <1>4, <1>5, <1>6, <1>7, <1>8, <1>9, <1>10, <1>11, <1>13, Unchanged

\* Every step keeps the types of the workflow's place and of its queues.
LEMMA FlowStep == Bounds /\ [Next]_vars => FlowTypes' /\ QueueTypes'
<1> SUFFICES ASSUME Bounds, [Next]_vars PROVE FlowTypes' /\ QueueTypes'
    OBVIOUS
<1>1. FlowTypes /\ QueueTypes /\ TurnTypes /\ Numbers
    BY Typed, Ranges DEF Bounds
<1>2. FlowTypes'
  <2> USE <1>1 DEF FlowTypes
  <2>1. CASE StartRun \/ StartRunWrite \/ BeginTurn \/ LoopEnds \/ TurnReturns \/ TurnFails \/ GroupOver
      BY <2>1 DEF StartRun, StartRunWrite, BeginTurn, LoopEnds, TurnReturns, TurnFails, GroupOver
  <2>2. CASE FinalizeRun \/ WakeCancelled \/ ApplyThreadCancellation \/ ApplyWrite
      BY <2>2 DEF FinalizeRun, WakeCancelled, ApplyThreadCancellation, ApplyWrite
  <2>11. CASE TurnLost
    <3>1. astray' \in BOOLEAN
        BY <2>11 DEF TurnLost
    <3> QED BY <2>11, <3>1 DEF TurnLost
  <2>7. CASE FinalizeWrite
    <3>1. cancelled' \in BOOLEAN
        BY <2>7 DEF FinalizeWrite
    <3> QED BY <2>7, <3>1 DEF FinalizeWrite
  <2>3. CASE SeeCancel
    <3>1. cut' \subseteq Runs
      <4>1. Aborts => current \in Runs
          BY <1>1 DEF Bounds, Underway, Opened, TurnTypes
      <4> QED BY <2>3, <4>1 DEF SeeCancel
    <3>2. astray' \in BOOLEAN /\ recording' \in BOOLEAN
        BY <2>3 DEF SeeCancel
    <3>3. wf' \in {"finalizing", "recorded", "closed"} /\ outcome' \in {outcome, "failed", "cancelled"}
          /\ seen' \in {wf, "telling"} /\ wf \in {"idle", "starting", "turning", "grouping", "finalizing", "finalized"}
        BY <2>3 DEF SeeCancel
    <3> QED BY <2>3, <3>1, <3>2, <3>3 DEF SeeCancel
  <2>4. CASE \E t \in Turns, k \in Attempts : Attempt(t, k)
    <3>1. PICK t \in Turns, k \in Attempts : Attempt(t, k)
        BY <2>4
    <3>2. UNCHANGED <<flow, stops, client, rewound, astray>>
      <4>1. CASE RunTurn(t, k) \/ TurnError(t, k) \/ CountedBefore(t, k)
          BY <4>1 DEF RunTurn, TurnError, CountedBefore, clients
      <4>2. CASE AppendInbound(t, k) \/ AppendAssistant(t, k)
          BY <4>2 DEF AppendInbound, AppendAssistant, clients
      <4>3. CASE CountThreadTurn(t, k) \/ CountRunTurn(t, k)
          BY <4>3 DEF CountThreadTurn, CountRunTurn, clients
      <4> QED BY <3>1, <4>1, <4>2, <4>3 DEF Attempt
    <3> QED BY <3>2 DEF flow, stops
  <2>5. CASE CancelSignal
      BY <2>5 DEF CancelSignal
  <2>10. CASE ClientSweep
      BY <2>10 DEF ClientSweep
  <2>12. CASE ClientWrite
    <3>1. rewound' \in BOOLEAN
        BY <2>12 DEF ClientWrite
    <3> QED BY <2>12, <3>1 DEF ClientWrite
  <2>8. CASE CancelThread
      BY <2>8 DEF CancelThread
  <2>9. ASSUME NEW m \in Msgs, SendMessage(m) PROVE FlowTypes'
      BY <2>9, ZenonT(40) DEF SendMessage
  <2>6. CASE UNCHANGED vars
      BY <2>6 DEF vars
  <2> QED BY <2>1, <2>2, <2>3, <2>4, <2>5, <2>6, <2>7, <2>8, <2>9, <2>10, <2>11, <2>12
<1>3. QueueTypes'
  <2> USE <1>1 DEF QueueTypes
  <2>1. CASE StartRun
      BY <2>1, RoomForRun DEF StartRun, Bounds
  <2>2. CASE BeginTurn
      BY <2>2 DEF BeginTurn, NewMessages, TurnTypes
  <2>3. ASSUME NEW m \in Msgs, SendMessage(m) PROVE QueueTypes'
    <3>1. Append(sent, m) \in Seq(Msgs) /\ Append(inbox, m) \in Seq(Msgs) /\ <<m>> \in Seq(Msgs)
        OBVIOUS
    <3> QED BY <2>3, <3>1 DEF SendMessage
  <2>4. CASE TurnReturns
      BY <2>4 DEF TurnReturns
  <2>5. CASE UNCHANGED <<queues, sent>>
      BY <2>5
  <2> QED BY <2>1, <2>2, <2>3, <2>4, <2>5, Unchanged
<1> QED BY <1>2, <1>3

\* Every step keeps the types of the turns.
LEMMA TurnStep == Bounds /\ [Next]_vars => TurnTypes'
<1> SUFFICES ASSUME Bounds, [Next]_vars PROVE TurnTypes'
    OBVIOUS
<1>1. TurnTypes /\ QueueTypes /\ StoreTypes /\ TypeOK /\ Numbers
    BY Typed, Ranges DEF Bounds
<1>2. thread \in Rows /\ row["workflow"].turns \in Nat
    BY <1>1 DEF StoreTypes, TurnTypes, Rows
<1> USE DEF TurnTypes
<1>3. CASE UNCHANGED <<position, row, turn, attempt, payload>>
    BY <1>1, <1>3
<1>4. CASE StartRun
    BY <1>1, <1>2, <1>4, RoomForRun DEF StartRun, Bounds
<1>5. CASE StartRunWrite
    BY <1>1, <1>2, <1>5 DEF StartRunWrite, TurnsSoFar
<1>6. CASE BeginTurn
  <2>1. turn + 1 \in Turns
      BY <1>1, <1>6, RoomForTurn DEF BeginTurn, MayTurn, Bounds
  <2>2. NewMessages \in Seq(Msgs)
      BY <1>1 DEF NewMessages, QueueTypes
  <2>3. [run |-> current, index |-> count + 1, msgs |-> NewMessages]
          \in [run : {0} \cup Runs, index : Nat, msgs : Seq(Msgs)]
      BY <1>1, <2>2
  <2>4. payload' \in [Turns -> [run : {0} \cup Runs, index : Nat, msgs : Seq(Msgs)]]
      BY <1>1, <1>6, <2>3 DEF BeginTurn
  <2>5. /\ turn' = turn + 1 /\ attempt' = 1
        /\ UNCHANGED <<position, row>>
      BY <1>6 DEF BeginTurn
  <2>6. 1 \in Attempts
      BY Ranges DEF Numbers
  <2>7. /\ lastRun \in {0} \cup Runs /\ current \in {0} \cup Runs
        /\ left \in 0 .. MaxTurns /\ count \in Nat
        /\ row \in [{"workflow", "client"} -> Rows]
      BY <1>1
  <2> QED BY ONLY <2>1, <2>4, <2>5, <2>6, <2>7 DEF TurnTypes, position
<1>7. CASE TurnReturns
  <2>1. left > 0
      BY <1>7 DEF TurnReturns, Bounds, TurnsCounted, Within
  <2> QED BY <1>1, <1>7, <2>1 DEF TurnReturns
<1>8. CASE FinalizeRun \/ ApplyThreadCancellation \/ ClientSweep
    BY <1>1, <1>2, <1>8 DEF FinalizeRun, ApplyThreadCancellation, ClientSweep
<1>10. CASE FinalizeWrite
    BY <1>1, <1>10 DEF FinalizeWrite
<1>11. ASSUME NEW m \in Msgs, SendMessage(m) PROVE TurnTypes'
    BY <1>1, <1>11 DEF SendMessage
<1>9. CASE TurnLost
  <2>1. attempt' # attempt => attempt + 1 \in Attempts
      BY <1>1, <1>9 DEF TurnLost, Attempts
  <2> QED BY <1>1, <1>9, <2>1 DEF TurnLost
<1> QED BY <1>3, <1>4, <1>5, <1>6, <1>7, <1>8, <1>9, <1>10, <1>11, Unchanged

\* Every step keeps the state well formed.
LEMMA TypeStep == Bounds /\ [Next]_vars => TypeOK'
<1> SUFFICES ASSUME Bounds, [Next]_vars PROVE TypeOK'
    OBVIOUS
<1>1. StoreTypes' /\ FlowTypes' /\ QueueTypes' /\ TurnTypes' /\ act' \in AttemptStates
    BY ActStep, StoreStep, FlowStep, TurnStep
<1>2. TypeOK' <=> StoreTypes' /\ FlowTypes' /\ QueueTypes' /\ TurnTypes' /\ (act \in AttemptStates)'
    BY Typed, PTL
<1> QED BY <1>1, <1>2 DEF AttemptStates, AttemptState

-----------------------------------------------------------------------------
(* Bounds.                                                                 *)

\* Runs have taken messages that were sent, each run one of its own.
LEMMA RunsStep == Bounds /\ [Next]_vars => RunsCounted'
<1> SUFFICES ASSUME Bounds, [Next]_vars PROVE RunsCounted'
    OBVIOUS
<1>1. TypeOK /\ TypeOK' /\ QueueTypes /\ TurnTypes /\ RunsCounted /\ Numbers
    BY TypeStep, Typed, Ranges DEF Bounds
<1>2. Members(<<>>) = {}
    BY DEF Members
<1>3. CASE StartRun
  <2>1. lastRun' <= Cardinality(Taken')
      BY <1>1, <1>3, RoomForRun DEF StartRun
  <2>2. inbox' = <<>> /\ sent' = sent
      BY <1>3 DEF StartRun
  <2>3. \A m \in Msgs : took'[m] # 0 => m \in Members(inbox) \/ took[m] # 0
      BY <1>1, <1>3 DEF StartRun
  <2>4. \A m \in Taken' : m \in Members(sent)
      BY <1>1, <2>3 DEF RunsCounted, Taken
  <2> QED BY <1>2, <2>1, <2>2, <2>4 DEF RunsCounted, Members
<1>4. CASE BeginTurn
  <2>1. /\ lastRun' = lastRun /\ sent' = sent /\ (inbox' = <<>> \/ (inbox' = inbox /\ took' = took))
        /\ \A m \in Msgs : took'[m] # took[m] => m \in Members(inbox) /\ took[m] = 0 /\ current # 0
    <3>1. current # 0
        BY <1>4 DEF BeginTurn, Bounds, Underway, Opened
    <3>2. \A m \in Members(inbox) : took[m] = 0
        BY <1>1 DEF RunsCounted
    <3>3. /\ lastRun' = lastRun /\ sent' = sent
          /\ IF Interleaves THEN inbox' = <<>> ELSE inbox' = inbox
          /\ took' = [m \in Msgs |-> IF Interleaves /\ m \in Members(inbox) THEN current ELSE took[m]]
        BY <1>4 DEF BeginTurn
    <3>4. took \in [Msgs -> {0} \cup Runs]
        BY <1>1 DEF QueueTypes
    <3>5. CASE Interleaves
      <4>1. \A m \in Msgs : took'[m] # took[m] => m \in Members(inbox)
          BY <3>3, <3>4
      <4>2. inbox' = <<>> /\ lastRun' = lastRun /\ sent' = sent
          BY <3>3, <3>5
      <4> QED BY <3>1, <3>2, <4>1, <4>2
    <3>6. CASE ~Interleaves
      <4>1. took' = took
          BY <3>3, <3>4, <3>6
      <4> QED BY <3>3, <3>6, <4>1
    <3> QED BY <3>5, <3>6
  <2>2. Taken \subseteq Taken' /\ \A m \in Taken' : m \in Members(sent)
      BY <1>1, <1>2, <2>1 DEF Taken, RunsCounted
  <2>3. Cardinality(Taken) <= Cardinality(Taken') /\ Cardinality(Taken) \in Nat /\ Cardinality(Taken') \in Nat
    <3>1. IsFiniteSet(Taken')
        BY FS_Subset DEF Taken
    <3> QED BY <2>2, <3>1, FS_Subset, FS_CardinalityType
  <2>4. lastRun' <= Cardinality(Taken')
    <3>1. lastRun \in Nat
        BY <1>1 DEF TurnTypes, Numbers
    <3> QED BY <1>1, <2>1, <2>3, <3>1 DEF RunsCounted
  <2>5. Members(sent') = Members(sent)
      BY <2>1
  <2>6. \A m \in Members(inbox') : m \in Members(sent) /\ took'[m] = 0
    <3>1. CASE inbox' = <<>>
        BY <1>2, <3>1
    <3>2. CASE inbox' = inbox /\ took' = took
        BY <1>1, <3>2 DEF RunsCounted
    <3> QED BY <2>1, <3>1, <3>2
  <2> QED BY <2>2, <2>4, <2>5, <2>6 DEF RunsCounted
<1>5. ASSUME NEW m \in Msgs, SendMessage(m) PROVE RunsCounted'
  <2>1. took' = took /\ lastRun' = lastRun /\ sent' = Append(sent, m)
        /\ inbox' \in {<<m>>, Append(inbox, m)} /\ m \notin Members(sent)
      BY <1>5 DEF SendMessage
  <2>2. Members(sent') = Members(sent) \cup {m} /\ Members(inbox') \subseteq Members(inbox) \cup {m}
      BY <1>1, <2>1, Drained DEF QueueTypes
  <2>3. took[m] = 0
      BY <1>1, <2>1 DEF RunsCounted, Taken
  <2>4. Taken' = Taken
      BY <2>1 DEF Taken
  <2> QED BY <1>1, <2>1, <2>2, <2>3, <2>4 DEF RunsCounted
<1>6. CASE UNCHANGED <<inbox, took, sent, lastRun>>
    BY <1>1, <1>6 DEF RunsCounted, Taken, Members
<1>7. CASE TurnReturns
    BY <1>6, <1>7 DEF TurnReturns
<1>8. CASE UNCHANGED <<position, row, turn, attempt, payload>> /\ UNCHANGED <<queues, sent>>
    BY <1>6, <1>8
<1>9. CASE StartRunWrite \/ TurnLost \/ FinalizeRun \/ FinalizeWrite \/ ApplyThreadCancellation \/ ClientSweep
    BY <1>6, <1>9 DEF StartRunWrite, TurnLost, FinalizeRun, FinalizeWrite, ApplyThreadCancellation, ClientSweep
<1> QED BY <1>3, <1>4, <1>5, <1>7, <1>8, <1>9, Unchanged

\* Turns stay within the budget of the runs opened so far.
LEMMA TurnsStep == Bounds /\ [Next]_vars => TurnsCounted'
<1> SUFFICES ASSUME Bounds, [Next]_vars PROVE TurnsCounted'
    OBVIOUS
<1>1. /\ lastRun \in Nat /\ turn \in Nat /\ left \in 0 .. MaxTurns
      /\ lastRun' \in Nat /\ turn' \in Nat /\ left' \in 0 .. MaxTurns
  <2>1. TurnTypes /\ TurnTypes' /\ Numbers
      BY TurnStep, Typed, Ranges DEF Bounds
  <2>2. lastRun \in Nat /\ turn \in Nat /\ left \in 0 .. MaxTurns
      BY ONLY <2>1 DEF TurnTypes, Numbers
  <2>3. lastRun' \in Nat /\ turn' \in Nat /\ left' \in 0 .. MaxTurns
      BY ONLY <2>1 DEF TurnTypes, Numbers
  <2> QED BY <2>2, <2>3
<1> DEFINE budget == lastRun * MaxTurns
<1>2. budget \in Nat
    BY <1>1
<1>17. (lastRun + 1) * MaxTurns = budget + MaxTurns
    BY <1>1
<1>3. /\ turn <= budget
      /\ wf = "starting" => turn + MaxTurns <= budget
      /\ wf \in {"looping", "grouping"} => turn + left <= budget
      /\ wf = "turning" => left > 0 /\ turn + left <= budget + 1
    BY DEF Bounds, TurnsCounted, Within
<1>4. ASSUME lastRun' = lastRun, turn' = turn, left' = left,
             wf' \in {"starting", "looping", "grouping", "turning"} => wf' = wf
      PROVE  TurnsCounted'
  <2> HIDE DEF budget
  <2>1. Within(budget, wf', turn', left')
      BY <1>3, <1>4 DEF Within
  <2> QED BY <1>4, <2>1 DEF TurnsCounted, budget
<1>5. CASE StartRun
  <2>1. lastRun' * MaxTurns = budget + MaxTurns /\ turn' = turn /\ wf' = "starting"
      BY <1>17, <1>5 DEF StartRun
  <2> DEFINE more == budget + MaxTurns
  <2>2. Within(more, "starting", turn, left')
    <3> HIDE DEF budget
    <3> QED BY <1>1, <1>2, <1>3 DEF Within
  <2>3. lastRun' * MaxTurns = more
      BY <2>1
  <2> HIDE DEF more
  <2> QED BY <2>1, <2>2, <2>3 DEF TurnsCounted
<1>6. ASSUME lastRun' = lastRun, turn' <= budget,
             wf' \in {"looping", "grouping"} => turn' + left' <= budget,
             wf' = "turning" => left' > 0 /\ turn' + left' <= budget + 1,
             wf' # "starting"
      PROVE  TurnsCounted'
  <2> HIDE DEF budget
  <2>1. Within(budget, wf', turn', left')
      BY <1>6 DEF Within
  <2> QED BY <1>6, <2>1 DEF TurnsCounted, budget
<1>7. CASE StartRunWrite
  <2> HIDE DEF budget
  <2> QED BY <1>1, <1>2, <1>3, <1>6, <1>7 DEF StartRunWrite
<1>8. CASE BeginTurn
  <2> HIDE DEF budget
  <2> QED BY <1>1, <1>2, <1>3, <1>6, <1>8 DEF BeginTurn, MayTurn
<1>9. CASE TurnReturns
  <2> HIDE DEF budget
  <2>1. turn' = turn /\ left' = left - 1 /\ lastRun' = lastRun /\ wf = "turning" /\ wf' \in {"grouping", "finalizing"}
      BY <1>9 DEF TurnReturns
  <2> QED BY <1>1, <1>2, <1>3, <1>6, <2>1
<1>10. CASE GroupOver
  <2> HIDE DEF budget
  <2>1. UNCHANGED <<turn, left, lastRun>> /\ wf = "grouping" /\ wf' \in {"looping", "finalizing"}
      BY <1>10 DEF GroupOver
  <2> QED BY <1>1, <1>2, <1>3, <1>6, <2>1
<1>11. CASE TurnLost \/ SeeCancel
  <2>1. lastRun' = lastRun /\ turn' = turn /\ left' = left
        /\ wf' \in {wf, "finalizing", "recorded", "closed"}
      BY <1>11 DEF TurnLost, SeeCancel
  <2> QED BY <1>4, <2>1
<1>12. ASSUME NEW m \in Msgs, SendMessage(m) PROVE TurnsCounted'
    BY <1>4, <1>12 DEF SendMessage
<1>13. CASE LoopEnds \/ TurnFails \/ FinalizeRun \/ FinalizeWrite
    BY <1>4, <1>13 DEF LoopEnds, TurnFails, FinalizeRun, FinalizeWrite
<1>14. CASE WakeCancelled \/ ApplyThreadCancellation \/ ApplyWrite \/ CancelSignal \/ CancelThread
            \/ ClientSweep \/ ClientWrite \/ UNCHANGED vars
    BY <1>4, <1>14 DEF WakeCancelled, ApplyThreadCancellation, ApplyWrite, CancelSignal, CancelThread,
       ClientSweep, ClientWrite, vars
<1>15. ASSUME NEW t \in Turns, NEW k \in Attempts, Attempt(t, k) PROVE TurnsCounted'
    BY <1>4, <1>15 DEF RunTurn, TurnError, CountedBefore, AppendInbound, AppendAssistant, CountThreadTurn,
       CountRunTurn
<1> QED BY <1>5, <1>7, <1>8, <1>9, <1>10, <1>11, <1>12, <1>13, <1>14, <1>15

-----------------------------------------------------------------------------
(* What a step makes of the attempts.                                      *)

\* The attempt moves, and keeps what it read.
Keeps(a, b) == b.thread = a.thread /\ b.turns = a.turns /\ b.reply = a.reply

\* No step of an attempt touches another.
OnlyOne(t, k) == Becomes(act, act', t, k, act'[t][k])

\* An attempt that begins reads the rows, and looks for its answer.
LEMMA BeginsAttempt ==
  ASSUME Bounds, NEW t \in Turns, NEW k \in Attempts, RunTurn(t, k)
  PROVE  LET b == act'[t][k] IN
         /\ OnlyOne(t, k) /\ act[t][k].pc = "started"
         /\ b.pc = (IF Resumes(t, k) THEN "resumed" ELSE "inbound")
         /\ b.thread = thread /\ b.skip = FoundStored(t, k)
         /\ b.reply = (IF Resumes(t, k) THEN answered[t][Len(answered[t])] ELSE k)
<1> DEFINE b == [pc     |-> IF Resumes(t, k) THEN "resumed" ELSE "inbound",
                 thread |-> thread, turns |-> runs[RunOf(t)].turns, skip |-> FoundStored(t, k),
                 reply  |-> IF Resumes(t, k) THEN answered[t][Len(answered[t])] ELSE k]
<1>1. act' = [act EXCEPT ![t][k] = b] /\ act[t][k].pc = "started"
    BY DEF RunTurn, At
<1>2. act \in AttemptStates
    BY Typed DEF Bounds
<1> HIDE DEF b
<1>3. Becomes(act, act', t, k, b) /\ act'[t][k] = b
    BY <1>1, <1>2 DEF Becomes, AttemptStates
<1>4. OnlyOne(t, k)
    BY <1>3 DEF OnlyOne
<1> QED BY <1>1, <1>3, <1>4 DEF b

\* One that stores the next message has one less to store.
LEMMA StoresMessage ==
  ASSUME Bounds, NEW t \in Turns, NEW k \in Attempts, AppendInbound(t, k)
  PROVE  LET a == act[t][k]
             b == act'[t][k] IN
         /\ OnlyOne(t, k) /\ Keeps(a, b) /\ a.pc = "inbound" /\ b.pc = "inbound" /\ b.skip = a.skip + 1
<1> DEFINE b == [act[t][k] EXCEPT !.skip = @ + 1]
<1>1. act' = [act EXCEPT ![t][k] = b] /\ act[t][k].pc = "inbound"
    BY DEF AppendInbound, At
<1>2. act \in AttemptStates /\ act[t][k] \in AttemptState
    BY Typed DEF Bounds, AttemptStates
<1>3. b.pc = act[t][k].pc /\ b.skip = act[t][k].skip + 1 /\ Keeps(act[t][k], b)
    BY <1>2 DEF AttemptState, Keeps
<1> HIDE DEF b
<1>4. Becomes(act, act', t, k, b) /\ act'[t][k] = b
    BY <1>1, <1>2 DEF Becomes, AttemptStates
<1> QED BY <1>1, <1>3, <1>4 DEF OnlyOne

\* One that failed is over.
LEMMA FailsAttempt ==
  ASSUME Bounds, NEW t \in Turns, NEW k \in Attempts, TurnError(t, k)
  PROVE  OnlyOne(t, k) /\ act'[t][k].pc = "error"
<1>1. act' = [act EXCEPT ![t][k] = Spent("error", 0)] /\ Spent("error", 0).pc = "error"
    BY DEF TurnError, Spent, Asleep
<1>2. act \in AttemptStates
    BY Typed DEF Bounds
<1>3. Becomes(act, act', t, k, Spent("error", 0)) /\ act'[t][k] = Spent("error", 0)
    BY <1>1, <1>2 DEF Becomes, AttemptStates
<1> QED BY <1>1, <1>3 DEF OnlyOne

\* One that goes on keeps what it read.
LEMMA GoesOn ==
  ASSUME Bounds, NEW t \in Turns, NEW k \in Attempts, NEW pc \in Statuses, Step(t, k, pc)
  PROVE  OnlyOne(t, k) /\ Keeps(act[t][k], act'[t][k]) /\ act'[t][k].pc = pc
<1> DEFINE b == [act[t][k] EXCEPT !.pc = pc]
<1>1. act \in AttemptStates /\ act[t][k] \in AttemptState
    BY Typed DEF Bounds, AttemptStates
<1>2. Becomes(act, act', t, k, b) /\ b.pc = pc /\ Keeps(act[t][k], b)
    BY <1>1, Moving DEF AttemptState, Step, Keeps
<1>3. act'[t][k] = b
    BY <1>2 DEF Becomes
<1> HIDE DEF b
<1> QED BY <1>2, <1>3 DEF OnlyOne

\* Only an attempt that has begun, and is not over, takes steps.
LEMMA AnyAttempt ==
  ASSUME Bounds, NEW t \in Turns, NEW k \in Attempts, Attempt(t, k)
  PROVE  /\ OnlyOne(t, k)
         /\ act[t][k].pc \in {"started", "inbound", "resumed", "answered", "counted"}
         /\ act'[t][k].pc \in {"inbound", "resumed", "answered", "counted", "done", "error"}
         /\ UNCHANGED <<flow, position, queues, stops, turn, attempt, payload, row, clients>>
<1> USE DEF Statuses, At
<1>1. CASE RunTurn(t, k)
  <2>1. OnlyOne(t, k) /\ act[t][k].pc = "started" /\ act'[t][k].pc \in {"resumed", "inbound"}
      BY <1>1, BeginsAttempt
  <2>2. UNCHANGED <<flow, position, queues, stops, turn, attempt, payload, row, clients>>
      BY <1>1 DEF RunTurn
  <2> QED BY <2>1, <2>2
<1>2. CASE AppendInbound(t, k)
    BY <1>2, StoresMessage DEF AppendInbound
<1>3. CASE TurnError(t, k)
    BY <1>3, FailsAttempt DEF TurnError
<1>4. CASE AppendAssistant(t, k)
    BY <1>4, GoesOn DEF AppendAssistant
<1>5. CASE CountThreadTurn(t, k)
    BY <1>5, GoesOn DEF CountThreadTurn
<1>6. CASE CountRunTurn(t, k)
    BY <1>6, GoesOn DEF CountRunTurn
<1>7. CASE CountedBefore(t, k)
    BY <1>7, GoesOn DEF CountedBefore
<1> QED BY <1>1, <1>2, <1>3, <1>4, <1>5, <1>6, <1>7

\* The workflow begins the first attempt of the next turn ...
LEMMA BeginsTurn ==
  ASSUME Bounds, BeginTurn
  PROVE  /\ turn + 1 \in Turns /\ 1 \in Attempts
         /\ OnlyOne(turn + 1, 1) /\ act'[turn + 1][1].pc = "started"
<1>1. act \in AttemptStates /\ turn + 1 \in Turns /\ 1 \in Attempts
    BY Typed, RoomForTurn, Ranges DEF Bounds, BeginTurn, MayTurn, Numbers
<1>2. Step(turn + 1, 1, "started")
    BY DEF BeginTurn, Step
<1> QED BY <1>1, <1>2, GoesOn DEF Statuses

\* ... and takes the answer of one that is done.
LEMMA TakesAnswer ==
  ASSUME Bounds, TurnReturns
  PROVE  /\ turn \in Turns /\ attempt \in Attempts /\ OnlyOne(turn, attempt)
         /\ act[turn][attempt].pc = "done" /\ act'[turn][attempt].pc = "over"
         /\ act'[turn][attempt].reply = Reply
<1>1. act \in AttemptStates /\ turn \in Turns /\ attempt \in Attempts
    BY Typed DEF Bounds, TurnReturns, Underway, TurnTypes
<1>2. /\ act' = [act EXCEPT ![turn][attempt] = Spent("over", Reply)]
      /\ Spent("over", Reply).pc = "over" /\ Spent("over", Reply).reply = Reply
      /\ act[turn][attempt].pc = "done"
    BY DEF TurnReturns, Spent, Asleep, At
<1>3. Becomes(act, act', turn, attempt, Spent("over", Reply)) /\ act'[turn][attempt] = Spent("over", Reply)
    BY <1>1, <1>2 DEF Becomes, AttemptStates
<1> QED BY <1>1, <1>2, <1>3 DEF OnlyOne

\* An attempt that is lost, or cancelled, is given up; another may follow the lost one.
LEMMA LosesTurn ==
  ASSUME Bounds, TurnLost
  PROVE  LET next == attempt + 1 IN
         /\ turn \in Turns /\ attempt \in Attempts
         /\ ~astray' => act'[turn][attempt] = Spent("dead", 0)
         /\ \/ /\ next \in Attempts /\ act'[turn][next].pc = "started"
               /\ wf' = "turning" /\ attempt' = next
               /\ \A t \in Turns, k \in Attempts :
                    t # turn \/ (k # attempt /\ k # next) => act'[t][k] = act[t][k]
            \/ /\ OnlyOne(turn, attempt)
               /\ wf' = "finalizing" /\ attempt' = attempt
<1>1. act \in AttemptStates /\ turn \in Turns /\ attempt \in Attempts
    BY Typed DEF Bounds, TurnLost, Underway, TurnTypes
<1>6. PICK goesOn \in {FALSE, Survivors} :
        /\ astray' = (astray \/ goesOn)
        /\ IF attempt < MaxAttempts
           THEN /\ attempt' = attempt + 1
                /\ act' = [act EXCEPT ![turn][attempt] = GivenUp(@, goesOn),
                                      ![turn][attempt + 1].pc = "started"]
                /\ UNCHANGED <<wf, outcome>>
           ELSE /\ wf' = "finalizing" /\ outcome' = "failed"
                /\ act' = [act EXCEPT ![turn][attempt] = GivenUp(@, goesOn)]
                /\ UNCHANGED attempt
    BY DEF TurnLost
<1> DEFINE end  == GivenUp(act[turn][attempt], goesOn)
           lost == [act EXCEPT ![turn][attempt] = end]
           next == attempt + 1
<1>8. act[turn][attempt] \in AttemptState /\ Spent("dead", 0) \in AttemptState
    BY <1>1 DEF Spent, Asleep, NoRow, AttemptState, AttemptStates, Statuses, Rows
<1>2. end \in AttemptState /\ (~astray' => end = Spent("dead", 0))
    BY <1>6, <1>8 DEF GivenUp
<1>7. wf = "turning" /\ (attempt < MaxAttempts => act' = [lost EXCEPT ![turn][next].pc = "started"])
      /\ (~(attempt < MaxAttempts) => act' = lost)
    BY <1>6 DEF TurnLost
<1> HIDE DEF end
<1>3. /\ Becomes(act, lost, turn, attempt, end)
      /\ lost[turn][attempt] = end /\ lost \in AttemptStates
    BY <1>1, <1>2 DEF Becomes, AttemptStates
<1>4. CASE attempt < MaxAttempts
  <2>1. next \in Attempts /\ next # attempt
      BY <1>1, <1>4 DEF Attempts
  <2>2. act' = [lost EXCEPT ![turn][next].pc = "started"] /\ wf' = "turning" /\ attempt' = next
      BY <1>4, <1>6, <1>7
  <2> HIDE DEF lost, next
  <2>3. /\ act'[turn][next].pc = "started"
        /\ \A t \in Turns, k \in Attempts : t # turn \/ k # next => act'[t][k] = lost[t][k]
    <3> DEFINE b == [lost[turn][next] EXCEPT !.pc = "started"]
    <3>1. Becomes(lost, act', turn, next, b) /\ b \in AttemptState
        BY <1>1, <1>3, <2>1, <2>2, Moving DEF Statuses
    <3>2. b.pc = "started"
        BY <1>1, <1>3, <2>1 DEF AttemptStates, AttemptState
    <3> HIDE DEF b
    <3> QED BY <1>1, <2>1, <3>1, <3>2 DEF Becomes
  <2> QED BY <1>1, <1>2, <1>3, <2>1, <2>2, <2>3 DEF Becomes, next
<1>5. CASE ~(attempt < MaxAttempts)
  <2>1. act' = lost /\ wf' = "finalizing" /\ attempt' = attempt
      BY <1>5, <1>6, <1>7
  <2> HIDE DEF lost
  <2> QED BY <1>1, <1>2, <1>3, <2>1 DEF OnlyOne
<1> QED BY <1>4, <1>5

\* Seeing the cancel gives up the attempt under way, if there is one.
LEMMA SeesCancel ==
  ASSUME Bounds, SeeCancel
  PROVE  \/ wf # "turning" /\ act' = act
         \/ /\ wf = "turning" /\ wf' = "finalizing" /\ turn \in Turns /\ attempt \in Attempts
            /\ OnlyOne(turn, attempt)
            /\ ~astray' => act'[turn][attempt] = Spent("dead", 0)
<1>1. CASE wf # "turning"
    BY <1>1 DEF SeeCancel
<1>2. CASE wf = "turning"
  <2>1. act \in AttemptStates /\ turn \in Turns /\ attempt \in Attempts
      BY <1>2, Typed DEF Bounds, Underway, TurnTypes
  <2>2. PICK goesOn \in {FALSE, Survivors} :
          /\ astray' = (astray \/ goesOn) /\ wf' = "finalizing"
          /\ act' = [act EXCEPT ![turn][attempt] = GivenUp(@, goesOn)]
      BY <1>2 DEF SeeCancel
  <2> DEFINE b == GivenUp(act[turn][attempt], goesOn)
  <2>3. act' = [act EXCEPT ![turn][attempt] = b] /\ (~astray' => b = Spent("dead", 0))
      BY <2>2 DEF GivenUp
  <2> HIDE DEF b
  <2>4. Becomes(act, act', turn, attempt, b) /\ act'[turn][attempt] = b
      BY <2>1, <2>3 DEF Becomes, AttemptStates
  <2> QED BY <1>2, <2>1, <2>2, <2>3, <2>4 DEF OnlyOne
<1> QED BY <1>1, <1>2

\* What is never begun stays so, and what is over stays over.
LEMMA Settled ==
  ASSUME Bounds, [Next]_vars, NEW t \in Turns, NEW k \in Attempts
  PROVE  \/ act'[t][k] = act[t][k]
         \/ BeginTurn /\ t = turn + 1 /\ k = 1
         \/ wf = "turning" /\ t = turn /\ (k = attempt \/ (TurnLost /\ k = attempt + 1))
         \/ Attempt(t, k)
<1>1. CASE UNCHANGED act
    BY <1>1
<1>2. CASE BeginTurn
    BY <1>2, BeginsTurn DEF OnlyOne, Becomes
<1>3. CASE TurnReturns
    BY <1>3, TakesAnswer DEF OnlyOne, Becomes, TurnReturns
<1>4. CASE TurnLost
  <2>1. wf = "turning"
      BY <1>4 DEF TurnLost
  <2>2. t # turn \/ (k # attempt /\ k # attempt + 1) => act'[t][k] = act[t][k]
      BY <1>4, LosesTurn DEF OnlyOne, Becomes
  <2> QED BY <1>4, <2>1, <2>2
<1>5. CASE SeeCancel
    BY <1>5, SeesCancel DEF OnlyOne, Becomes
<1>6. ASSUME NEW u \in Turns, NEW j \in Attempts, Attempt(u, j)
      PROVE  act'[t][k] = act[t][k] \/ Attempt(t, k)
  <2>1. OnlyOne(u, j)
      BY <1>6, AnyAttempt
  <2> QED BY <1>6, <2>1 DEF OnlyOne, Becomes
<1> QED BY <1>1, <1>2, <1>3, <1>4, <1>5, <1>6, Unchanged

-----------------------------------------------------------------------------
(* The run and the turn under way.                                         *)

\* A step that goes on with the run under way, or leaves it, keeps what goes with it.
LEMMA UnderwayStep == Bounds /\ [Next]_vars => Underway'
<1> SUFFICES ASSUME Bounds, [Next]_vars PROVE Underway'
    OBVIOUS
<1>1. /\ lastRun \in Nat /\ current \in {0} \cup Runs /\ turn \in Nat
      /\ runs \in [Runs -> [status : {"absent", "active"} \cup Finished, turns : Nat]]
      /\ payload \in [Turns -> [run : {0} \cup Runs, index : Nat, msgs : Seq(Msgs)]]
      /\ Runs \subseteq Nat \ {0}
  <2>1. TurnTypes /\ StoreTypes
      BY Typed DEF Bounds
  <2>2. Runs \subseteq Nat \ {0} /\ Turns \subseteq Nat \ {0}
      BY Ranges DEF Numbers
  <2>3. lastRun \in Nat /\ current \in {0} \cup Runs /\ turn \in Nat
      BY <2>1, <2>2 DEF TurnTypes
  <2> QED BY ONLY <2>1, <2>2, <2>3 DEF TurnTypes, StoreTypes
<1>2. Underway /\ Begun
    BY DEF Bounds
<1> USE DEF Underway, Opened, RunOf
<1>3. ASSUME UNCHANGED <<current, lastRun, runs, turn, attempt, payload, outcome>>,
             wf' = wf \/ wf' \in {"recorded", "sweeping", "closed"}
      PROVE  Underway'
    BY <1>2, <1>3
<1>4. CASE StartRun
  <2>1. lastRun + 1 \in Runs /\ TypeOK
      BY <1>4, RoomForRun DEF Bounds
  <2>2. runs' = [runs EXCEPT ![lastRun + 1].status = "active"]
      BY <1>4 DEF StartRun, CreateRun
  <2>3. runs'[lastRun + 1].status = "active" /\ \A r \in Runs : r # lastRun + 1 => runs'[r] = runs[r]
      BY <1>1, <2>1, <2>2
  <2>4. lastRun' = lastRun + 1 /\ current' = lastRun + 1 /\ wf' = "starting"
      BY <1>4 DEF StartRun
  <2> QED BY <1>1, <1>2, <2>1, <2>3, <2>4
<1>5. CASE StartRunWrite
    BY <1>2, <1>5 DEF StartRunWrite
<1>6. CASE BeginTurn
  <2>1. turn + 1 \in Turns
      BY <1>6, BeginsTurn
  <2>2. /\ UNCHANGED <<lastRun, current, runs, outcome>> /\ wf = "looping" /\ wf' = "turning"
        /\ turn' = turn + 1 /\ attempt' = 1
        /\ payload' = [payload EXCEPT ![turn + 1] = [run |-> current, index |-> count + 1, msgs |-> NewMessages]]
      BY <1>6 DEF BeginTurn
  <2>3. payload'[turn'].run = current
      BY <1>1, <2>1, <2>2
  <2> QED BY <1>1, <1>2, <2>2, <2>3
<1>7. CASE LoopEnds \/ TurnFails \/ GroupOver
    BY <1>2, <1>7 DEF LoopEnds, TurnFails, GroupOver
<1>8. CASE TurnReturns
    BY <1>2, <1>8 DEF TurnReturns
<1>9. CASE FinalizeRun
  <2>1. runs' = [runs EXCEPT ![current].status = RunStatus(outcome)]
      BY <1>9 DEF FinalizeRun, FinishRun
  <2>2. \A r \in Runs : r # current => runs'[r] = runs[r]
      BY <1>1, <2>1
  <2>3. UNCHANGED <<lastRun, current, outcome>> /\ wf = "finalizing" /\ wf' = "finalized"
      BY <1>9 DEF FinalizeRun
  <2> QED BY <1>1, <1>2, <2>2, <2>3
<1>10. CASE FinalizeWrite
    BY <1>2, <1>10 DEF FinalizeWrite
<1>11. CASE TurnLost
  <2>1. turn \in Turns /\ attempt \in Attempts /\ Attempts \subseteq Nat \ {0}
      BY <1>11, LosesTurn, Ranges DEF Numbers
  <2>2. attempt' # 0
      BY <1>11, <2>1 DEF TurnLost
  <2>3. UNCHANGED <<lastRun, current, runs, turn, payload>> /\ wf = "turning"
        /\ (wf' = "turning" \/ (wf' = "finalizing" /\ outcome' = "failed"))
      BY <1>11, <1>2 DEF TurnLost
  <2> QED BY <1>2, <2>2, <2>3
<1>12. CASE SeeCancel
  <2>1. UNCHANGED <<lastRun, current, runs, turn, attempt, payload>>
        /\ wf \in {"idle", "starting", "turning", "grouping", "finalizing", "finalized"}
      BY <1>12 DEF SeeCancel
  <2>2. \/ current # 0 /\ wf \in Opened /\ wf' = "finalizing" /\ outcome' # "none"
        \/ wf' \in {"recorded", "closed"}
        \/ wf \in Opened /\ wf' = "finalizing" /\ outcome' # "none"
      BY <1>2, <1>12 DEF SeeCancel
  <2> QED BY <1>2, <2>1, <2>2
<1>13. ASSUME NEW m \in Msgs, SendMessage(m) PROVE Underway'
    BY <1>2, <1>13 DEF SendMessage
<1>14. CASE WakeCancelled \/ ApplyThreadCancellation \/ ApplyWrite \/ CancelSignal \/ CancelThread
            \/ ClientSweep \/ ClientWrite \/ UNCHANGED vars
    BY <1>3, <1>14 DEF WakeCancelled, ApplyThreadCancellation, ApplyWrite, CancelSignal, CancelThread,
       ClientSweep, ClientWrite, vars
<1>15. ASSUME NEW t \in Turns, NEW k \in Attempts, Attempt(t, k) PROVE Underway'
  <2>1. CASE CountRunTurn(t, k)
    <3>1. RunOf(t) \in Runs /\ RunOf(t) <= lastRun
        BY <1>1, <1>2, <2>1 DEF Begun, CountRunTurn, At
    <3>2. runs' = [runs EXCEPT ![RunOf(t)] = [status |-> "active", turns |-> act[t][k].turns + 1]]
        BY <2>1 DEF CountRunTurn, UpdateRun
    <3>3. runs'[RunOf(t)].status = "active" /\ \A r \in Runs : r # RunOf(t) => runs'[r] = runs[r]
        BY <1>1, <3>1, <3>2
    <3>4. UNCHANGED <<wf, current, lastRun, turn, attempt, payload, outcome>>
        BY <2>1 DEF CountRunTurn
    <3> HIDE DEF RunOf
    <3>5. \A r \in Runs : r > lastRun => r # RunOf(t)
        BY <1>1, <3>1
    <3>6. \A r \in Runs : r > lastRun => runs'[r].status = "absent"
        BY <1>2, <3>3, <3>5
    <3>7. wf \in Opened => runs'[current].status = "active"
        BY <1>1, <1>2, <3>3
    <3> QED BY <1>2, <3>4, <3>6, <3>7 DEF RunOf
  <2>2. CASE ~CountRunTurn(t, k)
      BY <1>3, <1>15, <2>2 DEF RunTurn, TurnError, CountedBefore, AppendInbound, AppendAssistant, CountThreadTurn
  <2> QED BY <2>1, <2>2
<1> QED BY <1>4, <1>5, <1>6, <1>7, <1>8, <1>9, <1>10, <1>11, <1>12, <1>13, <1>14, <1>15

\* A turn that has begun keeps its run.
LEMMA BegunStep == Bounds /\ [Next]_vars => Begun'
<1> SUFFICES ASSUME Bounds, [Next]_vars PROVE Begun'
    OBVIOUS
<1>1. TurnTypes /\ TypeOK /\ Numbers /\ Begun /\ Underway
    BY Typed, Ranges DEF Bounds
<1>2. lastRun \in Nat /\ lastRun' \in {lastRun, lastRun + 1}
  <2>1. Runs \subseteq Nat \ {0}
      BY <1>1 DEF Numbers
  <2>2. lastRun \in Nat
      BY <1>1, <2>1 DEF TurnTypes
  <2>3. StartRun => lastRun' = lastRun + 1
      BY DEF StartRun
  <2>4. ~StartRun => lastRun' = lastRun
      BY Unchanged DEF StartRunWrite, BeginTurn, TurnReturns, TurnLost, FinalizeRun, FinalizeWrite,
         ApplyThreadCancellation, ClientSweep, SendMessage
  <2> QED BY <2>2, <2>3, <2>4
<1>3. \A t \in Turns : RunOf(t) \in Nat
  <2>1. \A r \in Runs : r \in Nat
      BY <1>1 DEF Numbers
  <2>2. \A t \in Turns : payload[t].run \in {0} \cup Runs
      BY <1>1 DEF TurnTypes
  <2> SUFFICES ASSUME NEW t \in Turns PROVE payload[t].run \in Nat
      BY DEF RunOf
  <2>3. payload[t].run = 0 \/ payload[t].run \in Runs
      BY <2>2
  <2> QED BY <2>1, <2>3
<1>4. CASE BeginTurn
  <2>1. turn + 1 \in Turns
      BY <1>4, BeginsTurn
  <2>2. payload' = [payload EXCEPT ![turn + 1] = [run |-> current, index |-> count + 1, msgs |-> NewMessages]]
      BY <1>4 DEF BeginTurn
  <2>3. \A t \in Turns : RunOf(t)' = IF t = turn + 1 THEN current ELSE RunOf(t)
      BY <1>1, <2>1, <2>2 DEF TurnTypes, RunOf
  <2>4. current = lastRun /\ lastRun # 0 /\ lastRun' = lastRun
      BY <1>1, <1>4 DEF BeginTurn, Underway, Opened
  <2>5. \A t \in Turns, k \in Attempts : t # turn + 1 => act'[t][k] = act[t][k]
      BY <1>4, BeginsTurn DEF OnlyOne, Becomes
  <2> QED BY <1>1, <1>2, <2>3, <2>4, <2>5 DEF Begun
<1>5. CASE ~BeginTurn
  <2>1. payload' = payload
      BY <1>5, Unchanged DEF StartRun, StartRunWrite, TurnReturns, TurnLost, FinalizeRun, FinalizeWrite,
         ApplyThreadCancellation, ClientSweep, SendMessage
  <2>2. ASSUME NEW t \in Turns, NEW k \in Attempts, act'[t][k].pc # "none"
        PROVE  RunOf(t) # 0
    <3>1. CASE act'[t][k] = act[t][k]
        BY <1>1, <2>2, <3>1 DEF Begun
    <3>2. CASE wf = "turning" /\ t = turn
        BY <1>1, <3>2 DEF Underway, Opened
    <3>3. CASE Attempt(t, k)
        BY <1>1, <3>3, AnyAttempt DEF Begun
    <3> QED BY <1>5, <3>1, <3>2, <3>3, Settled
  <2> QED BY <1>1, <1>2, <1>3, <2>1, <2>2 DEF Begun, RunOf
<1> QED BY <1>4, <1>5

\* Every step keeps the bounds.
LEMMA BoundsStep == Bounds /\ [Next]_vars => Bounds'
  BY TypeStep, RunsStep, TurnsStep, UnderwayStep, BegunStep DEF Bounds

\* The initial state has them.
LEMMA BoundsInit == Init => Bounds
<1> SUFFICES ASSUME Init PROVE Bounds
    OBVIOUS
<1>1. TypeOK /\ Numbers
    BY TypeInit, Ranges
<1>2. RunsCounted
  <2>1. Taken = {} /\ Members(inbox) = {} /\ lastRun = 0
      BY DEF Init, Taken, Members
  <2> QED BY <2>1, FS_EmptySet DEF RunsCounted
<1>3. TurnsCounted
  <2>1. 0 * MaxTurns = 0
      OBVIOUS
  <2> QED BY <2>1 DEF Init, TurnsCounted, Within
<1>4. Underway
    BY DEF Init, Underway, Opened
<1>5. Begun
    BY DEF Init, Begun, RunOf, Asleep
<1> QED BY <1>1, <1>2, <1>3, <1>4, <1>5 DEF Bounds

\* Every state of a thread is well formed: no run is opened without a message of its own,
\* no turn begun beyond the budget of the runs, no attempt beyond the last, for any number of
\* messages, turns and attempts, whichever way it is cancelled and whatever attempts do that
\* were given up.
THEOREM ThreadTypes == Spec => []TypeOK
<1>1. Bounds => TypeOK
    BY DEF Bounds
<1> QED BY <1>1, BoundsInit, BoundsStep, PTL DEF Spec

-----------------------------------------------------------------------------
(* The histories.                                                          *)

\* What an attempt leaves alone.
LEMMA AttemptsAlone ==
  ASSUME NEW t \in Turns, NEW k \in Attempts, Attempt(t, k)
  PROVE  UNCHANGED <<flow, position, queues, stops, turn, attempt, payload, astray, row, clients>>
<1>1. CASE RunTurn(t, k) \/ TurnError(t, k) \/ CountedBefore(t, k)
    BY <1>1 DEF RunTurn, TurnError, CountedBefore
<1>2. CASE AppendInbound(t, k) \/ AppendAssistant(t, k)
    BY <1>2 DEF AppendInbound, AppendAssistant
<1>3. CASE CountThreadTurn(t, k) \/ CountRunTurn(t, k)
    BY <1>3 DEF CountThreadTurn, CountRunTurn
<1> QED BY <1>1, <1>2, <1>3

\* An attempt that went on, a row that was set back and a run that was cut off are not forgotten.
LEMMA Remembers ==
  ASSUME [Next]_vars
  PROVE  /\ TurnLost \/ SeeCancel \/ UNCHANGED astray
         /\ ClientWrite \/ UNCHANGED rewound
         /\ SeeCancel \/ UNCHANGED cut
<1> DEFINE Same == /\ TurnLost \/ SeeCancel \/ UNCHANGED astray
                   /\ ClientWrite \/ UNCHANGED rewound
                   /\ SeeCancel \/ UNCHANGED cut
<1>1. StartRun \/ StartRunWrite \/ BeginTurn \/ LoopEnds \/ TurnReturns \/ TurnFails \/ GroupOver => Same
    BY DEF StartRun, StartRunWrite, BeginTurn, LoopEnds, TurnReturns, TurnFails, GroupOver, activities, clients
<1>2. FinalizeRun \/ FinalizeWrite \/ WakeCancelled \/ ApplyThreadCancellation \/ ApplyWrite => Same
    BY DEF FinalizeRun, FinalizeWrite, WakeCancelled, ApplyThreadCancellation, ApplyWrite, activities, clients
<1>3. CancelSignal \/ CancelThread \/ ClientSweep \/ ClientWrite \/ UNCHANGED vars => Same
    BY DEF CancelSignal, CancelThread, ClientSweep, ClientWrite, vars, flow, activities, clients
<1>4. TurnLost \/ SeeCancel => Same
    BY DEF TurnLost, SeeCancel, clients
<1>5. ASSUME NEW m \in Msgs, SendMessage(m) PROVE Same
    BY <1>5 DEF SendMessage, activities
<1>6. ASSUME NEW t \in Turns, NEW k \in Attempts, Attempt(t, k) PROVE Same
    BY <1>6, AttemptsAlone DEF flow, clients
<1> HIDE DEF Same, Attempt
<1>7. Same
    BY <1>1, <1>2, <1>3, <1>4, <1>5, <1>6
<1> QED BY <1>7 DEF Same

LEMMA StaysAstray == [Next]_vars /\ ~astray' => ~astray
<1> SUFFICES ASSUME [Next]_vars, ~astray' PROVE ~astray
    OBVIOUS
<1>1. CASE TurnLost
    BY <1>1 DEF TurnLost
<1>2. CASE SeeCancel
    BY <1>2 DEF SeeCancel
<1> QED BY <1>1, <1>2, Remembers

-----------------------------------------------------------------------------
(* One attempt, one answer.                                                *)

\* Most steps leave the attempts and their answers, and begin no turn.
LEMMA SameTurns ==
  ASSUME Bounds, [Next]_vars
  PROVE  \/ BeginTurn \/ TurnReturns \/ TurnFails \/ TurnLost \/ (SeeCancel /\ wf = "turning")
         \/ \E t \in Turns, k \in Attempts : Attempt(t, k)
         \/ /\ UNCHANGED <<act, answered, payload, turn, attempt>>
            /\ wf' = wf \/ (wf # "turning" /\ wf' \notin {"turning", "grouping"})
<1> DEFINE Same == /\ UNCHANGED <<act, answered, payload, turn, attempt>>
                   /\ wf' = wf \/ (wf # "turning" /\ wf' \notin {"turning", "grouping"})
<1>1. StartRun \/ StartRunWrite \/ LoopEnds \/ GroupOver \/ FinalizeRun \/ FinalizeWrite => Same
    BY DEF StartRun, StartRunWrite, LoopEnds, GroupOver, FinalizeRun, FinalizeWrite
<1>2. WakeCancelled \/ ApplyThreadCancellation \/ ApplyWrite \/ CancelSignal \/ CancelThread \/ ClientSweep
      \/ ClientWrite \/ UNCHANGED vars => Same
    BY DEF WakeCancelled, ApplyThreadCancellation, ApplyWrite, CancelSignal, CancelThread, ClientSweep, ClientWrite,
       vars
<1>3. ASSUME NEW m \in Msgs, SendMessage(m) PROVE Same
    BY <1>3 DEF SendMessage
<1>4. SeeCancel /\ wf # "turning" => Same
    BY DEF SeeCancel
<1> HIDE DEF Same
<1>5. Same \/ BeginTurn \/ TurnReturns \/ TurnFails \/ TurnLost \/ (SeeCancel /\ wf = "turning")
      \/ \E t \in Turns, k \in Attempts : Attempt(t, k)
  <2> HIDE DEF Attempt
  <2> QED BY <1>1, <1>2, <1>3, <1>4
<1> QED BY <1>5 DEF Same

\* At most one attempt takes steps: the one the workflow waits for.
LEMMA OneAliveStep == Bounds /\ ~astray' /\ TurnsInv /\ [Next]_vars => OneAlive'
<1> SUFFICES ASSUME Bounds, ~astray', TurnsInv, [Next]_vars PROVE OneAlive'
    OBVIOUS
<1> USE DEF OneAlive, Alive, GivenUp, Spent, Asleep
<1>1. OneAlive
    BY DEF TurnsInv
<1>2. CASE /\ UNCHANGED <<act, answered, payload, turn, attempt>>
           /\ wf' = wf \/ (wf # "turning" /\ wf' \notin {"turning", "grouping"})
    BY <1>1, <1>2
<1>3. CASE BeginTurn
  <2>1. wf = "looping" /\ wf' = "turning" /\ turn' = turn + 1 /\ attempt' = 1
      BY <1>3 DEF BeginTurn
  <2> QED BY <1>1, <1>3, <2>1, BeginsTurn DEF OnlyOne, Becomes
<1>4. CASE TurnReturns
    BY <1>1, <1>4, TakesAnswer DEF OnlyOne, Becomes
<1>5. CASE TurnFails
  <2>1. act' = act /\ act[turn][attempt].pc = "error"
      BY <1>5 DEF TurnFails, At
  <2> QED BY <1>1, <2>1
<1>6. CASE TurnLost
  <2>1. act'[turn][attempt].pc = "dead" /\ turn' = turn
      BY <1>6, LosesTurn DEF TurnLost
  <2> QED BY <1>1, <1>6, <2>1, LosesTurn DEF OnlyOne, Becomes
<1>7. CASE SeeCancel /\ wf = "turning"
  <2>1. act'[turn][attempt].pc = "dead" /\ OnlyOne(turn, attempt)
      BY <1>7, SeesCancel
  <2> QED BY <1>1, <2>1 DEF OnlyOne, Becomes
<1>8. ASSUME NEW t \in Turns, NEW k \in Attempts, Attempt(t, k) PROVE OneAlive'
  <2>1. OnlyOne(t, k) /\ act[t][k].pc \in Alive /\ UNCHANGED <<wf, turn, attempt>>
      BY <1>8, AnyAttempt
  <2> QED BY <1>1, <2>1 DEF OnlyOne, Becomes
<1> QED BY <1>2, <1>3, <1>4, <1>5, <1>6, <1>7, <1>8, SameTurns

\* Turns to come have no attempt and no answer.
LEMMA ToComeStep == Bounds /\ ~astray' /\ TurnsInv /\ [Next]_vars => ToCome'
<1> SUFFICES ASSUME Bounds, ~astray', TurnsInv, [Next]_vars PROVE ToCome'
    OBVIOUS
<1> USE DEF ToCome
<1>1. ToCome /\ OneAlive
    BY DEF TurnsInv
<1>2. turn \in Nat /\ Turns \subseteq Nat
  <2>1. TurnTypes
      BY Typed DEF Bounds
  <2> QED BY <2>1, Ranges DEF TurnTypes, Numbers
<1>3. CASE BeginTurn
  <2>1. turn' = turn + 1 /\ answered' = answered
        /\ payload' = [payload EXCEPT ![turn + 1] = [run |-> current, index |-> count + 1, msgs |-> NewMessages]]
      BY <1>3 DEF BeginTurn
  <2>2. payload \in [Turns -> [run : {0} \cup Runs, index : Nat, msgs : Seq(Msgs)]]
      BY Typed DEF Bounds, TurnTypes
  <2>3. \A t \in Turns : t # turn + 1 => payload'[t] = payload[t]
      BY <2>1, <2>2
  <2>4. \A t \in Turns, k \in Attempts : t # turn + 1 => act'[t][k] = act[t][k]
      BY <1>3, BeginsTurn DEF OnlyOne, Becomes
  <2>5. \A t \in Turns : t > turn' => t > turn /\ t # turn + 1
      BY <1>2, <2>1
  <2> QED BY <1>1, <2>1, <2>3, <2>4, <2>5
<1>4. CASE TurnReturns
    BY <1>1, <1>2, <1>4, TakesAnswer DEF OnlyOne, Becomes, TurnReturns
<1>5. CASE TurnFails
    BY <1>1, <1>5 DEF TurnFails
<1>6. CASE TurnLost
  <2>1. UNCHANGED <<turn, answered, payload>>
      BY <1>6 DEF TurnLost
  <2> QED BY <1>1, <1>2, <1>6, <2>1, LosesTurn DEF OnlyOne, Becomes
<1>7. CASE SeeCancel /\ wf = "turning"
  <2>1. UNCHANGED <<turn, answered, payload>>
      BY <1>7 DEF SeeCancel
  <2> QED BY <1>1, <1>2, <1>7, <2>1, SeesCancel DEF OnlyOne, Becomes
<1>8. ASSUME NEW t \in Turns, NEW k \in Attempts, Attempt(t, k) PROVE ToCome'
  <2>1. OnlyOne(t, k) /\ t = turn /\ UNCHANGED <<turn, payload>>
      BY <1>1, <1>8, AnyAttempt DEF OneAlive, Alive
  <2>2. \A u \in Turns : u # t => answered'[u] = answered[u]
    <3>1. answered \in [Turns -> Seq(Attempts)]
        BY Typed DEF Bounds, StoreTypes
    <3>2. answered' = answered \/ answered' = [answered EXCEPT ![t] = Append(@, k)]
        BY <1>8 DEF RunTurn, AppendInbound, AppendAssistant, TurnError, CountThreadTurn, CountRunTurn, CountedBefore
    <3> QED BY <3>1, <3>2
  <2> QED BY <1>1, <1>2, <2>1, <2>2 DEF OnlyOne, Becomes
<1>9. CASE UNCHANGED <<act, answered, payload, turn, attempt>>
    BY <1>1, <1>9
<1> QED BY <1>3, <1>4, <1>5, <1>6, <1>7, <1>8, <1>9, SameTurns

\* An attempt that has an answer has the only one of its turn.
LEMMA AnsweredStep ==
  Bounds /\ ~astray' /\ TurnsInv /\ [Next]_vars => Answered' /\ OneEach'
<1> SUFFICES ASSUME Bounds, ~astray', TurnsInv, [Next]_vars PROVE Answered' /\ OneEach'
    OBVIOUS
<1> USE DEF Answered, Accounts, Wrote, OneEach, GivenUp, Spent, Asleep
<1>1. OneAlive /\ ToCome /\ Answered /\ OneEach
    BY DEF TurnsInv
<1>2. answered \in [Turns -> Seq(Attempts)] /\ turn \in Nat /\ Turns \subseteq Nat
  <2>1. TurnTypes /\ StoreTypes
      BY Typed DEF Bounds
  <2> QED BY <2>1, Ranges DEF TurnTypes, StoreTypes, Numbers
<1>3. CASE BeginTurn
    BY <1>1, <1>2, <1>3, BeginsTurn DEF OnlyOne, Becomes, BeginTurn, ToCome
<1>4. CASE TurnReturns
  <2>1. answered' = answered /\ Reply = act[turn][attempt].reply
      BY <1>4 DEF TurnReturns, Reply
  <2> QED BY <1>1, <1>4, <2>1, TakesAnswer DEF OnlyOne, Becomes
<1>5. CASE TurnFails
    BY <1>1, <1>5 DEF TurnFails
<1>6. CASE TurnLost
  <2>1. act'[turn][attempt].pc = "dead" /\ answered' = answered /\ attempt \in Nat \ {0}
      BY <1>6, LosesTurn, Ranges DEF TurnLost, Numbers
  <2> QED BY <1>1, <1>6, <2>1, LosesTurn DEF OnlyOne, Becomes
<1>7. CASE SeeCancel /\ wf = "turning"
  <2>1. act'[turn][attempt].pc = "dead" /\ OnlyOne(turn, attempt) /\ answered' = answered
      BY <1>7, SeesCancel DEF SeeCancel
  <2> QED BY <1>1, <2>1 DEF OnlyOne, Becomes
<1>8. ASSUME NEW t \in Turns, NEW k \in Attempts, Attempt(t, k) PROVE Answered' /\ OneEach'
  <2>1. CASE AppendAssistant(t, k)
    <3>1. act[t][k].pc = "inbound" /\ Step(t, k, "answered") /\ answered' = [answered EXCEPT ![t] = Append(@, k)]
        BY <2>1 DEF AppendAssistant, At
    <3>2. OnlyOne(t, k) /\ Keeps(act[t][k], act'[t][k]) /\ act'[t][k].pc = "answered"
        BY <3>1, GoesOn DEF Statuses
    <3>3. answered[t] = <<>> /\ act[t][k].reply = k
        BY <1>1, <3>1
    <3>4. answered'[t] = <<k>> /\ \A u \in Turns : u # t => answered'[u] = answered[u]
        BY <1>2, <3>1, <3>3
    <3>5. t = turn /\ k = attempt
        BY <1>1, <3>1 DEF OneAlive, Alive
    <3>6. ASSUME NEW j \in Attempts, j # k
          PROVE  act'[t][j] = act[t][j] /\ act[t][j].pc \notin Alive \cup Wrote
      <4>1. act'[t][j] = act[t][j]
          BY <3>2, <3>6 DEF OnlyOne, Becomes
      <4>2. act[t][j].pc \notin Alive
          BY <1>1, <3>5, <3>6 DEF OneAlive
      <4>3. act[t][j].pc \notin Wrote
          BY <1>1, <3>3
      <4> QED BY <4>1, <4>2, <4>3
    <3>7. ASSUME NEW u \in Turns, NEW j \in Attempts, u # t
          PROVE  act'[u][j] = act[u][j] /\ answered'[u] = answered[u]
        BY <3>2, <3>4, <3>7 DEF OnlyOne, Becomes
    <3>8. act'[t][k].pc = "answered" /\ act'[t][k].reply = k
        BY <3>2, <3>3 DEF Keeps
    <3>9. Len(answered'[t]) = 1
        BY <3>4
    <3>10. OneEach'
      <4>1. \A u \in Turns : u # t => Len(answered'[u]) <= 1
          BY <1>1, <3>4
      <4>2. \A u \in Turns : Len(answered'[u]) <= 1
        <5> SUFFICES ASSUME NEW u \in Turns PROVE Len(answered'[u]) <= 1
            OBVIOUS
        <5>1. CASE u = t
          <6>1. 1 <= 1
              OBVIOUS
          <6> QED BY ONLY <3>9, <5>1, <6>1, Zenon
        <5>2. CASE u # t
            BY ONLY <4>1, <5>2
        <5> QED BY <5>1, <5>2
      <4> QED BY <4>2 DEF OneEach
    <3>11. Answered'
      <4> SUFFICES ASSUME NEW u \in Turns, NEW j \in Attempts
                   PROVE  Accounts(act'[u][j], j, answered'[u])
          BY DEF Answered
      <4>1. CASE u # t
          BY <1>1, <3>7, <4>1
      <4>2. CASE u = t /\ j = k
          BY <3>4, <3>8, <4>2
      <4>3. CASE u = t /\ j # k
          BY <3>6, <4>3 DEF Alive
      <4> QED BY <4>1, <4>2, <4>3
    <3> QED BY <3>10, <3>11
  <2>2. CASE RunTurn(t, k)
    <3>1. /\ OnlyOne(t, k) /\ act[t][k].pc = "started" /\ answered' = answered
          /\ act'[t][k].pc = (IF Resumes(t, k) THEN "resumed" ELSE "inbound")
          /\ act'[t][k].reply = (IF Resumes(t, k) THEN answered[t][Len(answered[t])] ELSE k)
      <4>1. answered' = answered
          BY <2>2 DEF RunTurn
      <4> HIDE DEF Answered, Accounts, Wrote
      <4> QED BY <2>2, <4>1, BeginsAttempt
    <3>2. CASE Resumes(t, k)
      <4>1. answered[t] \in Seq(Attempts) /\ answered[t] # <<>> /\ Len(answered[t]) <= 1
          BY <1>1, <1>2, <3>2 DEF Resumes
      <4>2. Len(answered[t]) = 1 /\ answered[t] = <<answered[t][1]>>
          BY <4>1, OneElement
      <4>3. answered[t] = <<act'[t][k].reply>> /\ act'[t][k].pc = "resumed"
          BY <3>1, <3>2, <4>2
      <4>4. \A u \in Turns, j \in Attempts : ~(u = t /\ j = k) => act'[u][j] = act[u][j]
          BY <3>1 DEF OnlyOne, Becomes
      <4>5. Accounts(act'[t][k], k, answered[t])
          BY <4>3 DEF Accounts
      <4> HIDE DEF Accounts
      <4> QED BY <1>1, <3>1, <4>4, <4>5
    <3>3. CASE ~Resumes(t, k)
      <4>1. answered[t] = <<>>
        <5>1. k \in Nat \ {0}
            BY Ranges DEF Numbers
        <5> QED BY <1>1, <3>1, <3>3, <5>1 DEF Resumes
      <4> QED BY <1>1, <3>1, <3>3, <4>1 DEF OnlyOne, Becomes
    <3> QED BY <3>2, <3>3
  <2>3. CASE AppendInbound(t, k)
    <3>1. answered' = answered
        BY <2>3 DEF AppendInbound
    <3>2. OnlyOne(t, k) /\ Keeps(act[t][k], act'[t][k]) /\ act[t][k].pc = "inbound" /\ act'[t][k].pc = "inbound"
        BY <2>3, StoresMessage
    <3> QED BY <1>1, <3>1, <3>2 DEF OnlyOne, Becomes, Keeps
  <2>4. CASE TurnError(t, k)
      BY <1>1, <2>4, FailsAttempt DEF OnlyOne, Becomes, TurnError
  <2>5. ASSUME NEW pc \in {"counted", "done"}, Step(t, k, pc), answered' = answered,
               act[t][k].pc \in {"answered", "resumed", "counted"}
        PROVE  Answered' /\ OneEach'
    <3>1. OnlyOne(t, k) /\ Keeps(act[t][k], act'[t][k]) /\ act'[t][k].pc = pc
        BY <2>5, GoesOn DEF Statuses
    <3> QED BY <1>1, <2>5, <3>1 DEF OnlyOne, Becomes, Keeps
  <2>6. CASE CountThreadTurn(t, k) \/ CountRunTurn(t, k) \/ CountedBefore(t, k)
      BY <2>5, <2>6 DEF CountThreadTurn, CountRunTurn, CountedBefore, At
  <2> QED BY <1>8, <2>1, <2>2, <2>3, <2>4, <2>6
<1>9. CASE UNCHANGED <<act, answered, payload, turn, attempt>>
    BY <1>1, <1>9
<1> QED BY <1>3, <1>4, <1>5, <1>6, <1>7, <1>8, <1>9, SameTurns

\* A tool group is that of an attempt that is over.
LEMMA GroupedStep == Bounds /\ ~astray' /\ TurnsInv /\ [Next]_vars => Grouped'
<1> SUFFICES ASSUME Bounds, ~astray', TurnsInv, [Next]_vars PROVE Grouped'
    OBVIOUS
<1> USE DEF Grouped
<1>1. OneAlive /\ Grouped
    BY DEF TurnsInv
<1>2. CASE BeginTurn \/ TurnFails
    BY <1>2 DEF BeginTurn, TurnFails
<1>3. CASE TurnReturns
    BY <1>3, TakesAnswer DEF TurnReturns
<1>4. CASE TurnLost
    BY <1>4 DEF TurnLost
<1>5. CASE SeeCancel /\ wf = "turning"
    BY <1>5, SeesCancel
<1>6. ASSUME NEW t \in Turns, NEW k \in Attempts, Attempt(t, k) PROVE Grouped'
  <2>1. wf = "turning" /\ wf' = wf
      BY <1>1, <1>6, AnyAttempt DEF OneAlive, Alive
  <2> QED BY <2>1
<1>7. CASE /\ UNCHANGED <<act, answered, payload, turn, attempt>>
           /\ wf' = wf \/ (wf # "turning" /\ wf' \notin {"turning", "grouping"})
    BY <1>1, <1>7
<1> QED BY <1>2, <1>3, <1>4, <1>5, <1>6, <1>7, SameTurns

\* So every step keeps what is true of turns and answers, and the initial state has it.
LEMMA TurnsInvStep == Bounds /\ ~astray' /\ TurnsInv /\ [Next]_vars => TurnsInv'
  BY OneAliveStep, ToComeStep, AnsweredStep, GroupedStep DEF TurnsInv

LEMMA TurnsInvInit == Init => TurnsInv
  BY DEF Init, TurnsInv, OneAlive, ToCome, Answered, Accounts, Grouped, OneEach, Alive, Wrote, Asleep

\* A turn has one answer from the model, however many attempts it takes: the run_turn
\* activity resumes with the answer an earlier attempt stored and does not ask again.
THEOREM OneAnswer == Spec => []OneAnswerPerTurn
<1> DEFINE Inv == Bounds /\ (~astray => TurnsInv)
<1>1. Init => Inv
    BY BoundsInit, TurnsInvInit
<1>2. Inv /\ [Next]_vars => Inv'
    BY BoundsStep, TurnsInvStep, StaysAstray
<1>3. Inv => OneAnswerPerTurn
    BY DEF TurnsInv, OneEach, OneAnswerPerTurn
<1> HIDE DEF Inv
<1> QED BY <1>1, <1>2, <1>3, PTL DEF Spec

-----------------------------------------------------------------------------
(* Sequences of messages.                                                  *)

\* What was sent before stays before, and all of it before what is sent next.
LEMMA SentMore ==
  ASSUME NEW s \in Seq(Msgs), NEW m \in Msgs
  PROVE  /\ \A x, y : Before(s, x, y) => Before(Append(s, m), x, y)
         /\ \A x \in Members(s) : Before(Append(s, m), x, m)
<1> DEFINE l == Append(s, m)
<1>1. Len(s) \in Nat /\ Len(l) = Len(s) + 1 /\ l[Len(s) + 1] = m /\ \A i \in 1 .. Len(s) : l[i] = s[i]
    OBVIOUS
<1> HIDE DEF l
<1>2. ASSUME NEW x, NEW y, Before(s, x, y) PROVE Before(l, x, y)
  <2>1. PICK a \in 1 .. Len(s), b \in 1 .. Len(s) : a < b /\ s[a] = x /\ s[b] = y
      BY <1>2 DEF Before
  <2>2. a \in 1 .. Len(l) /\ b \in 1 .. Len(l) /\ l[a] = x /\ l[b] = y
      BY <1>1, <2>1
  <2> QED BY <2>1, <2>2 DEF Before
<1>3. ASSUME NEW x \in Members(s) PROVE Before(l, x, m)
  <2>1. PICK a \in 1 .. Len(s) : s[a] = x
      BY DEF Members
  <2>2. a \in 1 .. Len(l) /\ Len(s) + 1 \in 1 .. Len(l) /\ a < Len(s) + 1 /\ l[a] = x
      BY <1>1, <2>1
  <2> QED BY <1>1, <2>2 DEF Before
<1> QED BY <1>2, <1>3 DEF l

\* So a queue that is in order stays so when what is sent next joins it.
LEMMA QueueMore ==
  ASSUME NEW s \in Seq(Msgs), NEW m \in Msgs, NEW q \in Seq(Msgs), Sorted(s, q), Members(q) \subseteq Members(s)
  PROVE  /\ Sorted(Append(s, m), q) /\ Sorted(Append(s, m), Append(q, m))
         /\ Members(Append(q, m)) = Members(q) \cup {m}
<1> DEFINE l == Append(q, m)
<1>1. Len(q) \in Nat /\ Len(l) = Len(q) + 1 /\ l[Len(q) + 1] = m /\ \A i \in 1 .. Len(q) : l[i] = q[i]
    OBVIOUS
<1> HIDE DEF l
<1>2. Sorted(Append(s, m), q)
    BY SentMore DEF Sorted
<1>3. ASSUME NEW i \in 1 .. Len(l), NEW j \in 1 .. Len(l), i < j
      PROVE  Before(Append(s, m), l[i], l[j])
  <2>1. i \in 1 .. Len(q) /\ l[i] = q[i] /\ q[i] \in Members(q)
      BY <1>1, <1>3 DEF Members
  <2>2. CASE j \in 1 .. Len(q)
      BY <1>1, <1>2, <1>3, <2>1, <2>2 DEF Sorted
  <2>3. CASE j = Len(q) + 1
      BY <1>1, <2>1, <2>3, SentMore
  <2> QED BY <1>1, <2>2, <2>3
<1>4. Members(l) = Members(q) \cup {m}
    BY Drained DEF l
<1> QED BY <1>2, <1>3, <1>4 DEF l, Sorted

\* Two queues, one after the other.
LEMMA QueuesJoin ==
  ASSUME NEW s, NEW p \in Seq(Msgs), NEW q \in Seq(Msgs),
         Sorted(s, p), Sorted(s, q), Precede(s, Members(p), Members(q))
  PROVE  Sorted(s, p \o q) /\ Members(p \o q) = Members(p) \cup Members(q)
<1> DEFINE l == p \o q
<1>1. /\ Len(p) \in Nat /\ Len(q) \in Nat /\ Len(l) = Len(p) + Len(q)
      /\ \A i \in 1 .. Len(p) : l[i] = p[i]
      /\ \A i \in Len(p) + 1 .. Len(p) + Len(q) : l[i] = q[i - Len(p)]
    OBVIOUS
<1> HIDE DEF l
<1>2. \A i \in 1 .. Len(l) : \/ i \in 1 .. Len(p) /\ l[i] = p[i] /\ l[i] \in Members(p)
                             \/ i > Len(p) /\ i - Len(p) \in 1 .. Len(q) /\ l[i] = q[i - Len(p)] /\ l[i] \in Members(q)
    BY <1>1 DEF Members
<1>3. ASSUME NEW i \in 1 .. Len(l), NEW j \in 1 .. Len(l), i < j
      PROVE  Before(s, l[i], l[j])
  <2>1. CASE j \in 1 .. Len(p)
      BY <1>1, <1>3, <2>1 DEF Sorted
  <2>2. CASE i > Len(p)
    <3>1. i - Len(p) \in 1 .. Len(q) /\ j - Len(p) \in 1 .. Len(q) /\ i - Len(p) < j - Len(p)
          /\ l[i] = q[i - Len(p)] /\ l[j] = q[j - Len(p)]
        BY <1>1, <1>3, <2>2
    <3> QED BY <3>1 DEF Sorted
  <2>3. CASE i \in 1 .. Len(p) /\ j > Len(p)
    <3>1. l[i] \in Members(p) /\ l[j] \in Members(q)
        BY <1>1, <1>2, <2>3
    <3> QED BY <3>1 DEF Precede
  <2> QED BY <1>1, <2>1, <2>2, <2>3
<1>4. Members(l) \subseteq Members(p) \cup Members(q)
    BY <1>2 DEF Members
<1>5. Members(p) \subseteq Members(l)
  <2> SUFFICES ASSUME NEW i \in 1 .. Len(p) PROVE p[i] \in Members(l)
      BY DEF Members
  <2>1. i \in 1 .. Len(l) /\ l[i] = p[i]
      BY <1>1
  <2> QED BY <2>1 DEF Members
<1>6. Members(q) \subseteq Members(l)
  <2> SUFFICES ASSUME NEW i \in 1 .. Len(q) PROVE q[i] \in Members(l)
      BY DEF Members
  <2>1. i + Len(p) \in 1 .. Len(l) /\ l[i + Len(p)] = q[i]
      BY <1>1
  <2> QED BY <2>1 DEF Members
<1> QED BY <1>3, <1>4, <1>5, <1>6 DEF l, Sorted

\* A transcript that grows by a message.
LEMMA TextsMore ==
  ASSUME NEW st \in Seq(Msgs \X Turns), NEW m \in Msgs, NEW t \in Turns
  PROVE  LET l == Append(st, <<m, t>>) IN
         /\ Texts(l) = Texts(st) \cup {m}
         /\ Len(l) = Len(st) + 1 /\ l[Len(st) + 1] = <<m, t>> /\ \A i \in 1 .. Len(st) : l[i] = st[i]
<1> DEFINE l == Append(st, <<m, t>>)
<1>1. Len(st) \in Nat /\ Len(l) = Len(st) + 1 /\ l[Len(st) + 1] = <<m, t>> /\ \A i \in 1 .. Len(st) : l[i] = st[i]
    OBVIOUS
<1> HIDE DEF l
<1>2. Texts(l) \subseteq Texts(st) \cup {m}
  <2> SUFFICES ASSUME NEW i \in 1 .. Len(l) PROVE l[i][1] \in Texts(st) \cup {m}
      BY DEF Texts
  <2>1. CASE i \in 1 .. Len(st)
      BY <1>1, <2>1 DEF Texts
  <2>2. CASE i = Len(st) + 1
      BY <1>1, <2>2
  <2> QED BY <1>1, <2>1, <2>2
<1>3. Texts(st) \cup {m} \subseteq Texts(l)
  <2>1. ASSUME NEW i \in 1 .. Len(st) PROVE st[i][1] \in Texts(l)
    <3>1. i \in 1 .. Len(l) /\ l[i] = st[i]
        BY <1>1
    <3> QED BY <3>1 DEF Texts
  <2>2. m \in Texts(l)
    <3>1. Len(st) + 1 \in 1 .. Len(l) /\ l[Len(st) + 1][1] = m
        BY <1>1
    <3> QED BY <3>1 DEF Texts
  <2> QED BY <2>1, <2>2 DEF Texts
<1> QED BY <1>1, <1>2, <1>3 DEF l

\* Nothing remains of a queue at its end, all of it at its beginning, and one less after one.
LEMMA Remaining ==
  ASSUME NEW q \in Seq(Msgs)
  PROVE  /\ Remains(q, 0) = Members(q) /\ Remains(q, Len(q)) = {}
         /\ \A n \in Nat : n < Len(q) => /\ Remains(q, n) = {q[n + 1]} \cup Remains(q, n + 1)
                                         /\ q[n + 1] \in Members(q)
<1>1. Len(q) \in Nat
    OBVIOUS
<1>2. Remains(q, 0) = Members(q)
    BY DEF Remains, Members
<1>3. Remains(q, Len(q)) = {}
    BY <1>1 DEF Remains
<1>4. ASSUME NEW n \in Nat, n < Len(q)
      PROVE  Remains(q, n) = {q[n + 1]} \cup Remains(q, n + 1) /\ q[n + 1] \in Members(q)
  <2>1. n + 1 .. Len(q) = {n + 1} \cup (n + 2 .. Len(q))
      BY <1>1, <1>4
  <2> QED BY <1>1, <1>4, <2>1 DEF Remains, Members
<1> QED BY <1>2, <1>3, <1>4

-----------------------------------------------------------------------------
(* Messages are stored in order.                                           *)

\* Few steps touch the transcript or a queue, or let the run go on.
LEMMA SameQueues ==
  ASSUME [Next]_vars
  PROVE  \/ StartRun \/ StartRunWrite \/ BeginTurn \/ TurnReturns \/ GroupOver
         \/ \E m \in Msgs : SendMessage(m)
         \/ \E t \in Turns, k \in Attempts : AppendInbound(t, k)
         \/ UNCHANGED <<stored, sent, inbox, fresh, took, turn>> /\ (wf' = wf \/ wf' \notin Reading)
<1> USE DEF Reading
<1>1. LoopEnds \/ TurnFails \/ FinalizeRun \/ FinalizeWrite \/ TurnLost \/ SeeCancel
      => UNCHANGED <<stored, sent, inbox, fresh, took, turn>> /\ (wf' = wf \/ wf' \notin Reading)
    BY DEF LoopEnds, TurnFails, FinalizeRun, FinalizeWrite, TurnLost, SeeCancel
<1>2. WakeCancelled \/ ApplyThreadCancellation \/ ApplyWrite \/ CancelSignal \/ CancelThread \/ ClientSweep
      \/ ClientWrite \/ UNCHANGED vars
      => UNCHANGED <<stored, sent, inbox, fresh, took, turn>> /\ (wf' = wf \/ wf' \notin Reading)
    BY DEF WakeCancelled, ApplyThreadCancellation, ApplyWrite, CancelSignal, CancelThread, ClientSweep, ClientWrite,
       vars
<1>3. ASSUME NEW t \in Turns, NEW k \in Attempts, Attempt(t, k), ~AppendInbound(t, k)
      PROVE  UNCHANGED <<stored, sent, inbox, fresh, took, turn>> /\ wf' = wf
    BY <1>3 DEF RunTurn, TurnError, CountedBefore, AppendAssistant, CountThreadTurn, CountRunTurn
<1> QED
  <2> HIDE DEF Attempt
  <2> QED BY <1>1, <1>2, <1>3

\* The attempt under way stores the next message of its turn.
LEMMA NextMessage ==
  ASSUME Bounds, TurnsInv, OrderInv, NEW t \in Turns, NEW k \in Attempts, AppendInbound(t, k),
         NEW n \in 0 .. Len(stored), Delivered(n)
  PROVE  /\ wf = "turning" /\ t = turn /\ k = attempt /\ payload[t].msgs = fresh
         /\ act[t][k].skip = n /\ n < Len(fresh)
         /\ fresh[n + 1] \in Msgs /\ stored' = Append(stored, <<fresh[n + 1], t>>)
<1>1. act[t][k].pc = "inbound" /\ act[t][k].skip < Len(payload[t].msgs)
      /\ stored' = Append(stored, <<payload[t].msgs[act[t][k].skip + 1], t>>)
    BY DEF AppendInbound, At
<1>2. wf = "turning" /\ t = turn /\ k = attempt
    BY <1>1 DEF TurnsInv, OneAlive, Alive
<1>3. payload[t].msgs = fresh
    BY <1>2 DEF OrderInv, Delivering
<1>4. act[t][k].skip = n
    BY <1>1, <1>2 DEF Delivered, Knows
<1>5. n + 1 \in 1 .. Len(fresh) /\ fresh \in Seq(Msgs)
  <2>1. fresh \in Seq(Msgs) /\ n \in Nat
      BY Typed DEF Bounds, QueueTypes
  <2> QED BY <1>1, <1>3, <1>4, <2>1
<1>6. fresh[n + 1] \in Msgs
    BY <1>5
<1> QED BY <1>1, <1>2, <1>3, <1>4, <1>6

\* The transcript and the queues follow each other.
LEMMA QueuedStep == Bounds /\ ~astray' /\ TurnsInv /\ OrderInv /\ [Next]_vars => Queued'
<1> SUFFICES ASSUME Bounds, ~astray', TurnsInv, OrderInv, [Next]_vars PROVE Queued'
    OBVIOUS
<1>1. Queued /\ Delivering /\ Kept
    BY DEF OrderInv
<1>2. /\ inbox \in Seq(Msgs) /\ fresh \in Seq(Msgs) /\ sent \in Seq(Msgs) /\ stored \in Seq(Msgs \X Turns)
      /\ turn \in Nat
  <2>1. QueueTypes /\ StoreTypes /\ TurnTypes
      BY Typed DEF Bounds
  <2>2. turn \in Nat
      BY <2>1, Ranges DEF TurnTypes, Numbers
  <2> QED BY <2>1, <2>2 DEF QueueTypes, StoreTypes
<1>3. Members(inbox) \subseteq Members(sent)
    BY DEF Bounds, RunsCounted
<1>4. Members(<<>>) = {} /\ \A s : Sorted(s, <<>>)
    BY DEF Members, Sorted
<1> USE DEF Queued, Reading
<1>5. CASE StartRun
  <2>1. fresh' = inbox /\ inbox' = <<>> /\ UNCHANGED <<stored, sent, turn>> /\ wf' = "starting"
      BY <1>5 DEF StartRun
  <2> QED BY <1>1, <1>3, <1>4, <2>1 DEF Precede
<1>6. CASE StartRunWrite
    BY <1>1, <1>6 DEF StartRunWrite
<1>7. CASE BeginTurn
  <2>1. /\ fresh' = NewMessages /\ UNCHANGED <<stored, sent>> /\ turn' = turn + 1 /\ wf = "looping" /\ wf' = "turning"
        /\ inbox' = IF Interleaves THEN <<>> ELSE inbox
      BY <1>7 DEF BeginTurn
  <2>2. \A i \in 1 .. Len(stored) : stored[i][2] <= turn'
    <3>1. \A i \in 1 .. Len(stored) : stored[i][2] \in Nat
      <4>1. \A i \in 1 .. Len(stored) : stored[i][2] \in Turns
          BY <1>2
      <4>2. \A u \in Turns : u \in Nat
          BY Ranges DEF Numbers
      <4> QED BY <4>1, <4>2
    <3> QED BY <1>1, <1>2, <2>1, <3>1
  <2>3. CASE Interleaves
    <3>1. fresh' = fresh \o inbox /\ inbox' = <<>>
        BY <2>1, <2>3 DEF NewMessages
    <3>2. Sorted(sent, fresh \o inbox) /\ Members(fresh \o inbox) = Members(fresh) \cup Members(inbox)
        BY <1>1, <1>2, <2>1, QueuesJoin
    <3> QED BY <1>1, <1>3, <1>4, <2>1, <2>2, <3>1, <3>2 DEF Precede
  <2>4. CASE ~Interleaves
      BY <1>1, <2>1, <2>2, <2>4 DEF NewMessages
  <2> QED BY <2>3, <2>4
<1>8. CASE TurnReturns
  <2>1. fresh' = <<>> /\ UNCHANGED <<stored, sent, turn, inbox>> /\ wf' \in {"grouping", "finalizing"}
      BY <1>8 DEF TurnReturns
  <2> QED BY <1>1, <1>4, <2>1 DEF Precede
<1>9. CASE GroupOver
  <2>1. UNCHANGED <<stored, sent, turn, inbox, fresh>> /\ wf = "grouping"
      BY <1>9 DEF GroupOver
  <2>2. fresh = <<>>
      BY <1>1, <2>1 DEF Kept
  <2> QED BY <1>1, <1>4, <2>1, <2>2 DEF Precede
<1>10. ASSUME NEW m \in Msgs, SendMessage(m) PROVE Queued'
  <2>1. /\ sent' = Append(sent, m) /\ UNCHANGED <<stored, turn, fresh>>
        /\ \/ wf = "closed" /\ wf' = "idle" /\ inbox' = <<m>>
           \/ wf' = wf /\ inbox' = Append(inbox, m)
      BY <1>10 DEF SendMessage
  <2> DEFINE l == Append(sent, m)
  <2>2. /\ Sorted(l, inbox) /\ Sorted(l, Append(inbox, m)) /\ Members(Append(inbox, m)) = Members(inbox) \cup {m}
      BY <1>1, <1>2, <1>3, QueueMore
  <2>3. wf \in Reading => Sorted(l, fresh)
      BY <1>1, <1>2, QueueMore
  <2>4. (\A x, y : Before(sent, x, y) => Before(l, x, y)) /\ \A x \in Members(sent) : Before(l, x, m)
      BY <1>2, SentMore
  <2>5. Members(l) = Members(sent) \cup {m} /\ Members(<<m>>) = {m}
      BY <1>2, Drained
  <2>6. Sorted(l, <<m>>)
      BY DEF Sorted
  <2> HIDE DEF l
  <2>7. sent' = l
      BY <2>1 DEF l
  <2>8. /\ Precede(l, Texts(stored), Members(inbox) \cup {m})
        /\ Precede(l, Texts(stored), {m})
        /\ wf \in Reading => Precede(l, Members(fresh), Members(inbox) \cup {m})
        /\ wf \in {"starting", "looping"} => Precede(l, Texts(stored), Members(fresh))
      BY <1>1, <2>4 DEF Precede
  <2>9. /\ Texts(stored) \subseteq Members(l)
        /\ wf \in Reading => Members(fresh) \subseteq Members(l)
      BY <1>1, <2>5
  <2>10. CASE wf = "closed" /\ wf' = "idle" /\ inbox' = <<m>>
      BY <1>1, <2>1, <2>5, <2>6, <2>7, <2>8, <2>9, <2>10
  <2>11. CASE wf' = wf /\ inbox' = Append(inbox, m)
      BY <1>1, <2>1, <2>2, <2>3, <2>7, <2>8, <2>9, <2>11
  <2> QED BY <2>1, <2>10, <2>11
<1>11. ASSUME NEW t \in Turns, NEW k \in Attempts, AppendInbound(t, k) PROVE Queued'
  <2>1. wf = "turning"
      BY <1>11 DEF AppendInbound, At, TurnsInv, OneAlive, Alive
  <2>2. PICK n \in 0 .. Len(stored) : Delivered(n)
      BY <1>1, <2>1 DEF Delivering
  <2>3. /\ t = turn /\ n < Len(fresh) /\ n \in Nat
        /\ fresh[n + 1] \in Msgs /\ stored' = Append(stored, <<fresh[n + 1], t>>)
      BY <1>11, <2>2, NextMessage
  <2> DEFINE m == fresh[n + 1]
  <2>5. m \in Members(fresh)
      BY <1>2, <2>3, Remaining
  <2>8. m \in Msgs /\ stored' = Append(stored, <<m, t>>)
      BY <2>3
  <2> HIDE DEF m
  <2>4. /\ Texts(stored') = Texts(stored) \cup {m} /\ Len(stored') = Len(stored) + 1
        /\ stored'[Len(stored) + 1] = <<m, t>> /\ \A i \in 1 .. Len(stored) : stored'[i] = stored[i]
    <3> HIDE DEF Queued
    <3>1. stored \in Seq(Msgs \X Turns)
        BY <1>2
    <3> QED BY <3>1, <2>8, TextsMore
  <2>6. UNCHANGED <<sent, inbox, fresh, turn, wf>>
      BY <1>11 DEF AppendInbound
  <2>7. \A i \in 1 .. Len(stored') : stored'[i][2] <= turn'
    <3> SUFFICES ASSUME NEW i \in 1 .. Len(stored') PROVE stored'[i][2] <= turn
        BY <2>6
    <3>1. CASE i = Len(stored) + 1
        BY <1>2, <2>3, <2>4, <3>1
    <3>2. CASE i # Len(stored) + 1
      <4>1. i \in 1 .. Len(stored)
          BY <1>2, <2>4, <3>2
      <4> QED BY <1>1, <2>4, <4>1
    <3> QED BY <3>1, <3>2
  <2> QED BY <1>1, <2>1, <2>4, <2>5, <2>6, <2>7 DEF Precede
<1>12. CASE UNCHANGED <<stored, sent, inbox, fresh, took, turn>> /\ (wf' = wf \/ wf' \notin Reading)
    BY <1>1, <1>12
<1> QED BY <1>5, <1>6, <1>7, <1>8, <1>9, <1>10, <1>11, <1>12, SameQueues

\* Each message is stored after those that were sent before it.
LEMMA InOrderStep ==
  Bounds /\ ~astray' /\ TurnsInv /\ OrderInv /\ [Next]_vars => InOrder'
<1> SUFFICES ASSUME Bounds, ~astray', TurnsInv, OrderInv, [Next]_vars PROVE InOrder'
    OBVIOUS
<1>1. sent \in Seq(Msgs) /\ stored \in Seq(Msgs \X Turns) /\ fresh \in Seq(Msgs)
    BY Typed DEF Bounds, QueueTypes, StoreTypes
<1>2. \A i, j \in 1 .. Len(stored) : i < j => Before(sent, stored[i][1], stored[j][1])
    BY DEF OrderInv, InOrder
<1>3. ASSUME NEW l, NEW s,
             \A i, j \in 1 .. Len(l) : i < j => Before(s, l[i][1], l[j][1]), stored' = l, sent' = s
      PROVE  InOrder'
    BY <1>3 DEF InOrder
<1>4. CASE UNCHANGED <<stored, sent>>
    BY <1>2, <1>3, <1>4
<1>5. ASSUME NEW m \in Msgs, SendMessage(m) PROVE InOrder'
  <2>1. \A x, y : Before(sent, x, y) => Before(Append(sent, m), x, y)
      BY <1>1, SentMore
  <2>2. stored' = stored /\ sent' = Append(sent, m)
      BY <1>5 DEF SendMessage
  <2> DEFINE s == Append(sent, m)
  <2> HIDE DEF s
  <2>3. stored' = stored /\ sent' = s /\ \A x, y : Before(sent, x, y) => Before(s, x, y)
      BY <2>1, <2>2 DEF s
  <2> QED BY <1>2, <1>3, <2>3
<1>6. ASSUME NEW t \in Turns, NEW k \in Attempts, AppendInbound(t, k) PROVE InOrder'
  <2>1. wf = "turning"
      BY <1>6 DEF AppendInbound, At, TurnsInv, OneAlive, Alive
  <2>2. PICK n \in 0 .. Len(stored) : Delivered(n)
      BY <2>1 DEF OrderInv, Delivering
  <2>3. /\ n < Len(fresh) /\ n \in Nat
        /\ fresh[n + 1] \in Msgs /\ stored' = Append(stored, <<fresh[n + 1], t>>)
      BY <1>6, <2>2, NextMessage
  <2> DEFINE m == fresh[n + 1]
  <2>4. m \in Remains(fresh, n)
      BY <1>1, <2>3, Remaining
  <2>5. m \in Msgs /\ stored' = Append(stored, <<m, t>>)
      BY <2>3
  <2> HIDE DEF m
  <2>6. /\ Len(stored') = Len(stored) + 1
        /\ stored'[Len(stored) + 1] = <<m, t>> /\ \A i \in 1 .. Len(stored) : stored'[i] = stored[i]
      BY <1>1, <2>5, TextsMore
  <2>7. Precede(sent, Texts(stored), Remains(fresh, n))
      BY <2>2 DEF Delivered
  <2>12. Len(stored) \in Nat
      BY <1>1
  <2>8. sent' = sent /\ Len(stored) \in Nat
      BY <1>6, <2>12 DEF AppendInbound, clients
  <2>9. ASSUME NEW i \in 1 .. Len(stored'), NEW j \in 1 .. Len(stored'), i < j
        PROVE  Before(sent, stored'[i][1], stored'[j][1])
    <3>1. i \in 1 .. Len(stored) /\ stored'[i] = stored[i]
        BY <2>6, <2>8, <2>9
    <3>2. CASE j \in 1 .. Len(stored)
        BY <1>2, <2>6, <2>9, <3>1, <3>2
    <3>3. CASE j = Len(stored) + 1
      <4>1. stored[i][1] \in Texts(stored)
          BY <3>1 DEF Texts
      <4>2. Before(sent, stored[i][1], m)
          BY <2>4, <2>7, <4>1 DEF Precede
      <4> QED BY <2>6, <3>1, <3>3, <4>2
    <3> QED BY <2>6, <2>8, <2>9, <3>2, <3>3
  <2> QED BY <1>3, <2>8, <2>9
<1> QED BY <1>4, <1>5, <1>6, SameQueues DEF StartRun, StartRunWrite, BeginTurn, TurnReturns, GroupOver

\* When the turn is over all its messages are stored.
LEMMA AllStored ==
  ASSUME Bounds, OrderInv, wf = "turning", answered[turn] # <<>>
  PROVE  Members(fresh) \subseteq Texts(stored)
<1>1. PICK n \in 0 .. Len(stored) : Delivered(n)
    BY DEF OrderInv, Delivering
<1>2. /\ n = Len(fresh) /\ n \in 0 .. Len(stored)
      /\ \A j \in 1 .. n : stored[Len(stored) - n + j][1] = fresh[j]
    BY <1>1 DEF Delivered, Knows, Latest
<1>3. stored \in Seq(Msgs \X Turns) /\ fresh \in Seq(Msgs)
    BY Typed DEF Bounds, QueueTypes, StoreTypes
<1> SUFFICES ASSUME NEW j \in 1 .. Len(fresh) PROVE fresh[j] \in Texts(stored)
    BY DEF Members
<1>4. Len(stored) - n + j \in 1 .. Len(stored)
    BY <1>2, <1>3
<1> QED BY <1>2, <1>4 DEF Texts

\* Rows that hold nothing of a turn hold the first none of its messages.
LEMMA NoneYet ==
  ASSUME NEW rows, NEW t, NEW q, Len(rows) \in Nat, Len(q) \in Nat,
         \A i \in 1 .. Len(rows) : rows[i][2] # t
  PROVE  Latest(rows, 0, t, q)
<1>1. Len(rows) - 0 = Len(rows) /\ \A i \in 1 .. Len(rows) : ~(i > Len(rows))
    OBVIOUS
<1>2. 0 \in 0 .. Len(rows) /\ 0 <= Len(q) /\ 1 .. 0 = {}
    OBVIOUS
<1> QED BY <1>1, <1>2 DEF Latest

\* The turn under way goes on with the messages of it that are stored: its first n.
LEMMA DeliveringStep ==
  Bounds /\ ~astray' /\ TurnsInv /\ OrderInv /\ [Next]_vars => Delivering'
<1> SUFFICES ASSUME Bounds, ~astray', TurnsInv, OrderInv, [Next]_vars PROVE Delivering'
    OBVIOUS
<1>1. Queued /\ Delivering /\ OneAlive /\ Answered /\ ToCome
    BY DEF OrderInv, TurnsInv
<1>2. /\ inbox \in Seq(Msgs) /\ fresh \in Seq(Msgs) /\ sent \in Seq(Msgs) /\ stored \in Seq(Msgs \X Turns)
      /\ turn \in Nat /\ Len(stored) \in Nat
      /\ answered \in [Turns -> Seq(Attempts)]
      /\ payload \in [Turns -> [run : {0} \cup Runs, index : Nat, msgs : Seq(Msgs)]]
  <2>1. QueueTypes /\ StoreTypes /\ TurnTypes
      BY Typed DEF Bounds
  <2>2. turn \in Nat
      BY <2>1, Ranges DEF TurnTypes, Numbers
  <2> QED BY <2>1, <2>2 DEF QueueTypes, StoreTypes, TurnTypes
<1>3. wf = "turning" => turn \in Turns /\ attempt \in Attempts
    BY Typed DEF Bounds, Underway, TurnTypes
<1>4. \A k \in Attempts : k \in Nat \ {0}
    BY Ranges DEF Numbers
<1>5. ASSUME wf = "turning", UNCHANGED <<stored, fresh, turn, payload>>,
             \A x, y : Before(sent, x, y) => Before(sent', x, y),
             NEW n \in 0 .. Len(stored), Delivered(n),
             Knows(act'[turn][attempt'], attempt', answered'[turn], n, fresh)
      PROVE  Delivering'
  <2>1. Precede(sent', Texts(stored), Remains(fresh, n))
      BY <1>5 DEF Delivered, Precede
  <2> QED BY <1>1, <1>5, <2>1 DEF Delivering, Delivered
<1>6. CASE BeginTurn
  <2>1. /\ fresh' = NewMessages /\ UNCHANGED <<stored, sent, answered>> /\ turn' = turn + 1 /\ attempt' = 1
        /\ wf = "looping"
        /\ payload' = [payload EXCEPT ![turn + 1] = [run |-> current, index |-> count + 1, msgs |-> NewMessages]]
      BY <1>6 DEF BeginTurn
  <2>2. turn + 1 \in Turns /\ act'[turn + 1][1].pc = "started"
      BY <1>6, BeginsTurn
  <2>3. payload'[turn'].msgs = fresh'
      BY <1>2, <2>1, <2>2
  <2>4. answered'[turn'] = <<>>
      BY <1>1, <1>2, <2>1, <2>2 DEF ToCome
  <2>5. NewMessages \in Seq(Msgs) /\ Len(NewMessages) \in Nat
      BY <1>2 DEF NewMessages
  <2>6. \A i \in 1 .. Len(stored) : stored[i][2] # turn + 1
    <3> SUFFICES ASSUME NEW i \in 1 .. Len(stored) PROVE stored[i][2] # turn + 1
        OBVIOUS
    <3>1. stored[i][2] \in Turns /\ stored[i][2] <= turn
      <4>1. stored[i] \in Msgs \X Turns
          BY <1>2
      <4> QED BY <1>1, <4>1 DEF Queued
    <3>2. stored[i][2] \in Nat /\ turn \in Nat
        BY <1>2, <3>1, Ranges DEF Numbers
    <3> HIDE DEF Queued
    <3>3. \A a, b \in Nat : a <= b => a # b + 1
        OBVIOUS
    <3> QED BY ONLY <3>1, <3>2, <3>3
  <2>7. Latest(stored, 0, turn + 1, NewMessages)
    <3>1. Len(stored) \in Nat
        BY <1>2
    <3> QED BY ONLY <2>5, <2>6, <3>1, NoneYet
  <2>8. Knows(act'[turn + 1][1], 1, <<>>, 0, NewMessages)
      BY <2>2 DEF Knows
  <2>9. Precede(sent, Texts(stored), Remains(NewMessages, 0))
    <3>1. Remains(NewMessages, 0) = Members(NewMessages)
        BY <2>5, Remaining
    <3>2. Precede(sent, Texts(stored), Members(fresh)) /\ Precede(sent, Texts(stored), Members(inbox))
        BY <1>1, <2>1 DEF Queued
    <3>3. Members(NewMessages) \subseteq Members(fresh) \cup Members(inbox)
      <4>1. CASE Interleaves
        <5>1. Sorted(sent, fresh) /\ Sorted(sent, inbox) /\ Precede(sent, Members(fresh), Members(inbox))
            BY <1>1, <2>1 DEF Queued, Reading
        <5> QED BY <1>2, <4>1, <5>1, QueuesJoin DEF NewMessages
      <4>2. CASE ~Interleaves
          BY <4>2 DEF NewMessages
      <4> QED BY <4>1, <4>2
    <3> QED BY <3>1, <3>2, <3>3 DEF Precede
  <2>10. Delivered(0)'
      BY <2>1, <2>4, <2>7, <2>8, <2>9 DEF Delivered
  <2>11. 0 \in 0 .. Len(stored)
      BY <1>2
  <2> QED BY <2>1, <2>3, <2>10, <2>11 DEF Delivering
<1>7. CASE TurnLost
  <2>1. wf = "turning" /\ UNCHANGED <<stored, fresh, turn, payload, answered, sent>>
      BY <1>7 DEF TurnLost
  <2>2. PICK n \in 0 .. Len(stored) : Delivered(n)
      BY <1>1, <2>1 DEF Delivering
  <2>3. CASE wf' # "turning"
      BY <2>3 DEF Delivering
  <2>4. CASE wf' = "turning"
    <3>1. attempt' = attempt + 1 /\ act'[turn][attempt'].pc = "started" /\ attempt' # 1
        BY <1>3, <1>4, <1>7, <2>1, <2>4, LosesTurn
    <3>2. Knows(act'[turn][attempt'], attempt', answered'[turn], n, fresh)
        BY <2>1, <2>2, <3>1 DEF Delivered, Knows
    <3> QED BY <1>5, <2>1, <2>2, <3>2
  <2> QED BY <2>3, <2>4
<1>8. ASSUME NEW m \in Msgs, SendMessage(m) PROVE Delivering'
  <2>1. UNCHANGED <<act, answered, attempt, stored, fresh, turn, payload>> /\ sent' = Append(sent, m)
        /\ (wf' = wf \/ wf' = "idle")
      BY <1>8 DEF SendMessage
  <2>2. CASE wf' # "turning"
      BY <2>2 DEF Delivering
  <2>3. CASE wf' = "turning"
    <3>1. PICK n \in 0 .. Len(stored) : Delivered(n)
        BY <1>1, <2>1, <2>3 DEF Delivering
    <3>2. \A x, y : Before(sent, x, y) => Before(sent', x, y)
        BY <1>2, <2>1, SentMore
    <3>3. Knows(act'[turn][attempt'], attempt', answered'[turn], n, fresh)
        BY <2>1, <3>1 DEF Delivered
    <3> QED BY <1>5, <2>1, <2>3, <3>1, <3>2, <3>3
  <2> QED BY <2>2, <2>3
<1>9. ASSUME NEW t \in Turns, NEW k \in Attempts, Attempt(t, k) PROVE Delivering'
  <2>1. wf = "turning" /\ t = turn /\ k = attempt /\ UNCHANGED <<fresh, turn, payload, attempt, sent, wf>>
      BY <1>1, <1>9, AnyAttempt DEF OneAlive, Alive
  <2>2. PICK n \in 0 .. Len(stored) : Delivered(n)
      BY <1>1, <2>1 DEF Delivering
  <2>3. n \in Nat /\ n <= Len(stored) /\ Latest(stored, n, turn, fresh) /\ Knows(act[t][k], k, answered[t], n, fresh)
        /\ Precede(sent, Texts(stored), Remains(fresh, n))
      BY <1>2, <2>1, <2>2 DEF Delivered
  <2>4. CASE RunTurn(t, k)
    <3>1. act[t][k].pc = "started" /\ act'[t][k].skip = FoundStored(t, k)
          /\ act'[t][k].pc \in {"resumed", "inbound"}
        BY <2>4, BeginsAttempt
    <3>2. UNCHANGED <<stored, answered>>
        BY <2>4 DEF RunTurn
    <3>3. FoundStored(t, k) = n
      <4>1. CASE k = 1
          BY <2>3, <3>1, <4>1 DEF FoundStored, Knows
      <4>2. CASE k # 1
        <5> DEFINE rest == Len(stored) - n
        <5>1. rest \in Nat /\ \A i \in 1 .. Len(stored) : stored[i][2] = t <=> i > rest
            BY <1>2, <2>1, <2>3 DEF Latest
        <5> HIDE DEF rest
        <5>5. \A i : i \in 1 .. Len(stored) /\ stored[i][2] = t <=> i \in rest + 1 .. Len(stored)
          <6>1. rest \in Nat /\ Len(stored) \in Nat
              BY <1>2, <5>1
          <6>2. \A i : i \in rest + 1 .. Len(stored) <=> i \in 1 .. Len(stored) /\ i > rest
              BY <6>1
          <6> QED BY <5>1, <6>2
        <5>2. {i \in 1 .. Len(stored) : stored[i][2] = t} = rest + 1 .. Len(stored)
            BY <5>5
        <5>3. Cardinality(rest + 1 .. Len(stored)) = n
          <6>1. rest + 1 \in Int /\ Len(stored) \in Int
              BY <1>2, <5>1
          <6>2. Cardinality(rest + 1 .. Len(stored))
                  = IF rest + 1 > Len(stored) THEN 0 ELSE Len(stored) - (rest + 1) + 1
              BY <6>1, FS_Interval
          <6> QED BY <1>2, <2>3, <6>2 DEF rest
        <5>4. k > 1
            BY <1>4, <4>2
        <5> QED BY <5>2, <5>3, <5>4 DEF FoundStored
      <4> QED BY <4>1, <4>2
    <3>4. Knows(act'[t][k], k, answered[t], n, fresh)
        BY <2>3, <3>1, <3>3 DEF Knows
    <3> QED BY <1>5, <2>1, <2>2, <3>2, <3>4
  <2>5. CASE AppendInbound(t, k)
    <3>1. /\ n < Len(fresh) /\ act[t][k].skip = n
          /\ fresh[n + 1] \in Msgs /\ stored' = Append(stored, <<fresh[n + 1], t>>)
        BY <2>2, <2>5, NextMessage
    <3>2. /\ act[t][k].pc = "inbound" /\ act'[t][k].pc = "inbound" /\ act'[t][k].skip = n + 1
        BY <2>5, <3>1, StoresMessage
    <3>3. answered[t] = <<>> /\ answered' = answered
        BY <1>1, <2>5, <3>2 DEF Answered, Accounts, AppendInbound
    <3>4. Knows(act'[t][k], k, answered[t], n + 1, fresh)
        BY <3>2, <3>3 DEF Knows
    <3> DEFINE m == fresh[n + 1]
    <3>5. m \in Msgs /\ stored' = Append(stored, <<m, t>>) /\ m = fresh[n + 1]
        BY <3>1
    <3>6. Remains(fresh, n + 1) \subseteq Remains(fresh, n) /\ m \in Members(fresh)
        BY <1>2, <2>3, <3>1, Remaining
    <3> HIDE DEF m
    <3>7. /\ Texts(stored') = Texts(stored) \cup {m} /\ Len(stored') = Len(stored) + 1
          /\ stored'[Len(stored) + 1] = <<m, t>> /\ \A i \in 1 .. Len(stored) : stored'[i] = stored[i]
      <4>1. stored \in Seq(Msgs \X Turns)
          BY <1>2
      <4> QED BY <4>1, <3>5, TextsMore
    <3>13. Len(stored) \in Nat /\ n <= Len(stored) /\ n \in Nat /\ Len(stored') = Len(stored) + 1
        BY <1>2, <2>3, <3>7
    <3>8. Latest(stored', n + 1, turn, fresh)
      <4>1. /\ n \in 0 .. Len(stored) /\ n + 1 <= Len(fresh) /\ Len(fresh) \in Nat
            /\ \A i \in 1 .. Len(stored) : stored[i][2] = t <=> i > Len(stored) - n
            /\ \A j \in 1 .. n : stored[Len(stored) - n + j][1] = fresh[j]
        <5>1. Len(stored) \in Nat /\ Len(fresh) \in Nat
            BY <1>2
        <5> QED BY <5>1, <2>1, <2>3, <3>1 DEF Latest
      <4>2. Len(stored') - (n + 1) = Len(stored) - n /\ n + 1 \in 0 .. Len(stored')
          BY <3>13
      <4>3. ASSUME NEW i \in 1 .. Len(stored') PROVE stored'[i][2] = t <=> i > Len(stored) - n
        <5>1. CASE i = Len(stored) + 1
            BY <1>2, <2>3, <3>7, <5>1
        <5>2. CASE i # Len(stored) + 1
          <6>1. i \in 1 .. Len(stored)
              BY <3>13, <5>2
          <6> QED BY <3>7, <4>1, <6>1
        <5> QED BY <5>1, <5>2
      <4>4. ASSUME NEW j \in 1 .. n + 1 PROVE stored'[Len(stored) - n + j][1] = fresh[j]
        <5>1. CASE j = n + 1
          <6>1. Len(stored) - n + j = Len(stored) + 1
              BY <1>2, <2>3, <5>1
          <6> QED BY <3>5, <3>7, <5>1, <6>1
        <5>2. CASE j # n + 1
          <6>1. j \in 1 .. n /\ Len(stored) - n + j \in 1 .. Len(stored)
              BY <1>2, <2>3, <5>2
          <6> QED BY <3>7, <4>1, <6>1
        <5> QED BY <5>1, <5>2
      <4> QED BY <2>1, <4>1, <4>2, <4>3, <4>4 DEF Latest
    <3>9. Precede(sent, Texts(stored'), Remains(fresh, n + 1))
      <4> SUFFICES ASSUME NEW y \in Remains(fresh, n + 1) PROVE Before(sent, m, y)
          BY <2>3, <3>6, <3>7 DEF Precede
      <4>1. Sorted(sent, fresh) /\ Len(fresh) \in Nat
          BY <1>1, <1>2, <2>1 DEF Queued, Reading
      <4>2. PICK j \in n + 1 + 1 .. Len(fresh) : fresh[j] = y
          BY DEF Remains
      <4>3. n + 1 \in 1 .. Len(fresh) /\ j \in 1 .. Len(fresh) /\ n + 1 < j
          BY <2>3, <3>1, <4>1, <4>2
      <4> QED BY <3>5, <4>1, <4>2, <4>3 DEF Sorted
    <3>10. n + 1 \in 0 .. Len(stored')
        BY <1>2, <2>3, <3>7
    <3>11. Delivered(n + 1)'
        BY <2>1, <3>3, <3>4, <3>8, <3>9 DEF Delivered
    <3>12. payload[turn].msgs = fresh
        BY <1>1, <2>1 DEF Delivering
    <3> QED BY <2>1, <3>10, <3>11, <3>12 DEF Delivering
  <2>6. CASE AppendAssistant(t, k)
    <3>1. act[t][k].pc = "inbound" /\ act[t][k].skip >= Len(fresh) /\ Step(t, k, "answered") /\ stored' = stored
        BY <1>1, <2>1, <2>6 DEF AppendAssistant, At, Delivering
    <3>2. act'[t][k].pc = "answered"
        BY <3>1, GoesOn DEF Statuses
    <3>3. n = Len(fresh)
        BY <1>2, <2>3, <3>1 DEF Knows, Latest
    <3>4. Knows(act'[t][k], k, answered'[t], n, fresh)
        BY <3>2, <3>3 DEF Knows
    <3> QED BY <1>5, <2>1, <2>2, <3>1, <3>4
  <2>7. CASE TurnError(t, k)
    <3>1. act'[t][k].pc = "error" /\ UNCHANGED <<stored, answered>>
        BY <2>7, FailsAttempt DEF TurnError
    <3>2. Knows(act'[t][k], k, answered'[t], n, fresh)
        BY <2>3, <3>1 DEF Knows
    <3> QED BY <1>5, <2>1, <2>2, <3>1, <3>2
  <2>8. CASE CountThreadTurn(t, k) \/ CountRunTurn(t, k) \/ CountedBefore(t, k)
    <3>1. UNCHANGED <<stored, answered>> /\ (Step(t, k, "counted") \/ Step(t, k, "done"))
        BY <2>8 DEF CountThreadTurn, CountRunTurn, CountedBefore
    <3>2. act'[t][k].pc \in {"counted", "done"}
        BY <3>1, GoesOn DEF Statuses
    <3>3. Knows(act'[t][k], k, answered'[t], n, fresh)
        BY <2>3, <3>1, <3>2 DEF Knows
    <3> QED BY <1>5, <2>1, <2>2, <3>1, <3>3
  <2> QED BY <1>9, <2>4, <2>5, <2>6, <2>7, <2>8
<1>10. CASE wf' # "turning"
    BY <1>10 DEF Delivering
<1>11. CASE /\ UNCHANGED <<act, answered, payload, turn, attempt>> /\ wf' = wf
            /\ UNCHANGED <<stored, sent, fresh>>
    BY <1>1, <1>11 DEF Delivering, Delivered
<1> QED
  <2> HIDE DEF Attempt
  <2>1. StartRun \/ StartRunWrite \/ TurnReturns \/ GroupOver \/ TurnFails \/ (SeeCancel /\ wf = "turning") => wf' # "turning"
      BY DEF StartRun, StartRunWrite, TurnReturns, GroupOver, TurnFails, SeeCancel
  <2>2. \A t \in Turns, k \in Attempts : AppendInbound(t, k) => Attempt(t, k)
      BY DEF Attempt
  <2> QED BY <1>6, <1>7, <1>8, <1>9, <1>10, <1>11, <2>1, <2>2, SameQueues, SameTurns

\* The transcript grows.
LEMMA Grows ==
  ASSUME ~astray', Bounds, TurnsInv, OrderInv, [Next]_vars
  PROVE  Texts(stored) \subseteq Texts(stored')
<1>1. stored \in Seq(Msgs \X Turns)
    BY Typed DEF Bounds, StoreTypes
<1>2. ASSUME NEW t \in Turns, NEW k \in Attempts, AppendInbound(t, k) PROVE Texts(stored) \subseteq Texts(stored')
  <2>1. wf = "turning"
      BY <1>2 DEF AppendInbound, At, TurnsInv, OneAlive, Alive
  <2>2. PICK n \in 0 .. Len(stored) : Delivered(n)
      BY <2>1 DEF OrderInv, Delivering
  <2>3. fresh[n + 1] \in Msgs /\ stored' = Append(stored, <<fresh[n + 1], t>>)
      BY <1>2, <2>2, NextMessage
  <2> DEFINE m == fresh[n + 1]
  <2>4. m \in Msgs /\ stored' = Append(stored, <<m, t>>)
      BY <2>3
  <2> HIDE DEF m
  <2> QED BY <1>1, <2>4, TextsMore
<1>3. CASE UNCHANGED stored
    BY <1>3
<1> QED BY <1>2, <1>3, SameQueues DEF StartRun, StartRunWrite, BeginTurn, TurnReturns, GroupOver, SendMessage

\* A run loses no message it took: it stores it, or has it before it.
LEMMA KeptStep == Bounds /\ ~astray' /\ TurnsInv /\ OrderInv /\ [Next]_vars => Kept'
<1> SUFFICES ASSUME Bounds, ~astray', TurnsInv, OrderInv, [Next]_vars PROVE Kept'
    OBVIOUS
<1> USE DEF Kept, Reading
<1>1. Kept /\ Delivering /\ OneAlive /\ Answered /\ Underway
    BY DEF OrderInv, TurnsInv, Bounds
<1>2. /\ inbox \in Seq(Msgs) /\ fresh \in Seq(Msgs) /\ stored \in Seq(Msgs \X Turns)
      /\ took \in [Msgs -> {0} \cup Runs] /\ lastRun \in Nat
  <2>1. QueueTypes /\ StoreTypes /\ TurnTypes
      BY Typed DEF Bounds
  <2>2. lastRun \in Nat
      BY <2>1, Ranges DEF TurnTypes, Numbers
  <2> QED BY <2>1, <2>2 DEF QueueTypes, StoreTypes
<1>3. \A m \in Msgs : took[m] \in Nat
  <2>1. \A m \in Msgs : took[m] \in {0} \cup Runs
      BY <1>2
  <2>2. \A r \in Runs : r \in Nat
      BY Ranges DEF Numbers
  <2> QED BY <2>1, <2>2
<1>4. CASE StartRun
  <2>1. /\ lastRun' = lastRun + 1 /\ current' = lastRun + 1 /\ fresh' = inbox /\ wf' = "starting"
        /\ took' = [m \in Msgs |-> IF m \in Members(inbox) THEN lastRun' ELSE took[m]]
      BY <1>4 DEF StartRun
  <2> QED BY <1>1, <1>2, <1>3, <2>1
<1>5. CASE StartRunWrite
  <2>1. UNCHANGED <<took, lastRun, current, stored, fresh>> /\ wf = "starting" /\ left' = MaxTurns
        /\ (wf' = "looping" \/ (wf' = "finalizing" /\ outcome' = "failed"))
      BY <1>5 DEF StartRunWrite
  <2> QED BY <1>1, <2>1
<1>6. CASE BeginTurn
  <2>1. /\ UNCHANGED <<lastRun, current, stored>> /\ wf = "looping" /\ wf' = "turning" /\ fresh' = NewMessages
        /\ took' = [m \in Msgs |-> IF Interleaves /\ m \in Members(inbox) THEN current ELSE took[m]]
      BY <1>6 DEF BeginTurn
  <2>2. current = lastRun
      BY <1>1, <2>1 DEF Underway, Opened
  <2>3. Interleaves => Members(fresh') = Members(fresh) \cup Members(inbox)
    <3>1. Sorted(sent, fresh) /\ Sorted(sent, inbox) /\ Precede(sent, Members(fresh), Members(inbox))
        BY <2>1 DEF OrderInv, Queued
    <3> QED BY <1>2, <2>1, <3>1, QueuesJoin DEF NewMessages
  <2>4. ~Interleaves => fresh' = fresh
      BY <2>1 DEF NewMessages
  <2>5. ASSUME NEW m \in Msgs PROVE took'[m] <= lastRun'
      BY <1>1, <1>2, <2>1, <2>2
  <2>6. ASSUME NEW m \in Msgs, took'[m] = current' PROVE m \in Texts(stored') \cup Members(fresh')
      BY <1>1, <1>2, <2>1, <2>3, <2>4, <2>6
  <2> QED BY <2>1, <2>5, <2>6
<1>7. CASE LoopEnds
  <2>1. UNCHANGED <<took, lastRun, current, stored, fresh>> /\ wf = "looping" /\ wf' = "finalizing"
        /\ (left = 0 \/ outcome' = "cancelled")
      BY <1>7 DEF LoopEnds, LoopOver
  <2>2. Members(<<>>) = {}
      BY DEF Members
  <2> QED BY <1>1, <2>1, <2>2
<1>8. CASE TurnReturns
  <2>1. /\ UNCHANGED <<took, lastRun, current, stored>> /\ wf = "turning" /\ fresh' = <<>>
        /\ wf' \in {"grouping", "finalizing"}
      BY <1>8 DEF TurnReturns
  <2>2. answered[turn] # <<>>
      BY <1>1, <1>8, TakesAnswer DEF Answered, Accounts, Wrote
  <2>3. Members(fresh) \subseteq Texts(stored)
      BY <2>1, <2>2, AllStored
  <2> QED BY <1>1, <2>1, <2>3
<1>9. CASE TurnFails
    BY <1>1, <1>9 DEF TurnFails
<1>10. CASE TurnLost
    BY <1>1, <1>10 DEF TurnLost
<1>11. CASE GroupOver
  <2>1. UNCHANGED <<took, lastRun, current, stored, fresh>> /\ wf = "grouping" /\ wf' \in {"looping", "finalizing"}
      BY <1>11 DEF GroupOver
  <2>2. Members(<<>>) = {}
      BY DEF Members
  <2> QED BY <1>1, <2>1, <2>2
<1>12. CASE FinalizeRun
    BY <1>1, <1>12 DEF FinalizeRun
<1>13. CASE FinalizeWrite
    BY <1>1, <1>13 DEF FinalizeWrite
<1>14. CASE SeeCancel
  <2>1. UNCHANGED <<took, lastRun, current, stored, fresh>> /\ wf' \in {"finalizing", "recorded", "closed"}
        /\ (wf' = "finalizing" => outcome' \in {"failed", "cancelled"})
      BY <1>14 DEF SeeCancel
  <2> QED BY <1>1, <2>1
<1>15. CASE WakeCancelled \/ ApplyThreadCancellation \/ ApplyWrite
    BY <1>1, <1>15 DEF WakeCancelled, ApplyThreadCancellation, ApplyWrite
<1>16. CASE CancelSignal \/ CancelThread \/ ClientSweep \/ ClientWrite \/ UNCHANGED vars
    BY <1>1, <1>16 DEF CancelSignal, CancelThread, ClientSweep, ClientWrite, vars
<1>17. ASSUME NEW m \in Msgs, SendMessage(m) PROVE Kept'
  <2>1. UNCHANGED <<took, lastRun, stored, fresh, left, outcome>>
        /\ ((wf' = wf /\ current' = current) \/ wf' = "idle")
      BY <1>17 DEF SendMessage
  <2> QED BY <1>1, <2>1
<1>18. ASSUME NEW t \in Turns, NEW k \in Attempts, Attempt(t, k) PROVE Kept'
  <2>1. UNCHANGED <<wf, took, lastRun, current, fresh, left, outcome>>
      BY <1>18, AnyAttempt
  <2>2. Texts(stored) \subseteq Texts(stored')
      BY Grows
  <2> QED BY <1>1, <2>1, <2>2
<1> QED BY <1>4, <1>5, <1>6, <1>7, <1>8, <1>9, <1>10, <1>11, <1>12, <1>13, <1>14, <1>15, <1>16, <1>17, <1>18

\* A run that ended well has stored what it took.
LEMMA CompletedStep ==
  Bounds /\ ~astray' /\ TurnsInv /\ OrderInv /\ [Next]_vars => CompletedRunsStored'
<1> SUFFICES ASSUME Bounds, ~astray', TurnsInv, OrderInv, [Next]_vars PROVE CompletedRunsStored'
    OBVIOUS
<1> DEFINE Ended(r) == r.status \in {"idle", "exhausted"}
<1>1. /\ \A m \in Msgs : took[m] # 0 /\ Ended(runs[took[m]]) => m \in Texts(stored)
      /\ \A m \in Msgs : took[m] <= lastRun
    BY DEF OrderInv, CompletedRunsStored, Texts, Kept
<1>2. /\ took \in [Msgs -> {0} \cup Runs] /\ inbox \in Seq(Msgs) /\ lastRun \in Nat
      /\ runs \in [Runs -> [status : {"absent", "active"} \cup Finished, turns : Nat]]
  <2>1. QueueTypes /\ StoreTypes /\ TurnTypes
      BY Typed DEF Bounds
  <2>2. lastRun \in Nat
      BY <2>1, Ranges DEF TurnTypes, Numbers
  <2> QED BY <2>1, <2>2 DEF QueueTypes, StoreTypes
<1>3. \A m \in Msgs : took[m] \in Nat
  <2>1. \A m \in Msgs : took[m] \in {0} \cup Runs
      BY <1>2
  <2>2. \A r \in Runs : r \in Nat
      BY Ranges DEF Numbers
  <2> QED BY <2>1, <2>2
<1>4. Texts(stored) \subseteq Texts(stored')
    BY Grows
<1>5. SUFFICES ASSUME NEW m \in Msgs, took'[m] # 0, Ended(runs'[took'[m]])
               PROVE  m \in Texts(stored')
    BY DEF CompletedRunsStored, Texts
<1>6. ASSUME took'[m] = took[m], runs'[took[m]] = runs[took[m]] PROVE m \in Texts(stored')
    BY <1>1, <1>4, <1>5, <1>6
<1>7. CASE StartRun
  <2>1. lastRun + 1 \in Runs
      BY <1>7, RoomForRun DEF Bounds
  <2>2. runs' = [runs EXCEPT ![lastRun + 1].status = "active"]
        /\ took' = [n \in Msgs |-> IF n \in Members(inbox) THEN lastRun + 1 ELSE took[n]]
      BY <1>7 DEF StartRun, CreateRun
  <2>3. runs'[lastRun + 1].status = "active" /\ \A r \in Runs : r # lastRun + 1 => runs'[r] = runs[r]
      BY <1>2, <2>1, <2>2
  <2>4. took'[m] = took[m] /\ took[m] # lastRun + 1 /\ took[m] \in Runs
    <3>1. took'[m] # lastRun + 1
        BY <1>5, <2>3
    <3>2. took'[m] = took[m]
        BY <2>2, <3>1
    <3> QED BY <1>2, <1>5, <3>1, <3>2
  <2> QED BY <1>6, <2>3, <2>4
<1>8. CASE BeginTurn
  <2>1. /\ runs' = runs /\ runs[current].status = "active"
        /\ took' = [n \in Msgs |-> IF Interleaves /\ n \in Members(inbox) THEN current ELSE took[n]]
      BY <1>8 DEF BeginTurn, Bounds, Underway, Opened
  <2>2. took'[m] = took[m]
      BY <1>5, <2>1
  <2> QED BY <1>6, <2>1, <2>2
<1>9. CASE FinalizeRun
  <2>1. /\ took' = took /\ runs' = [runs EXCEPT ![current].status = RunStatus(outcome)] /\ wf = "finalizing"
        /\ stored' = stored
      BY <1>9 DEF FinalizeRun, FinishRun
  <2>2. took[m] \in Runs
      BY <1>2, <1>5, <2>1
  <2>3. CASE took[m] = current
    <3>1. runs'[current].status = RunStatus(outcome)
        BY <1>2, <2>1, <2>2, <2>3
    <3>2. outcome \in {"completed", "exhausted"}
      <4>1. outcome \in {"none", "completed", "exhausted", "failed", "cancelled"} /\ outcome # "none"
          BY <2>1, Typed DEF Bounds, FlowTypes, Underway
      <4>2. RunStatus(outcome) \in {"idle", "exhausted"}
          BY <1>5, <2>1, <2>3, <3>1
      <4> QED BY <4>1, <4>2 DEF RunStatus
    <3> QED BY <2>1, <2>3, <3>2 DEF OrderInv, Kept
  <2>4. CASE took[m] # current
    <3>1. runs'[took[m]] = runs[took[m]]
        BY <1>2, <2>1, <2>2, <2>4
    <3> QED BY <1>6, <2>1, <3>1
  <2> QED BY <2>3, <2>4
<1>10. ASSUME NEW t \in Turns, NEW k \in Attempts, CountRunTurn(t, k) PROVE m \in Texts(stored')
  <2>1. RunOf(t) \in {0} \cup Runs /\ took' = took
        /\ runs' = [runs EXCEPT ![RunOf(t)] = [status |-> "active", turns |-> act[t][k].turns + 1]]
    <3>1. RunOf(t) \in {0} \cup Runs
        BY Typed DEF Bounds, TurnTypes, RunOf
    <3> QED BY <1>10, <3>1 DEF CountRunTurn, UpdateRun
  <2>2. took[m] \in Runs
      BY <1>2, <1>5, <2>1
  <2>3. CASE took[m] = RunOf(t)
    <3>1. runs'[RunOf(t)].status = "active"
        BY <1>2, <2>1, <2>2, <2>3
    <3> QED BY <1>5, <2>1, <2>3, <3>1
  <2>4. CASE took[m] # RunOf(t)
    <3>1. runs'[took[m]] = runs[took[m]]
        BY <1>2, <2>1, <2>2, <2>4
    <3> QED BY <1>6, <2>1, <3>1
  <2> QED BY <2>3, <2>4
<1>11. CASE UNCHANGED <<runs, took>>
    BY <1>6, <1>11
<1> QED
  <2>1. StartRunWrite \/ TurnReturns \/ GroupOver \/ FinalizeWrite \/ ApplyThreadCancellation \/ ApplyWrite
        \/ ClientSweep \/ ClientWrite \/ SeeCancel => UNCHANGED runs
      BY DEF StartRunWrite, TurnReturns, GroupOver, FinalizeWrite, ApplyThreadCancellation, ApplyWrite, ClientSweep,
         ClientWrite, SeeCancel
  <2>2. ASSUME NEW t \in Turns, NEW k \in Attempts
        PROVE  /\ AppendInbound(t, k) \/ AppendAssistant(t, k) \/ CountThreadTurn(t, k) => UNCHANGED runs
               /\ AppendInbound(t, k) => UNCHANGED took
      BY DEF AppendInbound, AppendAssistant, CountThreadTurn
  <2>3. StartRunWrite \/ GroupOver => UNCHANGED took
      BY DEF StartRunWrite, GroupOver
  <2>4. ASSUME NEW n \in Msgs, SendMessage(n) PROVE UNCHANGED <<runs, took>>
      BY <2>4 DEF SendMessage
  <2>5. TurnReturns => UNCHANGED took
      BY DEF TurnReturns
  <2>6. \/ StartRun \/ BeginTurn \/ FinalizeRun \/ \E t \in Turns, k \in Attempts : CountRunTurn(t, k)
        \/ UNCHANGED runs
      BY <2>1, <2>2, Unchanged
  <2>7. StartRun \/ BeginTurn \/ UNCHANGED took
      BY <2>2, <2>3, <2>4, <2>5, SameQueues
  <2>8. CASE FinalizeRun
      BY <1>9, <2>8
  <2> QED BY <1>7, <1>8, <1>9, <1>10, <1>11, <2>6, <2>7

\* Every step keeps the order, and the initial state has it.
LEMMA OrderStep == Bounds /\ ~astray' /\ TurnsInv /\ OrderInv /\ [Next]_vars => OrderInv'
  BY QueuedStep, InOrderStep, DeliveringStep, KeptStep, CompletedStep DEF OrderInv

LEMMA OrderInit == Init => OrderInv
<1> SUFFICES ASSUME Init PROVE OrderInv
    OBVIOUS
<1>1. Texts(<<>>) = {} /\ Members(<<>>) = {}
    BY DEF Texts, Members
<1>2. stored = <<>> /\ inbox = <<>> /\ sent = <<>> /\ wf = "closed" /\ lastRun = 0 /\ \A m \in Msgs : took[m] = 0
    BY DEF Init
<1>3. Queued
    BY <1>1, <1>2 DEF Queued, Sorted, Precede, Reading
<1>4. InOrder /\ Delivering /\ Kept /\ CompletedRunsStored
    BY <1>2 DEF InOrder, Delivering, Kept, CompletedRunsStored, Reading
<1> QED BY <1>3, <1>4 DEF OrderInv

\* The transcript holds the messages sent to the thread, each once and in the order they
\* were sent: over the retries of a turn, each of which goes on after the messages an earlier
\* attempt stored, over runs that fail half way and inboxes taken between two turns.
THEOREM TranscriptInOrder == Spec => []StoredInOrder
<1> DEFINE Inv == Bounds /\ (~astray => TurnsInv /\ OrderInv)
<1>1. Init => Inv
    BY BoundsInit, TurnsInvInit, OrderInit
<1>2. Inv /\ [Next]_vars => Inv'
    BY BoundsStep, TurnsInvStep, OrderStep, StaysAstray
<1>3. Inv => StoredInOrder
    BY DEF OrderInv, InOrder, Before, StoredInOrder
<1> HIDE DEF Inv
<1> QED BY <1>1, <1>2, <1>3, PTL DEF Spec

-----------------------------------------------------------------------------
(* What the rows show.                                                     *)

\* The rows name the run at work, and so does what an attempt of it has read.
LEMMA ShownStep == Bounds /\ ~astray' /\ TurnsInv /\ ShownInv /\ [Next]_vars => Shown'
<1> SUFFICES ASSUME Bounds, ~astray', TurnsInv, ShownInv, [Next]_vars PROVE Shown'
    OBVIOUS
<1> DEFINE Free      == client \in {"off", "asked"}
           Works     == wf \in {"looping", "turning", "grouping"}
           Read(a)   == a.pc \in {"inbound", "resumed", "answered", "counted"}
<1>1. /\ Works /\ Free => Names(thread)
      /\ Free => \A t \in Turns, k \in Attempts : Read(act[t][k]) => Names(act[t][k].thread)
    BY DEF ShownInv, Shown, RunIsShown, Names
<1>2. \A t \in Turns, k \in Attempts : Read(act[t][k]) => wf = "turning" /\ t = turn /\ k = attempt
    BY DEF TurnsInv, OneAlive, Alive
<1>3. ASSUME Works' /\ Free' => Names(thread)',
             \A t \in Turns, k \in Attempts : Free' /\ Read(act'[t][k]) => Names(act[t][k].thread)'
      PROVE  Shown'
  <2> SUFFICES ASSUME Free' PROVE RunIsShown' /\ \A t \in Turns, k \in Attempts :
                 act'[t][k].pc \in {"inbound", "resumed", "answered", "counted"} => Names(act[t][k].thread)'
      BY DEF Shown, RunIsShown
  <2> QED BY <1>3 DEF RunIsShown, Names
<1>4. ASSUME UNCHANGED <<thread, current>>, Works' => Works, Free' => Free, NEW t \in Turns, NEW k \in Attempts,
             OnlyOne(t, k), ~Read(act'[t][k])
      PROVE  Shown'
  <2>1. \A u \in Turns, j \in Attempts : Read(act'[u][j]) => act'[u][j] = act[u][j] /\ Read(act[u][j])
      BY <1>4 DEF OnlyOne, Becomes
  <2> QED BY <1>1, <1>3, <1>4, <2>1 DEF Names
<1>5. ASSUME UNCHANGED act, wf # "turning", Works' /\ Free' => Names(thread)' PROVE Shown'
    BY <1>2, <1>3, <1>5
<1>6. ASSUME UNCHANGED <<thread, current, act>>, Works' => Works, Free' => Free PROVE Shown'
    BY <1>1, <1>3, <1>6 DEF Names
<1>7. CASE StartRunWrite
  <2>1. row["workflow"] \in Rows
      BY Typed DEF Bounds, TurnTypes
  <2>2. /\ thread' = [row["workflow"] EXCEPT !.status = "active", !.active = current]
        /\ UNCHANGED <<act, current>> /\ wf = "starting"
      BY <1>7 DEF StartRunWrite, WriteThread
  <2>3. Names(thread)'
      BY <2>1, <2>2 DEF Rows, Names
  <2> QED BY <1>5, <2>2, <2>3
<1>8. CASE BeginTurn
  <2>1. UNCHANGED <<thread, current, client>> /\ wf = "looping"
      BY <1>8 DEF BeginTurn
  <2> QED BY <1>4, <1>8, <2>1, BeginsTurn
<1>9. CASE TurnReturns
  <2>1. UNCHANGED <<thread, current, client>> /\ wf = "turning"
      BY <1>9 DEF TurnReturns
  <2> QED BY <1>4, <1>9, <2>1, TakesAnswer
<1>10. CASE TurnLost
  <2>1. UNCHANGED <<thread, current, client>> /\ wf = "turning" /\ turn \in Turns /\ attempt \in Attempts
      BY <1>10, LosesTurn DEF TurnLost
  <2>2. act'[turn][attempt].pc = "dead"
      BY <1>10, LosesTurn DEF GivenUp, Spent, Asleep
  <2>3. CASE OnlyOne(turn, attempt)
      BY <1>4, <2>1, <2>2, <2>3
  <2>4. CASE ~OnlyOne(turn, attempt)
    <3>1. /\ act'[turn][attempt + 1].pc = "started"
          /\ \A t \in Turns, k \in Attempts :
               t # turn \/ (k # attempt /\ k # attempt + 1) => act'[t][k] = act[t][k]
        BY <1>10, <2>4, LosesTurn
    <3>2. \A t \in Turns, k \in Attempts : Read(act'[t][k]) => act'[t][k] = act[t][k]
        BY <2>2, <3>1
    <3> QED BY <1>1, <1>3, <2>1, <3>2 DEF Names
  <2> QED BY <2>3, <2>4
<1>11. CASE SeeCancel
  <2>1. UNCHANGED <<thread, current, client>> /\ wf' \in {"finalizing", "recorded", "closed"}
      BY <1>11 DEF SeeCancel
  <2>2. CASE wf = "turning"
    <3>1. act'[turn][attempt].pc = "dead" /\ OnlyOne(turn, attempt) /\ turn \in Turns /\ attempt \in Attempts
        BY <1>11, <2>2, SeesCancel DEF GivenUp, Spent, Asleep
    <3> QED BY <1>4, <2>1, <3>1
  <2>3. CASE wf # "turning"
      BY <1>5, <1>11, <2>1, <2>3, SeesCancel
  <2> QED BY <2>2, <2>3
<1>12. ASSUME NEW t \in Turns, NEW k \in Attempts, Attempt(t, k) PROVE Shown'
  <2>1. OnlyOne(t, k) /\ UNCHANGED <<current, client, wf, turn, attempt>> /\ wf = "turning"
      BY <1>12, AnyAttempt DEF TurnsInv, OneAlive, Alive
  <2>2. ASSUME Free' => Names(thread)', Read(act'[t][k]) /\ Free' => Names(act[t][k].thread)'
        PROVE  Shown'
    <3>1. \A u \in Turns, j \in Attempts : ~(u = t /\ j = k) => act'[u][j] = act[u][j]
        BY <2>1 DEF OnlyOne, Becomes
    <3> QED BY <1>1, <1>3, <2>1, <2>2, <3>1 DEF Names
  <2>3. Free /\ Read(act[t][k]) => Names(act[t][k].thread)
      BY <1>1
  <2>4. CASE RunTurn(t, k)
    <3>1. act'[t][k].thread = thread
        BY <2>4, BeginsAttempt
    <3>2. thread' = thread
        BY <2>4 DEF RunTurn
    <3> QED BY <1>1, <2>1, <2>2, <3>1, <3>2 DEF Names
  <2>5. CASE CountThreadTurn(t, k)
    <3>1. /\ thread' = [act[t][k].thread EXCEPT !.turns = @ + 1] /\ Step(t, k, "counted")
          /\ act[t][k].pc \in {"answered", "resumed"}
        BY <2>5 DEF CountThreadTurn, WriteThread, At
    <3>2. Keeps(act[t][k], act'[t][k])
        BY <3>1, GoesOn DEF Statuses
    <3>3. act[t][k].thread \in Rows
        BY Typed DEF Bounds, AttemptStates, AttemptState
    <3>4. thread'.status = act[t][k].thread.status /\ thread'.active = act[t][k].thread.active
        BY <3>1, <3>3 DEF Rows
    <3>5. Free => Names(act[t][k].thread)
        BY <2>3, <3>1
    <3> QED BY <2>1, <2>2, <3>2, <3>4, <3>5 DEF Names, Keeps
  <2>6. CASE TurnError(t, k)
    <3>1. act'[t][k].pc = "error" /\ thread' = thread
        BY <2>6, FailsAttempt DEF TurnError
    <3> QED BY <1>4, <2>1, <3>1
  <2>7. CASE AppendInbound(t, k)
    <3>1. Keeps(act[t][k], act'[t][k]) /\ Read(act[t][k]) /\ thread' = thread
        BY <2>7, StoresMessage DEF AppendInbound
    <3> QED BY <1>1, <2>1, <2>2, <2>3, <3>1 DEF Names, Keeps
  <2>8. CASE AppendAssistant(t, k) \/ CountRunTurn(t, k) \/ CountedBefore(t, k)
    <3>1. (Step(t, k, "answered") \/ Step(t, k, "done")) /\ Read(act[t][k]) /\ thread' = thread
        BY <2>8 DEF AppendAssistant, CountRunTurn, CountedBefore, At
    <3>2. Keeps(act[t][k], act'[t][k])
        BY <3>1, GoesOn DEF Statuses
    <3> QED BY <1>1, <2>1, <2>2, <2>3, <3>1, <3>2 DEF Names, Keeps
  <2> QED BY <1>12, <2>4, <2>5, <2>6, <2>7, <2>8
<1>13. CASE StartRun
    BY <1>5, <1>13 DEF StartRun
<1>14. CASE LoopEnds \/ TurnFails \/ GroupOver
    BY <1>6, <1>14 DEF LoopEnds, TurnFails, GroupOver
<1>15. CASE FinalizeRun \/ FinalizeWrite \/ WakeCancelled \/ ApplyThreadCancellation \/ ApplyWrite
  <2>1. UNCHANGED act /\ wf \in {"finalizing", "finalized", "idle", "recorded", "sweeping"}
        /\ wf' \in {"finalized", "recorded", "closed", "idle", "sweeping"}
      BY <1>15 DEF FinalizeRun, FinalizeWrite, WakeCancelled, ApplyThreadCancellation, ApplyWrite
  <2> QED BY <1>5, <2>1
<1>16. CASE CancelSignal \/ CancelThread \/ UNCHANGED vars
    BY <1>6, <1>16 DEF CancelSignal, CancelThread, vars
<1>17. CASE ClientSweep \/ ClientWrite
  <2>1. ~Free'
      BY <1>17 DEF ClientSweep, ClientWrite
  <2> QED BY <1>3, <2>1
<1>18. ASSUME NEW m \in Msgs, SendMessage(m) PROVE Shown'
  <2>1. UNCHANGED <<thread, act, client>>
        /\ ((wf = "closed" /\ wf' = "idle") \/ (wf' = wf /\ current' = current))
      BY <1>18 DEF SendMessage
  <2> QED BY <1>5, <1>6, <2>1
<1> QED BY <1>7, <1>8, <1>9, <1>10, <1>11, <1>12, <1>13, <1>14, <1>15, <1>16, <1>17, <1>18

\* A cancel that was seen where the workflow waited is recorded, or about to be.
LEMMA RecordedStep ==
  Bounds /\ ~astray' /\ TurnsInv /\ ShownInv /\ [Next]_vars => Recorded' /\ CancelRecorded'
<1> SUFFICES ASSUME Bounds, ~astray', TurnsInv, ShownInv, [Next]_vars PROVE Recorded' /\ CancelRecorded'
    OBVIOUS
<1>1. Recorded /\ seen \in {"nowhere", "idle", "starting", "turning", "grouping", "telling", "finalizing", "finalized"}
    BY Typed DEF ShownInv, Bounds, FlowTypes
<1> SUFFICES Recorded'
    BY DEF Recorded, CancelRecorded
<1> DEFINE Waits == seen \in {"idle", "grouping"}
           Shows == thread.status = "cancelled" /\ thread.active = 0
<1>2. /\ client = "off" => ~cancelReq /\ ~Waits
      /\ Waits => /\ ~cancelReq
                  /\ \/ recording /\ wf \in {"finalizing", "finalized", "recorded", "sweeping"}
                     \/ wf = "closed" /\ Shows
    BY <1>1 DEF Recorded
<1> USE DEF Recorded
<1>3. CASE StartRun \/ StartRunWrite \/ BeginTurn \/ LoopEnds \/ TurnReturns \/ TurnFails \/ GroupOver
    BY <1>1, <1>3 DEF StartRun, StartRunWrite, BeginTurn, LoopEnds, TurnReturns, TurnFails, GroupOver
<1>4. CASE TurnLost \/ WakeCancelled
  <2>1. UNCHANGED <<cancelReq, seen, client, thread, recording>> /\ wf \in {"turning", "idle"}
      BY <1>4 DEF TurnLost, WakeCancelled
  <2> QED BY <1>1, <2>1
<1>5. CASE FinalizeRun
    BY <1>1, <1>5 DEF FinalizeRun
<1>6. CASE FinalizeWrite
  <2>1. UNCHANGED <<cancelReq, seen, client, recording>> /\ wf = "finalized" /\ (recording => wf' = "recorded")
      BY <1>6 DEF FinalizeWrite
  <2> QED BY <1>1, <2>1
<1>7. CASE ApplyThreadCancellation
    BY <1>1, <1>7 DEF ApplyThreadCancellation
<1>8. ASSUME NEW p \in {"workflow", "client"}
      PROVE  SweptRow(p).status = "cancelled" /\ SweptRow(p).active = 0
  <2>1. row[p] \in Rows
      BY Typed DEF Bounds, TurnTypes
  <2> QED BY <2>1 DEF SweptRow, Rows
<1>9. CASE ApplyWrite
  <2>1. UNCHANGED <<cancelReq, seen, client>> /\ wf = "sweeping" /\ wf' = "closed" /\ thread' = SweptRow("workflow")
      BY <1>9 DEF ApplyWrite, WriteThread
  <2> QED BY <1>1, <1>8, <2>1
<1>10. CASE SeeCancel
  <2>1. /\ cancelReq /\ ~cancelReq' /\ UNCHANGED client
        /\ seen' \in {"idle", "grouping"} => recording' /\ wf' \in {"finalizing", "recorded"}
      BY <1>10 DEF SeeCancel
  <2> QED BY <1>1, <2>1
<1>11. CASE CancelSignal \/ UNCHANGED vars
    BY <1>1, <1>11 DEF CancelSignal, vars
<1>12. CASE CancelThread
    BY <1>1, <1>12 DEF CancelThread
<1>13. CASE ClientSweep
    BY <1>1, <1>13 DEF ClientSweep
<1>14. CASE ClientWrite
  <2>1. UNCHANGED <<cancelReq, seen, wf, recording>> /\ client' = "done" /\ thread' = SweptRow("client")
      BY <1>14 DEF ClientWrite, WriteThread
  <2> QED BY <1>1, <1>8, <2>1
<1>15. ASSUME NEW m \in Msgs, SendMessage(m) PROVE Recorded'
  <2>1. seen' = "nowhere" /\ client' = client /\ (cancelReq' = cancelReq \/ ~cancelReq')
      BY <1>15 DEF SendMessage
  <2> QED BY <1>1, <2>1
<1>16. ASSUME NEW t \in Turns, NEW k \in Attempts, Attempt(t, k) PROVE Recorded'
  <2>1. UNCHANGED <<cancelReq, seen, client>> /\ wf = "turning"
      BY <1>16, AnyAttempt DEF TurnsInv, OneAlive, Alive
  <2> QED BY <1>1, <2>1
<1> QED BY <1>3, <1>4, <1>5, <1>6, <1>7, <1>9, <1>10, <1>11, <1>12, <1>13, <1>14, <1>15, <1>16

\* Every step keeps what the rows show, and the initial state has it.
LEMMA ShownInvStep == Bounds /\ ~astray' /\ TurnsInv /\ ShownInv /\ [Next]_vars => ShownInv'
  BY ShownStep, RecordedStep DEF ShownInv

LEMMA ShownInit == Init => ShownInv
  BY DEF Init, ShownInv, Shown, RunIsShown, Recorded, CancelRecorded, Asleep

\* A reader of the thread's row sees the run that is at work, and after a cancel the workflow
\* saw while its tools ran or its inbox waited sees the thread cancelled, whatever attempts,
\* messages and the client's own write come between.
THEOREM RowsTell == Spec => []RowsShow
<1> DEFINE Inv == Bounds /\ (~astray => TurnsInv /\ ShownInv)
<1>1. Init => Inv
    BY BoundsInit, TurnsInvInit, ShownInit
<1>2. Inv /\ [Next]_vars => Inv'
    BY BoundsStep, TurnsInvStep, ShownInvStep, StaysAstray
<1>3. Inv => RowsShow
    BY DEF ShownInv, Shown, RowsShow
<1> HIDE DEF Inv
<1> QED BY <1>1, <1>2, <1>3, PTL DEF Spec

-----------------------------------------------------------------------------
(* Rest, and turn numbers.                                                 *)

\* A turn's answer is the one its attempt returned or returns.
LEMMA ItsReply ==
  ASSUME Bounds, TurnsInv, TurnReturns \/ wf = "grouping", NEW k, answered[turn] = <<k>>
  PROVE  Reply = k
<1>1. turn \in Turns /\ attempt \in Attempts /\ act[turn][attempt].pc \in Wrote
  <2>1. CASE TurnReturns
      BY <2>1, TakesAnswer DEF Wrote
  <2>2. CASE wf = "grouping"
      BY <2>2, Typed DEF Bounds, Underway, TurnTypes, TurnsInv, Grouped, Wrote
  <2> QED BY <2>1, <2>2
<1>2. answered[turn] = <<Reply>>
    BY <1>1 DEF TurnsInv, Answered, Accounts, Reply
<1> QED BY <1>2

\* Telling a group tells its calls, and opens none.
LEMMA GroupIsTold ==
  ASSUME Bounds, TurnsInv, wf = "grouping", GroupTold \/ UNCHANGED calls,
         NEW t \in Turns, NEW k \in Attempts, calls'[t][k] = "open"
  PROVE  calls[t][k] = "open" /\ (GroupTold => ~(t = turn /\ answered[turn] = <<k>>))
<1>1. calls \in [Turns -> [Attempts -> {"none", "open", "told"}]]
    BY Typed DEF Bounds, StoreTypes
<1> DEFINE c == Reply
<1>2. answered[turn] = <<k>> => c = k
    BY ItsReply
<1> HIDE DEF c
<1>3. GroupTold => calls' = [calls EXCEPT ![turn][c] = "told"]
    BY DEF GroupTold, c
<1>4. calls[t][k] = "open"
    BY <1>1, <1>3
<1> QED BY <1>1, <1>2, <1>3, <1>4

\* Calls are answered before their run is over.
LEMMA OpenStep == Bounds /\ ~astray' /\ TurnsInv /\ Open /\ [Next]_vars => Open'
<1> SUFFICES ASSUME Bounds, ~astray', TurnsInv, Open, [Next]_vars PROVE Open'
    OBVIOUS
<1>1. /\ calls \in [Turns -> [Attempts -> {"none", "open", "told"}]] /\ answered \in [Turns -> Seq(Attempts)]
      /\ turn \in Nat /\ Turns \subseteq Nat
      /\ payload \in [Turns -> [run : {0} \cup Runs, index : Nat, msgs : Seq(Msgs)]]
  <2>1. StoreTypes /\ TurnTypes
      BY Typed DEF Bounds
  <2>2. turn \in Nat /\ Turns \subseteq Nat
      BY <2>1, Ranges DEF TurnTypes, Numbers
  <2> QED BY <2>1, <2>2 DEF StoreTypes, TurnTypes
<1>15. UNCHANGED cut \/ (SeeCancel /\ cut \subseteq cut')
    BY Remembers DEF SeeCancel
<1>16. cut \subseteq cut'
    BY <1>15
<1> USE DEF Open, Repairs
<1>2. ASSUME UNCHANGED <<turn, payload>>,
             \A t \in Turns, k \in Attempts : calls'[t][k] = "open" => calls[t][k] = "open" /\ RunOf(t) \in cut'
      PROVE  Open'
    BY <1>2 DEF RunOf
<1>3. ASSUME wf \notin {"turning", "grouping", "finalizing"}, UNCHANGED <<calls, turn, payload>> PROVE Open'
    BY <1>2, <1>3, <1>16
<1>4. ASSUME UNCHANGED <<answered, turn, payload, current>>, wf \in {"turning", "grouping"},
             \A t \in Turns, k \in Attempts : calls'[t][k] = "open" => calls[t][k] = "open",
             wf' \in {"turning", "grouping"} \/ (wf' = "finalizing" /\ outcome' \in {"failed", "cancelled"})
      PROVE  Open'
    BY <1>4, <1>16 DEF RunOf
<1>5. CASE StartRun \/ StartRunWrite \/ LoopEnds \/ FinalizeWrite \/ WakeCancelled \/ ApplyWrite
    BY <1>3, <1>5 DEF StartRun, StartRunWrite, LoopEnds, FinalizeWrite, WakeCancelled, ApplyWrite
<1>13. CASE BeginTurn
  <2>1. wf = "looping" /\ calls' = calls /\ turn' = turn + 1
        /\ payload' = [payload EXCEPT ![turn + 1] = [run |-> current, index |-> count + 1, msgs |-> NewMessages]]
      BY <1>13 DEF BeginTurn
  <2> SUFFICES ASSUME NEW t \in Turns, NEW k \in Attempts, calls[t][k] = "open"
               PROVE  t <= turn' /\ RunOf(t)' \in cut'
      BY <2>1
  <2>2. t <= turn /\ RunOf(t) \in cut
      BY <2>1
  <2>3. t # turn + 1 /\ t <= turn + 1
      BY <1>1, <2>2
  <2>4. payload'[t] = payload[t]
      BY <1>1, <2>1, <2>3
  <2> QED BY <1>16, <2>1, <2>2, <2>3, <2>4 DEF RunOf
<1>6. CASE TurnFails \/ TurnLost
    BY <1>4, <1>6 DEF TurnFails, TurnLost
<1>7. CASE TurnReturns
  <2>1. /\ UNCHANGED <<calls, answered, turn, payload, current>> /\ wf = "turning"
        /\ IF calls[turn][Reply] # "none" THEN wf' = "grouping" ELSE wf' = "finalizing"
      BY <1>7 DEF TurnReturns
  <2>2. CASE wf' = "grouping"
      BY <1>4, <2>1, <2>2
  <2>3. CASE calls[turn][Reply] = "none"
    <3> SUFFICES ASSUME NEW t \in Turns, NEW k \in Attempts, calls[t][k] = "open", RunOf(t) \notin cut
                 PROVE  FALSE
        BY <1>2, <1>16, <2>1
    <3>1. t = turn /\ answered[turn] = <<k>>
        OBVIOUS
    <3>2. Reply = k
        BY <1>7, <3>1, ItsReply
    <3> QED BY <2>3, <3>1, <3>2
  <2> QED BY <2>1, <2>2, <2>3
<1>8. CASE GroupOver \/ (SeeCancel /\ wf = "grouping")
  <2>1. wf = "grouping" /\ UNCHANGED <<answered, turn, payload, current>> /\ (GroupTold \/ UNCHANGED calls)
        /\ (GroupTold \/ (wf' = "finalizing" /\ outcome' \in {"failed", "cancelled"}))
    <3>1. CASE GroupOver
        BY <3>1 DEF GroupOver
    <3>2. CASE SeeCancel /\ wf = "grouping"
      <4>1. current # 0
        <5>1. lastRun # 0 /\ current = lastRun
            BY <3>2 DEF Bounds, Underway, Opened
        <5> QED BY <5>1
      <4> QED BY <3>2, <4>1 DEF SeeCancel
    <3> QED BY <1>8, <3>1, <3>2
  <2>2. CASE wf' = "finalizing" /\ outcome' \in {"failed", "cancelled"}
      BY <1>4, <2>1, <2>2, GroupIsTold
  <2>3. CASE GroupTold
    <3> SUFFICES ASSUME NEW t \in Turns, NEW k \in Attempts, calls'[t][k] = "open"
                 PROVE  calls[t][k] = "open" /\ RunOf(t) \in cut
        BY <1>2, <1>16, <2>1
    <3>1. calls[t][k] = "open" /\ ~(t = turn /\ answered[turn] = <<k>>)
        BY <2>1, <2>3, GroupIsTold
    <3> QED BY <3>1
  <2> QED BY <2>1, <2>2, <2>3
<1>9. CASE FinalizeRun
  <2>1. /\ wf = "finalizing" /\ UNCHANGED <<turn, payload>>
        /\ calls' = [t \in Turns |-> [k \in Attempts |->
             IF Repairs /\ RunOf(t) = current THEN Told(calls[t][k]) ELSE calls[t][k]]]
      BY <1>9 DEF FinalizeRun
  <2> SUFFICES ASSUME NEW t \in Turns, NEW k \in Attempts, calls'[t][k] = "open"
               PROVE  calls[t][k] = "open" /\ RunOf(t) \in cut
      BY <1>2, <1>16, <2>1
  <2>2. calls'[t][k] = IF Repairs /\ RunOf(t) = current THEN Told(calls[t][k]) ELSE calls[t][k]
      BY <2>1
  <2>3. calls[t][k] = "open"
      BY <2>2 DEF Told
  <2> QED BY <2>1, <2>2, <2>3 DEF Told
<1>10. ASSUME NEW t \in Turns, NEW k \in Attempts, Attempt(t, k) PROVE Open'
  <2>1. wf = "turning" /\ t = turn /\ k = attempt /\ UNCHANGED <<wf, turn, payload, current, cut>>
    <3> USE DEF flow, position
    <3> QED BY <1>10, AnyAttempt DEF TurnsInv, OneAlive, Alive
  <2>2. CASE AppendAssistant(t, k)
    <3>1. /\ answered[t] = <<>> /\ answered' = [answered EXCEPT ![t] = Append(@, k)]
          /\ (calls' = calls \/ calls' = [calls EXCEPT ![t][k] = "open"])
        BY <2>2 DEF AppendAssistant, At, TurnsInv, Answered, Accounts
    <3>2. answered'[t] = <<k>>
        BY <1>1, <3>1
    <3>3. RunOf(t) = current /\ RunOf(t)' = RunOf(t)
        BY <2>1 DEF Bounds, Underway, RunOf
    <3>4. ASSUME NEW u \in Turns, NEW j \in Attempts, calls'[u][j] = "open"
          PROVE  (u = t /\ j = k) \/ (u <= turn /\ RunOf(u) \in cut)
      <4>1. calls[u][j] = "open" \/ (u = t /\ j = k)
          BY <1>1, <3>1, <3>4
      <4>2. calls[u][j] = "open" => u <= turn /\ (RunOf(u) \in cut \/ (u = t /\ answered[t] = <<j>>))
          BY <2>1
      <4>3. <<j>> # <<>>
          OBVIOUS
      <4> QED BY <3>1, <4>1, <4>2, <4>3
    <3>5. t <= turn
        BY <1>1, <2>1
    <3> QED BY <2>1, <3>2, <3>3, <3>4, <3>5 DEF RunOf
  <2>3. CASE ~AppendAssistant(t, k)
    <3>1. UNCHANGED <<calls, answered>>
        BY <1>10, <2>3 DEF RunTurn, AppendInbound, TurnError, CountThreadTurn, CountRunTurn, CountedBefore
    <3> QED BY <1>4, <2>1, <3>1
  <2> QED BY <2>2, <2>3
<1>11. ASSUME NEW m \in Msgs, SendMessage(m) PROVE Open'
  <2>1. UNCHANGED <<calls, answered, turn, payload, outcome, cut>>
        /\ (wf = "closed" \/ (wf' = wf /\ current' = current))
      BY <1>11 DEF SendMessage
  <2>2. CASE wf = "closed"
      BY <1>3, <2>1, <2>2
  <2>3. CASE wf' = wf /\ current' = current
      BY <2>1, <2>3 DEF RunOf
  <2> QED BY <2>1, <2>2, <2>3
<1>12. CASE CancelSignal \/ CancelThread \/ ClientWrite \/ UNCHANGED vars
  <2>1. UNCHANGED <<calls, answered, turn, payload, outcome, cut, wf, current>>
      BY <1>12 DEF CancelSignal, CancelThread, ClientWrite, vars
  <2> QED BY <2>1 DEF RunOf
<1>14. CASE ApplyThreadCancellation \/ ClientSweep
  <2>1. SweepCalls
      BY <1>14 DEF ApplyThreadCancellation, ClientSweep
  <2>2. \A t \in Turns, k \in Attempts : calls'[t][k] # "open"
      BY <1>1, <2>1 DEF SweepCalls, Told
  <2> QED BY <2>2
<1>17. CASE SeeCancel /\ wf # "grouping"
  <2>1. UNCHANGED <<calls, answered, turn, payload, current>>
      BY <1>17 DEF SeeCancel
  <2>2. CASE wf = "turning"
      BY <1>4, <1>17, <2>1, <2>2 DEF SeeCancel
  <2>3. CASE wf = "finalizing"
    <3>1. cut' = cut \cup {current}
        BY <1>17, <2>3 DEF SeeCancel
    <3> QED BY <1>2, <2>1, <2>3, <3>1
  <2>4. CASE wf \notin {"turning", "finalizing"}
      BY <1>3, <1>17, <2>1, <2>4
  <2> QED BY <2>2, <2>3, <2>4
<1> QED
  <2> HIDE DEF Attempt, Open, SeeCancel
  <2> QED BY <1>5, <1>6, <1>7, <1>8, <1>9, <1>10, <1>11, <1>12, <1>13, <1>14, <1>17

\* Between runs no row names a run that ended, and no run is open.
LEMMA RestingStep == Bounds /\ ~astray' /\ TurnsInv /\ Resting /\ [Next]_vars => Resting'
<1> SUFFICES ASSUME Bounds, ~astray', TurnsInv, Resting, [Next]_vars PROVE Resting'
    OBVIOUS
<1>1. /\ runs \in [Runs -> [status : {"absent", "active"} \cup Finished, turns : Nat]]
      /\ row["workflow"] \in Rows /\ row["client"] \in Rows /\ thread \in Rows /\ Underway
      /\ act \in AttemptStates
    BY Typed DEF Bounds, StoreTypes, TurnTypes
<1>2. UNCHANGED cut \/ (SeeCancel /\ cut \subseteq cut')
    BY Remembers DEF SeeCancel
<1> USE DEF Opened
<1> DEFINE Read == {"inbound", "resumed", "answered"}
           Open_(r) == r \in cut \/ (wf \in Opened /\ r = current)
<1>3. /\ Fits(thread)
      /\ \A t \in Turns, k \in Attempts : act[t][k].pc \in Read => Fits(act[t][k].thread)
      /\ \A r \in Runs : runs[r].status = "active" => Open_(r)
    BY DEF Resting
<1>4. ASSUME Named(wf, current) \subseteq Named(wf, current)',
             thread' = thread \/ (thread'.active \in Named(wf, current)' /\ (thread'.status = "active" => thread'.active # 0)),
             \A t \in Turns, k \in Attempts :
               act'[t][k].pc \in Read =>
                 \/ act'[t][k].thread = thread
                 \/ act[t][k].pc \in Read /\ act'[t][k].thread = act[t][k].thread,
             \A r \in Runs : runs'[r].status = "active" =>
               \/ wf' \in Opened /\ r = current'
               \/ r \in cut'
      PROVE  Resting'
  <2>1. \A x : Fits(x) => x.active \in Named(wf, current)' /\ (x.status = "active" => x.active # 0)
      BY <1>4 DEF Fits
  <2>2. Fits(thread)'
      BY <1>3, <1>4, <2>1 DEF Fits
  <2>3. ASSUME NEW t \in Turns, NEW k \in Attempts, act'[t][k].pc \in Read PROVE Fits(act[t][k].thread)'
      BY <1>3, <1>4, <2>1, <2>3 DEF Fits
  <2> QED BY <1>4, <2>2, <2>3 DEF Resting
<1>5. ASSUME UNCHANGED <<thread, act, runs>>, Named(wf, current) \subseteq Named(wf, current)', cut \subseteq cut',
             \A r : Open_(r) => r \in cut' \/ (wf' \in Opened /\ r = current')
      PROVE  Resting'
    BY <1>3, <1>4, <1>5
<1>6. ASSUME UNCHANGED <<act, runs, cut>>, thread'.active = 0, thread'.status # "active",
             \/ wf' = wf /\ current' = current
             \/ wf = "sweeping" /\ wf' = "closed"
      PROVE  Resting'
  <2>1. Named(wf, current) = Named(wf, current)' /\ 0 \in Named(wf, current)'
      BY <1>6 DEF Named
  <2> QED BY <1>3, <1>4, <1>6, <2>1
<1>7. CASE StartRun
  <2>1. /\ wf = "idle" /\ wf' = "starting" /\ current' = lastRun' /\ UNCHANGED <<thread, act, cut>>
        /\ runs' = [runs EXCEPT ![lastRun'].status = "active"]
      BY <1>7 DEF StartRun, CreateRun
  <2>2. Named(wf, current) \subseteq Named(wf, current)'
      BY <2>1 DEF Named
  <2>3. \A r \in Runs : runs'[r].status = "active" => r \in cut' \/ r = current'
      BY <1>1, <1>3, <2>1
  <2> QED BY <1>3, <1>4, <2>1, <2>2, <2>3
<1>8. CASE StartRunWrite
  <2>1. /\ thread' = [row["workflow"] EXCEPT !.status = "active", !.active = current]
        /\ UNCHANGED <<act, runs, cut, current>> /\ wf = "starting" /\ wf' \in {"looping", "finalizing"}
      BY <1>8 DEF StartRunWrite, WriteThread
  <2>2. thread'.active = current /\ current # 0
    <3>1. current = lastRun /\ lastRun # 0
        BY <1>1, <2>1 DEF Underway
    <3> QED BY <1>1, <2>1, <3>1 DEF Rows
  <2>3. Named(wf, current) = Named(wf, current)' /\ current \in Named(wf, current)'
      BY <2>1 DEF Named
  <2> QED BY <1>3, <1>4, <2>1, <2>2, <2>3
<1>9. CASE LoopEnds \/ TurnFails \/ GroupOver
  <2>1. UNCHANGED <<thread, act, runs, cut, current>> /\ wf \in Opened /\ wf' \in Opened
      BY <1>9 DEF LoopEnds, TurnFails, GroupOver
  <2>2. Named(wf, current) = Named(wf, current)'
      BY <2>1 DEF Named
  <2> QED BY <1>5, <2>1, <2>2
<1>10. ASSUME UNCHANGED <<thread, runs, cut, current>>, wf \in Opened, wf' \in Opened,
              \A t \in Turns, k \in Attempts : act'[t][k].pc \in Read => act'[t][k] = act[t][k]
       PROVE  Resting'
  <2>1. Named(wf, current) = Named(wf, current)'
      BY <1>10 DEF Named
  <2> QED BY <1>3, <1>4, <1>10, <2>1
<1>11. CASE BeginTurn
  <2>1. UNCHANGED <<thread, runs, cut, current>> /\ wf = "looping" /\ wf' = "turning"
      BY <1>11 DEF BeginTurn
  <2>2. \A t \in Turns, k \in Attempts : act'[t][k].pc \in Read => act'[t][k] = act[t][k]
      BY <1>11, BeginsTurn DEF OnlyOne, Becomes
  <2> QED BY <1>10, <2>1, <2>2
<1>12. CASE TurnReturns
  <2>1. UNCHANGED <<thread, runs, cut, current>> /\ wf = "turning" /\ wf' \in {"grouping", "finalizing"}
      BY <1>12 DEF TurnReturns
  <2>2. \A t \in Turns, k \in Attempts : act'[t][k].pc \in Read => act'[t][k] = act[t][k]
      BY <1>12, TakesAnswer DEF OnlyOne, Becomes
  <2> QED BY <1>10, <2>1, <2>2
<1>13. CASE TurnLost
  <2>1. UNCHANGED <<thread, runs, cut, current>> /\ wf = "turning" /\ wf' \in {"turning", "finalizing"}
      BY <1>13 DEF TurnLost
  <2>2. act'[turn][attempt].pc = "dead"
      BY <1>13, LosesTurn DEF Spent, Asleep
  <2>3. \A t \in Turns, k \in Attempts : act'[t][k].pc \in Read => act'[t][k] = act[t][k]
      BY <1>13, <2>2, LosesTurn DEF OnlyOne, Becomes
  <2> QED BY <1>10, <2>1, <2>3
<1>14. CASE FinalizeRun
  <2>1. /\ wf = "finalizing" /\ wf' = "finalized" /\ UNCHANGED <<thread, act, cut, current>>
        /\ runs' = [runs EXCEPT ![current].status = RunStatus(outcome)]
      BY <1>14 DEF FinalizeRun, FinishRun
  <2>2. RunStatus(outcome) # "active"
    <3>1. outcome \in {"none", "completed", "exhausted", "failed", "cancelled"}
        BY Typed DEF Bounds, FlowTypes
    <3> QED BY <3>1 DEF RunStatus
  <2>3. \A r \in Runs : runs'[r].status = "active" => r # current /\ runs[r].status = "active"
      BY <1>1, <2>1, <2>2
  <2>4. Named(wf, current) = Named(wf, current)'
      BY <2>1 DEF Named
  <2>5. \A r \in Runs : runs'[r].status = "active" => r \in cut'
      BY <1>3, <2>1, <2>3
  <2> QED BY <1>3, <1>4, <2>1, <2>4, <2>5
<1>15. CASE FinalizeWrite
  <2>1. /\ thread' = [row["workflow"] EXCEPT !.active = 0, !.status = ThreadStatus(outcome)]
        /\ UNCHANGED <<act, runs, cut>> /\ wf = "finalized"
      BY <1>15 DEF FinalizeWrite, WriteThread
  <2>2. thread'.active = 0 /\ thread'.status # "active"
      BY <1>1, <2>1 DEF Rows, ThreadStatus
  <2>3. Fits(thread)'
      BY <2>2 DEF Fits, Named
  <2>4. \A t \in Turns, k \in Attempts : act'[t][k].pc \notin Read
      BY <2>1 DEF TurnsInv, OneAlive, Alive
  <2>5. \A r \in Runs : runs'[r].status = "active" => r \in cut'
      BY <1>3, <2>1
  <2> QED BY <2>3, <2>4, <2>5 DEF Resting
<1>16. ASSUME NEW p \in {"workflow", "client"} PROVE SweptRow(p).active = 0 /\ SweptRow(p).status # "active"
    BY <1>1 DEF SweptRow, Rows
<1>17. CASE ApplyWrite
  <2>1. UNCHANGED <<act, runs, cut>> /\ wf = "sweeping" /\ wf' = "closed" /\ thread' = SweptRow("workflow")
      BY <1>17 DEF ApplyWrite, WriteThread
  <2> QED BY <1>6, <1>16, <2>1
<1>18. CASE ClientWrite
  <2>1. UNCHANGED <<act, runs, cut, wf, current>> /\ thread' = SweptRow("client")
      BY <1>18 DEF ClientWrite, WriteThread
  <2> QED BY <1>6, <1>16, <2>1
<1>19. CASE WakeCancelled \/ ApplyThreadCancellation
  <2>1. /\ UNCHANGED <<thread, act, runs, cut, current>>
        /\ wf \notin Opened \cup {"finalized"} /\ wf' \notin Opened \cup {"finalized"}
      BY <1>19 DEF WakeCancelled, ApplyThreadCancellation
  <2>2. Named(wf, current) = Named(wf, current)'
      BY <2>1 DEF Named
  <2> QED BY <1>5, <2>1, <2>2
<1>20. CASE CancelSignal \/ CancelThread \/ ClientSweep \/ UNCHANGED vars
  <2>1. UNCHANGED <<thread, act, runs, cut, current, wf>>
      BY <1>20 DEF CancelSignal, CancelThread, ClientSweep, vars
  <2>2. Named(wf, current) = Named(wf, current)'
      BY <2>1 DEF Named
  <2> QED BY <1>5, <2>1, <2>2
<1>21. ASSUME NEW m \in Msgs, SendMessage(m) PROVE Resting'
  <2>1. /\ UNCHANGED <<thread, act, runs, cut>>
        /\ (wf = "closed" /\ wf' = "idle") \/ (wf' = wf /\ current' = current)
      BY <1>21 DEF SendMessage
  <2>2. Named(wf, current) = Named(wf, current)'
      BY <2>1 DEF Named
  <2> QED BY <1>5, <2>1, <2>2
<1>22. CASE SeeCancel
  <2>1. UNCHANGED <<thread, runs, current>> /\ cut \subseteq cut' /\ (Records \/ Aborts \/ TurnCaught \/ GroupCaught)
      BY <1>22 DEF SeeCancel
  <2>2. CASE wf = "turning"
    <3>1. wf' = "finalizing" /\ cut' = cut
        BY <2>1, <2>2
    <3>2. OnlyOne(turn, attempt) /\ act'[turn][attempt] = Spent("dead", 0)
        BY <1>22, <2>2, SeesCancel
    <3>3. act'[turn][attempt].pc = "dead"
        BY <3>2 DEF Spent, Asleep
    <3>4. \A t \in Turns, k \in Attempts : act'[t][k].pc \in Read => act'[t][k] = act[t][k]
        BY <3>2, <3>3 DEF OnlyOne, Becomes
    <3> QED BY <1>10, <2>1, <2>2, <3>1, <3>4
  <2>3. CASE wf = "grouping"
    <3>1. current # 0
      <4>1. current = lastRun /\ lastRun # 0
          BY <1>1, <2>3 DEF Underway
      <4> QED BY <4>1
    <3>2. wf' = "finalizing" /\ cut' = cut /\ act' = act
        BY <2>1, <2>3, <3>1
    <3> QED BY <1>10, <2>1, <2>3, <3>2
  <2>4. CASE wf = "idle"
    <3>1. current = 0
        BY <1>1, <2>4 DEF Underway
    <3>2. wf' = "recorded" /\ cut' = cut /\ act' = act
        BY <2>1, <2>4, <3>1
    <3>3. Named(wf, current) = Named(wf, current)'
        BY <2>1, <2>4, <3>2 DEF Named
    <3> QED BY <1>5, <2>1, <2>4, <3>2, <3>3
  <2>5. CASE wf \in {"starting", "finalizing", "finalized"}
    <3>1. wf' = "closed" /\ cut' = cut \cup {current} /\ act' = act
        BY <2>1, <2>5
    <3>2. Named(wf, current) = Named(wf, current)'
        BY <2>1, <2>5, <3>1 DEF Named
    <3> QED BY <1>5, <2>1, <3>1, <3>2
  <2>6. wf \in {"turning", "grouping", "idle", "starting", "finalizing", "finalized"}
      BY <2>1
  <2> QED BY <2>2, <2>3, <2>4, <2>5, <2>6
<1>23. ASSUME NEW t \in Turns, NEW k \in Attempts, Attempt(t, k) PROVE Resting'
  <2>1. /\ wf = "turning" /\ t = turn /\ RunOf(t) = current /\ OnlyOne(t, k)
        /\ UNCHANGED <<wf, current, cut>>
    <3>1. wf = "turning" /\ t = turn /\ OnlyOne(t, k)
        BY <1>23, AnyAttempt DEF TurnsInv, OneAlive, Alive
    <3>2. UNCHANGED <<wf, current, cut>>
        BY <1>23, AttemptsAlone DEF flow, position
    <3> QED BY <1>1, <3>1, <3>2 DEF Underway
  <2>2. Named(wf, current) = Named(wf, current)'
      BY <2>1 DEF Named
  <2>3. \A u \in Turns, j \in Attempts : ~(u = t /\ j = k) => act'[u][j] = act[u][j]
      BY <2>1 DEF OnlyOne, Becomes
  <2> DEFINE a == act[t][k]
             b == act'[t][k]
  <2>4. b.pc \in Read => b.thread = thread \/ (a.pc \in Read /\ b.thread = a.thread)
    <3>1. CASE RunTurn(t, k)
        BY <3>1, BeginsAttempt
    <3>2. CASE AppendInbound(t, k)
        BY <3>2, StoresMessage DEF Keeps
    <3>3. CASE AppendAssistant(t, k)
      <4>1. a.pc = "inbound" /\ Keeps(a, b)
          BY <3>3, GoesOn DEF AppendAssistant, At, Statuses
      <4> QED BY <4>1 DEF Keeps
    <3>4. CASE TurnError(t, k)
        BY <3>4, FailsAttempt
    <3>5. CASE CountThreadTurn(t, k)
        BY <3>5, GoesOn DEF CountThreadTurn, Statuses
    <3>6. CASE CountRunTurn(t, k) \/ CountedBefore(t, k)
        BY <3>6, GoesOn DEF CountRunTurn, CountedBefore, Statuses
    <3> QED BY <1>23, <3>1, <3>2, <3>3, <3>4, <3>5, <3>6
  <2>5. thread' = thread \/ (thread'.active \in Named(wf, current)' /\ (thread'.status = "active" => thread'.active # 0))
    <3>1. CASE CountThreadTurn(t, k)
      <4>1. thread' = [a.thread EXCEPT !.turns = @ + 1] /\ a.pc \in Read
          BY <3>1 DEF CountThreadTurn, WriteThread, At
      <4>2. a.thread \in Rows
          BY <1>1 DEF AttemptStates, AttemptState
      <4>3. Fits(a.thread)
          BY <1>3, <4>1
      <4>4. thread'.active = a.thread.active /\ thread'.status = a.thread.status
          BY <4>1, <4>2 DEF Rows
      <4> QED BY <2>2, <4>3, <4>4 DEF Fits
    <3>2. CASE ~CountThreadTurn(t, k)
        BY <1>23, <3>2 DEF RunTurn, AppendInbound, AppendAssistant, TurnError, CountRunTurn, CountedBefore
    <3> QED BY <3>1, <3>2
  <2>6. \A r \in Runs : runs'[r].status = "active" => r = current \/ runs[r].status = "active"
    <3>1. CASE CountRunTurn(t, k)
        BY <1>1, <2>1, <3>1 DEF CountRunTurn, UpdateRun
    <3>2. CASE ~CountRunTurn(t, k)
        BY <1>23, <3>2 DEF RunTurn, AppendInbound, AppendAssistant, TurnError, CountThreadTurn, CountedBefore
    <3> QED BY <3>1, <3>2
  <2> HIDE DEF a, b
  <2>7. \A u \in Turns, j \in Attempts : act'[u][j].pc \in Read =>
          \/ act'[u][j].thread = thread
          \/ act[u][j].pc \in Read /\ act'[u][j].thread = act[u][j].thread
      BY <2>3, <2>4 DEF a, b
  <2>8. \A r \in Runs : runs'[r].status = "active" => (wf' \in Opened /\ r = current') \/ r \in cut'
      BY <1>3, <2>1, <2>6
  <2> QED BY <1>4, <2>2, <2>5, <2>7, <2>8
<1> QED
  <2> HIDE DEF Attempt, SeeCancel
  <2> QED BY <1>7, <1>8, <1>9, <1>11, <1>12, <1>13, <1>14, <1>15, <1>17, <1>18, <1>19, <1>20, <1>21, <1>22, <1>23

\* A count that a client set back stays recorded.
LEMMA StaysRewound == [Next]_vars /\ ~rewound' => ~rewound
  BY Remembers DEF ClientWrite

\* Until then the thread's row never counts fewer turns, and one more only when an attempt
\* counts its turn.
LEMMA CountGrows ==
  ASSUME Bounds, ~astray', ~rewound', TurnsInv, Counts, Numbered, [Next]_vars
  PROVE  /\ thread.turns \in Nat /\ thread'.turns \in Nat
         /\ \/ thread'.turns = thread.turns
            \/ /\ wf = "turning" /\ CountThreadTurn(turn, attempt) /\ UNCHANGED <<wf, row, client>>
               /\ thread'.turns = thread.turns + 1
<1> DEFINE Same == thread'.turns = thread.turns
           More == /\ wf = "turning" /\ CountThreadTurn(turn, attempt) /\ UNCHANGED <<wf, row, client>>
                   /\ thread'.turns = thread.turns + 1
<1>1. /\ row["workflow"] \in Rows /\ row["client"] \in Rows /\ thread \in Rows /\ act \in AttemptStates
    BY Typed DEF Bounds, StoreTypes, TurnTypes
<1>2. thread.turns \in Nat /\ row["workflow"].turns \in Nat /\ row["client"].turns \in Nat
    BY <1>1 DEF Rows
<1>3. CASE StartRunWrite
  <2>1. thread' = [row["workflow"] EXCEPT !.status = "active", !.active = current] /\ wf = "starting"
      BY <1>3 DEF StartRunWrite, WriteThread
  <2>2. thread'.turns = row["workflow"].turns
      BY <1>1, <2>1 DEF Rows
  <2> QED BY <1>2, <2>1, <2>2 DEF Counts
<1>4. CASE FinalizeWrite
  <2>1. thread' = [row["workflow"] EXCEPT !.active = 0, !.status = ThreadStatus(outcome)] /\ wf = "finalized"
      BY <1>4 DEF FinalizeWrite, WriteThread
  <2>2. thread'.turns = row["workflow"].turns
      BY <1>1, <2>1 DEF Rows
  <2> QED BY <1>2, <2>1, <2>2 DEF Counts
<1>5. CASE ApplyWrite
  <2>1. thread' = SweptRow("workflow") /\ wf = "sweeping"
      BY <1>5 DEF ApplyWrite, WriteThread
  <2>2. thread'.turns = row["workflow"].turns
      BY <1>1, <2>1 DEF Rows, SweptRow
  <2> QED BY <1>2, <2>1, <2>2 DEF Counts
<1>6. CASE ClientWrite
  <2>1. thread' = SweptRow("client") /\ client = "swept" /\ ~(row["client"].turns < thread.turns)
      BY <1>6 DEF ClientWrite, WriteThread
  <2>2. thread'.turns = row["client"].turns
      BY <1>1, <2>1 DEF Rows, SweptRow
  <2> QED BY <1>2, <2>1, <2>2 DEF Counts
<1>7. ASSUME NEW t \in Turns, NEW k \in Attempts, Attempt(t, k) PROVE Same \/ More
  <2>1. wf = "turning" /\ t = turn /\ k = attempt
      BY <1>7, AnyAttempt DEF TurnsInv, OneAlive, Alive
  <2>2. UNCHANGED <<wf, row, client>>
      BY <1>7, AttemptsAlone DEF flow, clients
  <2>3. CASE CountThreadTurn(t, k)
    <3> DEFINE a == act[t][k]
    <3>1. thread' = [a.thread EXCEPT !.turns = @ + 1] /\ a.pc \in {"resumed", "answered"}
        BY <2>3 DEF CountThreadTurn, WriteThread, At
    <3>2. a.thread \in Rows
        BY <1>1 DEF AttemptStates, AttemptState
    <3>3. Tallies(a, thread.turns, count)
        BY <2>1 DEF Numbered
    <3> HIDE DEF a
    <3>4. thread'.turns = a.thread.turns + 1
        BY <3>1, <3>2 DEF Rows
    <3>5. a.thread.turns = thread.turns
        BY <3>1, <3>3 DEF Tallies
    <3> QED BY <2>1, <2>2, <2>3, <3>4, <3>5
  <2>4. CASE ~CountThreadTurn(t, k)
      BY <1>7, <2>4 DEF RunTurn, AppendInbound, AppendAssistant, TurnError, CountRunTurn, CountedBefore
  <2> QED BY <2>3, <2>4
<1>8. StartRun \/ BeginTurn \/ LoopEnds \/ TurnReturns \/ TurnFails \/ GroupOver \/ FinalizeRun => Same
    BY DEF StartRun, BeginTurn, LoopEnds, TurnReturns, TurnFails, GroupOver, FinalizeRun, stores
<1>9. WakeCancelled \/ ApplyThreadCancellation \/ TurnLost \/ SeeCancel => Same
    BY DEF WakeCancelled, ApplyThreadCancellation, TurnLost, SeeCancel, stores
<1>10. CancelSignal \/ CancelThread \/ ClientSweep \/ UNCHANGED vars => Same
    BY DEF CancelSignal, CancelThread, ClientSweep, vars, stores
<1>11. ASSUME NEW m \in Msgs, SendMessage(m) PROVE Same
    BY <1>11 DEF SendMessage, stores
<1> HIDE DEF Same, More
<1>12. Same \/ More
  <2> HIDE DEF Attempt, SeeCancel
  <2> QED BY <1>3, <1>4, <1>5, <1>6, <1>7, <1>8, <1>9, <1>10, <1>11 DEF Same, More
<1> QED BY <1>2, <1>12 DEF Same, More

\* A row that was read is written before the thread's counts on.
LEMMA CountsStep ==
  Bounds /\ ~astray' /\ ~rewound' /\ TurnsInv /\ Counts /\ Numbered /\ [Next]_vars => Counts'
<1> SUFFICES ASSUME Bounds, ~astray', ~rewound', TurnsInv, Counts, Numbered, [Next]_vars PROVE Counts'
    OBVIOUS
<1> DEFINE n == thread.turns
           w == row["workflow"].turns
           c == row["client"].turns
           Held == {"starting", "finalized", "sweeping"}
<1>1. /\ thread.turns \in Nat /\ row["client"].turns \in Nat /\ row["client"].turns' \in Nat
      /\ row["workflow"] \in Rows
  <2>1. row["client"] \in Rows /\ row["client"]' \in Rows /\ row["workflow"] \in Rows
      BY Typed, BoundsStep DEF Bounds, TurnTypes, TypeOK
  <2> QED BY <2>1, CountGrows DEF Rows
<1>2. /\ wf \in Held => w = n
      /\ client = "swept" => c <= n
    BY DEF Counts
<1>3. n' \in Nat /\ (n' = n \/ (wf = "turning" /\ UNCHANGED <<wf, row, client>> /\ n' = n + 1))
    BY CountGrows
<1>4. ASSUME wf' \in Held => (wf \in Held /\ w' = w) \/ w' = n, wf # "turning" \/ wf' \notin Held,
             client' = "swept" => (client = "swept" /\ c' = c) \/ c' = n
      PROVE  Counts'
  <2>1. wf' \in Held => w' = n'
      BY <1>2, <1>3, <1>4
  <2>2. client' = "swept" => c' <= n'
      BY <1>1, <1>2, <1>3, <1>4
  <2> QED BY <2>1, <2>2 DEF Counts
<1>5. CASE UNCHANGED <<row, client>> /\ (wf' = wf \/ wf' \notin Held)
    BY <1>4, <1>5
<1>6. row \in [{"workflow", "client"} -> Rows]
    BY Typed DEF Bounds, TurnTypes
<1>7. CASE StartRun \/ FinalizeRun \/ ApplyThreadCancellation
  <2>1. row' = [row EXCEPT !["workflow"] = thread] /\ UNCHANGED client /\ wf # "turning"
      BY <1>7 DEF StartRun, FinalizeRun, ApplyThreadCancellation
  <2>2. row'["workflow"] = thread /\ row'["client"] = row["client"]
      BY <1>6, <2>1
  <2> QED BY <1>4, <2>1, <2>2
<1>8. CASE ClientSweep
  <2>1. row' = [row EXCEPT !["client"] = thread] /\ UNCHANGED wf
      BY <1>8 DEF ClientSweep
  <2>2. row'["workflow"] = row["workflow"] /\ row'["client"] = thread
      BY <1>6, <2>1
  <2> QED BY <1>4, <2>1, <2>2
<1>9. CASE ClientWrite \/ CancelThread
  <2>1. UNCHANGED <<row, wf>> /\ client' # "swept"
      BY <1>9 DEF ClientWrite, CancelThread
  <2> QED BY <1>4, <2>1
<1>10. CASE StartRunWrite \/ BeginTurn \/ LoopEnds \/ TurnReturns \/ TurnFails \/ GroupOver
  <2>1. UNCHANGED <<row, client>> /\ wf' \in {"looping", "turning", "grouping", "finalizing"}
      BY <1>10 DEF StartRunWrite, BeginTurn, LoopEnds, TurnReturns, TurnFails, GroupOver, clients
  <2> QED BY <1>5, <2>1
<1>11. CASE FinalizeWrite \/ WakeCancelled \/ ApplyWrite
  <2>1. UNCHANGED <<row, client>> /\ wf' \in {"recorded", "closed", "idle"}
      BY <1>11 DEF FinalizeWrite, WakeCancelled, ApplyWrite, clients
  <2> QED BY <1>5, <2>1
<1>12. CASE TurnLost \/ SeeCancel
  <2>1. UNCHANGED <<row, client>> /\ wf' \in {"turning", "recorded", "closed", "finalizing"}
      BY <1>12 DEF TurnLost, SeeCancel, clients
  <2> QED BY <1>5, <2>1
<1>13. CASE CancelSignal \/ UNCHANGED vars
  <2>1. UNCHANGED <<row, client, wf>>
      BY <1>13 DEF CancelSignal, vars, flow, clients
  <2> QED BY <1>5, <2>1
<1>14. ASSUME NEW m \in Msgs, SendMessage(m) PROVE Counts'
  <2>1. UNCHANGED <<row, client>> /\ (wf' = wf \/ wf' = "idle")
      BY <1>14 DEF SendMessage
  <2> QED BY <1>5, <2>1
<1>15. ASSUME NEW t \in Turns, NEW k \in Attempts, Attempt(t, k) PROVE Counts'
  <2>1. UNCHANGED <<row, client, wf>>
      BY <1>15, AttemptsAlone DEF flow, clients
  <2> QED BY <1>5, <2>1
<1> QED
  <2> HIDE DEF Attempt, SeeCancel
  <2> QED BY <1>7, <1>8, <1>9, <1>10, <1>11, <1>12, <1>13, <1>14, <1>15

\* The workflow's count follows the thread's, and so the turns' numbers increase.
LEMMA NumberedStep ==
  Bounds /\ ~astray' /\ ~rewound' /\ TurnsInv /\ Counts /\ Numbered /\ TurnsNumbered /\ [Next]_vars
    => Numbered' /\ TurnsNumbered'
<1> SUFFICES ASSUME Bounds, ~astray', ~rewound', TurnsInv, Counts, Numbered, TurnsNumbered, [Next]_vars
             PROVE  Numbered' /\ TurnsNumbered'
    OBVIOUS
<1> DEFINE Over(t) == \E k \in Attempts : act[t][k].pc = "over"
<1>1. /\ row["workflow"] \in Rows /\ thread \in Rows /\ thread.turns \in Nat /\ row["workflow"].turns \in Nat
      /\ count \in Nat /\ turn \in Nat
      /\ answered \in [Turns -> Seq(Attempts)]
      /\ payload \in [Turns -> [run : {0} \cup Runs, index : Nat, msgs : Seq(Msgs)]]
  <2>1. StoreTypes /\ TurnTypes
      BY Typed DEF Bounds
  <2>2. thread \in Rows /\ row["workflow"] \in Rows
      BY <2>1 DEF StoreTypes, TurnTypes
  <2>3. thread.turns \in Nat /\ row["workflow"].turns \in Nat
      BY <2>2 DEF Rows
  <2>4. turn \in Nat
      BY <2>1, Ranges DEF TurnTypes, Numbers
  <2> QED BY <2>1, <2>2, <2>3, <2>4 DEF StoreTypes, TurnTypes
<1>2. wf = "turning" => turn \in Turns /\ attempt \in Attempts
    BY Typed DEF Bounds, Underway, TurnTypes
<1>3. /\ wf \in {"looping", "grouping"} => count = thread.turns
      /\ wf = "turning" => /\ payload[turn].index = count + 1 /\ thread.turns \in {count, count + 1}
                           /\ answered[turn] = <<>> => thread.turns = count
                           /\ Tallies(act[turn][attempt], thread.turns, count)
      /\ \A t \in Turns : Over(t) => payload[t].index <= thread.turns
    BY DEF Numbered, Tallies
<1>4. \A t, u \in Turns : t < u /\ Over(t) /\ payload[u].index # 0 => payload[t].index < payload[u].index
    BY DEF TurnsNumbered, At
<1>5. ASSUME wf' \in {"looping", "grouping"} => count' = thread'.turns,
             wf' = "turning" => /\ payload'[turn'].index = count' + 1 /\ thread'.turns \in {count', count' + 1}
                                /\ answered'[turn'] = <<>> => thread'.turns = count'
                                /\ Tallies(act'[turn'][attempt'], thread'.turns, count'),
             \A t \in Turns : Over(t)' => payload'[t].index <= thread'.turns
      PROVE  Numbered'
    BY <1>5 DEF Numbered, Tallies
<1>6. ASSUME payload' = payload, \A t \in Turns : Over(t)' => Over(t), thread'.turns \in Nat,
             thread'.turns >= thread.turns
      PROVE  /\ \A t \in Turns : Over(t)' => payload'[t].index <= thread'.turns
             /\ TurnsNumbered'
  <2>1. ASSUME NEW t \in Turns, Over(t)' PROVE payload'[t].index <= thread'.turns
    <3>1. payload[t].index \in Nat /\ payload[t].index <= thread.turns
        BY <1>1, <1>3, <1>6, <2>1
    <3> QED BY <1>1, <1>6, <3>1
  <2>2. TurnsNumbered'
      BY <1>4, <1>6 DEF TurnsNumbered, At
  <2> QED BY <2>1, <2>2
<1>7. CASE StartRunWrite
  <2>1. /\ thread' = [row["workflow"] EXCEPT !.status = "active", !.active = current]
        /\ count' = row["workflow"].turns /\ UNCHANGED <<payload, act>> /\ wf = "starting"
        /\ wf' \in {"looping", "finalizing"}
      BY <1>7 DEF StartRunWrite, WriteThread, TurnsSoFar
  <2>2. row["workflow"].turns = thread.turns
      BY <2>1 DEF Counts
  <2>3. thread'.turns = thread.turns /\ count' = thread.turns
      BY <1>1, <2>1, <2>2 DEF Rows
  <2> HIDE DEF Over
  <2>4. \A t \in Turns : Over(t)' => Over(t)
      BY <2>1 DEF Over
  <2> QED BY <1>1, <1>5, <1>6, <2>1, <2>3, <2>4
<1>9. CASE BeginTurn
  <2>1. /\ wf = "looping" /\ wf' = "turning" /\ UNCHANGED <<thread, answered, count>> /\ turn' = turn + 1
        /\ attempt' = 1
        /\ payload' = [payload EXCEPT ![turn + 1] = [run |-> current, index |-> count + 1, msgs |-> NewMessages]]
      BY <1>9 DEF BeginTurn
  <2>2. /\ turn + 1 \in Turns /\ act'[turn + 1][1].pc = "started" /\ OnlyOne(turn + 1, 1) /\ 1 \in Attempts
      BY <1>9, BeginsTurn
  <2>3. payload'[turn + 1].index = count + 1 /\ \A t \in Turns : t # turn + 1 => payload'[t] = payload[t]
      BY <1>1, <2>1, <2>2
  <2>4. \A u \in Turns : u \in Nat
      BY Ranges DEF Numbers
  <2>5. /\ \A t \in Turns : t > turn => payload[t].index = 0 /\ ~Over(t)
        /\ answered[turn + 1] = <<>>
      BY <1>1, <2>2 DEF TurnsInv, ToCome
  <2>6. \A t \in Turns : Over(t)' => t # turn + 1 /\ Over(t)
    <3>1. \A t \in Turns, k \in Attempts : ~(t = turn + 1 /\ k = 1) => act'[t][k] = act[t][k]
        BY <2>2 DEF OnlyOne, Becomes
    <3>4. turn + 1 > turn
        BY <1>1
    <3>2. ~Over(turn + 1)
      <4> HIDE DEF Over
      <4> QED BY <2>2, <2>5, <3>4
    <3>3. \A k \in Attempts : act'[turn + 1][k].pc # "over"
        BY <2>2, <3>1, <3>2
    <3> SUFFICES ASSUME NEW t \in Turns, NEW k \in Attempts, act'[t][k].pc = "over"
                 PROVE  t # turn + 1 /\ act[t][k].pc = "over"
        OBVIOUS
    <3> QED BY <3>1, <3>3
  <2> HIDE DEF Over
  <2>7. Tallies(act'[turn + 1][1], thread.turns, count)
      BY <2>2 DEF Tallies
  <2>8. \A t \in Turns : Over(t)' => payload'[t].index <= thread'.turns
      BY <1>3, <2>1, <2>3, <2>6
  <2>9. count = thread.turns
      BY <1>3, <2>1
  <2>10. Numbered'
      BY <1>1, <1>5, <2>1, <2>3, <2>5, <2>7, <2>8, <2>9
  <2>11. ASSUME NEW t \in Turns, NEW u \in Turns, t < u, Over(t)', payload'[u].index # 0
         PROVE  payload'[t].index < payload'[u].index
    <3>1. t # turn + 1 /\ Over(t) /\ payload'[t] = payload[t]
        BY <2>3, <2>6, <2>11
    <3>2. CASE u = turn + 1
      <4>1. payload[t].index <= thread.turns /\ payload[t].index \in Nat
          BY <1>1, <1>3, <3>1
      <4> QED BY <1>1, <2>3, <2>9, <3>1, <3>2, <4>1
    <3>3. CASE u # turn + 1
        BY <1>4, <2>3, <2>11, <3>1, <3>3
    <3> QED BY <3>2, <3>3
  <2>12. TurnsNumbered'
      BY <2>11 DEF TurnsNumbered, At, Over
  <2> QED BY <2>10, <2>12
<1>10. CASE TurnReturns
  <2>1. /\ wf = "turning" /\ wf' \in {"grouping", "finalizing"} /\ UNCHANGED <<thread, payload, turn>>
        /\ count' = count + 1
      BY <1>10 DEF TurnReturns
  <2>2. turn \in Turns /\ attempt \in Attempts /\ act[turn][attempt].pc = "done" /\ OnlyOne(turn, attempt)
      BY <1>10, TakesAnswer
  <2>3. thread.turns = count + 1 /\ payload[turn].index = count + 1
      BY <1>3, <2>1, <2>2 DEF Tallies
  <2>4. \A t \in Turns : t # turn => (Over(t)' <=> Over(t))
      BY <2>2 DEF OnlyOne, Becomes
  <2>5. \A u \in Turns : u \in Nat /\ (u > turn => payload[u].index = 0)
      BY Ranges DEF TurnsInv, ToCome, Numbers
  <2> HIDE DEF Over
  <2>6. \A t \in Turns : Over(t)' => payload'[t].index <= thread'.turns
    <3> SUFFICES ASSUME NEW t \in Turns, Over(t)' PROVE payload[t].index <= thread.turns
        BY <2>1
    <3>1. CASE t = turn
        BY <1>1, <2>3, <3>1
    <3>2. CASE t # turn
        BY <1>3, <2>4, <3>2
    <3> QED BY <3>1, <3>2
  <2>7. Numbered'
      BY <1>5, <2>1, <2>3, <2>6
  <2>8. ASSUME NEW t \in Turns, NEW u \in Turns, t < u, Over(t)', payload'[u].index # 0
        PROVE  payload'[t].index < payload'[u].index
    <3>1. t # turn
        BY <2>1, <2>5, <2>8
    <3> QED BY <1>4, <2>1, <2>4, <2>8, <3>1
  <2>9. TurnsNumbered'
      BY <2>8 DEF TurnsNumbered, At, Over
  <2> QED BY <2>7, <2>9
<1>11. ASSUME thread'.turns = thread.turns, UNCHANGED <<payload, count, act>>,
              (wf' = wf /\ UNCHANGED <<turn, attempt, answered>>) \/ (wf = "grouping" /\ wf' = "looping")
                \/ wf' \notin {"looping", "grouping", "turning"}
       PROVE  Numbered' /\ TurnsNumbered'
  <2>1. \A t \in Turns : Over(t)' => Over(t)
      BY <1>11
  <2> HIDE DEF Over
  <2>2. (\A t \in Turns : Over(t)' => payload'[t].index <= thread'.turns) /\ TurnsNumbered'
      BY <1>1, <1>6, <1>11, <2>1
  <2> QED BY <1>3, <1>5, <1>11, <2>2
<1>12. CASE StartRun \/ LoopEnds \/ TurnFails \/ GroupOver \/ FinalizeRun
  <2>1. UNCHANGED <<thread, payload, count, act>> /\ (wf' \notin {"looping", "grouping", "turning"}
          \/ (wf = "grouping" /\ wf' = "looping"))
      BY <1>12 DEF StartRun, LoopEnds, TurnFails, GroupOver, FinalizeRun
  <2> QED BY <1>11, <2>1
<1>8. thread'.turns = thread.turns \/ \E t \in Turns, k \in Attempts : Attempt(t, k)
    BY <1>2, CountGrows
<1>17. CASE FinalizeWrite \/ ApplyWrite
  <2>1. UNCHANGED <<payload, count, act>> /\ wf' \notin {"looping", "grouping", "turning"} /\ wf # "turning"
      BY <1>17 DEF FinalizeWrite, ApplyWrite
  <2>2. thread'.turns = thread.turns
      BY <2>1, CountGrows
  <2> QED BY <1>11, <2>1, <2>2
<1>18. CASE ClientWrite
  <2>1. UNCHANGED <<payload, count, act, wf, turn, attempt, answered, stored>>
      BY <1>18 DEF ClientWrite
  <2>2. thread'.turns = thread.turns
      BY <1>18, CountGrows DEF CountThreadTurn, ClientWrite, clients
  <2> QED BY <1>11, <2>1, <2>2
<1>13. ASSUME NEW m \in Msgs, SendMessage(m) PROVE Numbered' /\ TurnsNumbered'
  <2>1. /\ UNCHANGED <<thread, payload, act, turn, attempt, answered>>
        /\ ((wf' = wf /\ count' = count) \/ wf' = "idle")
      BY <1>13 DEF SendMessage
  <2>2. \A t \in Turns : Over(t)' => Over(t)
      BY <2>1
  <2> HIDE DEF Over
  <2>3. (\A t \in Turns : Over(t)' => payload'[t].index <= thread'.turns) /\ TurnsNumbered'
      BY <1>1, <1>6, <2>1, <2>2
  <2> QED BY <1>3, <1>5, <2>1, <2>3
<1>14. CASE TurnLost \/ (SeeCancel /\ wf = "turning")
  <2>1. /\ UNCHANGED <<thread, payload, count, turn, answered>> /\ wf = "turning"
        /\ (wf' = "turning" \/ wf' = "finalizing")
      BY <1>14 DEF TurnLost, SeeCancel
  <2>2. act'[turn][attempt].pc = "dead"
      BY <1>14, LosesTurn, SeesCancel DEF Spent, Asleep
  <2>3. \A t \in Turns : Over(t)' => Over(t)
    <3> SUFFICES ASSUME NEW t \in Turns, NEW k \in Attempts, act'[t][k].pc = "over" PROVE act[t][k].pc = "over"
        OBVIOUS
    <3>1. CASE OnlyOne(turn, attempt)
        BY <2>2, <3>1 DEF OnlyOne, Becomes
    <3>2. CASE ~OnlyOne(turn, attempt)
        BY <1>14, <2>1, <2>2, <3>2, LosesTurn, SeesCancel
    <3> QED BY <3>1, <3>2
  <2>4. wf' = "turning" => act'[turn][attempt'].pc = "started"
      BY <1>14, LosesTurn, SeesCancel
  <2> HIDE DEF Over
  <2>5. (\A t \in Turns : Over(t)' => payload'[t].index <= thread'.turns) /\ TurnsNumbered'
      BY <1>1, <1>6, <2>1, <2>3
  <2>6. wf' = "turning" => Tallies(act'[turn][attempt'], thread.turns, count)
      BY <2>4 DEF Tallies
  <2> QED BY <1>3, <1>5, <2>1, <2>5, <2>6
<1>15. ASSUME NEW t \in Turns, NEW k \in Attempts, Attempt(t, k) PROVE Numbered' /\ TurnsNumbered'
  <2>1. /\ wf = "turning" /\ t = turn /\ k = attempt /\ UNCHANGED <<wf, payload, count, turn, attempt>>
        /\ OnlyOne(t, k) /\ act'[t][k].pc # "over"
      BY <1>15, AnyAttempt DEF TurnsInv, OneAlive, Alive
  <2>2. \A u \in Turns : Over(u)' => Over(u)
    <3> SUFFICES ASSUME NEW u \in Turns, NEW j \in Attempts, act'[u][j].pc = "over" PROVE act[u][j].pc = "over"
        OBVIOUS
    <3> QED BY <2>1 DEF OnlyOne, Becomes
  <2> HIDE DEF Over
  <2> DEFINE a == act[t][k]
             b == act'[t][k]
  <2>3. /\ Tallies(a, thread.turns, count) /\ thread.turns \in {count, count + 1}
        /\ answered[t] = <<>> => thread.turns = count
        /\ payload[t].index = count + 1
      BY <1>3, <2>1
  <2> HIDE DEF a, b
  <2>4. ASSUME thread'.turns \in {count, count + 1}, thread'.turns >= thread.turns,
               answered'[t] = <<>> => thread'.turns = count, Tallies(b, thread'.turns, count)
        PROVE  Numbered' /\ TurnsNumbered'
    <3>1. thread'.turns \in Nat
        BY <1>1, <2>4
    <3>2. (\A u \in Turns : Over(u)' => payload'[u].index <= thread'.turns) /\ TurnsNumbered'
        BY <1>6, <2>1, <2>2, <2>4, <3>1
    <3> QED BY <1>5, <2>1, <2>3, <2>4, <3>2 DEF b
  <2>5. ASSUME thread' = thread, answered'[t] = <<>> => answered[t] = <<>>, Tallies(b, thread.turns, count)
        PROVE  Numbered' /\ TurnsNumbered'
      BY <1>1, <2>3, <2>4, <2>5
  <2>6. CASE RunTurn(t, k)
    <3>1. b.thread = thread /\ b.pc \in {"resumed", "inbound"}
        BY <2>6, BeginsAttempt DEF b
    <3>2. thread' = thread /\ answered' = answered
        BY <2>6 DEF RunTurn
    <3> QED BY <2>5, <3>1, <3>2 DEF Tallies
  <2>7. CASE AppendInbound(t, k)
    <3>1. Keeps(a, b) /\ a.pc = "inbound" /\ b.pc = "inbound"
        BY <2>7, StoresMessage DEF a, b
    <3>2. thread' = thread /\ answered' = answered
        BY <2>7 DEF AppendInbound
    <3> QED BY <2>3, <2>5, <3>1, <3>2 DEF Tallies, Keeps
  <2>8. CASE AppendAssistant(t, k)
    <3>1. /\ a.pc = "inbound" /\ Step(t, k, "answered") /\ thread' = thread
          /\ answered' = [answered EXCEPT ![t] = Append(@, k)]
        BY <2>8 DEF AppendAssistant, At, a
    <3>2. Keeps(a, b) /\ b.pc = "answered"
        BY <3>1, GoesOn DEF Statuses, a, b
    <3>3. answered[t] = <<>>
        BY <3>1 DEF TurnsInv, Answered, Accounts, a
    <3> QED BY <2>3, <2>5, <3>1, <3>2, <3>3 DEF Tallies, Keeps
  <2>9. CASE TurnError(t, k)
    <3>1. b.pc = "error"
        BY <2>9, FailsAttempt DEF b
    <3>2. thread' = thread /\ answered' = answered
        BY <2>9 DEF TurnError
    <3> QED BY <2>5, <3>1, <3>2 DEF Tallies
  <2>10. CASE CountThreadTurn(t, k)
    <3>1. /\ a.pc = "answered" \/ (a.pc = "resumed" /\ a.thread.turns < payload[t].index)
          /\ thread' = [a.thread EXCEPT !.turns = @ + 1] /\ Step(t, k, "counted") /\ answered' = answered
        BY <2>10 DEF CountThreadTurn, WriteThread, At, a
    <3>2. a.thread \in Rows
        BY Typed DEF Bounds, AttemptStates, AttemptState, a
    <3>3. thread'.turns = a.thread.turns + 1
        BY <3>1, <3>2 DEF Rows
    <3>4. a.thread.turns = thread.turns /\ thread.turns = count
        BY <1>1, <2>3, <3>1 DEF Tallies
    <3>5. b.pc = "counted"
        BY <3>1, GoesOn DEF Statuses, b
    <3>6. answered[t] # <<>>
      <4>1. a.pc \in Wrote
          BY <3>1 DEF Wrote
      <4> QED BY <4>1 DEF TurnsInv, Answered, Accounts, a
    <3> QED BY <1>1, <2>4, <3>1, <3>3, <3>4, <3>5, <3>6 DEF Tallies
  <2>11. CASE CountRunTurn(t, k)
    <3>1. a.pc = "counted" /\ Step(t, k, "done") /\ UNCHANGED <<thread, answered>>
        BY <2>11 DEF CountRunTurn, At, a
    <3>2. b.pc = "done"
        BY <3>1, GoesOn DEF Statuses, b
    <3> QED BY <2>3, <2>5, <3>1, <3>2 DEF Tallies
  <2>12. CASE CountedBefore(t, k)
    <3>1. /\ a.pc = "resumed" /\ a.thread.turns >= payload[t].index /\ Step(t, k, "done")
          /\ UNCHANGED <<thread, answered>>
        BY <2>12 DEF CountedBefore, At, a
    <3>2. b.pc = "done"
        BY <3>1, GoesOn DEF Statuses, b
    <3>3. thread.turns = count + 1
        BY <1>1, <2>3, <3>1 DEF Tallies
    <3> QED BY <2>5, <3>1, <3>2, <3>3 DEF Tallies
  <2> QED BY <1>15, <2>6, <2>7, <2>8, <2>9, <2>10, <2>11, <2>12
<1>16. CASE WakeCancelled \/ ApplyThreadCancellation \/ (SeeCancel /\ wf # "turning")
  <2>1. UNCHANGED <<thread, payload, count>> /\ wf' \notin {"looping", "grouping", "turning"}
      BY <1>16 DEF WakeCancelled, ApplyThreadCancellation, SeeCancel
  <2>2. UNCHANGED act
      BY <1>16, SeesCancel DEF WakeCancelled, ApplyThreadCancellation
  <2> QED BY <1>11, <2>1, <2>2
<1>19. CASE CancelSignal \/ CancelThread \/ ClientSweep \/ UNCHANGED vars
  <2>1. UNCHANGED <<thread, payload, count, act, wf, turn, attempt, answered>>
      BY <1>19 DEF CancelSignal, CancelThread, ClientSweep, vars
  <2> QED BY <1>11, <2>1
<1> QED
  <2> HIDE DEF Attempt, SeeCancel
  <2> QED BY <1>7, <1>9, <1>10, <1>12, <1>13, <1>14, <1>15, <1>16, <1>17, <1>18, <1>19

\* Every step keeps rest and the turns' numbers, and the initial state has them.
LEMMA RestStep == Bounds /\ ~astray' /\ TurnsInv /\ RestInv /\ [Next]_vars => RestInv'
<1> SUFFICES ASSUME Bounds, ~astray', TurnsInv, RestInv, [Next]_vars PROVE RestInv'
    OBVIOUS
<1>1. Open' /\ Resting'
    BY OpenStep, RestingStep DEF RestInv
<1>2. Open' /\ Resting' => AtRest'
    BY DEF Open, Resting, AtRest, Fits, Named, Opened
<1>3. rewound' \/ (Counts' /\ Numbered' /\ TurnsNumbered')
    BY StaysRewound, CountsStep, NumberedStep DEF RestInv
<1> QED BY <1>1, <1>2, <1>3 DEF RestInv

LEMMA RestInit == Init => RestInv
<1> SUFFICES ASSUME Init PROVE RestInv
    OBVIOUS
<1>1. Counts /\ Open /\ TurnsNumbered
    BY DEF Init, Counts, Open, TurnsNumbered, At, Asleep
<1>2. Resting /\ Numbered
    BY DEF Init, Resting, Fits, Named, Opened, Numbered, NoRow, Asleep
<1>3. AtRest
    BY <1>1, <1>2 DEF Init, Open, Resting, AtRest, Fits, Named, Opened
<1> QED BY <1>1, <1>2, <1>3 DEF RestInv

\* A run that ended well has stored every message it took, a thread whose execution closed shows
\* no run at work, no run left open and no call without a result but of the runs a cancel cut
\* off, and turns are numbered on from the thread's row over every retry until a client writes
\* an older row back: for any number of messages, turns and attempts, and wherever the client's
\* cancel and the cancel signal find the thread, until an attempt that Temporal gave up goes on.
THEOREM ThreadKept == Spec => []ThreadInv
<1> DEFINE Inv == Bounds /\ (~astray => TurnsInv /\ OrderInv /\ RestInv)
<1>1. Init => Inv
    BY BoundsInit, TurnsInvInit, OrderInit, RestInit
<1>2. Inv /\ [Next]_vars => Inv'
    BY BoundsStep, TurnsInvStep, OrderStep, RestStep, StaysAstray
<1>3. Inv => ThreadInv
    BY DEF Bounds, OrderInv, RestInv, ThreadInv
<1> HIDE DEF Inv
<1> QED BY <1>1, <1>2, <1>3, PTL DEF Spec

================================================================================
