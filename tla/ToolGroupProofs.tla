-------------------------- MODULE ToolGroupProofs --------------------------
(* What holds of a tool group for every set of calls, every verdict and    *)
(* every number of attempts, with proofs.                                  *)
EXTENDS ToolGroup, TLAPS

USE DEF Open, Terminal, NoResult, None, Verdict, Attempts, InFlight

-----------------------------------------------------------------------------
(* The stores' operations.                                                 *)

\* A record that is written keeps its type.
LEMMA SetRecordType ==
  ASSUME RecordsTypeOK, NEW c \in Calls, NEW s \in Open \cup Terminal,
         NEW r \in Results \cup {NoResult}, SetRecord(c, s, r)
  PROVE  RecordsTypeOK'
BY DEF RecordsTypeOK, SetRecord

\* update_status and finish_waiting keep the records' types.
LEMMA UpdateType ==
  ASSUME RecordsTypeOK, NEW c \in Calls, NEW s \in Open \cup Terminal,
         NEW r \in Results \cup {NoResult},
         UpdateStatus(c, s, r) \/ FinishWaiting(c, s, r)
  PROVE  RecordsTypeOK'
BY SetRecordType DEF UpdateStatus, FinishWaiting, records, RecordsTypeOK

LEMMA AppendType ==
  ASSUME MessagesTypeOK, NEW w \in Writers, NEW c \in Calls, NEW r \in Posts,
         AppendToolResult(w, c, r)
  PROVE  MessagesTypeOK'
BY DEF MessagesTypeOK, AppendToolResult, messages

LEMMA InsertType ==
  ASSUME MessagesTypeOK, NEW w \in Writers, InsertToolResult(w)
  PROVE  MessagesTypeOK'
BY DEF MessagesTypeOK, InsertToolResult

\* Every result a tool, a person or the runtime gives is a result.
LEMMA ResultTypes ==
  /\ ToolResults \subseteq Results /\ SystemResults \subseteq Results
  /\ Answers \subseteq Results /\ Results \subseteq Posts
  /\ \A r : StatusOf(r) \in Terminal
BY DEF Results, Posts, StatusOf

-----------------------------------------------------------------------------
(* Types.                                                                  *)

LEMMA TypeInit == Init => TypeOK
<1> SUFFICES ASSUME Init PROVE TypeOK
  OBVIOUS
<1>1. StoreTypeOK
  BY DEF Init, StoreInit, StoreTypeOK, RecordsTypeOK, MessagesTypeOK
<1>2. run \in [Calls -> [Attempts -> AttemptStates]]
  BY DEF Init, AttemptStates
<1>3. attempt \in [Calls -> 0 .. MaxAttempts] /\ faults \in 0 .. MaxFaults
  BY GroupAssumption DEF Init
<1>. QED  BY <1>1, <1>2, <1>3 DEF Init, TypeOK

\* Every action keeps the types.
LEMMA TypeAdmission ==
  ASSUME TypeOK, NEW c \in Calls, Admission(c)
  PROVE  TypeOK'
<1> USE DEF TypeOK, StoreTypeOK
<1>1. CASE AdmitTool(c)
  <2>1. PICK v \in Verdicts[c] :
          /\ CASE v = "execute" -> UpdateStatus(c, "running", NoResult)
               [] v = "await"   -> UpdateStatus(c, "waiting", NoResult)
               [] v = "deny"    -> UpdateStatus(c, "blocked", "denied")
          /\ admission' = [admission EXCEPT ![c] =
               IF @ = "adrift" THEN "over" ELSE IF Settled(c) THEN "deny" ELSE v]
    BY <1>1 DEF AdmitTool
  <2>2. v \in Verdict
    BY GroupAssumption
  <2>3. RecordsTypeOK'
    BY <2>1, <2>2, UpdateType, ResultTypes DEF SystemResults
  <2>4. admission' \in [Calls -> Verdict \cup {"started", "adrift", "over"}]
    BY <2>1, <2>2
  <2>. QED  BY <1>1, <2>3, <2>4 DEF AdmitTool, messages, MessagesTypeOK, flow, known, human, stops
<1>2. CASE AdmitUnwritten(c)
  BY <1>2 DEF AdmitUnwritten, records, messages, RecordsTypeOK, MessagesTypeOK, flow, known, human, stops
<1>3. CASE AdmitReport(c)
  BY <1>3 DEF AdmitReport, records, messages, RecordsTypeOK, MessagesTypeOK, flow, human, stops
<1>4. CASE AdmitLost(c)
  BY <1>4 DEF AdmitLost, records, messages, RecordsTypeOK, MessagesTypeOK, flow, human, stops
<1>. QED  BY <1>1, <1>2, <1>3, <1>4 DEF Admission

LEMMA TypeExecution ==
  ASSUME TypeOK, NEW c \in Calls, Execution(c)
  PROVE  TypeOK'
<1> USE DEF TypeOK, StoreTypeOK, AttemptStates
<1>0. /\ ran \in [Calls -> Nat] /\ run \in [Calls -> [Attempts -> AttemptStates]]
      /\ attempt \in [Calls -> 0 .. MaxAttempts]
      /\ heard \in [Calls -> {"pending", "done", "error"}]
  BY DEF AttemptStates
<1>1. ASSUME NEW k \in Attempts, ExecuteTool(c, k)
      PROVE  TypeOK'
  <2>1. PICK p \in AttemptStates : run' = [run EXCEPT ![c][k] = p]
    BY <1>1 DEF ExecuteTool, AttemptStates
  <2>2. run' \in [Calls -> [Attempts -> AttemptStates]]
    BY <2>1, <1>0
  <2>3. ran' = ran \/ ran' = [ran EXCEPT ![c] = @ + 1]
    BY <1>1 DEF ExecuteTool
  <2>4. ran' \in [Calls -> Nat]
    BY <2>3, <1>0
  <2>. QED  BY <1>1, <2>2, <2>4
            DEF ExecuteTool, AttemptStates, records, messages, RecordsTypeOK, MessagesTypeOK, flow, known, human, stops
<1>2. ASSUME NEW k \in Attempts, ExecuteFailed(c, k)
      PROVE  TypeOK'
  <2>1. RecordsTypeOK'
    BY <1>2, UpdateType, ResultTypes DEF ExecuteFailed, SystemResults
  <2>. QED  BY <1>2, <2>1 DEF ExecuteFailed, messages, MessagesTypeOK, flow, known, human, stops
<1>3. ASSUME NEW k \in Attempts, ExecuteWrite(c, k)
      PROVE  TypeOK'
  <2>1. RecordsTypeOK'
    BY <1>3, UpdateType, ResultTypes DEF ExecuteWrite
  <2>. QED  BY <1>3, <2>1 DEF ExecuteWrite, messages, MessagesTypeOK, flow, known, human, stops
<1>4. ASSUME NEW k \in Attempts, ExecuteUnwritten(c, k)
      PROVE  TypeOK'
  BY <1>4 DEF ExecuteUnwritten, records, messages, RecordsTypeOK, MessagesTypeOK, flow, known, human, stops
<1>5. CASE ExecuteReport(c)
  BY <1>5 DEF ExecuteReport, records, messages, RecordsTypeOK, MessagesTypeOK, flow, human, stops
<1>6. CASE ExecuteLost(c)
  <2> HIDE DEF TypeOK, AttemptStates
  <2>1. attempt[c] \in 0 .. MaxAttempts /\ attempt[c] > 0
    BY <1>6, <1>0 DEF ExecuteLost
  <2>2. attempt' \in [Calls -> 0 .. MaxAttempts]
    BY <1>6, <1>0, <2>1, GroupAssumption DEF ExecuteLost
  <2>3. run' \in [Calls -> [Attempts -> AttemptStates]]
    <3>1. CASE attempt[c] < MaxAttempts
      <4>1. PICK k \in Attempts : run' = [run EXCEPT ![c][k] = "started"]
        BY <1>6, <2>1, <3>1, GroupAssumption DEF ExecuteLost
      <4>. QED  BY <4>1, <1>0 DEF AttemptStates
    <3>2. CASE ~(attempt[c] < MaxAttempts)
      BY <1>6, <1>0, <3>2 DEF ExecuteLost
    <3>. QED  BY <3>1, <3>2
  <2>4. heard' \in [Calls -> {"pending", "done", "error"}]
    BY <1>6, <1>0 DEF ExecuteLost
  <2> USE DEF TypeOK, AttemptStates
  <2>. QED  BY <1>6, <2>2, <2>3, <2>4
            DEF ExecuteLost, records, messages, RecordsTypeOK, MessagesTypeOK, flow, human, stops
<1>. QED  BY <1>1, <1>2, <1>3, <1>4, <1>5, <1>6 DEF Execution

LEMMA TypeResolution ==
  ASSUME TypeOK, NEW c \in Calls, Waiting(c) \/ Resolution(c)
  PROVE  TypeOK'
<1> USE DEF TypeOK, StoreTypeOK
<1>1. CASE TakeResolution(c)
  BY <1>1 DEF TakeResolution, records, messages, RecordsTypeOK, MessagesTypeOK, flow, known, stops
<1>2. CASE WaitTimeout(c)
  BY <1>2 DEF WaitTimeout, records, messages, RecordsTypeOK, MessagesTypeOK, flow, known, human, stops
<1>3. CASE WaitCancelled(c)
  BY <1>3 DEF WaitCancelled, records, messages, RecordsTypeOK, MessagesTypeOK, flow, tasks, human, stops
<1>4. CASE ResolveTool(c)
  BY <1>4 DEF ResolveTool, records, messages, RecordsTypeOK, MessagesTypeOK, flow, known, human, stops
<1>5. CASE ResolveWrite(c)
  <2>1. RecordsTypeOK'
    <3>1. CASE resolve[c] = "closing"
      BY <1>5, <3>1, UpdateType, ResultTypes DEF ResolveWrite, ToolResults
    <3>2. CASE resolve[c] # "closing"
      <4>1. PICK r \in IF taken[c] = "timeout" THEN {"timed_out"} ELSE {taken[c], "error", "finish"} :
              FinishWaiting(c, StatusOf(r), r)
        BY <1>5, <3>2 DEF ResolveWrite
      <4>2. r \in Results \cup {NoResult}
        BY ResultTypes DEF SystemResults, ToolResults
      <4>. QED  BY <4>1, <4>2, UpdateType, ResultTypes
    <3>. QED  BY <3>1, <3>2
  <2>. QED  BY <1>5, <2>1 DEF ResolveWrite, messages, MessagesTypeOK, flow, known, human, stops
<1>6. CASE ResolveReport(c)
  BY <1>6 DEF ResolveReport, records, messages, RecordsTypeOK, MessagesTypeOK, flow, human, stops
<1>7. CASE ResolveLost(c)
  BY <1>7 DEF ResolveLost, records, messages, RecordsTypeOK, MessagesTypeOK, flow, tasks, human, stops
<1>. QED  BY <1>1, <1>2, <1>3, <1>4, <1>5, <1>6, <1>7 DEF Waiting, Resolution

LEMMA TypeEnding ==
  ASSUME TypeOK, Ending \/ LocalActivityFails
  PROVE  TypeOK'
<1> USE DEF TypeOK, StoreTypeOK
<1>1. CASE StartWork
  <2>1. /\ heard' \in [Calls -> {"pending", "done", "error"}]
        /\ attempt' \in [Calls -> 0 .. MaxAttempts]
    BY <1>1, GroupAssumption DEF StartWork
  <2>2. run' \in [Calls -> [Attempts -> AttemptStates]]
    <3>1. /\ run \in [Calls -> [Attempts -> AttemptStates]]
          /\ 1 \in Attempts /\ "started" \in AttemptStates
      BY GroupAssumption DEF AttemptStates
    <3>2. CASE run' = run
      BY <3>1, <3>2
    <3>3. CASE run' = [c \in Calls |-> IF admits[c] = "execute"
                          THEN [run[c] EXCEPT ![1] = "started"] ELSE run[c]]
      <4> SUFFICES ASSUME NEW c \in Calls PROVE run'[c] \in [Attempts -> AttemptStates]
        BY <3>3
      <4> HIDE DEF TypeOK
      <4>. QED  BY <3>1, <3>3
    <3>. QED  BY <1>1, <3>2, <3>3 DEF StartWork
  <2>3. /\ stage' \in {"working", "repairing"} /\ verdict' \in {"failed", verdict}
        /\ todo' \in {Calls, todo}
        /\ UNCHANGED <<records, messages, faults, hand, admits, stop, admission, ran, unwritten,
                       resolve, taken, human, stops>>
    BY <1>1 DEF StartWork
  <2>. QED  BY <2>1, <2>2, <2>3 DEF records, messages, RecordsTypeOK, MessagesTypeOK, human, stops
<1>2. CASE Barrier
  BY <1>2 DEF Barrier, records, messages, RecordsTypeOK, MessagesTypeOK, known, tasks, human, stops
<1>3. CASE GroupDone
  BY <1>3 DEF GroupDone, records, messages, RecordsTypeOK, MessagesTypeOK, known, tasks, human, stops
<1>4. CASE RunFinished
  <2>1. sweep' \in [Writers -> {"off", "due", "closing", "pairing", "done", "dead"}]
    <3>1. sweep' = sweep \/ sweep' = [sweep EXCEPT !["workflow"] = "closing"]
      BY <1>4 DEF RunFinished
    <3>. QED  BY <3>1
  <2>2. swept' \in [Writers -> SUBSET Calls]
    <3>1. PICK open \in SUBSET Calls : \/ swept' = swept
                                       \/ swept' = [swept EXCEPT !["workflow"] = open]
      BY <1>4 DEF RunFinished
    <3>2. swept \in [Writers -> SUBSET Calls]
      OBVIOUS
    <3> HIDE DEF TypeOK
    <3>. QED  BY <3>1, <3>2
  <2>. QED  BY <1>4, <2>1, <2>2 DEF RunFinished, records, messages, RecordsTypeOK, MessagesTypeOK, known, tasks, human
<1>5. ASSUME NEW c \in Calls, FinalizeToolGroup(c)
      PROVE  TypeOK'
  <2>1. MessagesTypeOK'
    BY <1>5, AppendType, GroupAssumption DEF FinalizeToolGroup, ToldResult, RecordsTypeOK, Posts
  <2>. QED  BY <1>5, <2>1 DEF FinalizeToolGroup, records, RecordsTypeOK, known, tasks, human, stops
<1>6. ASSUME NEW c \in Calls, RepairClose(c)
      PROVE  TypeOK'
  <2>1. RecordsTypeOK'
    BY <1>6, UpdateType, ResultTypes DEF RepairClose, SystemResults
  <2>. QED  BY <1>6, <2>1 DEF RepairClose, messages, MessagesTypeOK, known, tasks, human, stops
<1>7. ASSUME NEW c \in Calls, RepairAppend(c)
      PROVE  TypeOK'
  <2>1. MessagesTypeOK'
    BY <1>7, AppendType, GroupAssumption DEF RepairAppend, ToldResult, RecordsTypeOK, Posts
  <2>. QED  BY <1>7, <2>1 DEF RepairAppend, records, RecordsTypeOK, known, tasks, human, stops
<1>8. CASE LocalActivityFails
  <2>1. MessagesTypeOK'
    BY <1>8 DEF LocalActivityFails, MessagesTypeOK
  <2>2. faults' \in 0 .. MaxFaults
    BY <1>8, GroupAssumption DEF LocalActivityFails
  <2>. QED  BY <1>8, <2>1, <2>2 DEF LocalActivityFails, records, RecordsTypeOK, known, tasks, human, stops
<1>. QED  BY <1>1, <1>2, <1>3, <1>4, <1>5, <1>6, <1>7, <1>8 DEF Ending

LEMMA TypeSweep ==
  ASSUME TypeOK, NEW w \in Writers, Sweep(w) \/ SweepFails
  PROVE  TypeOK'
<1> USE DEF TypeOK, StoreTypeOK
<1>1. CASE SweepScan(w)
  BY <1>1 DEF SweepScan, records, messages, RecordsTypeOK, MessagesTypeOK, flow, known, tasks, human
<1>2. CASE SweepDone(w)
  BY <1>2 DEF SweepDone, records, messages, RecordsTypeOK, MessagesTypeOK, known, tasks, human
<1>3. CASE Insert(w)
  <2>1. MessagesTypeOK'
    BY <1>3, InsertType DEF Insert
  <2>. QED  BY <1>3, <2>1 DEF Insert, records, RecordsTypeOK, flow, known, tasks, human, stops
<1>4. ASSUME NEW c \in Calls, SweepClose(w, c)
      PROVE  TypeOK'
  <2>1. RecordsTypeOK'
    BY <1>4, UpdateType, ResultTypes DEF SweepClose, SystemResults
  <2>. QED  BY <1>4, <2>1 DEF SweepClose, messages, MessagesTypeOK, flow, known, tasks, human
<1>5. ASSUME NEW c \in Calls, SweepPair(w, c)
      PROVE  TypeOK'
  <2>1. MessagesTypeOK'
    BY <1>5, AppendType DEF SweepPair, RecordsTypeOK, Posts, Results, SystemResults
  <2>. QED  BY <1>5, <2>1 DEF SweepPair, records, RecordsTypeOK, flow, known, tasks, human
<1>6. CASE SweepFails
  <2>1. MessagesTypeOK'
    BY <1>6 DEF SweepFails, MessagesTypeOK
  <2>2. faults' \in 0 .. MaxFaults
    BY <1>6, GroupAssumption DEF SweepFails
  <2>. QED  BY <1>6, <2>1, <2>2 DEF SweepFails, records, RecordsTypeOK, known, tasks, human
<1>. QED  BY <1>1, <1>2, <1>3, <1>4, <1>5, <1>6 DEF Sweep

LEMMA TypeClient ==
  ASSUME TypeOK, Client \/ WorkflowCancelled
  PROVE  TypeOK'
<1> USE DEF TypeOK, StoreTypeOK
<1>1. CASE CancelSignal
  BY <1>1 DEF CancelSignal, records, messages, RecordsTypeOK, MessagesTypeOK, flow, known, tasks, human
<1>2. CASE CancelThread
  BY <1>2 DEF CancelThread, records, messages, RecordsTypeOK, MessagesTypeOK, flow, known, tasks, human
<1>3. CASE CancelThreadSweep
  BY <1>3 DEF CancelThreadSweep, records, messages, RecordsTypeOK, MessagesTypeOK, flow, known, tasks, human
<1>4. CASE ClientDies
  <2>1. MessagesTypeOK'
    BY <1>4 DEF ClientDies, MessagesTypeOK
  <2>. QED  BY <1>4, <2>1 DEF ClientDies, records, RecordsTypeOK, flow, known, tasks, human
<1>5. ASSUME NEW c \in Calls, NEW a \in Answers, ResolveToolCall(c, a)
      PROVE  TypeOK'
  BY <1>5 DEF ResolveToolCall, records, messages, RecordsTypeOK, MessagesTypeOK, flow, known, tasks, stops
<1>6. ASSUME NEW c \in Calls, NEW a \in Answers, ResolveSignal(c, a)
      PROVE  TypeOK'
  <2>1. resolutions' \in [Calls -> Answers \cup {None}] /\ first' \in [Calls -> Answers \cup {None}]
    BY <1>6 DEF ResolveSignal
  <2>2. /\ mail' \subseteq mail
        /\ UNCHANGED <<records, messages, flow, known, tasks, stops>>
    BY <1>6 DEF ResolveSignal
  <2>. QED  BY <2>1, <2>2 DEF records, messages, RecordsTypeOK, MessagesTypeOK, flow, known, tasks, stops
<1>7. CASE WorkflowCancelled
  <2>1. MessagesTypeOK'
    BY <1>7 DEF WorkflowCancelled, MessagesTypeOK
  <2>2. sweep' \in [Writers -> {"off", "due", "closing", "pairing", "done", "dead"}]
    <3>1. sweep' = sweep \/ sweep' = [sweep EXCEPT !["workflow"] = "due"]
      BY <1>7 DEF WorkflowCancelled
    <3>. QED  BY <3>1
  <2>3. /\ stage' \in {"admitting", "working", "finalizing", "repairing", "sweeping", "closed"}
        /\ verdict' \in {None, "continue", "completed", "failed", "cancelled", "aborted"}
        /\ todo' \subseteq Calls /\ hand' \subseteq Calls
    BY <1>7 DEF WorkflowCancelled
  <2>. QED  BY <1>7, <2>1, <2>2, <2>3 DEF WorkflowCancelled, records, RecordsTypeOK, known, tasks, human
<1>. QED  BY <1>1, <1>2, <1>3, <1>4, <1>5, <1>6, <1>7 DEF Client

LEMMA TypeStutter ==
  ASSUME TypeOK, UNCHANGED vars
  PROVE  TypeOK'
BY DEF TypeOK, StoreTypeOK, RecordsTypeOK, MessagesTypeOK, vars, records, messages,
       flow, known, tasks, human, stops

LEMMA TypeStep == TypeOK /\ [Next]_vars => TypeOK'
BY TypeAdmission, TypeExecution, TypeResolution, TypeEnding, TypeSweep, TypeClient,
   TypeStutter, GroupAssumption DEF Next

\* Every variable of a group keeps its type.
THEOREM TypeCorrect == Spec => []TypeOK
<1>1. Init => TypeOK
  BY TypeInit
<1>2. TypeOK /\ [Next]_vars => TypeOK'
  BY TypeStep
<1>. QED  BY <1>1, <1>2, PTL DEF Spec

-----------------------------------------------------------------------------
(* The invariant.                                                          *)

\* A record has a result exactly when it is settled.
ResultWritten == \A c \in Calls : result[c] = NoResult <=> ~Settled(c)

\* Which activity a call has follows from its verdict.
Admitted ==
  \A c \in Calls :
    /\ admits[c] \in Verdict => admission[c] = "over"
    /\ admits[c] = "error" => admission[c] \in {"adrift", "over"}
    /\ taken[c] # None <=> resolve[c] # "idle"
    /\ resolve[c] # "idle" => admits[c] = "await"
    /\ \A k \in Attempts : run[c][k] # "idle" => stage # "admitting" /\ admits[c] = "execute"
    /\ attempt[c] # 0 => stage # "admitting" /\ admits[c] = "execute"

\* What an activity reports of a call is stored.
Written ==
  \A c \in Calls :
    /\ \A k \in Attempts : /\ run[c][k] = "wrote" => Settled(c)
                           /\ run[c][k] = "unwritten" => c \in unwritten
    /\ resolve[c] = "wrote" => Settled(c)
    /\ resolve[c] = "body" => Settled(c) \/ status[c] = "waiting"
    /\ c \notin unwritten =>
         /\ admission[c] = "deny" \/ admits[c] = "deny" => Settled(c)
         /\ heard[c] = "done" => Settled(c) \/ cancelled

\* Whoever pairs a call in the transcript has found it settled.
Closed ==
  /\ \A c \in hand : Settled(c)
  /\ \A w \in Writers :
       /\ sweep[w] = "closing" => \A c \in Calls \ swept[w] : Settled(c)
       /\ sweep[w] = "pairing" => \A c \in Calls : Settled(c)

\* What is about to be told is what the record holds.
Posting ==
  \A w \in Writers : \A e \in posting[w] :
    e[1] \notin unwritten => Settled(e[1]) /\ e[2] = result[e[1]]

StoreInv == /\ TypeOK /\ ResultWritten /\ Admitted /\ Written /\ Closed
            /\ BarrierDrained /\ Posting /\ TranscriptAgrees

\* The body of a call that may not be retried has not been entered while its
\* first attempt has yet to start.
BodyInv ==
  \A c \in Calls :
    /\ c \notin RetrySafe => ran[c] <= 1
    /\ ran[c] > 0 => admits[c] = "execute"
    /\ run[c][1] \in {"idle", "started"} /\ c \notin RetrySafe => ran[c] = 0

\* The first answer is kept, taken or made void by a result.
AnswerInv(c) ==
  /\ resolutions[c] # None => resolutions[c] = first[c]
  /\ first[c] # None /\ resolutions[c] = None => taken[c] \in Answers \/ resolve[c] = "over"
  /\ taken[c] \in Answers => taken[c] = first[c]
  /\ result[c] \in Answers => result[c] = first[c]

-----------------------------------------------------------------------------
(* How a step may change the records.                                      *)

RecordStep ==
  \/ UNCHANGED records
  \/ \E c \in Calls, s \in Terminal, r \in Results :
       /\ r \in Answers => r = taken[c]
       /\ UpdateStatus(c, s, r) \/ FinishWaiting(c, s, r)
  \/ \E c \in Calls, s \in {"running", "waiting"} :
       admission[c] \in {"started", "adrift"} /\ UpdateStatus(c, s, NoResult)

\* Every step is one: results are written with terminal statuses only, and an
\* answer is the one that was taken.
LEMMA NextRecords ==
  ASSUME TypeOK, Admitted, [Next]_vars
  PROVE  RecordStep
<1> USE DEF RecordStep
<1>0. (ToolResults \cup SystemResults) \cap Answers = {}
  BY StoreAssumption
<1>1. ASSUME NEW c \in Calls, Admission(c)
      PROVE  RecordStep
  <2>1. CASE AdmitTool(c)
    <3>1. PICK v \in Verdicts[c] :
            /\ admission[c] \in {"started", "adrift"}
            /\ CASE v = "execute" -> UpdateStatus(c, "running", NoResult)
                 [] v = "await"   -> UpdateStatus(c, "waiting", NoResult)
                 [] v = "deny"    -> UpdateStatus(c, "blocked", "denied")
      BY <2>1 DEF AdmitTool
    <3>2. v \in Verdict /\ "denied" \in Results
      BY GroupAssumption DEF Results, SystemResults
    <3>3. "denied" \notin Answers
      BY <1>0 DEF SystemResults
    <3>. QED  BY <3>1, <3>2, <3>3
  <2>2. CASE AdmitUnwritten(c) \/ AdmitReport(c) \/ AdmitLost(c)
    BY <2>2 DEF AdmitUnwritten, AdmitReport, AdmitLost
  <2>. QED  BY <1>1, <2>1, <2>2 DEF Admission
<1>2. ASSUME NEW c \in Calls, Execution(c)
      PROVE  RecordStep
  <2>1. ASSUME NEW k \in Attempts, ExecuteFailed(c, k)
        PROVE  RecordStep
    BY <1>0, <2>1 DEF ExecuteFailed, Results, SystemResults
  <2>2. ASSUME NEW k \in Attempts, ExecuteWrite(c, k)
        PROVE  RecordStep
    BY <1>0, <2>2, ResultTypes DEF ExecuteWrite
  <2>3. CASE ~ \E k \in Attempts : ExecuteFailed(c, k) \/ ExecuteWrite(c, k)
    BY <1>2, <2>3 DEF Execution, ExecuteTool, ExecuteUnwritten, ExecuteReport, ExecuteLost
  <2>. QED  BY <2>1, <2>2, <2>3
<1>3. ASSUME NEW c \in Calls, Waiting(c) \/ Resolution(c)
      PROVE  RecordStep
  <2>1. CASE ResolveWrite(c)
    <3>1. CASE resolve[c] = "closing"
      BY <1>0, <2>1, <3>1 DEF ResolveWrite, Results, ToolResults
    <3>2. CASE resolve[c] = "body"
      <4>1. PICK r \in IF taken[c] = "timeout" THEN {"timed_out"} ELSE {taken[c], "error", "finish"} :
              FinishWaiting(c, StatusOf(r), r)
        BY <2>1, <3>2 DEF ResolveWrite
      <4>2. taken[c] \in Answers \cup {"timeout"}
        BY <3>2 DEF Admitted, TypeOK
      <4>3. r \in Results
        BY <4>2, ResultTypes DEF Results, SystemResults, ToolResults
      <4>4. r \in Answers => r = taken[c]
        BY <1>0, <4>1 DEF SystemResults, ToolResults
      <4>. QED  BY <4>1, <4>3, <4>4, ResultTypes
    <3>. QED  BY <2>1, <3>1, <3>2 DEF ResolveWrite
  <2>2. CASE ~ResolveWrite(c)
    BY <1>3, <2>2 DEF Waiting, Resolution, TakeResolution, WaitTimeout, WaitCancelled,
                      ResolveTool, ResolveReport, ResolveLost
  <2>. QED  BY <2>1, <2>2
<1>4. CASE Ending \/ LocalActivityFails
  <2>1. ASSUME NEW c \in Calls, RepairClose(c)
        PROVE  RecordStep
    BY <1>0, <2>1 DEF RepairClose, Results, SystemResults
  <2>2. CASE ~ \E c \in Calls : RepairClose(c)
    BY <1>4, <2>2 DEF Ending, StartWork, Barrier, GroupDone, RunFinished, FinalizeToolGroup,
                      RepairAppend, LocalActivityFails
  <2>. QED  BY <2>1, <2>2
<1>5. ASSUME NEW w \in Writers, Sweep(w)
      PROVE  RecordStep
  <2>1. ASSUME NEW c \in Calls, SweepClose(w, c)
        PROVE  RecordStep
    BY <1>0, <2>1 DEF SweepClose, Results, SystemResults
  <2>2. CASE ~ \E c \in Calls : SweepClose(w, c)
    BY <1>5, <2>2 DEF Sweep, SweepScan, SweepDone, Insert, SweepPair
  <2>. QED  BY <2>1, <2>2
<1>6. CASE SweepFails \/ WorkflowCancelled \/ Client
  BY <1>6 DEF SweepFails, WorkflowCancelled, Client, CancelSignal, CancelThread,
              CancelThreadSweep, ClientDies, ResolveToolCall, ResolveSignal
<1>7. CASE UNCHANGED vars
  BY <1>7 DEF vars
<1>. QED  BY <1>1, <1>2, <1>3, <1>4, <1>5, <1>6, <1>7 DEF Next

\* A settled record stays as it is.
LEMMA RecordStable ==
  ASSUME TypeOK, RecordStep, NEW c \in Calls, Settled(c)
  PROVE  status'[c] = status[c] /\ result'[c] = result[c] /\ Settled(c)'
<1> USE DEF TypeOK, StoreTypeOK, RecordsTypeOK
<1>1. CASE UNCHANGED records
  BY <1>1 DEF records, Settled
<1>2. ASSUME NEW d \in Calls, NEW s, NEW r, UpdateStatus(d, s, r) \/ FinishWaiting(d, s, r)
      PROVE  status'[c] = status[c] /\ result'[c] = result[c] /\ Settled(c)'
  BY <1>2 DEF UpdateStatus, FinishWaiting, SetRecord, records, Settled
<1>. QED  BY <1>1, <1>2 DEF RecordStep

\* A step that writes a result settles, and the other way round.
LEMMA RecordResult ==
  ASSUME TypeOK, ResultWritten, RecordStep
  PROVE  ResultWritten'
<1> USE DEF TypeOK, StoreTypeOK, RecordsTypeOK, ResultWritten
<1>1. CASE UNCHANGED records
  BY <1>1 DEF records, Settled
<1>2. ASSUME NEW c \in Calls, NEW s \in Terminal, NEW r \in Results,
             UpdateStatus(c, s, r) \/ FinishWaiting(c, s, r)
      PROVE  ResultWritten'
  <2>1. r # NoResult
    BY StoreAssumption DEF Results, ToolResults, SystemResults
  <2>. QED  BY <1>2, <2>1 DEF UpdateStatus, FinishWaiting, SetRecord, records, Settled
<1>3. ASSUME NEW c \in Calls, NEW s \in {"running", "waiting"}, UpdateStatus(c, s, NoResult)
      PROVE  ResultWritten'
  BY <1>3 DEF UpdateStatus, SetRecord, records, Settled
<1>. QED  BY <1>1, <1>2, <1>3 DEF RecordStep

\* A call that waits goes on waiting until it is settled.
LEMMA RecordWaiting ==
  ASSUME TypeOK, RecordStep, NEW c \in Calls, status[c] = "waiting", admission[c] = "over"
  PROVE  status'[c] = "waiting" \/ Settled(c)'
<1> USE DEF TypeOK, StoreTypeOK, RecordsTypeOK
<1>1. CASE UNCHANGED records
  BY <1>1 DEF records
<1>2. ASSUME NEW d \in Calls, NEW s \in Terminal, NEW r \in Results,
             UpdateStatus(d, s, r) \/ FinishWaiting(d, s, r)
      PROVE  status'[c] = "waiting" \/ Settled(c)'
  BY <1>2 DEF UpdateStatus, FinishWaiting, SetRecord, records, Settled
<1>3. ASSUME NEW d \in Calls, NEW s \in {"running", "waiting"},
             admission[d] \in {"started", "adrift"}, UpdateStatus(d, s, NoResult)
      PROVE  status'[c] = "waiting" \/ Settled(c)'
  BY <1>3 DEF UpdateStatus, SetRecord, records, Settled
<1>. QED  BY <1>1, <1>2, <1>3 DEF RecordStep

\* An answer that is stored was the one taken.
LEMMA RecordAnswer ==
  ASSUME TypeOK, RecordStep, NEW c \in Calls, result'[c] \in Answers
  PROVE  result'[c] \in {result[c], taken[c]}
<1> USE DEF TypeOK, StoreTypeOK, RecordsTypeOK
<1>1. CASE UNCHANGED records
  BY <1>1 DEF records
<1>2. ASSUME NEW d \in Calls, NEW s \in Terminal, NEW r \in Results, r \in Answers => r = taken[d],
             UpdateStatus(d, s, r) \/ FinishWaiting(d, s, r)
      PROVE  result'[c] \in {result[c], taken[c]}
  BY <1>2 DEF UpdateStatus, FinishWaiting, SetRecord, records
<1>3. ASSUME NEW d \in Calls, NEW s \in {"running", "waiting"}, UpdateStatus(d, s, NoResult)
      PROVE  result'[c] \in {result[c], taken[c]}
  BY <1>3 DEF UpdateStatus, SetRecord, records
<1>. QED  BY <1>1, <1>2, <1>3 DEF RecordStep

\* A terminal status that is written settles the call.
LEMMA WriteSettles ==
  ASSUME TypeOK, NEW c \in Calls, NEW s \in Terminal, NEW r,
         \/ UpdateStatus(c, s, r)
         \/ FinishWaiting(c, s, r) /\ status[c] = "waiting"
  PROVE  Settled(c)'
BY DEF TypeOK, StoreTypeOK, RecordsTypeOK, UpdateStatus, FinishWaiting, SetRecord, records, Settled

\* Neither an unstored outcome nor the cancel signal is forgotten.
LEMMA NextRemembers ==
  ASSUME [Next]_vars
  PROVE  /\ unwritten \subseteq unwritten'
         /\ cancelled => cancelled'
<1> DEFINE Kept == unwritten \subseteq unwritten' /\ (cancelled => cancelled')
<1>1. ASSUME NEW c \in Calls, Admission(c) \/ Execution(c)
      PROVE  Kept
  <2>1. CASE Admission(c)
    <3>1. CASE AdmitTool(c)
      BY <3>1 DEF AdmitTool, stops
    <3>2. CASE AdmitUnwritten(c) \/ AdmitReport(c) \/ AdmitLost(c)
      BY <3>2 DEF AdmitUnwritten, AdmitReport, AdmitLost, stops
    <3>. QED  BY <2>1, <3>1, <3>2 DEF Admission
  <2>2. ASSUME NEW k \in Attempts,
               ExecuteTool(c, k) \/ ExecuteFailed(c, k) \/ ExecuteWrite(c, k) \/ ExecuteUnwritten(c, k)
        PROVE  Kept
    BY <2>2 DEF ExecuteTool, ExecuteFailed, ExecuteWrite, ExecuteUnwritten, stops
  <2>3. CASE ExecuteReport(c) \/ ExecuteLost(c)
    BY <2>3 DEF ExecuteReport, ExecuteLost, stops
  <2>. QED  BY <1>1, <2>1, <2>2, <2>3 DEF Execution
<1>2. ASSUME NEW c \in Calls, Waiting(c) \/ Resolution(c)
      PROVE  Kept
  BY <1>2 DEF Waiting, TakeResolution, WaitTimeout, WaitCancelled, stops, tasks,
              Resolution, ResolveTool, ResolveWrite, ResolveReport, ResolveLost
<1>3. CASE Ending \/ LocalActivityFails \/ SweepFails \/ WorkflowCancelled
  BY <1>3 DEF Ending, StartWork, Barrier, GroupDone, RunFinished, FinalizeToolGroup, RepairClose,
              RepairAppend, LocalActivityFails, SweepFails, WorkflowCancelled, stops, tasks
<1>4. ASSUME NEW w \in Writers, Sweep(w)
      PROVE  Kept
  BY <1>4 DEF Sweep, SweepScan, SweepDone, Insert, SweepClose, SweepPair, stops, tasks
<1>5. CASE Client
  <2>1. ASSUME NEW c \in Calls, NEW a \in Answers, ResolveToolCall(c, a) \/ ResolveSignal(c, a)
        PROVE  Kept
    BY <2>1 DEF ResolveToolCall, ResolveSignal, stops, tasks
  <2>2. CASE CancelSignal \/ CancelThread \/ CancelThreadSweep \/ ClientDies
    BY <2>2 DEF CancelSignal, CancelThread, CancelThreadSweep, ClientDies, tasks
  <2>. QED  BY <1>5, <2>1, <2>2 DEF Client
<1>6. CASE UNCHANGED vars
  BY <1>6 DEF vars, stops, tasks
<1>. QED  BY <1>1, <1>2, <1>3, <1>4, <1>5, <1>6 DEF Next

-----------------------------------------------------------------------------
(* Which activity a call has.                                              *)

\* Only a call's own steps and the start of the work touch its activities.
LEMMA ActivityFrame ==
  ASSUME [Next]_vars
  PROVE  \/ \E c \in Calls : Admission(c) \/ Execution(c) \/ Waiting(c) \/ Resolution(c)
         \/ StartWork
         \/ /\ UNCHANGED <<admits, heard, tasks>>
            /\ stage # "admitting" => stage' # "admitting"
<1>1. CASE Ending \/ LocalActivityFails \/ SweepFails \/ WorkflowCancelled
  BY <1>1 DEF Ending, Barrier, GroupDone, RunFinished, FinalizeToolGroup, RepairClose,
              RepairAppend, LocalActivityFails, SweepFails, WorkflowCancelled, known, tasks
<1>2. ASSUME NEW w \in Writers, Sweep(w)
      PROVE  /\ UNCHANGED <<admits, heard, tasks>>
             /\ stage # "admitting" => stage' # "admitting"
  BY <1>2 DEF Sweep, SweepScan, SweepDone, Insert, SweepClose, SweepPair, flow, known, tasks
<1>3. CASE Client
  <2>1. ASSUME NEW c \in Calls, NEW a \in Answers, ResolveToolCall(c, a) \/ ResolveSignal(c, a)
        PROVE  UNCHANGED <<stage, admits, heard, tasks>>
    BY <2>1 DEF ResolveToolCall, ResolveSignal, flow, known
  <2>2. CASE CancelSignal \/ CancelThread \/ CancelThreadSweep \/ ClientDies
    BY <2>2 DEF CancelSignal, CancelThread, CancelThreadSweep, ClientDies, flow, known
  <2>. QED  BY <1>3, <2>1, <2>2 DEF Client
<1>4. CASE UNCHANGED vars
  BY <1>4 DEF vars, flow, known, tasks
<1>. QED  BY <1>1, <1>2, <1>3, <1>4 DEF Next

LEMMA AdmittedStep ==
  ASSUME TypeOK, Admitted, [Next]_vars
  PROVE  Admitted'
<1> USE DEF Admitted
<1>1. ASSUME NEW c \in Calls, Admission(c)
      PROVE  Admitted'
  <2>1. CASE AdmitTool(c) \/ AdmitUnwritten(c)
    <3>1. PICK v \in Verdict \cup {"over"} :
            /\ admission[c] \in {"started", "adrift"}
            /\ admission' = [admission EXCEPT ![c] = v]
            /\ admission[c] = "adrift" => v = "over"
      BY <2>1, GroupAssumption DEF AdmitTool, AdmitUnwritten
    <3>2. UNCHANGED <<stage, admits, taken, resolve, attempt, run>>
      BY <2>1 DEF AdmitTool, AdmitUnwritten, flow, known
    <3>. QED  BY <3>1, <3>2 DEF TypeOK
  <2>2. CASE AdmitReport(c)
    BY <2>2 DEF AdmitReport, flow, TypeOK
  <2>3. CASE AdmitLost(c)
    BY <2>3 DEF AdmitLost, flow, TypeOK
  <2>. QED  BY <1>1, <2>1, <2>2, <2>3 DEF Admission
<1>2. ASSUME NEW c \in Calls, Execution(c)
      PROVE  Admitted'
  <2>1. UNCHANGED <<stage, admits, admission, taken, resolve>>
    BY <1>2 DEF Execution, ExecuteTool, ExecuteFailed, ExecuteWrite, ExecuteUnwritten, ExecuteReport,
                ExecuteLost, flow, known
  <2>2. stage # "admitting" /\ admits[c] = "execute"
    BY <1>2 DEF Execution, ExecuteTool, ExecuteFailed, ExecuteWrite, ExecuteUnwritten, ExecuteReport,
                ExecuteLost, TypeOK
  <2>3. \A d \in Calls : d # c => run'[d] = run[d] /\ attempt'[d] = attempt[d]
    <3>1. ASSUME NEW k \in Attempts,
                 ExecuteTool(c, k) \/ ExecuteFailed(c, k) \/ ExecuteWrite(c, k) \/ ExecuteUnwritten(c, k)
          PROVE  \A d \in Calls : d # c => run'[d] = run[d] /\ attempt'[d] = attempt[d]
      BY <3>1 DEF ExecuteTool, ExecuteFailed, ExecuteWrite, ExecuteUnwritten, TypeOK
    <3>2. CASE ExecuteReport(c) \/ ExecuteLost(c)
      BY <3>2 DEF ExecuteReport, ExecuteLost, TypeOK
    <3>. QED  BY <1>2, <3>1, <3>2 DEF Execution
  <2>. QED  BY <2>1, <2>2, <2>3
<1>3. ASSUME NEW c \in Calls, Waiting(c) \/ Resolution(c)
      PROVE  Admitted'
  <2>1. UNCHANGED <<stage, admits, admission, attempt, run>>
    BY <1>3 DEF Waiting, TakeResolution, WaitTimeout, WaitCancelled, tasks, flow, known,
                Resolution, ResolveTool, ResolveWrite, ResolveReport, ResolveLost
  <2>2. CASE TakeResolution(c)
    BY <2>1, <2>2, GroupAssumption DEF TakeResolution, Waits, TypeOK
  <2>3. CASE WaitTimeout(c)
    BY <2>1, <2>3 DEF WaitTimeout, Waits, TypeOK
  <2>4. CASE WaitCancelled(c) \/ ResolveLost(c)
    BY <2>1, <2>4 DEF WaitCancelled, ResolveLost, tasks
  <2>5. CASE ResolveTool(c) \/ ResolveWrite(c) \/ ResolveReport(c)
    BY <2>1, <2>5 DEF ResolveTool, ResolveWrite, ResolveReport, TypeOK
  <2>. QED  BY <1>3, <2>2, <2>3, <2>4, <2>5 DEF Waiting, Resolution
<1>4. CASE StartWork
  <2>1. UNCHANGED <<admits, admission, taken, resolve>> /\ stage' # "admitting"
    BY <1>4 DEF StartWork
  <2>2. \A d \in Calls, k \in Attempts :
          run'[d][k] # "idle" => run[d][k] # "idle" \/ admits[d] = "execute"
    BY <1>4 DEF StartWork, TypeOK
  <2>3. \A d \in Calls : attempt'[d] # 0 => attempt[d] # 0 \/ admits[d] = "execute"
    BY <1>4 DEF StartWork, TypeOK
  <2>. QED  BY <2>1, <2>2, <2>3
<1>5. CASE /\ UNCHANGED <<admits, heard, tasks>>
           /\ stage # "admitting" => stage' # "admitting"
  BY <1>5 DEF tasks
<1>. QED  BY <1>1, <1>2, <1>3, <1>4, <1>5, ActivityFrame

-----------------------------------------------------------------------------
(* What is reported is stored.                                             *)

\* Nothing that Written says of a call's own step can be undone by another.
StillTrue(c) ==
  /\ Settled(c) => Settled(c)'
  /\ c \in unwritten => c \in unwritten'
  /\ cancelled => cancelled'
  /\ resolve[c] = "body" /\ status[c] = "waiting" => Settled(c)' \/ status'[c] = "waiting"

LEMMA NextStillTrue ==
  ASSUME TypeOK, Admitted, [Next]_vars, NEW c \in Calls
  PROVE  StillTrue(c)
BY NextRecords, NextRemembers, RecordStable, RecordWaiting DEF StillTrue, Admitted

LEMMA WrittenStep ==
  ASSUME TypeOK, Admitted, Written, [Next]_vars
  PROVE  Written'
<1>0. \A c \in Calls : StillTrue(c)
  BY NextStillTrue
<1> USE DEF Written, StillTrue
<1>1. ASSUME NEW c \in Calls, Admission(c)
      PROVE  Written'
  <2>1. CASE AdmitTool(c)
    <3>1. UNCHANGED <<admits, heard, run, resolve, unwritten>>
      BY <2>1 DEF AdmitTool, known
    <3>2. \A d \in Calls : d # c => admission'[d] = admission[d]
      BY <2>1 DEF AdmitTool, TypeOK
    <3>3. admission'[c] = "deny" => Settled(c)'
      <4>1. PICK v \in Verdicts[c] :
              /\ v = "deny" => UpdateStatus(c, "blocked", "denied")
              /\ admission' = [admission EXCEPT ![c] =
                   IF @ = "adrift" THEN "over" ELSE IF Settled(c) THEN "deny" ELSE v]
        BY <2>1, GroupAssumption DEF AdmitTool
      <4>2. v = "deny" => Settled(c)'
        BY <4>1, WriteSettles
      <4>. QED  BY <1>0, <4>1, <4>2 DEF TypeOK
    <3>. QED  BY <1>0, <3>1, <3>2, <3>3
  <2>2. CASE AdmitUnwritten(c)
    BY <1>0, <2>2 DEF AdmitUnwritten, known, TypeOK
  <2>3. CASE AdmitReport(c)
    BY <1>0, <2>3 DEF AdmitReport, TypeOK
  <2>4. CASE AdmitLost(c)
    BY <1>0, <2>4 DEF AdmitLost, TypeOK
  <2>. QED  BY <1>1, <2>1, <2>2, <2>3, <2>4 DEF Admission
<1>2. ASSUME NEW c \in Calls, Execution(c)
      PROVE  Written'
  <2>1. ASSUME NEW k \in Attempts,
               ExecuteTool(c, k) \/ ExecuteFailed(c, k) \/ ExecuteWrite(c, k) \/ ExecuteUnwritten(c, k)
        PROVE  Written'
    <3>1. UNCHANGED <<admits, heard, admission, resolve>>
      BY <2>1 DEF ExecuteTool, ExecuteFailed, ExecuteWrite, ExecuteUnwritten, known
    <3>2. \A d \in Calls, j \in Attempts : d # c \/ j # k => run'[d][j] = run[d][j]
      <4>1. PICK p \in AttemptStates : run' = [run EXCEPT ![c][k] = p]
        BY <2>1 DEF ExecuteTool, ExecuteFailed, ExecuteWrite, ExecuteUnwritten, AttemptStates
      <4>. QED  BY <4>1 DEF TypeOK
    <3>3. /\ run'[c][k] = "wrote" => Settled(c)'
          /\ run'[c][k] = "unwritten" => c \in unwritten'
      <4>1. CASE ExecuteTool(c, k)
        <5>1. \/ run' = [run EXCEPT ![c][k] = "wrote"] /\ Settled(c)
              \/ run' = [run EXCEPT ![c][k] = "closing"]
              \/ run' = [run EXCEPT ![c][k] = "body"]
          BY <4>1 DEF ExecuteTool
        <5>2. run \in [Calls -> [Attempts -> AttemptStates]]
          BY DEF TypeOK
        <5>. QED  BY <1>0, <5>1, <5>2
      <4>2. CASE ExecuteFailed(c, k)
        <5>1. Settled(c)'
          BY <4>2, WriteSettles DEF ExecuteFailed
        <5>. QED  BY <4>2, <5>1 DEF ExecuteFailed, TypeOK
      <4>3. CASE ExecuteWrite(c, k)
        <5>1. Settled(c)'
          BY <4>3, WriteSettles, ResultTypes DEF ExecuteWrite
        <5>. QED  BY <4>3, <5>1 DEF ExecuteWrite, TypeOK
      <4>4. CASE ExecuteUnwritten(c, k)
        BY <4>4 DEF ExecuteUnwritten, TypeOK
      <4>. QED  BY <2>1, <4>1, <4>2, <4>3, <4>4
    <3>. QED  BY <1>0, <3>1, <3>2, <3>3
  <2>2. CASE ExecuteReport(c)
    <3>1. attempt[c] \in Attempts
      BY <2>2 DEF ExecuteReport, TypeOK
    <3>2. PICK k \in Attempts : /\ run[c][k] \in {"wrote", "unwritten"}
                                /\ run' = [run EXCEPT ![c][k] = "over"]
      BY <2>2, <3>1 DEF ExecuteReport
    <3>3. heard' = [heard EXCEPT ![c] = "done"] /\ UNCHANGED <<admits, admission, resolve>>
      BY <2>2 DEF ExecuteReport
    <3>. QED  BY <1>0, <3>2, <3>3 DEF TypeOK
  <2>3. CASE ExecuteLost(c)
    <3>1. UNCHANGED <<admits, admission, resolve, unwritten>>
      BY <2>3 DEF ExecuteLost
    <3>2. \A d \in Calls : heard'[d] = "done" => heard[d] = "done"
      BY <2>3 DEF ExecuteLost, TypeOK
    <3>3. \A d \in Calls, k \in Attempts : run'[d][k] # "started" => run'[d][k] = run[d][k]
      <4>1. attempt[c] \in 0 .. MaxAttempts /\ run \in [Calls -> [Attempts -> AttemptStates]]
        BY DEF TypeOK
      <4>2. \/ run' = run
            \/ \E k \in Attempts : run' = [run EXCEPT ![c][k] = "started"]
        BY <2>3, <4>1, GroupAssumption DEF ExecuteLost
      <4>. QED  BY <4>1, <4>2
    <3>. QED  BY <1>0, <3>1, <3>2, <3>3
  <2>. QED  BY <1>2, <2>1, <2>2, <2>3 DEF Execution
<1>3. ASSUME NEW c \in Calls, Waiting(c) \/ Resolution(c)
      PROVE  Written'
  <2>1. UNCHANGED <<admits, admission, run, unwritten>>
    BY <1>3 DEF Waiting, TakeResolution, WaitTimeout, WaitCancelled, tasks, known,
                Resolution, ResolveTool, ResolveWrite, ResolveReport, ResolveLost
  <2>2. CASE TakeResolution(c) \/ WaitTimeout(c)
    <3>1. heard' = heard /\ resolve' = [resolve EXCEPT ![c] = "started"]
      BY <2>2 DEF TakeResolution, WaitTimeout, known
    <3>. QED  BY <1>0, <2>1, <3>1 DEF TypeOK
  <2>3. CASE WaitCancelled(c) \/ ResolveLost(c)
    BY <1>0, <2>1, <2>3 DEF WaitCancelled, ResolveLost, Waits, tasks, TypeOK
  <2>4. CASE ResolveTool(c)
    <3>1. \A d \in Calls : d # c => resolve'[d] = resolve[d]
      BY <2>4 DEF ResolveTool, TypeOK
    <3>2. /\ resolve'[c] = "wrote" => Settled(c)
          /\ resolve'[c] = "body" => status[c] = "waiting" /\ status' = status
      BY <2>4 DEF ResolveTool, TypeOK, records
    <3>3. heard' = heard
      BY <2>4 DEF ResolveTool, known
    <3>. QED  BY <1>0, <2>1, <3>1, <3>2, <3>3
  <2>5. CASE ResolveWrite(c)
    <3>1. Settled(c)'
      BY <1>0, <2>5, WriteSettles, ResultTypes DEF ResolveWrite
    <3>. QED  BY <1>0, <2>1, <2>5, <3>1 DEF ResolveWrite, known, TypeOK
  <2>6. CASE ResolveReport(c)
    BY <1>0, <2>1, <2>6 DEF ResolveReport, TypeOK
  <2>. QED  BY <1>3, <2>2, <2>3, <2>4, <2>5, <2>6 DEF Waiting, Resolution
<1>4. CASE StartWork
  <2>1. UNCHANGED <<admits, admission, resolve, unwritten>>
    BY <1>4 DEF StartWork
  <2>2. \A d \in Calls : heard'[d] = "done" => heard[d] = "done" \/ admits[d] = "deny"
    BY <1>4 DEF StartWork
  <2>3. \A d \in Calls, k \in Attempts : run'[d][k] # "started" => run'[d][k] = run[d][k]
    <3>1. \/ run' = run
          \/ run' = [c \in Calls |-> IF admits[c] = "execute"
                        THEN [run[c] EXCEPT ![1] = "started"] ELSE run[c]]
      BY <1>4 DEF StartWork
    <3>2. TAKE d \in Calls, k \in Attempts
    <3>3. run[d] \in [Attempts -> AttemptStates]
      BY DEF TypeOK
    <3>. QED  BY <3>1, <3>3
  <2>. QED  BY <1>0, <2>1, <2>2, <2>3
<1>5. CASE UNCHANGED <<admits, heard, tasks>>
  BY <1>0, <1>5 DEF tasks
<1>. QED  BY <1>1, <1>2, <1>3, <1>4, <1>5, ActivityFrame

-----------------------------------------------------------------------------
(* Whoever pairs a call has found it settled.                              *)

\* The barrier waited for every stored outcome.
LEMMA BarrierStep ==
  ASSUME TypeOK, Admitted, Written, BarrierDrained, [Next]_vars
  PROVE  BarrierDrained'
<1>0. \A c \in Calls : StillTrue(c)
  BY NextStillTrue
<1>1. CASE Barrier /\ stage' = "finalizing"
  <2>1. \A c \in Calls \ unwritten : Settled(c)
    BY <1>1 DEF Barrier, AllHeard, Written, TypeOK
  <2>. QED  BY <1>0, <2>1 DEF BarrierDrained, StillTrue
<1>2. CASE ~(Barrier /\ stage' = "finalizing")
  <2>1. stage' = "finalizing" => stage = "finalizing"
    <3>1. ASSUME NEW c \in Calls, Admission(c)
          PROVE  stage' = stage
      BY <3>1 DEF Admission, AdmitTool, AdmitUnwritten, AdmitReport, AdmitLost, flow
    <3>2. ASSUME NEW c \in Calls, Execution(c)
          PROVE  stage' = stage
      BY <3>2 DEF Execution, ExecuteTool, ExecuteFailed, ExecuteWrite, ExecuteUnwritten,
                  ExecuteReport, ExecuteLost, flow
    <3>3. ASSUME NEW c \in Calls, Waiting(c) \/ Resolution(c)
          PROVE  stage' = stage
      BY <3>3 DEF Waiting, TakeResolution, WaitTimeout, WaitCancelled, flow,
                  Resolution, ResolveTool, ResolveWrite, ResolveReport, ResolveLost
    <3>4. CASE Ending \/ LocalActivityFails \/ SweepFails \/ WorkflowCancelled
      BY <1>2, <3>4 DEF Ending, StartWork, Barrier, GroupDone, RunFinished, FinalizeToolGroup,
         RepairClose, RepairAppend, LocalActivityFails, SweepFails, WorkflowCancelled
    <3>5. ASSUME NEW w \in Writers, Sweep(w)
          PROVE  stage' = stage \/ stage' = "closed"
      BY <3>5 DEF Sweep, SweepScan, SweepDone, Insert, SweepClose, SweepPair, flow
    <3>6. CASE Client
      BY <3>6 DEF Client, CancelSignal, CancelThread, CancelThreadSweep, ClientDies,
                  ResolveToolCall, ResolveSignal, flow
    <3>7. CASE UNCHANGED vars
      BY <3>7 DEF vars, flow
    <3>. QED  BY <3>1, <3>2, <3>3, <3>4, <3>5, <3>6, <3>7 DEF Next
  <2>. QED  BY <1>0, <2>1 DEF BarrierDrained, StillTrue
<1>. QED  BY <1>1, <1>2

\* Only the repair of a run and the sweeps of a thread change what they hold.
LEMMA RepairFrame ==
  ASSUME [Next]_vars
  PROVE  \/ Ending \/ LocalActivityFails \/ SweepFails \/ WorkflowCancelled \/ Client
         \/ \E w \in Writers : Sweep(w)
         \/ UNCHANGED <<messages, flow, sweep, swept>>
<1>1. ASSUME NEW c \in Calls, Admission(c)
      PROVE  UNCHANGED <<messages, flow, sweep, swept>>
  BY <1>1 DEF Admission, AdmitTool, AdmitUnwritten, AdmitReport, AdmitLost, flow, stops
<1>2. ASSUME NEW c \in Calls, Execution(c)
      PROVE  UNCHANGED <<messages, flow, sweep, swept>>
  BY <1>2 DEF Execution, ExecuteTool, ExecuteFailed, ExecuteWrite, ExecuteUnwritten,
              ExecuteReport, ExecuteLost, flow, stops
<1>3. ASSUME NEW c \in Calls, Waiting(c) \/ Resolution(c)
      PROVE  UNCHANGED <<messages, flow, sweep, swept>>
  BY <1>3 DEF Waiting, TakeResolution, WaitTimeout, WaitCancelled, flow, stops,
              Resolution, ResolveTool, ResolveWrite, ResolveReport, ResolveLost
<1>4. CASE UNCHANGED vars
  BY <1>4 DEF vars, flow, stops
<1>. QED  BY <1>1, <1>2, <1>3, <1>4 DEF Next

LEMMA ClosedStep ==
  ASSUME TypeOK, Admitted, Closed, [Next]_vars
  PROVE  Closed'
<1>0. \A c \in Calls : StillTrue(c)
  BY NextStillTrue
<1> USE GroupAssumption DEF Closed, StillTrue
<1>1. CASE Ending \/ LocalActivityFails
  <2>1. CASE StartWork \/ Barrier \/ GroupDone \/ LocalActivityFails
    BY <1>0, <2>1 DEF StartWork, Barrier, GroupDone, LocalActivityFails, stops, TypeOK
  <2>2. CASE RunFinished
    <3>1. hand' = {}
      BY <2>2 DEF RunFinished
    <3>2. CASE UNCHANGED <<sweep, swept>>
      BY <1>0, <3>1, <3>2
    <3>3. CASE /\ sweep' = [sweep EXCEPT !["workflow"] = "closing"]
               /\ swept' = [swept EXCEPT !["workflow"] = {c \in Calls : ~Settled(c)}]
      <4>1. \A c \in Calls \ swept'["workflow"] : Settled(c)'
        BY <1>0, <3>3 DEF TypeOK
      <4>2. sweep'["workflow"] = "closing"
        BY <3>3 DEF TypeOK
      <4>3. \A w \in Writers : w # "workflow" => sweep'[w] = sweep[w] /\ swept'[w] = swept[w]
        BY <3>3 DEF TypeOK
      <4>. QED  BY <1>0, <3>1, <4>1, <4>2, <4>3
    <3>. QED  BY <2>2, <3>2, <3>3 DEF RunFinished
  <2>3. ASSUME NEW c \in Calls, FinalizeToolGroup(c) \/ RepairAppend(c)
        PROVE  Closed'
    BY <1>0, <2>3 DEF FinalizeToolGroup, RepairAppend, stops, TypeOK
  <2>4. ASSUME NEW c \in Calls, RepairClose(c)
        PROVE  Closed'
    <3>1. Settled(c)'
      BY <2>4, WriteSettles DEF RepairClose
    <3>. QED  BY <1>0, <2>4, <3>1 DEF RepairClose, stops
  <2>. QED  BY <1>1, <2>1, <2>2, <2>3, <2>4 DEF Ending
<1>2. ASSUME NEW w \in Writers, Sweep(w)
      PROVE  Closed'
  <2>1. CASE SweepScan(w)
    BY <1>0, <2>1 DEF SweepScan, flow, TypeOK
  <2>2. CASE SweepDone(w)
    BY <1>0, <2>2 DEF SweepDone, TypeOK
  <2>3. CASE Insert(w)
    BY <1>0, <2>3 DEF Insert, flow, stops, TypeOK
  <2>4. ASSUME NEW c \in Calls, SweepClose(w, c)
        PROVE  Closed'
    <3>1. Settled(c)'
      BY <2>4, WriteSettles DEF SweepClose
    <3>. QED  BY <1>0, <2>4, <3>1 DEF SweepClose, flow, TypeOK
  <2>5. ASSUME NEW c \in Calls, SweepPair(w, c)
        PROVE  Closed'
    BY <1>0, <2>5 DEF SweepPair, flow, TypeOK
  <2>. QED  BY <1>2, <2>1, <2>2, <2>3, <2>4, <2>5 DEF Sweep
<1>3. CASE SweepFails
  BY <1>0, <1>3 DEF SweepFails, TypeOK
<1>4. CASE WorkflowCancelled
  BY <1>0, <1>4 DEF WorkflowCancelled, TypeOK
<1>5. CASE Client
  <2>1. CASE CancelSignal \/ CancelThread \/ CancelThreadSweep \/ ClientDies
    BY <1>0, <2>1 DEF CancelSignal, CancelThread, CancelThreadSweep, ClientDies, flow, TypeOK
  <2>2. ASSUME NEW c \in Calls, NEW a \in Answers, ResolveToolCall(c, a) \/ ResolveSignal(c, a)
        PROVE  Closed'
    BY <1>0, <2>2 DEF ResolveToolCall, ResolveSignal, flow, stops, TypeOK
  <2>. QED  BY <1>5, <2>1, <2>2 DEF Client
<1>6. CASE UNCHANGED <<messages, flow, sweep, swept>>
  BY <1>0, <1>6 DEF TypeOK, flow
<1>. QED  BY <1>1, <1>2, <1>3, <1>4, <1>5, <1>6, RepairFrame

-----------------------------------------------------------------------------
(* The transcript.                                                         *)

Told == Posting /\ TranscriptAgrees

\* A step after which no message is new keeps what was told true.
LEMMA ToldKept ==
  ASSUME TypeOK, Told, NEW w \in Writers, \A c \in Calls : StillTrue(c), RecordStep,
         posted' = posted, posting' = posting \/ posting' = [posting EXCEPT ![w] = {}]
  PROVE  Told'
<1>1. \A c \in Calls : Settled(c) => Settled(c)' /\ result'[c] = result[c]
  BY RecordStable
<1>2. \A v \in Writers : posting'[v] \subseteq posting[v]
  BY DEF TypeOK, StoreTypeOK, MessagesTypeOK
<1>3. \A v \in Writers : \A e \in posting[v] : e[1] \in Calls
  BY DEF TypeOK, StoreTypeOK, MessagesTypeOK
<1>. QED  BY <1>1, <1>2, <1>3 DEF Told, Posting, TranscriptAgrees, StillTrue

\* So does telling a settled call's result.
LEMMA ToldAppended ==
  ASSUME TypeOK, Told, NEW w \in Writers, NEW c \in Calls, NEW r,
         UNCHANGED <<records, unwritten>>, AppendToolResult(w, c, r),
         c \notin unwritten => Settled(c) /\ r = result[c]
  PROVE  Told'
<1> USE DEF Told, Posting, TranscriptAgrees, records, Settled
<1>0. /\ posted \in [Calls -> Seq(Posts)]
      /\ posting \in [Writers -> SUBSET (Calls \X Posts)]
  BY DEF TypeOK, StoreTypeOK, MessagesTypeOK
<1>1. CASE UNCHANGED messages
  BY <1>1 DEF messages
<1>2. CASE posted' = [posted EXCEPT ![c] = Append(@, r)] /\ posting' = posting
  BY <1>0, <1>2
<1>3. CASE posting' = [posting EXCEPT ![w] = {<<c, r>>}] /\ posted' = posted
  BY <1>0, <1>3
<1>. QED  BY <1>1, <1>2, <1>3 DEF AppendToolResult

LEMMA ToldInserted ==
  ASSUME TypeOK, Told, NEW w \in Writers, UNCHANGED <<records, unwritten>>, InsertToolResult(w)
  PROVE  Told'
<1> USE DEF Told, Posting, TranscriptAgrees, records, Settled
<1>0. /\ posted \in [Calls -> Seq(Posts)]
      /\ posting \in [Writers -> SUBSET (Calls \X Posts)]
  BY DEF TypeOK, StoreTypeOK, MessagesTypeOK
<1>1. PICK e \in posting[w] : /\ posted'  = [posted EXCEPT ![e[1]] = Append(@, e[2])]
                              /\ posting' = [posting EXCEPT ![w] = {}]
  BY DEF InsertToolResult
<1>2. e[1] \in Calls /\ e[2] \in Posts
  BY <1>0
<1>3. Posting'
  BY <1>0, <1>1
<1>4. TranscriptAgrees'
  BY <1>0, <1>1, <1>2
<1>. QED  BY <1>3, <1>4

LEMMA ToldStep ==
  ASSUME TypeOK, ResultWritten, Admitted, Closed, BarrierDrained, Told, [Next]_vars
  PROVE  Told'
<1>0. RecordStep /\ \A c \in Calls : StillTrue(c)
  BY NextRecords, NextStillTrue
<1>1. CASE Ending \/ LocalActivityFails
  <2>1. CASE StartWork \/ Barrier \/ GroupDone \/ RunFinished \/ LocalActivityFails
    BY <1>0, <2>1, ToldKept, GroupAssumption
       DEF StartWork, Barrier, GroupDone, RunFinished, LocalActivityFails, messages
  <2>2. ASSUME NEW c \in Calls, FinalizeToolGroup(c)
        PROVE  Told'
    <3>1. c \notin unwritten => Settled(c) /\ ToldResult(c) = result[c]
      BY <2>2 DEF FinalizeToolGroup, BarrierDrained, ResultWritten, ToldResult
    <3>. QED  BY <2>2, <3>1, ToldAppended, GroupAssumption DEF FinalizeToolGroup, tasks
  <2>3. ASSUME NEW c \in Calls, RepairClose(c)
        PROVE  Told'
    BY <1>0, <2>3, ToldKept, GroupAssumption DEF RepairClose, messages
  <2>4. ASSUME NEW c \in Calls, RepairAppend(c)
        PROVE  Told'
    <3>1. Settled(c) /\ ToldResult(c) = result[c]
      BY <2>4 DEF RepairAppend, Closed, ResultWritten, ToldResult
    <3>. QED  BY <2>4, <3>1, ToldAppended, GroupAssumption DEF RepairAppend, tasks
  <2>. QED  BY <1>1, <2>1, <2>2, <2>3, <2>4 DEF Ending
<1>2. ASSUME NEW w \in Writers, Sweep(w)
      PROVE  Told'
  <2>1. CASE SweepScan(w) \/ SweepDone(w)
    BY <1>0, <2>1, ToldKept DEF SweepScan, SweepDone, messages
  <2>2. CASE Insert(w)
    BY <2>2, ToldInserted DEF Insert, tasks
  <2>3. ASSUME NEW c \in Calls, SweepClose(w, c)
        PROVE  Told'
    BY <1>0, <2>3, ToldKept DEF SweepClose, messages
  <2>4. ASSUME NEW c \in Calls, SweepPair(w, c)
        PROVE  Told'
    <3>1. Settled(c) /\ result[c] # NoResult
      BY <2>4 DEF SweepPair, Closed, ResultWritten
    <3>. QED  BY <2>4, <3>1, ToldAppended DEF SweepPair, tasks
  <2>. QED  BY <1>2, <2>1, <2>2, <2>3, <2>4 DEF Sweep
<1>3. CASE SweepFails \/ WorkflowCancelled
  BY <1>0, <1>3, ToldKept, GroupAssumption DEF SweepFails, WorkflowCancelled
<1>4. CASE Client
  <2>1. CASE CancelSignal \/ CancelThread \/ CancelThreadSweep \/ ClientDies
    BY <1>0, <2>1, ToldKept, GroupAssumption
       DEF CancelSignal, CancelThread, CancelThreadSweep, ClientDies, messages
  <2>2. ASSUME NEW c \in Calls, NEW a \in Answers, ResolveToolCall(c, a) \/ ResolveSignal(c, a)
        PROVE  Told'
    BY <1>0, <2>2, ToldKept, GroupAssumption DEF ResolveToolCall, ResolveSignal, messages
  <2>. QED  BY <1>4, <2>1, <2>2 DEF Client
<1>5. CASE UNCHANGED <<messages, flow, sweep, swept>>
  BY <1>0, <1>5, ToldKept, GroupAssumption DEF messages
<1>. QED  BY <1>1, <1>2, <1>3, <1>4, <1>5, RepairFrame

-----------------------------------------------------------------------------
(* The stores' theorems.                                                   *)

LEMMA StoreInvariant == Spec => []StoreInv
<1>1. Init => StoreInv
  <2> SUFFICES ASSUME Init PROVE StoreInv
    OBVIOUS
  <2>1. TypeOK
    BY TypeInit
  <2>2. ResultWritten /\ BarrierDrained /\ Closed
    BY DEF Init, StoreInit, ResultWritten, Settled, BarrierDrained, Closed
  <2>3. Admitted /\ Written
    BY DEF Init, Admitted, Written
  <2>4. Posting /\ TranscriptAgrees
    BY DEF Init, StoreInit, Posting, TranscriptAgrees
  <2>. QED  BY <2>1, <2>2, <2>3, <2>4 DEF StoreInv
<1>2. StoreInv /\ [Next]_vars => StoreInv'
  <2> SUFFICES ASSUME StoreInv, [Next]_vars PROVE StoreInv'
    OBVIOUS
  <2>1. RecordStep
    BY NextRecords DEF StoreInv
  <2>. QED  BY <2>1, TypeStep, RecordResult, AdmittedStep, WrittenStep, ClosedStep, BarrierStep,
               ToldStep DEF StoreInv, Told
<1>. QED  BY <1>1, <1>2, PTL DEF Spec

\* Once finalize_tool_group runs, every outcome the barrier waited for is stored:
\* nothing an attempt still in flight does can change a record it reads.
THEOREM BarrierHolds == Spec => []GroupInv
<1>1. StoreInv /\ TypeOK => GroupInv
  BY DEF StoreInv, GroupInv
<1>. QED  BY <1>1, StoreInvariant, TypeCorrect, PTL

\* Whichever of the group, the run's repair and the two cancelling writers tells
\* the model of a call, it tells the result the call's record keeps.
THEOREM TranscriptCorrect == Spec => []TranscriptAgrees
BY StoreInvariant, PTL DEF StoreInv

\* A settled call keeps its status and its result, whoever writes to it later.
THEOREM SettledCorrect == Spec => SettledForever
<1>1. StoreInv /\ [Next]_vars =>
        [\A c \in Calls : Settled(c) => status'[c] = status[c] /\ result'[c] = result[c]]_vars
  BY NextRecords, RecordStable DEF StoreInv
<1>. QED  BY <1>1, StoreInvariant, PTL DEF Spec, SettledForever

-----------------------------------------------------------------------------
(* Bodies.                                                                 *)

LEMMA BodyStep ==
  ASSUME TypeOK, Admitted, BodyInv, [Next]_vars
  PROVE  BodyInv'
<1>0. /\ ran \in [Calls -> Nat] /\ run \in [Calls -> [Attempts -> AttemptStates]]
      /\ attempt \in [Calls -> 0 .. MaxAttempts] /\ 1 \in Attempts
  BY GroupAssumption DEF TypeOK
<1>1. ASSUME NEW c \in Calls, Admission(c)
      PROVE  BodyInv'
  <2>1. UNCHANGED <<run, ran>>
    BY <1>1 DEF Admission, AdmitTool, AdmitUnwritten, AdmitReport, AdmitLost
  <2>2. \A d \in Calls : admits[d] = "execute" => admits'[d] = "execute"
    <3>1. CASE AdmitReport(c) \/ AdmitLost(c)
      BY <3>1 DEF AdmitReport, AdmitLost, Admitted, TypeOK
    <3>2. CASE AdmitTool(c) \/ AdmitUnwritten(c)
      BY <3>2 DEF AdmitTool, AdmitUnwritten, known
    <3>. QED  BY <1>1, <3>1, <3>2 DEF Admission
  <2>. QED  BY <2>1, <2>2 DEF BodyInv
<1>2. ASSUME NEW c \in Calls, Execution(c)
      PROVE  BodyInv'
  <2>0. UNCHANGED admits
    BY <1>2 DEF Execution, ExecuteTool, ExecuteFailed, ExecuteWrite, ExecuteUnwritten, ExecuteReport,
                ExecuteLost, known
  <2>1. ASSUME NEW k \in Attempts, ExecuteTool(c, k)
        PROVE  BodyInv'
    <3>1. run[c][k] = "started" /\ admits[c] = "execute"
      BY <2>1 DEF ExecuteTool, Admitted
    <3>2. \/ run' = [run EXCEPT ![c][k] = "wrote"] /\ ran' = ran
          \/ run' = [run EXCEPT ![c][k] = "closing"] /\ ran' = ran
          \/ /\ run' = [run EXCEPT ![c][k] = "body"] /\ ran' = [ran EXCEPT ![c] = @ + 1]
             /\ c \in RetrySafe \/ k = 1
      BY <2>1 DEF ExecuteTool, Refuses
    <3>3. CASE ran' = ran
      <4>0. ran[c] + 1 # ran[c]
        BY <1>0
      <4>1. PICK p \in {"wrote", "closing"} : run' = [run EXCEPT ![c][k] = p]
        BY <1>0, <3>2, <3>3, <4>0
      <4>2. \A d \in Calls : run'[d][1] \in {"idle", "started"} => run'[d][1] = run[d][1]
        BY <1>0, <4>1
      <4>. QED  BY <2>0, <3>3, <4>2 DEF BodyInv
    <3>4. CASE /\ run' = [run EXCEPT ![c][k] = "body"] /\ ran' = [ran EXCEPT ![c] = @ + 1]
               /\ c \in RetrySafe \/ k = 1
      <4>1. \A d \in Calls : d # c => run'[d] = run[d] /\ ran'[d] = ran[d]
        BY <1>0, <3>4
      <4>2. ran'[c] = ran[c] + 1
        BY <1>0, <3>4
      <4>3. c \notin RetrySafe => ran[c] = 0 /\ run'[c][1] = "body"
        BY <1>0, <3>1, <3>4 DEF BodyInv
      <4>. QED  BY <1>0, <2>0, <3>1, <4>1, <4>2, <4>3 DEF BodyInv
    <3>. QED  BY <3>2, <3>3, <3>4
  <2>2. ASSUME NEW k \in Attempts, ExecuteFailed(c, k) \/ ExecuteWrite(c, k) \/ ExecuteUnwritten(c, k)
        PROVE  BodyInv'
    <3>1. ran' = ran /\ \E p \in {"wrote", "unwritten"} : run' = [run EXCEPT ![c][k] = p]
      BY <2>2 DEF ExecuteFailed, ExecuteWrite, ExecuteUnwritten
    <3>2. \A d \in Calls : run'[d][1] \in {"idle", "started"} => run'[d][1] = run[d][1]
      BY <1>0, <3>1
    <3>. QED  BY <2>0, <3>1, <3>2 DEF BodyInv
  <2>3. CASE ExecuteReport(c)
    <3>1. attempt[c] \in Attempts
      BY <1>0, <2>3 DEF ExecuteReport
    <3>2. ran' = ran /\ run' = [run EXCEPT ![c][attempt[c]] = "over"]
      BY <2>3 DEF ExecuteReport
    <3>. QED  BY <1>0, <2>0, <3>1, <3>2 DEF BodyInv
  <2>4. CASE ExecuteLost(c)
    <3>1. ran' = ran
      BY <2>4 DEF ExecuteLost
    <3>2. \/ run' = run
          \/ \E k \in Attempts : k # 1 /\ run' = [run EXCEPT ![c][k] = "started"]
      BY <1>0, <2>4, GroupAssumption DEF ExecuteLost
    <3>3. \A d \in Calls : run'[d][1] = run[d][1]
      <4>1. CASE run' = run
        BY <4>1
      <4>2. ASSUME NEW k \in Attempts, k # 1, run' = [run EXCEPT ![c][k] = "started"]
            PROVE  \A d \in Calls : run'[d][1] = run[d][1]
        BY <1>0, <4>2
      <4>. QED  BY <3>2, <4>1, <4>2
    <3>. QED  BY <2>0, <3>1, <3>3 DEF BodyInv
  <2>. QED  BY <1>2, <2>1, <2>2, <2>3, <2>4 DEF Execution
<1>3. ASSUME NEW c \in Calls, Waiting(c) \/ Resolution(c)
      PROVE  BodyInv'
  <2>1. UNCHANGED <<admits, run, ran>>
    BY <1>3 DEF Waiting, TakeResolution, WaitTimeout, WaitCancelled, tasks, known,
                Resolution, ResolveTool, ResolveWrite, ResolveReport, ResolveLost
  <2>. QED  BY <2>1 DEF BodyInv
<1>4. CASE StartWork
  <2>1. UNCHANGED <<admits, ran>>
    BY <1>4 DEF StartWork
  <2>2. \A c \in Calls : run[c][1] = "idle"
    BY <1>0, <1>4 DEF StartWork, Admitted
  <2>. QED  BY <2>1, <2>2 DEF BodyInv
<1>5. CASE UNCHANGED <<admits, heard, tasks>>
  BY <1>5 DEF BodyInv, tasks
<1>. QED  BY <1>1, <1>2, <1>3, <1>4, <1>5, ActivityFrame

\* No tool runs without an execute verdict, and a tool that is not retry_safe
\* runs once, over every attempt that is lost or given up.
THEOREM BodyCorrect == Spec => []BodyEnteredOnce
<1>1. Init => BodyInv
  <2> SUFFICES ASSUME Init PROVE BodyInv
    OBVIOUS
  <2>1. \A c \in Calls : ran[c] = 0
    BY DEF Init
  <2>2. \A c \in Calls : ran[c] <= 1 /\ ~(ran[c] > 0)
    <3> TAKE c \in Calls
    <3>1. ran[c] = 0
      BY <2>1
    <3>2. 0 <= 1 /\ ~(0 > 0)
      OBVIOUS
    <3>. QED  BY <3>1, <3>2, Zenon
  <2>. QED  BY <2>1, <2>2 DEF BodyInv
<1>2. StoreInv /\ BodyInv /\ [Next]_vars => BodyInv'
  BY BodyStep DEF StoreInv
<1>3. BodyInv => BodyEnteredOnce
  BY DEF BodyInv, BodyEnteredOnce
<1>. QED  BY <1>1, <1>2, <1>3, StoreInvariant, PTL DEF Spec

-----------------------------------------------------------------------------
(* Answers.                                                                *)

AnswerStrong == \A c \in Calls : AnswerInv(c)

\* A first answer is never replaced, so what was taken of it holds on.
LEMMA AnswerStep ==
  ASSUME TypeOK, Admitted, AnswerStrong, [Next]_vars
  PROVE  AnswerStrong'
<1>0. \A c \in Calls : result'[c] \in Answers => result'[c] \in {result[c], taken[c]}
  BY NextRecords, RecordAnswer
<1> USE DEF AnswerStrong, AnswerInv
<1>1. ASSUME NEW c \in Calls, NEW a \in Answers, ResolveSignal(c, a)
      PROVE  AnswerStrong'
  <2>1. UNCHANGED <<taken, resolve>> /\ a # None
    BY <1>1, StoreAssumption DEF ResolveSignal, tasks
  <2>2. \A d \in Calls : d # c => resolutions'[d] = resolutions[d] /\ first'[d] = first[d]
    BY <1>1 DEF ResolveSignal, TypeOK
  <2>3. first'[c] = IF first[c] = None THEN a ELSE first[c]
    BY <1>1 DEF ResolveSignal, TypeOK
  <2>4. resolutions'[c] = IF Resolved(c) THEN resolutions[c] ELSE a
    BY <1>1 DEF ResolveSignal, TypeOK
  <2>5. AnswerInv(c)'
    BY <1>0, <2>1, <2>3, <2>4, StoreAssumption DEF Resolved
  <2>6. \A d \in Calls : d # c => AnswerInv(d)'
    BY <1>0, <2>1, <2>2
  <2> HIDE DEF AnswerInv
  <2>. QED  BY <2>5, <2>6
<1>2. ASSUME NEW c \in Calls, Waiting(c) \/ Resolution(c)
      PROVE  AnswerStrong'
  <2>1. CASE TakeResolution(c)
    <3>1. /\ first' = first /\ resolve[c] = "idle" /\ resolutions[c] # None
          /\ taken' = [taken EXCEPT ![c] = resolutions[c]]
          /\ resolutions' = [resolutions EXCEPT ![c] = None]
          /\ resolve' = [resolve EXCEPT ![c] = "started"]
      BY <2>1 DEF TakeResolution, Waits
    <3>2. AnswerInv(c)'
      <4>1. taken'[c] = resolutions[c] /\ resolutions'[c] = None /\ resolutions[c] \in Answers
        BY <3>1 DEF TypeOK
      <4>2. taken[c] = None /\ taken[c] \notin Answers
        BY <3>1, StoreAssumption DEF Admitted
      <4>. QED  BY <1>0, <3>1, <4>1, <4>2
    <3>3. \A d \in Calls : d # c =>
            taken'[d] = taken[d] /\ resolutions'[d] = resolutions[d] /\ resolve'[d] = resolve[d]
      BY <3>1 DEF TypeOK
    <3>4. \A d \in Calls : d # c => AnswerInv(d)'
      BY <1>0, <3>1, <3>3
    <3> HIDE DEF AnswerInv
    <3>. QED  BY <3>2, <3>4
  <2>2. CASE WaitTimeout(c)
    <3>1. /\ UNCHANGED <<first, resolutions>> /\ resolve[c] = "idle" /\ taken[c] = None
          /\ taken' = [taken EXCEPT ![c] = "timeout"]
          /\ resolve' = [resolve EXCEPT ![c] = "started"]
      BY <2>2 DEF WaitTimeout, Waits, human, Admitted
    <3>2. AnswerInv(c)'
      <4>1. taken'[c] = "timeout" /\ taken'[c] \notin Answers /\ taken[c] \notin Answers
        BY <3>1, GroupAssumption, StoreAssumption DEF TypeOK
      <4>. QED  BY <1>0, <2>2, <3>1, <4>1 DEF WaitTimeout
    <3>3. \A d \in Calls : d # c => taken'[d] = taken[d] /\ resolve'[d] = resolve[d]
      BY <3>1 DEF TypeOK
    <3>4. \A d \in Calls : d # c => AnswerInv(d)'
      BY <1>0, <3>1, <3>3
    <3> HIDE DEF AnswerInv
    <3>. QED  BY <3>2, <3>4
  <2>3. CASE WaitCancelled(c) \/ ResolveLost(c)
    BY <1>0, <2>3 DEF WaitCancelled, ResolveLost, tasks, human
  <2>4. CASE ResolveTool(c) \/ ResolveWrite(c) \/ ResolveReport(c)
    <3>1. UNCHANGED <<first, resolutions, taken>>
      BY <2>4 DEF ResolveTool, ResolveWrite, ResolveReport, human
    <3>2. \A d \in Calls : resolve[d] = "over" => resolve'[d] = "over"
      BY <2>4 DEF ResolveTool, ResolveWrite, ResolveReport, TypeOK
    <3>. QED  BY <1>0, <3>1, <3>2
  <2>. QED  BY <1>2, <2>1, <2>2, <2>3, <2>4 DEF Waiting, Resolution
<1>3. CASE UNCHANGED <<first, resolutions, taken, resolve>>
  BY <1>0, <1>3
<1>4. ASSUME NEW c \in Calls, Admission(c)
      PROVE  UNCHANGED <<first, resolutions, taken, resolve>>
  BY <1>4 DEF Admission, AdmitTool, AdmitUnwritten, AdmitReport, AdmitLost, human
<1>5. ASSUME NEW c \in Calls, Execution(c)
      PROVE  UNCHANGED <<first, resolutions, taken, resolve>>
  BY <1>5 DEF Execution, ExecuteTool, ExecuteFailed, ExecuteWrite, ExecuteUnwritten, ExecuteReport,
              ExecuteLost, human
<1>6. CASE Ending \/ LocalActivityFails \/ SweepFails \/ WorkflowCancelled
  BY <1>3, <1>6 DEF Ending, StartWork, Barrier, GroupDone, RunFinished, FinalizeToolGroup, RepairClose,
              RepairAppend, LocalActivityFails, SweepFails, WorkflowCancelled, tasks, human
<1>7. ASSUME NEW w \in Writers, Sweep(w)
      PROVE  UNCHANGED <<first, resolutions, taken, resolve>>
  BY <1>7 DEF Sweep, SweepScan, SweepDone, Insert, SweepClose, SweepPair, tasks, human
<1>8. CASE CancelSignal \/ CancelThread \/ CancelThreadSweep \/ ClientDies \/ UNCHANGED vars
  BY <1>3, <1>8 DEF CancelSignal, CancelThread, CancelThreadSweep, ClientDies, vars, tasks, human
<1>9. ASSUME NEW c \in Calls, NEW a \in Answers, ResolveToolCall(c, a)
      PROVE  UNCHANGED <<first, resolutions, taken, resolve>>
  BY <1>9 DEF ResolveToolCall, tasks
<1>. QED  BY <1>1, <1>2, <1>3, <1>4, <1>5, <1>6, <1>7, <1>8, <1>9 DEF Next, Client

\* The answer a call is resolved with is the first that was given, however
\* many are sent, and in whatever order with its timeout.
THEOREM AnswerCorrect == Spec => []FirstAnswerWins
<1>1. Init => AnswerStrong
  <2> SUFFICES ASSUME Init PROVE AnswerStrong
    OBVIOUS
  <2>1. \A c \in Calls : first[c] = None /\ resolutions[c] = None /\ taken[c] = None /\ result[c] = None
    BY DEF Init, StoreInit
  <2>. QED  BY <2>1, StoreAssumption DEF AnswerStrong, AnswerInv
<1>2. StoreInv /\ AnswerStrong /\ [Next]_vars => AnswerStrong'
  BY AnswerStep DEF StoreInv
<1>3. AnswerStrong => FirstAnswerWins
  BY DEF AnswerStrong, AnswerInv, FirstAnswerWins
<1>. QED  BY <1>1, <1>2, <1>3, StoreInvariant, PTL DEF Spec
-----------------------------------------------------------------------------
(* What ends the run.                                                      *)

Finished(c) == result[c] = "finish"

\* The group stops for a stored result that says so and for no other: what was heard of
\* such a result set the stop, and everything was heard before the group is over.
StopInv ==
  /\ stop => \E c \in Calls : Finished(c)
  /\ \A c \in Calls :
       /\ Finished(c) => admits[c] \in {"execute", "await"}
       /\ c \notin unwritten /\ heard[c] = "done" /\ Finished(c) => stop \/ cancelled
  /\ stage = "admitting" => \A c \in Calls : heard[c] = "pending"
  /\ stage = "finalizing" => \A c \in Calls : heard[c] = "done"
  /\ verdict \in {"continue", "completed"} /\ unwritten = {} =>
       /\ \A c \in Calls : Settled(c)
       /\ verdict = "completed" <=> \E c \in Calls : Finished(c)

-----------------------------------------------------------------------------
(* Every call is paired.                                                   *)

\* A writer has paired a call, or is about to insert what pairs it.
Paired(w, c) == posted[c] # <<>> \/ \E e \in posting[w] : e[1] = c

PairInv ==
  /\ \A w \in Writers : \A e, f \in posting[w] : e = f
  /\ \A c, d \in hand : c = d
  /\ stage \notin {"sweeping", "closed"} => sweep["workflow"] \in {"off", "due"}
  /\ stage = "finalizing" => \A c \in Calls \ todo : Paired("workflow", c)
  /\ stage = "repairing" => \A c \in Calls \ (todo \cup hand) : Paired("workflow", c)
  /\ \A w \in Writers : sweep[w] = "pairing" => \A c \in Calls \ swept[w] : Paired(w, c)
  /\ PairedAtRest

\* Over a store that looks up and inserts at once nobody holds a message.
Atomic ==
  /\ \A w \in Writers : posting[w] = {}
  /\ \A c \in Calls : posted[c] # <<>> => Len(posted[c]) = 1
\* A sequence that was appended to is not empty.
LEMMA AppendNonEmpty ==
  ASSUME NEW S, NEW s \in Seq(S), NEW r \in S
  PROVE  Append(s, r) # <<>> /\ Len(Append(s, r)) = Len(s) + 1
<1>1. Len(Append(s, r)) = Len(s) + 1 /\ Len(s) \in Nat
  OBVIOUS
<1>2. Len(<<>>) = 0
  OBVIOUS
<1>. QED  BY <1>1, <1>2

\* Appending pairs a call, and leaves paired what was.
LEMMA AppendPairs ==
  ASSUME TypeOK, NEW w \in Writers, NEW c \in Calls, NEW r \in Posts, AppendToolResult(w, c, r)
  PROVE  /\ Paired(w, c)'
         /\ \A d \in Calls : posted[d] # <<>> => posted'[d] # <<>>
         /\ \A v \in Writers, d \in Calls : Paired(v, d) => Paired(v, d)'
         /\ \A v \in Writers : posting'[v] = posting[v] \/ posting'[v] = {<<c, r>>}
<1>0. posted \in [Calls -> Seq(Posts)] /\ posting \in [Writers -> SUBSET (Calls \X Posts)]
  BY DEF TypeOK, StoreTypeOK, MessagesTypeOK
<1>1. CASE posted[c] # <<>> /\ UNCHANGED messages
  BY <1>1 DEF Paired, messages
<1>2. CASE posted' = [posted EXCEPT ![c] = Append(@, r)] /\ posting' = posting
  <2>1. Append(posted[c], r) # <<>>
    BY <1>0
  <2>. QED  BY <1>0, <1>2, <2>1 DEF Paired
<1>3. CASE posting[w] = {} /\ posting' = [posting EXCEPT ![w] = {<<c, r>>}] /\ posted' = posted
  BY <1>0, <1>3 DEF Paired
<1>. QED  BY <1>1, <1>2, <1>3 DEF AppendToolResult

\* So does inserting the one message a writer holds.
LEMMA InsertPairs ==
  ASSUME TypeOK, PairInv, NEW w \in Writers, InsertToolResult(w)
  PROVE  /\ \A d \in Calls : posted[d] # <<>> => posted'[d] # <<>>
         /\ \A v \in Writers, d \in Calls : Paired(v, d) => Paired(v, d)'
         /\ \A v \in Writers : posting'[v] = posting[v] \/ posting'[v] = {}
<1>0. posted \in [Calls -> Seq(Posts)] /\ posting \in [Writers -> SUBSET (Calls \X Posts)]
  BY DEF TypeOK, StoreTypeOK, MessagesTypeOK
<1>1. PICK e \in posting[w] : /\ posted'  = [posted EXCEPT ![e[1]] = Append(@, e[2])]
                              /\ posting' = [posting EXCEPT ![w] = {}]
  BY DEF InsertToolResult
<1>2. e[1] \in Calls /\ e[2] \in Posts
  BY <1>0
<1>3. \A d \in Calls : posted[d] # <<>> \/ d = e[1] => posted'[d] # <<>>
  <2>1. Append(posted[e[1]], e[2]) # <<>>
    <3>1. posted[e[1]] \in Seq(Posts)
      BY <1>0, <1>2
    <3>. QED  BY <1>2, <3>1, AppendNonEmpty
  <2>2. \A d \in Calls : posted'[d] = IF d = e[1] THEN Append(posted[e[1]], e[2]) ELSE posted[d]
    BY <1>0, <1>1, <1>2
  <2>. QED  BY <2>1, <2>2
<1>4. \A f \in posting[w] : f = e
  BY DEF PairInv
<1>. QED  BY <1>0, <1>1, <1>3, <1>4 DEF Paired
\* Every step of a run's end, of its repair and of a sweep leaves the calls it is done
\* with paired.
LEMMA PairStep ==
  ASSUME TypeOK, PairInv, [Next]_vars
  PROVE  PairInv'
<1> USE GroupAssumption DEF PairInv, PairedAtRest
<1>0. /\ posted \in [Calls -> Seq(Posts)] /\ posting \in [Writers -> SUBSET (Calls \X Posts)]
      /\ sweep \in [Writers -> {"off", "due", "closing", "pairing", "done", "dead"}]
      /\ swept \in [Writers -> SUBSET Calls] /\ todo \subseteq Calls /\ hand \subseteq Calls
      /\ result \in [Calls -> Posts \cup {NoResult}]
  BY DEF TypeOK, StoreTypeOK, MessagesTypeOK, RecordsTypeOK, Posts
<1>a. "no_result" \in Posts /\ "cancelled" \in Posts /\ \A c \in Calls : ToldResult(c) \in Posts
  BY <1>0 DEF Posts, Results, SystemResults, ToldResult
<1>1. CASE Ending \/ LocalActivityFails
  <2>1. CASE StartWork \/ Barrier
    BY <2>1 DEF StartWork, Barrier, messages, stops, Paired
  <2>2. CASE GroupDone
    BY <2>2 DEF GroupDone, messages, stops, Paired
  <2>3. CASE RunFinished
    <3>1. \A c \in Calls : posted[c] # <<>>
      BY <2>3 DEF RunFinished, Paired
    <3>2. UNCHANGED <<posted, posting, verdict, hand>> /\ stage' \in {"sweeping", "closed"}
      BY <2>3 DEF RunFinished, messages
    <3>3. \A w \in Writers : sweep'[w] = "pairing" => sweep[w] = "pairing"
      BY <1>0, <2>3 DEF RunFinished
    <3>. QED  BY <3>1, <3>2, <3>3 DEF Paired
  <2>4. CASE LocalActivityFails
    <3>1. /\ todo' = Calls /\ hand' = {} /\ UNCHANGED <<posted, sweep, swept>>
          /\ posting' = [posting EXCEPT !["workflow"] = {}]
          /\ stage \in {"finalizing", "repairing"} /\ stage' \in {"finalizing", "repairing"}
      BY <2>4 DEF LocalActivityFails, stops
    <3>. QED  BY <1>0, <3>1 DEF Paired
  <2>5. ASSUME NEW c \in Calls, FinalizeToolGroup(c) \/ RepairAppend(c)
        PROVE  PairInv'
    <3>1. /\ AppendToolResult("workflow", c, ToldResult(c))
          /\ UNCHANGED <<stage, verdict, sweep, swept>>
          /\ \/ stage = "finalizing" /\ todo' = todo \ {c} /\ hand' = hand
             \/ stage = "repairing" /\ todo' = todo /\ hand' = {} /\ c \in hand
      BY <2>5 DEF FinalizeToolGroup, RepairAppend, stops
    <3>2. /\ Paired("workflow", c)' /\ \A d \in Calls : posted[d] # <<>> => posted'[d] # <<>>
          /\ \A v \in Writers, d \in Calls : Paired(v, d) => Paired(v, d)'
          /\ \A v \in Writers : posting'[v] = posting[v] \/ posting'[v] = {<<c, ToldResult(c)>>}
      BY <1>a, <3>1, AppendPairs
    <3>3. /\ \A v \in Writers : \A e, f \in posting'[v] : e = f
          /\ \A d, e \in hand' : d = e
          /\ stage' \notin {"sweeping", "closed"} => sweep'["workflow"] \in {"off", "due"}
      BY <3>1, <3>2
    <3>4. stage' = "finalizing" => \A d \in Calls \ todo' : Paired("workflow", d)'
      BY <3>1, <3>2
    <3>5. stage' = "repairing" => \A d \in Calls \ (todo' \cup hand') : Paired("workflow", d)'
      BY <3>1, <3>2
    <3>6. \A w \in Writers : sweep'[w] = "pairing" => \A d \in Calls \ swept'[w] : Paired(w, d)'
      BY <3>1, <3>2
    <3>7. PairedAtRest'
      BY <3>1, <3>2
    <3>. QED  BY <3>3, <3>4, <3>5, <3>6, <3>7
  <2>6. ASSUME NEW c \in Calls, RepairClose(c)
        PROVE  PairInv'
    BY <1>0, <2>6 DEF RepairClose, messages, stops, Paired
  <2>. QED  BY <1>1, <2>1, <2>2, <2>3, <2>4, <2>5, <2>6 DEF Ending
<1>2. ASSUME NEW w \in Writers, Sweep(w)
      PROVE  PairInv'
  <2>1. CASE SweepScan(w)
    BY <1>0, <2>1 DEF SweepScan, flow, messages, Paired
  <2>2. CASE SweepDone(w)
    BY <1>0, <2>2, ZenonT(40) DEF SweepDone, messages, Paired
  <2>3. CASE Insert(w)
    BY <1>0, <2>3, InsertPairs DEF Insert, flow, stops
  <2>4. ASSUME NEW c \in Calls, SweepClose(w, c)
        PROVE  PairInv'
    BY <1>0, <2>4 DEF SweepClose, flow, messages, Paired
  <2>5. ASSUME NEW c \in Calls, SweepPair(w, c)
        PROVE  PairInv'
    <3>1. PICK r \in Posts : AppendToolResult(w, c, r)
      BY <1>0, <1>a, <2>5 DEF SweepPair
    <3>2. /\ Paired(w, c)' /\ \A d \in Calls : posted[d] # <<>> => posted'[d] # <<>>
          /\ \A v \in Writers, d \in Calls : Paired(v, d) => Paired(v, d)'
          /\ \A v \in Writers : posting'[v] = posting[v] \/ posting'[v] = {<<c, r>>}
      BY <3>1, AppendPairs
    <3>3. UNCHANGED <<stage, verdict, todo, hand, sweep>> /\ swept' = [swept EXCEPT ![w] = @ \ {c}]
      BY <2>5 DEF SweepPair, flow
    <3>4. \A v \in Writers : \A e, f \in posting'[v] : e = f
      BY <3>2
    <3>5. \A v \in Writers : sweep'[v] = "pairing" => \A d \in Calls \ swept'[v] : Paired(v, d)'
      <4>1. \A v \in Writers : swept'[v] = IF v = w THEN swept[v] \ {c} ELSE swept[v]
        BY <1>0, <3>3
      <4>. QED  BY <3>2, <3>3, <4>1
    <3>. QED  BY <3>2, <3>3, <3>4, <3>5
  <2>. QED  BY <1>2, <2>1, <2>2, <2>3, <2>4, <2>5 DEF Sweep
<1>3. CASE SweepFails
  BY <1>0, <1>3 DEF SweepFails, Paired
<1>4. CASE WorkflowCancelled
  BY <1>0, <1>4 DEF WorkflowCancelled, Paired
<1>5. CASE Client
  <2>1. CASE CancelSignal \/ CancelThread \/ CancelThreadSweep \/ ClientDies
    BY <1>0, <2>1 DEF CancelSignal, CancelThread, CancelThreadSweep, ClientDies, flow, messages, Paired
  <2>2. ASSUME NEW c \in Calls, NEW a \in Answers, ResolveToolCall(c, a) \/ ResolveSignal(c, a)
        PROVE  PairInv'
    BY <1>0, <2>2 DEF ResolveToolCall, ResolveSignal, flow, stops, messages, Paired
  <2>. QED  BY <1>5, <2>1, <2>2 DEF Client
<1>6. CASE UNCHANGED <<messages, flow, sweep, swept>>
  BY <1>6 DEF messages, flow, Paired
<1>. QED  BY <1>1, <1>2, <1>3, <1>4, <1>5, <1>6, RepairFrame
\* Over a store that looks up and inserts at once no step leaves a message half posted,
\* and none appends to a call that has one.
LEMMA AtomicStep ==
  ASSUME AtomicAppend, TypeOK, Atomic, [Next]_vars
  PROVE  Atomic'
<1>0. /\ posted \in [Calls -> Seq(Posts)] /\ posting \in [Writers -> SUBSET (Calls \X Posts)]
      /\ result \in [Calls -> Posts \cup {NoResult}]
  BY DEF TypeOK, StoreTypeOK, MessagesTypeOK, RecordsTypeOK, Posts
<1>a. "no_result" \in Posts /\ "cancelled" \in Posts /\ \A c \in Calls : ToldResult(c) \in Posts
  BY <1>0 DEF Posts, Results, SystemResults, ToldResult
<1>b. ASSUME NEW w \in Writers, NEW c \in Calls, NEW r \in Posts, AppendToolResult(w, c, r)
      PROVE  Atomic'
  <2>1. CASE UNCHANGED messages
    BY <2>1 DEF Atomic, messages
  <2>2. CASE /\ posted[c] = <<>> /\ posting' = posting
             /\ posted' = [posted EXCEPT ![c] = Append(@, r)]
    <3>1. Len(Append(posted[c], r)) = 1
      BY <1>0, <2>2, AppendNonEmpty
    <3>. QED  BY <1>0, <2>2, <3>1 DEF Atomic
  <2>. QED  BY <1>b, <2>1, <2>2 DEF AppendToolResult
<1>c. ASSUME posted' = posted, NEW w \in Writers,
             posting' = posting \/ posting' = [posting EXCEPT ![w] = {}]
      PROVE  Atomic'
  BY <1>0, <1>c DEF Atomic
<1> USE GroupAssumption DEF messages
<1>1. CASE Ending \/ LocalActivityFails
  <2>1. CASE StartWork \/ Barrier \/ GroupDone \/ RunFinished \/ LocalActivityFails
    BY <1>c, <2>1 DEF StartWork, Barrier, GroupDone, RunFinished, LocalActivityFails
  <2>2. ASSUME NEW c \in Calls, FinalizeToolGroup(c) \/ RepairAppend(c)
        PROVE  Atomic'
    BY <1>a, <1>b, <2>2 DEF FinalizeToolGroup, RepairAppend
  <2>3. ASSUME NEW c \in Calls, RepairClose(c)
        PROVE  Atomic'
    BY <1>c, <2>3 DEF RepairClose
  <2>. QED  BY <1>1, <2>1, <2>2, <2>3 DEF Ending
<1>2. ASSUME NEW w \in Writers, Sweep(w)
      PROVE  Atomic'
  <2>1. CASE SweepScan(w) \/ SweepDone(w) \/ \E c \in Calls : SweepClose(w, c)
    BY <1>c, <2>1 DEF SweepScan, SweepDone, SweepClose
  <2>2. CASE Insert(w)
    BY <2>2 DEF Insert, InsertToolResult, Atomic
  <2>3. ASSUME NEW c \in Calls, SweepPair(w, c)
        PROVE  Atomic'
    <3>1. PICK r \in Posts : AppendToolResult(w, c, r)
      BY <1>0, <1>a, <2>3 DEF SweepPair
    <3>. QED  BY <1>b, <3>1
  <2>. QED  BY <1>2, <2>1, <2>2, <2>3 DEF Sweep
<1>3. CASE SweepFails \/ WorkflowCancelled
  BY <1>c, <1>3 DEF SweepFails, WorkflowCancelled
<1>4. CASE Client
  <2>1. CASE CancelSignal \/ CancelThread \/ CancelThreadSweep \/ ClientDies
    BY <1>c, <2>1 DEF CancelSignal, CancelThread, CancelThreadSweep, ClientDies
  <2>2. ASSUME NEW c \in Calls, NEW a \in Answers, ResolveToolCall(c, a) \/ ResolveSignal(c, a)
        PROVE  Atomic'
    BY <1>c, <2>2 DEF ResolveToolCall, ResolveSignal
  <2>. QED  BY <1>4, <2>1, <2>2 DEF Client
<1>5. CASE UNCHANGED <<messages, flow, sweep, swept>>
  BY <1>c, <1>5
<1>. QED  BY <1>1, <1>2, <1>3, <1>4, <1>5, RepairFrame

\* A group that is at rest, and a cancel_thread that returned, left no call without a tool
\* message, whichever store appends and however the group ended.
THEOREM PairedCorrect == Spec => []PairedAtRest
<1>1. Init => PairInv
  <2> SUFFICES ASSUME Init PROVE PairInv
    OBVIOUS
  <2>1. /\ stage = "admitting" /\ hand = {} /\ \A w \in Writers : posting[w] = {}
        /\ \A w \in Writers : sweep[w] = "off"
    BY DEF Init, StoreInit
  <2>. QED  BY <2>1, GroupAssumption DEF PairInv, PairedAtRest
<1>2. StoreInv /\ PairInv /\ [Next]_vars => PairInv'
  BY PairStep DEF StoreInv
<1>3. PairInv => PairedAtRest
  BY DEF PairInv
<1>. QED  BY <1>1, <1>2, <1>3, StoreInvariant, PTL DEF Spec

\* Over a store that appends atomically every call of a group at rest has one tool message
\* and never two, whoever of the group, the repair and the cancelling writers told it.
THEOREM OneMessageCorrect ==
  ASSUME AtomicAppend
  PROVE  Spec => []OneMessageEach
<1>1. Init => Atomic
  <2> SUFFICES ASSUME Init PROVE Atomic
    OBVIOUS
  <2>1. (\A w \in Writers : posting[w] = {}) /\ \A c \in Calls : posted[c] = <<>>
    BY DEF Init, StoreInit
  <2>. QED  BY <2>1 DEF Atomic
<1>2. StoreInv /\ Atomic /\ [Next]_vars => Atomic'
  BY AtomicStep DEF StoreInv
<1>3. StoreInv /\ Atomic => OneMessagePerCall
  <2> SUFFICES ASSUME Atomic, NEW c \in Calls PROVE Len(posted[c]) <= 1
    BY DEF OneMessagePerCall
  <2>1. Len(<<>>) = 0
    OBVIOUS
  <2>2. Len(posted[c]) \in {0, 1}
    BY <2>1 DEF Atomic
  <2>3. \A n \in {0, 1} : n <= 1
    OBVIOUS
  <2>. QED  BY <2>2, <2>3
<1>. QED  BY <1>1, <1>2, <1>3, StoreInvariant, PairedCorrect, PTL DEF Spec, OneMessageEach
\* A result that ends a run is the result of a tool that ran or of a call that was answered.
LEMMA FinishedByBody ==
  ASSUME TypeOK, Admitted, [Next]_vars, NEW c \in Calls, ~Finished(c), Finished(c)'
  PROVE  admits[c] \in {"execute", "await"}
<1> DEFINE Good == admits[c] \in {"execute", "await"}
<1> USE DEF Finished
<1>0. "finish" \notin SystemResults /\ result \in [Calls -> Results \cup {NoResult}]
  BY DEF SystemResults, TypeOK, StoreTypeOK, RecordsTypeOK
<1>a. ASSUME NEW d \in Calls, NEW s, NEW r \in SystemResults \cup {"error", NoResult},
             UpdateStatus(d, s, r)
      PROVE  FALSE
  BY <1>0, <1>a DEF UpdateStatus, SetRecord, records
<1>b. ASSUME UNCHANGED records
      PROVE  FALSE
  BY <1>b DEF records
<1>c. ASSUME NEW d \in Calls, NEW s, NEW r, UpdateStatus(d, s, r) \/ FinishWaiting(d, s, r)
      PROVE  d = c
  BY <1>0, <1>c DEF UpdateStatus, FinishWaiting, SetRecord, records
<1>1. ASSUME NEW d \in Calls, Admission(d)
      PROVE  Good
  <2>1. CASE AdmitTool(d)
    <3>1. PICK v \in Verdicts[d] :
            CASE v = "execute" -> UpdateStatus(d, "running", NoResult)
              [] v = "await"   -> UpdateStatus(d, "waiting", NoResult)
              [] v = "deny"    -> UpdateStatus(d, "blocked", "denied")
      BY <2>1 DEF AdmitTool
    <3>2. v \in Verdict /\ "denied" \in SystemResults
      BY GroupAssumption DEF SystemResults
    <3>. QED  BY <1>a, <3>1, <3>2
  <2>2. CASE ~AdmitTool(d)
    BY <1>1, <1>b, <2>2 DEF Admission, AdmitUnwritten, AdmitReport, AdmitLost
  <2>. QED  BY <2>1, <2>2
<1>2. ASSUME NEW d \in Calls, Execution(d)
      PROVE  Good
  <2>1. ASSUME NEW k \in Attempts, ExecuteFailed(d, k)
        PROVE  FALSE
    BY <1>a, <2>1 DEF ExecuteFailed, SystemResults
  <2>2. ASSUME NEW k \in Attempts, ExecuteWrite(d, k)
        PROVE  Good
    BY <1>c, <2>2 DEF ExecuteWrite, Admitted
  <2>3. CASE ~ \E k \in Attempts : ExecuteFailed(d, k) \/ ExecuteWrite(d, k)
    BY <1>2, <1>b, <2>3 DEF Execution, ExecuteTool, ExecuteUnwritten, ExecuteReport, ExecuteLost
  <2>. QED  BY <2>1, <2>2, <2>3
<1>3. ASSUME NEW d \in Calls, Waiting(d) \/ Resolution(d)
      PROVE  Good
  <2>1. CASE ResolveWrite(d)
    BY <1>c, <2>1 DEF ResolveWrite, Admitted
  <2>2. CASE ~ResolveWrite(d)
    BY <1>3, <1>b, <2>2 DEF Waiting, TakeResolution, WaitTimeout, WaitCancelled,
                            Resolution, ResolveTool, ResolveReport, ResolveLost
  <2>. QED  BY <2>1, <2>2
<1>4. CASE Ending \/ LocalActivityFails
  <2>1. ASSUME NEW d \in Calls, RepairClose(d)
        PROVE  FALSE
    BY <1>a, <2>1 DEF RepairClose, SystemResults
  <2>2. CASE ~ \E d \in Calls : RepairClose(d)
    BY <1>4, <1>b, <2>2 DEF Ending, StartWork, Barrier, GroupDone, RunFinished, FinalizeToolGroup,
                            RepairAppend, LocalActivityFails
  <2>. QED  BY <2>1, <2>2
<1>5. ASSUME NEW w \in Writers, Sweep(w)
      PROVE  Good
  <2>1. ASSUME NEW d \in Calls, SweepClose(w, d)
        PROVE  FALSE
    BY <1>a, <2>1 DEF SweepClose, SystemResults
  <2>2. CASE ~ \E d \in Calls : SweepClose(w, d)
    BY <1>5, <1>b, <2>2 DEF Sweep, SweepScan, SweepDone, Insert, SweepPair
  <2>. QED  BY <2>1, <2>2
<1>6. CASE SweepFails \/ WorkflowCancelled \/ Client
  BY <1>6, <1>b DEF SweepFails, WorkflowCancelled, Client, CancelSignal, CancelThread,
                    CancelThreadSweep, ClientDies, ResolveToolCall, ResolveSignal
<1>7. CASE UNCHANGED vars
  BY <1>7, <1>b DEF vars
<1>. QED  BY <1>1, <1>2, <1>3, <1>4, <1>5, <1>6, <1>7 DEF Next
\* The flag, what was heard and how the group ended follow from what is stored.
LEMMA StopStep ==
  ASSUME StoreInv, StopInv, [Next]_vars
  PROVE  StopInv'
<1> USE DEF StopInv, Finished
<1>t. /\ admits \in [Calls -> Verdict \cup {"pending", "error"}]
      /\ heard \in [Calls -> {"pending", "done", "error"}] /\ stop \in BOOLEAN
      /\ result \in [Calls -> Results \cup {NoResult}]
  BY DEF StoreInv, TypeOK, StoreTypeOK, RecordsTypeOK
<1>s. \A c \in Calls : StillTrue(c) /\ (Settled(c) => Settled(c)' /\ result'[c] = result[c])
  BY NextRecords, RecordStable, NextStillTrue DEF StoreInv
<1>f. \A c \in Calls : /\ Finished(c) => Settled(c) /\ Finished(c)'
                       /\ Finished(c)' => Finished(c) \/ admits[c] \in {"execute", "await"}
  <2>1. NoResult # "finish"
    OBVIOUS
  <2>2. \A c \in Calls : Finished(c) => Settled(c)
    BY <2>1 DEF StoreInv, ResultWritten
  <2>. QED  BY <1>s, <2>2, FinishedByBody DEF StoreInv
<1>u. unwritten \subseteq unwritten' /\ (cancelled => cancelled')
  BY NextRemembers
<1>w. \A c \in Calls : c \notin unwritten /\ heard[c] = "done" => Settled(c) \/ cancelled
  BY DEF StoreInv, Written
<1>v. verdict \in {"continue", "completed"} /\ unwritten = {} =>
        /\ \A c \in Calls : Settled(c)'
        /\ verdict = "completed" <=> \E c \in Calls : Finished(c)'
  BY <1>s, <1>f
<1> DEFINE Heard(c) == c \notin unwritten' /\ heard'[c] = "done" /\ Finished(c)' => stop' \/ cancelled'
<1> HIDE DEF StopInv
<1>k. ASSUME /\ stop => stop'
             /\ stop' => stop \/ \E c \in Calls : Finished(c)'
             /\ \A c \in Calls : admits[c] \in {"execute", "await"} => admits'[c] = admits[c]
             /\ \A c \in Calls : heard[c] # "done" => Heard(c)
             /\ \A c \in Calls : heard[c] = "done" => heard'[c] = "done"
             /\ stage' = "admitting" => stage = "admitting" /\ heard' = heard
             /\ stage' = "finalizing" => stage = "finalizing" \/ \A c \in Calls : heard[c] = "done"
             /\ verdict' = verdict \/ verdict' \in {"failed", "cancelled", "aborted"}
      PROVE  StopInv'
  <2>1. stop' => \E c \in Calls : Finished(c)'
    BY <1>k, <1>f DEF StopInv
  <2>2. \A c \in Calls : Finished(c)' => admits'[c] \in {"execute", "await"}
    BY <1>k, <1>f DEF StopInv
  <2>3. \A c \in Calls : Heard(c)
    BY <1>k, <1>s, <1>u, <1>w DEF StopInv
  <2>4. /\ stage' = "finalizing" => \A c \in Calls : heard'[c] = "done"
        /\ stage' = "admitting" => \A c \in Calls : heard'[c] = "pending"
    BY <1>k DEF StopInv
  <2>5. verdict' \in {"continue", "completed"} /\ unwritten' = {} =>
          /\ \A c \in Calls : Settled(c)'
          /\ verdict' = "completed" <=> \E c \in Calls : Finished(c)'
    BY <1>k, <1>u, <1>v
  <2>. QED  BY <2>1, <2>2, <2>3, <2>4, <2>5 DEF StopInv
<1>q. ASSUME UNCHANGED <<stop, admits, heard>>,
             stage' \in {"admitting", "finalizing"} => stage' = stage,
             verdict' = verdict \/ verdict' \in {"failed", "cancelled", "aborted"}
      PROVE  StopInv'
  BY <1>k, <1>q
<1>1. ASSUME NEW c \in Calls, Admission(c)
      PROVE  StopInv'
  <2>1. CASE AdmitTool(c) \/ AdmitUnwritten(c)
    BY <1>q, <2>1 DEF AdmitTool, AdmitUnwritten, flow, known
  <2>2. CASE AdmitReport(c) \/ AdmitLost(c)
    <3>1. UNCHANGED <<stop, heard, stage, verdict>>
      BY <2>2 DEF AdmitReport, AdmitLost, flow
    <3>2. \A d \in Calls : admits[d] \in {"execute", "await"} => admits'[d] = admits[d]
      BY <1>t, <2>2 DEF AdmitReport, AdmitLost, StoreInv, Admitted
    <3>. QED  BY <1>k, <3>1, <3>2
  <2>. QED  BY <1>1, <2>1, <2>2 DEF Admission
<1>2. ASSUME NEW c \in Calls, Execution(c)
      PROVE  StopInv'
  <2>1. ASSUME NEW k \in Attempts,
               ExecuteTool(c, k) \/ ExecuteFailed(c, k) \/ ExecuteWrite(c, k) \/ ExecuteUnwritten(c, k)
        PROVE  StopInv'
    BY <1>q, <2>1 DEF ExecuteTool, ExecuteFailed, ExecuteWrite, ExecuteUnwritten, flow, known
  <2>2. CASE ExecuteReport(c)
    <3>0. attempt[c] \in Attempts
      BY <2>2 DEF ExecuteReport, StoreInv, TypeOK
    <3>1. /\ UNCHANGED <<admits, result, stage, verdict, unwritten>>
          /\ heard' = [heard EXCEPT ![c] = "done"]
          /\ stop' = (stop \/ (run[c][attempt[c]] = "wrote" /\ Finished(c)))
          /\ run[c][attempt[c]] \in {"wrote", "unwritten"} /\ stage = "working"
      BY <2>2 DEF ExecuteReport, EndsRun, flow, records
    <3>2. run[c][attempt[c]] = "unwritten" => c \in unwritten
      BY <3>0 DEF StoreInv, Written
    <3>3. \A d \in Calls : heard[d] # "done" => Heard(d)
      BY <1>t, <3>1, <3>2
    <3>. QED  BY <1>k, <1>t, <3>1, <3>3
  <2>3. CASE ExecuteLost(c)
    <3>1. UNCHANGED <<stop, admits, stage, verdict>> /\ heard[c] = "pending" /\ stage # "admitting"
      BY <2>3 DEF ExecuteLost, flow
    <3>2. heard' = heard \/ heard' = [heard EXCEPT ![c] = "error"]
      BY <2>3 DEF ExecuteLost
    <3>3. \A d \in Calls : heard'[d] = "done" <=> heard[d] = "done"
      BY <1>t, <3>1, <3>2
    <3>. QED  BY <1>k, <3>1, <3>3
  <2>. QED  BY <1>2, <2>1, <2>2, <2>3 DEF Execution
<1>3. ASSUME NEW c \in Calls, Waiting(c) \/ Resolution(c)
      PROVE  StopInv'
  <2>1. CASE TakeResolution(c) \/ WaitTimeout(c) \/ ResolveTool(c) \/ ResolveWrite(c)
    BY <1>q, <2>1 DEF TakeResolution, WaitTimeout, ResolveTool, ResolveWrite, flow, known
  <2>2. CASE WaitCancelled(c)
    <3>1. /\ UNCHANGED <<stop, admits, stage, verdict>> /\ heard' = [heard EXCEPT ![c] = "done"]
          /\ cancelled /\ stage # "admitting"
      BY <2>2 DEF WaitCancelled, Waits, flow
    <3>. QED  BY <1>k, <1>t, <1>u, <3>1
  <2>3. CASE ResolveReport(c)
    <3>1. /\ UNCHANGED <<admits, result, stage, verdict>>
          /\ heard' = [heard EXCEPT ![c] = "done"] /\ stop' = (stop \/ Finished(c))
          /\ stage = "working"
      BY <2>3 DEF ResolveReport, EndsRun, flow, records
    <3>2. \A d \in Calls : heard[d] # "done" => Heard(d)
      BY <1>t, <3>1
    <3>. QED  BY <1>k, <1>t, <3>1, <3>2
  <2>4. CASE ResolveLost(c)
    <3>1. /\ UNCHANGED <<stop, admits, stage, verdict>> /\ heard[c] = "pending"
          /\ heard' = [heard EXCEPT ![c] = "error"] /\ stage = "working"
      BY <2>4 DEF ResolveLost, flow
    <3>2. \A d \in Calls : heard'[d] = "done" <=> heard[d] = "done"
      BY <1>t, <3>1
    <3>. QED  BY <1>k, <3>1, <3>2
  <2>. QED  BY <1>3, <2>1, <2>2, <2>3, <2>4 DEF Waiting, Resolution
<1>4. CASE Ending \/ LocalActivityFails
  <2>1. CASE StartWork
    <3>1. /\ UNCHANGED <<stop, admits, result>> /\ stage = "admitting"
          /\ stage' \in {"repairing", "working"} /\ (verdict' = verdict \/ verdict' = "failed")
      BY <2>1 DEF StartWork, records
    <3>2. \A c \in Calls : heard[c] = "pending"
      BY <3>1 DEF StopInv
    <3>3. \A c \in Calls : heard'[c] = "done" => admits[c] = "deny"
      BY <2>1, <3>2 DEF StartWork
    <3>4. \A c \in Calls : Finished(c)' => admits[c] # "deny"
      BY <3>1 DEF StopInv
    <3>. QED  BY <1>k, <3>1, <3>2, <3>3, <3>4
  <2>2. CASE Barrier
    <3>1. /\ UNCHANGED <<stop, admits, heard>> /\ stage' # "admitting"
          /\ verdict' = verdict \/ verdict' \in {"failed", "cancelled"}
          /\ stage' = "finalizing" => \A c \in Calls : heard[c] = "done"
      BY <1>t, <2>2 DEF Barrier, AllHeard, known
    <3>. QED  BY <1>k, <3>1
  <2>3. CASE GroupDone
    <3>1. CASE cancelled
      BY <1>q, <2>3, <3>1 DEF GroupDone, known
    <3>2. CASE ~cancelled
      <4>1. /\ UNCHANGED <<stop, admits, heard, unwritten, cancelled>> /\ stage' = "closed"
            /\ verdict' = IF stop THEN "completed" ELSE "continue"
            /\ \A c \in Calls : Finished(c)' = Finished(c)
        BY <2>3, <3>2 DEF GroupDone, known, tasks, stops, records
      <4>2. /\ \A c \in Calls : heard[c] = "done"
            /\ \A c \in Calls \ unwritten : Settled(c)
        BY <2>3 DEF GroupDone, StopInv, StoreInv, BarrierDrained
      <4>3. unwritten = {} => /\ \A c \in Calls : Settled(c)'
                              /\ stop <=> \E c \in Calls : Finished(c)
        BY <1>s, <3>2, <4>2 DEF StopInv
      <4>. QED  BY <4>1, <4>3 DEF StopInv
    <3>. QED  BY <3>1, <3>2
  <2>4. CASE RunFinished \/ LocalActivityFails
    BY <1>q, <2>4 DEF RunFinished, LocalActivityFails, known
  <2>5. ASSUME NEW c \in Calls, FinalizeToolGroup(c) \/ RepairClose(c) \/ RepairAppend(c)
        PROVE  StopInv'
    BY <1>q, <2>5 DEF FinalizeToolGroup, RepairClose, RepairAppend, known
  <2>. QED  BY <1>4, <2>1, <2>2, <2>3, <2>4, <2>5 DEF Ending
<1>5. ASSUME NEW w \in Writers, Sweep(w)
      PROVE  StopInv'
  BY <1>q, <1>5 DEF Sweep, SweepScan, SweepDone, Insert, SweepClose, SweepPair, flow, known
<1>6. CASE SweepFails \/ WorkflowCancelled
  BY <1>q, <1>6 DEF SweepFails, WorkflowCancelled, known
<1>7. CASE Client
  <2>1. CASE CancelSignal \/ CancelThread \/ CancelThreadSweep \/ ClientDies
    BY <1>q, <2>1 DEF CancelSignal, CancelThread, CancelThreadSweep, ClientDies, flow, known
  <2>2. ASSUME NEW c \in Calls, NEW a \in Answers, ResolveToolCall(c, a) \/ ResolveSignal(c, a)
        PROVE  StopInv'
    BY <1>q, <2>2 DEF ResolveToolCall, ResolveSignal, flow, known
  <2>. QED  BY <1>7, <2>1, <2>2 DEF Client
<1>8. CASE UNCHANGED vars
  BY <1>q, <1>8 DEF vars, flow, known
<1>. QED  BY <1>1, <1>2, <1>3, <1>4, <1>5, <1>6, <1>7, <1>8 DEF Next

\* The run stops after a group exactly when a stored result says so, whichever attempt,
\* answer or timeout stored it, unless an outcome could not be stored.
THEOREM StopCorrect == Spec => []StopIsStored
<1>1. Init => StopInv
  <2> SUFFICES ASSUME Init PROVE StopInv
    OBVIOUS
  <2>1. /\ stop = FALSE /\ stage = "admitting" /\ verdict = None
        /\ \A c \in Calls : result[c] = NoResult /\ heard[c] = "pending"
    BY DEF Init, StoreInit
  <2>. QED  BY <2>1 DEF StopInv, Finished
<1>2. StoreInv /\ StopInv /\ [Next]_vars => StopInv'
  BY StopStep
<1>3. StopInv => StopIsStored
  BY DEF StopInv, StopIsStored, Finished
<1>. QED  BY <1>1, <1>2, <1>3, StoreInvariant, PTL DEF Spec
-----------------------------------------------------------------------------
(* The promise.                                                            *)

\* A step writes a record, or tells the transcript, or ends the group, and never two of
\* these; what is closed stays as it closed.
OneThing ==
  \/ UNCHANGED <<posted, stage, verdict>>
  \/ /\ UNCHANGED <<records, stage, verdict>>
     /\ \/ \E w \in Writers : InsertToolResult(w)
        \/ \E w \in Writers, c \in Calls, r \in Posts : AppendToolResult(w, c, r)
  \/ UNCHANGED <<records, posted>> /\ (stage # "closed" \/ UNCHANGED <<stage, verdict>>)

LEMMA NextOneThing ==
  ASSUME TypeOK, [Next]_vars
  PROVE  OneThing
<1> USE GroupAssumption DEF OneThing
<1>0. result \in [Calls -> Posts \cup {NoResult}]
  BY DEF TypeOK, StoreTypeOK, RecordsTypeOK, Posts
<1>a. "no_result" \in Posts /\ "cancelled" \in Posts /\ \A c \in Calls : ToldResult(c) \in Posts
  BY <1>0 DEF Posts, Results, SystemResults, ToldResult
<1>1. CASE Ending \/ LocalActivityFails
  <2>1. CASE StartWork \/ Barrier \/ GroupDone \/ RunFinished \/ LocalActivityFails
    BY <2>1 DEF StartWork, Barrier, GroupDone, RunFinished, LocalActivityFails, messages
  <2>2. ASSUME NEW c \in Calls, FinalizeToolGroup(c) \/ RepairAppend(c)
        PROVE  OneThing
    BY <1>a, <2>2 DEF FinalizeToolGroup, RepairAppend
  <2>3. ASSUME NEW c \in Calls, RepairClose(c)
        PROVE  OneThing
    BY <2>3 DEF RepairClose, messages
  <2>. QED  BY <1>1, <2>1, <2>2, <2>3 DEF Ending
<1>2. ASSUME NEW w \in Writers, Sweep(w)
      PROVE  OneThing
  <2>1. CASE SweepScan(w) \/ SweepDone(w) \/ \E c \in Calls : SweepClose(w, c)
    BY <2>1 DEF SweepScan, SweepDone, SweepClose, messages, flow
  <2>2. CASE Insert(w)
    BY <2>2 DEF Insert, flow
  <2>3. ASSUME NEW c \in Calls, SweepPair(w, c)
        PROVE  OneThing
    <3>1. PICK r \in Posts : AppendToolResult(w, c, r)
      BY <1>0, <1>a, <2>3 DEF SweepPair
    <3>. QED  BY <2>3, <3>1 DEF SweepPair, flow
  <2>. QED  BY <1>2, <2>1, <2>2, <2>3 DEF Sweep
<1>3. CASE SweepFails \/ WorkflowCancelled
  BY <1>3 DEF SweepFails, WorkflowCancelled
<1>4. CASE Client
  <2>1. CASE CancelSignal \/ CancelThread \/ CancelThreadSweep \/ ClientDies
    BY <2>1 DEF CancelSignal, CancelThread, CancelThreadSweep, ClientDies, messages, flow
  <2>2. ASSUME NEW c \in Calls, NEW a \in Answers, ResolveToolCall(c, a) \/ ResolveSignal(c, a)
        PROVE  OneThing
    BY <2>2 DEF ResolveToolCall, ResolveSignal, messages, flow
  <2>. QED  BY <1>4, <2>1, <2>2 DEF Client
<1>5. CASE UNCHANGED <<messages, flow, sweep, swept>>
  BY <1>5 DEF messages, flow
<1>. QED  BY <1>1, <1>2, <1>3, <1>4, <1>5, RepairFrame

\* With stores that do not fail every outcome is stored.
LEMMA StoredStep ==
  ASSUME StoreFails = {}, unwritten = {}, [Next]_vars
  PROVE  unwritten' = {}
<1>1. ASSUME NEW c \in Calls, Admission(c)
      PROVE  unwritten' = {}
  BY <1>1 DEF Admission, AdmitTool, AdmitUnwritten, AdmitReport, AdmitLost
<1>2. ASSUME NEW c \in Calls, Execution(c)
      PROVE  unwritten' = {}
  BY <1>2 DEF Execution, ExecuteTool, ExecuteFailed, ExecuteWrite, ExecuteUnwritten,
              ExecuteReport, ExecuteLost
<1>3. ASSUME NEW c \in Calls, Waiting(c) \/ Resolution(c)
      PROVE  unwritten' = {}
  BY <1>3 DEF Waiting, TakeResolution, WaitTimeout, WaitCancelled, tasks,
              Resolution, ResolveTool, ResolveWrite, ResolveReport, ResolveLost
<1>4. CASE StartWork
  BY <1>4 DEF StartWork
<1>5. CASE UNCHANGED <<admits, heard, tasks>>
  BY <1>5 DEF tasks
<1>. QED  BY <1>1, <1>2, <1>3, <1>4, <1>5, ActivityFrame

\* A record that a step writes gets one result and had none.
LEMMA RecordSettles ==
  ASSUME TypeOK, ResultWritten, ResultWritten', RecordStep
  PROVE  \/ result' = result
         \/ \E c \in Calls, r \in Results : result[c] = NoResult /\ result' = [result EXCEPT ![c] = r]
<1> USE DEF TypeOK, StoreTypeOK, RecordsTypeOK
<1>1. CASE UNCHANGED records
  BY <1>1 DEF records
<1>2. ASSUME NEW c \in Calls, NEW s \in Terminal, NEW r \in Results,
             UpdateStatus(c, s, r) \/ FinishWaiting(c, s, r)
      PROVE  \/ result' = result
             \/ result[c] = NoResult /\ result' = [result EXCEPT ![c] = r]
  BY <1>2 DEF UpdateStatus, FinishWaiting, SetRecord, records, ResultWritten, Settled
<1>3. ASSUME NEW c \in Calls, NEW s \in {"running", "waiting"}, UpdateStatus(c, s, NoResult)
      PROVE  result' = result
  BY <1>3 DEF UpdateStatus, SetRecord, records
<1>. QED  BY <1>1, <1>2, <1>3 DEF RecordStep

PromiseInv == StoreInv /\ PairInv /\ Atomic /\ unwritten = {}

LEMMA PromiseStep ==
  ASSUME PromiseInv, PromiseInv', [Next]_vars
  PROVE  [Promise!Next]_(Promise!promise)
<1> DEFINE Over == stage = "closed" /\ verdict # "aborted"
           View == [c \in Calls |-> IF Settled(c) THEN result[c] ELSE NoResult]
<1>0. /\ TypeOK /\ TypeOK' /\ ResultWritten /\ ResultWritten' /\ OneThing /\ RecordStep
  BY NextRecords, NextOneThing DEF PromiseInv, StoreInv
<1>p. /\ posted \in [Calls -> Seq(Posts)] /\ result \in [Calls -> Results \cup {NoResult}]
      /\ result' \in [Calls -> Results \cup {NoResult}]
  BY <1>0 DEF TypeOK, StoreTypeOK, RecordsTypeOK, MessagesTypeOK
<1>1. View = result
  BY <1>0, <1>p DEF ResultWritten
<1>2. View' = result'
  BY <1>0, <1>p DEF ResultWritten
<1> HIDE DEF View
<1>3. SUFFICES \/ /\ \A c \in Calls : posted[c] # <<>>
                  /\ Over' = TRUE /\ View' = View /\ posted' = posted
               \/ \E c \in Calls : /\ View[c] = NoResult
                                   /\ \E r \in Results : View' = [View EXCEPT ![c] = r]
                                   /\ posted' = posted /\ Over' = Over
               \/ \E c \in Calls : /\ View[c] # NoResult /\ posted[c] = <<>>
                                   /\ posted' = [posted EXCEPT ![c] = <<View[c]>>]
                                   /\ View' = View /\ Over' = Over
               \/ View' = View /\ posted' = posted /\ Over' = Over
  BY DEF Promise!Next, Promise!promise, Promise!End, Promise!Settle, Promise!Tell, View
<1>4. CASE UNCHANGED <<posted, stage, verdict>>
  <2>1. \/ result' = result
        \/ \E c \in Calls, r \in Results : result[c] = NoResult /\ result' = [result EXCEPT ![c] = r]
    BY <1>0, RecordSettles
  <2>. QED  BY <1>1, <1>2, <1>4, <2>1
<1>5. CASE /\ UNCHANGED <<records, stage, verdict>>
           /\ \/ \E w \in Writers : InsertToolResult(w)
              \/ \E w \in Writers, c \in Calls, r \in Posts : AppendToolResult(w, c, r)
  <2>1. ~ \E w \in Writers : InsertToolResult(w)
    BY DEF InsertToolResult, PromiseInv, Atomic
  <2>2. PICK w \in Writers, c \in Calls, r \in Posts : AppendToolResult(w, c, r)
    BY <1>5, <2>1
  <2>3. result' = result
    BY <1>5 DEF records
  <2>4. CASE UNCHANGED messages
    BY <1>1, <1>2, <1>5, <2>3, <2>4 DEF messages
  <2>5. CASE posted[c] = <<>> /\ posted' = [posted EXCEPT ![c] = Append(@, r)]
    <3>1. posted' = [posted EXCEPT ![c] = <<r>>] /\ posted'[c] = <<r>>
      BY <1>p, <2>5
    <3>2. Settled(c)' /\ r = result'[c]
      <4>1. \A i \in 1 .. Len(posted'[c]) : Settled(c)' /\ posted'[c][i] = result'[c]
        BY DEF PromiseInv, StoreInv, TranscriptAgrees
      <4>2. Len(<<r>>) = 1 /\ <<r>>[1] = r /\ 1 \in 1 .. 1
        OBVIOUS
      <4>. QED  BY <3>1, <4>1, <4>2
    <3>3. result[c] # NoResult
      BY <1>0, <2>3, <3>2 DEF ResultWritten
    <3>. QED  BY <1>1, <1>2, <1>5, <2>3, <2>5, <3>1, <3>2, <3>3
  <2>6. CASE posting' = [posting EXCEPT ![w] = {<<c, r>>}]
    <3>1. posting'[w] = {<<c, r>>}
      BY <1>0, <2>6 DEF TypeOK, StoreTypeOK, MessagesTypeOK
    <3>2. posting'[w] = {}
      BY DEF PromiseInv, Atomic
    <3>. QED  BY <3>1, <3>2
  <2>. QED  BY <2>2, <2>4, <2>5, <2>6 DEF AppendToolResult
<1>6. CASE UNCHANGED <<records, posted>> /\ (stage # "closed" \/ UNCHANGED <<stage, verdict>>)
  <2>1. result' = result
    BY <1>6 DEF records
  <2>2. CASE Over'
    <3>1. \A c \in Calls : posted'[c] # <<>>
      BY <2>2 DEF PromiseInv, PairInv, PairedAtRest
    <3>. QED  BY <1>1, <1>2, <1>6, <2>1, <2>2, <3>1
  <2>3. CASE ~Over'
    BY <1>1, <1>2, <1>6, <2>1, <2>3
  <2>. QED  BY <2>2, <2>3
<1>. QED  BY <1>0, <1>4, <1>5, <1>6 DEF OneThing

\* ToolGroupPromise: over a store that appends atomically, and stores that do not fail, the
\* group keeps its promise to the run.  Each call is settled once and told once, with the
\* result it was settled with, and the group ends when every call was told.
THEOREM PromiseKept ==
  ASSUME AtomicAppend, StoreFails = {}
  PROVE  Spec => KeepsPromise
<1>1. Init => Promise!Init /\ Atomic /\ PairInv /\ unwritten = {}
  <2> SUFFICES ASSUME Init PROVE Promise!Init /\ Atomic /\ PairInv /\ unwritten = {}
    OBVIOUS
  <2>1. /\ stage = "admitting" /\ hand = {} /\ unwritten = {}
        /\ \A w \in Writers : posting[w] = {} /\ sweep[w] = "off"
        /\ posted = [c \in Calls |-> <<>>] /\ \A c \in Calls : ~Settled(c)
    BY DEF Init, StoreInit, Settled
  <2>2. Promise!Init
    BY <2>1 DEF Promise!Init
  <2>. QED  BY <2>1, <2>2, GroupAssumption DEF PairInv, PairedAtRest, Atomic
<1>2. StoreInv /\ PairInv /\ Atomic /\ unwritten = {} /\ [Next]_vars =>
        (PairInv /\ Atomic /\ unwritten = {})'
  BY PairStep, AtomicStep, StoredStep DEF StoreInv
<1>3. PromiseInv /\ PromiseInv' /\ [Next]_vars => [Promise!Next]_(Promise!promise)
  BY PromiseStep
<1>. QED  BY <1>1, <1>2, <1>3, StoreInvariant, PTL
          DEF Spec, KeepsPromise, Promise!Spec, PromiseInv
=============================================================================
