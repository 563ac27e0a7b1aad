--------------------------- MODULE ToolCallStore ---------------------------
(***************************************************************************)
(* The two projections a tool call leaves in the runtime's stores: its     *)
(* lifecycle record (ToolCallStore) and the tool messages that answer it   *)
(* in the transcript (MessageStore.append_tool_result).  The operations    *)
(* below are the only way any activity or client changes either.           *)
(*                                                                         *)
(* A result is abstracted to a tag that says who produced it.  "finish"    *)
(* stands for every result whose metadata is marked terminal.              *)
(***************************************************************************)
EXTENDS Naturals, Sequences

CONSTANTS
  Calls,         \* ids of the tool calls
  Answers,       \* what a person may answer to a waiting call
  Writers,       \* processes that append tool messages
  AtomicAppend   \* TRUE: InMemoryMessageStore; FALSE: SQLAlchemyMessageStore,
                 \* whose lookup and insert are two transactions

Open     == {"requested", "running", "waiting"}
Terminal == {"completed", "blocked", "failed"}

NoResult == "none"

ToolResults   == {"ok", "error", "finish"}
SystemResults == {"denied", "interrupted", "uncertain", "timed_out", "cancelled"}
Results       == ToolResults \cup SystemResults \cup Answers
Posts         == Results \cup {"no_result"}

ASSUME StoreAssumption ==
  /\ AtomicAppend \in BOOLEAN
  /\ Answers \cap (ToolResults \cup SystemResults \cup {NoResult, "no_result"}) = {}

VARIABLES
  status,    \* [Calls -> Open \cup Terminal]
  result,    \* [Calls -> Results \cup {NoResult}]
  posted,    \* per call, the tool messages that answer it, in order
  posting    \* per writer, the (call, result) it found absent, still to insert

records == <<status, result>>
messages == <<posted, posting>>

RecordsTypeOK ==
  /\ status \in [Calls -> Open \cup Terminal]
  /\ result \in [Calls -> Results \cup {NoResult}]

MessagesTypeOK ==
  /\ posted  \in [Calls -> Seq(Posts)]
  /\ posting \in [Writers -> SUBSET (Calls \X Posts)]

StoreTypeOK == RecordsTypeOK /\ MessagesTypeOK

StoreInit ==
  /\ status  = [c \in Calls |-> "requested"]
  /\ result  = [c \in Calls |-> NoResult]
  /\ posted  = [c \in Calls |-> <<>>]
  /\ posting = [w \in Writers |-> {}]

Settled(c) == status[c] \in Terminal

SetRecord(c, s, r) ==
  /\ status' = [status EXCEPT ![c] = s]
  /\ result' = IF r = NoResult THEN result ELSE [result EXCEPT ![c] = r]

\* Mutant: an update that does not look at the status it replaces.
UpdateAnyStatus(c, s, r) == SetRecord(c, s, r)

\* ToolCallStore.update_status: a terminal record is never updated.
UpdateStatus(c, s, r) ==
  IF Settled(c) THEN UNCHANGED records ELSE SetRecord(c, s, r)

\* Mutant: a resolution written whatever the record has become.
FinishAny(c, s, r) == SetRecord(c, s, r)

\* ToolCallStore.finish_waiting: only a waiting record is updated.
FinishWaiting(c, s, r) ==
  IF status[c] = "waiting" THEN SetRecord(c, s, r) ELSE UNCHANGED records

\* The status an answered or executed call ends with.
StatusOf(r) == IF r \in {"error", "interrupted", "timed_out", "uncertain"}
               THEN "failed" ELSE "completed"

\* MessageStore.append_tool_result, up to its lookup (and through its insert
\* when nothing can run between the two).
AppendToolResult(w, c, r) ==
  /\ posting[w] = {}
  /\ IF posted[c] # <<>> THEN UNCHANGED messages
     ELSE IF AtomicAppend
          THEN /\ posted' = [posted EXCEPT ![c] = Append(@, r)]
               /\ UNCHANGED posting
          ELSE /\ posting' = [posting EXCEPT ![w] = {<<c, r>>}]
               /\ UNCHANGED posted

\* The second transaction of SQLAlchemyMessageStore.append_tool_result.
InsertToolResult(w) ==
  \E e \in posting[w] :
    /\ posted'  = [posted EXCEPT ![e[1]] = Append(@, e[2])]
    /\ posting' = [posting EXCEPT ![w] = {}]
=============================================================================
