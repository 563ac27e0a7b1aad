--------------------------- MODULE ContextCompaction ---------------------------
(***************************************************************************)
(* The context of one thread that compacts: its stored messages, the view  *)
(* of them a model is sent (runtime/compaction.py), the turns that measure *)
(* it and the summaries that shrink it, written by the thread at a limit   *)
(* or beside it by a workflow of their own (temporal/workflow.py,          *)
(* temporal/activities/runs.py).  LocalThreadRuntime (runtime/local.py)    *)
(* drives the same activities in one process: it has no inbox, its         *)
(* background summary is a task, and `job` is the task's place in          *)
(* _summarizing, kept until the result is taken.                           *)
(*                                                                         *)
(* A message is its position in the transcript; its size is one, and so is *)
(* a summary's.  A summary covers what its writer had seen, the summary    *)
(* before it included.  Runs, records and cancellation are AgentThread's.  *)
(***************************************************************************)
EXTENDS Naturals, FiniteSets, FiniteSetsExt, Sequences

CONSTANTS
    Callers,        \* who runs the thread: a subset of {"workflow", "local"}
    Hard,           \* CompactionConfig.threshold, in messages
    Soft,           \* CompactionConfig.background, in messages
    MaxMessages,    \* bound: messages the user sends
    MaxTurns,       \* bound: answers of the model
    MaxLost         \* bound: lost attempts of run_turn

ASSUME CompactionAssumption ==
    /\ Callers \subseteq {"workflow", "local"}
    /\ Hard \in Nat /\ Soft \in Nat /\ Soft < Hard
    /\ MaxMessages \in Nat /\ MaxTurns \in Nat /\ MaxLost \in Nat

VARIABLES
    caller,     \* who runs this thread
    rows,       \* the transcript, compaction rows included
    wf,         \* where the thread's caller, or its activity, is
    inbox,      \* messages waiting in the workflow, or given to the run
    fresh,      \* messages of this turn that no row holds yet
    sent,       \* messages the user has sent
    gated,      \* history: messages of turns the gate refused, held by no row
    failed,     \* history: messages of turns that failed, held by no row
    summary,    \* the summary this activity stores, or the one it has written
    plan,       \* the compaction row this activity is about to append
    compacted,  \* RunTurnInput.compacted
    admitted,   \* RunTurnInput.admitted
    waited,     \* this turn has waited for a background summary
    ahead,      \* TurnResult.summarize: the boundary for a background summary
    job,        \* _summary_job is set, or the thread is in _summarizing
    ready,      \* _summary_ready
    child,      \* the summary workflow: "none", "start", "write", "signal", "store", "append"
    childText,  \* its boundary, then its summary
    childPlan,  \* the row it is about to append
    beside,     \* history: a closed thread opened while its summary was being stored
    turns, lost \* counters for the bounds

turnVars  == <<inbox, fresh, summary, plan, compacted, admitted, waited, ahead>>
childVars == <<child, childText, childPlan>>
history   == <<sent, gated, failed, beside, turns, lost>>
vars == <<caller, rows, wf, turnVars, job, ready, childVars, history>>

NoSummary == [through |-> 0, base |-> 0, covers |-> {}]
NoRow     == [kind |-> "none"]
Message(k, of) == [kind |-> k, of |-> of]
\* `read` is history: how much of the transcript the row was planned from.
Compaction(kept, s) ==
    [kind |-> "compaction", kept |-> kept, base |-> s.base, covers |-> s.covers,
     read |-> Len(rows)]

Positions(k) == {p \in DOMAIN rows : rows[p].kind = k}
Messages     == DOMAIN rows \ Positions("compaction")

MessageRow    == [kind : {"user", "answer", "call", "result"}, of : Nat]
CompactionRow ==
    [kind : {"compaction"}, kept : SUBSET Nat, base : Nat, covers : SUBSET Nat, read : Nat]
Summary       == [through : Nat, base : Nat, covers : SUBSET Nat]

TypeOK ==
    /\ rows \in Seq(MessageRow \cup CompactionRow)
    /\ caller \in Callers
    /\ wf \in {"closed", "open", "store", "row", "gate", "measure", "model", "group", "wait",
               "compact", "write", "compactRow", "resend", "last", "lastRow"}
    /\ inbox \in 0 .. MaxMessages /\ fresh \in 0 .. MaxMessages /\ sent \in 0 .. MaxMessages
    /\ sent = inbox + fresh + gated + failed + Cardinality(Positions("user"))
    /\ compacted \in BOOLEAN /\ admitted \in BOOLEAN /\ waited \in BOOLEAN
    /\ ahead \in Nat /\ job \in BOOLEAN /\ beside \in BOOLEAN
    /\ summary \in Summary /\ ready \in Summary /\ childText \in Summary
    /\ plan \in CompactionRow \cup {NoRow} /\ childPlan \in CompactionRow \cup {NoRow}
    /\ wf \in {"row", "compactRow", "lastRow"} <=> plan # NoRow
    /\ child \in {"none", "start", "write", "signal", "store", "append"}
    /\ child = "append" <=> childPlan # NoRow
    /\ ready # NoSummary => child \notin {"signal", "store", "append"}

Init ==
    /\ caller \in Callers
    /\ rows = <<>> /\ wf = "closed"
    /\ inbox = 0 /\ fresh = 0 /\ sent = 0 /\ gated = 0 /\ failed = 0
    /\ summary = NoSummary /\ plan = NoRow
    /\ compacted = FALSE /\ admitted = FALSE /\ waited = FALSE /\ ahead = 0
    /\ job = FALSE /\ ready = NoSummary
    /\ child = "none" /\ childText = NoSummary /\ childPlan = NoRow
    /\ beside = FALSE /\ turns = 0 /\ lost = 0

(***************************************************************************)
(* compaction.py: what the model is sent of the rows                       *)
(***************************************************************************)
\* The latest compaction row, 0 without one.
Latest == Max({0} \cup Positions("compaction"))

\* list_for_model and build_view: the latest row's kept messages and all after it.
View ==
    IF Latest = 0 THEN Messages
    ELSE {p \in Messages : p > Latest \/ p \in rows[Latest].kept}

\* What the summaries behind the latest row have seen.
Covered == IF Latest = 0 THEN {} ELSE rows[Latest].covers

\* Mutant: the message that asked for the open tools may be replaced.
BeforeAnyCall(V) ==
    LET said == V \cap (Positions("answer") \cup Positions("call"))
    IN  IF said = {} THEN {} ELSE {p \in V : p <= Max(said)}

\* pending_start: the messages before the open turn, which a summary may replace.
Replaceable(V) ==
    LET said == V \cap (Positions("answer") \cup Positions("call"))
        last == Max(said)
    IN  IF said = {} THEN {}
        ELSE {p \in V : p < last \/ (p = last /\ rows[p].kind = "answer")}

\* measure_request: the view, its summary, and what this turn adds.
Measured == Cardinality(View) + (IF Latest = 0 THEN 0 ELSE 1) + fresh

\* kept_ids with the tool's tag kept: the latest result before the boundary.
Tagged(through) == LET results == {p \in Positions("result") : p <= through}
                   IN  IF results = {} THEN {} ELSE {Max(results)}

\* Mutant: a summary is stored whatever the context is by now.
NeverStale(s) == FALSE

\* A summary whose base is not the latest compaction row any more.
Stale(s) == s.base # Latest

\* Mutant: what came after the boundary is not kept.
KeptTagged(s) == Tagged(s.through)

\* RunActivities._store_summary: every message the model sees after the boundary is
\* kept, with the latest one of each tag before it.
Kept(s) == Tagged(s.through) \cup {p \in View : p > s.through}

\* RunActivities._summarize through a boundary that is in the view.
Summarized(through) ==
    [through |-> through, base |-> Latest,
     covers  |-> Covered \cup {p \in View : p <= through}]

(***************************************************************************)
(* The thread: AgentThreadWorkflow.run, _run_agent, and run_turn           *)
(***************************************************************************)
\* A closed thread opens, though a summary of it may be on its way into the store.
Opens == beside' = (beside \/ (wf = "closed" /\ child \in {"store", "append"}))

UserSends ==
    /\ caller = "workflow" /\ sent < MaxMessages
    /\ Opens
    /\ sent' = sent + 1 /\ inbox' = inbox + 1
    /\ wf' = IF wf = "closed" THEN "open" ELSE wf
    /\ UNCHANGED <<rows, fresh, summary, plan, compacted, admitted, waited, ahead, job, ready,
                   childVars, gated, failed, turns, lost>>

\* LocalThreadRuntime.run: the thread's next run, given all of its messages.
LocalRun ==
    /\ caller = "local" /\ wf = "closed"
    /\ Opens
    /\ \E n \in 1 .. MaxMessages - sent : sent' = sent + n /\ inbox' = n
    /\ wf' = "open"
    /\ UNCHANGED <<rows, fresh, summary, plan, compacted, admitted, waited, ahead, job, ready,
                   childVars, gated, failed, turns, lost>>

\* A summary that is ready is taken; LocalThreadRuntime._ready_summary forgets the
\* task that wrote it, or failed.
Taken == IF caller = "local" THEN child # "none" ELSE job

\* A turn begins, with the messages that came and the summary that is ready.
StartTurn ==
    /\ wf = "open"
    /\ job' = Taken
    /\ fresh' = fresh + inbox /\ inbox' = 0
    /\ summary' = ready /\ ready' = NoSummary
    /\ wf' = IF ready = NoSummary THEN "gate" ELSE "store"
    /\ compacted' = FALSE /\ admitted' = FALSE /\ waited' = FALSE
    /\ UNCHANGED <<rows, plan, ahead, childVars, history>>

\* _store_summary reads the rows; a summary of a context since compacted is dropped.
ReadToStore(from, row, stale) ==
    /\ wf = from
    /\ IF Stale(summary)
       THEN wf' = stale /\ UNCHANGED plan
       ELSE wf' = row /\ plan' = Compaction(Kept(summary), summary)
    /\ UNCHANGED <<rows, inbox, fresh, summary, compacted, admitted, waited, ahead, job, ready,
                   childVars, history>>

\* append_compaction.
AppendRow(from, to) ==
    /\ wf = from
    /\ rows' = Append(rows, plan) /\ plan' = NoRow
    /\ wf' = to
    /\ UNCHANGED <<inbox, fresh, summary, compacted, admitted, waited, ahead, job, ready,
                   childVars, history>>

TurnStores == ReadToStore("store", "row", "gate") \/ AppendRow("row", "gate")

\* The attempt is lost after it stored the summary; the next one stores it again.
AttemptLost ==
    /\ caller = "workflow"
    /\ wf \in {"gate", "measure"} /\ summary # NoSummary /\ lost < MaxLost
    /\ lost' = lost + 1
    /\ wf' = "store"
    /\ UNCHANGED <<rows, turnVars, job, ready, childVars, sent, gated, failed, beside, turns>>

\* The turn gate, before anything of a compacting thread's turn is stored.
Admits ==
    /\ wf = "gate"
    /\ wf' = "measure"
    /\ UNCHANGED <<rows, turnVars, job, ready, childVars, history>>

Refuses ==
    /\ wf = "gate" /\ ~admitted
    /\ gated' = gated + fresh /\ fresh' = 0
    /\ summary' = NoSummary
    /\ wf' = "last"
    /\ UNCHANGED <<rows, inbox, plan, compacted, admitted, waited, ahead, job, ready, childVars,
                   sent, failed, beside, turns, lost>>

\* _append_inbound: the turn's messages are stored, and the request goes out.
StoreInbound(n) == rows \o [i \in 1 .. n |-> Message("user", 0)]

Crosses(limit) == Measured > limit /\ Replaceable(View) # {}

\* Below the limit; past Soft, the result will ask for a background summary.
MeasureBelow ==
    /\ wf = "measure" /\ ~Crosses(Hard)
    /\ ahead' = IF Crosses(Soft) THEN Max(Replaceable(View)) ELSE 0
    /\ rows' = StoreInbound(fresh) /\ fresh' = 0
    /\ summary' = NoSummary
    /\ wf' = "model"
    /\ UNCHANGED <<inbox, plan, compacted, admitted, waited, job, ready, childVars, history>>

\* Past it nothing is sent or stored: the workflow waits for the summary that is
\* being written, once, or compacts.
MeasureAbove ==
    /\ wf = "measure" /\ Crosses(Hard)
    /\ ahead' = Max(Replaceable(View))
    /\ summary' = NoSummary
    /\ wf' = IF ~waited /\ (job \/ ready # NoSummary) THEN "wait" ELSE "compact"
    /\ UNCHANGED <<rows, inbox, fresh, plan, compacted, admitted, waited, job, ready, childVars,
                   history>>

\* _take_summary: the ready one, or the child's once it has ended.
TakeSummary ==
    /\ wf = "wait"
    /\ ready # NoSummary \/ child = "none"
    /\ waited' = TRUE /\ job' = FALSE
    /\ summary' = ready /\ ready' = NoSummary
    /\ IF ready = NoSummary
       THEN wf' = "compact" /\ UNCHANGED <<admitted, inbox, fresh>>
       ELSE wf' = "store" /\ admitted' = TRUE /\ fresh' = fresh + inbox /\ inbox' = 0
    /\ UNCHANGED <<rows, plan, compacted, ahead, childVars, history>>

\* compact_context writes a summary through the trigger's boundary.
CompactSummarizes ==
    /\ wf = "compact" /\ ahead \in View
    /\ summary' = Summarized(ahead)
    /\ wf' = "write"
    /\ UNCHANGED <<rows, inbox, fresh, plan, compacted, admitted, waited, ahead, job, ready,
                   childVars, history>>

CompactStores == ReadToStore("write", "compactRow", "compact") /\ ~Stale(summary)
CompactAppends == AppendRow("compactRow", "resend")

\* The summary call fails for good, its boundary left the context, or the context
\* was compacted meanwhile: the run fails, with its messages.
CompactFails ==
    /\ wf \in {"compact", "write"}
    /\ failed' = failed + fresh /\ fresh' = 0
    /\ summary' = NoSummary /\ ahead' = 0
    /\ wf' = "last"
    /\ UNCHANGED <<rows, inbox, plan, compacted, admitted, waited, job, ready, childVars, sent,
                   gated, beside, turns, lost>>

\* The same turn from the fresh context: it stores its messages and does not measure.
Resend ==
    /\ wf = "resend"
    /\ compacted' = TRUE /\ ahead' = 0 /\ summary' = NoSummary
    /\ rows' = StoreInbound(fresh + inbox) /\ fresh' = 0 /\ inbox' = 0
    /\ wf' = "model"
    /\ UNCHANGED <<plan, admitted, waited, job, ready, childVars, history>>

\* _start_summary, unless one is in flight or ready; an earlier execution's child
\* is found by its id.
StartsChild == ahead # 0 /\ ~job /\ ready = NoSummary /\ child = "none"

ModelAnswers(k) ==
    /\ wf = "model" /\ turns < MaxTurns
    /\ rows' = Append(rows, Message(k, 0))
    /\ turns' = turns + 1
    /\ IF StartsChild
       THEN /\ job' = TRUE /\ child' = "start"
            /\ childText' = [NoSummary EXCEPT !.through = ahead]
       ELSE UNCHANGED <<job, child, childText>>
    /\ ahead' = 0
    /\ wf' = IF k = "call" THEN "group" ELSE "last"
    /\ UNCHANGED <<inbox, fresh, summary, plan, compacted, admitted, waited, ready, childPlan,
                   sent, gated, failed, beside, lost>>

\* The turn fails, its messages stored.
ModelFails ==
    /\ wf = "model"
    /\ ahead' = 0 /\ wf' = "last"
    /\ UNCHANGED <<rows, inbox, fresh, summary, plan, compacted, admitted, waited, job, ready,
                   childVars, history>>

\* finalize_tool_group: the result follows, and the next turn.
GroupEnds ==
    /\ wf = "group"
    /\ rows' = Append(rows, Message("result", Max(Positions("call"))))
    /\ wf' = "open"
    /\ UNCHANGED <<turnVars, job, ready, childVars, history>>

\* The run ended: a summary that is ready is stored before the thread stops.
LastSummary ==
    /\ wf = "last" /\ inbox = 0 /\ ready # NoSummary
    /\ summary' = ready /\ ready' = NoSummary /\ job' = Taken
    /\ IF Stale(ready) THEN UNCHANGED <<wf, plan>>
       ELSE wf' = "lastRow" /\ plan' = Compaction(Kept(ready), ready)
    /\ UNCHANGED <<rows, inbox, fresh, compacted, admitted, waited, ahead, childVars, history>>

LastAppends == AppendRow("lastRow", "last")

\* Another run, in this execution or, when no summary is ready, in the next.
NextRun ==
    /\ wf = "last" /\ inbox > 0
    /\ wf' = "open"
    /\ job' \in {job} \cup (IF ready = NoSummary THEN {FALSE} ELSE {})
    /\ UNCHANGED <<rows, turnVars, ready, childVars, history>>

\* An execution closes with its job; the local task stays, unless it has ended.
Outlives == caller = "local" /\ child # "none"

\* Mutant: a summary that is ready is left unstored.
StopAnyway ==
    /\ wf = "last" /\ inbox = 0
    /\ wf' = "closed" /\ job' = Outlives
    /\ UNCHANGED <<rows, turnVars, ready, childVars, history>>

Stop ==
    /\ wf = "last" /\ inbox = 0 /\ ready = NoSummary
    /\ wf' = "closed" /\ job' = Outlives
    /\ UNCHANGED <<rows, turnVars, ready, childVars, history>>

(***************************************************************************)
(* ContextSummaryWorkflow                                                  *)
(***************************************************************************)
ChildSummarizes ==
    /\ caller = "workflow"
    /\ child = "start" /\ childText.through \in View
    /\ child' = "signal" /\ childText' = Summarized(childText.through)
    /\ UNCHANGED <<rows, wf, turnVars, job, ready, childPlan, history>>

\* The local task: its result waits for the next turn, or for the end of the run,
\* when one is open; the task stores it itself otherwise.
LocalSummarizes ==
    /\ caller = "local"
    /\ child = "start" /\ childText.through \in View
    /\ LET written == Summarized(childText.through)
       IN  IF wf = "closed"
           THEN child' = "store" /\ childText' = written /\ job' = FALSE /\ UNCHANGED ready
           ELSE child' = "none" /\ ready' = written /\ UNCHANGED <<childText, job>>
    /\ UNCHANGED <<rows, wf, turnVars, childPlan, history>>

\* The call fails, or its boundary has left the context; _summary_job stays set.
ChildFails ==
    /\ child = "start"
    /\ child' = "none"
    /\ UNCHANGED <<rows, wf, turnVars, job, ready, childText, childPlan, history>>

\* summary_ready reaches the thread, whichever execution of it is open.
ChildSignals ==
    /\ child = "signal" /\ wf # "closed"
    /\ ready' = childText /\ job' = FALSE
    /\ child' = "none"
    /\ UNCHANGED <<rows, wf, turnVars, childText, childPlan, history>>

\* The thread has closed: the summary is stored here.
ChildFindsClosed ==
    /\ child = "signal" /\ wf = "closed"
    /\ child' = "store"
    /\ UNCHANGED <<rows, wf, turnVars, job, ready, childText, childPlan, history>>

ChildReads ==
    /\ child = "store"
    /\ IF Stale(childText) THEN child' = "none" /\ UNCHANGED childPlan
       ELSE child' = "append" /\ childPlan' = Compaction(Kept(childText), childText)
    /\ UNCHANGED <<rows, wf, turnVars, job, ready, childText, history>>

ChildAppends ==
    /\ child = "append"
    /\ rows' = Append(rows, childPlan) /\ childPlan' = NoRow
    /\ child' = "none"
    /\ UNCHANGED <<wf, turnVars, job, ready, childText, history>>

Child ==
    \/ ChildSummarizes \/ LocalSummarizes \/ ChildFails \/ ChildSignals \/ ChildFindsClosed
    \/ ChildReads \/ ChildAppends
-----------------------------------------------------------------------------
Thread ==
    \/ StartTurn \/ TurnStores \/ Admits \/ Refuses \/ MeasureBelow \/ MeasureAbove
    \/ TakeSummary \/ CompactSummarizes \/ CompactStores \/ CompactAppends \/ CompactFails
    \/ Resend \/ ModelAnswers("answer") \/ ModelAnswers("call") \/ ModelFails \/ GroupEnds
    \/ LastSummary \/ LastAppends \/ NextRun \/ Stop

Next == (UserSends \/ LocalRun \/ AttemptLost \/ Thread \/ Child) /\ UNCHANGED caller

\* Temporal runs the workflows and their activities, which end or time out; the event
\* loop runs the local caller and its task.
Spec ==
    /\ Init /\ [][Next]_vars
    /\ WF_vars(Thread /\ UNCHANGED caller) /\ WF_vars(Child /\ UNCHANGED caller)
-----------------------------------------------------------------------------
\* What came between the read and the append of a compaction row: _store_summary does
\* not see it, and nothing keeps the thread from opening meanwhile.
Missed == UNION {(rows[p].read + 1) .. (p - 1) : p \in Positions("compaction")}

\* compaction.py: "anything you leave out is gone", and nothing else is.  Every
\* message of the transcript is in the model's view or was read by a summary the
\* view begins with, whoever stored it and whatever was appended meanwhile, but for
\* those that came between the read and the append of a row.
NothingHidden == Messages \subseteq View \cup Covered \cup Missed

\* A request is one a provider takes: every tool call in the view has its result
\* in it, and a result whose call was replaced is of an earlier turn than the last.
\* The exception is a call or a result that a row has missed.
ValidRequest ==
    wf = "model" =>
        /\ \A c \in View \cap Positions("call") :
              \E r \in (View \cup Missed) \cap Positions("result") : rows[r].of = c
        /\ \A r \in View \cap Positions("result") :
              \/ rows[r].of \in View \cup Missed
              \/ rows[r].of < Max(Positions("call") \cup Positions("answer"))

\* Each compaction row replaces the context its summary was written from: a
\* summary that is stored twice, by a lost attempt and the next, or beside a
\* blocking compaction, is stored once.  The exception is a row that came between.
OneChain ==
    \A p \in Positions("compaction") :
        rows[p].base = Max({0} \cup {q \in Positions("compaction") : q <= rows[p].read})

\* Nothing comes between the read and the append of a row, whichever of the turn, the
\* compaction, the end of the run and the background stores it, in a thread that did not
\* open while its summary was being stored.
NoneBetween == ~beside => \A p \in Positions("compaction") : rows[p].read = p - 1

\* A background summary is stored or dropped in the end, and the thread does not
\* stop before it has: none is left waiting in a thread that stopped.
SummarySettles == (child # "none" \/ ready # NoSummary) ~> (child = "none" /\ ready = NoSummary)

\* The state is well formed, and each compaction row follows the one before it.
CompactionInv == TypeOK /\ OneChain /\ NoneBetween
=============================================================================
