------------------------------- MODULE ModelCall -------------------------------
(***************************************************************************)
(* A call of the OpenAI provider (actant/llm/providers/openai.py): its     *)
(* attempts, the limiter each one waits for, the stream each one reads,    *)
(* what the listener of the turn is shown, and the budget of the whole.    *)
(*                                                                         *)
(* An item of a stream is named by its attempt and its place in it; its    *)
(* deltas are one event, its opening.  The server is the environment: it   *)
(* sends events in any order its streaming contract allows.  Timers run    *)
(* in ticks and are served when due.                                       *)
(***************************************************************************)
EXTENDS RateLimiter

CONSTANTS
    Callers,        \* the turns that share a provider, and its limiter
    Estimates,      \* Estimates[c]: what a request of caller c may be estimated at
    Attempts,       \* attempts
    Turn,           \* turn_s
    Idle,           \* idle_s
    ReasoningIdle,  \* reasoning_idle_s
    Waits,          \* waits a retry may draw: retry-after and jitter
    MaxItems        \* MaxItems[c]: items in one stream of caller c, a bound

ASSUME CallAssumption ==
    /\ Estimates \in [Callers -> SUBSET Nat]
    /\ Attempts \in Nat \ {0} /\ Turn \in Nat \ {0}
    /\ Idle \in Nat \ {0} /\ ReasoningIdle \in Nat \ {0}
    /\ Waits \subseteq Nat /\ MaxItems \in [Callers -> Nat]

VARIABLES
    call,       \* the call of each caller
    shown       \* what its listener was shown since the call began or was reset

vars == <<limiter, call, shown>>

Kinds  == {"message", "function_call", "reasoning"}
Ends   == {"none", "answer", "salvaged", "error", "timeout", "cancelled"}
Held   == {"acquire", "sleeping"}
Armed  == {"sleeping", "opening", "stream", "backoff"}

NoCall == [pc |-> "idle", est |-> 0, attempt |-> 1, turn |-> 0, timer |-> 0, open |-> "none",
           items |-> 0, failed |-> FALSE, end |-> "none", answer |-> <<>>]

\* Token counts that come with a failed response: none, or the server's.
Reports == {{}} \cup {{n} : n \in Actuals}

Running(c) == call[c].pc \notin {"idle", "done"}
Streaming(c) == call[c].pc = "stream"

\* The types of the variables, and: a task is in the lock's queue exactly while it acquires.
TypeOK ==
    /\ call \in [Callers ->
          [pc : {"idle", "acquire", "done"} \cup Armed, est : Nat,
           attempt : 1 .. Attempts, turn : 0 .. Turn, timer : Nat,
           open : {"none"} \cup Kinds, items : Nat, failed : BOOLEAN, end : Ends,
           answer : Seq((1 .. Attempts) \X Nat)]]
    /\ shown \in [Callers -> Seq((1 .. Attempts) \X Nat)]
    /\ window \in Seq(Entries)
    /\ \A i \in 1 .. Len(window) - 1 : window[i].age >= window[i + 1].age
    /\ Range(lock) = {c \in Callers : call[c].pc \in Held}
    /\ \A c \in Callers : call[c].pc = "sleeping" => lock[1] = c
    /\ \A c \in Callers : call[c].items <= MaxItems[c]

Init ==
    /\ LimiterInit
    /\ call = [c \in Callers |-> NoCall]
    /\ shown = [c \in Callers |-> <<>>]

(***************************************************************************)
(* Ends of a call and of an attempt.                                       *)
(***************************************************************************)
End(c, how, answer) ==
    call' = [call EXCEPT ![c] = [NoCall EXCEPT !.pc = "done", !.end = how, !.answer = answer,
                                               !.failed = call[c].failed]]

\* Mutant: a wait may last until the turn's end.
BackoffToTheEnd(c, wait) == wait <= call[c].turn

\* An attempt failed: raised, when it would fail again, was the last, or the budget
\* would run out during the wait; otherwise the wait begins.
Backoff(c, wait) == wait < call[c].turn

Fail(c, transient) ==
    \/ /\ ~transient \/ call[c].attempt = Attempts
       /\ End(c, "error", <<>>)
    \/ /\ transient /\ call[c].attempt < Attempts
       /\ \E wait \in Waits :
            IF Backoff(c, wait)
            THEN call' = [call EXCEPT ![c].pc = "backoff", ![c].timer = wait]
            ELSE End(c, "error", <<>>)

(***************************************************************************)
(* complete, _complete and _reserved_attempt.                              *)
(***************************************************************************)
Begin(c) ==
    /\ call[c].pc = "idle"
    /\ \E n \in Estimates[c] :
         call' = [call EXCEPT ![c].pc = "acquire", ![c].est = n, ![c].turn = Turn]
    /\ lock' = Append(lock, c)
    /\ UNCHANGED <<window, sent, shown>>

\* The lock's holder reserves, or sleeps until an entry expires, still holding it.
Acquire(c) ==
    /\ lock # <<>> /\ lock[1] = c
    /\ call[c].pc = "acquire" \/ call[c].timer = 0
    /\ IF Fits(Evict(window), call[c].est)
       THEN /\ Admit(call[c].est)
            /\ call' = [call EXCEPT ![c].pc = "opening", ![c].timer = Idle]
       ELSE /\ window' = Evict(window)
            /\ call' = [call EXCEPT ![c].pc = "sleeping", ![c].timer = Wait]
            /\ UNCHANGED <<lock, sent>>
    /\ UNCHANGED shown

\* Mutant: what the failed attempt showed stays.
NoReset(c) == shown[c]

\* on_stream_reset: what the failed attempt showed is withdrawn before the next one.
Reset(c) == <<>>

Retry(c) ==
    /\ call[c].pc = "backoff" /\ call[c].timer = 0
    /\ call' = [call EXCEPT ![c].pc = "acquire", ![c].attempt = @ + 1, ![c].open = "none",
                            ![c].items = 0, ![c].failed = FALSE]
    /\ shown' = [shown EXCEPT ![c] = Reset(c)]
    /\ lock' = Append(lock, c)
    /\ UNCHANGED <<window, sent>>

\* Mutant: the budget does not end a call that waits for the limiter.
AttemptExpires(c) ==
    /\ Running(c) /\ call[c].turn = 0 /\ call[c].pc \notin Held
    /\ End(c, "timeout", <<>>)
    /\ UNCHANGED <<limiter, shown>>

\* asyncio.timeout(turn_s), around everything; the attempt's estimate stands.
TurnExpires(c) ==
    /\ Running(c) /\ call[c].turn = 0
    /\ End(c, "timeout", <<>>)
    /\ Leave(c)
    /\ UNCHANGED <<window, sent, shown>>

\* The turn's task is cancelled from outside.
Abandoned(c) ==
    /\ Running(c)
    /\ End(c, "cancelled", <<>>)
    /\ Leave(c)
    /\ UNCHANGED <<window, sent, shown>>

\* The caller takes what it was told; its next call is a new one.
Return(c) ==
    /\ call[c].pc = "done"
    /\ call' = [call EXCEPT ![c] = NoCall]
    /\ shown' = [shown EXCEPT ![c] = <<>>]
    /\ UNCHANGED limiter

(***************************************************************************)
(* _stream_attempt: opening, events, end of the stream.                    *)
(***************************************************************************)
\* Until an item opens, and outside messages and calls, silence may last longer.
Gap(kind) == IF kind \in {"message", "function_call"} THEN Idle ELSE ReasoningIdle

Opened(c) ==
    /\ call[c].pc = "opening"
    /\ call' = [call EXCEPT ![c].pc = "stream", ![c].timer = Gap("none")]
    /\ UNCHANGED <<limiter, shown>>

\* A status error, a lost connection, or a silence past its bound.
Broken(c) ==
    /\ call[c].pc \in {"opening", "stream"}
    /\ \E transient \in BOOLEAN : Fail(c, transient \/ call[c].timer = 0)
    /\ UNCHANGED <<limiter, shown>>

\* The listener asks to stop (cancel_requested, read at each event that is not skipped).
StreamCancelled(c) ==
    /\ Streaming(c)
    /\ End(c, "cancelled", <<>>)
    /\ UNCHANGED <<limiter, shown>>

\* An event other than an error is read; after a bare response.failed it is skipped.
Skips(c) == call[c].failed

Reads(c) == Streaming(c) /\ ~Skips(c)

\* What the listener is shown of an item: each delta under the id of its item, a tool
\* call's start once before its arguments.
Forward(c, item) == shown' = [shown EXCEPT ![c] = Append(@, item)]

ItemAdded(c, kind) ==
    /\ Reads(c) /\ call[c].open = "none" /\ call[c].items < MaxItems[c]
    /\ call' = [call EXCEPT ![c].open = kind, ![c].items = @ + 1, ![c].timer = Gap(kind)]
    /\ Forward(c, <<call[c].attempt, call[c].items + 1>>)
    /\ UNCHANGED limiter

ItemDone(c) ==
    /\ Reads(c) /\ call[c].open # "none"
    /\ call' = [call EXCEPT ![c].open = "none", ![c].timer = Gap("none")]
    /\ UNCHANGED <<limiter, shown>>

\* A further delta, or a skipped event: only the bound on the next silence starts over.
MoreEvents(c) ==
    /\ Streaming(c)
    /\ call' = [call EXCEPT ![c].timer = Gap(call[c].open)]
    /\ UNCHANGED <<limiter, shown>>

\* 300 characters of white space in a call: what is written is the call when it is whole.
\* The count the reservation is given is then 0.
Stalled(c, whole) ==
    /\ Reads(c) /\ call[c].open = "function_call"
    /\ IF whole
       THEN /\ End(c, "salvaged", << <<call[c].attempt, call[c].items>> >>)
            /\ Commit(call[c].est, {0})
       ELSE Fail(c, TRUE) /\ UNCHANGED window
    /\ UNCHANGED <<lock, sent, shown>>

\* An error event, the only one read after a bare response.failed.
ErrorEvent(c, transient) ==
    /\ Streaming(c)
    /\ Fail(c, transient)
    /\ UNCHANGED <<limiter, shown>>

\* response.failed naming no error: the failure is raised by what follows.
FailedUnnamed(c) ==
    /\ Reads(c)
    /\ call' = [call EXCEPT ![c].failed = TRUE, ![c].timer = Gap(call[c].open)]
    /\ UNCHANGED <<limiter, shown>>

\* response.failed or response.incomplete, the tokens it used reported or not.
Unfinished(c, transient, reported) ==
    /\ Reads(c)
    /\ Fail(c, transient)
    /\ Commit(call[c].est, reported)
    /\ UNCHANGED <<lock, sent, shown>>

\* The stream closes after a bare failure, or with no terminal event.
Closed(c) ==
    /\ Streaming(c)
    /\ \E reported \in Reports :
         /\ ~call[c].failed => reported = {}
         /\ Commit(call[c].est, reported)
    /\ Fail(c, ~call[c].failed)
    /\ UNCHANGED <<lock, sent, shown>>

\* The completed response holds every item that was streamed.
Completed(c, actual) ==
    /\ Streaming(c) /\ call[c].open = "none" /\ ~call[c].failed
    /\ End(c, "answer", [i \in 1 .. call[c].items |-> <<call[c].attempt, i>>])
    /\ Commit(call[c].est, {actual})
    /\ UNCHANGED <<lock, sent, shown>>

(***************************************************************************)
(* Time, fairness, the specification.                                      *)
(***************************************************************************)
Due(c) == Running(c) /\ (call[c].turn = 0 \/ (call[c].pc \in Armed /\ call[c].timer = 0))

Tick ==
    /\ \A c \in Callers : ~Due(c)
    /\ call' = [c \in Callers |->
          IF ~Running(c) THEN call[c]
          ELSE [call[c] EXCEPT !.turn = @ - 1, !.timer = Max({@, 1}) - 1]]
    /\ LimiterTick
    /\ UNCHANGED shown

Serve(c) == Acquire(c) \/ Retry(c)

Expire(c) == TurnExpires(c) \/ (call[c].timer = 0 /\ Broken(c))

Event(c) ==
    \/ Opened(c) \/ Broken(c) \/ StreamCancelled(c)
    \/ \E kind \in Kinds : ItemAdded(c, kind)
    \/ ItemDone(c) \/ MoreEvents(c)
    \/ \E whole \in BOOLEAN : Stalled(c, whole)
    \/ \E transient \in BOOLEAN : ErrorEvent(c, transient)
    \/ FailedUnnamed(c)
    \/ \E transient \in BOOLEAN, reported \in Reports :
         Unfinished(c, transient, reported)
    \/ Closed(c)
    \/ \E actual \in Actuals : Completed(c, actual)

Next ==
    \/ Tick
    \/ \E c \in Callers :
         Begin(c) \/ Serve(c) \/ Expire(c) \/ Event(c) \/ Abandoned(c) \/ Return(c)

\* Time passes, and the event loop serves the timers that are due and the lock.
Fairness ==
    /\ SF_vars(Tick)
    /\ \A c \in Callers : WF_vars(Serve(c) \/ Expire(c))

Spec == Init /\ [][Next]_vars /\ Fairness

(***************************************************************************)
(* Properties.                                                             *)
(***************************************************************************)
\* No more requests than the limit are let through in any stretch of the window's length,
\* its two ends included, whichever callers sleep, give up or are corrected meanwhile.
RateKept == Len(sent) <= RPM

\* A listener that follows the resets was shown the answer its turn is given, and nothing
\* else; of a salvaged answer, the call that was open when the stream stalled.
AnswerWasShown == \A c \in Callers :
    /\ call[c].end = "answer" => shown[c] = call[c].answer
    /\ call[c].end = "salvaged" => call[c].answer = <<Last(shown[c])>>

\* A response the server declared failed is never an answer, whatever it streams after that.
FailureStands == \A c \in Callers : call[c].failed => call[c].end \notin {"answer", "salvaged"}

\* The budget never runs out during a wait for a retry: the failure that would be retried
\* is what the caller is told, not a timeout that hides it.
NoHiddenFailure == [][\A c \in Callers :
    call[c].pc = "backoff" => call'[c].end # "timeout"]_vars

\* Every call ends, also one whose estimate is over the whole budget of the limiter.
CallEnds == \A c \in Callers : Running(c) ~> ~Running(c)

\* The limiter's holder does not sleep on once its request fits: it waits for the earliest
\* entry whose expiry frees the budget (comment of rate_limit._compute_wait).
WakesWhenItFits == \A c \in Callers :
    call[c].pc = "sleeping" /\ call[c].timer > 0 => ~Fits(Evict(window), call[c].est)

\* The limiter and the callers fit together, what a listener was shown is what the turn is
\* given, and a failure the server declared stands.
CallInv == TypeOK /\ AnswerWasShown /\ FailureStands
================================================================================
