------------------------------ MODULE RateLimiter ------------------------------
(***************************************************************************)
(* The sliding-window limiter one provider's calls share                   *)
(* (actant/llm/rate_limit.py).  Times are kept relative to now, in ticks:  *)
(* an entry's age grows as time passes.  The slack the code adds to a wait *)
(* is the one tick that takes an entry past the window.  Both deques of    *)
(* the code get an entry at the same moment and lose it at the same        *)
(* moment, so one sequence stands for both.                                *)
(***************************************************************************)
EXTENDS Naturals, Sequences, SequencesExt

CONSTANTS
    Actuals,    \* token totals a server may report
    Window,     \* _WINDOW_SECS, in ticks
    RPM,        \* requests_per_minute
    TPM         \* tokens_per_minute

ASSUME LimiterAssumption ==
    /\ Actuals \subseteq Nat
    /\ Window \in Nat \ {0} /\ RPM \in Nat \ {0} /\ TPM \in Nat \ {0}

VARIABLES
    window,     \* _token_window and _request_window, oldest first
    lock,       \* the holder of _lock, then the tasks that wait for it in order
    sent        \* history: ages of the requests let through, oldest first

limiter == <<window, lock, sent>>

Entries == [age : 0 .. Window + 1, tokens : Nat]

LimiterInit == window = <<>> /\ lock = <<>> /\ sent = <<>>

(***************************************************************************)
(* What _acquire computes over the window.                                 *)
(***************************************************************************)
\* What is left of a sequence when it loses its elements from the oldest on, up to the first
\* of those that stay.
From(s, stay) == SubSeq(s, Min(stay \cup {Len(s) + 1}), Len(s))

\* Mutant: an entry as old as the window is gone.
EvictAtTheEdge(w) == From(w, {i \in 1 .. Len(w) : w[i].age < Window})

Evict(w) == From(w, {i \in 1 .. Len(w) : w[i].age <= Window})

TokensIn(w) == FoldSeq(LAMBDA e, n : e.tokens + n, 0, w)

Fits(w, estimated) == TokensIn(w) + estimated <= TPM /\ Len(w) < RPM

\* _compute_wait: target starts at now and only grows, and no entry is younger than now,
\* so it stays there whatever the entries are: the wait is always a whole window.
Wait == Window + 1

(***************************************************************************)
(* The lock, the reservation and its correction.                           *)
(***************************************************************************)
Admit(estimated) ==
    /\ window' = Append(Evict(window), [age |-> 0, tokens |-> estimated])
    /\ sent' = Append(sent, 0)
    /\ lock' = Tail(lock)

\* The task leaves the lock or its queue, by whatever way it ends.
Leave(c) == lock' = RemoveFirst(lock, c)

\* _record_actual: the newest entry takes the count, whoever made it.
RecordActual(w, actual) ==
    IF w = <<>> THEN w ELSE [w EXCEPT ![Len(w)].tokens = actual]

\* _commit: nothing is corrected when the attempt reported no count, or the estimate.
Commit(estimated, reported) ==
    window' = IF reported \subseteq {estimated} THEN window
              ELSE RecordActual(window, CHOOSE n \in reported : TRUE)

\* Time passes: an age past the window is as good as any other.
LimiterTick ==
    /\ window' = [i \in 1 .. Len(window) |->
                    [window[i] EXCEPT !.age = IF @ > Window THEN @ ELSE @ + 1]]
    /\ sent' = From([i \in 1 .. Len(sent) |-> sent[i] + 1], {i \in 1 .. Len(sent) : sent[i] < Window})
    /\ UNCHANGED lock
================================================================================
