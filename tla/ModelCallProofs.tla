---------------------------- MODULE ModelCallProofs ----------------------------
(* What a caller is told of its call and what the limiter lets through, for  *)
(* any callers, limits and timers, with proofs.                              *)
EXTENDS ModelCall, SequenceTheorems, WellFoundedInduction, TLAPS

-----------------------------------------------------------------------------
(* The invariant.                                                          *)

Pieces == (1 .. Attempts) \X Nat
Calls  == [pc : {"idle", "acquire", "done"} \cup Armed, est : Nat,
           attempt : 1 .. Attempts, turn : 0 .. Turn, timer : Nat,
           open : {"none"} \cup Kinds, items : Nat, failed : BOOLEAN, end : Ends,
           answer : Seq(Pieces)]

\* What is streamed of an attempt with n items.
Streamed(k, n) == [i \in 1 .. n |-> <<k, i>>]

\* A call that waits to retry has a further attempt, and is through with the wait before its
\* budget ends.
Affords(a) == a.pc = "backoff" => a.attempt < Attempts /\ a.timer < a.turn

\* An item that is open was counted; a call that is not done has not ended.
Goes(a) == (a.open # "none" => a.items > 0) /\ (a.pc # "done" => a.end = "none")

\* A listener of a call that is not done saw the items of its attempt.
Sees(a, seen) == a.pc # "done" => seen = Streamed(a.attempt, a.items)

\* What it was shown is what the turn is given, and a failure stands.
Honest(a, seen) ==
  /\ a.end = "answer" => seen = a.answer
  /\ a.end = "salvaged" => a.answer = <<Last(seen)>>
  /\ a.failed => a.end \notin {"answer", "salvaged"}

Sound(a, seen) ==
  /\ a \in Calls /\ seen \in Seq(Pieces)
  /\ Affords(a) /\ Goes(a) /\ Sees(a, seen) /\ Honest(a, seen)

ToldInv ==
  /\ call \in [Callers -> Calls] /\ shown \in [Callers -> Seq(Pieces)]
  /\ \A c \in Callers : Sound(call[c], shown[c]) /\ call[c].items <= MaxItems[c]

\* Each task is in the lock's queue once while it acquires, and only its holder sleeps.
QueueInv ==
  /\ lock \in Seq(Callers)
  /\ \A i, j \in 1 .. Len(lock) : lock[i] = lock[j] => i = j
  /\ \A c \in Callers : call[c].pc \in Held <=> \E i \in 1 .. Len(lock) : lock[i] = c
  /\ \A c \in Callers : call[c].pc = "sleeping" => lock[1] = c

\* The entries that are too old come first, and the others are the requests that were sent:
\* the window has one for each.
Tells(w, s) ==
  /\ w \in Seq(Entries) /\ s \in Seq(0 .. Window)
  /\ Len(s) <= RPM /\ Len(s) <= Len(w)
  /\ \A i \in 1 .. Len(w) - 1 : w[i].age >= w[i + 1].age
  /\ \A i \in 1 .. Len(w) - Len(s) : w[i].age > Window
  /\ \A i \in 1 .. Len(s) : w[Len(w) - Len(s) + i].age = s[i]

AgesInv == Tells(window, sent)

-----------------------------------------------------------------------------
(* Items that are streamed.                                                *)

USE CallAssumption, LimiterAssumption

\* They are a sequence that grows by the next item, the last of them.
LEMMA Streams ==
  ASSUME NEW k \in 1 .. Attempts, NEW n \in Nat
  PROVE  /\ Streamed(k, n) \in Seq(Pieces)
         /\ Append(Streamed(k, n), <<k, n + 1>>) = Streamed(k, n + 1)
         /\ n > 0 => Last(Streamed(k, n)) = <<k, n>>
         /\ Streamed(k, 0) = <<>>
<1>1. \A m \in Nat : Streamed(k, m) \in Seq(Pieces) /\ Len(Streamed(k, m)) = m
  <2> SUFFICES ASSUME NEW m \in Nat PROVE Streamed(k, m) \in Seq(Pieces) /\ Len(Streamed(k, m)) = m
      OBVIOUS
  <2>1. Streamed(k, m) \in [1 .. m -> Pieces]
      BY DEF Streamed, Pieces
  <2>2. Streamed(k, m) \in Seq(Pieces)
      BY <2>1, SeqDef
  <2> QED BY <2>1, <2>2, LenProperties
<1>2. Append(Streamed(k, n), <<k, n + 1>>) = Streamed(k, n + 1)
  <2> DEFINE l == Append(Streamed(k, n), <<k, n + 1>>)
             r == Streamed(k, n + 1)
  <2>1. <<k, n + 1>> \in Pieces /\ n + 1 \in Nat
      BY DEF Pieces
  <2>2. /\ l \in Seq(Pieces) /\ Len(l) = n + 1 /\ l[n + 1] = <<k, n + 1>>
        /\ \A i \in 1 .. n : l[i] = Streamed(k, n)[i]
    <3> DEFINE s == Streamed(k, n)
               e == <<k, n + 1>>
    <3>1. s \in Seq(Pieces) /\ Len(s) = n /\ e \in Pieces
        BY <1>1, <2>1
    <3> HIDE DEF s, e
    <3>2. /\ Append(s, e) \in Seq(Pieces) /\ Len(Append(s, e)) = n + 1 /\ Append(s, e)[n + 1] = e
          /\ \A i \in 1 .. n : Append(s, e)[i] = s[i]
        BY <3>1
    <3> QED BY <3>2 DEF s, e
  <2>3. r \in Seq(Pieces) /\ Len(r) = n + 1 /\ \A i \in 1 .. n + 1 : r[i] = <<k, i>>
      BY <1>1, <2>1 DEF Streamed
  <2>4. \A i \in 1 .. n : l[i] = <<k, i>>
      BY <2>2 DEF Streamed
  <2> HIDE DEF l, r
  <2>5. \A i \in 1 .. Len(l) : l[i] = r[i]
    <3> SUFFICES ASSUME NEW i \in 1 .. n + 1 PROVE l[i] = <<k, i>>
        BY <2>2, <2>3
    <3>1. CASE i = n + 1
        BY <2>2, <3>1
    <3>2. CASE i # n + 1
      <4>1. i \in 1 .. n
          BY <3>2
      <4> QED BY <2>4, <4>1
    <3> QED BY <3>1, <3>2
  <2>6. l = r
      BY <2>2, <2>3, <2>5, SeqEqual
  <2> QED BY <2>6 DEF l, r
<1>3. n > 0 => Last(Streamed(k, n)) = <<k, n>>
    BY <1>1 DEF Last, Streamed
<1>4. Streamed(k, 0) = <<>>
  <2>1. 0 \in Nat
      OBVIOUS
  <2> QED BY <1>1, <2>1, EmptySeq
<1> QED BY <1>1, <1>2, <1>3, <1>4

\* The greater of a number and 1.
LEMMA AtLeastOne ==
  ASSUME NEW n \in Nat
  PROVE  Max({n, 1}) \in Nat /\ Max({n, 1}) >= 1 /\ (n > 0 => Max({n, 1}) = n)
<1>1. CASE n > 0
  <2>1. n \in {n, 1} /\ \A y \in {n, 1} : n >= y
      BY <1>1
  <2>2. \A x \in {n, 1} : (\A y \in {n, 1} : x >= y) => x = n
      BY <1>1
  <2>3. Max({n, 1}) = n
      BY <2>1, <2>2 DEF Max
  <2> QED BY <1>1, <2>3
<1>2. CASE n = 0
  <2>1. 1 \in {n, 1} /\ \A y \in {n, 1} : 1 >= y
      BY <1>2
  <2>2. \A x \in {n, 1} : (\A y \in {n, 1} : x >= y) => x = 1
      BY <1>2
  <2>3. Max({n, 1}) = 1
      BY <2>1, <2>2 DEF Max
  <2> QED BY <1>2, <2>3
<1> QED BY <1>1, <1>2

-----------------------------------------------------------------------------
(* A step of one call.                                                     *)

\* What becomes of the lock when the call of c becomes b: nothing, or c joins its queue, holds
\* it and lets it go or sleeps, or leaves it as its call ends.
Queues(c, b) ==
  \/ lock' = lock /\ call[c].pc \notin Held /\ b.pc \notin Held
  \/ lock' = Append(lock, c) /\ call[c].pc \notin Held /\ b.pc = "acquire"
  \/ lock' = Tail(lock) /\ lock # <<>> /\ lock[1] = c /\ b.pc \notin Held
  \/ lock' = lock /\ lock # <<>> /\ lock[1] = c /\ b.pc = "sleeping"
  \/ Leave(c) /\ b.pc = "done"

\* The call of c becomes b, and no other changes; a wait does not end in a timeout.
Leads(c, b) ==
  /\ call' = [call EXCEPT ![c] = b] /\ shown' = [shown EXCEPT ![c] = shown'[c]]
  /\ Sound(b, shown'[c]) /\ b.items <= MaxItems[c]
  /\ call[c].pc = "backoff" => b.end # "timeout"
  /\ Queues(c, b)

\* Such a step keeps the invariant.
LEMMA OneCall ==
  ASSUME ToldInv, NEW c \in Callers, NEW b, Leads(c, b)
  PROVE  /\ ToldInv'
         /\ \A d \in Callers : call[d].pc = "backoff" => call'[d].end # "timeout"
<1>1. call \in [Callers -> Calls] /\ shown \in [Callers -> Seq(Pieces)]
    BY DEF ToldInv
<1>2. b \in Calls /\ shown'[c] \in Seq(Pieces)
    BY DEF Leads, Sound
<1> DEFINE s == shown'[c]
<1>3. call' = [call EXCEPT ![c] = b] /\ shown' = [shown EXCEPT ![c] = s] /\ Sound(b, s) /\ s \in Seq(Pieces)
    BY <1>2 DEF Leads
<1> HIDE DEF s
<1>4. call' \in [Callers -> Calls] /\ shown' \in [Callers -> Seq(Pieces)]
    BY <1>1, <1>2, <1>3
<1>5. \A d \in Callers : d # c => call'[d] = call[d] /\ shown'[d] = shown[d]
    BY <1>1, <1>3
<1>6. call'[c] = b /\ shown'[c] = s
    BY <1>1, <1>3
<1>7. \A d \in Callers : Sound(call'[d], shown'[d]) /\ call'[d].items <= MaxItems[d]
    BY <1>3, <1>5, <1>6 DEF ToldInv, Leads
<1>8. \A d \in Callers : call[d].pc = "backoff" => call'[d].end # "timeout"
  <2>1. \A d \in Callers : call[d].pc = "backoff" => call[d].end = "none"
      BY DEF ToldInv, Sound, Goes
  <2> QED BY <1>5, <1>6, <2>1 DEF Leads
<1> QED BY <1>4, <1>7, <1>8 DEF ToldInv

\* A call that ends tells what it was shown, or that it failed.
LEMMA Ending ==
  ASSUME ToldInv, NEW c \in Callers, NEW how \in Ends \ {"none"}, NEW answer \in Seq(Pieces),
         End(c, how, answer), shown' = shown,
         how = "answer" => shown[c] = answer,
         how = "salvaged" => answer = <<Last(shown[c])>>,
         how \in {"answer", "salvaged"} => ~call[c].failed,
         call[c].pc = "backoff" => how # "timeout",
         Leave(c) \/ (lock' = lock /\ call[c].pc \notin Held)
  PROVE  \E b : Leads(c, b)
<1> DEFINE b == [NoCall EXCEPT !.pc = "done", !.end = how, !.answer = answer, !.failed = call[c].failed]
<1>1. call[c] \in Calls /\ shown[c] \in Seq(Pieces) /\ shown \in [Callers -> Seq(Pieces)]
    BY DEF ToldInv
<1>2. call' = [call EXCEPT ![c] = b]
    BY DEF End
<1>3. call[c].failed \in BOOLEAN
    BY <1>1 DEF Calls
<1>4. b \in Calls
  <2>1. 1 \in 1 .. Attempts /\ 0 \in 0 .. Turn
      OBVIOUS
  <2> QED BY <1>3, <2>1 DEF NoCall, Calls
<1>5. /\ b.pc = "done" /\ b.end = how /\ b.answer = answer /\ b.failed = call[c].failed
      /\ b.open = "none" /\ b.items = 0
    BY DEF NoCall
<1> HIDE DEF b
<1>6. Sound(b, shown[c])
    BY <1>1, <1>4, <1>5 DEF Sound, Affords, Goes, Sees, Honest
<1>7. shown' = [shown EXCEPT ![c] = shown'[c]]
    BY <1>1
<1>8. b.items <= MaxItems[c]
  <2>1. MaxItems[c] \in Nat
      OBVIOUS
  <2> QED BY <1>5, <2>1
<1>9. Queues(c, b)
    BY <1>5 DEF Queues, Held
<1>10. Leads(c, b)
    BY <1>2, <1>5, <1>6, <1>7, <1>8, <1>9 DEF Leads
<1> QED BY <1>10

\* A call that goes on, on the same attempt and with the items that were streamed of it.
LEMMA GoingOn ==
  ASSUME ToldInv, NEW c \in Callers, NEW b \in Calls, call' = [call EXCEPT ![c] = b], shown' = shown,
         call[c].pc # "done", b.pc # "done", b.end = "none",
         b.attempt = call[c].attempt, b.items = call[c].items,
         b.open \in {"none", call[c].open},
         Affords(b), Queues(c, b)
  PROVE  \E x : Leads(c, x)
<1>1. Sound(call[c], shown[c]) /\ call[c].items <= MaxItems[c] /\ shown \in [Callers -> Seq(Pieces)]
    BY DEF ToldInv
<1>2. Sound(b, shown[c])
    BY <1>1 DEF Sound, Goes, Sees, Honest
<1>3. shown' = [shown EXCEPT ![c] = shown'[c]]
    BY <1>1
<1> QED BY <1>1, <1>2, <1>3 DEF Leads

\* A failed attempt ends the call, or waits when the wait and one more attempt fit.
LEMMA Failing ==
  ASSUME ToldInv, NEW c \in Callers, NEW transient, Fail(c, transient), shown' = shown,
         call[c].pc \in {"opening", "stream"}, lock' = lock
  PROVE  \E b : Leads(c, b)
<1>1. call[c] \in Calls /\ call \in [Callers -> Calls] /\ Sound(call[c], shown[c])
    BY DEF ToldInv
<1>2. CASE End(c, "error", <<>>)
  <2>1. "error" \in Ends \ {"none"} /\ <<>> \in Seq(Pieces) /\ call[c].pc \notin Held
      BY DEF Ends, Held
  <2> QED BY <1>2, <2>1, Ending
<1>3. ASSUME NEW wait \in Waits, call[c].attempt < Attempts, Backoff(c, wait),
             call' = [call EXCEPT ![c].pc = "backoff", ![c].timer = wait]
      PROVE  \E b : Leads(c, b)
  <2> DEFINE b == [call[c] EXCEPT !.pc = "backoff", !.timer = wait]
  <2>1. wait \in Nat
      OBVIOUS
  <2>2. b \in Calls
      BY <1>1, <2>1 DEF Calls, Armed
  <2>3. call' = [call EXCEPT ![c] = b]
      BY <1>1, <1>3
  <2>4. /\ b.pc = "backoff" /\ b.timer = wait /\ b.end = call[c].end /\ b.attempt = call[c].attempt
        /\ b.items = call[c].items /\ b.open = call[c].open /\ b.turn = call[c].turn
      BY <1>1 DEF Calls
  <2> HIDE DEF b
  <2>5. Affords(b)
      BY <1>3, <2>4 DEF Affords, Backoff
  <2>6. call[c].end = "none"
      BY <1>1 DEF Sound, Goes
  <2>7. Queues(c, b)
      BY <2>4 DEF Queues, Held
  <2> QED BY <2>2, <2>3, <2>4, <2>5, <2>6, <2>7, GoingOn
<1> QED BY <1>2, <1>3 DEF Fail

-----------------------------------------------------------------------------
(* The steps.                                                              *)

\* A call that begins: the listener has seen nothing.
LEMMA BeginStep == ASSUME ToldInv, NEW c \in Callers, Begin(c) PROVE \E b : Leads(c, b)
<1>1. /\ call[c] \in Calls /\ call \in [Callers -> Calls] /\ Sound(call[c], shown[c]) /\ call[c].pc = "idle"
      /\ shown' = shown /\ lock' = Append(lock, c)
    BY DEF ToldInv, Begin
<1>2. PICK n \in Estimates[c] : call' = [call EXCEPT ![c].pc = "acquire", ![c].est = n, ![c].turn = Turn]
    BY DEF Begin
<1> DEFINE b == [call[c] EXCEPT !.pc = "acquire", !.est = n, !.turn = Turn]
<1>3. n \in Nat /\ Turn \in 0 .. Turn
    OBVIOUS
<1>4. b \in Calls
    BY <1>1, <1>3 DEF Calls
<1>5. call' = [call EXCEPT ![c] = b]
    BY <1>1, <1>2
<1>6. /\ b.pc = "acquire" /\ b.end = call[c].end /\ b.attempt = call[c].attempt
      /\ b.items = call[c].items /\ b.open = call[c].open
    BY <1>1 DEF Calls
<1> HIDE DEF b
<1>7. Queues(c, b)
    BY <1>1, <1>6 DEF Queues, Held
<1> QED BY <1>1, <1>4, <1>5, <1>6, <1>7, GoingOn DEF Affords, Sound, Goes

\* The limiter lets the request through, or has it sleep.
LEMMA AcquireStep == ASSUME ToldInv, QueueInv, NEW c \in Callers, Acquire(c) PROVE \E b : Leads(c, b)
<1>1. /\ call[c] \in Calls /\ call \in [Callers -> Calls] /\ Sound(call[c], shown[c]) /\ shown' = shown
      /\ lock # <<>> /\ lock[1] = c
    BY DEF ToldInv, Acquire
<1>2. call[c].pc \in Held
  <2>1. lock \in Seq(Callers) /\ 1 \in 1 .. Len(lock)
      BY <1>1, EmptySeq DEF QueueInv
  <2> QED BY <1>1, <2>1 DEF QueueInv
<1>3. \E pc \in {"opening", "sleeping"}, n \in Nat :
         /\ call' = [call EXCEPT ![c].pc = pc, ![c].timer = n]
         /\ lock' = IF pc = "opening" THEN Tail(lock) ELSE lock
  <2>1. Wait \in Nat /\ Idle \in Nat
      BY DEF Wait
  <2> QED BY <2>1 DEF Acquire, Admit
<1>4. PICK pc \in {"opening", "sleeping"}, n \in Nat :
         /\ call' = [call EXCEPT ![c].pc = pc, ![c].timer = n]
         /\ lock' = IF pc = "opening" THEN Tail(lock) ELSE lock
    BY <1>3
<1> DEFINE b == [call[c] EXCEPT !.pc = pc, !.timer = n]
<1>5. b \in Calls
    BY <1>1 DEF Calls, Armed
<1>6. call' = [call EXCEPT ![c] = b]
    BY <1>1, <1>4
<1>7. /\ b.pc = pc /\ b.end = call[c].end /\ b.attempt = call[c].attempt
      /\ b.items = call[c].items /\ b.open = call[c].open
    BY <1>1 DEF Calls
<1> HIDE DEF b
<1>8. Queues(c, b)
    BY <1>1, <1>4, <1>7 DEF Queues, Held
<1> QED BY <1>1, <1>2, <1>5, <1>6, <1>7, <1>8, GoingOn DEF Affords, Sound, Goes, Held

\* A retry withdraws what was shown and starts the next attempt.
LEMMA RetryStep == ASSUME ToldInv, NEW c \in Callers, Retry(c) PROVE \E b : Leads(c, b)
<1>1. /\ call[c] \in Calls /\ call \in [Callers -> Calls] /\ Sound(call[c], shown[c]) /\ call[c].pc = "backoff"
      /\ shown \in [Callers -> Seq(Pieces)] /\ shown' = [shown EXCEPT ![c] = <<>>]
      /\ lock' = Append(lock, c)
    BY DEF ToldInv, Retry, Reset
<1> DEFINE b == [call[c] EXCEPT !.pc = "acquire", !.attempt = @ + 1, !.open = "none", !.items = 0, !.failed = FALSE]
<1>2. call' = [call EXCEPT ![c] = b]
    BY <1>1 DEF Retry
<1>3. call[c].attempt + 1 \in 1 .. Attempts
    BY <1>1 DEF Sound, Affords, Calls
<1>4. b \in Calls
    BY <1>1, <1>3 DEF Calls
<1>5. /\ b.pc = "acquire" /\ b.end = call[c].end /\ b.attempt = call[c].attempt + 1
      /\ b.items = 0 /\ b.open = "none" /\ ~b.failed
    BY <1>1 DEF Calls
<1> HIDE DEF b
<1>6. Streamed(b.attempt, 0) = <<>> /\ <<>> \in Seq(Pieces)
  <2>1. 0 \in Nat /\ b.attempt \in 1 .. Attempts
      BY <1>3, <1>5
  <2> QED BY <2>1, Streams
<1>7. b.end = "none" /\ shown'[c] = <<>>
    BY <1>1, <1>5 DEF Sound, Goes
<1>8. Sound(b, shown'[c])
    BY <1>4, <1>5, <1>6, <1>7 DEF Sound, Affords, Goes, Sees, Honest
<1>9. shown' = [shown EXCEPT ![c] = shown'[c]]
    BY <1>1, <1>7
<1>10. b.items <= MaxItems[c] /\ Queues(c, b)
  <2>1. MaxItems[c] \in Nat
      OBVIOUS
  <2>2. Queues(c, b)
      BY <1>1, <1>5 DEF Queues, Held
  <2> QED BY <1>5, <2>1, <2>2
<1>11. b.end # "timeout"
    BY <1>7
<1> QED BY <1>2, <1>8, <1>9, <1>10, <1>11 DEF Leads

\* The caller takes what it was told.
LEMMA ReturnStep == ASSUME ToldInv, NEW c \in Callers, Return(c) PROVE \E b : Leads(c, b)
<1>1. /\ call \in [Callers -> Calls] /\ call[c].pc = "done" /\ call' = [call EXCEPT ![c] = NoCall]
      /\ shown \in [Callers -> Seq(Pieces)] /\ shown' = [shown EXCEPT ![c] = <<>>] /\ lock' = lock
    BY DEF ToldInv, Return, limiter
<1>2. NoCall \in Calls
  <2>1. 1 \in 1 .. Attempts /\ 0 \in 0 .. Turn /\ 0 \in Nat /\ <<>> \in Seq(Pieces)
      OBVIOUS
  <2> QED BY <2>1 DEF NoCall, Calls, Ends
<1>3. Streamed(1, 0) = <<>> /\ <<>> \in Seq(Pieces)
  <2>1. 1 \in 1 .. Attempts /\ 0 \in Nat
      OBVIOUS
  <2> QED BY <2>1, Streams
<1>4. Sound(NoCall, <<>>)
    BY <1>2, <1>3 DEF NoCall, Sound, Affords, Goes, Sees, Honest
<1>5. shown'[c] = <<>>
    BY <1>1
<1>6. NoCall.items <= MaxItems[c] /\ Queues(c, NoCall)
  <2>1. MaxItems[c] \in Nat
      OBVIOUS
  <2> QED BY <1>1, <2>1 DEF NoCall, Queues, Held
<1> QED BY <1>1, <1>4, <1>5, <1>6 DEF Leads

\* An item opens and the listener is shown it.
LEMMA ItemStep ==
  ASSUME ToldInv, NEW c \in Callers, NEW kind \in Kinds, ItemAdded(c, kind) PROVE \E b : Leads(c, b)
<1>1. /\ call[c] \in Calls /\ call \in [Callers -> Calls] /\ Sound(call[c], shown[c]) /\ call[c].pc = "stream"
      /\ shown \in [Callers -> Seq(Pieces)] /\ call[c].items < MaxItems[c]
      /\ shown' = [shown EXCEPT ![c] = Append(@, <<call[c].attempt, call[c].items + 1>>)]
      /\ lock' = lock
    BY DEF ToldInv, ItemAdded, Forward, Reads, Streaming, limiter
<1> DEFINE b == [call[c] EXCEPT !.open = kind, !.items = @ + 1, !.timer = Gap(kind)]
<1>2. call' = [call EXCEPT ![c] = b]
    BY <1>1 DEF ItemAdded
<1> DEFINE k == call[c].attempt
           n == call[c].items
<1>3. Gap(kind) \in Nat /\ n \in Nat /\ k \in 1 .. Attempts /\ MaxItems[c] \in Nat
    BY <1>1 DEF Gap, Calls
<1>4. b \in Calls
  <2>1. n + 1 \in Nat /\ kind \in {"none"} \cup Kinds
      BY <1>3
  <2> DEFINE m == n + 1
             g == Gap(kind)
  <2>2. b = [call[c] EXCEPT !.open = kind, !.items = m, !.timer = g]
      OBVIOUS
  <2>3. m \in Nat /\ g \in Nat
      BY <1>3, <2>1
  <2> HIDE DEF m, g, b
  <2> QED BY <1>1, <2>1, <2>2, <2>3 DEF Calls
<1>5. b.pc = "stream" /\ b.end = call[c].end /\ b.attempt = k /\ b.items = n + 1
    BY <1>1 DEF Calls
<1>6. shown[c] = Streamed(k, n)
    BY <1>1 DEF Sound, Sees
<1>7. shown'[c] = Append(shown[c], <<k, n + 1>>)
    BY <1>1
<1>8. b.end = "none" /\ n < MaxItems[c]
    BY <1>1, <1>5 DEF Sound, Goes
<1> HIDE DEF b, k, n
<1>9. shown'[c] = Streamed(k, n + 1) /\ shown'[c] \in Seq(Pieces)
  <2>1. Append(Streamed(k, n), <<k, n + 1>>) = Streamed(k, n + 1)
      BY <1>3, Streams
  <2>2. n + 1 \in Nat
      BY <1>3
  <2>3. Streamed(k, n + 1) \in Seq(Pieces)
    <3> DEFINE m == n + 1
    <3>1. m \in Nat
        BY <2>2
    <3> HIDE DEF m
    <3>2. Streamed(k, m) \in Seq(Pieces)
        BY <1>3, <3>1, Streams
    <3> QED BY <3>2 DEF m
  <2> QED BY <1>6, <1>7, <2>1, <2>3
<1>10. Sound(b, shown'[c])
  <2>1. Affords(b) /\ Sees(b, shown'[c]) /\ Honest(b, shown'[c])
      BY <1>5, <1>8, <1>9 DEF Affords, Sees, Honest
  <2>2. Goes(b)
      BY <1>3, <1>5, <1>8 DEF Goes
  <2> QED BY <1>4, <1>9, <2>1, <2>2 DEF Sound
<1>11. shown' = [shown EXCEPT ![c] = shown'[c]]
    BY <1>1
<1>12. b.items <= MaxItems[c] /\ Queues(c, b)
  <2>1. Queues(c, b)
      BY <1>1, <1>5 DEF Queues, Held
  <2> QED BY <1>3, <1>5, <1>8, <2>1
<1>13. b.end # "timeout"
    BY <1>8
<1> QED BY <1>2, <1>10, <1>11, <1>12, <1>13 DEF Leads

\* Events that show nothing and end nothing.
LEMMA QuietStep ==
  ASSUME ToldInv, NEW c \in Callers, Opened(c) \/ ItemDone(c) \/ MoreEvents(c) \/ FailedUnnamed(c)
  PROVE  \E b : Leads(c, b)
<1>1. /\ call[c] \in Calls /\ call \in [Callers -> Calls] /\ Sound(call[c], shown[c]) /\ shown' = shown
      /\ lock' = lock /\ call[c].pc \in {"opening", "stream"}
    BY DEF ToldInv, Opened, ItemDone, MoreEvents, FailedUnnamed, limiter, Reads, Streaming
<1> DEFINE Quiet(b) == /\ b \in Calls /\ call' = [call EXCEPT ![c] = b] /\ b.pc = "stream" /\ b.end = call[c].end
                       /\ b.attempt = call[c].attempt /\ b.items = call[c].items /\ b.open \in {"none", call[c].open}
<1>2. \A kind : Gap(kind) \in Nat
    BY DEF Gap
<1>3. ASSUME NEW b, Quiet(b), call[c].pc # "done" PROVE \E x : Leads(c, x)
  <2>1. Queues(c, b)
      BY <1>1, <1>3 DEF Queues, Held
  <2> QED BY <1>1, <1>3, <2>1, GoingOn DEF Affords, Sound, Goes
<1>4. CASE Opened(c)
  <2> DEFINE b == [call[c] EXCEPT !.pc = "stream", !.timer = Gap("none")]
  <2>1. call' = [call EXCEPT ![c] = b] /\ call[c].pc # "done"
      BY <1>1, <1>4 DEF Opened
  <2>2. b \in Calls
      BY <1>1, <1>2 DEF Calls, Armed
  <2>3. Quiet(b)
      BY <1>1, <2>1, <2>2 DEF Calls
  <2> QED BY <1>3, <2>1, <2>3
<1>5. CASE ItemDone(c)
  <2> DEFINE b == [call[c] EXCEPT !.open = "none", !.timer = Gap("none")]
  <2>1. call' = [call EXCEPT ![c] = b] /\ call[c].pc = "stream"
      BY <1>1, <1>5 DEF ItemDone, Reads, Streaming
  <2>2. b \in Calls
      BY <1>1, <1>2 DEF Calls
  <2>3. Quiet(b)
      BY <1>1, <2>1, <2>2 DEF Calls
  <2> QED BY <1>3, <2>1, <2>3
<1>6. CASE MoreEvents(c)
  <2> DEFINE b == [call[c] EXCEPT !.timer = Gap(call[c].open)]
  <2>1. call' = [call EXCEPT ![c] = b] /\ call[c].pc = "stream"
      BY <1>1, <1>6 DEF MoreEvents, Streaming
  <2>2. b \in Calls
      BY <1>1, <1>2 DEF Calls
  <2>3. Quiet(b)
      BY <1>1, <2>1, <2>2 DEF Calls
  <2> QED BY <1>3, <2>1, <2>3
<1>7. CASE FailedUnnamed(c)
  <2> DEFINE b == [call[c] EXCEPT !.failed = TRUE, !.timer = Gap(call[c].open)]
  <2>1. call' = [call EXCEPT ![c] = b] /\ call[c].pc = "stream"
      BY <1>1, <1>7 DEF FailedUnnamed, Reads, Streaming
  <2>2. b \in Calls
      BY <1>1, <1>2 DEF Calls
  <2>3. Quiet(b)
      BY <1>1, <2>1, <2>2 DEF Calls
  <2> QED BY <1>3, <2>1, <2>3
<1> QED BY <1>4, <1>5, <1>6, <1>7

\* Events after which the call ends or its attempt has failed.
LEMMA LastStep ==
  ASSUME ToldInv, NEW c \in Callers,
         \/ Broken(c) \/ StreamCancelled(c) \/ Closed(c)
         \/ \E whole \in BOOLEAN : Stalled(c, whole)
         \/ \E transient \in BOOLEAN : ErrorEvent(c, transient)
         \/ \E transient \in BOOLEAN, reported \in Reports : Unfinished(c, transient, reported)
         \/ \E actual \in Actuals : Completed(c, actual)
  PROVE  \E b : Leads(c, b)
<1>1. /\ call[c] \in Calls /\ Sound(call[c], shown[c])
      /\ <<>> \in Seq(Pieces) /\ {"answer", "salvaged", "error", "cancelled"} \subseteq Ends \ {"none"}
      /\ lock' = lock /\ call[c].pc \in {"opening", "stream"} /\ call[c].pc \notin Held
  <2> DEFINE Apart == lock' = lock /\ call[c].pc \in {"opening", "stream"}
  <2>1. Broken(c) \/ StreamCancelled(c) => Apart
      BY DEF Broken, StreamCancelled, Streaming, limiter
  <2>2. Closed(c) => Apart
      BY DEF Closed, Streaming
  <2>3. \A whole \in BOOLEAN : Stalled(c, whole) => Apart
      BY DEF Stalled, Reads, Streaming
  <2>4. \A transient \in BOOLEAN : ErrorEvent(c, transient) => Apart
      BY DEF ErrorEvent, Streaming, limiter
  <2>5. \A transient \in BOOLEAN, reported \in Reports : Unfinished(c, transient, reported) => Apart
      BY DEF Unfinished, Reads, Streaming
  <2>6. \A actual \in Actuals : Completed(c, actual) => Apart
      BY DEF Completed, Streaming
  <2>7. Apart
      BY <2>1, <2>2, <2>3, <2>4, <2>5, <2>6
  <2>8. call[c] \in Calls /\ Sound(call[c], shown[c])
      BY DEF ToldInv
  <2> QED BY <2>7, <2>8 DEF Ends, Held
<1>2. ASSUME NEW transient, Fail(c, transient), shown' = shown
      PROVE  \E b : Leads(c, b)
    BY <1>1, <1>2, Failing
<1>3. CASE Broken(c)
    BY <1>2, <1>3 DEF Broken
<1>4. CASE StreamCancelled(c)
  <2>1. End(c, "cancelled", <<>>) /\ shown' = shown
      BY <1>4 DEF StreamCancelled
  <2> QED BY <1>1, <2>1, Ending
<1>5. CASE Closed(c)
    BY <1>2, <1>5 DEF Closed, Streaming
<1>6. ASSUME NEW whole \in BOOLEAN, Stalled(c, whole) PROVE \E b : Leads(c, b)
  <2>1. call[c].pc = "stream" /\ ~call[c].failed /\ call[c].open # "none" /\ shown' = shown
      BY <1>6 DEF Stalled, Reads, Streaming, Skips
  <2>2. CASE ~whole
      BY <1>2, <1>6, <2>1, <2>2 DEF Stalled
  <2>3. CASE whole
    <3> DEFINE answer == << <<call[c].attempt, call[c].items>> >>
    <3>1. End(c, "salvaged", answer)
        BY <1>6, <2>3 DEF Stalled
    <3>2. call[c].items \in Nat /\ call[c].items > 0 /\ call[c].attempt \in 1 .. Attempts
        BY <1>1, <2>1 DEF Sound, Goes, Calls
    <3>3. answer \in Seq(Pieces)
        BY <3>2 DEF Pieces
    <3>4. answer = <<Last(shown[c])>>
      <4>1. shown[c] = Streamed(call[c].attempt, call[c].items)
          BY <1>1, <2>1 DEF Sound, Sees
      <4> QED BY <3>2, <4>1, Streams
    <3> HIDE DEF answer
    <3> QED BY <1>1, <2>1, <3>1, <3>3, <3>4, Ending
  <2> QED BY <2>2, <2>3
<1>7. ASSUME NEW transient \in BOOLEAN, ErrorEvent(c, transient) PROVE \E b : Leads(c, b)
    BY <1>2, <1>7 DEF ErrorEvent, Streaming
<1>8. ASSUME NEW transient \in BOOLEAN, NEW reported \in Reports, Unfinished(c, transient, reported)
      PROVE  \E b : Leads(c, b)
    BY <1>2, <1>8 DEF Unfinished, Reads, Streaming
<1>9. ASSUME NEW actual \in Actuals, Completed(c, actual) PROVE \E b : Leads(c, b)
  <2> DEFINE answer == Streamed(call[c].attempt, call[c].items)
  <2>1. call[c].pc = "stream" /\ ~call[c].failed /\ shown' = shown /\ End(c, "answer", answer)
      BY <1>9 DEF Completed, Streaming, Streamed
  <2>2. call[c].items \in Nat /\ call[c].attempt \in 1 .. Attempts
      BY <1>1 DEF Calls
  <2>3. shown[c] = answer /\ answer \in Seq(Pieces)
      BY <1>1, <2>1, <2>2, Streams DEF Sound, Sees
  <2> HIDE DEF answer
  <2> QED BY <1>1, <2>1, <2>3, Ending
<1> QED BY <1>3, <1>4, <1>5, <1>6, <1>7, <1>8, <1>9

\* The budget ends the call, and never while it waits to retry; or its task is cancelled.
LEMMA OverStep == ASSUME ToldInv, NEW c \in Callers, TurnExpires(c) \/ Abandoned(c) PROVE \E b : Leads(c, b)
<1>1. /\ call[c] \in Calls /\ Sound(call[c], shown[c])
      /\ <<>> \in Seq(Pieces) /\ {"timeout", "cancelled"} \subseteq Ends \ {"none"}
    BY DEF ToldInv, Ends
<1>2. CASE Abandoned(c)
  <2>1. End(c, "cancelled", <<>>) /\ shown' = shown /\ Leave(c)
      BY <1>2 DEF Abandoned
  <2> QED BY <1>1, <2>1, Ending
<1>3. CASE TurnExpires(c)
  <2>1. End(c, "timeout", <<>>) /\ shown' = shown /\ Leave(c) /\ call[c].turn = 0
      BY <1>3 DEF TurnExpires
  <2>2. call[c].pc # "backoff"
      BY <1>1, <2>1 DEF Sound, Affords, Calls
  <2> QED BY <1>1, <2>1, <2>2, Ending
<1> QED BY <1>2, <1>3

\* Time passes for every call, and a timer that is due has been served.
LEMMA TickStep ==
  ASSUME ToldInv, Tick
  PROVE  ToldInv' /\ \A c \in Callers : call'[c].end = call[c].end /\ call'[c].pc = call[c].pc
<1>1. call \in [Callers -> Calls] /\ shown \in [Callers -> Seq(Pieces)] /\ shown' = shown
    BY DEF ToldInv, Tick
<1>2. ASSUME NEW c \in Callers
      PROVE  /\ Sound(call'[c], shown[c]) /\ call'[c].items <= MaxItems[c]
             /\ call'[c].end = call[c].end /\ call'[c].pc = call[c].pc
  <2> DEFINE a == call[c]
             b == [call[c] EXCEPT !.turn = @ - 1, !.timer = Max({@, 1}) - 1]
  <2>1. a \in Calls /\ Sound(a, shown[c]) /\ a.items <= MaxItems[c]
      BY DEF ToldInv
  <2>2. CASE ~Running(c)
    <3>1. call'[c] = call[c]
        BY <2>2 DEF Tick
    <3> QED BY <2>1, <3>1
  <2>3. CASE Running(c)
    <3>1. call'[c] = b
        BY <2>3 DEF Tick
    <3>2. ~Due(c)
        BY DEF Tick
    <3>3. a.turn \in 0 .. Turn /\ a.turn # 0 /\ (a.pc \in Armed => a.timer # 0) /\ a.timer \in Nat
        BY <2>1, <2>3, <3>2 DEF Due, Calls
    <3>4. Max({a.timer, 1}) - 1 \in Nat /\ (a.timer > 0 => Max({a.timer, 1}) - 1 = a.timer - 1)
        BY <3>3, AtLeastOne
    <3>5. a.turn - 1 \in 0 .. Turn
        BY <3>3
    <3>6. b \in Calls
        BY <2>1, <3>4, <3>5 DEF Calls
    <3>7. /\ b.turn = a.turn - 1 /\ b.timer = Max({a.timer, 1}) - 1
          /\ b.pc = a.pc /\ b.attempt = a.attempt /\ b.open = a.open /\ b.items = a.items /\ b.failed = a.failed
          /\ b.end = a.end /\ b.answer = a.answer
        BY <2>1 DEF Calls
    <3> HIDE DEF a, b
    <3>8. Affords(b)
        BY <2>1, <3>3, <3>4, <3>7 DEF Affords, Sound, Armed
    <3>9. Sound(b, shown[c])
        BY <2>1, <3>6, <3>7, <3>8 DEF Sound, Goes, Sees, Honest
    <3> QED BY <2>1, <3>1, <3>7, <3>9 DEF a
  <2> QED BY <2>2, <2>3
<1>3. call' = [c \in Callers |-> call'[c]]
    BY DEF Tick
<1>4. \A c \in Callers : call'[c] \in Calls
    BY <1>2 DEF Sound
<1>5. call' \in [Callers -> Calls]
    BY <1>3, <1>4
<1> QED BY <1>1, <1>2, <1>5 DEF ToldInv

-----------------------------------------------------------------------------
(* The lock's queue.                                                       *)

\* A sequence of distinct elements from which one is removed.
LEMMA Removed ==
  ASSUME NEW S, NEW s \in Seq(S), \A i, j \in 1 .. Len(s) : s[i] = s[j] => i = j, NEW c
  PROVE  LET t == RemoveFirst(s, c) IN
         /\ t \in Seq(S)
         /\ \A i, j \in 1 .. Len(t) : t[i] = t[j] => i = j
         /\ \A d : (\E i \in 1 .. Len(t) : t[i] = d) <=> (d # c /\ \E i \in 1 .. Len(s) : s[i] = d)
         /\ Len(s) > 0 /\ s[1] # c => Len(t) > 0 /\ t[1] = s[1]
<1> DEFINE t == RemoveFirst(s, c)
<1>1. CASE ~\E i \in 1 .. Len(s) : s[i] = c
  <2>1. t = s
      BY <1>1 DEF RemoveFirst
  <2> HIDE DEF t
  <2>2. \A d : (\E i \in 1 .. Len(s) : s[i] = d) => d # c
      BY <1>1
  <2>3. Len(s) > 0 => 1 \in 1 .. Len(s)
      OBVIOUS
  <2> QED BY <2>1, <2>2, <2>3 DEF t
<1>2. CASE \E i \in 1 .. Len(s) : s[i] = c
  <2>1. PICK p \in 1 .. Len(s) : s[p] = c
      BY <1>2
  <2> DEFINE I == {i \in 1 .. Len(s) : s[i] = c}
  <2>2. I = {p}
      BY <2>1
  <2>3. Min(I) = p
    <3>1. p \in I /\ \A y \in I : p <= y
        BY <2>1, <2>2
    <3>2. \A x \in I : x = p
        BY <2>2
    <3> HIDE DEF I
    <3> QED BY <3>1, <3>2 DEF Min
  <2>4. t = SubSeq(s, 1, p - 1) \o SubSeq(s, p + 1, Len(s))
    <3>1. t = RemoveAt(s, SelectInSeq(s, LAMBDA v : v = c))
        BY <1>2 DEF RemoveFirst
    <3>2. SelectInSeq(s, LAMBDA v : v = c) = p
        BY <2>2, <2>3 DEF SelectInSeq
    <3> QED BY <3>1, <3>2 DEF RemoveAt
  <2> HIDE DEF t, I
  <2>5. t \in Seq(S) /\ Len(t) = Len(s) - 1 /\ \A i \in 1 .. Len(s) - 1 : t[i] = IF i < p THEN s[i] ELSE s[i + 1]
    <3> DEFINE l == SubSeq(s, 1, p - 1)
               r == SubSeq(s, p + 1, Len(s))
               n == Len(s)
    <3>1. n \in Nat /\ \A i \in 1 .. n : s[i] \in S
        OBVIOUS
    <3>2. /\ l \in Seq(S) /\ Len(l) = p - 1
          /\ \A i \in 1 .. p - 1 : l[i] = s[i]
      <4>1. 1 \in Int /\ p - 1 \in Int /\ \A i \in 1 .. p - 1 : s[i] \in S
          BY <3>1
      <4>2. /\ l \in Seq(S) /\ Len(l) = IF 1 <= p - 1 THEN p - 1 - 1 + 1 ELSE 0
            /\ \A i \in 1 .. p - 1 - 1 + 1 : l[i] = s[1 + i - 1]
          BY <4>1, SubSeqProperties
      <4> HIDE DEF l
      <4> QED BY <4>2
    <3>3. /\ r \in Seq(S) /\ Len(r) = n - p
          /\ \A i \in 1 .. n - p : r[i] = s[p + i]
      <4>1. p + 1 \in Int /\ n \in Int /\ \A i \in p + 1 .. n : s[i] \in S
          BY <3>1
      <4>2. /\ r \in Seq(S) /\ Len(r) = IF p + 1 <= n THEN n - (p + 1) + 1 ELSE 0
            /\ \A i \in 1 .. n - (p + 1) + 1 : r[i] = s[p + 1 + i - 1]
          BY <4>1, SubSeqProperties
      <4> HIDE DEF l, r
      <4> QED BY <3>1, <4>2
    <3> HIDE DEF l, r
    <3>4. t = l \o r
        BY <2>4 DEF l, r
    <3>5. /\ t \in Seq(S) /\ Len(t) = Len(l) + Len(r)
          /\ \A i \in 1 .. Len(l) + Len(r) : t[i] = IF i <= Len(l) THEN l[i] ELSE r[i - Len(l)]
      <4>1. l \in Seq(S) /\ r \in Seq(S)
          BY <3>2, <3>3
      <4> QED BY ONLY <3>4, <4>1, ConcatProperties
    <3>6. Len(t) = n - 1
        BY <3>1, <3>2, <3>3, <3>5
    <3>7. ASSUME NEW i \in 1 .. n - 1 PROVE t[i] = IF i < p THEN s[i] ELSE s[i + 1]
      <4>1. CASE i < p
        <5>1. i \in 1 .. p - 1 /\ i <= Len(l) /\ i \in 1 .. Len(l) + Len(r)
            BY <3>1, <3>2, <3>3, <4>1
        <5> QED BY <3>2, <3>5, <4>1, <5>1
      <4>2. CASE ~(i < p)
        <5>1. i - Len(l) \in 1 .. n - p /\ ~(i <= Len(l)) /\ i \in 1 .. Len(l) + Len(r) /\ p + (i - Len(l)) = i + 1
            BY <3>1, <3>2, <3>3, <4>2
        <5> QED BY <3>3, <3>5, <4>2, <5>1
      <4> QED BY <4>1, <4>2
    <3> QED BY <3>5, <3>6, <3>7 DEF n
  <2> DEFINE n == Len(s)
             at(i) == IF i < p THEN i ELSE i + 1
  <2>6. n \in Nat /\ p \in 1 .. n /\ Len(t) = n - 1 /\ \A i \in 1 .. n - 1 : t[i] = s[at(i)]
      BY <2>5
  <2>7. \A i \in 1 .. n - 1 : at(i) \in 1 .. n /\ at(i) # p
      BY <2>6
  <2>8. \A i, j \in 1 .. n - 1 : at(i) = at(j) => i = j
      BY <2>6
  <2>9. \A k \in 1 .. n : k # p => \E i \in 1 .. n - 1 : at(i) = k
    <3> SUFFICES ASSUME NEW k \in 1 .. n, k # p PROVE \E i \in 1 .. n - 1 : at(i) = k
        OBVIOUS
    <3>1. CASE k < p
      <4>1. k \in 1 .. n - 1 /\ at(k) = k
          BY <2>6, <3>1
      <4> QED BY <4>1
    <3>2. CASE k > p
      <4>1. k - 1 \in 1 .. n - 1 /\ at(k - 1) = k
          BY <2>6, <3>2
      <4> QED BY <4>1
    <3> QED BY <2>6, <3>1, <3>2
  <2>10. n > 0 /\ s[1] # c => Len(t) > 0 /\ t[1] = s[1]
    <3>1. s[1] # c => p > 1
        BY <2>1, <2>6
    <3>2. p > 1 => n - 1 > 0 /\ 1 \in 1 .. n - 1 /\ at(1) = 1
        BY <2>6
    <3> QED BY <2>6, <3>1, <3>2
  <2>11. \A i, j \in 1 .. n : s[i] = s[j] => i = j
      OBVIOUS
  <2> HIDE DEF n, at
  <2>12. \A i, j \in 1 .. n - 1 : t[i] = t[j] => i = j
      BY <2>6, <2>7, <2>8, <2>11
  <2>13. ASSUME NEW d PROVE (\E i \in 1 .. n - 1 : t[i] = d) <=> (d # c /\ \E i \in 1 .. n : s[i] = d)
    <3>1. ASSUME NEW i \in 1 .. n - 1, t[i] = d PROVE d # c /\ \E k \in 1 .. n : s[k] = d
        BY <2>1, <2>6, <2>7, <2>11, <3>1
    <3>2. ASSUME d # c, NEW k \in 1 .. n, s[k] = d PROVE \E i \in 1 .. n - 1 : t[i] = d
      <4>1. PICK i \in 1 .. n - 1 : at(i) = k
          BY <2>1, <2>9, <3>2
      <4> QED BY <2>6, <3>2, <4>1
    <3> QED BY <3>1, <3>2
  <2> QED BY <2>5, <2>6, <2>10, <2>12, <2>13 DEF t, n
<1> QED BY <1>1, <1>2


\* A step of one call keeps the queue.
LEMMA OneLock ==
  ASSUME ToldInv, QueueInv, NEW c \in Callers, NEW b, Leads(c, b)
  PROVE  QueueInv'
<1>1. /\ lock \in Seq(Callers) /\ \A i, j \in 1 .. Len(lock) : lock[i] = lock[j] => i = j
      /\ Len(lock) \in Nat /\ \A i \in 1 .. Len(lock) : lock[i] \in Callers
    BY DEF QueueInv
<1> DEFINE In(d) == \E i \in 1 .. Len(lock) : lock[i] = d
<1>2. /\ \A d \in Callers : call[d].pc \in Held <=> In(d)
      /\ \A d \in Callers : call[d].pc = "sleeping" => lock[1] = d
    BY DEF QueueInv
<1>3. call'[c].pc = b.pc /\ \A d \in Callers : d # c => call'[d].pc = call[d].pc
  <2>1. call \in [Callers -> Calls] /\ call' = [call EXCEPT ![c] = b]
      BY DEF ToldInv, Leads
  <2> QED BY <2>1
<1>4. lock # <<>> => 1 \in 1 .. Len(lock)
    BY <1>1, EmptySeq
\* It is enough to know the new queue by its members and its head.
<1>5. ASSUME lock' \in Seq(Callers), \A i, j \in 1 .. Len(lock') : lock'[i] = lock'[j] => i = j,
             \A d \in Callers : d # c => (In(d)' <=> In(d)),
             b.pc \in Held <=> In(c)',
             b.pc = "sleeping" => lock'[1] = c,
             \A d \in Callers : d # c /\ call[d].pc = "sleeping" => lock'[1] = lock[1]
      PROVE  QueueInv'
  <2>1. \A d \in Callers : call'[d].pc \in Held <=> In(d)'
      BY <1>2, <1>3, <1>5
  <2>2. \A d \in Callers : call'[d].pc = "sleeping" => lock'[1] = d
      BY <1>2, <1>3, <1>5
  <2> QED BY <1>5, <2>1, <2>2 DEF QueueInv
<1>6. CASE lock' = lock /\ call[c].pc \notin Held /\ b.pc \notin Held
  <2>1. b.pc # "sleeping"
      BY <1>6 DEF Held
  <2> QED BY <1>1, <1>2, <1>5, <1>6, <2>1
<1>7. CASE lock' = Append(lock, c) /\ call[c].pc \notin Held /\ b.pc = "acquire"
  <2> DEFINE n == Len(lock)
  <2>1. /\ lock' \in Seq(Callers) /\ Len(lock') = n + 1 /\ lock'[n + 1] = c
        /\ \A i \in 1 .. n : lock'[i] = lock[i]
      BY <1>1, <1>7
  <2>2. n \in Nat /\ \A i \in 1 .. n : lock[i] # c
      BY <1>1, <1>2, <1>7
  <2>3. \A i \in 1 .. n + 1 : i \in 1 .. n \/ i = n + 1
      BY <2>2
  <2>4. \A i \in 1 .. n : i \in 1 .. n + 1
      BY <2>2
  <2>5. n + 1 \in 1 .. n + 1
      BY <2>2
  <2>6. \A i, j \in 1 .. n : lock[i] = lock[j] => i = j
      BY <1>1
  <2>7. lock # <<>> => lock'[1] = lock[1]
      BY <1>4, <2>1
  <2>8. \A d \in Callers : call[d].pc = "sleeping" => lock # <<>>
    <3>1. \A d \in Callers : call[d].pc = "sleeping" => n > 0
        BY <1>2, <2>2 DEF Held
    <3> QED BY <1>1, <3>1
  <2> HIDE DEF n
  <2>9. \A i, j \in 1 .. Len(lock') : lock'[i] = lock'[j] => i = j
      BY <2>1, <2>2, <2>3, <2>6
  <2>10. \A d : d # c => ((\E i \in 1 .. Len(lock') : lock'[i] = d) <=> \E i \in 1 .. n : lock[i] = d)
      BY <2>1, <2>3, <2>4
  <2>11. In(c)' /\ b.pc \in Held /\ b.pc # "sleeping"
      BY <1>7, <2>1, <2>5 DEF Held
  <2> QED BY <1>5, <2>1, <2>7, <2>8, <2>9, <2>10, <2>11 DEF n
<1>8. CASE lock' = Tail(lock) /\ lock # <<>> /\ lock[1] = c /\ b.pc \notin Held
  <2> DEFINE n == Len(lock)
  <2>1. /\ lock' \in Seq(Callers) /\ Len(lock') = n - 1
        /\ \A i \in 1 .. n - 1 : lock'[i] = lock[i + 1]
      BY <1>1, <1>8, HeadTailProperties
  <2>2. n \in Nat /\ 1 \in 1 .. n
      BY <1>1, <1>4, <1>8
  <2>3. \A i \in 1 .. n - 1 : i + 1 \in 1 .. n /\ i + 1 # 1
      BY <2>2
  <2>4. \A k \in 1 .. n : k # 1 => \E i \in 1 .. n - 1 : i + 1 = k
    <3>1. \A k \in 1 .. n : k # 1 => k - 1 \in 1 .. n - 1 /\ (k - 1) + 1 = k
        BY <2>2
    <3> QED BY <3>1
  <2>5. \A i, j \in 1 .. n - 1 : i + 1 = j + 1 => i = j
      BY <2>2
  <2>6. \A i, j \in 1 .. n : lock[i] = lock[j] => i = j
      BY <1>1
  <2> DEFINE up(i) == i + 1
  <2>7. /\ \A i \in 1 .. n - 1 : lock'[i] = lock[up(i)] /\ up(i) \in 1 .. n /\ up(i) # 1
        /\ \A k \in 1 .. n : k # 1 => \E i \in 1 .. n - 1 : up(i) = k
        /\ \A i, j \in 1 .. n - 1 : up(i) = up(j) => i = j
      BY <2>1, <2>3, <2>4, <2>5
  <2>8. b.pc # "sleeping"
      BY <1>8 DEF Held
  <2>9. \A d \in Callers : d # c => call[d].pc # "sleeping"
      BY <1>2, <1>8
  <2> HIDE DEF n, up
  <2>10. \A i, j \in 1 .. Len(lock') : lock'[i] = lock'[j] => i = j
    <3> SUFFICES ASSUME NEW i \in 1 .. n - 1, NEW j \in 1 .. n - 1, lock'[i] = lock'[j] PROVE i = j
        BY <2>1
    <3>1. up(i) = up(j)
        BY <2>6, <2>7
    <3> QED BY <2>7, <3>1
  <2>11. ~In(c)'
      BY <1>8, <2>1, <2>2, <2>6, <2>7
  <2>12. \A d : d # c => ((\E i \in 1 .. Len(lock') : lock'[i] = d) <=> \E i \in 1 .. n : lock[i] = d)
    <3> SUFFICES ASSUME NEW d, d # c
                 PROVE  (\E i \in 1 .. n - 1 : lock'[i] = d) <=> \E i \in 1 .. n : lock[i] = d
        BY <2>1
    <3>1. ASSUME NEW i \in 1 .. n - 1, lock'[i] = d PROVE \E k \in 1 .. n : lock[k] = d
        BY <2>7, <3>1
    <3>2. ASSUME NEW k \in 1 .. n, lock[k] = d PROVE \E i \in 1 .. n - 1 : lock'[i] = d
      <4>1. PICK i \in 1 .. n - 1 : up(i) = k
          BY <1>8, <2>7, <3>2
      <4> QED BY <2>7, <3>2, <4>1
    <3> QED BY <3>1, <3>2
  <2> QED BY <1>5, <1>8, <2>1, <2>8, <2>9, <2>10, <2>11, <2>12 DEF n
<1>9. CASE lock' = lock /\ lock # <<>> /\ lock[1] = c /\ b.pc = "sleeping"
  <2>1. In(c) /\ b.pc \in Held
      BY <1>4, <1>9 DEF Held
  <2> QED BY <1>1, <1>5, <1>9, <2>1
<1>10. CASE Leave(c) /\ b.pc = "done"
  <2> DEFINE t == RemoveFirst(lock, c)
  <2>1. lock' = t
      BY <1>10 DEF Leave
  <2>2. /\ t \in Seq(Callers)
        /\ \A i, j \in 1 .. Len(t) : t[i] = t[j] => i = j
        /\ \A d : (\E i \in 1 .. Len(t) : t[i] = d) <=> (d # c /\ \E i \in 1 .. Len(lock) : lock[i] = d)
        /\ Len(lock) > 0 /\ lock[1] # c => Len(t) > 0 /\ t[1] = lock[1]
      BY <1>1, Removed
  <2> HIDE DEF t
  <2>3. b.pc \notin Held /\ b.pc # "sleeping"
      BY <1>10 DEF Held
  <2>4. \A d \in Callers : d # c /\ call[d].pc = "sleeping" => Len(lock) > 0 /\ lock[1] # c
    <3>1. \A d \in Callers : call[d].pc = "sleeping" => In(d)
        BY <1>2 DEF Held
    <3> QED BY <1>1, <1>2, <3>1
  <2> QED BY <1>5, <2>1, <2>2, <2>3, <2>4
<1>11. Queues(c, b)
    BY DEF Leads
<1> QED BY <1>6, <1>7, <1>8, <1>9, <1>10, <1>11 DEF Queues


-----------------------------------------------------------------------------
(* The window, and what was sent.                                          *)

\* The first place, of l and the one after, that is in stay.
StaysFrom(n, stay, l) ==
  n \in 1 .. l + 1 /\ (\A x \in stay : x \in n .. l) /\ (n <= l => n \in stay)

\* left, over S, is s from its place n on.
IsRest(left, s, n, S) ==
  /\ left \in Seq(S) /\ Len(left) = Len(s) - n + 1
  /\ \A i \in 1 .. Len(s) - n + 1 : left[i] = s[n - 1 + i]

\* What is left from a place on.
LEMMA FromAt ==
  ASSUME NEW S, NEW s \in Seq(S), NEW stay, NEW n, StaysFrom(n, stay, Len(s))
  PROVE  IsRest(From(s, stay), s, n, S)
<1> DEFINE M == stay \cup {Len(s) + 1}
<1>0. /\ n \in 1 .. Len(s) + 1
      /\ \A x \in stay : x \in n .. Len(s)
      /\ n <= Len(s) => n \in stay
    BY DEF StaysFrom
<1>1. n \in Nat /\ n >= 1 /\ Len(s) \in Nat /\ n <= Len(s) + 1
    BY <1>0
<1>2. n \in M
    BY <1>0, <1>1
<1>3. M \subseteq Nat /\ \A x \in M : n <= x
    BY <1>0, <1>1
<1>4. Min(M) = n
  <2>1. \A x \in M : (\A y \in M : x <= y) => x = n
    <3> HIDE DEF M
    <3> QED BY <1>1, <1>2, <1>3
  <2> HIDE DEF M
  <2> QED BY <1>2, <1>3, <2>1 DEF Min
<1> DEFINE l == Len(s)
<1>5. From(s, stay) = SubSeq(s, n, l)
    BY <1>4 DEF From
<1>6. n \in Int /\ l \in Int /\ \A i \in n .. l : s[i] \in S
    BY <1>1
<1>7. /\ SubSeq(s, n, l) \in Seq(S) /\ Len(SubSeq(s, n, l)) = IF n <= l THEN l - n + 1 ELSE 0
      /\ \A i \in 1 .. l - n + 1 : SubSeq(s, n, l)[i] = s[n + i - 1]
    BY <1>6, SubSeqProperties
<1>8. l \in Nat /\ n \in 1 .. l + 1
    BY <1>0, <1>1
<1> HIDE DEF l
<1>9. (IF n <= l THEN l - n + 1 ELSE 0) = l - n + 1 /\ \A i \in 1 .. l - n + 1 : n + i - 1 = n - 1 + i
    BY <1>8
<1> QED BY <1>5, <1>7, <1>9 DEF l, IsRest

\* The least of a set of naturals.
LEMMA Smallest == ASSUME NEW S, S \subseteq Nat, S # {} PROVE \E m \in S : \A x \in S : m <= x
<1> DEFINE R == {ss \in Nat \X Nat : ss[1] < ss[2]}
<1>1. IsWellFoundedOn(R, Nat)
    BY NatLessThanWellFounded DEF OpToRel
<1>2. \E m \in S : \A y \in S : ~(<<y, m>> \in R)
  <2> HIDE DEF R
  <2> QED BY <1>1, WFMin
<1>3. PICK m \in S : \A y \in S : ~(y < m)
    BY <1>2
<1> QED BY <1>3

\* Entries that are too old are dropped: those that are left are the requests that were sent.
LEMMA Evicted ==
  ASSUME NEW w, NEW s, Tells(w, s)
  PROVE  Tells(Evict(w), s) /\ Len(Evict(w)) = Len(s)
<1> DEFINE n == Len(w) - Len(s) + 1
           stay == {i \in 1 .. Len(w) : w[i].age <= Window}
           e == Evict(w)
           lw == Len(w)
           ls == Len(s)
<1>1. w \in Seq(Entries) /\ s \in Seq(0 .. Window) /\ lw \in Nat /\ ls \in Nat /\ ls <= lw /\ ls <= RPM
    BY DEF Tells
<1>2. n \in 1 .. lw + 1
    BY <1>1
<1>3. ASSUME NEW i \in 1 .. lw PROVE i \in stay <=> i >= n
  <2>1. w[i] \in Entries /\ w[i].age \in Nat
    <3>1. \A x \in Entries : x.age \in Nat
        BY DEF Entries
    <3> QED BY <1>1, <3>1
  <2>2. CASE i < n
    <3>1. w[i].age > Window
        BY <1>1, <2>2 DEF Tells
    <3> QED BY <2>1, <2>2, <3>1
  <2>3. CASE i >= n
    <3>1. i - (lw - ls) \in 1 .. ls /\ lw - ls + (i - (lw - ls)) = i
        BY <1>1, <2>3
    <3>2. w[i].age = s[i - (lw - ls)]
        BY <3>1 DEF Tells
    <3>3. s[i - (lw - ls)] \in 0 .. Window
        BY <1>1, <3>1
    <3> QED BY <2>1, <2>3, <3>2, <3>3
  <2> QED BY <1>1, <2>2, <2>3
<1>4. e \in Seq(Entries) /\ Len(e) = ls /\ \A i \in 1 .. ls : e[i] = w[lw - ls + i]
  <2>1. \A x \in stay : x \in n .. lw
      BY <1>1, <1>3
  <2>2. n <= lw => n \in stay
      BY <1>1, <1>2, <1>3
  <2>3. e = From(w, stay)
      BY DEF Evict
  <2>4. lw - n + 1 = ls /\ \A i \in 1 .. ls : n - 1 + i = lw - ls + i
      BY <1>1
  <2>5. /\ From(w, stay) \in Seq(Entries) /\ Len(From(w, stay)) = lw - n + 1
        /\ \A i \in 1 .. lw - n + 1 : From(w, stay)[i] = w[n - 1 + i]
    <3> HIDE DEF n, stay
    <3>1. StaysFrom(n, stay, Len(w))
        BY <1>2, <2>1, <2>2 DEF StaysFrom
    <3>2. IsRest(From(w, stay), w, n, Entries)
        BY ONLY <1>1, <3>1, FromAt
    <3> QED BY <3>2 DEF IsRest
  <2> HIDE DEF e, n, stay, lw, ls
  <2> QED BY <2>3, <2>4, <2>5
<1>5. \A i \in 1 .. ls : w[lw - ls + i].age = s[i]
    BY DEF Tells
<1>6. \A i \in 1 .. ls - 1 : w[lw - ls + i].age >= w[lw - ls + (i + 1)].age
  <2> SUFFICES ASSUME NEW i \in 1 .. ls - 1 PROVE w[lw - ls + i].age >= w[lw - ls + (i + 1)].age
      OBVIOUS
  <2>1. lw - ls + i \in 1 .. lw - 1 /\ lw - ls + (i + 1) = (lw - ls + i) + 1
      BY <1>1
  <2>2. \A k \in 1 .. lw - 1 : w[k].age >= w[k + 1].age
      BY DEF Tells
  <2> QED BY <2>1, <2>2
<1> HIDE DEF e
<1>7. \A i \in 1 .. ls - 1 : e[i].age >= e[i + 1].age
  <2>1. \A i \in 1 .. ls - 1 : i \in 1 .. ls /\ i + 1 \in 1 .. ls
      BY <1>1
  <2> QED BY <1>4, <1>6, <2>1
<1>8. \A i \in 1 .. ls : e[i].age = s[i] /\ ls - ls + i = i
    BY <1>1, <1>4, <1>5
<1>9. 1 .. ls - ls = {}
    BY <1>1
<1>10. Tells(e, s)
    BY <1>1, <1>4, <1>7, <1>8, <1>9 DEF Tells
<1> QED BY <1>4, <1>10 DEF e

\* A request is sent when fewer than the limit are left, and has its entry.
LEMMA Admitted ==
  ASSUME NEW w, NEW s, Tells(w, s), Len(w) = Len(s), Len(w) < RPM, NEW n \in Nat
  PROVE  Tells(Append(w, [age |-> 0, tokens |-> n]), Append(s, 0))
<1> DEFINE e == [age |-> 0, tokens |-> n]
           ww == Append(w, e)
           ss == Append(s, 0)
           l == Len(w)
<1>1. w \in Seq(Entries) /\ s \in Seq(0 .. Window) /\ Len(s) = l /\ l \in Nat /\ l < RPM
    BY DEF Tells
<1>2. e \in Entries /\ 0 \in 0 .. Window /\ e.age = 0
    BY DEF Entries
<1>3. \A i \in 1 .. l : w[i].age = s[i] /\ w[i].age \in Nat
  <2>1. \A i \in 1 .. l : l - l + i = i
      BY <1>1
  <2>2. \A i \in 1 .. l : w[i] \in Entries
      BY <1>1
  <2> QED BY <1>1, <2>1, <2>2 DEF Tells, Entries
<1>4. \A i \in 1 .. l - 1 : w[i].age >= w[i + 1].age
    BY DEF Tells
<1> HIDE DEF e
<1>5. ww \in Seq(Entries) /\ Len(ww) = l + 1 /\ ww[l + 1] = e /\ \A i \in 1 .. l : ww[i] = w[i]
    BY <1>1, <1>2
<1>6. ss \in Seq(0 .. Window) /\ Len(ss) = l + 1 /\ ss[l + 1] = 0 /\ \A i \in 1 .. l : ss[i] = s[i]
    BY <1>1, <1>2
<1> HIDE DEF ww, ss, l
<1>7. \A i \in 1 .. l + 1 : i \in 1 .. l \/ i = l + 1
    BY <1>1
<1>8. \A i \in 1 .. l + 1 : ww[i].age = ss[i]
    BY <1>2, <1>3, <1>5, <1>6, <1>7
<1>9. \A i \in 1 .. (l + 1) - 1 : ww[i].age >= ww[i + 1].age
  <2> SUFFICES ASSUME NEW i \in 1 .. l PROVE ww[i].age >= ww[i + 1].age
      BY <1>1
  <2>1. CASE i = l
      BY <1>2, <1>3, <1>5, <2>1
  <2>2. CASE i # l
    <3>1. i \in 1 .. l - 1 /\ i + 1 \in 1 .. l
        BY <1>1, <2>2
    <3> QED BY <1>4, <1>5, <3>1
  <2> QED BY <2>1, <2>2
<1>10. 1 .. (l + 1) - (l + 1) = {} /\ \A i \in 1 .. l + 1 : (l + 1) - (l + 1) + i = i
    BY <1>1
<1>11. l + 1 <= RPM
    BY <1>1
<1>12. Tells(ww, ss)
    BY <1>5, <1>6, <1>8, <1>9, <1>10, <1>11 DEF Tells
<1> QED BY <1>12 DEF ww, ss, e

\* A corrected count leaves the ages.
LEMMA Corrected ==
  ASSUME NEW w, NEW s, Tells(w, s), NEW n \in Nat
  PROVE  Tells(RecordActual(w, n), s)
<1> DEFINE r == RecordActual(w, n)
<1>1. w \in Seq(Entries)
    BY DEF Tells
<1>2. CASE w = <<>>
    BY <1>2 DEF RecordActual
<1>3. CASE w # <<>>
  <2> DEFINE l == Len(w)
             x == w[l]
             y == [x EXCEPT !.tokens = n]
  <2>1. l \in 1 .. Len(w) /\ x \in Entries
      BY <1>1, <1>3, EmptySeq
  <2>2. y \in Entries /\ y.age = x.age
      BY <2>1 DEF Entries
  <2>3. r = [w EXCEPT ![l] = y]
      BY <1>3 DEF RecordActual
  <2> HIDE DEF y, r
  <2>4. r \in Seq(Entries) /\ Len(r) = Len(w) /\ \A i \in 1 .. Len(w) : r[i].age = w[i].age
      BY <1>1, <2>1, <2>2, <2>3
  <2>5. \A i \in 1 .. Len(w) - 1 : r[i].age >= r[i + 1].age
    <3>1. \A i \in 1 .. Len(w) - 1 : i \in 1 .. Len(w) /\ i + 1 \in 1 .. Len(w)
        BY <1>1
    <3> QED BY <2>4, <3>1 DEF Tells
  <2>6. \A i \in 1 .. Len(s) : r[Len(w) - Len(s) + i].age = s[i]
    <3>1. \A i \in 1 .. Len(s) : Len(w) - Len(s) + i \in 1 .. Len(w)
        BY <1>1 DEF Tells
    <3> QED BY <2>4, <3>1 DEF Tells
  <2>7. \A i \in 1 .. Len(w) - Len(s) : r[i].age > Window
    <3>1. \A i \in 1 .. Len(w) - Len(s) : i \in 1 .. Len(w)
        BY <1>1 DEF Tells
    <3> QED BY <2>4, <3>1 DEF Tells
  <2> QED BY <2>4, <2>5, <2>6, <2>7 DEF Tells, r
<1> QED BY <1>2, <1>3


\* Time passes: what is sent drops out as its entry becomes too old.
LEMMA Aged == ASSUME AgesInv, LimiterTick PROVE AgesInv'
<1> DEFINE lw == Len(window)
           ls == Len(sent)
           up == [i \in 1 .. ls |-> sent[i] + 1]
           stay == {i \in 1 .. ls : sent[i] < Window}
           older(a) == IF a > Window THEN a ELSE a + 1
<1>1. /\ window \in Seq(Entries) /\ sent \in Seq(0 .. Window) /\ lw \in Nat /\ ls \in Nat
      /\ ls <= lw /\ ls <= RPM
    BY DEF AgesInv, Tells
<1>2. /\ \A i \in 1 .. lw : window[i] \in Entries
      /\ \A i \in 1 .. lw : window[i].age \in 0 .. Window + 1
      /\ \A i \in 1 .. ls : sent[i] \in 0 .. Window
  <2>1. \A x \in Entries : x.age \in 0 .. Window + 1
      BY DEF Entries
  <2> QED BY <1>1, <2>1
<1>3. \A a \in 0 .. Window + 1 : older(a) \in 0 .. Window + 1 /\ older(a) >= a
    OBVIOUS
<1>4. window' \in Seq(Entries) /\ Len(window') = lw /\ \A i \in 1 .. lw : window'[i].age = older(window[i].age)
  <2> DEFINE aged(x) == [x EXCEPT !.age = IF @ > Window THEN @ ELSE @ + 1]
  <2>1. window' = [i \in 1 .. lw |-> aged(window[i])]
      BY DEF LimiterTick
  <2>2. \A x \in Entries : aged(x) \in Entries /\ aged(x).age = older(x.age)
    <3> SUFFICES ASSUME NEW x \in Entries PROVE aged(x) \in Entries /\ aged(x).age = older(x.age)
        OBVIOUS
    <3>1. x.age \in 0 .. Window + 1
        BY DEF Entries
    <3>2. older(x.age) \in 0 .. Window + 1
        BY <1>3, <3>1
    <3>3. aged(x) = [x EXCEPT !.age = older(x.age)]
        BY DEF Entries
    <3> HIDE DEF aged, older
    <3> QED BY <3>2, <3>3 DEF Entries
  <2> HIDE DEF aged, older
  <2>3. window' \in [1 .. lw -> Entries]
      BY <1>2, <2>1, <2>2
  <2>4. window' \in Seq(Entries)
    <3> HIDE DEF lw
    <3> QED BY <1>1, <2>3, SeqDef
  <2>5. Len(window') = lw
    <3>1. DOMAIN window' = 1 .. lw
        BY <2>3
    <3> HIDE DEF lw
    <3> QED BY <1>1, <2>4, <3>1, LenProperties
  <2> QED BY <1>2, <2>1, <2>2, <2>4, <2>5
<1>5. PICK n \in 1 .. ls + 1 : (n <= ls => n \in stay) /\ \A x \in stay : x \in n .. ls
  <2> DEFINE S == stay \cup {ls + 1}
  <2>1. S \subseteq Nat /\ S # {}
      BY <1>1
  <2>2. PICK m \in S : \A x \in S : m <= x
    <3> HIDE DEF S
    <3> QED BY <2>1, Smallest
  <2>3. m \in 1 .. ls + 1 /\ (m <= ls => m \in stay)
    <3>1. m \in S
        BY <2>2
    <3>2. CASE m \in stay
        BY <1>1, <3>2
    <3>3. CASE m = ls + 1
        BY <1>1, <3>3
    <3> QED BY <3>1, <3>2, <3>3
  <2>4. \A x \in stay : x \in m .. ls
      BY <1>1, <2>1, <2>2
  <2> QED BY <2>3, <2>4
<1>6. up \in Seq(Nat) /\ Len(up) = ls /\ \A i \in 1 .. ls : up[i] = sent[i] + 1
  <2>1. up \in [1 .. ls -> Nat]
      BY <1>2
  <2>2. up \in Seq(Nat)
      BY <1>1, <2>1, SeqDef
  <2>3. DOMAIN up = 1 .. ls /\ \A i \in 1 .. ls : up[i] = sent[i] + 1
      OBVIOUS
  <2> HIDE DEF up, ls
  <2> QED BY <1>1, <2>2, <2>3, LenProperties
<1> DEFINE s == sent'
           k == ls - n + 1
<1>7. /\ s \in Seq(Nat) /\ Len(s) = k
      /\ \A i \in 1 .. k : s[i] = up[n - 1 + i]
  <2>1. s = From(up, stay)
      BY DEF LimiterTick
  <2> HIDE DEF up, ls, stay, s
  <2>2. /\ From(up, stay) \in Seq(Nat) /\ Len(From(up, stay)) = Len(up) - n + 1
        /\ \A i \in 1 .. Len(up) - n + 1 : From(up, stay)[i] = up[n - 1 + i]
    <3>1. StaysFrom(n, stay, Len(up))
        BY <1>5, <1>6 DEF StaysFrom
    <3>2. up \in Seq(Nat)
        BY <1>6
    <3>3. IsRest(From(up, stay), up, n, Nat)
        BY ONLY <3>1, <3>2, FromAt
    <3> QED BY <3>3 DEF IsRest
  <2> QED BY <1>6, <2>1, <2>2
<1>8. n \in Nat /\ n >= 1 /\ n <= ls + 1 /\ k \in Nat /\ k <= ls /\ lw - k = (lw - ls) + (n - 1)
    BY <1>1, <1>5
\* What was sent and stays is not as old as the window.
<1>9. \A i \in 1 .. lw - 1 : window[i].age >= window[i + 1].age
    BY DEF AgesInv, Tells
<1>10. \A i \in 1 .. ls : window[lw - ls + i].age = sent[i]
    BY DEF AgesInv, Tells
<1>11. \A i, j \in 1 .. ls : i + 1 = j => sent[i] >= sent[j]
  <2> SUFFICES ASSUME NEW i \in 1 .. ls, NEW j \in 1 .. ls, i + 1 = j PROVE sent[i] >= sent[j]
      OBVIOUS
  <2>1. lw - ls + i \in 1 .. lw - 1 /\ lw - ls + j = (lw - ls + i) + 1
    <3>1. lw \in Nat /\ ls \in Nat /\ ls <= lw
        BY <1>1
    <3> HIDE DEF lw, ls
    <3> QED BY <3>1
  <2> QED BY <1>9, <1>10, <2>1
<1>12. \A i \in n .. ls : sent[i] < Window
  <2> DEFINE F == {i \in n .. ls : ~(sent[i] < Window)}
  <2>1. ASSUME F # {} PROVE FALSE
    <3>1. F \subseteq Nat
        BY <1>8
    <3>2. PICK m \in F : \A x \in F : m <= x
      <4> HIDE DEF F
      <4> QED BY <2>1, <3>1, Smallest
    <3>3. m \in n .. ls /\ m \in 1 .. ls /\ ~(sent[m] < Window)
        BY <1>1, <1>8
    <3>4. m # n
        BY <1>5, <3>3
    <3>5. m - 1 \in n .. ls /\ m - 1 \in 1 .. ls /\ (m - 1) + 1 = m
        BY <1>1, <1>8, <3>3, <3>4
    <3>6. sent[m - 1] >= sent[m]
        BY <1>11, <3>3, <3>5
    <3>7. m - 1 \in F
        BY <1>2, <3>3, <3>5, <3>6
    <3> QED BY <3>2, <3>3, <3>7
  <2> QED BY <2>1
<1>13. \A i \in 1 .. k : n - 1 + i \in n .. ls /\ n - 1 + i \in 1 .. ls /\ lw - k + i = lw - ls + (n - 1 + i)
    BY <1>1, <1>8
<1>14. \A i \in 1 .. k : s[i] = sent[n - 1 + i] + 1 /\ s[i] \in 0 .. Window
  <2> SUFFICES ASSUME NEW i \in 1 .. k PROVE s[i] = sent[n - 1 + i] + 1 /\ s[i] \in 0 .. Window
      OBVIOUS
  <2> DEFINE j == n - 1 + i
  <2>1. j \in 1 .. ls /\ j \in n .. ls
      BY <1>13
  <2>2. s[i] = up[j]
      BY <1>7
  <2> HIDE DEF s, k, j, up, ls
  <2>3. s[i] = sent[j] + 1
      BY <1>6, <2>1, <2>2
  <2>4. sent[j] \in 0 .. Window /\ sent[j] < Window
      BY <1>2, <1>12, <2>1
  <2>5. sent[j] + 1 \in 0 .. Window
      BY <2>4
  <2> QED BY <2>3, <2>5 DEF j
<1>15. s \in Seq(0 .. Window)
  <2> HIDE DEF s, k
  <2>1. DOMAIN s = 1 .. k /\ s \in [1 .. k -> Nat] /\ k \in Nat
      BY <1>7, LenProperties
  <2>2. s \in [1 .. k -> 0 .. Window]
      BY <1>14, <2>1
  <2> QED BY <2>1, <2>2, SeqDef
<1>16. \A i \in 1 .. k : window'[lw - k + i].age = s[i]
  <2> SUFFICES ASSUME NEW i \in 1 .. k PROVE window'[lw - k + i].age = s[i]
      OBVIOUS
  <2> DEFINE j == n - 1 + i
             q == lw - ls + j
  <2>1. j \in 1 .. ls /\ j \in n .. ls /\ q \in 1 .. lw /\ lw - k + i = q
      BY <1>1, <1>13
  <2>2. window'[q].age = older(window[q].age) /\ window[q].age = sent[j]
      BY <1>4, <1>10, <2>1
  <2>3. older(sent[j]) = sent[j] + 1
    <3>1. sent[j] \in 0 .. Window /\ sent[j] < Window
        BY <1>2, <1>12, <2>1
    <3> QED BY <3>1
  <2> QED BY <1>14, <2>1, <2>2, <2>3
<1>17. \A i \in 1 .. lw - k : window'[i].age > Window
  <2> SUFFICES ASSUME NEW i \in 1 .. lw - k PROVE window'[i].age > Window
      OBVIOUS
  <2>1. i \in 1 .. lw /\ window[i].age \in 0 .. Window + 1 /\ window'[i].age = older(window[i].age)
      BY <1>1, <1>2, <1>4, <1>8
  <2>2. CASE i <= lw - ls
    <3>1. window[i].age > Window
        BY <1>1, <2>1, <2>2 DEF AgesInv, Tells
    <3> QED BY <2>1, <3>1
  <2>3. CASE i > lw - ls
    <3> DEFINE j == i - (lw - ls)
    <3>1. j \in 1 .. ls /\ j < n /\ lw - ls + j = i
        BY <1>1, <1>8, <2>1, <2>3
    <3>2. sent[j] = Window
      <4>1. j \notin stay
          BY <1>1, <1>5, <1>8, <3>1
      <4> QED BY <1>2, <3>1, <4>1
    <3>3. window[i].age = Window
        BY <1>10, <3>1, <3>2
    <3> QED BY <2>1, <3>3
  <2> QED BY <1>1, <2>1, <2>2, <2>3
<1>18. \A i \in 1 .. lw - 1 : window'[i].age >= window'[i + 1].age
  <2> SUFFICES ASSUME NEW i \in 1 .. lw - 1 PROVE window'[i].age >= window'[i + 1].age
      OBVIOUS
  <2>1. i \in 1 .. lw /\ i + 1 \in 1 .. lw
      BY <1>1
  <2>2. \A a, b \in 0 .. Window + 1 : a >= b => older(a) >= older(b)
      OBVIOUS
  <2> HIDE DEF older
  <2> QED BY <1>2, <1>4, <1>9, <2>1, <2>2
<1>19. k <= RPM /\ k <= lw
    BY <1>1, <1>8
<1> HIDE DEF s, k, lw
<1>20. Tells(window', s)
    BY <1>4, <1>7, <1>15, <1>16, <1>17, <1>18, <1>19 DEF Tells
<1> QED BY <1>20 DEF AgesInv, s


-----------------------------------------------------------------------------
(* Every step.                                                             *)

\* A step is time that passes or one call's.
LEMMA EachStep ==
  ASSUME ToldInv, QueueInv, Next
  PROVE  Tick \/ \E c \in Callers : \E b : Leads(c, b)
<1>1. CASE Tick
    BY <1>1
<1>2. ASSUME NEW c \in Callers,
             Begin(c) \/ Serve(c) \/ Expire(c) \/ Event(c) \/ Abandoned(c) \/ Return(c)
      PROVE  \E b : Leads(c, b)
  <2>1. CASE Begin(c)
      BY <2>1, BeginStep
  <2>2. CASE Serve(c)
      BY <2>2, AcquireStep, RetryStep DEF Serve
  <2>3. CASE Expire(c)
      BY <2>3, OverStep, LastStep DEF Expire
  <2>4. CASE Event(c)
      BY <2>4, ItemStep, QuietStep, LastStep DEF Event
  <2>5. CASE Abandoned(c)
      BY <2>5, OverStep
  <2>6. CASE Return(c)
      BY <2>6, ReturnStep
  <2> QED BY <1>2, <2>1, <2>2, <2>3, <2>4, <2>5, <2>6
<1> QED BY <1>1, <1>2 DEF Next

\* The count an attempt reports corrects the window or leaves it.
LEMMA Committed ==
  ASSUME AgesInv, NEW n, NEW reported, reported \subseteq Nat, Commit(n, reported), sent' = sent
  PROVE  AgesInv'
<1>1. CASE reported \subseteq {n}
    BY <1>1 DEF Commit, AgesInv
<1>2. CASE ~(reported \subseteq {n})
  <2>1. PICK m \in Nat : window' = RecordActual(window, m)
    <3>1. (CHOOSE m \in reported : TRUE) \in reported
        BY <1>2
    <3> QED BY <1>2, <3>1 DEF Commit
  <2> QED BY <2>1, Corrected DEF AgesInv
<1> QED BY <1>1, <1>2

\* Whatever a step does to the window and to what was sent, each request has its entry.
LEMMA AgesStep == ASSUME ToldInv, AgesInv, Next PROVE AgesInv'
<1>1. CASE Tick
    BY <1>1, Aged DEF Tick
<1>2. ASSUME NEW c \in Callers, UNCHANGED <<window, sent>> PROVE AgesInv'
    BY <1>2 DEF AgesInv
<1>3. ASSUME NEW c \in Callers, Acquire(c) PROVE AgesInv'
  <2> DEFINE w == Evict(window)
  <2>1. Tells(w, sent) /\ Len(w) = Len(sent)
      BY Evicted DEF AgesInv
  <2>2. call[c].est \in Nat
    <3>1. call[c] \in Calls
        BY DEF ToldInv
    <3> QED BY <3>1 DEF Calls
  <2>3. CASE Fits(w, call[c].est)
    <3>1. Len(w) < RPM
        BY <2>3 DEF Fits
    <3>2. window' = Append(w, [age |-> 0, tokens |-> call[c].est]) /\ sent' = Append(sent, 0)
        BY <1>3, <2>3 DEF Acquire, Admit
    <3> HIDE DEF w
    <3> QED BY <2>1, <2>2, <3>1, <3>2, Admitted DEF AgesInv
  <2>4. CASE ~Fits(w, call[c].est)
    <3>1. window' = w /\ sent' = sent
        BY <1>3, <2>4 DEF Acquire
    <3> QED BY <2>1, <3>1 DEF AgesInv
  <2> QED BY <2>3, <2>4
<1>4. ASSUME NEW c \in Callers, Event(c) PROVE AgesInv'
  <2>1. CASE \/ Opened(c) \/ Broken(c) \/ StreamCancelled(c) \/ ItemDone(c) \/ MoreEvents(c) \/ FailedUnnamed(c)
             \/ \E kind \in Kinds : ItemAdded(c, kind)
             \/ \E transient \in BOOLEAN : ErrorEvent(c, transient)
    <3>1. UNCHANGED <<window, sent>>
        BY <2>1 DEF Opened, Broken, StreamCancelled, ItemDone, MoreEvents, FailedUnnamed, ItemAdded, ErrorEvent, limiter
    <3> QED BY <1>2, <3>1
  <2>2. ASSUME NEW whole \in BOOLEAN, Stalled(c, whole) PROVE AgesInv'
    <3>1. CASE whole
      <4>1. Commit(call[c].est, {0}) /\ sent' = sent
          BY <2>2, <3>1 DEF Stalled
      <4> QED BY <4>1, Committed
    <3>2. CASE ~whole
        BY <1>2, <2>2, <3>2 DEF Stalled
    <3> QED BY <3>1, <3>2
  <2>3. \A reported \in Reports : reported \subseteq Nat
      BY DEF Reports
  <2>4. ASSUME NEW transient \in BOOLEAN, NEW reported \in Reports, Unfinished(c, transient, reported)
        PROVE  AgesInv'
    <3>1. Commit(call[c].est, reported) /\ sent' = sent
        BY <2>4 DEF Unfinished
    <3> QED BY <2>3, <3>1, Committed
  <2>5. CASE Closed(c)
    <3>1. (\E reported \in Reports : Commit(call[c].est, reported)) /\ sent' = sent
        BY <2>5 DEF Closed
    <3> QED BY <2>3, <3>1, Committed
  <2>6. ASSUME NEW actual \in Actuals, Completed(c, actual) PROVE AgesInv'
    <3>1. Commit(call[c].est, {actual}) /\ sent' = sent /\ {actual} \subseteq Nat
        BY <2>6 DEF Completed
    <3> QED BY <3>1, Committed
  <2> QED BY <1>4, <2>1, <2>2, <2>4, <2>5, <2>6 DEF Event
<1>5. ASSUME NEW c \in Callers, Begin(c) \/ Retry(c) \/ TurnExpires(c) \/ Abandoned(c) \/ Return(c) PROVE AgesInv'
  <2>1. UNCHANGED <<window, sent>>
      BY <1>5 DEF Begin, Retry, TurnExpires, Abandoned, Return, limiter
  <2> QED BY <1>2, <2>1
<1>6. ASSUME NEW c \in Callers, Broken(c) PROVE AgesInv'
    BY <1>4, <1>6 DEF Event
<1> QED BY <1>1, <1>3, <1>4, <1>5, <1>6 DEF Next, Serve, Expire

\* The whole invariant, and what a step never does.
WholeInv == ToldInv /\ QueueInv /\ AgesInv

Unhidden == \A c \in Callers : call[c].pc = "backoff" => call'[c].end # "timeout"

LEMMA WholeStep == ASSUME WholeInv, [Next]_vars PROVE WholeInv' /\ Unhidden
<1>1. CASE UNCHANGED vars
  <2>1. call' = call /\ shown' = shown /\ window' = window /\ lock' = lock /\ sent' = sent
      BY <1>1 DEF vars, limiter
  <2>2. Unhidden
    <3>1. \A c \in Callers : call[c].pc = "backoff" => call[c].end = "none"
        BY DEF WholeInv, ToldInv, Sound, Goes
    <3> QED BY <2>1, <3>1 DEF Unhidden
  <2> QED BY <2>1, <2>2 DEF WholeInv, ToldInv, QueueInv, AgesInv
<1>2. CASE Next
  <2>1. AgesInv'
      BY <1>2, AgesStep DEF WholeInv
  <2>2. CASE Tick
    <3>1. /\ ToldInv' /\ \A c \in Callers : call'[c].end = call[c].end /\ call'[c].pc = call[c].pc
        BY <2>2, TickStep DEF WholeInv
    <3>2. lock' = lock
        BY <2>2 DEF Tick, LimiterTick
    <3>3. QueueInv'
        BY <3>1, <3>2 DEF WholeInv, QueueInv
    <3>4. \A c \in Callers : call[c].pc = "backoff" => call[c].end = "none"
        BY DEF WholeInv, ToldInv, Sound, Goes
    <3> QED BY <2>1, <3>1, <3>3, <3>4 DEF WholeInv, Unhidden
  <2>3. ASSUME NEW c \in Callers, NEW b, Leads(c, b) PROVE WholeInv' /\ Unhidden
      BY <2>1, <2>3, OneCall, OneLock DEF WholeInv, Unhidden
  <2> QED BY <1>2, <2>2, <2>3, EachStep DEF WholeInv
<1> QED BY <1>1, <1>2

LEMMA WholeInit == Init => WholeInv
<1> SUFFICES ASSUME Init PROVE WholeInv
    OBVIOUS
<1>1. /\ call = [c \in Callers |-> NoCall] /\ shown = [c \in Callers |-> <<>>]
      /\ window = <<>> /\ lock = <<>> /\ sent = <<>>
    BY DEF Init, LimiterInit
<1>2. NoCall \in Calls
  <2>1. 1 \in 1 .. Attempts /\ 0 \in 0 .. Turn /\ 0 \in Nat /\ <<>> \in Seq(Pieces)
      OBVIOUS
  <2> QED BY <2>1 DEF NoCall, Calls, Ends
<1>3. Streamed(1, 0) = <<>> /\ <<>> \in Seq(Pieces)
  <2>1. 1 \in 1 .. Attempts /\ 0 \in Nat
      OBVIOUS
  <2> QED BY <2>1, Streams
<1>4. Sound(NoCall, <<>>)
    BY <1>2, <1>3 DEF NoCall, Sound, Affords, Goes, Sees, Honest
<1>5. ToldInv
  <2>1. \A c \in Callers : NoCall.items <= MaxItems[c]
    <3>1. \A c \in Callers : MaxItems[c] \in Nat
        OBVIOUS
    <3> QED BY <3>1 DEF NoCall
  <2> QED BY <1>1, <1>2, <1>3, <1>4, <2>1 DEF ToldInv
<1>6. QueueInv
  <2>1. lock \in Seq(Callers) /\ Len(lock) = 0 /\ 1 .. Len(lock) = {}
      BY <1>1
  <2>2. \A c \in Callers : call[c].pc \notin Held
      BY <1>1 DEF NoCall, Held
  <2> QED BY <2>1, <2>2 DEF QueueInv, Held
<1>7. AgesInv
    BY <1>1 DEF AgesInv, Tells
<1> QED BY <1>5, <1>6, <1>7 DEF WholeInv

LEMMA WholeCorrect == Spec => []WholeInv /\ [][Unhidden]_vars
<1> QED BY WholeInit, WholeStep, PTL DEF Spec

-----------------------------------------------------------------------------
(* What follows from it.                                                   *)

\* CallInv of every specification: types and the lock's queue fit the calls, an answer is what
\* the listener was shown (OpenAIProvider._complete), and a declared failure stands.
THEOREM CallsCorrect == Spec => []CallInv
<1>1. WholeInv => CallInv
  <2> SUFFICES ASSUME WholeInv PROVE CallInv
      OBVIOUS
  <2>1. /\ call \in [Callers -> Calls] /\ shown \in [Callers -> Seq(Pieces)]
        /\ \A c \in Callers : Sound(call[c], shown[c]) /\ call[c].items <= MaxItems[c]
      BY DEF WholeInv, ToldInv
  <2>2. AnswerWasShown /\ FailureStands
      BY <2>1 DEF AnswerWasShown, FailureStands, Sound, Honest
  <2>3. Range(lock) = {c \in Callers : call[c].pc \in Held}
    <3>1. lock \in Seq(Callers) /\ DOMAIN lock = 1 .. Len(lock) /\ \A i \in 1 .. Len(lock) : lock[i] \in Callers
        BY DEF WholeInv, QueueInv
    <3>2. \A c \in Callers : call[c].pc \in Held <=> \E i \in 1 .. Len(lock) : lock[i] = c
        BY DEF WholeInv, QueueInv
    <3>3. \A x : x \in Range(lock) <=> \E i \in 1 .. Len(lock) : lock[i] = x
        BY <3>1 DEF Range
    <3>4. \A x : x \in Range(lock) <=> x \in Callers /\ call[x].pc \in Held
        BY <3>1, <3>2, <3>3
    <3> QED BY <3>4
  <2>4. \A c \in Callers : call[c].pc = "sleeping" => lock[1] = c
      BY DEF WholeInv, QueueInv
  <2>5. window \in Seq(Entries) /\ \A i \in 1 .. Len(window) - 1 : window[i].age >= window[i + 1].age
      BY DEF WholeInv, AgesInv, Tells
  <2>6. TypeOK
      BY <2>1, <2>3, <2>4, <2>5 DEF TypeOK, Calls, Pieces
  <2> QED BY <2>2, <2>6 DEF CallInv
<1> QED BY <1>1, WholeCorrect, PTL

\* RateKept of every specification: RateLimiter lets no more than requests_per_minute through in
\* any window, whatever callers give up, sleep or are corrected meanwhile.
THEOREM LimitHolds == Spec => []RateKept
<1>1. WholeInv => RateKept
    BY DEF WholeInv, AgesInv, Tells, RateKept
<1> QED BY <1>1, WholeCorrect, PTL

\* NoHiddenFailure of every specification: no wait for a retry (OpenAIProvider._complete) ends
\* in the timeout of the budget.
THEOREM FailureTold == Spec => NoHiddenFailure
<1>1. [Unhidden]_vars => [\A c \in Callers : call[c].pc = "backoff" => call'[c].end # "timeout"]_vars
    BY DEF Unhidden
<1> QED BY <1>1, WholeCorrect, PTL DEF NoHiddenFailure


================================================================================
